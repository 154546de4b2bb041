----------------------------- MODULE AudioFilter -----------------------------
(***************************************************************************)
(* The audio filter of emu/audio.c: the two lines of the link port, which  *)
(* change at single clocks, become samples at the rate of a sound device.  *)
(* Every sample that is still to come has an accumulator, to which a       *)
(* change of a line adds what it is worth by then; a timer of whole        *)
(* microseconds takes the oldest sample and starts a new one.  The         *)
(* coefficients of the filter are a parameter.                             *)
(*   The program's clocks, the timer of the Z80 and the clockspeed of the       *)
(* processor are those of Z80Timers.                                       *)
(***************************************************************************)
EXTENDS Integers, Sequences

CONSTANTS
    PerUs,      \* SUBTICKS_PER_US: 30
    Kilo,       \* microseconds in the unit of the clock speed: 1000
    Second,     \* microseconds in a second: 1000000
    Length,     \* length of the filter in subticks: SUBTICKRATE / 500
    Coeff,      \* its coefficients, scaled: [0..Length-1 -> Int]
    HalfRange,  \* values of a sample are -HalfRange..HalfRange-1: 32768
    VShift,     \* 2^VSHIFT: 16384
    Devices,    \* what devices offer: [rate, channels, format, size of a buffer in bytes]
    Volumes,    \* volumes, in quarters
    ClockSpeeds,\* clocks in Kilo microseconds
    Strides,    \* clocks of the parts of instructions
    MaxFrames,  \* bound: frames before the program stops
    MaxChanges, \* bound: changes of the lines and the clockspeed since the timer is on
    Outputs     \* what the program writes to the lines

ASSUME AudioAssumption ==
    /\ {PerUs, Kilo, Second, Length, HalfRange, VShift} \subseteq Nat \ {0}
    /\ \A d \in Devices : d.rate \in 1..Second /\ d.channels \in {1, 2}
    \* A clock is a whole number of subticks, a microsecond one of clocks.
    /\ \A s \in ClockSpeeds : (PerUs * Kilo) % s = 0 /\ s % Kilo = 0

VARIABLES
    af,         \* TilemAudioFilter
    lines,      \* linkport.lines, the lines that the program pulls down
    until,      \* clocks until the timer of the filter fires
    clockspeed,      \* z80.clockspeed
    elapsed,    \* history: subticks since the timer is on
    frames,     \* history: frames written since
    changes,    \* history: [at, line, low] for each change of a line since
    switches    \* history: changes of the speed since

soundVars == <<af, lines, until, clockspeed, elapsed, frames, changes, switches>>

SubtickRate == PerUs * Second
Subticks(clocks) == (clocks * PerUs * Kilo) \div clockspeed
Clocks(us) == (us * clockspeed + Kilo \div 2) \div Kilo

-----------------------------------------------------------------------------
(* filter_setup()                                                          *)

PadNear == PerUs + 1
CeilDiv(a, b) == (a + b - 1) \div b
Accums(rate) == CeilDiv((Length + PadNear) * rate, SubtickRate)
PadFar(rate) == PadNear + Accums(rate) * CeilDiv(SubtickRate, rate) - Length
FilterSize(rate) == Length + PadNear + PadFar(rate)

(* filter_sum without its padding, and what the negative coefficients add  *)
(* up to.                                                                  *)
PartialSum[i \in 0..(Length - 1)] == Coeff[i] + (IF i = 0 THEN 0 ELSE PartialSum[i - 1])
Negative ==
    LET f[i \in 0..Length] ==
          IF i = 0 THEN 0 ELSE f[i - 1] - (IF Coeff[i - 1] < 0 THEN Coeff[i - 1] ELSE 0)
    IN  f[Length]

InitHigh == Negative - HalfRange
InitLow == InitHigh + PartialSum[Length - 1]

(* What a line that is low for st subticks before a sample adds to it.     *)
FilterSum(st) ==
    IF st < PadNear THEN 0
    ELSE PartialSum[IF st < PadNear + Length THEN st - PadNear ELSE Length - 1]

(* An interval of n units per second, as whole ones: the shorter is used   *)
(* after the longer ones have been too long.                               *)
Period(n, rate, err) == IF err > 0 THEN n \div rate ELSE CeilDiv(n, rate)
ErrAfter(n, rate, err) == err + rate * Period(n, rate, err) - n

-----------------------------------------------------------------------------
(* Volume and output.                                                      *)

(* tilem_audio_filter_set_volume(): the constant added to the samples.     *)
VScale(channels, volume) == (volume * VShift * channels) \div 8
DcOffset(channels, volume) ==
    LET cscale == VScale(channels, volume) * (2 \div channels)
        max == (HalfRange - 1) * cscale
        null == InitHigh * cscale
    IN  IF max - null <= (HalfRange - 1) * VShift THEN -null
        ELSE IF cscale <= VShift THEN (HalfRange - 1) * VShift - max
        ELSE 0
WithVolume(a, v) ==
    [a EXCEPT !.volume = v, !.vscale = VScale(a.channels, v),
              !.dc = IF a.channels = 0 THEN @ ELSE DcOffset(a.channels, v)]

(* conv16() without its dithering, relative to the middle.                 *)
Conv(samp) ==
    LET v == samp \div VShift
    IN  IF v < -HalfRange THEN -HalfRange ELSE IF v >= HalfRange THEN HalfRange - 1 ELSE v

FrameBytes(a) == a.channels * (IF a.format = "16 bit" THEN 2 ELSE 1)

(* put_frame(): without a callback the processor is stopped when the       *)
(* buffer is full.                                                         *)
PutFrame(a) ==
    IF a.remaining = 0 THEN [a EXCEPT !.overrun = TRUE]
    ELSE [a EXCEPT !.remaining = @ - FrameBytes(a),
                   !.stop = @ \/ a.remaining = FrameBytes(a)]
(* flush_buffer() fills the buffer with silence.                           *)
Flushed(a) == IF a.remaining = 0 THEN a ELSE [a EXCEPT !.remaining = 0, !.stop = TRUE]

-----------------------------------------------------------------------------
(* The timer.                                                              *)

OffOf(a) == [a EXCEPT !.on = FALSE]
Initial(seen, line) == IF line \in seen THEN InitLow ELSE InitHigh

(* timer_on(), with a rate, channels and a format.                         *)
OnOf(a) ==
    IF a.rate = 0 \/ a.channels = 0 \/ a.format = "none" THEN a
    ELSE [a EXCEPT
            !.on = TRUE, !.period = Second \div a.rate,
            !.terr = a.rate * (Second \div a.rate) + a.rate * CeilDiv(Second, a.rate)
                       - 2 * Second,
            !.serr = 0, !.seen = lines, !.cur = 0,
            !.accum = [i \in 0..(Accums(a.rate) - 1) |->
                        [sample |-> [l \in {0, 1} |-> Initial(lines, l)],
                         off |-> (i * SubtickRate) \div a.rate + 1]]]

Started ==
    /\ until' = Clocks(Second \div af'.rate)
    /\ elapsed' = 0 /\ frames' = 0 /\ changes' = <<>> /\ switches' = 0
Goes == UNCHANGED <<until, elapsed, frames, changes, switches>>

(* tilem_audio_filter_set_rate(), set_channels() and set_format().         *)
RateSet(a, rate) ==
    IF rate = a.rate THEN a
    ELSE LET b == WithVolume([Flushed(a) EXCEPT !.rate = rate], a.volume)
         IN  IF a.on THEN OnOf(OffOf(b)) ELSE b
ChannelsSet(a, channels) ==
    IF channels = a.channels THEN a
    ELSE WithVolume([Flushed(a) EXCEPT !.channels = channels], a.volume)
FormatSet(a, format) ==
    IF format = a.format THEN a ELSE [Flushed(a) EXCEPT !.format = format]

(* tilem_audio_filter_set_buffer(): sizes are checked against frames of 16 *)
(* bits in every format.                                                   *)
BufferSet(a, size) ==
    IF a.rate = 0 \/ a.channels = 0 \/ a.format = "none" \/ size % (2 * a.channels) # 0
      THEN a
      ELSE [a EXCEPT !.size = size, !.remaining = size, !.overrun = FALSE]

-----------------------------------------------------------------------------
NoFilter ==
    [rate |-> 0, channels |-> 0, format |-> "none", volume |-> 2, vscale |-> 0, dc |-> 0,
     on |-> FALSE, period |-> 0, terr |-> 0, serr |-> 0, seen |-> {}, cur |-> 0,
     accum |-> <<>>, size |-> 0, remaining |-> 0, overrun |-> FALSE, stop |-> FALSE]

SoundInit ==
    /\ af = NoFilter
    /\ lines \in {{}, {1}} /\ clockspeed \in ClockSpeeds
    /\ until = 0 /\ elapsed = 0 /\ frames = 0 /\ changes = <<>> /\ switches = 0

(* audio_set_buffer() of emucore.c for a device that was opened.           *)
DeviceOpened(d) ==
    /\ af.size = 0
    /\ \E a \in {BufferSet(FormatSet(ChannelsSet(RateSet(af, d.rate), d.channels), d.format),
                          d.size)} :
         af' = IF a.on THEN a ELSE OnOf(a)
    /\ IF af.on /\ d.rate = af.rate THEN Goes ELSE Started
    /\ UNCHANGED <<lines, clockspeed>>

(* The full buffer has been played and there is another.                   *)
BufferPlayed ==
    /\ af.on /\ af.size # 0 /\ af.remaining = 0
    /\ af' = [BufferSet(af, af.size) EXCEPT !.stop = FALSE]
    /\ Goes /\ UNCHANGED <<lines, clockspeed>>

(* audio_close(): the timer goes on until the next update finds no device. *)
DeviceClosed ==
    /\ af.size # 0
    /\ af' = [BufferSet(af, 0) EXCEPT !.stop = FALSE]
    /\ Goes /\ UNCHANGED <<lines, clockspeed>>
FilterOff ==
    /\ af.on /\ af.size = 0
    /\ af' = OffOf(af)
    /\ until' = 0 /\ elapsed' = 0 /\ frames' = 0 /\ changes' = <<>> /\ switches' = 0
    /\ UNCHANGED <<lines, clockspeed>>

VolumeSet(v) ==
    /\ af.volume # v /\ elapsed = 0        \* bound
    /\ af' = WithVolume(af, v)
    /\ Goes /\ UNCHANGED <<lines, clockspeed>>

-----------------------------------------------------------------------------
(* The program runs; timers are checked before it writes to a port.        *)
Runs == af.on /\ until > 0 /\ ~af.stop

Execute(clocks) ==
    /\ Runs /\ frames < MaxFrames
    /\ until' = until - clocks
    /\ elapsed' = elapsed + Subticks(clocks)
    /\ UNCHANGED <<af, lines, clockspeed, frames, changes, switches>>

(* tilem_z80_set_speed()                                                   *)
SpeedSet(s) ==
    /\ Runs /\ switches + Len(changes) < MaxChanges /\ s # clockspeed
    /\ clockspeed' = s
    /\ until' = (until * s + clockspeed \div 2) \div clockspeed
    /\ switches' = switches + 1
    /\ UNCHANGED <<af, lines, elapsed, frames, changes>>

(* The time of the sample i as link_callback() computes it, from now.      *)
SampleTime(i) == Subticks(until - 1) + af.accum[i].off

(* link_callback(): every sample gets what the change is worth to it.      *)
WritePort(new) ==
    /\ Runs /\ switches + Len(changes) < MaxChanges /\ new # lines
    /\ lines' = new
    /\ af' = [af EXCEPT !.seen = new,
                !.accum = [i \in DOMAIN @ |->
                  LET fsum == FilterSum(SampleTime(i))
                  IN  [@[i] EXCEPT !.sample = [l \in {0, 1} |->
                         IF (l \in new) = (l \in af.seen) THEN @[l]
                         ELSE IF l \in new THEN @[l] + fsum ELSE @[l] - fsum]]]]
    /\ changes' = Append(changes, [at |-> elapsed, low |-> new, was |-> af.seen])
    /\ UNCHANGED <<until, clockspeed, elapsed, frames, switches>>

Moved(a) == [a EXCEPT !.accum = [i \in DOMAIN @ |->
                [@[i] EXCEPT !.off = @ - Subticks(Clocks(a.period))]]]
Previous(a) == IF a.cur = 0 THEN Accums(a.rate) - 1 ELSE a.cur - 1

(* The accumulator of the frame that was written is that of the last one.  *)
NextSample(a) ==
    [a EXCEPT
       !.accum[a.cur] = [sample |-> [l \in {0, 1} |-> Initial(a.seen, l)],
                         off |-> a.accum[Previous(a)].off
                                   + Period(SubtickRate, a.rate, a.serr)],
       !.serr = ErrAfter(SubtickRate, a.rate, @),
       !.cur = (@ + 1) % Accums(a.rate)]

(* timer_callback(): check_timers() has set the timer for the old period.  *)
TimerFires ==
    /\ af.on /\ until <= 0
    /\ until' = until + Clocks(af.period)
    /\ \E a \in {[Moved(af) EXCEPT !.period = Period(Second, af.rate, af.terr),
                                   !.terr = ErrAfter(Second, af.rate, @)]} :
         af' = NextSample(PutFrame(a))
    /\ frames' = frames + 1
    /\ UNCHANGED <<lines, clockspeed, elapsed, changes, switches>>

SoundNext ==
    \/ \E d \in Devices : DeviceOpened(d)
    \/ BufferPlayed \/ DeviceClosed \/ FilterOff
    \/ \E v \in Volumes : VolumeSet(v)
    \/ \E clocks \in Strides : Execute(clocks)
    \/ \E s \in ClockSpeeds : SpeedSet(s)
    \/ \E new \in Outputs : WritePort(new)
    \/ TimerFires

-----------------------------------------------------------------------------
(* The frame an accumulator is for.                                        *)
FrameOf(i) == frames + ((i - af.cur) % Accums(af.rate))

(* Subticks from now until frame n is due, times the rate: frames follow   *)
(* each other at the rate exactly from the first expiry of the timer on.   *)
Due(n) == (PerUs * (Second \div af.rate) + 1 - elapsed) * af.rate + n * SubtickRate

Abs(n) == IF n < 0 THEN -n ELSE n
(* The largest coefficient.                                                *)
Steepest == CHOOSE m \in {Abs(Coeff[i]) : i \in DOMAIN Coeff} :
              \A i \in DOMAIN Coeff : Abs(Coeff[i]) <= m

(* A clock, a subtick for uneven intervals, half a clock for each switch   *)
(* of the speed, where the timer is set to whole clocks.                   *)
Tolerance == Subticks(1) + 1 + (switches * PerUs) \div 2

(* A change of the lines is always within the padded filter of every       *)
(* sample, and the time it is entered at is the true one.                  *)
TimesSound ==
    Runs => \A i \in DOMAIN af.accum :
               /\ SampleTime(i) \in 0..(FilterSize(af.rate) - 1)
               /\ Abs(SampleTime(i) * af.rate - Due(FrameOf(i))) <= Tolerance * af.rate

(* What the changes of a line up to now are worth to frame n, each entered *)
(* at the true time.                                                       *)
Exact(n, line) ==
    LET Worth(c) == FilterSum((Due(n) + (elapsed - c.at) * af.rate) \div af.rate)
        before == IF changes = <<>> THEN af.seen ELSE changes[1].was
        f[k \in 0..Len(changes)] ==
            IF k = 0 THEN Initial(before, line)
            ELSE f[k - 1] + (IF (line \in changes[k].low) = (line \in changes[k].was) THEN 0
                             ELSE IF line \in changes[k].low THEN Worth(changes[k])
                             ELSE -Worth(changes[k]))
    IN  f[Len(changes)]

(* Every sample is the output of the filter for the lines as they were,    *)
(* those before it was started included, up to what the filter changes     *)
(* within the tolerance.                                                   *)
SamplesSound ==
    Runs => \A i \in DOMAIN af.accum, line \in {0, 1} :
               Abs(af.accum[i].sample[line] - Exact(FrameOf(i), line))
                 <= Len(changes) * Steepest * (Tolerance + 1)

(* Silence is zero where that leaves room for the loudest sample; samples  *)
(* are not clipped; frames end with the buffer, and none is dropped while  *)
(* there is one.                                                           *)
OutputSound ==
    /\ af.channels # 0 =>
         LET cscale == af.vscale * (2 \div af.channels)
             Out(raw) == Conv(raw * cscale + af.dc)
         IN  /\ (HalfRange - 1 - InitHigh) * cscale <= (HalfRange - 1) * VShift
                  => Out(InitHigh) = 0
             /\ \A raw \in {-HalfRange, InitHigh, InitLow, HalfRange - 1} :
                  VShift * Out(raw) \in (raw * cscale + af.dc - VShift)..(raw * cscale + af.dc)
    /\ af.remaining \in 0..af.size
    /\ af.remaining # 0 => af.remaining % FrameBytes(af) = 0
    /\ af.size # 0 => ~af.overrun

SignalSound == TimesSound /\ SamplesSound /\ OutputSound
=============================================================================
