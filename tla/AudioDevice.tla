----------------------------- MODULE AudioDevice -----------------------------
(***************************************************************************)
(* The sound device of gui/audiodev.c: a ring of chunks between the core   *)
(* thread, whose filter writes frames into the chunk it was given, and the *)
(* thread of SDL, which calls io_callback() for the frames to play next.   *)
(* Nothing is locked: a chunk belongs to the reader while its chunk_state  *)
(* is set, and the semaphore buffer_count counts the chunks the core may   *)
(* still ask for.  SDL is external: once unpaused it calls back again and  *)
(* again, until it is closed or its thread dies.                           *)
(*   Frames are numbered in the order in which they are written.           *)
(***************************************************************************)
EXTENDS Integers, Sequences, FiniteSets

CONSTANTS
    MinFrames,  \* MIN_FRAMES_PER_CHUNK: 64
    Latencies,  \* latencies asked for, in frames
    SampleCounts,   \* frames SDL may ask for at once
    MaxWritten, \* bound: frames written to a device
    MaxSilence  \* bound: callbacks that found no chunk

ASSUME DeviceAssumption ==
    /\ MinFrames \in Nat \ {0} /\ Latencies \subseteq Nat \ {0}
    /\ SampleCounts \subseteq Nat \ {0}

VARIABLES
    dev,        \* TilemAudioDevice
    feeder,     \* the core thread: "closed", "get", "wait", "fill", "failed"
    player,     \* the SDL thread: [at, len], at "paused", "idle", "loop", "done", "dead"
    written,    \* history: frames written since the device is open
    heard,      \* history: the frames that have been played
    silent      \* history: callbacks that found no chunk

deviceVars == <<dev, feeder, player, written, heard, silent>>

-----------------------------------------------------------------------------
(* tilem_audio_device_open()                                               *)

(* What is doubled, n times, for n up to a bound it passes before that.    *)
Doublings(least, most) ==
    LET f[n \in 0..most] == IF n = 0 THEN least ELSE 2 * f[n - 1] IN f

FramesPerChunk(latency) ==
    LET f == Doublings(MinFrames, latency)
    IN  f[CHOOSE n \in 0..latency : /\ f[n] * 7 >= latency * 2
                                    /\ \A m \in 0..(n - 1) : f[m] * 7 < latency * 2]
LatencyChunks(latency, samples) ==
    LET fpc == FramesPerChunk(latency)
        most == IF samples + fpc > latency THEN samples + fpc ELSE latency
    IN  (most + fpc \div 2) \div fpc
(* The least power of two above, at least 2.                               *)
RingSize(chunks) ==
    LET f == Doublings(2, chunks)
    IN  f[CHOOSE n \in 0..chunks : f[n] > chunks /\ \A m \in 0..(n - 1) : f[m] <= chunks]

(* Mutant: it takes one chunk more to start than the core may fill.        *)
MutOpened(latency, samples) ==
    LET chunks == LatencyChunks(latency, samples)
        fpc == FramesPerChunk(latency)
    IN  [fpc |-> fpc, samples |-> samples, latency |-> chunks,
         nchunks |-> RingSize(chunks),
         chunks |-> [c \in 0..(RingSize(chunks) - 1) |-> [i \in 1..fpc |-> 0]],
         state |-> [c \in 0..(RingSize(chunks) - 1) |-> FALSE],
         rchunk |-> 0, rpos |-> 0, wchunk |-> 0, wpos |-> 0,
         pending |-> FALSE, fill |-> chunks + 1, count |-> chunks]

Opened(latency, samples) ==
    LET chunks == LatencyChunks(latency, samples)
        fpc == FramesPerChunk(latency)
    IN  [fpc |-> fpc, samples |-> samples, latency |-> chunks,
         nchunks |-> RingSize(chunks),
         chunks |-> [c \in 0..(RingSize(chunks) - 1) |-> [i \in 1..fpc |-> 0]],
         state |-> [c \in 0..(RingSize(chunks) - 1) |-> FALSE],
         rchunk |-> 0, rpos |-> 0, wchunk |-> 0, wpos |-> 0,
         pending |-> FALSE, fill |-> chunks, count |-> chunks]
NoDevice == [fpc |-> 0]

After(c) == (c + 1) % dev.nchunks

DeviceInit ==
    /\ dev = NoDevice /\ feeder = "closed" /\ player = [at |-> "paused", len |-> 0]
    /\ written = 0 /\ heard = <<>> /\ silent = 0

(* What fails closes what was opened, and leaves nothing behind.           *)
DeviceOpens(latency, samples) ==
    /\ feeder = "closed"
    /\ dev' = Opened(latency, samples)
    /\ feeder' = "get"
    /\ player' = [at |-> "paused", len |-> 0] /\ written' = 0 /\ heard' = <<>> /\ silent' = 0

(* SDL_AudioQuit() waits for the callback that is under way.               *)
DeviceCloses ==
    /\ feeder \in {"get", "fill", "failed"} /\ player.at \notin {"loop", "done"}
    /\ dev' = NoDevice /\ feeder' = "closed"
    /\ player' = [at |-> "paused", len |-> 0] /\ written' = 0 /\ heard' = <<>> /\ silent' = 0

-----------------------------------------------------------------------------
(* The core thread.                                                        *)

(* tilem_audio_device_get_buffer()                                         *)
GetBuffer ==
    /\ feeder = "get"
    /\ IF dev.pending THEN feeder' = "fill" /\ UNCHANGED dev
       ELSE feeder' = "wait" /\ dev' = [dev EXCEPT !.pending = TRUE]
    /\ UNCHANGED <<player, written, heard, silent>>

(* Mutant: the core does not wait for a chunk.                             *)
MutBufferReady ==
    /\ feeder = "wait"
    /\ dev' = [dev EXCEPT !.count = IF @ > 0 THEN @ - 1 ELSE 0]
    /\ feeder' = "fill"
    /\ UNCHANGED <<player, written, heard, silent>>

BufferReady ==
    /\ feeder = "wait" /\ dev.count > 0
    /\ dev' = [dev EXCEPT !.count = @ - 1]
    /\ feeder' = "fill"
    /\ UNCHANGED <<player, written, heard, silent>>

(* After a second: the device is then closed (AudioPlayed of EmuCore).     *)
BufferTimesOut ==
    /\ feeder = "wait" /\ dev.count = 0 /\ player.at = "dead"
    /\ feeder' = "failed"
    /\ UNCHANGED <<dev, player, written, heard, silent>>

(* The filter writes a frame.                                              *)
FrameWritten ==
    /\ feeder = "fill" /\ dev.wpos < dev.fpc /\ written < MaxWritten
    /\ written' = written + 1
    /\ dev' = [dev EXCEPT !.chunks[dev.wchunk][dev.wpos + 1] = written', !.wpos = @ + 1]
    /\ UNCHANGED <<feeder, player, heard, silent>>

(* tilem_audio_device_play_buffer(): playing starts once as many chunks    *)
(* are filled as the latency allows.                                       *)
PlayBuffer ==
    /\ feeder = "fill" /\ dev.wpos = dev.fpc
    /\ dev' = [dev EXCEPT !.pending = FALSE, !.state[dev.wchunk] = TRUE,
                          !.wchunk = After(@), !.wpos = 0,
                          !.fill = IF @ > 0 THEN @ - 1 ELSE 0]
    /\ player' = IF dev.fill = 1 THEN [player EXCEPT !.at = "idle"] ELSE player
    /\ feeder' = "get"
    /\ UNCHANGED <<written, heard, silent>>

-----------------------------------------------------------------------------
(* io_callback(), by frames.                                               *)

CallsBack ==
    /\ player.at = "idle"
    /\ player' = [at |-> "loop", len |-> dev.samples]
    /\ UNCHANGED <<dev, feeder, written, heard, silent>>

(* No chunk is filled: silence for what is left.                           *)
Underrun ==
    /\ player.at = "loop" /\ player.len > 0 /\ ~dev.state[dev.rchunk]
    /\ silent < MaxSilence /\ silent' = silent + 1
    /\ player' = [at |-> "idle", len |-> 0]
    /\ UNCHANGED <<dev, feeder, written, heard>>

CopyFrame ==
    /\ player.at = "loop" /\ player.len > 0 /\ dev.state[dev.rchunk]
    /\ heard' = Append(heard, dev.chunks[dev.rchunk][dev.rpos + 1])
    /\ dev' = [dev EXCEPT !.rpos = @ + 1]
    /\ player' = [at |-> IF dev'.rpos = dev.fpc THEN "done" ELSE "loop", len |-> player.len - 1]
    /\ UNCHANGED <<feeder, written, silent>>

ChunkPlayed ==
    /\ player.at = "done"
    /\ dev' = [dev EXCEPT !.state[dev.rchunk] = FALSE, !.rchunk = After(@), !.rpos = 0,
                          !.count = @ + 1]
    /\ player' = [player EXCEPT !.at = "loop"]
    /\ UNCHANGED <<feeder, written, heard, silent>>

CallbackEnds ==
    /\ player.at = "loop" /\ player.len = 0
    /\ player' = [player EXCEPT !.at = "idle"]
    /\ UNCHANGED <<dev, feeder, written, heard, silent>>

PlayerDies ==
    /\ player.at = "idle"
    /\ player' = [player EXCEPT !.at = "dead"]
    /\ UNCHANGED <<dev, feeder, written, heard, silent>>

Plays == CallsBack \/ Underrun \/ CopyFrame \/ ChunkPlayed \/ CallbackEnds

DeviceNext ==
    \/ \E latency \in Latencies, samples \in SampleCounts : DeviceOpens(latency, samples)
    \/ DeviceCloses
    \/ GetBuffer \/ BufferReady \/ BufferTimesOut \/ FrameWritten \/ PlayBuffer
    \/ Plays \/ PlayerDies

-----------------------------------------------------------------------------
(* Every frame is played, once, in the order in which it was written,      *)
(* whatever silence comes between; no more frames wait than the latency    *)
(* that the device has reported allows; and the core never writes to a     *)
(* chunk that SDL may be reading.                                          *)
PlayedInOrder ==
    feeder # "closed" =>
      /\ \A i \in DOMAIN heard : heard[i] = i
      /\ written - Len(heard) <= dev.latency * dev.fpc
      /\ feeder = "fill" => ~dev.state[dev.wchunk]
      /\ dev.count + Cardinality({c \in DOMAIN dev.state : dev.state[c]})
           + (IF feeder = "fill" THEN 1 ELSE 0) = dev.latency

(* The core does not wait for ever for a chunk.                            *)
SoundFlows == (feeder = "wait") ~> (feeder # "wait")
=============================================================================
