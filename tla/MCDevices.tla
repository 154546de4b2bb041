------------------------------ MODULE MCDevices ------------------------------
(***************************************************************************)
(* Parts of the emulator that work by themselves; a behaviour is one.      *)
(*   chip: Flash with a sector that is never protected, with the two       *)
(* addresses of the command sequences, and one that a group protects.      *)
(*   files: ROM and state files of five calculators.  A certificate page   *)
(* has two halves of twelve bytes, with tables for two applications.       *)
(*   keys: a keypad with ON and two keys in a row and one in the next, and *)
(* two host keys, each for a single key or, shifted, for two.              *)
(*   signal: the audio filter, with 6 subticks in a microsecond, 20 of     *)
(* these in a second, 7 or 9 samples in it and a filter of 5 microseconds. *)
(*   sound: the ring of a sound device, with chunks of two or four frames. *)
(***************************************************************************)
EXTENDS Flash, SavedState, Keyboard, AudioFilter, AudioDevice

VARIABLE part

Chip == {"a", "b", "c"}
Sectors == {"free", "os"}
TwoBytes == {{0, 7}, {1}}
InSector == [a \in Chip |-> IF a = "c" THEN "os" ELSE "free"]
Decoded == [a \in Chip |-> CASE a = "a" -> "AAA" [] a = "b" -> "555" [] OTHER -> "other"]
Protected == [s \in Sectors |-> IF s = "os" THEN {"g"} ELSE {}]
NoOverride == {{}, {"g"}}

(* Certificates: fields in either half, no fields, what an older version   *)
(* patched, a field that leaves its half, fields that end with another     *)
(* byte, and one never written.                                            *)
Cert(bytes) == [i \in 0..23 |-> IF i < Len(bytes) THEN bytes[i + 1] ELSE 255]
Certificates ==
    {Cert(b) : b \in {<<0, 1, 1, 7>>, <<255, 255, 255, 255, 255, 255, 255, 255, 255, 255,
                      255, 255, 0, 3, 13, 1, 9, 9>>, <<0, 255, 0>>, <<0, 2, 14, 0, 9>>,
                      <<0, 4, 15, 1, 2, 3, 4, 0, 1, 170>>}}
RomOf(kb, strings, cert) ==
    [kb |-> kb, strings |-> strings, data |-> "factory", cert |-> cert, apps |-> {2, 7}]
(* At 15 clocks in a microsecond 7 are saved as 0 and 8 as 1.              *)
FewLefts ==
    {[t \in UNION {TimerNames(k) : k \in Models} |->
        CASE t \in {"int1", "user2"} -> -8
          [] t \in {"flashdelay", "lcddelay", "int2a"} -> 7
          [] t \in {"linkassist", "user1", "lcd_wait", "int2b"} -> 8
          [] OTHER -> 9600]}
Patched == Cert(<<0>>)
Disk(rom_, savs) == [rom : rom_, sav : savs]
SmallDisks ==
    Disk({RomOf(32, {}, Patched), RomOf(256, {"TI82", "Termin"}, Patched)}
         \cup {RomOf(1024, {}, c) : c \in Certificates}, {[kind |-> "none"]})
    \cup Disk({RomOf(512, {"TI-83 Plus"}, Patched), RomOf(1024, {}, Patched)},
              [kind : {"old"}, short : BOOLEAN, tail : {TRUE}, speed : {15000},
               ram : {"dump"}, lcd : {"dump"}])

Typed == [h \in {101, 102} |-> IF h = 101 THEN {<<1>>, <<3, 10>>} ELSE {<<3>>, <<1, 1>>}]

Lobes == [i \in 0..29 |-> IF i \in 6..23 THEN 2 ELSE -1]
SoundCards == {[rate |-> 7, channels |-> 2, format |-> "16 bit", size |-> 8],
               [rate |-> 9, channels |-> 1, format |-> "8 bit", size |-> 4]}
-----------------------------------------------------------------------------
McInit ==
    /\ part \in {"chip", "files", "keys", "signal", "sound"}
    /\ Init /\ StateInit /\ KeyInit /\ SoundInit /\ DeviceInit
    /\ part # "files" => rom.kb = 32 /\ sav.kind = "none"
    /\ part # "chip" =>
         /\ mem = [a \in Chip |-> Full] /\ override = {} /\ prog.addr = "a" /\ ~nspire
    /\ part # "keys" => front = "phone"
    /\ part # "signal" => lines = {} /\ clockspeed = 4

McVars == <<part, vars, stateVars, keyVars, soundVars, deviceVars>>
McNext ==
    /\ UNCHANGED part
    /\ \/ part = "chip" /\ Next /\ UNCHANGED <<stateVars, keyVars, soundVars, deviceVars>>
       \/ part = "files" /\ StateNext /\ UNCHANGED <<vars, keyVars, soundVars, deviceVars>>
       \/ /\ part = "keys" /\ UNCHANGED <<vars, stateVars, soundVars, deviceVars>>
          /\ KeyNext \/ (events = MaxEvents /\ UNCHANGED keyVars)
       \/ /\ part = "signal" /\ UNCHANGED <<vars, stateVars, keyVars, deviceVars>>
          /\ SoundNext \/ (frames = MaxFrames /\ UNCHANGED soundVars)
       \/ /\ part = "sound" /\ UNCHANGED <<vars, stateVars, keyVars, soundVars>>
          /\ DeviceNext \/ ((written = MaxWritten \/ feeder = "wait") /\ UNCHANGED deviceVars)

(* The Z80 timers fire; SDL calls back, and the core thread is scheduled.  *)
McSpec ==
    /\ McInit /\ [][McNext]_McVars
    /\ WF_McVars(part = "chip" /\ DelayOver /\ UNCHANGED <<part, stateVars, keyVars, soundVars, deviceVars>>)
    /\ WF_McVars(part = "keys" /\ TmrKeyQueue /\ UNCHANGED <<part, vars, stateVars, soundVars, deviceVars>>)
    /\ WF_McVars(/\ part = "sound" /\ (Plays \/ BufferReady \/ BufferTimesOut)
                 /\ UNCHANGED <<part, vars, stateVars, keyVars, soundVars>>)

(* Every key that is down has somebody who releases it, and keys are typed *)
(* in order.                                                               *)
KeyboardSound == part = "keys" => KeysSound

(* The device plays every frame, in order, within its latency.             *)
AudioSound == part = "sound" => PlayedInOrder

(* What is computed from data: state files keep what is saved, and         *)
(* certificates are repaired; the keypad reads as its wires are; samples   *)
(* are the filter's output for the lines.                                  *)
DataSound ==
    /\ part = "files" => StateSound
    /\ part = "keys" => ReadsConnected
    /\ part = "signal" => SignalSound
=============================================================================
