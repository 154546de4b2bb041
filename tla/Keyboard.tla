------------------------------ MODULE Keyboard ------------------------------
(***************************************************************************)
(* The keypad (emu/keypad.c) and who presses its keys.  On the desktop:    *)
(* pointer, host keyboard and keypad dialog (gui/event.c, keypaddlg.c),    *)
(* and the queue of keys that a Z80 timer types (gui/emulator.c).  On the  *)
(* phone: one finger (Main.qml, calc.cpp).  Each call holds the lock of    *)
(* the emulator, so a handler is a step.  A key is its scancode.           *)
(***************************************************************************)
EXTENDS Naturals, SequencesExt

CONSTANTS
    Keys,       \* scancodes that are used; ON_KEY may be one
    HostKeys,   \* keys of the host's keyboard, not 0
    Bindings,   \* what they may mean, by their modifiers: sets of sequences of Keys
    Matrix,     \* keys to try the reading of the keypad with
    MaxEvents   \* bound on what the user does

ON_KEY == 41

ASSUME KeyboardAssumption ==
    /\ Keys \subseteq 1..64 /\ 0 \notin HostKeys
    /\ \A h \in HostKeys : \A keys \in Bindings[h] : keys \in Seq(Keys)

VARIABLES
    front,      \* "desktop" or "phone"
    down,       \* keypad.keysdown, and ON_KEY for onkeydown
    pointer,    \* mouse_key, or the key under the finger when it came; 0: none
    button,     \* button 1 of the mouse
    held,       \* history: keys that the user left pressed
    host, rep,  \* keys of the host's keyboard that are down; the one that repeats, or 0
    focus,      \* the window gets key events
    codes,      \* keypress_keycodes: for each key the host key that presses it, or 0
    seqkey,     \* sequence_keycode
    queue,      \* key_queue, the next key last
    pending,    \* history: the keys that wait, as they were typed
    hold, pressed, cur,     \* key_queue_hold, key_queue_pressed, key_queue_cur
    timer,      \* key_queue_timer: "none", "set", or "lost" with its calculator
    events      \* what the user did so far

mouseVars == <<pointer, button>>
hostVars == <<host, rep, focus>>
queueVars == <<queue, pending, hold, pressed, cur, timer>>
keyVars == <<front, down, mouseVars, held, hostVars, codes, seqkey, queueVars, events>>
-----------------------------------------------------------------------------
PressKey(d, k) == IF k \in 1..64 THEN d \cup {k} ELSE d
ReleaseKey(d, k) == d \ {k}

(* tilem_keypad_read_keys(): `group' has the rows that are not selected.   *)
(* Eight rows are settled after eight sweeps at most.                      *)
Columns(d, row) == {(k - 1) % 8 : k \in {j \in d \ {ON_KEY} : (j - 1) \div 8 = row}}
Sweep(d, keys) ==
    FoldLeft(LAMBDA acc, i : IF acc \cap Columns(d, i - 1) # {}
                             THEN acc \cup Columns(d, i - 1) ELSE acc,
             keys, <<1, 2, 3, 4, 5, 6, 7, 8>>)
ReadKeys(d, group) ==
    LET selected == UNION {Columns(d, i) : i \in 0..7 \ group}
        settled[n \in 0..8] == IF n = 0 THEN selected ELSE Sweep(d, settled[n - 1])
    IN  settled[8]
-----------------------------------------------------------------------------
KeyInit ==
    /\ front \in {"desktop", "phone"}
    /\ down = {} /\ pointer = 0 /\ button = FALSE /\ held = {}
    /\ host = {} /\ rep = 0 /\ focus = TRUE
    /\ codes = [k \in Keys |-> 0] /\ seqkey = 0
    /\ queue = << >> /\ pending = << >>
    /\ hold = FALSE /\ pressed = FALSE /\ cur = 0 /\ timer = "none"
    /\ events = 0

(* press_mouse_key(): at most one key is down for the pointer.             *)
PressMouseKey(k) ==
    /\ pointer' = k
    /\ down' = IF pointer = k THEN down ELSE PressKey(ReleaseKey(down, pointer), k)
    /\ held' = held \cap (IF pointer = k THEN held ELSE down' \ {k})

ButtonPress(k) == button' = TRUE /\ PressMouseKey(k)
PointerMotion(k) == UNCHANGED button /\ PressMouseKey(IF button THEN k ELSE 0)
ButtonRelease == button /\ button' = FALSE /\ PressMouseKey(0)

(* Button 2, and a toggle of the dialog, which does not show ON_KEY.       *)
PressForGood(k) ==
    /\ down' = PressKey(down, k)
    /\ held' = held \cup {k}
    /\ UNCHANGED mouseVars
KeyToggled(k) ==
    /\ k # ON_KEY
    /\ IF k \in down
       THEN /\ down' = ReleaseKey(down, k) /\ held' = held \ {k}
            /\ UNCHANGED mouseVars
       ELSE PressForGood(k)

(* queue_keys(): the new keys in front, in reverse.                        *)
MutQueueKeys(keys) ==   \* what waits is copied in front of what is new
    /\ queue' = queue \o Reverse(keys)
    /\ pending' = pending \o keys
    /\ hold' = TRUE
    /\ timer' = IF timer = "none" THEN "set" ELSE timer
    /\ UNCHANGED <<pressed, cur>>
QueueKeys(keys) ==
    /\ queue' = Reverse(keys) \o queue
    /\ pending' = pending \o keys
    /\ hold' = TRUE
    /\ timer' = IF timer = "none" THEN "set" ELSE timer
    /\ UNCHANGED <<pressed, cur>>

(* key_press_event() for a host key that goes down or repeats, in its turn *)
(* tilem_calc_emulator_press_or_queue() for a binding of one key.          *)
Repeats(h) == seqkey = h \/ \E k \in Keys : codes[k] = h
KeyPress(h, keys) ==
    /\ focus /\ (h \notin host \/ h = rep)
    /\ host' = host \cup {h} /\ rep' = h /\ UNCHANGED focus
    /\ CASE Repeats(h) -> UNCHANGED <<down, held, codes, seqkey, queueVars>>
         [] ~Repeats(h) /\ Len(keys) = 1 /\ timer = "none" ->
              /\ down' = PressKey(down, keys[1])
              /\ codes' = [codes EXCEPT ![keys[1]] = h]
              /\ UNCHANGED <<held, seqkey, queueVars>>
         [] OTHER ->
              /\ QueueKeys(keys) /\ seqkey' = h
              /\ UNCHANGED <<down, held, codes>>

(* release_keycode() for a host key, or for all, with                      *)
(* tilem_calc_emulator_release_queued_key().                               *)
ReleaseKeycode(which) ==
    LET mine == {k \in Keys : codes[k] \in which}
        typed == seqkey \in which
        free == typed /\ timer = "none" /\ pressed
    IN  /\ down' = down \ (mine \cup (IF free THEN {cur} ELSE {}))
        /\ codes' = [k \in Keys |-> IF k \in mine THEN 0 ELSE codes[k]]
        /\ seqkey' = IF typed THEN 0 ELSE seqkey
        /\ hold' = IF typed /\ timer # "none" THEN FALSE ELSE hold
        /\ pressed' = IF free THEN FALSE ELSE pressed
        /\ cur' = IF free THEN 0 ELSE cur
        /\ held' = held \cap down'
        /\ UNCHANGED <<queue, pending, timer>>

KeyRelease(h) ==
    /\ h \in host
    /\ host' = host \ {h} /\ rep' = (IF rep = h THEN 0 ELSE rep) /\ UNCHANGED focus
    /\ IF focus THEN ReleaseKeycode({h})
       ELSE UNCHANGED <<down, held, codes, seqkey, queueVars>>
FocusOut ==
    /\ focus /\ focus' = FALSE /\ UNCHANGED <<host, rep>>
    /\ ReleaseKeycode(HostKeys)
FocusIn ==
    /\ ~focus /\ focus' = TRUE
    /\ UNCHANGED <<host, rep, down, held, codes, seqkey, queueVars>>

(* tmr_key_queue(): a key goes up when another waits or its host key is    *)
(* up, and the next goes down.                                             *)
MutQueueTimer ==    \* not set again once a key is up
    IF pressed
    THEN IF queue # << >> \/ ~hold
         THEN /\ down' = ReleaseKey(down, cur)
              /\ pressed' = FALSE /\ cur' = 0
              /\ timer' = "none"
              /\ UNCHANGED <<queue, pending>>
         ELSE /\ timer' = "none"
              /\ UNCHANGED <<down, pressed, cur, queue, pending>>
    ELSE IF queue # << >>
         THEN \E k \in {queue[Len(queue)]} :
                /\ down' = PressKey(down, k)
                /\ pressed' = TRUE /\ cur' = k
                /\ queue' = Front(queue) /\ pending' = Tail(pending)
                /\ UNCHANGED timer
         ELSE /\ timer' = "none"
              /\ UNCHANGED <<down, pressed, cur, queue, pending>>
QueueTimer ==
    IF pressed
    THEN IF queue # << >> \/ ~hold
         THEN /\ down' = ReleaseKey(down, cur)
              /\ pressed' = FALSE /\ cur' = 0
              /\ UNCHANGED <<queue, pending, timer>>
         ELSE /\ timer' = "none"
              /\ UNCHANGED <<down, pressed, cur, queue, pending>>
    ELSE IF queue # << >>
         THEN \E k \in {queue[Len(queue)]} :
                /\ down' = PressKey(down, k)
                /\ pressed' = TRUE /\ cur' = k
                /\ queue' = Front(queue) /\ pending' = Tail(pending)
                /\ UNCHANGED timer
         ELSE /\ timer' = "none"
              /\ UNCHANGED <<down, pressed, cur, queue, pending>>
TmrKeyQueue ==
    /\ timer = "set"
    /\ QueueTimer
    /\ held' = held \cap down'
    /\ UNCHANGED <<front, mouseVars, hostVars, codes, seqkey, hold, events>>

(* A reset, or a state file read again, and another calculator: the queue  *)
(* belongs to the emulator, its timer to the calculator.                   *)
ResetKeypad ==
    /\ down' = {} /\ held' = {}
    /\ UNCHANGED <<mouseVars, codes, seqkey, queueVars>>
OtherCalculator ==
    /\ down' = {} /\ held' = {}
    /\ timer' = IF timer = "none" THEN "none" ELSE "lost"
    /\ UNCHANGED <<mouseVars, codes, seqkey, queue, pending, hold, pressed, cur>>

(* The phone.  The finger's key is looked up where it comes and where it   *)
(* goes; Calc::reset() keeps the keys of the matrix.                       *)
Touch(k) ==
    /\ ~button /\ button' = TRUE /\ pointer' = k
    /\ down' = PressKey(down, k) /\ held' = held \ {k}
Lift(k) ==
    /\ button /\ button' = FALSE /\ pointer' = 0
    /\ down' = ReleaseKey(down, k)
    /\ held' = (held \cup {pointer}) \cap down'
ResetOnPhone ==
    /\ down' = down \ {ON_KEY} /\ held' = held \ {ON_KEY}
    /\ UNCHANGED mouseVars
-----------------------------------------------------------------------------
NoKey == Keys \cup {0}
UserActs ==
    /\ events < MaxEvents /\ events' = events + 1
    /\ UNCHANGED front
    /\ \/ /\ front = "desktop"
          /\ \/ /\ \/ \E k \in NoKey : ButtonPress(k) \/ PointerMotion(k)
                   \/ ButtonRelease
                   \/ \E k \in Keys : PressForGood(k) \/ KeyToggled(k)
                /\ UNCHANGED <<hostVars, codes, seqkey, queueVars>>
             \/ /\ \/ \E h \in HostKeys : KeyRelease(h) \/ \E keys \in Bindings[h] : KeyPress(h, keys)
                   \/ FocusOut \/ FocusIn
                /\ UNCHANGED mouseVars
             \/ (ResetKeypad \/ OtherCalculator) /\ UNCHANGED hostVars
       \/ /\ front = "phone"
          /\ \/ \E k \in NoKey : Touch(k) \/ Lift(k)
             \/ ResetOnPhone
          /\ UNCHANGED <<hostVars, codes, seqkey, queueVars>>

KeyNext ==
    \/ UserActs
    \/ TmrKeyQueue
-----------------------------------------------------------------------------
(* Whatever is pressed has somebody who will release it: the pointer, a    *)
(* host key that is down, the queue while its timer runs, the host key     *)
(* that holds the last key of the queue, or the user who left it pressed.  *)
KeysOwned ==
    /\ \A k \in down :
         \/ k = pointer \/ k \in held \/ codes[k] # 0
         \/ pressed /\ cur = k /\ (timer = "set" \/ (timer = "none" /\ seqkey # 0))
    /\ \A k \in Keys : codes[k] \in host \cup {0}
    /\ seqkey \in host \cup {0}

(* Keys wait in the order in which they were typed.                        *)
QueueOrdered == Reverse(queue) = pending

(* The phone's key stays down under the finger, but for ON after a reset.  *)
FingerPresses == front = "phone" /\ pointer \notin {0, ON_KEY} => pointer \in down

(* A column reads as pressed if a chain of pressed keys connects it to a   *)
(* row that is selected.                                                   *)
ReadsConnected ==
    events = 0 => \A d \in SUBSET Matrix : \A group \in SUBSET (0..2) :
        LET closed == {S \in SUBSET (0..2) :
                         \A i \in 0..2 : (i \notin group \/ S \cap Columns(d, i) # {})
                                           => Columns(d, i) \subseteq S}
        IN  ReadKeys(d, group \cup 3..7) = {c \in 0..2 : \A S \in closed : c \in S}

KeysSound == KeysOwned /\ QueueOrdered /\ FingerPresses

(* Typed keys are pressed unless another calculator comes, and when all    *)
(* host keys are up, what stays down is the pointer's or was left so.      *)
KeysServed ==
    /\ (queue # << >>) ~> (queue = << >> \/ timer = "lost")
    /\ (host = {}) ~> (host # {} \/ \A k \in down : k = pointer \/ k \in held)
=============================================================================
