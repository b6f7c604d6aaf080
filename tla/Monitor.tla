------------------------------- MODULE Monitor -------------------------------
(***************************************************************************)
(* monitor.py: a loop over the telemetry that redraws the screen for every *)
(* datagram and looks at one key, the oldest that was pressed; Enter stops *)
(* the robot, and the loop waits for the answer.  The keys come from a     *)
(* thread that reads the terminal and passes each to the event loop.       *)
(***************************************************************************)
EXTENDS Integers, Sequences, SequencesExt

CONSTANTS
  Keys,     (* bound: the keys that are pressed, by number                 *)
  Frames    (* bound: the datagrams in the subscriber's queue              *)

ASSUME MonitorAssumption == Keys \in Nat \ {0} /\ Frames \in Nat \ {0}

VARIABLES
  mode,       (* "watching", "engaging" or "quit"                          *)
  connected,  (* the QUIC connection is up                                 *)
  frames,     (* the telemetry in the queue                                *)
  pressed,    (* the keys pressed so far                                   *)
  scheduled,  (* the keys on their way to the event loop                   *)
  inputQueue, (* input_queue                                               *)
  served      (* the Enters that were taken up                             *)

monitor == <<mode, connected, frames, pressed, scheduled, inputQueue, served>>

(* Every other key is Enter. *)
IsEnter(key) == key % 2 = 1

MonitorTypeOK ==
  /\ mode \in {"watching", "engaging", "quit"}
  /\ connected \in BOOLEAN
  /\ frames \in 0 .. Frames
  /\ pressed \in 0 .. Keys
  /\ scheduled \in Seq(1 .. Keys)
  /\ inputQueue \in Seq(1 .. Keys)
  /\ served \subseteq 1 .. Keys

MonitorInit ==
  /\ mode = "watching"
  /\ connected = TRUE
  /\ frames = 0
  /\ pressed = 0
  /\ scheduled = <<>>
  /\ inputQueue = <<>>
  /\ served = {}

(* input_thread: sys.stdin.read and run_coroutine_threadsafe *)
PressKey ==
  /\ pressed < Keys
  /\ pressed' = pressed + 1
  /\ scheduled' = Append(scheduled, pressed')
  /\ UNCHANGED <<mode, connected, frames, inputQueue, served>>

(* The event loop runs the put. *)
PutKey ==
  /\ scheduled # <<>>
  /\ inputQueue' = Append(inputQueue, Head(scheduled))
  /\ scheduled' = Tail(scheduled)
  /\ UNCHANGED <<mode, connected, frames, pressed, served>>

(* Variant: the queue keeps every datagram. *)
TelemetryArrivesUnbounded ==
  /\ connected
  /\ frames' = frames + 1
  /\ UNCHANGED <<mode, connected, pressed, scheduled, inputQueue, served>>

(* The queue drops the oldest datagram when it is full. *)
TelemetryArrives ==
  /\ connected
  /\ frames' = IF frames < Frames THEN frames + 1 ELSE frames
  /\ UNCHANGED <<mode, connected, pressed, scheduled, inputQueue, served>>

(* Variant: the newest key is looked at and the rest forgotten. *)
LookAtKeyNewest ==
  IF inputQueue = <<>> THEN UNCHANGED <<mode, inputQueue, served>>
  ELSE /\ inputQueue' = <<>>
       /\ mode' = IF IsEnter(Last(inputQueue)) THEN "engaging" ELSE mode
       /\ served' = IF IsEnter(Last(inputQueue)) THEN served \cup {Last(inputQueue)}
                    ELSE served

(* input_queue.get_nowait, one key at a time *)
LookAtKey ==
  IF inputQueue = <<>> THEN UNCHANGED <<mode, inputQueue, served>>
  ELSE /\ inputQueue' = Tail(inputQueue)
       /\ mode' = IF IsEnter(Head(inputQueue)) THEN "engaging" ELSE mode
       /\ served' = IF IsEnter(Head(inputQueue)) THEN served \cup {Head(inputQueue)}
                    ELSE served

(* The body of `async for tel in conn.telemetry()` *)
Redraw ==
  /\ mode = "watching"
  /\ frames > 0
  /\ frames' = frames - 1
  /\ LookAtKey
  /\ UNCHANGED <<connected, pressed, scheduled>>

(* quickstop returns, is refused or times out; the loop goes on. *)
QuickstopEnds ==
  /\ mode = "engaging"
  /\ mode' = "watching"
  /\ UNCHANGED <<connected, frames, pressed, scheduled, inputQueue, served>>

Disconnect ==
  /\ connected
  /\ connected' = FALSE
  /\ UNCHANGED <<mode, frames, pressed, scheduled, inputQueue, served>>

(* Ctrl-C *)
Quit ==
  /\ mode # "quit"
  /\ mode' = "quit"
  /\ UNCHANGED <<connected, frames, pressed, scheduled, inputQueue, served>>

MonitorNext ==
  /\ mode # "quit"
  /\ PressKey \/ PutKey \/ TelemetryArrives \/ Redraw \/ QuickstopEnds \/ Disconnect \/ Quit

-----------------------------------------------------------------------------
(* Properties *)

(* "Press Enter to engage quickstop" (monitor.py): every Enter that was pressed
   is taken up, however many keys were pressed before it or while the answer to
   another was awaited, unless the monitor ends.  Once telemetry has stopped
   coming nothing looks at the keys. *)
KeyServed ==
  \A key \in {k \in 1 .. Keys : IsEnter(k)} :
    pressed >= key ~> key \in served \/ mode = "quit" \/ ~connected
=============================================================================
