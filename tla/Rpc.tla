-------------------------------- MODULE Rpc --------------------------------
(***************************************************************************)
(* What Connection._execute promises its caller: a command reaches the     *)
(* controller at most once, and a call that ends with a result ends with   *)
(* the result the controller computed for that very command.               *)
(*                                                                         *)
(* The promise has a hole the callers must live with: a call that gave up  *)
(* (its 5 s timeout, or a cancelled task) says nothing about the command,  *)
(* which the controller may already have executed or may still execute.    *)
(*                                                                         *)
(* ControlStream implements this module; ClaimControl is built from it.    *)
(***************************************************************************)
EXTENDS Integers

CONSTANTS
  Calls,  (* the calls of _execute, each made at most once                 *)
  Codes,  (* the results a reply can carry                                 *)
  Ok,     (* CommandResult.Ok, the only code raise_on_error returns        *)
  None    (* no result, no answer                                          *)

VARIABLES
  state,  (* state[c]: the call as its caller sees it                      *)
  result, (* result[c]: the code the caller got                            *)
  fate,   (* fate[c]: what became of the command                           *)
  answer  (* answer[c]: the code the controller computed                   *)

vars == <<state, result, fate, answer>>

States == {"idle", "waiting", "returned", "raised", "refused", "gaveup"}

TypeOK ==
  /\ state \in [Calls -> States]
  /\ result \in [Calls -> Codes \cup {None}]
  /\ fate \in [Calls -> {"unsent", "inflight", "executed"}]
  /\ answer \in [Calls -> Codes \cup {None}]

Init ==
  /\ state = [c \in Calls |-> "idle"]
  /\ result = [c \in Calls |-> None]
  /\ fate = [c \in Calls |-> "unsent"]
  /\ answer = [c \in Calls |-> None]

(* The command leaves on a fresh stream, or the link is already dead and it
   never leaves: the caller cannot tell the two apart. *)
Issue(c) ==
  /\ state[c] = "idle"
  /\ state' = [state EXCEPT ![c] = "waiting"]
  /\ \E f \in {"unsent", "inflight"} : fate' = [fate EXCEPT ![c] = f]
  /\ UNCHANGED <<result, answer>>

(* The connection object was closed by its owner. *)
Refuse(c) ==
  /\ state[c] = "idle"
  /\ state' = [state EXCEPT ![c] = "refused"]
  /\ UNCHANGED <<result, fate, answer>>

(* The controller executes the command, whatever its caller does meanwhile. *)
Execute(c) ==
  /\ fate[c] = "inflight"
  /\ fate' = [fate EXCEPT ![c] = "executed"]
  /\ \E code \in Codes : answer' = [answer EXCEPT ![c] = code]
  /\ UNCHANGED <<state, result>>

Answer(c) ==
  /\ state[c] = "waiting"
  /\ fate[c] = "executed"
  /\ result' = [result EXCEPT ![c] = answer[c]]
  /\ state' = [state EXCEPT ![c] = IF answer[c] = Ok THEN "returned"
                                                     ELSE "raised"]
  /\ UNCHANGED <<fate, answer>>

GiveUp(c) ==
  /\ state[c] = "waiting"
  /\ state' = [state EXCEPT ![c] = "gaveup"]
  /\ UNCHANGED <<result, fate, answer>>

Next == \E c \in Calls :
  Issue(c) \/ Refuse(c) \/ Execute(c) \/ Answer(c) \/ GiveUp(c)

(* A waiting call ends: the timeout of wait_for always fires. *)
Fairness == \A c \in Calls : WF_vars(Answer(c) \/ GiveUp(c))

SafeSpec == Init /\ [][Next]_vars

Spec == SafeSpec /\ Fairness
=============================================================================
