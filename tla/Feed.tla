-------------------------------- MODULE Feed --------------------------------
(***************************************************************************)
(* What Connection.events and Connection.telemetry promise a consumer: a   *)
(* feed of the messages published while it is subscribed, each once and in *)
(* the order of publication, with gaps where its queue overflowed.         *)
(*                                                                         *)
(* A full queue costs the newest message (events) or the oldest one that   *)
(* is still queued (telemetry); what it costs one subscriber costs the     *)
(* others nothing.  EventChannel and TelemetryChannel implement this       *)
(* module.                                                                 *)
(***************************************************************************)
EXTENDS Integers, Sequences

CONSTANTS
  Messages,    (* what can be published, each at most once                 *)
  Unreadable,  (* the messages that do not parse                           *)
  Subscribers, (* the consumers, each subscribing at most once             *)
  Capacity     (* the length of a subscriber's queue                       *)

VARIABLES
  published, (* the messages published so far                              *)
  joined,    (* the consumers that are subscribed now                      *)
  backlog,   (* backlog[s]: queued for s                                   *)
  yielded    (* yielded[s]: what s was given                               *)

vars == <<published, joined, backlog, yielded>>

Init ==
  /\ published = {}
  /\ joined = {}
  /\ backlog = [s \in Subscribers |-> <<>>]
  /\ yielded = [s \in Subscribers |-> <<>>]

Join(s) ==
  /\ s \notin joined
  /\ joined' = joined \cup {s}
  /\ UNCHANGED <<published, backlog, yielded>>

Quit(s) ==
  /\ s \in joined
  /\ joined' = joined \ {s}
  /\ UNCHANGED <<published, backlog, yielded>>

(* A queue takes the message, or pays for it when it is full. *)
Offered(b, m) == IF Len(b) < Capacity THEN {Append(b, m)}
                                      ELSE {b, Append(Tail(b), m)}

Publish(m) ==
  /\ m \notin published
  /\ published' = published \cup {m}
  /\ \A s \in Subscribers : IF s \in joined
                            THEN backlog'[s] \in Offered(backlog[s], m)
                            ELSE backlog'[s] = backlog[s]
  /\ DOMAIN backlog' = Subscribers
  /\ UNCHANGED <<joined, yielded>>

(* A consumer asks for the next message; one that does not parse is skipped. *)
Take(s) ==
  /\ s \in joined
  /\ backlog[s] # <<>>
  /\ backlog' = [backlog EXCEPT ![s] = Tail(@)]
  /\ yielded' = IF Head(backlog[s]) \in Unreadable
                THEN yielded
                ELSE [yielded EXCEPT ![s] = Append(@, Head(backlog[s]))]
  /\ UNCHANGED <<published, joined>>

Next ==
  \/ \E m \in Messages : Publish(m)
  \/ \E s \in Subscribers : Join(s) \/ Quit(s) \/ Take(s)

(* A consumer that keeps asking is served. *)
Fairness == \A s \in Subscribers : WF_vars(Take(s))

SafeSpec == Init /\ [][Next]_vars

Spec == SafeSpec /\ Fairness
=============================================================================
