---------------------------- MODULE MotionStream ----------------------------
(***************************************************************************)
(* Motion commands: send_single, send_humanoid, _next_seq and              *)
(* send_motion_datagram of Connection (transport.py), whose datagrams      *)
(* motion.py builds.                                                       *)
(*                                                                         *)
(* A command carries a sequence number, by default from a counter of the   *)
(* connection that an explicit number resets.  The network loses and       *)
(* reorders datagrams.  The controller is not part of the repository: it   *)
(* is taken to execute a command only if its number is above the last one  *)
(* it received (SafetyState.last_received_seq of telemetry.py).  Whether   *)
(* it brakes for want of a successor is its own affair and left out.       *)
(***************************************************************************)
EXTENDS Integers

CONSTANTS
  MaxSends, (* bound: the calls of send_single and send_humanoid           *)
  MaxSeq    (* bound: the explicit sequence numbers                        *)

ASSUME SendsAssumption == MaxSends \in Nat /\ MaxSeq \in Nat

VARIABLES
  closed,  (* Connection._closed                                           *)
  link,    (* the QUIC connection is up                                    *)
  nextSeq, (* Connection._motion_seq                                       *)
  sends,   (* how many commands were sent or failed to be                  *)
  flying,  (* the datagrams on their way                                   *)
  arrived, (* the datagrams the controller received                        *)
  lastSeq, (* the controller's last_received_seq, -1 at first              *)
  current, (* the `order` of the command it executes, 0 before the first   *)
  rewound  (* history: an explicit number was below the counter            *)

controller == <<lastSeq, current>>
motionVars == <<closed, link, nextSeq, sends, flying, arrived, controller, rewound>>

(* order: by the order-th call *)
Datagrams == [seq : Nat, order : 1 .. MaxSends]

MotionTypeOK ==
  /\ closed \in BOOLEAN
  /\ link \in BOOLEAN
  /\ nextSeq \in Nat \ {0}
  /\ sends \in 0 .. MaxSends
  /\ flying \subseteq Datagrams
  /\ arrived \subseteq Datagrams
  /\ lastSeq \in Nat \cup {-1}
  /\ current \in 0 .. MaxSends
  /\ rewound \in BOOLEAN

MotionInit ==
  /\ closed = FALSE
  /\ link = TRUE
  /\ nextSeq = 1
  /\ sends = 0
  /\ flying = {}
  /\ arrived = {}
  /\ lastSeq = -1
  /\ current = 0
  /\ rewound = FALSE

-----------------------------------------------------------------------------
(* The client *)

(* The argument seq of send_single and send_humanoid *)
Automatic == -1
SeqArguments == 0 .. MaxSeq \cup {Automatic}

(* The number a command gets *)
SeqUsed(seq) == IF seq = Automatic THEN nextSeq ELSE seq

(* Variant: an explicit number is the next automatic one as well. *)
NextSeqRepeating(seq) ==
  /\ nextSeq' = IF seq = Automatic THEN nextSeq + 1 ELSE seq
  /\ rewound' = (rewound \/ SeqUsed(seq) < nextSeq)

(* Variant: only explicit numbers move the counter. *)
NextSeqStuck(seq) ==
  /\ nextSeq' = IF seq = Automatic THEN nextSeq ELSE seq + 1
  /\ rewound' = (rewound \/ SeqUsed(seq) < nextSeq)

(* What _next_seq leaves behind *)
NextSeq(seq) ==
  /\ nextSeq' = SeqUsed(seq) + 1
  /\ rewound' = (rewound \/ SeqUsed(seq) < nextSeq)

(* The datagram leaves unless the link is gone; the caller cannot tell. *)
Send(seq) ==
  /\ ~closed
  /\ sends < MaxSends
  /\ sends' = sends + 1
  /\ NextSeq(seq)
  /\ flying' = IF link
               THEN flying \cup {[seq |-> SeqUsed(seq), order |-> sends + 1]}
               ELSE flying
  /\ UNCHANGED <<closed, link, arrived, controller>>

(* The builder raises, or the connection is closed: nothing is sent, and the
   number is used up all the same.  (A command for the wrong kind of robot is
   refused before it takes a number.) *)
SendFails(seq) ==
  /\ sends < MaxSends
  /\ sends' = sends + 1
  /\ NextSeq(seq)
  /\ UNCHANGED <<closed, link, flying, arrived, controller>>

Close ==
  /\ ~closed
  /\ closed' = TRUE
  /\ link' = FALSE
  /\ UNCHANGED <<nextSeq, sends, flying, arrived, controller, rewound>>

-----------------------------------------------------------------------------
(* The network and the controller *)

LoseLink ==
  /\ link
  /\ link' = FALSE
  /\ UNCHANGED <<closed, nextSeq, sends, flying, arrived, controller, rewound>>

LoseDatagram(d) ==
  /\ d \in flying
  /\ flying' = flying \ {d}
  /\ UNCHANGED <<closed, link, nextSeq, sends, arrived, controller, rewound>>

(* A command executes only if it is newer than what was received before. *)
Arrive(d) ==
  /\ d \in flying
  /\ flying' = flying \ {d}
  /\ arrived' = arrived \cup {d}
  /\ IF d.seq > lastSeq
     THEN lastSeq' = d.seq /\ current' = d.order
     ELSE UNCHANGED controller
  /\ UNCHANGED <<closed, link, nextSeq, sends, rewound>>

-----------------------------------------------------------------------------
MotionNext ==
  \/ \E seq \in SeqArguments : Send(seq) \/ SendFails(seq)
  \/ Close
  \/ LoseLink
  \/ \E d \in flying : Arrive(d) \/ LoseDatagram(d)

MotionSpec == MotionInit /\ [][MotionNext]_motionVars

-----------------------------------------------------------------------------
(* Properties *)

(* The arm does what it was told last: of the commands that reached the
   controller it executes the one sent last, though older ones arrive after it,
   sends fail and explicit numbers are mixed with automatic ones.  One explicit
   number below the counter is enough to lose this. *)
NewestWins ==
  ~rewound => \A d \in arrived : d.order <= current
=============================================================================
