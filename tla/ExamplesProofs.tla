--------------------------- MODULE ExamplesProofs ---------------------------
(***************************************************************************)
(* Proofs about the programs under examples/: what the scripts that move   *)
(* the robot may assume when a wait ends or Ctrl-C strikes, that the sine  *)
(* of streaming_test.py stops at the first crossing, and that the report   *)
(* of diagnose.py agrees with what happened while it observed; for every   *)
(* bound, frequency, delay and queue length the assumptions allow.         *)
(***************************************************************************)
EXTENDS Examples, SequenceTheorems, TLAPS

(* The scripts: what a step may be, and how long they are *)
Steps ==
  [do : {"call"}, what : CallNames, optional : BOOLEAN]
  \cup [do : {"wait"}, what : Waits, optional : {FALSE}]
  \cup [do : {"pose", "sine"}, what : Positions, optional : {FALSE}]

(* A script that is not over is at one of its steps, it waits at a step that does,
   and a call is under way at a step that makes one, or it is the release. *)
Control ==
  /\ program \in DOMAIN Scripts =>
       /\ step \in 1 .. Len(Script) + 1
       /\ phase \notin {"leaving", "over"} => step <= Len(Script)
       /\ phase = "calling" => Script[step].do = "call"
       /\ phase = "waiting" => Script[step].do = "wait"
  /\ request = "sent" => phase \in {"calling", "leaving"}

(* Nothing but the way out is left after Ctrl-C has been raised, and while it is
   pending the example has sent no pose or comes to an await next. *)
OnlyLeaving ==
  /\ interrupted = "raised" => phase \in {"leaving", "over"}
  /\ interrupted = "deferred" => phase \in {"ready", "leaving", "over"}
  /\ interrupted # "deferred" => posesSince = 0
  /\ interrupted = "deferred" => posesSince <= 1
  /\ interrupted = "deferred" /\ phase = "ready" /\ Script[step].do \in {"pose", "sine"} =>
       posesSince = 0

(* The poses of move_test.  The telemetry on its way, oldest first, tells of a
   motion: *)
Tells(status, i) == status \in wire[i]

(* - the arm rests, and nothing on its way says that it moves; *)
Resting(p) ==
  /\ motion = "idle"
  /\ poses \subseteq p
  /\ \A i \in 1 .. Len(wire) : ~Tells("moving", i)

(* - it goes to p or is there, and has been told to go nowhere else; *)
Going(p) ==
  /\ poses = {}
  /\ motion # "braking"
  /\ goal = p
  /\ motion = "idle" => position = p

(* - what reports "idle" from the i-th datagram on tells of the end of it. *)
EndsAfter(i) ==
  \A j \in i .. Len(wire) : Tells("idle", j) =>
    /\ motion = "idle"
    /\ \A k \in j .. Len(wire) : j < k => ~Tells("moving", k)

(* The pose is sent: the arm has not started, or everything that is reported
   idle after moving is reported at the goal. *)
Sent(p) ==
  \/ Resting({p})
  \/ Going(p) /\ \A i \in 1 .. Len(wire) : Tells("moving", i) => EndsAfter(i + 1)

(* The arm was seen moving. *)
Seen(p) == Going(p) /\ EndsAfter(1)

(* It was seen idle after that. *)
Arrived(p) == Resting({}) /\ position = p

(* What each step of move_test may assume *)
Reached ==
  /\ step <= 8 => Resting({})
  /\ step = 9 => Sent(Target)
  /\ step = 10 => Seen(Target)
  /\ step = 11 => Arrived(Target)
  /\ step = 12 => Sent(Zero)
  /\ step = 13 => Seen(Zero)
  /\ step = 14 => Arrived(Zero)

(* It may, unless a motion was cut short or telemetry was received out of order. *)
MoveTestInv == program = "move_test" /\ ~braked /\ ~overtook => Reached

SessionInv ==
  /\ program \in Programs /\ SessionTypeOK
  /\ Control /\ OnlyLeaving /\ MoveTestInv

-----------------------------------------------------------------------------
(* After the duration, a loop that goes on has the next window before it. *)
WindowAhead == streaming /\ pastDuration => ahead > Window

SineInv == SineTypeOK /\ WindowAhead /\ StopsAtFirstCrossing

(* Before the observation no datagram is counted and nothing has ended. *)
Observing == {"tapped", "observe", "closing", "report", "exit"}

Uncounted ==
  stage \notin Observing => ending = "none" /\ ~lost /\ events.datagrams = 0

(* A datagram is counted where it arrives, and after that it is in the queue, read
   or dropped. *)
CountsAgree ==
  /\ yields + errors + Len(queue) <= events.datagrams
  /\ events.streams + events.datagrams <= packets

(* The snapshot is taken when everything that will be read has been read. *)
SnapshotBetween ==
  stage \in {"closing", "report"} => yields + errors <= snapshot.events.datagrams

(* It is also taken before the program itself ends the connection, which sends a
   packet unless the connection has ended before. *)
EndsAgree ==
  /\ stage \in {"tapped", "observe", "closing"} => (ending = "seen" <=> lost)
  /\ stage \in {"closing", "report"} => (snapshot.terminated <=> lost)
  /\ stage = "report" => sent \/ lost \/ ending = "unseen"

DiagnoseInv ==
  /\ DiagnoseTypeOK
  /\ Uncounted /\ CountsAgree /\ SnapshotBetween /\ EndsAgree
  /\ stage # "exit" => verdicts = {}
  /\ ReportIsTrue

IInv == SessionInv /\ SineInv /\ MonitorTypeOK /\ DiagnoseInv

-----------------------------------------------------------------------------
(* diagnose.py *)

LEMMA DiagnoseStarts == DiagnoseInit => DiagnoseInv
<1> SUFFICES ASSUME DiagnoseInit PROVE DiagnoseInv
  OBVIOUS
<1>1. 0 \in 0 .. MaxPackets /\ NoEvents \in EventCounts
  BY DiagnoseAssumption DEF NoEvents, EventCounts
<1>2. queue = <<>> /\ queue \in Seq(BOOLEAN) /\ Len(queue) = 0
  BY DEF DiagnoseInit
<1>3. DiagnoseTypeOK
  <2>1. 0 \in 0 .. Addresses
    BY DiagnoseAssumption
  <2>2. Len(queue) <= Capacity
    BY <1>2, DiagnoseAssumption
  <2>3. snapshot \in [events : EventCounts, terminated : BOOLEAN] /\ events \in EventCounts
    BY <1>1 DEF DiagnoseInit
  <2> QED
    BY <1>1, <1>2, <2>1, <2>2, <2>3 DEF DiagnoseInit, DiagnoseTypeOK
<1>4. events.datagrams = 0 /\ events.streams = 0
  BY DEF DiagnoseInit, NoEvents
<1>5. Uncounted /\ SnapshotBetween /\ EndsAgree /\ ReportIsTrue
  BY <1>4 DEF DiagnoseInit, Uncounted, SnapshotBetween, EndsAgree, ReportIsTrue, Observing
<1>6. CountsAgree
  BY <1>2, <1>4 DEF DiagnoseInit, CountsAgree
<1> QED
  BY <1>3, <1>5, <1>6 DEF DiagnoseInit, DiagnoseInv

(* The counts as numbers *)
LEMMA CountTypes ==
  ASSUME DiagnoseTypeOK
  PROVE  /\ packets \in Nat /\ yields \in Nat /\ errors \in Nat /\ Len(queue) \in Nat
         /\ events.streams \in Nat /\ events.datagrams \in Nat
         /\ snapshot.events.streams \in Nat /\ snapshot.events.datagrams \in Nat
         /\ events = [streams |-> events.streams, datagrams |-> events.datagrams]
         /\ snapshot.events = [streams |-> snapshot.events.streams,
                               datagrams |-> snapshot.events.datagrams]
<1>1. /\ packets \in 0 .. MaxPackets /\ yields \in 0 .. MaxPackets
      /\ errors \in 0 .. MaxPackets /\ queue \in Seq(BOOLEAN)
  BY DEF DiagnoseTypeOK
<1>2. ASSUME NEW c \in EventCounts
      PROVE  /\ c.streams \in Nat /\ c.datagrams \in Nat
             /\ c = [streams |-> c.streams, datagrams |-> c.datagrams]
  <2>1. c.streams \in 0 .. MaxPackets /\ c.datagrams \in 0 .. MaxPackets
    BY DEF EventCounts
  <2>2. c = [streams |-> c.streams, datagrams |-> c.datagrams]
    BY DEF EventCounts
  <2> QED
    BY <2>1, <2>2, DiagnoseAssumption
<1>3. events \in EventCounts /\ snapshot.events \in EventCounts
  BY DEF DiagnoseTypeOK
<1>4. \A n \in 0 .. MaxPackets : n \in Nat
  BY DiagnoseAssumption
<1>5. Len(queue) \in Nat
  BY <1>1
<1> QED
  BY <1>1, <1>2, <1>3, <1>4, <1>5

(* The queue is never over its capacity. *)
LEMMA EnqueuedFits ==
  ASSUME DiagnoseTypeOK, NEW r \in BOOLEAN
  PROVE  /\ Enqueued(r) \in Seq(BOOLEAN)
         /\ Len(Enqueued(r)) <= Capacity /\ Len(Enqueued(r)) <= Len(queue) + 1
<1>1. /\ queue \in Seq(BOOLEAN) /\ Len(queue) <= Capacity /\ Len(queue) \in Nat
      /\ Capacity \in Nat \ {0}
  <2>1. queue \in Seq(BOOLEAN) /\ Len(queue) <= Capacity
    BY DEF DiagnoseTypeOK
  <2>2. Capacity \in Nat \ {0}
    BY DiagnoseAssumption
  <2> QED
    BY <2>1, <2>2
<1>2. CASE Len(queue) = Capacity
  <2>1. queue # <<>>
    BY <1>1, <1>2
  <2>2. Tail(queue) \in Seq(BOOLEAN) /\ Len(Tail(queue)) = Len(queue) - 1
    BY <1>1, <2>1
  <2>3. Enqueued(r) = Append(Tail(queue), r)
    BY <1>2 DEF Enqueued
  <2>4. /\ Append(Tail(queue), r) \in Seq(BOOLEAN)
        /\ Len(Append(Tail(queue), r)) = Len(Tail(queue)) + 1
    BY <2>2
  <2>5. Len(Enqueued(r)) = Len(queue)
    BY <1>1, <2>2, <2>3, <2>4
  <2> QED
    BY <1>1, <1>2, <2>3, <2>4, <2>5
<1>3. CASE Len(queue) # Capacity
  <2>1. Enqueued(r) = Append(queue, r)
    BY <1>3 DEF Enqueued
  <2>2. Append(queue, r) \in Seq(BOOLEAN) /\ Len(Append(queue, r)) = Len(queue) + 1
    BY <1>1
  <2> QED
    BY <1>1, <1>3, <2>1, <2>2
<1> QED
  BY <1>2, <1>3

LEMMA NotLost == ~lost /\ lost' = lost => ~lost'
OBVIOUS

(* An exit before the observation *)
LEMMA EarlyExit ==
  ASSUME DiagnoseInv, stage \notin Observing, NEW v, Exit(v),
         v \in {"no controller", "certs invalid", "handshake failed"},
         UNCHANGED <<attempts, counters, snapshot, lost>>
  PROVE  DiagnoseInv'
<1>1. /\ stage' = "exit" /\ verdicts' = {v}
      /\ UNCHANGED <<untried, reached, negotiated, ending, sent, packets, events, queue,
                     yields, errors, snapshot, lost>>
  BY DEF Exit, attempts, counters
<1>2. DiagnoseTypeOK'
  BY <1>1 DEF DiagnoseInv, DiagnoseTypeOK
<1>3. CountsAgree' /\ SnapshotBetween' /\ EndsAgree' /\ Uncounted'
  <2>1. CountsAgree
    BY DEF DiagnoseInv
  <2>2. CountsAgree'
    BY <1>1, <2>1 DEF CountsAgree
  <2>3. SnapshotBetween' /\ EndsAgree' /\ Uncounted'
    BY <1>1 DEF SnapshotBetween, EndsAgree, Uncounted, Observing
  <2> QED
    BY <2>2, <2>3
<1>4. ~lost'
  <2>1. ~lost
    BY DEF DiagnoseInv, Uncounted
  <2>2. lost' = lost
    BY <1>1
  <2> QED
    BY <2>1, <2>2, NotLost
<1>5. ReportIsTrue'
  BY <1>1, <1>4 DEF ReportIsTrue
<1> QED
  BY <1>1, <1>2, <1>3, <1>5 DEF DiagnoseInv

(* A step towards the observation, at which the connection may have ended *)
LEMMA StageAdvances ==
  ASSUME DiagnoseInv, stage \notin Observing, DiagnoseTypeOK',
         stage' \in {"certs", "handshake", "sequential", "tapped"},
         ending' \in {"none", "unseen"}, stage' # "tapped" => ending' = ending,
         UNCHANGED <<packets, events, queue, yields, errors, lost, verdicts>>
  PROVE  DiagnoseInv'
<1>1. events'.datagrams = 0 /\ ~lost /\ ending = "none"
  BY DEF DiagnoseInv, Uncounted
<1>2. Uncounted' /\ SnapshotBetween' /\ EndsAgree'
  BY <1>1 DEF Uncounted, SnapshotBetween, EndsAgree, Observing
<1>3. CountsAgree'
  BY DEF DiagnoseInv, CountsAgree
<1>4. ReportIsTrue' /\ verdicts' = {}
  BY DEF DiagnoseInv, ReportIsTrue, Observing
<1> QED
  BY <1>2, <1>3, <1>4 DEF DiagnoseInv

LEMMA HandshakeKeeps == ASSUME DiagnoseInv, Handshake PROVE DiagnoseInv'
<1>1. /\ stage = "handshake" /\ stage' \in {"tapped", "sequential"}
      /\ ending' \in {"none", "unseen"} \/ ending' = ending
      /\ stage' = "sequential" => ending' = ending
      /\ untried' \in 0 .. Addresses /\ negotiated' \in BOOLEAN
      /\ UNCHANGED <<reached, sent, packets, events, queue, yields, errors, snapshot, lost,
                     verdicts>>
  BY DEF Handshake, DiagnoseInv, DiagnoseTypeOK
<1>2. ending = "none"
  BY <1>1 DEF DiagnoseInv, Uncounted, Observing
<1>3. DiagnoseTypeOK'
  BY <1>1, <1>2 DEF DiagnoseInv, DiagnoseTypeOK
<1> QED
  BY <1>1, <1>2, <1>3, StageAdvances DEF Observing

LEMMA AttemptKeeps == ASSUME DiagnoseInv, SequentialHandshake PROVE DiagnoseInv'
<1>1. /\ stage = "sequential" /\ stage' = "sequential" /\ untried > 0
      /\ untried' = untried - 1 /\ reached' \in BOOLEAN
      /\ UNCHANGED <<negotiated, ending, sent, packets, events, queue, yields, errors,
                     snapshot, lost, verdicts>>
  BY DEF SequentialHandshake, counters, DiagnoseInv, DiagnoseTypeOK
<1>2. ending = "none"
  BY <1>1 DEF DiagnoseInv, Uncounted, Observing
<1>3. untried' \in 0 .. Addresses
  <2>1. untried \in 0 .. Addresses
    BY DEF DiagnoseInv, DiagnoseTypeOK
  <2> QED
    BY <1>1, <2>1, DiagnoseAssumption
<1>4. DiagnoseTypeOK'
  BY <1>1, <1>3 DEF DiagnoseInv, DiagnoseTypeOK
<1> QED
  BY <1>1, <1>2, <1>4, StageAdvances DEF Observing

LEMMA SentKeeps == ASSUME DiagnoseInv, PacketSent PROVE DiagnoseInv'
<1>1. /\ stage \in {"tapped", "observe", "closing"} /\ sent' = TRUE
      /\ UNCHANGED <<stage, untried, reached, negotiated, ending, packets, events, queue,
                     yields, errors, snapshot, lost, verdicts>>
  BY DEF PacketSent, attempts, Tapped
<1>2. DiagnoseTypeOK'
  BY <1>1 DEF DiagnoseInv, DiagnoseTypeOK
<1> QED
  BY <1>1, <1>2 DEF DiagnoseInv, Uncounted, CountsAgree, SnapshotBetween, EndsAgree,
                    ReportIsTrue

LEMMA SubscribeKeeps == ASSUME DiagnoseInv, Subscribe PROVE DiagnoseInv'
<1>1. /\ stage = "tapped" /\ stage' = "observe"
      /\ UNCHANGED <<untried, reached, negotiated, ending, sent, packets, events, queue,
                     yields, errors, snapshot, lost, verdicts>>
  BY DEF Subscribe, attempts, counters
<1>2. DiagnoseTypeOK' /\ CountsAgree'
  BY <1>1 DEF DiagnoseInv, DiagnoseTypeOK, CountsAgree
<1>3. SnapshotBetween' /\ EndsAgree' /\ Uncounted' /\ ReportIsTrue'
  BY <1>1 DEF DiagnoseInv, SnapshotBetween, EndsAgree, Uncounted, ReportIsTrue, Observing
<1> QED
  BY <1>1, <1>2, <1>3 DEF DiagnoseInv

(* A packet, and in it k streams and d datagrams, with a queue that has room for
   what is in it *)
LEMMA PacketCounted ==
  ASSUME DiagnoseInv, Tapped, packets < MaxPackets, packets' = packets + 1,
         NEW k \in {0, 1}, NEW d \in {0, 1}, k + d <= 1,
         events' = [streams |-> events.streams + k, datagrams |-> events.datagrams + d],
         queue' \in Seq(BOOLEAN), Len(queue') <= Capacity, Len(queue') <= Len(queue) + d,
         UNCHANGED <<stage, untried, reached, negotiated, ending, sent, yields, errors,
                     snapshot, lost, verdicts>>
  PROVE  DiagnoseInv'
<1>1. DiagnoseTypeOK /\ CountsAgree /\ MaxPackets \in Nat
  BY DiagnoseAssumption DEF DiagnoseInv
<1>2. /\ packets \in Nat /\ yields \in Nat /\ errors \in Nat /\ Len(queue) \in Nat
      /\ events.streams \in Nat /\ events.datagrams \in Nat
  BY <1>1, CountTypes
<1>3. /\ events'.streams = events.streams + k /\ events'.datagrams = events.datagrams + d
      /\ Len(queue') \in Nat
  OBVIOUS
<1>4. CountsAgree'
  <2>1. yields' + errors' + Len(queue') <= events'.datagrams
    BY <1>1, <1>2, <1>3 DEF CountsAgree
  <2>2. events'.streams + events'.datagrams <= packets'
    BY <1>1, <1>2, <1>3 DEF CountsAgree
  <2> QED
    BY <2>1, <2>2 DEF CountsAgree
<1>5. DiagnoseTypeOK'
  <2>1. events.streams + events.datagrams <= packets
    BY <1>1 DEF CountsAgree
  <2>2. /\ events.streams + k \in 0 .. MaxPackets /\ events.datagrams + d \in 0 .. MaxPackets
        /\ packets' \in 0 .. MaxPackets
    <3> DEFINE s == events.streams
               t == events.datagrams
    <3>1. /\ s \in Nat /\ t \in Nat /\ packets \in Nat /\ s + t <= packets
          /\ packets < MaxPackets /\ packets' = packets + 1 /\ MaxPackets \in Nat
      BY <1>1, <1>2, <2>1
    <3> HIDE DEF s, t
    <3>2. s + k \in 0 .. MaxPackets /\ t + d \in 0 .. MaxPackets
          /\ packets' \in 0 .. MaxPackets
      BY <3>1
    <3> QED
      BY <3>2 DEF s, t
  <2>3. events' \in EventCounts
    BY <2>2 DEF EventCounts
  <2> QED
    BY <1>1, <2>2, <2>3 DEF DiagnoseTypeOK
<1>6. SnapshotBetween' /\ EndsAgree'
  BY DEF DiagnoseInv, SnapshotBetween, EndsAgree
<1>7. stage \in Observing /\ stage # "exit"
  BY DEF Tapped, Observing
<1> QED
  BY <1>4, <1>5, <1>6, <1>7 DEF DiagnoseInv, Uncounted, ReportIsTrue

LEMMA ArrivalKeeps ==
  ASSUME DiagnoseInv, AckArrives \/ StreamArrives \/ DatagramArrives
  PROVE  DiagnoseInv'
<1>1. DiagnoseTypeOK
  BY DEF DiagnoseInv
<1>2. /\ events = [streams |-> events.streams, datagrams |-> events.datagrams]
      /\ events.streams \in Nat /\ events.datagrams \in Nat /\ Len(queue) \in Nat
  BY <1>1, CountTypes
<1>3. queue \in Seq(BOOLEAN) /\ Len(queue) <= Capacity
  BY <1>1 DEF DiagnoseTypeOK
<1>4. CASE AckArrives
  <2>1. events' = [streams |-> events.streams + 0, datagrams |-> events.datagrams + 0]
    BY <1>2, <1>4 DEF AckArrives
  <2> QED
    BY <1>2, <1>3, <1>4, <2>1, PacketCounted DEF AckArrives, attempts
<1>5. CASE StreamArrives
  <2>1. events' = [streams |-> events.streams + 1, datagrams |-> events.datagrams + 0]
    BY <1>2, <1>5 DEF StreamArrives
  <2> QED
    BY <1>2, <1>3, <1>5, <2>1, PacketCounted DEF StreamArrives, attempts
<1>6. CASE DatagramArrives
  <2>1. events' = [streams |-> events.streams + 0, datagrams |-> events.datagrams + 1]
    BY <1>2, <1>6 DEF DatagramArrives
  <2>2. /\ queue' \in Seq(BOOLEAN) /\ Len(queue') <= Capacity
        /\ Len(queue') <= Len(queue) + 1
    <3>1. CASE stage = "observe"
      <4>1. PICK readable \in BOOLEAN : queue' = Enqueued(readable)
        BY <1>6, <3>1 DEF DatagramArrives
      <4> QED
        BY <1>1, <4>1, EnqueuedFits
    <3>2. CASE stage # "observe"
      <4>1. queue' = queue
        BY <1>6, <3>2 DEF DatagramArrives
      <4> QED
        BY <1>2, <1>3, <3>2, <4>1
    <3> QED
      BY <3>1, <3>2
  <2> QED
    BY <1>2, <1>6, <2>1, <2>2, PacketCounted DEF DatagramArrives, attempts
<1> QED
  BY <1>4, <1>5, <1>6

LEMMA DrainKeeps == ASSUME DiagnoseInv, Drain PROVE DiagnoseInv'
<1>1. DiagnoseTypeOK /\ CountsAgree /\ MaxPackets \in Nat
  BY DiagnoseAssumption DEF DiagnoseInv
<1>2. /\ packets \in Nat /\ yields \in Nat /\ errors \in Nat /\ Len(queue) \in Nat
      /\ events.streams \in Nat /\ events.datagrams \in Nat
  BY <1>1, CountTypes
<1>3. /\ stage = "observe" /\ queue # <<>> /\ queue' = Tail(queue)
      /\ \/ yields' = yields + 1 /\ errors' = errors
         \/ yields' = yields /\ errors' = errors + 1
      /\ UNCHANGED <<stage, untried, reached, negotiated, ending, sent, packets, events,
                     snapshot, lost, verdicts>>
  BY DEF Drain, attempts
<1>4. queue \in Seq(BOOLEAN) /\ Len(queue) <= Capacity /\ Capacity \in Nat
  BY <1>1, DiagnoseAssumption DEF DiagnoseTypeOK
<1>5. queue' \in Seq(BOOLEAN) /\ Len(queue') = Len(queue) - 1
  BY <1>3, <1>4
<1>6. CountsAgree'
  <2>1. yields' + errors' + Len(queue') <= events'.datagrams
    BY <1>1, <1>2, <1>3, <1>5 DEF CountsAgree
  <2>2. events'.streams + events'.datagrams <= packets'
    BY <1>1, <1>3 DEF CountsAgree
  <2> QED
    BY <2>1, <2>2 DEF CountsAgree
<1>7. DiagnoseTypeOK'
  <2>1. events.datagrams <= MaxPackets
    <3>1. events \in EventCounts
      BY <1>1 DEF DiagnoseTypeOK
    <3>2. events.datagrams \in 0 .. MaxPackets
      BY <3>1 DEF EventCounts
    <3> QED
      BY <3>2
  <2>2. yields' + errors' + Len(queue') <= events.datagrams /\ Len(queue') \in Nat
    BY <1>3, <1>5, <1>6 DEF CountsAgree
  <2>3. yields' \in 0 .. MaxPackets /\ errors' \in 0 .. MaxPackets
    BY <1>1, <1>2, <1>3, <2>1, <2>2
  <2>4. Len(queue') <= Capacity
    BY <1>2, <1>4, <1>5
  <2> QED
    BY <1>1, <1>3, <1>5, <2>3, <2>4 DEF DiagnoseTypeOK
<1>8. SnapshotBetween' /\ EndsAgree' /\ Uncounted' /\ ReportIsTrue'
  BY <1>3 DEF DiagnoseInv, SnapshotBetween, EndsAgree, Uncounted, ReportIsTrue, Observing
<1> QED
  BY <1>3, <1>6, <1>7, <1>8 DEF DiagnoseInv

LEMMA LossKeeps == ASSUME DiagnoseInv, ConnectionLost PROVE DiagnoseInv'
<1>1. /\ ending' = "seen" /\ lost' = TRUE /\ stage \in {"tapped", "observe"}
      /\ UNCHANGED <<stage, untried, reached, negotiated, sent, packets, events, queue,
                     yields, errors, snapshot, verdicts>>
  BY DEF ConnectionLost, attempts
<1>2. DiagnoseTypeOK' /\ CountsAgree'
  BY <1>1 DEF DiagnoseInv, DiagnoseTypeOK, CountsAgree
<1>3. SnapshotBetween' /\ EndsAgree' /\ Uncounted' /\ ReportIsTrue'
  BY <1>1 DEF DiagnoseInv, SnapshotBetween, EndsAgree, Uncounted, ReportIsTrue, Observing
<1> QED
  BY <1>1, <1>2, <1>3 DEF DiagnoseInv

LEMMA StopKeeps == ASSUME DiagnoseInv, StopObserving PROVE DiagnoseInv'
<1>1. /\ stage = "observe" /\ stage' = "closing"
      /\ snapshot' = [events |-> events, terminated |-> ending = "seen"]
      /\ UNCHANGED <<untried, reached, negotiated, ending, sent, packets, events, queue,
                     yields, errors, lost, verdicts>>
  BY DEF StopObserving, attempts, counters
<1>2. snapshot'.events = events /\ (snapshot'.terminated <=> ending = "seen")
  BY <1>1
<1>3. DiagnoseTypeOK' /\ CountsAgree'
  BY <1>1, <1>2 DEF DiagnoseInv, DiagnoseTypeOK, CountsAgree
<1>4. SnapshotBetween'
  <2>1. DiagnoseTypeOK /\ CountsAgree
    BY DEF DiagnoseInv
  <2>2. yields + errors <= events.datagrams
    BY <2>1, CountTypes DEF CountsAgree
  <2> QED
    BY <1>1, <1>2, <2>2 DEF SnapshotBetween
<1>5. EndsAgree'
  BY <1>1, <1>2 DEF DiagnoseInv, EndsAgree
<1>6. Uncounted' /\ ReportIsTrue' /\ verdicts' = {}
  BY <1>1 DEF DiagnoseInv, Uncounted, ReportIsTrue, Observing
<1> QED
  BY <1>1, <1>3, <1>4, <1>5, <1>6 DEF DiagnoseInv

LEMMA CloseKeeps == ASSUME DiagnoseInv, CloseConnection PROVE DiagnoseInv'
<1>1. /\ stage = "closing" /\ stage' = "report"
      /\ sent' = (sent \/ ending = "none")
      /\ ending' = IF ending = "none" THEN "seen" ELSE ending
      /\ UNCHANGED <<untried, reached, negotiated, packets, events, queue, yields, errors,
                     snapshot, lost, verdicts>>
  BY DEF CloseConnection, attempts
<1>2. DiagnoseTypeOK' /\ CountsAgree'
  BY <1>1 DEF DiagnoseInv, DiagnoseTypeOK, CountsAgree
<1>3. sent' \/ lost' \/ ending' = "unseen"
  <2>1. ending \in {"none", "unseen", "seen"} /\ (ending = "seen" <=> lost)
    BY <1>1 DEF DiagnoseInv, DiagnoseTypeOK, EndsAgree
  <2> QED
    BY <1>1, <2>1
<1>4. SnapshotBetween' /\ EndsAgree' /\ Uncounted' /\ ReportIsTrue'
  BY <1>1, <1>3 DEF DiagnoseInv, SnapshotBetween, EndsAgree, Uncounted, ReportIsTrue,
                    Observing
<1> QED
  BY <1>1, <1>2, <1>4 DEF DiagnoseInv

(* The branches are told apart by the snapshot and by the counts of the end. *)
LEMMA Branches ==
  ASSUME DiagnoseTypeOK
  PROVE  /\ Conclusion \in {"below quic", "not negotiated", "nothing in quic",
                            "datagrams dropped", "schema mismatch", "swallowed", "slow",
                            "healthy"}
         /\ Conclusion \in {"nothing in quic", "datagrams dropped"} =>
              snapshot.events.datagrams = 0
<1>1. packets \in Nat /\ yields \in Nat /\ errors \in Nat
      /\ snapshot.events.streams \in Nat /\ snapshot.events.datagrams \in Nat
  BY CountTypes
<1>2. CASE packets = 0
  BY <1>2 DEF Conclusion
<1>3. CASE packets > 0 /\ ~negotiated
  BY <1>1, <1>3 DEF Conclusion
<1>4. CASE packets > 0 /\ negotiated
  <2>1. CASE snapshot.events = NoEvents
    <3>1. snapshot.events.datagrams = 0 /\ snapshot.events.streams = 0
      BY <2>1 DEF NoEvents
    <3>2. Conclusion = "nothing in quic"
      BY <1>1, <1>4, <2>1, <3>1 DEF Conclusion
    <3> QED
      BY <3>1, <3>2
  <2>2. CASE snapshot.events # NoEvents /\ snapshot.events.datagrams = 0
    <3>1. Conclusion \in {"datagrams dropped", "slow", "healthy"}
      BY <1>1, <1>4, <2>2 DEF Conclusion
    <3> QED
      BY <2>2, <3>1
  <2>3. CASE snapshot.events # NoEvents /\ snapshot.events.datagrams > 0 /\ yields = 0
    <3>1. Conclusion = IF errors > 0 THEN "schema mismatch" ELSE "swallowed"
      <4>1. ~(packets = 0) /\ ~(packets > 0 /\ ~negotiated) /\ snapshot.events.datagrams # 0
        BY <1>1, <1>4, <2>3
      <4> QED
        BY <2>3, <4>1, Zenon DEF Conclusion
    <3> QED
      BY <2>3, <3>1
  <2>4. CASE snapshot.events # NoEvents /\ snapshot.events.datagrams > 0 /\ yields # 0
    <3>1. Conclusion \in {"slow", "healthy"}
      BY <1>1, <1>4, <2>4 DEF Conclusion
    <3> QED
      BY <3>1
  <2>5. snapshot.events.datagrams = 0 \/ snapshot.events.datagrams > 0
    BY <1>1
  <2> QED
    BY <2>1, <2>2, <2>3, <2>4, <2>5, Zenon
<1>5. packets = 0 \/ packets > 0
  BY <1>1
<1> QED
  BY <1>2, <1>3, <1>4, <1>5, Zenon

LEMMA ReportKeeps == ASSUME DiagnoseInv, Report PROVE DiagnoseInv'
<1>1. /\ stage = "report" /\ stage' = "exit"
      /\ verdicts' = {Conclusion} \cup {v \in {"torn down"} : snapshot.terminated}
                                  \cup {v \in {"nothing sent"} : ~sent}
      /\ UNCHANGED <<untried, reached, negotiated, ending, sent, packets, events, queue,
                     yields, errors, snapshot, lost>>
  BY DEF Report, attempts, counters
<1>2. DiagnoseTypeOK
  BY DEF DiagnoseInv
<1>3. /\ packets \in Nat /\ yields \in Nat /\ errors \in Nat
      /\ snapshot.events.datagrams \in Nat
  BY <1>2, CountTypes
<1> DEFINE c == Conclusion
<1>4. /\ c \in {"below quic", "not negotiated", "nothing in quic", "datagrams dropped",
                "schema mismatch", "swallowed", "slow", "healthy"}
      /\ c \in {"nothing in quic", "datagrams dropped"} => snapshot.events.datagrams = 0
  BY <1>2, Branches
<1>5. verdicts' = {c} \cup {v \in {"torn down"} : snapshot.terminated}
                      \cup {v \in {"nothing sent"} : ~sent}
  BY <1>1
<1> HIDE DEF c
<1>6. DiagnoseTypeOK' /\ CountsAgree'
  BY <1>1, <1>4, <1>5 DEF DiagnoseInv, DiagnoseTypeOK, CountsAgree
<1>7. SnapshotBetween' /\ EndsAgree' /\ Uncounted'
  BY <1>1 DEF SnapshotBetween, EndsAgree, Uncounted, Observing
<1>8. "torn down" \in verdicts' <=> lost'
  <2>1. snapshot.terminated <=> lost
    BY <1>1 DEF DiagnoseInv, EndsAgree
  <2> QED
    BY <1>1, <1>4, <1>5, <2>1
<1>9. "nothing sent" \in verdicts' => lost' \/ ending' = "unseen"
  <2>1. sent \/ lost \/ ending = "unseen"
    BY <1>1 DEF DiagnoseInv, EndsAgree
  <2> QED
    BY <1>1, <1>4, <1>5, <2>1
<1>10. verdicts' \cap {"nothing in quic", "datagrams dropped"} # {} =>
         yields' = 0 /\ errors' = 0
  <2>1. yields + errors <= snapshot.events.datagrams
    BY <1>1 DEF DiagnoseInv, SnapshotBetween
  <2>2. c \in {"nothing in quic", "datagrams dropped"} => yields = 0 /\ errors = 0
    <3>1. snapshot.events.datagrams = 0 => yields = 0 /\ errors = 0
      BY <1>3, <2>1
    <3> QED
      BY <1>4, <3>1
  <2> QED
    BY <1>1, <1>5, <2>2
<1>11. ReportIsTrue'
  BY <1>8, <1>9, <1>10 DEF ReportIsTrue
<1> QED
  BY <1>1, <1>6, <1>7, <1>11 DEF DiagnoseInv

LEMMA DiagnoseSteps ==
  ASSUME DiagnoseInv, [DiagnoseNext]_diagnosis
  PROVE  DiagnoseInv'
<1>1. CASE UNCHANGED diagnosis
  <2>1. UNCHANGED <<stage, untried, reached, negotiated, ending, sent, packets, events, queue,
                    yields, errors, snapshot, lost, verdicts>>
    BY <1>1 DEF diagnosis, attempts, counters
  <2>2. DiagnoseTypeOK' /\ Uncounted' /\ (stage' # "exit" => verdicts' = {})
    BY <2>1 DEF DiagnoseInv, DiagnoseTypeOK, Uncounted
  <2>3. CountsAgree
    BY DEF DiagnoseInv
  <2>4. CountsAgree'
    BY <2>1, <2>3 DEF CountsAgree
  <2>5. SnapshotBetween' /\ EndsAgree' /\ ReportIsTrue'
    BY <2>1 DEF DiagnoseInv, SnapshotBetween, EndsAgree, ReportIsTrue
  <2> QED
    BY <2>2, <2>4, <2>5 DEF DiagnoseInv
<1>2. ASSUME stage \notin Observing, stage' \in {"certs", "handshake"},
             UNCHANGED <<attempts, counters, snapshot, lost, verdicts>>
      PROVE  DiagnoseInv'
  <2>1. UNCHANGED <<untried, reached, negotiated, ending, sent, packets, events, queue,
                    yields, errors, snapshot, lost, verdicts>>
    BY <1>2 DEF attempts, counters
  <2>2. DiagnoseTypeOK'
    BY <1>2, <2>1 DEF DiagnoseInv, DiagnoseTypeOK
  <2>3. ending = "none"
    BY <1>2 DEF DiagnoseInv, Uncounted
  <2> QED
    BY <1>2, <2>1, <2>2, <2>3, StageAdvances
<1>3. CASE DiscoverController
  BY <1>2, <1>3, EarlyExit DEF DiscoverController, Observing
<1>4. CASE CheckCerts
  BY <1>2, <1>4, EarlyExit DEF CheckCerts, Observing
<1>5. CASE GiveUp
  BY <1>5, EarlyExit DEF GiveUp, Observing
<1> QED
  BY <1>1, <1>3, <1>4, <1>5, HandshakeKeeps, AttemptKeeps, SentKeeps, ArrivalKeeps,
     SubscribeKeeps, DrainKeeps, LossKeeps, StopKeeps, CloseKeeps, ReportKeeps DEF DiagnoseNext

-----------------------------------------------------------------------------
(* The sine of streaming_test.py *)

(* The step that preserves the types: `ahead` stays within one period. *)
LEMMA SampleTypes ==
  ASSUME SineTypeOK, NEW d \in 1 .. MaxStep, Sample(d)
  PROVE  SineTypeOK'
<1>1. d \in Nat /\ d >= 1 /\ d <= 2 * Window + 1
  BY SineAssumption, StepAssumption
<1>2. elapsed' \in 0 .. Duration
  BY <1>1, SineAssumption DEF SineTypeOK, Sample
<1>3. ahead' \in -Window .. Period - Window - 1
  BY <1>1, SineAssumption DEF SineTypeOK, Sample
<1>4. streaming' \in BOOLEAN /\ pastDuration' \in BOOLEAN /\ skipped' \in BOOLEAN
  BY DEF Sample
<1> QED  BY <1>2, <1>3, <1>4 DEF SineTypeOK

(* A step is shorter than a window, so none is jumped over. *)
LEMMA SampleKeepsWindow ==
  ASSUME SineInv, NEW d \in 1 .. MaxStep, Sample(d)
  PROVE  WindowAhead' /\ StopsAtFirstCrossing'
<1>1. d \in Nat /\ d >= 1 /\ d <= 2 * Window + 1 /\ Window \in Nat
  BY SineAssumption, StepAssumption
<1>2. ahead \in Int
  BY SineAssumption DEF SineInv, SineTypeOK
<1>3. ASSUME pastDuration PROVE ~(ahead - d < -Window)
  BY <1>1, <1>2, <1>3 DEF SineInv, WindowAhead, Sample
<1>4. ~skipped'
  BY <1>3, Zenon DEF SineInv, StopsAtFirstCrossing, Sample
<1>5. ASSUME streaming', pastDuration' PROVE ahead' > Window
  <2>1. ~AtCrossing(ahead')
    BY <1>5 DEF Sample
  <2>2. SineTypeOK'
    BY SampleTypes DEF SineInv
  <2> QED  BY <1>1, <2>1, <2>2, SineAssumption DEF SineTypeOK, AtCrossing
<1> QED  BY <1>4, <1>5 DEF WindowAhead, StopsAtFirstCrossing

LEMMA SineStarts == SineInit => SineInv
<1> SUFFICES ASSUME SineInit PROVE SineInv
  OBVIOUS
<1>1. elapsed \in 0 .. Duration /\ ahead \in -Window .. Period - Window - 1
  BY SineAssumption DEF SineInit
<1>2. streaming \in BOOLEAN /\ pastDuration \in BOOLEAN /\ skipped \in BOOLEAN
  BY DEF SineInit
<1>3. WindowAhead /\ StopsAtFirstCrossing
  BY DEF SineInit, WindowAhead, StopsAtFirstCrossing
<1> QED
  BY <1>1, <1>2, <1>3 DEF SineInv, SineTypeOK

LEMMA SineSteps == ASSUME SineInv, [SineNext]_sine PROVE SineInv'
<1>1. CASE UNCHANGED sine
  BY <1>1 DEF sine, SineInv, SineTypeOK, WindowAhead, StopsAtFirstCrossing
<1>2. ASSUME NEW d \in 1 .. MaxStep, Sample(d) PROVE SineInv'
  <2>1. SineTypeOK'
    BY <1>2, SampleTypes DEF SineInv
  <2>2. WindowAhead' /\ StopsAtFirstCrossing'
    BY <1>2, SampleKeepsWindow
  <2> QED
    BY <2>1, <2>2 DEF SineInv
<1> QED
  BY <1>1, <1>2 DEF SineNext

-----------------------------------------------------------------------------
(* monitor.py *)

LEMMA MonitorStarts == MonitorInit => MonitorTypeOK
BY MonitorAssumption DEF MonitorInit, MonitorTypeOK

LEMMA MonitorSteps ==
  ASSUME MonitorTypeOK, [MonitorNext]_monitor
  PROVE  MonitorTypeOK'
<1> USE MonitorAssumption
<1>1. CASE UNCHANGED monitor
  BY <1>1 DEF monitor, MonitorTypeOK
<1>2. CASE PressKey
  BY <1>2 DEF PressKey, MonitorTypeOK
<1>3. CASE PutKey
  <2>1. Head(scheduled) \in 1 .. Keys /\ Tail(scheduled) \in Seq(1 .. Keys)
    BY <1>3, HeadTailProperties DEF PutKey, MonitorTypeOK
  <2> QED
    BY <1>3, <2>1 DEF PutKey, MonitorTypeOK
<1>4. CASE TelemetryArrives
  BY <1>4 DEF TelemetryArrives, MonitorTypeOK
<1>5. CASE Redraw
  <2>1. /\ frames' \in 0 .. Frames
        /\ UNCHANGED <<connected, pressed, scheduled>>
        /\ LookAtKey
    BY <1>5 DEF Redraw, MonitorTypeOK
  <2>2. CASE inputQueue = <<>>
    BY <2>1, <2>2 DEF LookAtKey, MonitorTypeOK
  <2>3. CASE inputQueue # <<>>
    <3>1. Head(inputQueue) \in 1 .. Keys /\ Tail(inputQueue) \in Seq(1 .. Keys)
      BY <2>3, HeadTailProperties DEF MonitorTypeOK
    <3>2. /\ inputQueue' = Tail(inputQueue)
          /\ mode' \in {"engaging", mode}
          /\ served' \in {served, served \cup {Head(inputQueue)}}
      BY <2>1, <2>3 DEF LookAtKey
    <3> QED
      BY <2>1, <3>1, <3>2 DEF MonitorTypeOK
  <2> QED
    BY <2>2, <2>3
<1>6. CASE QuickstopEnds \/ Disconnect \/ Quit
  BY <1>6 DEF QuickstopEnds, Disconnect, Quit, MonitorTypeOK
<1> QED
  BY <1>1, <1>2, <1>3, <1>4, <1>5, <1>6 DEF MonitorNext

-----------------------------------------------------------------------------
(* The scripts *)

LEMMA SetupType == Setup \in Seq(Steps) /\ Len(Setup) = 6
<1>1. /\ Try("clear_fault") \in Steps /\ Call("claim") \in Steps
      /\ Call("set_drive_mode") \in Steps /\ Call("disengage") \in Steps
      /\ Wait("operational") \in Steps
  BY DEF Steps, Try, Call, Wait, CallNames, Waits
<1> QED
  BY <1>1 DEF Setup

LEMMA GotoType ==
  ASSUME NEW p \in Positions
  PROVE  Goto(p) \in Seq(Steps) /\ Len(Goto(p)) = 3
<1>1. Pose(p) \in Steps /\ Wait("moving") \in Steps /\ Wait("idle") \in Steps
  BY DEF Steps, Pose, Wait, Waits
<1> QED
  BY <1>1 DEF Goto

(* A sequence of steps behind another one, by their lengths *)
Join(s, t) == s \o t

LEMMA Behind ==
  ASSUME NEW s \in Seq(Steps), NEW t \in Seq(Steps)
  PROVE  /\ Join(s, t) \in Seq(Steps) /\ Len(Join(s, t)) = Len(s) + Len(t)
         /\ \A i \in 1 .. Len(s) : Join(s, t)[i] = s[i]
         /\ \A i \in 1 .. Len(t) : Join(s, t)[Len(s) + i] = t[i]
<1> DEFINE q == s \o t
<1>1. /\ q \in Seq(Steps) /\ Len(q) = Len(s) + Len(t)
      /\ \A i \in 1 .. Len(s) + Len(t) : q[i] = IF i <= Len(s) THEN s[i] ELSE t[i - Len(s)]
  BY ConcatProperties
<1>0. Len(s) \in Nat /\ Len(t) \in Nat
  OBVIOUS
<1> HIDE DEF q
<1>2. Join(s, t) = q
  BY DEF q, Join
<1> DEFINE m == Len(s)
  n == Len(t)
<1>3. m \in Nat /\ n \in Nat /\ \A i \in 1 .. m + n : q[i] = IF i <= m THEN s[i] ELSE t[i - m]
  BY <1>0, <1>1
<1> HIDE DEF m, n
<1>4. \A i \in 1 .. n : m + i \in 1 .. m+n /\ (m+i) - m = i /\ ~(m+i <= m)
  BY <1>3
<1>5. \A i \in 1 .. n : q[m+i] = t[i]
  <2> TAKE i \in 1..n
  <2> DEFINE k == m + i
  <2>1. k \in 1 .. m+n /\ k - m = i /\ ~(k <= m)
    BY <1>4
  <2> HIDE DEF k
  <2>2. q[k] = t[i]
    BY <2>1, <1>3
  <2> QED BY <2>2 DEF k
<1>6. \A i \in 1 .. m : q[i] = s[i]
  BY <1>3
<1> QED
  BY <1>1, <1>2, <1>5, <1>6 DEF m, n

LEMMA MoveTestType ==
  /\ MoveTest \in Seq(Steps) /\ Len(MoveTest) = 13
  /\ MoveTest[8] = Pose(Target) /\ MoveTest[11] = Pose(Zero)
  /\ MoveTest[9] = Wait("moving") /\ MoveTest[12] = Wait("moving")
  /\ MoveTest[10] = Wait("idle") /\ MoveTest[13] = Wait("idle")
  /\ MoveTest[7] = Call("set_drive_mode")
  /\ \A i \in 1 .. 6 : MoveTest[i] = Setup[i]
<1> DEFINE a == <<Call("set_drive_mode")>>
           b == Join(Setup, a)
           g == Goto(Target)
           c == Join(b, g)
           h == Goto(Zero)
           d == Join(c, h)
<1>1. Target \in Positions /\ Zero \in Positions /\ Call("set_drive_mode") \in Steps
  BY DEF Positions, Steps, Call, CallNames
<1>2. a \in Seq(Steps) /\ Len(a) = 1 /\ a[1] = Call("set_drive_mode")
  BY <1>1
<1>3. /\ g \in Seq(Steps) /\ Len(g) = 3
      /\ g[1] = Pose(Target) /\ g[2] = Wait("moving") /\ g[3] = Wait("idle")
      /\ h \in Seq(Steps) /\ Len(h) = 3
      /\ h[1] = Pose(Zero) /\ h[2] = Wait("moving") /\ h[3] = Wait("idle")
  BY <1>1, GotoType DEF Goto
<1>4. MoveTest = d
  BY DEF MoveTest, Join
<1> HIDE DEF a, g, h
<1>5. /\ b \in Seq(Steps) /\ Len(b) = 7 /\ b[7] = Call("set_drive_mode")
      /\ \A i \in 1 .. 6 : b[i] = Setup[i]
  <2>1. /\ b \in Seq(Steps) /\ Len(b) = Len(Setup) + Len(a)
        /\ \A i \in 1 .. Len(Setup) : b[i] = Setup[i]
        /\ \A i \in 1 .. Len(a) : b[Len(Setup) + i] = a[i]
    BY <1>2, SetupType, Behind
  <2> HIDE DEF b
  <2> QED
    BY <1>2, <2>1, SetupType
<1> HIDE DEF b
<1>6. /\ c \in Seq(Steps) /\ Len(c) = 10
      /\ \A i \in 1 .. 7 : c[i] = b[i]
      /\ c[8] = Pose(Target) /\ c[9] = Wait("moving") /\ c[10] = Wait("idle")
  <2>1. /\ c \in Seq(Steps) /\ Len(c) = Len(b) + Len(g)
        /\ \A i \in 1 .. Len(b) : c[i] = b[i]
        /\ \A i \in 1 .. Len(g) : c[Len(b) + i] = g[i]
    BY <1>3, <1>5, Behind
  <2> HIDE DEF c
  <2> QED
    BY <1>3, <1>5, <2>1
<1> HIDE DEF c
<1>7. /\ d \in Seq(Steps) /\ Len(d) = 13
      /\ \A i \in 1 .. 10 : d[i] = c[i]
      /\ d[11] = Pose(Zero) /\ d[12] = Wait("moving") /\ d[13] = Wait("idle")
  <2>1. /\ d \in Seq(Steps) /\ Len(d) = Len(c) + Len(h)
        /\ \A i \in 1 .. Len(c) : d[i] = c[i]
        /\ \A i \in 1 .. Len(h) : d[Len(c) + i] = h[i]
    BY <1>3, <1>6, Behind
  <2> HIDE DEF d
  <2> QED
    BY <1>3, <1>6, <2>1
<1> HIDE DEF d
<1> QED
  BY <1>4, <1>5, <1>6, <1>7

(* Every pose is followed by an await. *)
Awaited(s) == \A i \in 1 .. Len(s) - 1 : s[i].do \in {"pose", "sine"} => s[i + 1].do = "wait"

LEMMA AwaitedBehind ==
  ASSUME NEW t \in Seq(Steps), Len(t) \in 1 .. 8, Awaited(t)
  PROVE  Awaited(Join(Setup, t))
<1> DEFINE r == Join(Setup, t)
           n == Len(t)
<1>1. /\ r \in Seq(Steps) /\ Len(r) = Len(Setup) + n
      /\ \A i \in 1 .. Len(Setup) : r[i] = Setup[i]
      /\ \A i \in 1 .. n : r[Len(Setup) + i] = t[i]
  BY SetupType, Behind
<1>2. n \in 1 .. 8 /\ \A i \in 1 .. n - 1 : t[i].do \in {"pose", "sine"} => t[i + 1].do = "wait"
  BY DEF Awaited
<1> HIDE DEF r, n
<1>3. /\ Len(r) = 6 + n
      /\ \A i \in 1 .. 6 : r[i] = Setup[i]
      /\ \A i \in 1 .. n : r[6 + i] = t[i]
  BY <1>1, SetupType
<1>4. ASSUME NEW i \in 1 .. 6 PROVE Setup[i].do \in {"call", "wait"}
  <2>1. i = 1 \/ i = 2 \/ i = 3 \/ i = 4 \/ i = 5 \/ i = 6
    OBVIOUS
  <2> QED
    BY <2>1 DEF Setup, Call, Try, Wait
<1>5. ASSUME NEW i \in 1 .. Len(r) - 1, r[i].do \in {"pose", "sine"}
      PROVE  r[i + 1].do = "wait"
  <2>1. i \notin 1 .. 6
    BY <1>3, <1>4, <1>5
  <2> DEFINE j == i - 6
  <2>2. j \in 1 .. n - 1 /\ j \in 1 .. n /\ j + 1 \in 1 .. n /\ 6 + j = i /\ 6 + (j + 1) = i + 1
    BY <1>2, <1>3, <2>1
  <2> HIDE DEF j
  <2>3. r[6 + j] = t[j] /\ r[6 + (j + 1)] = t[j + 1]
    BY <1>3, <2>2
  <2> QED
    BY <1>2, <1>5, <2>2, <2>3
<1>6. Awaited(r)
  BY <1>5 DEF Awaited
<1> QED
  BY <1>6 DEF r

LEMMA AwaitedMoveTest == Awaited(MoveTest)
<1> SUFFICES ASSUME NEW i \in 1 .. 12, MoveTest[i].do \in {"pose", "sine"}
             PROVE  MoveTest[i + 1].do = "wait"
  BY MoveTestType DEF Awaited
<1>1. /\ Wait("moving").do = "wait" /\ Wait("idle").do = "wait"
      /\ Call("set_drive_mode").do = "call"
  BY DEF Wait, Call
<1>2. i \in 1 .. 6 \/ i = 7 \/ i = 8 \/ i = 9 \/ i = 10 \/ i = 11 \/ i = 12
  OBVIOUS
<1>3. i \notin 1 .. 6
  <2>1. ASSUME NEW j \in 1 .. 6 PROVE Setup[j].do \in {"call", "wait"}
    <3>1. j = 1 \/ j = 2 \/ j = 3 \/ j = 4 \/ j = 5 \/ j = 6
      OBVIOUS
    <3> QED
      BY <3>1 DEF Setup, Call, Try, Wait
  <2> QED
    BY <2>1, MoveTestType
<1> QED
  BY <1>1, <1>2, <1>3, MoveTestType

LEMMA ScriptType ==
  ASSUME NEW p \in DOMAIN Scripts
  PROVE  Scripts[p] \in Seq(Steps) /\ Len(Scripts[p]) \in 1 .. 14 /\ Awaited(Scripts[p])
<1>1. /\ \A name \in CallNames : Call(name) \in Steps /\ Try(name) \in Steps
      /\ \A status \in Waits : Wait(status) \in Steps
      /\ \A q \in Positions : Pose(q) \in Steps
      /\ Sine \in Steps /\ Zero \in Positions
  BY DEF Steps, Call, Try, Wait, Pose, Sine, Positions
<1>2. ASSUME NEW t \in Seq(Steps), Len(t) \in 1 .. 8
      PROVE  Join(Setup, t) \in Seq(Steps) /\ Len(Join(Setup, t)) \in 1 .. 14
  <2> DEFINE r == Join(Setup, t)
             n == Len(t)
  <2>1. r \in Seq(Steps) /\ Len(r) = Len(Setup) + n
    BY SetupType, Behind
  <2>2. n \in 1 .. 8
    BY <1>2
  <2> HIDE DEF r, n
  <2>3. Len(r) = 6 + n
    BY <2>1, SetupType
  <2>4. Len(r) \in 1 .. 14
    BY <2>2, <2>3
  <2> QED
    BY <2>1, <2>4 DEF r
<1>3. GotoZero \in Seq(Steps) /\ Len(GotoZero) \in 1 .. 14 /\ Awaited(GotoZero)
  <2> DEFINE t == <<Call("set_drive_mode"), Pose(Zero), Wait("activity_idle")>>
  <2>0. /\ Call("set_drive_mode") \in Steps /\ Pose(Zero) \in Steps
        /\ Wait("activity_idle") \in Steps
    BY <1>1 DEF CallNames, Waits
  <2>1. t \in Seq(Steps) /\ Len(t) \in 1 .. 8
    BY <2>0
  <2>2. GotoZero = Join(Setup, t)
    BY DEF GotoZero, Join
  <2>3. Awaited(t)
    BY DEF Awaited, Call, Pose, Wait
  <2> HIDE DEF t
  <2> QED
    BY <1>2, <2>1, <2>2, <2>3, AwaitedBehind
<1>4. /\ GravityComp \in Seq(Steps) /\ Len(GravityComp) \in 1 .. 14
      /\ FrictionComp \in Seq(Steps) /\ Len(FrictionComp) \in 1 .. 14
      /\ Awaited(GravityComp) /\ Awaited(FrictionComp)
  <2> DEFINE t == <<Pose(Zero), Wait("activity_idle"), Call("set_drive_mode"), Call("calibrate")>>
  <2>0. /\ Call("set_drive_mode") \in Steps /\ Call("calibrate") \in Steps
        /\ Pose(Zero) \in Steps /\ Wait("activity_idle") \in Steps
    BY <1>1 DEF CallNames, Waits
  <2>1. t \in Seq(Steps) /\ Len(t) \in 1 .. 8
    BY <2>0
  <2>2. GravityComp = Join(Setup, t) /\ FrictionComp = Join(Setup, t)
    BY DEF GravityComp, FrictionComp, Join
  <2>3. Awaited(t)
    BY DEF Awaited, Call, Pose, Wait
  <2> HIDE DEF t
  <2> QED
    BY <1>2, <2>1, <2>2, <2>3, AwaitedBehind
<1>5. /\ ZeroingJoint7 \in Seq(Steps) /\ Len(ZeroingJoint7) \in 1 .. 14
      /\ Awaited(ZeroingJoint7)
  <2>1. ZeroingJoint7 \in Seq(Steps) /\ Len(ZeroingJoint7) \in 1 .. 14
    BY <1>1 DEF ZeroingJoint7, CallNames
  <2>2. Awaited(ZeroingJoint7)
    BY DEF Awaited, ZeroingJoint7, Call, Try
  <2> QED
    BY <2>1, <2>2
<1>6. StreamingTest \in Seq(Steps) /\ Len(StreamingTest) \in 1 .. 14 /\ Awaited(StreamingTest)
  <2> DEFINE t == <<Call("set_drive_mode"), Sine>>
  <2>0. Call("set_drive_mode") \in Steps /\ Sine \in Steps
    BY <1>1 DEF CallNames
  <2>1. t \in Seq(Steps) /\ Len(t) \in 1 .. 8
    BY <2>0
  <2>2. StreamingTest = Join(Setup, t)
    BY DEF StreamingTest, Join
  <2>3. Awaited(t)
    BY DEF Awaited, Call, Sine
  <2> HIDE DEF t
  <2> QED
    BY <1>2, <2>1, <2>2, <2>3, AwaitedBehind
<1> QED
  BY <1>3, <1>4, <1>5, <1>6, MoveTestType, AwaitedMoveTest DEF Scripts
-----------------------------------------------------------------------------
(* The control of a script *)

ExampleTypes ==
  /\ phase \in {"ready", "calling", "waiting", "leaving", "over"}
  /\ step \in 1 .. 15
  /\ Running /\ phase # "leaving" => step <= Len(Script)
  /\ outcome \in {"running", "done", "failed"}
  /\ inside \in BOOLEAN /\ expired \in BOOLEAN
  /\ interrupted \in {"no", "raised", "deferred", "swallowed"} /\ posesSince \in 0 .. 2
  /\ request \in {"none", "sent", "executed", "refused"}

WorldTypes ==
  /\ late \subseteq CallNames
  /\ link \in BOOLEAN
  /\ poses \subseteq Positions
  /\ controlled \in BOOLEAN
  /\ drives \in {"fault", "stopped", "setting_up", "operational"}
  /\ calibrating \in BOOLEAN
  /\ motion \in MotionStatuses
  /\ goal \in Positions /\ position \in Positions
  /\ braked \in BOOLEAN
  /\ wire \in Seq(SUBSET Waits)
  /\ overtook \in BOOLEAN

LEMMA TypesSplit == SessionTypeOK <=> ExampleTypes /\ WorldTypes
BY DEF SessionTypeOK, ExampleTypes, WorldTypes

ControlInv == program \in Programs /\ ExampleTypes /\ Control /\ OnlyLeaving

(* The step a script is at *)
LEMMA StepType ==
  ASSUME program \in DOMAIN Scripts, step \in 1 .. Len(Script)
  PROVE  /\ Script[step] \in Steps
         /\ Script[step].do = "call" => Script[step].what \in CallNames
         /\ Script[step].do \in {"pose", "sine"} => Script[step].what \in Positions
         /\ Script[step].do # "call" => ~Script[step].optional
         /\ Len(Script) \in 1 .. 14
         /\ Script[step].do \in {"pose", "sine"} /\ step + 1 <= Len(Script) =>
              Script[step + 1].do = "wait"
<1>1. Script \in Seq(Steps) /\ Len(Script) \in 1 .. 14 /\ Awaited(Script)
  BY ScriptType DEF Script
<1>3. Script[step].do \in {"pose", "sine"} /\ step + 1 <= Len(Script) =>
        Script[step + 1].do = "wait"
  BY <1>1 DEF Awaited
<1>2. Script[step] \in Steps
  BY <1>1, ElementOfSeq
<1> QED
  BY <1>1, <1>2, <1>3 DEF Steps

(* A step that ends leads to the next one or out. *)
Turns ==
  /\ step' \in {step, step + 1}
  /\ phase' \in {"ready", "leaving", "over"}
  /\ phase' = "ready" => step' = step + 1 /\ step' <= Len(Script)
  /\ outcome' \in {"running", "done", "failed"}
  /\ inside' \in BOOLEAN
  /\ request' \in {"none", "sent"}
  /\ request' = "sent" => phase' = "leaving"

LEMMA ProceedTurns ==
  ASSUME program \in DOMAIN Scripts, step \in 1 .. Len(Script),
         NEW within \in BOOLEAN, Proceed(within)
  PROVE  Turns /\ step' = step + 1
<1> DEFINE result == IF step = Len(Script) THEN "done" ELSE "running"
<1>1. GoTo(step + 1, within, result)
  BY DEF Proceed
<1>2. result = "running" => step + 1 <= Len(Script)
  BY StepType
<1>3. result \in {"running", "done"}
  OBVIOUS
<1> HIDE DEF result
<1> QED
  BY <1>1, <1>2, <1>3 DEF GoTo, Turns

LEMMA RaiseTurns ==
  ASSUME program \in DOMAIN Scripts, step \in 1 .. Len(Script), inside \in BOOLEAN,
         NEW cancelled \in BOOLEAN, StepRaises(cancelled)
  PROVE  /\ Turns
         /\ cancelled \/ ~Script[step].optional => step' = step /\ phase' # "ready"
<1>1. CASE Script[step].optional /\ ~cancelled
  <2>1. Proceed(inside)
    BY <1>1 DEF StepRaises
  <2> QED
    BY <1>1, <2>1, ProceedTurns
<1>2. CASE ~(Script[step].optional /\ ~cancelled)
  <2>1. GoTo(step, inside, "failed")
    BY <1>2 DEF StepRaises
  <2> QED
    BY <2>1 DEF GoTo, Turns
<1> QED
  BY <1>1, <1>2

(* At a turn the control of the script is as it was. *)
LEMMA TurnKeeps ==
  ASSUME ControlInv, program \in DOMAIN Scripts, step \in 1 .. Len(Script), Turns,
         UNCHANGED <<program, expired>>,
         interrupted' \in {"no", "raised", "deferred", "swallowed"},
         posesSince' \in 0 .. 1,
         interrupted' = "raised" => phase' # "ready",
         interrupted' # "deferred" => posesSince' = 0,
         interrupted' = "deferred" /\ phase' = "ready" => Script[step + 1].do = "wait"
  PROVE  ControlInv'
<1>0. Script' = Script
  BY DEF Script
<1>1. step \in Nat /\ Len(Script) \in 1 .. 14
  BY StepType
<1>2. step' \in 1 .. Len(Script) + 1 /\ step' \in 1 .. 15
  <2> DEFINE n == Len(Script)
  <2>1. n \in 1 .. 14 /\ step \in 1 .. n
    BY <1>1
  <2> HIDE DEF n
  <2>2. step' \in 1 .. n + 1 /\ step' \in 1 .. 15
    BY <2>1 DEF Turns
  <2> QED
    BY <2>2 DEF n
<1>3. ExampleTypes'
  BY <1>0, <1>1, <1>2 DEF ControlInv, ExampleTypes, Running, Turns
<1>4. Control'
  BY <1>0, <1>1, <1>2 DEF Control, Turns
<1>5. OnlyLeaving'
  BY <1>0 DEF OnlyLeaving, Turns
<1> QED
  BY <1>3, <1>4, <1>5 DEF ControlInv

(* A turn of a script that has not been interrupted, or for which the interrupt
   was swallowed *)
LEMMA TurnGoesOn ==
  ASSUME ControlInv, program \in DOMAIN Scripts, step \in 1 .. Len(Script), Turns,
         UNCHANGED <<program, expired, posesSince>>, interrupted \in {"no", "swallowed"},
         interrupted' \in {"no", "raised", "swallowed"},
         interrupted' = "raised" => phase' # "ready"
  PROVE  ControlInv'
<1>1. posesSince = 0
  BY DEF ControlInv, OnlyLeaving
<1>2. posesSince' \in 0 .. 1 /\ posesSince' = 0
  BY <1>1
<1> QED
  BY <1>2, TurnKeeps

(* A pose: the next step waits. *)
LEMMA TurnAfterPose ==
  ASSUME ControlInv, program \in DOMAIN Scripts, step \in 1 .. Len(Script), Turns,
         phase = "ready", Script[step].do \in {"pose", "sine"}, NEW place, Send(place),
         UNCHANGED <<program, expired, interrupted>>
  PROVE  ControlInv'
<1>1. /\ interrupted \in {"no", "raised", "deferred", "swallowed"} /\ posesSince = 0
      /\ interrupted # "raised"
  BY DEF ControlInv, OnlyLeaving, ExampleTypes
<1>2. /\ posesSince' = IF interrupted = "deferred" THEN 1 ELSE 0
  BY <1>1 DEF Send
<1>3. posesSince' \in 0 .. 1 /\ (interrupted' # "deferred" => posesSince' = 0)
  BY <1>2
<1>4. phase' = "ready" => step + 1 <= Len(Script)
  BY DEF Turns
<1>5. phase' = "ready" => Script[step + 1].do = "wait"
  BY <1>4, StepType
<1> QED
  BY <1>1, <1>3, <1>5, TurnKeeps

LEMMA ControlSteps ==
  ASSUME ControlInv, late \subseteq CallNames, Running, SessionSteps
  PROVE  ControlInv'
<1> USE DEF example, calls, robot, arm, telemetry
<1>1. /\ program \in DOMAIN Scripts
      /\ phase \notin {"leaving", "over"} => step \in 1 .. Len(Script)
      /\ inside \in BOOLEAN
      /\ interrupted \in {"no", "raised", "deferred", "swallowed"}
      /\ phase \in {"calling", "waiting"} => interrupted \in {"no", "swallowed"}
  BY DEF ControlInv, Control, ExampleTypes, Running, OnlyLeaving
<1>2. CASE BeginCall
  BY <1>1, <1>2 DEF BeginCall, ControlInv, ExampleTypes, Control, OnlyLeaving, Running, Script
<1>3. CASE CallReturns
  <2>1. (inside \/ Script[step].what = "claim") \in BOOLEAN
    BY <1>1
  <2> QED
    BY <1>1, <1>3, <2>1, ProceedTurns, TurnGoesOn DEF CallReturns
<1>4. CASE CallRaises
  BY <1>1, <1>4, RaiseTurns, TurnGoesOn DEF CallRaises
<1>5. CASE BeginWait
  BY <1>1, <1>5 DEF BeginWait, ControlInv, ExampleTypes, Control, OnlyLeaving, Running, Script
<1>6. CASE DeadlinePasses
  BY <1>1, <1>6 DEF DeadlinePasses, ControlInv, ExampleTypes, Control, OnlyLeaving, Running,
     Script
<1>7. CASE SendPose
  BY <1>1, <1>7, ProceedTurns, TurnAfterPose DEF SendPose
<1>8. CASE SendSample
  <2>1. /\ phase = "ready" /\ Script[step].do = "sine"
        /\ UNCHANGED <<program, expired, interrupted>>
    BY <1>8 DEF SendSample
  <2>2. CASE Send(Script[step].what) /\ Proceed(inside)
    BY <1>1, <2>1, <2>2, ProceedTurns, TurnAfterPose
  <2>3. CASE Send(Elsewhere) /\ StepRaises(TRUE)
    BY <1>1, <2>1, <2>3, RaiseTurns, TurnAfterPose
  <2>4. CASE /\ Send(Elsewhere) /\ interrupted # "deferred"
             /\ UNCHANGED <<phase, step, outcome, inside, request>>
    <3>1. interrupted \in {"no", "swallowed"} /\ posesSince = 0
      BY <1>1, <2>1, <2>4 DEF ControlInv, OnlyLeaving
    <3>2. posesSince' = posesSince
      BY <2>4, <3>1 DEF Send
    <3> QED
      BY <1>1, <2>1, <2>4, <3>1, <3>2 DEF ControlInv, ExampleTypes, Control, OnlyLeaving,
         Running, Script
  <2> QED
    BY <1>8, <2>2, <2>3, <2>4 DEF SendSample
<1>9. CASE Interrupt
  BY <1>1, <1>9, RaiseTurns, TurnGoesOn DEF Interrupt
<1>10. CASE InterruptDeferred
  <2>1. posesSince = 0 /\ posesSince' = 0
    BY <1>10 DEF InterruptDeferred, ControlInv, OnlyLeaving
  <2> QED
    BY <1>1, <1>10, <2>1 DEF InterruptDeferred, ControlInv, ExampleTypes, Control, OnlyLeaving,
       Running, Script
<1>11. CASE RaiseDeferred
  <2>1. step \in 1 .. Len(Script) /\ StepRaises(TRUE) /\ interrupted = "deferred"
        /\ UNCHANGED <<program, expired, interrupted, posesSince>>
    BY <1>1, <1>11 DEF RaiseDeferred
  <2>2. Turns /\ phase' # "ready"
    BY <1>1, <2>1, RaiseTurns
  <2>3. posesSince' \in 0 .. 1
    <3>1. posesSince \in 0 .. 2 /\ posesSince <= 1
      BY <2>1 DEF ControlInv, OnlyLeaving, ExampleTypes
    <3> QED
      BY <2>1, <3>1
  <2> QED
    BY <1>1, <2>1, <2>2, <2>3, TurnKeeps
<1>12. CASE InterruptSwallowed
  <2>1. /\ interrupted = "no" /\ interrupted' = "swallowed" /\ phase = "calling"
        /\ UNCHANGED <<program, expired, posesSince>>
        /\ Proceed(inside \/ Script[step].what = "claim") \/ StepRaises(FALSE)
    BY <1>12 DEF InterruptSwallowed
  <2>2. (inside \/ Script[step].what = "claim") \in BOOLEAN
    BY <1>1
  <2>3. Turns
    BY <1>1, <2>1, <2>2, ProceedTurns, RaiseTurns
  <2> QED
    BY <1>1, <2>1, <2>3, TurnGoesOn
<1>13. CASE LeaveContext
  BY <1>1, <1>13 DEF LeaveContext, ControlInv, ExampleTypes, Control, OnlyLeaving, Running,
     Script
<1>14. CASE ExecuteCall
  <2>1. UNCHANGED example /\ request' \in {"executed", "refused"}
    BY <1>14 DEF ExecuteCall
  <2> QED
    BY <2>1 DEF ControlInv, ExampleTypes, Control, OnlyLeaving, Running, Script
<1>15. CASE DeliverTelemetry
  <2>1. PICK i \in 1 .. Len(wire) :
          IF phase = "waiting" THEN Receive(wire[i])
          ELSE UNCHANGED <<phase, step, outcome, inside, request>>
    BY <1>15 DEF DeliverTelemetry
  <2>2. UNCHANGED <<program, expired, interrupted, posesSince>>
    BY <1>15 DEF DeliverTelemetry
  <2>3. CASE UNCHANGED <<phase, step, outcome, inside, request>>
    BY <2>2, <2>3 DEF ControlInv, ExampleTypes, Control, OnlyLeaving, Running, Script
  <2>4. CASE phase = "waiting" /\ (Proceed(inside) \/ StepRaises(FALSE))
    <3>1. Turns
      BY <1>1, <2>4, ProceedTurns, RaiseTurns
    <3> QED
      BY <1>1, <2>2, <2>4, <3>1, TurnGoesOn
  <2> QED
    BY <2>1, <2>3, <2>4 DEF Receive
<1>16. CASE \/ \E name \in late : ExecuteLate(name)
            \/ SetUp
            \/ \E p \in poses : AcceptPose(p) \/ LosePose(p)
            \/ Move \/ Brake
            \/ SendTelemetry \/ LoseTelemetry \/ LoseLink
  <2>1. UNCHANGED <<example, request>>
    BY <1>16 DEF ExecuteLate, SetUp, AcceptPose, LosePose, Move, Brake, SendTelemetry,
       LoseTelemetry, LoseLink
  <2> QED
    BY <2>1 DEF ControlInv, ExampleTypes, Control, OnlyLeaving, Running, Script
<1> QED
  BY <1>2, <1>3, <1>4, <1>5, <1>6, <1>7, <1>8, <1>9, <1>10, <1>11, <1>12, <1>13, <1>14, <1>15,
     <1>16 DEF SessionSteps
-----------------------------------------------------------------------------
(* The controller and the network *)

LEMMA RemoveAtProperties ==
  ASSUME NEW S, NEW s \in Seq(S), NEW i \in 1 .. Len(s)
  PROVE  /\ RemoveAt(s, i) \in Seq(S)
         /\ Len(RemoveAt(s, i)) = Len(s) - 1
         /\ \A j \in 1 .. Len(s) - 1 : RemoveAt(s, i)[j] = IF j < i THEN s[j] ELSE s[j + 1]
<1> DEFINE n == Len(s)
           a == SubSeq(s, 1, i - 1)
           b == SubSeq(s, i + 1, n)
           r == a \o b
<1>1. n \in Nat /\ i \in 1 .. n /\ \A k \in 1 .. n : s[k] \in S
  BY ElementOfSeq
<1>2. RemoveAt(s, i) = r
  BY DEF RemoveAt
<1>3. /\ a \in Seq(S) /\ Len(a) = IF 1 <= i - 1 THEN i - 1 - 1 + 1 ELSE 0
      /\ \A k \in 1 .. i - 1 - 1 + 1 : a[k] = s[1 + k - 1]
  <2> HIDE DEF n
  <2>1. 1 \in Int /\ i - 1 \in Int /\ \A k \in 1 .. i - 1 : s[k] \in S
    BY <1>1
  <2> DEFINE m == i - 1
  <2> HIDE DEF m
  <2>2. /\ SubSeq(s, 1, m) \in Seq(S) /\ Len(SubSeq(s, 1, m)) = IF 1 <= m THEN m - 1 + 1 ELSE 0
        /\ \A k \in 1 .. m - 1 + 1 : SubSeq(s, 1, m)[k] = s[1 + k - 1]
    BY <2>1, SubSeqProperties DEF m
  <2> QED
    BY <2>2 DEF m
<1>4. /\ b \in Seq(S) /\ Len(b) = IF i + 1 <= n THEN n - (i + 1) + 1 ELSE 0
      /\ \A k \in 1 .. n - (i + 1) + 1 : b[k] = s[(i + 1) + k - 1]
  <2>1. n \in Int /\ i + 1 \in Int /\ \A k \in i + 1 .. n : s[k] \in S
    BY <1>1
  <2> DEFINE m == i + 1
  <2> HIDE DEF n, m
  <2>2. /\ SubSeq(s, m, n) \in Seq(S) /\ Len(SubSeq(s, m, n)) = IF m <= n THEN n - m + 1 ELSE 0
        /\ \A k \in 1 .. n - m + 1 : SubSeq(s, m, n)[k] = s[m + k - 1]
    BY <2>1, SubSeqProperties DEF m
  <2> QED
    BY <2>2 DEF m
<1> HIDE DEF n, a, b
<1>5. /\ r \in Seq(S) /\ Len(r) = Len(a) + Len(b)
      /\ \A k \in 1 .. Len(a) + Len(b) : r[k] = IF k <= Len(a) THEN a[k] ELSE b[k - Len(a)]
  BY <1>3, <1>4, ConcatProperties
<1> HIDE DEF r
<1>6. Len(a) = i - 1 /\ Len(b) = n - i
  BY <1>1, <1>3, <1>4
<1>7. Len(r) = n - 1
  BY <1>1, <1>5, <1>6
<1>8. ASSUME NEW j \in 1 .. n - 1 PROVE r[j] = IF j < i THEN s[j] ELSE s[j + 1]
  <2>1. r[j] = IF j <= i - 1 THEN a[j] ELSE b[j - (i - 1)]
    BY <1>1, <1>5, <1>6
  <2>2. CASE j < i
    <3>1. a[j] = s[1 + j - 1] /\ 1 + j - 1 = j
      BY <1>1, <1>3, <2>2
    <3> QED
      BY <1>1, <2>1, <2>2, <3>1
  <2>3. CASE ~(j < i)
    <3> DEFINE k == j - (i - 1)
    <3>1. k \in 1 .. n - (i + 1) + 1 /\ (i + 1) + k - 1 = j + 1
      BY <1>1, <2>3
    <3> HIDE DEF k
    <3>2. b[k] = s[j + 1]
      BY <1>4, <3>1
    <3> QED
      BY <1>1, <2>1, <2>3, <3>2 DEF k
  <2> QED
    BY <2>2, <2>3
<1> QED
  BY <1>2, <1>5, <1>7, <1>8 DEF n

LEMMA ExecuteTypes ==
  ASSUME WorldTypes, NEW name \in CallNames, Execute(name)
  PROVE  /\ controlled' \in BOOLEAN
         /\ drives' \in {"fault", "stopped", "setting_up", "operational"}
         /\ calibrating' \in BOOLEAN
         /\ motion' \in MotionStatuses /\ goal' = goal /\ position' = position
         /\ braked' \in BOOLEAN
         /\ ~braked' => motion' = motion
BY DEF WorldTypes, Execute, MotionStatuses

(* A call that gave up is one of the calls. *)
LEMMA LeaveBehindTypes ==
  ASSUME late \subseteq CallNames, program \in DOMAIN Scripts, step \in 1 .. Len(Script),
         request = "sent" => Script[step].do = "call", LeaveBehind
  PROVE  late' \subseteq CallNames
BY StepType DEF LeaveBehind

LEMMA WorldSteps ==
  ASSUME ControlInv, WorldTypes, Running, SessionSteps
  PROVE  WorldTypes'
<1> USE DEF example, calls, robot, arm, telemetry
<1>1. /\ program \in DOMAIN Scripts
      /\ phase \notin {"leaving", "over"} => step \in 1 .. Len(Script)
      /\ request = "sent" => phase \in {"calling", "leaving"}
      /\ phase = "calling" => Script[step].do = "call"
  BY DEF ControlInv, Control, ExampleTypes, Running
<1>2. CASE \/ BeginCall \/ CallReturns \/ BeginWait \/ DeadlinePasses
           \/ InterruptDeferred \/ InterruptSwallowed
  BY <1>2 DEF BeginCall, CallReturns, BeginWait, DeadlinePasses, InterruptDeferred,
     InterruptSwallowed, WorldTypes
<1>3. CASE CallRaises
  BY <1>1, <1>3, LeaveBehindTypes DEF CallRaises, WorldTypes
<1>4. CASE Interrupt
  BY <1>1, <1>4, LeaveBehindTypes DEF Interrupt, WorldTypes
<1>17. CASE RaiseDeferred
  <2>1. phase = "ready" /\ UNCHANGED <<link, poses, robot, arm, telemetry>>
        /\ late' = IF Script[step].do = "call" /\ link THEN late \cup {Script[step].what} ELSE late
    BY <1>17 DEF RaiseDeferred
  <2>2. Script[step].do = "call" => Script[step].what \in CallNames
    BY <1>1, <2>1, StepType
  <2>3. late' \subseteq CallNames
    BY <2>1, <2>2 DEF WorldTypes
  <2> QED
    BY <2>1, <2>3 DEF WorldTypes
<1>5. CASE SendPose
  BY <1>1, <1>5, StepType DEF SendPose, Send, WorldTypes
<1>6. CASE SendSample
  <2>1. Elsewhere \in Positions
    BY DEF Positions
  <2> QED
    BY <1>1, <1>6, <2>1, StepType DEF SendSample, Send, WorldTypes
<1>7. CASE LeaveContext
  <2>1. "release" \in CallNames
    BY DEF CallNames
  <2> QED
    BY <1>7, <2>1 DEF LeaveContext, WorldTypes
<1>8. CASE ExecuteCall
  <2> DEFINE name == IF phase = "leaving" THEN "release" ELSE Script[step].what
  <2>1. name \in CallNames
    BY <1>1, <1>8, StepType DEF ExecuteCall, CallNames
  <2>2. UNCHANGED <<late, link, poses, wire, overtook>>
        /\ (UNCHANGED <<robot, arm>> \/ Execute(name))
    BY <1>8 DEF ExecuteCall
  <2> HIDE DEF name
  <2>3. CASE UNCHANGED <<robot, arm>>
    BY <2>2, <2>3 DEF WorldTypes
  <2>4. CASE Execute(name)
    BY <2>1, <2>2, <2>4, ExecuteTypes DEF WorldTypes
  <2> QED
    BY <2>2, <2>3, <2>4
<1>9. CASE \E name \in late : ExecuteLate(name)
  <2>1. PICK name \in late : ExecuteLate(name)
    BY <1>9
  <2>2. name \in CallNames
    BY DEF WorldTypes
  <2> QED
    BY <2>1, <2>2, ExecuteTypes DEF ExecuteLate, WorldTypes
<1>10. CASE SetUp
  BY <1>10 DEF SetUp, WorldTypes
<1>11. CASE \E p \in poses : AcceptPose(p) \/ LosePose(p)
  <2>1. Elsewhere \in Positions
    BY DEF Positions
  <2> QED
    BY <1>11, <2>1 DEF AcceptPose, LosePose, WorldTypes, MotionStatuses
<1>12. CASE Move \/ Brake
  BY <1>12 DEF Move, Brake, WorldTypes, MotionStatuses
<1>13. CASE SendTelemetry
  <2>1. Reported \in SUBSET Waits
    BY DEF Reported
  <2>2. wire' \in Seq(SUBSET Waits)
    BY <1>13, <2>1, AppendProperties DEF SendTelemetry, WorldTypes
  <2> QED
    BY <1>13, <2>2 DEF SendTelemetry, WorldTypes
<1>14. CASE LoseTelemetry \/ DeliverTelemetry
  <2>1. PICK i \in 1 .. Len(wire) : wire' = RemoveAt(wire, i)
    BY <1>14 DEF LoseTelemetry, DeliverTelemetry
  <2>2. wire' \in Seq(SUBSET Waits)
    BY <2>1, RemoveAtProperties DEF WorldTypes
  <2>3. UNCHANGED <<late, link, poses, robot, arm>> /\ overtook' \in BOOLEAN
    BY <1>14 DEF LoseTelemetry, DeliverTelemetry, WorldTypes
  <2> QED
    BY <2>2, <2>3 DEF WorldTypes
<1>15. CASE LoseLink
  <2> DEFINE none == <<>>
  <2>1. none \in Seq(SUBSET Waits)
    OBVIOUS
  <2>2. wire' = none
    BY <1>15 DEF LoseLink
  <2> HIDE DEF none
  <2>3. wire' \in Seq(SUBSET Waits)
    BY <2>1, <2>2
  <2>4. late' = {} /\ poses' = {} /\ link' = FALSE /\ UNCHANGED <<robot, arm, overtook>>
    BY <1>15 DEF LoseLink
  <2> QED
    BY <2>3, <2>4 DEF WorldTypes
<1> QED
  BY <1>2, <1>3, <1>4, <1>5, <1>6, <1>7, <1>8, <1>9, <1>10, <1>11, <1>12, <1>13, <1>14, <1>15,
     <1>17 DEF SessionSteps
-----------------------------------------------------------------------------
(* The poses of move_test *)

(* What is removed leaves the rest in its order. *)
LEMMA Removal ==
  ASSUME WorldTypes, NEW i \in 1 .. Len(wire), wire' = RemoveAt(wire, i),
         UNCHANGED <<poses, motion, goal, position>>, NEW p
  PROVE  /\ Resting({}) => Resting({})'
         /\ Sent(p) => Sent(p)'
         /\ Seen(p) => Seen(p)'
         /\ Arrived(p) => Arrived(p)'
         /\ i = 1 /\ Tells("moving", 1) /\ Sent(p) => Seen(p)'
         /\ i = 1 /\ Tells("idle", 1) /\ Seen(p) => Arrived(p)'
<1> DEFINE n == Len(wire)
           up(j) == IF j < i THEN j ELSE j + 1
<1>1. /\ n \in Nat /\ i \in 1 .. n
      /\ wire' \in Seq(SUBSET Waits) /\ Len(wire') = n - 1
      /\ \A j \in 1 .. n - 1 : wire'[j] = IF j < i THEN wire[j] ELSE wire[j + 1]
  BY RemoveAtProperties, LenProperties DEF WorldTypes
<1> HIDE DEF n
<1>2. \A j \in 1 .. n - 1 : up(j) \in 1 .. n /\ j <= up(j) /\ (i = 1 => up(j) = j + 1)
  BY <1>1
<1>3. \A j, k \in 1 .. n - 1 : j < k => up(j) < up(k)
  BY <1>1
<1>4. \A j \in 1 .. n - 1 : \A s : Tells(s, j)' <=> Tells(s, up(j))
  BY <1>1 DEF Tells
<1> HIDE DEF up
<1>5. ASSUME NEW q, Resting(q) PROVE Resting(q)'
  BY <1>1, <1>2, <1>4, <1>5 DEF Resting, n
<1>6. Going(p) => Going(p)'
  BY DEF Going
<1>7. ASSUME NEW j \in 1 .. n, EndsAfter(j), NEW m \in 1 .. n,
             \A k \in 1 .. n - 1 : m <= k => j <= up(k)
      PROVE  EndsAfter(m)'
  <2> SUFFICES ASSUME NEW k \in m .. n - 1, Tells("idle", k)'
               PROVE  /\ motion = "idle"
                      /\ \A l \in k .. n - 1 : k < l => ~Tells("moving", l)'
    BY <1>1 DEF EndsAfter
  <2>1. k \in 1 .. n - 1 /\ m <= k
    BY <1>1
  <2>2. up(k) \in j .. n /\ Tells("idle", up(k))
    BY <1>2, <1>4, <1>7, <2>1
  <2>3. motion = "idle" /\ \A l \in up(k) .. n : up(k) < l => ~Tells("moving", l)
    BY <1>7, <2>2 DEF EndsAfter, n
  <2>4. ASSUME NEW l \in k .. n - 1, k < l PROVE ~Tells("moving", l)'
    <3>1. l \in 1 .. n - 1 /\ up(l) \in up(k) .. n /\ up(k) < up(l)
      BY <1>1, <1>2, <1>3, <2>1, <2>2, <2>4
    <3> QED
      BY <1>4, <2>3, <3>1
  <2> QED
    BY <2>3, <2>4
<1>8. ASSUME Seen(p) PROVE Seen(p)'
  <2>1. 1 \in 1 .. n /\ \A k \in 1 .. n - 1 : 1 <= k => 1 <= up(k)
    BY <1>1, <1>2
  <2> QED
    BY <1>6, <1>7, <1>8, <2>1 DEF Seen
<1>9. ASSUME Sent(p), Going(p),
             \A j \in 1 .. n : Tells("moving", j) => EndsAfter(j + 1)
      PROVE  Sent(p)'
  <2> SUFFICES ASSUME NEW m \in 1 .. n - 1, Tells("moving", m)'
               PROVE  EndsAfter(m + 1)'
    BY <1>1, <1>6, <1>9 DEF Sent
  <2>1. up(m) \in 1 .. n /\ EndsAfter(up(m) + 1)
    BY <1>2, <1>4, <1>9
  <2>2. CASE up(m) + 1 \in 1 .. n
    <3>1. m + 1 \in 1 .. n
      BY <1>1
    <3>2. ASSUME NEW k \in 1 .. n - 1, m + 1 <= k PROVE up(m) + 1 <= up(k)
      <4>1. m < k
        BY <1>1, <3>2
      <4>2. up(m) < up(k) /\ up(k) \in Int /\ up(m) \in Int
        BY <1>2, <1>3, <2>1, <4>1
      <4> QED
        BY <4>2
    <3> QED
      BY <1>7, <2>1, <2>2, <3>1, <3>2
  <2>3. CASE up(m) + 1 \notin 1 .. n
    <3>1. ASSUME NEW k \in m + 1 .. n - 1 PROVE FALSE
      <4>1. k \in 1 .. n - 1 /\ m < k
        BY <1>1
      <4>2. up(m) < up(k) /\ up(k) \in 1 .. n
        BY <1>2, <1>3, <4>1
      <4> QED
        BY <1>1, <2>1, <2>3, <4>2
    <3> QED
      BY <1>1, <3>1 DEF EndsAfter
  <2> QED
    BY <2>2, <2>3
<1>10. Sent(p) => Sent(p)'
  BY <1>5, <1>9 DEF Sent, n
<1>11. Arrived(p) => Arrived(p)'
  BY <1>5 DEF Arrived
<1>12. ASSUME i = 1, Tells("moving", 1), Sent(p) PROVE Seen(p)'
  <2>1. 1 \in 1 .. n
    BY <1>1
  <2>2. Going(p) /\ EndsAfter(2)
    BY <1>12, <2>1 DEF Sent, Resting, n
  <2>3. EndsAfter(1)'
    <3>1. CASE 2 \in 1 .. n
      <4>1. \A k \in 1 .. n - 1 : 1 <= k => 2 <= up(k)
        BY <1>2, <1>12
      <4> QED
        BY <1>7, <2>1, <2>2, <3>1, <4>1
    <3>2. CASE 2 \notin 1 .. n
      <4>1. n - 1 < 1
        BY <1>1, <3>2
      <4> QED
        BY <1>1, <4>1 DEF EndsAfter
    <3> QED
      BY <3>1, <3>2
  <2> QED
    BY <1>6, <2>2, <2>3 DEF Seen
<1>13. ASSUME i = 1, Tells("idle", 1), Seen(p) PROVE Arrived(p)'
  <2>1. 1 \in 1 .. n
    BY <1>1
  <2>2. Going(p) /\ motion = "idle" /\ \A k \in 1 .. n : 1 < k => ~Tells("moving", k)
    BY <1>13, <2>1 DEF Seen, EndsAfter, n
  <2>3. ASSUME NEW j \in 1 .. n - 1 PROVE ~Tells("moving", j)'
    <3>1. up(j) \in 1 .. n /\ 1 < up(j)
      BY <1>2, <1>13
    <3> QED
      BY <1>4, <2>2, <3>1
  <2> QED
    BY <1>1, <2>2, <2>3 DEF Arrived, Resting, Going
<1> QED
  BY <1>5, <1>8, <1>10, <1>11, <1>12, <1>13

(* The next datagram tells what the arm does. *)
LEMMA Telling ==
  ASSUME WorldTypes, SendTelemetry, NEW p, NEW n, n = Len(wire)
  PROVE  /\ Resting({}) => Resting({})'
         /\ Sent(p) => Sent(p)'
         /\ Seen(p) => Seen(p)'
         /\ Arrived(p) => Arrived(p)'
<1>1. /\ n \in Nat
      /\ Len(wire') = n + 1
      /\ \A j \in 1 .. n : wire'[j] = wire[j]
      /\ wire'[n + 1] = Reported
  <2>1. Reported \in SUBSET Waits
    BY DEF Reported
  <2> QED
    BY <2>1, AppendProperties, LenProperties DEF SendTelemetry, WorldTypes
<1>2. UNCHANGED <<poses, motion, goal, position>>
  BY DEF SendTelemetry, arm
<1>3. ("moving" \in Reported => motion = "moving") /\ ("idle" \in Reported => motion = "idle")
  BY DEF Reported
<1>4. /\ \A j \in 1 .. n : \A s : Tells(s, j)' <=> Tells(s, j)
      /\ Tells("moving", n + 1)' => motion = "moving"
      /\ Tells("idle", n + 1)' => motion = "idle"
  <2>1. wire'[n + 1] = Reported /\ \A j \in 1 .. n : wire'[j] = wire[j]
    BY <1>1
  <2>2. \A s : Tells(s, n + 1)' <=> s \in Reported
    BY <2>1 DEF Tells
  <2>3. \A j \in 1 .. n : \A s : Tells(s, j)' <=> Tells(s, j)
    BY <2>1 DEF Tells
  <2> QED
    BY <1>3, <2>2, <2>3
<1>5. \A j \in 1 .. n + 1 : j \in 1 .. n \/ j = n + 1
  BY <1>1
<1>6. ASSUME NEW q, Resting(q) PROVE Resting(q)'
  <2>1. motion = "idle" /\ poses \subseteq q /\ \A j \in 1 .. n : ~Tells("moving", j)
    BY <1>6 DEF Resting
  <2>2. ASSUME NEW j \in 1 .. n + 1 PROVE ~Tells("moving", j)'
    BY <1>4, <1>5, <2>1
  <2> QED
    BY <1>1, <1>2, <2>1, <2>2 DEF Resting
<1>7. Going(p) => Going(p)'
  BY <1>2 DEF Going
<1>8. ASSUME NEW m \in Nat, 1 <= m, m <= n + 1 => EndsAfter(m) PROVE EndsAfter(m)'
  <2> SUFFICES ASSUME NEW k \in m .. n + 1, Tells("idle", k)'
               PROVE  /\ motion = "idle"
                      /\ \A l \in k .. n + 1 : k < l => ~Tells("moving", l)'
    BY <1>1, <1>2 DEF EndsAfter
  <2>1. motion = "idle"
    <3>1. CASE k \in m .. n
      <4>1. k \in 1 .. n /\ EndsAfter(m)
        BY <1>1, <1>8, <3>1
      <4>2. Tells("idle", k)
        BY <1>4, <4>1
      <4> QED
        BY <3>1, <4>1, <4>2 DEF EndsAfter
    <3>2. CASE k = n + 1
      BY <1>4, <3>2
    <3> QED
      BY <1>1, <1>8, <3>1, <3>2
  <2>2. ASSUME NEW l \in k .. n + 1, k < l PROVE ~Tells("moving", l)'
    <3>1. CASE l \in m .. n
      <4>1. /\ k \in m .. n /\ k \in 1 .. n /\ EndsAfter(m)
            /\ l \in k .. n /\ l \in 1 .. n
        BY <1>1, <1>8, <2>2, <3>1
      <4>2. Tells("idle", k)
        BY <1>4, <4>1
      <4>3. ~Tells("moving", l)
        BY <2>2, <4>1, <4>2 DEF EndsAfter
      <4> QED
        BY <1>4, <4>1, <4>3
    <3>2. CASE l = n + 1
      BY <1>4, <2>1, <3>2
    <3> QED
      BY <1>1, <1>8, <2>2, <3>1, <3>2
  <2> QED
    BY <2>1, <2>2
<1>9. ASSUME Going(p), \A j \in 1 .. n : Tells("moving", j) => EndsAfter(j + 1)
      PROVE  Sent(p)'
  <2> SUFFICES ASSUME NEW m \in 1 .. n + 1, Tells("moving", m)'
               PROVE  EndsAfter(m + 1)'
    BY <1>1, <1>7, <1>9 DEF Sent
  <2>1. m + 1 \in Nat /\ 1 <= m + 1
    BY <1>1
  <2>2. m + 1 <= n + 1 => EndsAfter(m + 1)
    BY <1>1, <1>4, <1>9
  <2> QED
    BY <1>8, <2>1, <2>2
<1>10. Sent(p) => Sent(p)'
  BY <1>6, <1>9 DEF Sent
<1>11. Seen(p) => Seen(p)'
  BY <1>7, <1>8 DEF Seen
<1> QED
  BY <1>2, <1>6, <1>10, <1>11 DEF Arrived

(* move_test: calls and a wait, then twice a pose and the waits for it *)
LEMMA MoveTestScript ==
  ASSUME program = "move_test"
  PROVE  /\ program \in DOMAIN Scripts /\ Len(Script) = 13
         /\ \A i \in 1 .. 7 : Script[i].do \in {"call", "wait"} /\ Script[i] # Wait("idle")
         /\ Script[8] = Pose(Target) /\ Script[11] = Pose(Zero)
         /\ Script[9] = Wait("moving") /\ Script[12] = Wait("moving")
         /\ Script[10] = Wait("idle") /\ Script[13] = Wait("idle")
<1>1. Script = MoveTest /\ program \in DOMAIN Scripts
  BY DEF Script, Scripts
<1>2. ASSUME NEW i \in 1 .. 6
      PROVE  Setup[i].do \in {"call", "wait"} /\ Setup[i] # Wait("idle")
  <2>1. i = 1 \/ i = 2 \/ i = 3 \/ i = 4 \/ i = 5 \/ i = 6
    OBVIOUS
  <2> QED
    BY <2>1 DEF Setup, Call, Try, Wait
<1>3. Call("set_drive_mode").do = "call" /\ Call("set_drive_mode") # Wait("idle")
  BY DEF Call, Wait
<1>4. ASSUME NEW i \in 1 .. 7
      PROVE  Script[i].do \in {"call", "wait"} /\ Script[i] # Wait("idle")
  <2>1. CASE i \in 1 .. 6
    BY <1>1, <1>2, <2>1, MoveTestType
  <2>2. CASE i = 7
    BY <1>1, <1>3, <2>2, MoveTestType
  <2> QED
    BY <2>1, <2>2
<1> QED
  BY <1>1, <1>4, MoveTestType

(* Whatever leaves the step and what it may assume *)
Preserved ==
  /\ Resting({}) => Resting({})'
  /\ \A p : (Sent(p) => Sent(p)') /\ (Seen(p) => Seen(p)') /\ (Arrived(p) => Arrived(p)')

LEMMA Same ==
  ASSUME UNCHANGED <<wire, poses, motion, goal, position>>
  PROVE  Preserved
BY DEF Preserved, Sent, Seen, Arrived, Resting, Going, EndsAfter, Tells

LEMMA ReachedKept ==
  ASSUME Reached, Preserved, UNCHANGED step
  PROVE  Reached'
BY DEF Reached, Preserved

LEMMA ReachedBefore ==
  ASSUME Reached, Preserved, step \in 1 .. 7, step' \in {step, step + 1}
  PROVE  Reached'
<1>1. Resting({})
  BY DEF Reached
<1>2. Resting({})'
  BY <1>1 DEF Preserved
<1>3. step' \in 1 .. 8
  OBVIOUS
<1> QED
  BY <1>2, <1>3 DEF Reached

LEMMA AcceptPoseKeeps ==
  ASSUME NEW q \in poses, AcceptPose(q), step \in 1 .. 15, Reached
  PROVE  Reached'
<1>1. UNCHANGED <<step, wire>> /\ poses' = poses \ {q}
  BY DEF AcceptPose, example, telemetry
<1>2. ~Resting({}) /\ \A p : ~Seen(p) /\ ~Arrived(p)
  BY DEF Resting, Seen, Going, Arrived
<1>3. ASSUME NEW p, Sent(p) PROVE Sent(p)'
  <2>1. /\ motion = "idle" /\ poses \subseteq {p}
        /\ \A i \in 1 .. Len(wire) : ~Tells("moving", i)
    BY <1>3 DEF Sent, Resting, Going
  <2>2. q = p /\ poses' = {}
    BY <1>1, <2>1
  <2>3. \A i \in 1 .. Len(wire) : ~Tells("moving", i)'
    BY <1>1, <2>1 DEF Tells
  <2>4. CASE UNCHANGED motion
    BY <1>1, <2>1, <2>2, <2>3, <2>4 DEF Sent, Resting
  <2>5. CASE motion' = "moving" /\ goal' = q
    <3>1. Going(p)'
      BY <2>2, <2>5 DEF Going
    <3> QED
      BY <1>1, <2>3, <3>1 DEF Sent
  <2> QED
    BY <2>4, <2>5 DEF AcceptPose
<1> QED
  BY <1>1, <1>2, <1>3 DEF Reached

LEMMA LosePoseKeeps ==
  ASSUME NEW q \in poses, LosePose(q)
  PROVE  Preserved
<1>1. UNCHANGED <<wire, motion, goal, position>> /\ poses' = poses \ {q}
  BY DEF LosePose, arm, telemetry
<1> QED
  BY <1>1 DEF Preserved, Sent, Seen, Arrived, Resting, Going, EndsAfter, Tells

LEMMA MoveKeeps ==
  ASSUME Move
  PROVE  Preserved
<1>1. UNCHANGED <<wire, poses, goal>> /\ motion # "idle"
  BY DEF Move, telemetry
<1>2. ~Resting({}) /\ \A p : ~Arrived(p) /\ ~Resting({p})
  BY <1>1 DEF Resting, Arrived
<1>3. \A p : Going(p) => Going(p)'
  BY <1>1 DEF Going, Move
<1>4. \A i : EndsAfter(i) => EndsAfter(i)'
  BY <1>1 DEF EndsAfter, Tells
<1>5. \A i : Tells("moving", i)' <=> Tells("moving", i)
  BY <1>1 DEF Tells
<1> QED
  BY <1>1, <1>2, <1>3, <1>4, <1>5 DEF Preserved, Sent, Seen

LEMMA LoseLinkKeeps ==
  ASSUME LoseLink
  PROVE  Preserved
<1> DEFINE none == <<>>
<1>1. Len(none) = 0
  OBVIOUS
<1>2. UNCHANGED <<motion, goal, position>> /\ poses' = {} /\ wire' = none
  BY DEF LoseLink, arm
<1> HIDE DEF none
<1>3. Len(wire') = 0
  BY <1>1, <1>2
<1>4. \A i \in Nat \ {0} : EndsAfter(i)'
  BY <1>3 DEF EndsAfter
<1> QED
  BY <1>2, <1>3, <1>4 DEF Preserved, Sent, Seen, Arrived, Resting, Going

LEMMA MoveTestAt ==
  ASSUME ControlInv, program = "move_test"
  PROVE  /\ step \in 1 .. 14 /\ inside \in BOOLEAN
         /\ phase \notin {"leaving", "over"} => step \in 1 .. 13 /\ step \in 1 .. Len(Script)
         /\ phase = "calling" => Script[step].do = "call"
         /\ phase = "waiting" => Script[step].do = "wait"
<1> DEFINE n == Len(Script)
<1>1. n = 13 /\ program \in DOMAIN Scripts
  BY MoveTestScript
<1>2. /\ step \in 1 .. n + 1 /\ inside \in BOOLEAN
      /\ phase \notin {"leaving", "over"} => step <= n
      /\ phase = "calling" => Script[step].do = "call"
      /\ phase = "waiting" => Script[step].do = "wait"
  BY <1>1 DEF ControlInv, ExampleTypes, Control
<1> HIDE DEF n
<1>3. step \in 1 .. 14 /\ (phase \notin {"leaving", "over"} => step \in 1 .. 13 /\ step \in 1 .. n)
  BY <1>1, <1>2
<1> QED
  BY <1>2, <1>3 DEF n

(* The pose leaves an arm that rests. *)
LEMMA SendPoseReaches ==
  ASSUME ControlInv, Running, program = "move_test", Reached, SendPose
  PROVE  Reached'
<1>1. step \in 1 .. 13 /\ Script[step].do = "pose"
  BY MoveTestAt DEF SendPose
<1>2. step \in {8, 11}
  <2>1. Wait("moving").do # "pose" /\ Wait("idle").do # "pose"
    BY DEF Wait
  <2> QED
    BY <1>1, <2>1, MoveTestScript
<1>3. step' = step + 1
  BY MoveTestAt, MoveTestScript, ProceedTurns DEF SendPose
<1>4. UNCHANGED <<wire, motion>>
  BY DEF SendPose, arm, telemetry
<1>5. Resting({})
  BY <1>2 DEF Reached, Arrived
<1>6. poses' \subseteq {Script[step].what}
  BY <1>5 DEF SendPose, Send, Resting
<1>7. Pose(Target).what = Target /\ Pose(Zero).what = Zero
  BY DEF Pose
<1>8. CASE step = 8
  <2>1. Resting({Target})'
    BY <1>4, <1>5, <1>6, <1>7, <1>8, MoveTestScript DEF Resting, Tells
  <2>2. Sent(Target)'
    BY <2>1 DEF Sent
  <2> QED
    BY <1>3, <1>8, <2>2 DEF Reached
<1>9. CASE step = 11
  <2>1. Resting({Zero})'
    BY <1>4, <1>5, <1>6, <1>7, <1>9, MoveTestScript DEF Resting, Tells
  <2>2. Sent(Zero)'
    BY <2>1 DEF Sent
  <2> QED
    BY <1>3, <1>9, <2>2 DEF Reached
<1> QED
  BY <1>2, <1>8, <1>9

(* A wait that ends has seen the status, in a datagram that nothing older follows. *)
LEMMA DeliveryReaches ==
  ASSUME ControlInv, WorldTypes, Running, program = "move_test", Reached,
         DeliverTelemetry, ~overtook'
  PROVE  Reached'
<1>1. PICK i \in 1 .. Len(wire) :
        /\ overtook' = (overtook \/ i > 1)
        /\ wire' = RemoveAt(wire, i)
        /\ IF phase = "waiting" THEN Receive(wire[i])
           ELSE UNCHANGED <<phase, step, outcome, inside, request>>
  BY DEF DeliverTelemetry
<1>2. i = 1
  <2>1. ASSUME i > 1 PROVE FALSE
    <3>1. (overtook \/ i > 1) = TRUE
      BY <2>1
    <3>2. overtook' = (overtook \/ i > 1)
      BY <1>1
    <3> QED
      BY <3>1, <3>2, Zenon
  <2>2. i \in Nat /\ i >= 1
    OBVIOUS
  <2> QED
    BY <2>1, <2>2
<1>3. UNCHANGED <<poses, motion, goal, position>>
  BY DEF DeliverTelemetry, arm
<1>4. Preserved
  BY <1>1, <1>3, Removal DEF Preserved
<1>5. CASE UNCHANGED step
  BY <1>4, <1>5, ReachedKept
<1>6. CASE phase = "waiting" /\ ~UNCHANGED step
  <2>1. step \in 1 .. 13 /\ inside \in BOOLEAN
    BY <1>6, MoveTestAt
  <2>2. step' \in {step, step + 1}
    BY <1>1, <1>6, <2>1, MoveTestAt, MoveTestScript, ProceedTurns, RaiseTurns
    DEF Receive, Turns
  <2>3. CASE step \in 1 .. 7
    BY <1>4, <2>2, <2>3, ReachedBefore
  <2>4. CASE step \in 8 .. 13
    <3>1. ~Script[step].optional
      <4>1. /\ ~Pose(Target).optional /\ ~Pose(Zero).optional
            /\ ~Wait("moving").optional /\ ~Wait("idle").optional
        BY DEF Pose, Wait
      <4>2. step = 8 \/ step = 9 \/ step = 10 \/ step = 11 \/ step = 12 \/ step = 13
        BY <2>4
      <4> QED
        BY <4>1, <4>2, MoveTestScript
    <3>2. Matches(wire[i])
      BY <1>1, <1>6, <2>1, <3>1, MoveTestAt, MoveTestScript, RaiseTurns DEF Receive
    <3>3. Tells(Script[step].what, 1)
      BY <1>2, <3>2 DEF Matches, Tells
    <3>4. step' = step + 1
      BY <1>6, <2>2
    <3>5. Wait("moving").what = "moving" /\ Wait("idle").what = "idle"
      BY DEF Wait
    <3>6. CASE step \in {8, 11}
      <4>1. Script[step].do = "wait" /\ Pose(Target).do = "pose" /\ Pose(Zero).do = "pose"
        BY <1>6, MoveTestAt DEF Pose
      <4> QED
        BY <3>6, <4>1, MoveTestScript
    <3>7. CASE step = 9
      <4>1. Seen(Target)'
        BY <1>1, <1>2, <1>3, <3>3, <3>5, <3>7, MoveTestScript, Removal DEF Reached
      <4> QED
        BY <3>4, <3>7, <4>1 DEF Reached
    <3>8. CASE step = 10
      <4>1. Arrived(Target)'
        BY <1>1, <1>2, <1>3, <3>3, <3>5, <3>8, MoveTestScript, Removal DEF Reached
      <4> QED
        BY <3>4, <3>8, <4>1 DEF Reached
    <3>9. CASE step = 12
      <4>1. Seen(Zero)'
        BY <1>1, <1>2, <1>3, <3>3, <3>5, <3>9, MoveTestScript, Removal DEF Reached
      <4> QED
        BY <3>4, <3>9, <4>1 DEF Reached
    <3>10. CASE step = 13
      <4>1. Arrived(Zero)'
        BY <1>1, <1>2, <1>3, <3>3, <3>5, <3>10, MoveTestScript, Removal DEF Reached
      <4> QED
        BY <3>4, <3>10, <4>1 DEF Reached
    <3> QED
      BY <2>4, <3>6, <3>7, <3>8, <3>9, <3>10
  <2> QED
    BY <2>1, <2>3, <2>4
<1> QED
  BY <1>1, <1>5, <1>6

LEMMA Histories ==
  ASSUME SessionSteps
  PROVE  /\ program' = program
         /\ ~braked' => ~braked
         /\ ~overtook' => ~overtook
<1> USE DEF example, arm, telemetry
<1>1. CASE BeginCall \/ CallReturns \/ CallRaises \/ BeginWait \/ DeadlinePasses \/ SendPose
           \/ SendSample \/ Interrupt \/ InterruptDeferred \/ RaiseDeferred
           \/ InterruptSwallowed \/ LeaveContext
  <2>1. UNCHANGED <<program, braked, overtook>>
    BY <1>1 DEF BeginCall, CallReturns, CallRaises, BeginWait, DeadlinePasses, SendPose,
       SendSample, Interrupt, InterruptDeferred, RaiseDeferred, InterruptSwallowed, LeaveContext
  <2> QED
    BY <2>1
<1>2. CASE ExecuteCall \/ \E name \in late : ExecuteLate(name)
  <2>1. ASSUME NEW name, Execute(name) PROVE ~braked' => ~braked
    BY <2>1 DEF Execute
  <2>2. /\ UNCHANGED <<program, overtook>>
        /\ (\E name : Execute(name)) \/ (~braked' => ~braked)
    BY <1>2 DEF ExecuteCall, ExecuteLate
  <2> QED
    BY <2>1, <2>2
<1>3. CASE \/ SetUp \/ \E p \in poses : AcceptPose(p) \/ LosePose(p)
           \/ Move \/ Brake \/ SendTelemetry \/ LoseTelemetry \/ LoseLink
  BY <1>3 DEF SetUp, AcceptPose, LosePose, Move, Brake, SendTelemetry, LoseTelemetry, LoseLink
<1>4. CASE DeliverTelemetry
  BY <1>4 DEF DeliverTelemetry
<1> QED
  BY <1>1, <1>2, <1>3, <1>4 DEF SessionSteps

LEMMA MoveTestSteps ==
  ASSUME ControlInv, WorldTypes, MoveTestInv, Running, SessionSteps
  PROVE  MoveTestInv'
<1> SUFFICES ASSUME program' = "move_test", ~braked', ~overtook'
             PROVE  Reached'
  BY DEF MoveTestInv
<1>1. program = "move_test" /\ Reached
  BY Histories DEF MoveTestInv
<1>2. /\ step \in 1 .. 14
      /\ phase \notin {"leaving", "over"} => step \in 1 .. 13 /\ step \in 1 .. Len(Script)
      /\ program \in DOMAIN Scripts /\ inside \in BOOLEAN
  BY <1>1, MoveTestAt, MoveTestScript
<1> USE DEF calls, example, robot, arm, telemetry
(* A call: none is made after the seventh step. *)
<1>3. ASSUME Script[step].do = "call", phase \notin {"leaving", "over"} PROVE step \in 1 .. 7
  <2>1. /\ Pose(Target).do # "call" /\ Pose(Zero).do # "call"
        /\ Wait("moving").do # "call" /\ Wait("idle").do # "call"
    BY DEF Pose, Wait
  <2>2. step \in 1 .. 7 \/ step = 8 \/ step = 9 \/ step = 10 \/ step = 11 \/ step = 12
        \/ step = 13
    BY <1>2, <1>3
  <2> QED
    BY <1>1, <1>3, <2>1, <2>2, MoveTestScript
<1>4. CASE CallReturns \/ CallRaises \/ InterruptSwallowed
  <2>1. phase = "calling" /\ Preserved
    BY <1>4, Same DEF CallReturns, CallRaises, InterruptSwallowed
  <2>2. step \in 1 .. 7
    BY <1>1, <1>3, <2>1, MoveTestAt
  <2>3. (inside \/ Script[step].what = "claim") \in BOOLEAN
    BY <1>2
  <2>4. step' \in {step, step + 1}
    BY <1>2, <1>4, <2>1, <2>3, ProceedTurns, RaiseTurns
    DEF CallReturns, CallRaises, InterruptSwallowed, Turns
  <2> QED
    BY <1>1, <2>1, <2>2, <2>4, ReachedBefore
<1>5. CASE Interrupt \/ RaiseDeferred
  <2>1. phase \notin {"leaving", "over"} /\ Preserved
    BY <1>5, Same DEF Interrupt, RaiseDeferred
  <2>2. UNCHANGED step
    BY <1>2, <1>5, <2>1, RaiseTurns DEF Interrupt, RaiseDeferred
  <2> QED
    BY <1>1, <2>1, <2>2, ReachedKept
<1>6. CASE \/ BeginCall \/ BeginWait \/ DeadlinePasses \/ InterruptDeferred \/ LeaveContext
           \/ SetUp
  BY <1>1, <1>6, Same, ReachedKept DEF BeginCall, BeginWait, DeadlinePasses, InterruptDeferred,
     LeaveContext, SetUp
<1>7. CASE SendPose
  BY <1>1, <1>7, SendPoseReaches
<1>8. CASE SendSample
  <2>1. Script[step].do \in {"call", "wait", "pose"}
    <3>1. /\ Pose(Target).do = "pose" /\ Pose(Zero).do = "pose"
          /\ Wait("moving").do = "wait" /\ Wait("idle").do = "wait"
      BY DEF Pose, Wait
    <3>2. step \in 1 .. 7 \/ step = 8 \/ step = 9 \/ step = 10 \/ step = 11 \/ step = 12
          \/ step = 13
      BY <1>2, <1>8 DEF SendSample
    <3> QED
      BY <1>1, <3>1, <3>2, MoveTestScript
  <2> QED
    BY <1>8, <2>1 DEF SendSample
<1>9. CASE ExecuteCall \/ \E name \in late : ExecuteLate(name)
  <2>1. UNCHANGED <<step, wire, poses>>
    BY <1>9 DEF ExecuteCall, ExecuteLate
  <2>2. UNCHANGED <<motion, goal, position>>
    BY <1>9 DEF ExecuteCall, ExecuteLate, Execute
  <2> QED
    BY <1>1, <2>1, <2>2, Same, ReachedKept
<1>10. CASE \E p \in poses : AcceptPose(p) \/ LosePose(p)
  <2>1. PICK p \in poses : AcceptPose(p) \/ LosePose(p)
    BY <1>10
  <2>2. CASE AcceptPose(p)
    <3>1. step \in 1 .. 15
      BY <1>2
    <3> QED
      BY <1>1, <2>2, <3>1, AcceptPoseKeeps
  <2>3. CASE LosePose(p)
    BY <1>1, <2>3, LosePoseKeeps, ReachedKept DEF LosePose
  <2> QED
    BY <2>1, <2>2, <2>3
<1>11. CASE Move
  BY <1>1, <1>11, MoveKeeps, ReachedKept DEF Move
<1>12. CASE Brake
  BY <1>12 DEF Brake
<1>13. CASE SendTelemetry
  <2>1. Preserved
    BY <1>13, Telling DEF Preserved
  <2> QED
    BY <1>1, <1>13, <2>1, ReachedKept DEF SendTelemetry
<1>14. CASE LoseTelemetry
  <2>1. PICK i \in 1 .. Len(wire) : wire' = RemoveAt(wire, i)
    BY <1>14 DEF LoseTelemetry
  <2>2. UNCHANGED <<step, poses, motion, goal, position>>
    BY <1>14 DEF LoseTelemetry
  <2>3. Preserved
    BY <2>1, <2>2, Removal DEF Preserved
  <2> QED
    BY <1>1, <2>2, <2>3, ReachedKept
<1>15. CASE DeliverTelemetry
  BY <1>1, <1>15, DeliveryReaches
<1>16. CASE LoseLink
  BY <1>1, <1>16, LoseLinkKeeps, ReachedKept DEF LoseLink
<1> QED
  BY <1>4, <1>5, <1>6, <1>7, <1>8, <1>9, <1>10, <1>11, <1>12, <1>13, <1>14, <1>15, <1>16
  DEF SessionSteps

(* While a step of move_test follows a wait for idle, the arm is where the pose
   before it led. *)
LEMMA AtRest ==
  ASSUME SessionInv
  PROVE  RestsAtGoal
<1> SUFFICES ASSUME program = "move_test", step > 1, Script[step - 1] = Wait("idle"),
                    ~braked, ~overtook
             PROVE  motion = "idle" /\ position = LastPose
  BY DEF RestsAtGoal
<1>1. Reached /\ step \in 1 .. 14
  BY MoveTestAt, TypesSplit DEF SessionInv, MoveTestInv, ControlInv
<1>2. Pose(Target).do = "pose" /\ Pose(Zero).do = "pose" /\ Wait("moving").do # "pose"
      /\ Wait("idle").do # "pose" /\ Wait("moving") # Wait("idle")
      /\ Pose(Target) # Wait("idle") /\ Pose(Zero) # Wait("idle")
      /\ Pose(Target).what = Target /\ Pose(Zero).what = Zero
  BY DEF Pose, Wait
<1>3. step \in {11, 14}
  <2> DEFINE k == step - 1
  <2>1. k \in 1 .. 7 \/ k = 8 \/ k = 9 \/ k = 10 \/ k = 11 \/ k = 12 \/ k = 13
    BY <1>1
  <2>2. Script[k] = Wait("idle")
    OBVIOUS
  <2> HIDE DEF k
  <2>3. k = 10 \/ k = 13
    BY <1>2, <2>1, <2>2, MoveTestScript
  <2> QED
    BY <1>1, <2>3 DEF k
<1>4. \A k \in 1 .. 13 : Script[k].do = "pose" <=> k \in {8, 11}
  <2> TAKE k \in 1 .. 13
  <2>1. k \in 1 .. 7 \/ k = 8 \/ k = 9 \/ k = 10 \/ k = 11 \/ k = 12 \/ k = 13
    OBVIOUS
  <2> QED
    BY <1>2, <2>1, MoveTestScript
<1> DEFINE before == {i \in 1 .. step - 1 : Script[i].do = "pose"}
           last == CHOOSE i \in before : \A j \in before : j <= i
<1>5. LastPose = Script[last].what
  BY DEF LastPose
<1>6. CASE step = 11
  <2>1. before = {8}
    BY <1>4, <1>6
  <2> HIDE DEF before
  <2>2. last = 8
    BY <2>1
  <2> HIDE DEF last
  <2>3. LastPose = Target
    BY <1>2, <1>5, <2>2, MoveTestScript
  <2> QED
    BY <1>1, <1>6, <2>3 DEF Reached, Arrived, Resting
<1>7. CASE step = 14
  <2>1. before = {8, 11}
    BY <1>4, <1>7
  <2> HIDE DEF before
  <2>2. last = 11
    <3>1. 11 \in before /\ \A j \in before : j <= 11
      BY <2>1
    <3>2. last \in before /\ \A j \in before : j <= last
      BY <3>1
    <3> QED
      BY <2>1, <3>2
  <2> HIDE DEF last
  <2>3. LastPose = Zero
    BY <1>2, <1>5, <2>2, MoveTestScript
  <2> QED
    BY <1>1, <1>7, <2>3 DEF Reached, Arrived, Resting
<1> QED
  BY <1>3, <1>6, <1>7

-----------------------------------------------------------------------------
(* The scripts as a whole *)

LEMMA SessionStarts == Init => SessionInv
<1> SUFFICES ASSUME Init PROVE SessionInv
  OBVIOUS
<1>1. /\ program \in Programs /\ SessionInit
      /\ wire = <<>> /\ poses = {} /\ step = 1 /\ motion = "idle"
      /\ phase = "ready" /\ request = "none" /\ interrupted = "no" /\ posesSince = 0
  BY DEF Init, SessionInit
<1>2. program \in DOMAIN Scripts => Len(Script) \in 1 .. 14
  BY ScriptType DEF Script
<1>3. <<>> \in Seq(SUBSET Waits) /\ Len(<<>>) = 0
  OBVIOUS
<1>4. Control
  <2> DEFINE n == Len(Script)
  <2>1. program \in DOMAIN Scripts => 1 \in 1 .. n + 1 /\ 1 <= n
    BY <1>2
  <2> HIDE DEF n
  <2>2. program \in DOMAIN Scripts =>
          /\ step \in 1 .. n + 1
          /\ phase \notin {"leaving", "over"} => step <= n
    BY <1>1, <2>1
  <2> QED
    BY <1>1, <2>2 DEF Control, n
<1>5. ExampleTypes
  <2>1. /\ phase = "ready" /\ step = 1 /\ outcome = "running" /\ request = "none"
        /\ inside = FALSE /\ expired = FALSE /\ interrupted = "no" /\ posesSince = 0
    BY <1>1 DEF SessionInit
  <2>2. ASSUME Running PROVE step <= Len(Script)
    <3>1. program \in DOMAIN Scripts
      BY <2>2 DEF Running
    <3> QED
      BY <1>4, <2>1, <3>1 DEF Control
  <2>3. step \in 1 .. 15
    BY <2>1
  <2>4. /\ inside \in BOOLEAN /\ expired \in BOOLEAN
        /\ interrupted \in {"no", "raised", "deferred", "swallowed"} /\ posesSince \in 0 .. 2
        /\ phase \in {"ready", "calling", "waiting", "leaving", "over"}
        /\ outcome \in {"running", "done", "failed"}
        /\ request \in {"none", "sent", "executed", "refused"}
    <3>1. posesSince \in 0 .. 2
      BY <2>1
    <3>2. inside \in BOOLEAN /\ expired \in BOOLEAN
      BY <2>1
    <3> QED
      BY <2>1, <3>1, <3>2
  <2> QED
    BY <2>2, <2>3, <2>4 DEF ExampleTypes
<1>6. WorldTypes
  <2> DEFINE none == <<>>
  <2>1. none \in Seq(SUBSET Waits) /\ wire = none
    BY <1>1, <1>3
  <2> HIDE DEF none
  <2>2. wire \in Seq(SUBSET Waits)
    BY <2>1
  <2> QED
    BY <1>1, <2>2 DEF SessionInit, WorldTypes, MotionStatuses
<1>7. Reached
  <2> DEFINE n == Len(wire)
  <2>1. n = 0
    BY <1>1, <1>3
  <2> HIDE DEF n
  <2>2. \A i \in 1 .. n : ~Tells("moving", i)
    BY <2>1
  <2> QED
    BY <1>1, <2>2 DEF Reached, Resting, n
<1> QED
  BY <1>1, <1>4, <1>5, <1>6, <1>7, TypesSplit DEF SessionInv, OnlyLeaving, MoveTestInv

LEMMA SessionKept ==
  ASSUME SessionInv, [SessionNext]_session
  PROVE  SessionInv'
<1>1. CASE SessionNext
  <2>1. Running /\ SessionSteps
    BY <1>1 DEF SessionNext
  <2>2. ControlInv /\ WorldTypes /\ late \subseteq CallNames
    BY TypesSplit DEF SessionInv, ControlInv, WorldTypes
  <2>3. ControlInv' /\ WorldTypes' /\ MoveTestInv'
    BY <2>1, <2>2, ControlSteps, WorldSteps, MoveTestSteps DEF SessionInv
  <2>4. SessionTypeOK'
    BY <2>3 DEF SessionTypeOK, ExampleTypes, WorldTypes, ControlInv
  <2> QED
    BY <2>3, <2>4 DEF SessionInv, ControlInv
<1>2. CASE UNCHANGED session
  <2>1. /\ UNCHANGED <<program, phase, step, outcome, inside, expired, interrupted,
                        posesSince>>
        /\ UNCHANGED <<request, late, link, poses, controlled, drives, calibrating>>
        /\ UNCHANGED <<motion, goal, position, braked, wire, overtook>>
    BY <1>2 DEF session, example, calls, robot, arm, telemetry
  <2>2. SessionTypeOK' /\ Control' /\ OnlyLeaving'
    BY <2>1 DEF SessionInv, SessionTypeOK, Control, OnlyLeaving, Running, Script
  <2>3. MoveTestInv'
    BY <2>1, Same, ReachedKept DEF SessionInv, MoveTestInv
  <2> QED
    BY <2>1, <2>2, <2>3 DEF SessionInv
<1> QED
  BY <1>1, <1>2

-----------------------------------------------------------------------------
(* Theorems *)

LEMMA Invariance == Spec => []IInv
<1>1. Init => IInv
  BY SessionStarts, SineStarts, MonitorStarts, DiagnoseStarts DEF Init, IInv
<1>2. IInv /\ [Next]_vars => IInv'
  <2> SUFFICES ASSUME IInv, [Next]_vars PROVE IInv'
    OBVIOUS
  <2>1. [SessionNext]_session /\ [SineNext]_sine /\ [MonitorNext]_monitor
        /\ [DiagnoseNext]_diagnosis
    BY DEF Next, vars, RunScript, RunSine, RunMonitor, RunDiagnose
  <2> QED
    BY <2>1, SessionKept, SineSteps, MonitorSteps, DiagnoseSteps DEF IInv
<1> QED
  BY <1>1, <1>2, PTL DEF Spec

(* Every variable of the example programs has its type: in particular a script
   that is not over is at one of its steps, whichever calls raise and whenever
   Ctrl-C strikes. *)
THEOREM ProgramTypes == Spec => []TypeOK
<1>1. IInv => TypeOK
  BY DEF IInv, SessionInv, SineInv, DiagnoseInv, TypeOK
<1> QED
  BY <1>1, Invariance, PTL

(* When move_test (main) takes a motion for finished, the arm rests where the last
   pose led, unless a motion was cut short or telemetry overtook telemetry: however
   many datagrams are on their way and whatever else is lost, refused or late. *)
THEOREM ArmRestsAtGoal == Spec => []RestsAtGoal
<1>1. IInv => RestsAtGoal
  BY AtRest DEF IInv
<1> QED
  BY <1>1, Invariance, PTL

(* After Ctrl-C has been raised in a script that moves the robot (asyncio.run,
   move_test.py:120) it sends no pose, and while the cancellation is pending at
   most one; for every script, wherever it strikes, whether wait_for may swallow it
   or not.  (Where it does, nothing is said.) *)
THEOREM PosesAfterInterrupt == Spec => []FewPosesAfterInterrupt
<1>1. IInv => FewPosesAfterInterrupt
  BY DEF IInv, SessionInv, OnlyLeaving, FewPosesAfterInterrupt
<1> QED
  BY <1>1, Invariance, PTL

(* The sine of streaming_test (main) that has been going on for the duration ends
   at the first sample within the window around a crossing of the midpoint,
   whatever the period, the window and the delays between samples. *)
THEOREM FirstCrossing == Spec => []StopsAtFirstCrossing
<1>1. IInv => StopsAtFirstCrossing
  BY DEF IInv, SineInv
<1> QED
  BY <1>1, Invariance, PTL

(* What diagnose.py (main) reports of the end of the connection, of the packets it
   sent and of the telemetry that came is true of what happened while it observed,
   although the event counts are those of a snapshot and the others are read after
   the connection was closed; whatever arrives, whether it can be parsed or not,
   how many there are and however fast they are read. *)
THEOREM ConclusionsTrue == Spec => []ReportIsTrue
<1>1. IInv => ReportIsTrue
  BY DEF IInv, DiagnoseInv
<1> QED
  BY <1>1, Invariance, PTL
=============================================================================
