-------------------------- MODULE TelemetryChannel --------------------------
(***************************************************************************)
(* Telemetry: the QUIC datagrams of one connection, fanned out by          *)
(* _RuvionProtocol.quic_event_received and read by Connection.telemetry    *)
(* (transport.py).                                                         *)
(*                                                                         *)
(* The controller numbers its datagrams (TelemetryData.seq).  The network  *)
(* loses and reorders them, never duplicates them (QUIC discards packets   *)
(* it has seen), and delivers none once the link is lost.  A subscriber's  *)
(* queue that is full gives up its oldest datagram for the one arriving.   *)
(***************************************************************************)
EXTENDS Integers, Sequences

CONSTANTS
  Subscribers,  (* the iterators returned by Connection.telemetry          *)
  Capacity,     (* _DATAGRAM_QUEUE_SIZE                                    *)
  MaxDatagrams, (* bound: the datagrams the controller sends               *)
  Unreadable    (* the datagrams parse_telemetry raises on                 *)

ASSUME CapacityAssumption == Capacity \in Nat \ {0}
ASSUME DatagramsAssumption ==
  MaxDatagrams \in Nat /\ Unreadable \subseteq 1 .. MaxDatagrams

VARIABLES
  up,       (* the QUIC connection is up                                   *)
  sent,     (* how many datagrams the controller has sent                  *)
  onTheWay, (* those on their way                                          *)
  seen,     (* those the client has received                               *)
  sub,      (* sub[s]: "new", "on" or "off" _datagram_subscribers          *)
  queue,    (* queue[s]: the queue of s                                    *)
  yielded,  (* yielded[s]: the datagrams the iterator has yielded          *)
  arrivals  (* history: arrivals[s], what arrived while s was subscribed   *)

telemetryVars == <<up, sent, onTheWay, seen, sub, queue, yielded, arrivals>>

TelemetryDatagrams == 1 .. MaxDatagrams

TelemetryTypeOK ==
  /\ up \in BOOLEAN
  /\ sent \in 0 .. MaxDatagrams
  /\ onTheWay \subseteq 1 .. sent
  /\ seen \subseteq (1 .. sent) \ onTheWay
  /\ sub \in [Subscribers -> {"new", "on", "off"}]
  /\ queue \in [Subscribers -> Seq(TelemetryDatagrams)]
  /\ yielded \in [Subscribers -> Seq(TelemetryDatagrams)]
  /\ arrivals \in [Subscribers -> Seq(TelemetryDatagrams)]

TelemetryInit ==
  /\ up = TRUE
  /\ sent = 0
  /\ onTheWay = {}
  /\ seen = {}
  /\ sub = [s \in Subscribers |-> "new"]
  /\ queue = [s \in Subscribers |-> <<>>]
  /\ yielded = [s \in Subscribers |-> <<>>]
  /\ arrivals = [s \in Subscribers |-> <<>>]

-----------------------------------------------------------------------------
(* The controller and the network *)

SendTelemetry ==
  /\ sent < MaxDatagrams
  /\ sent' = sent + 1
  /\ onTheWay' = onTheWay \cup {sent + 1}
  /\ UNCHANGED <<up, seen, sub, queue, yielded, arrivals>>

LoseTelemetry(d) ==
  /\ d \in onTheWay
  /\ onTheWay' = onTheWay \ {d}
  /\ UNCHANGED <<up, sent, seen, sub, queue, yielded, arrivals>>

ConnectionLost ==
  /\ up
  /\ up' = FALSE
  /\ UNCHANGED <<sent, onTheWay, seen, sub, queue, yielded, arrivals>>

(* Variant: on QueueFull the newest datagram is the one that is lost. *)
DropNewest(q, d) == IF Len(q) < Capacity THEN Append(q, d) ELSE q

(* Variant: a full queue is emptied. *)
DropAll(q, d) == IF Len(q) < Capacity THEN Append(q, d) ELSE <<d>>

(* put_nowait; on QueueFull get_nowait and put_nowait again *)
DropOldest(q, d) ==
  IF Len(q) < Capacity THEN Append(q, d) ELSE Append(Tail(q), d)

(* Variant: the same datagram is handed up more than once. *)
DeliverRepeatedly(d) ==
  /\ up
  /\ d \in onTheWay
  /\ seen' = seen \cup {d}
  /\ queue' = [s \in Subscribers |-> IF sub[s] = "on"
                                     THEN DropOldest(queue[s], d)
                                     ELSE queue[s]]
  /\ UNCHANGED <<up, sent, onTheWay, sub, yielded, arrivals>>

(* quic_event_received for a datagram: every subscriber gets it. *)
DeliverDatagram(d) ==
  /\ up
  /\ d \in onTheWay
  /\ onTheWay' = onTheWay \ {d}
  /\ seen' = seen \cup {d}
  /\ queue' = [s \in Subscribers |-> IF sub[s] = "on"
                                     THEN DropOldest(queue[s], d)
                                     ELSE queue[s]]
  /\ arrivals' = [s \in Subscribers |-> IF sub[s] = "on"
                                        THEN Append(arrivals[s], d)
                                        ELSE arrivals[s]]
  /\ UNCHANGED <<up, sent, sub, yielded>>

-----------------------------------------------------------------------------
(* The consumers *)

(* telemetry runs up to its first await when it is first asked for a datagram. *)
Subscribe(s) ==
  /\ sub[s] = "new"
  /\ sub' = [sub EXCEPT ![s] = "on"]
  /\ UNCHANGED <<up, sent, onTheWay, seen, queue, yielded, arrivals>>

(* parse_telemetry: whether it raises is a matter of the datagram alone. *)
Parses(d) == d \notin Unreadable

(* Variant: a datagram that does not parse ends the iteration. *)
TakeStrict(s) ==
  /\ sub[s] = "on"
  /\ queue[s] # <<>>
  /\ Parses(Head(queue[s]))
  /\ queue' = [queue EXCEPT ![s] = Tail(@)]
  /\ yielded' = [yielded EXCEPT ![s] = Append(@, Head(queue[s]))]
  /\ UNCHANGED <<up, sent, onTheWay, seen, sub, arrivals>>

(* One turn of the loop of telemetry: what does not parse is skipped. *)
TakeTelemetry(s) ==
  /\ sub[s] = "on"
  /\ queue[s] # <<>>
  /\ queue' = [queue EXCEPT ![s] = Tail(@)]
  /\ yielded' = IF Parses(Head(queue[s]))
                THEN [yielded EXCEPT ![s] = Append(@, Head(queue[s]))]
                ELSE yielded
  /\ UNCHANGED <<up, sent, onTheWay, seen, sub, arrivals>>

Unsubscribe(s) ==
  /\ sub[s] = "on"
  /\ sub' = [sub EXCEPT ![s] = "off"]
  /\ UNCHANGED <<up, sent, onTheWay, seen, queue, yielded, arrivals>>

-----------------------------------------------------------------------------
TelemetryNext ==
  \/ SendTelemetry
  \/ \E d \in onTheWay : DeliverDatagram(d) \/ LoseTelemetry(d)
  \/ ConnectionLost
  \/ \E s \in Subscribers : Subscribe(s) \/ TakeTelemetry(s) \/ Unsubscribe(s)

(* Only the consumers are certain to go on. *)
TelemetryFairness == \A s \in Subscribers : WF_telemetryVars(TakeTelemetry(s))

TelemetrySpec ==
  TelemetryInit /\ [][TelemetryNext]_telemetryVars /\ TelemetryFairness

-----------------------------------------------------------------------------
(* Properties *)

IsSuffixOf(q, a) ==
  /\ Len(q) <= Len(a)
  /\ \A i \in 1 .. Len(q) : q[i] = a[Len(a) - Len(q) + i]

(* A subscriber's queue holds the datagrams that arrived last, at most Capacity
   of them and in their order of arrival: whatever the pace of the consumer,
   overflow costs the oldest, and what it is given next is at most Capacity
   arrivals old. *)
LatestKept == \A s \in Subscribers :
  Len(queue[s]) <= Capacity /\ IsSuffixOf(queue[s], arrivals[s])

(* A queued datagram is yielded, unless it does not parse, Capacity newer ones
   push it out, or the consumer leaves; the link may be lost meanwhile. *)
EventuallyYielded == \A s \in Subscribers, d \in TelemetryDatagrams :
  (sub[s] = "on" /\ \E i \in 1 .. Len(queue[s]) : queue[s][i] = d)
  ~> \/ \E i \in 1 .. Len(yielded[s]) : yielded[s][i] = d
     \/ ~Parses(d)
     \/ \E i \in 1 .. Len(arrivals[s]) :
          arrivals[s][i] = d /\ Len(arrivals[s]) - i >= Capacity
     \/ sub[s] = "off"

FEED == INSTANCE Feed WITH
  Messages <- TelemetryDatagrams,
  published <- seen,
  joined <- {s \in Subscribers : sub[s] = "on"},
  backlog <- queue

(* The datagram channel is a feed: published is what has arrived. *)
ImplementsFeed == FEED!Spec
=============================================================================
