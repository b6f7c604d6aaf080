---------------------------- MODULE EventChannel ----------------------------
(***************************************************************************)
(* Events: the server-initiated unidirectional streams of one connection,  *)
(* reassembled by _RuvionProtocol.quic_event_received, fanned out by       *)
(* _dispatch_event_frame and read by Connection.events (transport.py).     *)
(*                                                                         *)
(* The controller opens one stream per event.  QUIC delivers the parts of  *)
(* a stream in order and once, but orders nothing between streams; the     *)
(* controller may reset a stream, and the link may be lost.  A consumer    *)
(* subscribes when it first asks its iterator for an event, and takes      *)
(* events at its own pace from a queue of its own.                         *)
(***************************************************************************)
EXTENDS Integers, Sequences, Functions

CONSTANTS
  Subscribers, (* the iterators returned by Connection.events              *)
  Capacity,    (* _EVENT_QUEUE_SIZE                                        *)
  MaxEvents,   (* bound: events the controller emits                       *)
  MaxParts,    (* bound: the parts one event arrives in                    *)
  Unreadable   (* the events parse_event raises on                         *)

ASSUME CapacityAssumption == Capacity \in Nat \ {0}
ASSUME EventsAssumption == MaxEvents \in Nat /\ Unreadable \subseteq 1 .. MaxEvents
ASSUME PartsAssumption == MaxParts \in Nat \ {0}

VARIABLES
  link,     (* the QUIC connection is up                                   *)
  parts,    (* parts[e]: in how many parts event e, on stream e, arrives   *)
  arrived,  (* arrived[e]: how many of them have arrived                   *)
  reset,    (* the streams the controller reset                            *)
  buffers,  (* _event_buffers: stream -> the parts collected               *)
  sub,      (* sub[s]: "new", "on" or "off" _event_subscribers             *)
  queue,    (* queue[s]: the queue of s, of frames                         *)
  yielded,  (* yielded[s]: the events the iterator has yielded             *)
  offered,  (* history: the events dispatched while s was subscribed       *)
  dropped   (* history: those of them that found the queue of s full       *)

consumer == <<sub, yielded>>
history == <<offered, dropped>>
vars == <<link, parts, arrived, reset, buffers, sub, queue, yielded, offered,
          dropped>>

Events == 1 .. Len(parts)
Part == (1 .. MaxEvents) \X (1 .. MaxParts)

TypeOK ==
  /\ link \in BOOLEAN
  /\ parts \in Seq(1 .. MaxParts) /\ Len(parts) <= MaxEvents
  /\ arrived \in [Events -> 0 .. MaxParts]
  /\ reset \subseteq Events
  /\ DOMAIN buffers \subseteq Events
  /\ buffers \in [DOMAIN buffers -> Seq(Part)]
  /\ sub \in [Subscribers -> {"new", "on", "off"}]
  /\ queue \in [Subscribers -> Seq(Seq(Part))]
  /\ \A s \in Subscribers : Len(queue[s]) <= Capacity
  /\ yielded \in [Subscribers -> Seq(1 .. MaxEvents)]
  /\ offered \in [Subscribers -> Seq(1 .. MaxEvents)]
  /\ dropped \in [Subscribers -> SUBSET (1 .. MaxEvents)]

Init ==
  /\ link = TRUE
  /\ parts = <<>>
  /\ arrived = <<>>
  /\ reset = {}
  /\ buffers = <<>>
  /\ sub = [s \in Subscribers |-> "new"]
  /\ queue = [s \in Subscribers |-> <<>>]
  /\ yielded = [s \in Subscribers |-> <<>>]
  /\ offered = [s \in Subscribers |-> <<>>]
  /\ dropped = [s \in Subscribers |-> {}]

-----------------------------------------------------------------------------
(* A frame decodes to event e if it is all the parts of e in order; anything
   else makes parse_event raise. *)
Garbled == 0

Decode(frame) ==
  IF \E e \in Events : frame = [i \in 1 .. parts[e] |-> <<e, i>>]
  THEN frame[1][1]
  ELSE Garbled

Parses(frame) == Decode(frame) \notin Unreadable \cup {Garbled}

(* The controller *)

Emit ==
  /\ Len(parts) < MaxEvents
  /\ \E n \in 1 .. MaxParts : parts' = Append(parts, n)
  /\ arrived' = Append(arrived, 0)
  /\ UNCHANGED <<link, reset, buffers, queue, consumer, history>>

(* The protocol has no handler for a reset: what was collected stays. *)
ResetStream(e) ==
  /\ link
  /\ e \notin reset
  /\ arrived[e] < parts[e]
  /\ reset' = reset \cup {e}
  /\ UNCHANGED <<link, parts, arrived, buffers, queue, consumer, history>>

LoseLink ==
  /\ link
  /\ link' = FALSE
  /\ UNCHANGED <<parts, arrived, reset, buffers, queue, consumer, history>>

-----------------------------------------------------------------------------
(* The protocol *)

(* Variant: an unbounded put into a queue that should be bounded. *)
DispatchUnbounded(e, frame) ==
  LET on == {s \in Subscribers : sub[s] = "on"}
  IN  /\ queue' = [s \in Subscribers |-> IF s \in on
                                         THEN Append(queue[s], frame)
                                         ELSE queue[s]]
      /\ offered' = [s \in Subscribers |-> IF s \in on
                                           THEN Append(offered[s], e)
                                           ELSE offered[s]]
      /\ UNCHANGED dropped

(* Variant: the first full queue ends the fan-out for everyone. *)
DispatchAllOrNone(e, frame) ==
  LET on == {s \in Subscribers : sub[s] = "on"}
      full == {s \in on : Len(queue[s]) = Capacity}
  IN  /\ queue' = [s \in Subscribers |-> IF s \in on /\ full = {}
                                         THEN Append(queue[s], frame)
                                         ELSE queue[s]]
      /\ offered' = [s \in Subscribers |-> IF s \in on
                                           THEN Append(offered[s], e)
                                           ELSE offered[s]]
      /\ dropped' = [s \in Subscribers |-> IF s \in on /\ full # {}
                                           THEN dropped[s] \cup {e}
                                           ELSE dropped[s]]

(* Variant: a full queue gives up its oldest frame, as for telemetry. *)
DispatchDropOldest(e, frame) ==
  LET on == {s \in Subscribers : sub[s] = "on"}
  IN  /\ queue' = [s \in Subscribers |->
                     IF s \notin on THEN queue[s]
                     ELSE IF Len(queue[s]) < Capacity
                          THEN Append(queue[s], frame)
                          ELSE Append(Tail(queue[s]), frame)]
      /\ offered' = [s \in Subscribers |-> IF s \in on
                                           THEN Append(offered[s], e)
                                           ELSE offered[s]]
      /\ UNCHANGED dropped

(* _dispatch_event_frame: a subscriber whose queue is full misses the frame. *)
DispatchEventFrame(e, frame) ==
  LET on == {s \in Subscribers : sub[s] = "on"}
      full == {s \in on : Len(queue[s]) = Capacity}
  IN  /\ queue' = [s \in Subscribers |-> IF s \in on \ full
                                         THEN Append(queue[s], frame)
                                         ELSE queue[s]]
      /\ offered' = [s \in Subscribers |-> IF s \in on
                                           THEN Append(offered[s], e)
                                           ELSE offered[s]]
      /\ dropped' = [s \in Subscribers |-> IF s \in full
                                           THEN dropped[s] \cup {e}
                                           ELSE dropped[s]]

(* Variant: the buffer is not kept between two parts of a stream. *)
CollectedLatest(e) == <<<<e, arrived[e] + 1>>>>

(* The part of e that is next joins what its stream has collected. *)
Collected(e) == Append(IF e \in DOMAIN buffers THEN buffers[e] ELSE <<>>,
                       <<e, arrived[e] + 1>>)

(* quic_event_received for a part of event e that does not end the stream *)
DeliverPart(e) ==
  /\ link
  /\ e \notin reset
  /\ arrived[e] + 1 < parts[e]
  /\ arrived' = [arrived EXCEPT ![e] = @ + 1]
  /\ buffers' = [x \in DOMAIN buffers \cup {e} |->
                   IF x = e THEN Collected(e) ELSE buffers[x]]
  /\ UNCHANGED <<link, parts, reset, queue, consumer, history>>

(* quic_event_received for the part that ends the stream *)
DeliverLast(e) ==
  /\ link
  /\ e \notin reset
  /\ arrived[e] + 1 = parts[e]
  /\ arrived' = [arrived EXCEPT ![e] = @ + 1]
  /\ DispatchEventFrame(e, Collected(e))
  /\ buffers' = Restrict(buffers, DOMAIN buffers \ {e})
  /\ UNCHANGED <<link, parts, reset, consumer>>

-----------------------------------------------------------------------------
(* The consumers *)

(* events runs up to its first await when it is first asked for an event. *)
Subscribe(s) ==
  /\ sub[s] = "new"
  /\ sub' = [sub EXCEPT ![s] = "on"]
  /\ UNCHANGED <<link, parts, arrived, reset, buffers, queue, yielded, history>>

(* Variant: a frame that does not parse ends the iteration for good. *)
TakeEventStrict(s) ==
  /\ sub[s] = "on"
  /\ queue[s] # <<>>
  /\ Parses(Head(queue[s]))
  /\ queue' = [queue EXCEPT ![s] = Tail(@)]
  /\ yielded' = [yielded EXCEPT ![s] = Append(@, Decode(Head(queue[s])))]
  /\ UNCHANGED <<link, parts, arrived, reset, buffers, sub, history>>

(* One turn of the loop of events: a frame that does not parse is skipped. *)
TakeEvent(s) ==
  /\ sub[s] = "on"
  /\ queue[s] # <<>>
  /\ queue' = [queue EXCEPT ![s] = Tail(@)]
  /\ yielded' = IF Parses(Head(queue[s]))
                THEN [yielded EXCEPT ![s] = Append(@, Decode(Head(queue[s])))]
                ELSE yielded
  /\ UNCHANGED <<link, parts, arrived, reset, buffers, sub, history>>

(* The iterator is closed or its task cancelled. *)
Unsubscribe(s) ==
  /\ sub[s] = "on"
  /\ sub' = [sub EXCEPT ![s] = "off"]
  /\ UNCHANGED <<link, parts, arrived, reset, buffers, queue, yielded, history>>

-----------------------------------------------------------------------------
Next ==
  \/ Emit
  \/ \E e \in Events : DeliverPart(e) \/ DeliverLast(e) \/ ResetStream(e)
  \/ LoseLink
  \/ \E s \in Subscribers : Subscribe(s) \/ TakeEvent(s) \/ Unsubscribe(s)

(* QUIC retransmits what is lost, so parts arrive while the link is up; a
   consumer that is subscribed keeps asking. *)
Fairness ==
  /\ \A e \in 1 .. MaxEvents :
       WF_vars(e \in Events /\ (DeliverPart(e) \/ DeliverLast(e)))
  /\ \A s \in Subscribers : WF_vars(TakeEvent(s))

Spec == Init /\ [][Next]_vars /\ Fairness

-----------------------------------------------------------------------------
(* Properties *)

(* a stands before b in q. *)
Precedes(q, a, b) == \E i, j \in 1 .. Len(q) : i < j /\ q[i] = a /\ q[j] = b

(* What a consumer was given, followed by what is queued for it *)
Kept(s) == yielded[s] \o [i \in 1 .. Len(queue[s]) |-> Decode(queue[s][i])]

(* What a consumer was given, followed by what is queued for it, is what was
   dispatched while it was subscribed, in that order and without repetition,
   less what found its queue full and what does not parse: frames are never
   cut, joined or mixed, and one consumer's full queue is no other's loss. *)
OrderKept == \A s \in Subscribers :
  /\ \A a, b \in Events : Precedes(Kept(s), a, b) => Precedes(offered[s], a, b)
  /\ \A a \in Events : ~Precedes(offered[s], a, a)
  /\ Range(Kept(s)) \subseteq Range(offered[s]) \ dropped[s]
  /\ Range(offered[s]) \subseteq Range(Kept(s)) \cup dropped[s] \cup Unreadable
  /\ Range(yielded[s]) \cap Unreadable = {}

(* Fewer events than the queue holds are never lost, however slow the consumer. *)
NoLossWithinCapacity == \A s \in Subscribers :
  Len(offered[s]) <= Capacity => dropped[s] = {}

(* "Reliable - events are neither lost nor reordered" (transport.py,
   Connection.events): fails in both halves, when the stream of a later event
   completes before that of an earlier one, and when a consumer is slower than
   the controller for longer than its queue lasts. *)
NeitherLostNorReordered == \A s \in Subscribers :
  /\ dropped[s] = {}
  /\ \A i, j \in 1 .. Len(yielded[s]) : i < j => yielded[s][i] < yielded[s][j]

(* An event on its way to a consumer is handed to it, unless the queue was full,
   the event does not parse, the consumer leaves, the stream is reset or the
   link is lost. *)
EventuallyYielded == \A s \in Subscribers, e \in 1 .. MaxEvents :
  (sub[s] = "on" /\ e \in Events /\ e \in DOMAIN arrived /\ arrived[e] < parts[e])
  ~> \/ \E i \in 1 .. Len(yielded[s]) : yielded[s][i] = e
     \/ e \in dropped[s] \cup Unreadable \cup reset
     \/ sub[s] = "off"
     \/ ~link

FEED == INSTANCE Feed WITH
  Messages <- 1 .. MaxEvents,
  published <- {e \in Events : arrived[e] = parts[e]},
  joined <- {s \in Subscribers : sub[s] = "on"},
  backlog <- [s \in Subscribers |->
                [i \in 1 .. Len(queue[s]) |-> Decode(queue[s][i])]]

(* The event channel is a feed: published is what has completely arrived. *)
ImplementsFeed == FEED!Spec
=============================================================================
