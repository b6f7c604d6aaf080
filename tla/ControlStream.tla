--------------------------- MODULE ControlStream ---------------------------
(***************************************************************************)
(* The control stream of one connection: Connection.request, _execute and  *)
(* the routing of stream data in _RuvionProtocol.quic_event_received       *)
(* (transport.py), with the controller's side of each stream.              *)
(*                                                                         *)
(* Every call opens a bidirectional QUIC stream of its own, registers a    *)
(* queue under the stream's id and awaits, with a timeout, a reply that    *)
(* may come in several chunks, the last one flagged as the stream's end.   *)
(* A handler runs from one await to the next without interruption, so each *)
(* such stretch is one action.  QUIC delivers the chunks of one stream in  *)
(* order and once; different streams are unordered, and once the link is   *)
(* lost nothing is delivered to the client any more.                       *)
(*                                                                         *)
(* A chunk carries where it comes from (stream, position, length and code  *)
(* of the whole reply) so that a reply put together from the wrong chunks  *)
(* does not parse as the reply of its call.                                *)
(***************************************************************************)
EXTENDS Integers, Sequences, Functions

CONSTANTS
  Calls,     (* the calls made on the connection, each at most once        *)
  Codes,     (* the results a reply can carry                              *)
  Ok,        (* CommandResult.Ok                                           *)
  Malformed, (* the reply does not parse                                   *)
  None,      (* no result yet                                              *)
  MaxChunks  (* bound: the chunks one reply arrives in                     *)

ASSUME CodesAssumption ==
  Ok \in Codes /\ Malformed \in Codes /\ Ok # Malformed /\ None \notin Codes
ASSUME ChunksAssumption == MaxChunks \in Nat \ {0}

VARIABLES
  closed,   (* Connection._closed                                          *)
  link,     (* the QUIC connection is up                                   *)
  nextId,   (* the next bidirectional stream id of the QUIC connection     *)
  queues,   (* _RuvionProtocol._stream_queues: stream id -> queued frames  *)
  state,    (* state[c]: where the call is                                 *)
  stream,   (* stream[c]: stream_id, NoStream before the call has one      *)
  buf,      (* buf[c]: the chunks read so far                              *)
  result,   (* result[c]: the code of the reply the call parsed            *)
  pending,  (* the streams whose command has not been executed yet         *)
  reply,    (* stream id -> the reply the controller wrote on it           *)
  arrived   (* stream id -> how many chunks of it reached the client       *)

client == <<state, stream, buf, result>>
server == <<pending, reply>>
vars == <<closed, link, nextId, queues, state, stream, buf, result, pending,
          reply, arrived>>

NoStream == -1
StreamIds == {s \in Nat : s % 4 = 0}
States == {"idle", "waiting", "returned", "raised", "refused", "timedout",
           "cancelled"}
Replies == [code : Codes, of : 1 .. MaxChunks]
Parts == [from : StreamIds, part : 1 .. MaxChunks, of : 1 .. MaxChunks,
          code : Codes]
Frames == [data : Parts, end : BOOLEAN]

TypeOK ==
  /\ closed \in BOOLEAN
  /\ link \in BOOLEAN
  /\ nextId \in StreamIds
  /\ DOMAIN queues \subseteq StreamIds
  /\ queues \in [DOMAIN queues -> Seq(Frames)]
  /\ state \in [Calls -> States]
  /\ stream \in [Calls -> StreamIds \cup {NoStream}]
  /\ buf \in [Calls -> Seq(Parts)]
  /\ result \in [Calls -> Codes \cup {None}]
  /\ pending \subseteq StreamIds
  /\ DOMAIN reply \subseteq StreamIds
  /\ reply \in [DOMAIN reply -> Replies]
  /\ arrived \in [DOMAIN reply -> 0 .. MaxChunks]

Init ==
  /\ closed = FALSE
  /\ link = TRUE
  /\ nextId = 0
  /\ queues = <<>>
  /\ state = [c \in Calls |-> "idle"]
  /\ stream = [c \in Calls |-> NoStream]
  /\ buf = [c \in Calls |-> <<>>]
  /\ result = [c \in Calls |-> None]
  /\ pending = {}
  /\ reply = <<>>
  /\ arrived = <<>>

-----------------------------------------------------------------------------
(* Functions with a growing or shrinking domain *)

With(f, x, y) == [z \in DOMAIN f \cup {x} |-> IF z = x THEN y ELSE f[z]]
Without(f, x) == Restrict(f, DOMAIN f \ {x})

(* The chunks of a reply *)

Part(s, i) == [from |-> s, part |-> i, of |-> reply[s].of,
               code |-> reply[s].code]
Frame(s, i) == [data |-> Part(s, i), end |-> i = reply[s].of]

(* A reply parses only if its chunks are those of one reply, all of them and
   in order. *)
ParseResponse(b) ==
  IF /\ b # <<>>
     /\ Len(b) = b[1].of
     /\ \A i \in 1 .. Len(b) : b[i] = [b[1] EXCEPT !.part = i]
  THEN b[1].code
  ELSE Malformed

(* raise_on_error returns on 0 only; every other code is an exception. *)
RaiseOnError(code) == IF code = Ok THEN "returned" ELSE "raised"

RegisterStream(s) == queues' = With(queues, s, <<>>)
UnregisterStream(s) == queues' = Without(queues, s)

-----------------------------------------------------------------------------
(* The caller *)

(* request on a closed connection raises ConnectError. *)
RequestRefused(c) ==
  /\ state[c] = "idle"
  /\ closed
  /\ state' = [state EXCEPT ![c] = "refused"]
  /\ UNCHANGED <<closed, link, nextId, queues, stream, buf, result, pending,
                 reply, arrived>>

(* Variant: the id counter advances as if every id were a bidirectional one. *)
RequestSendNarrowIds(c) ==
  /\ state[c] = "idle"
  /\ ~closed
  /\ state' = [state EXCEPT ![c] = "waiting"]
  /\ stream' = [stream EXCEPT ![c] = nextId]
  /\ RegisterStream(nextId)
  /\ nextId' = nextId + 1
  /\ pending' = IF link THEN pending \cup {nextId} ELSE pending
  /\ UNCHANGED <<closed, link, buf, result, reply, arrived>>

(* request up to its await: the QUIC layer accepts the data even when the link
   is gone, and then sends nothing. *)
RequestSend(c) ==
  /\ state[c] = "idle"
  /\ ~closed
  /\ state' = [state EXCEPT ![c] = "waiting"]
  /\ stream' = [stream EXCEPT ![c] = nextId]
  /\ RegisterStream(nextId)
  /\ nextId' = nextId + 4
  /\ pending' = IF link THEN pending \cup {nextId} ELSE pending
  /\ UNCHANGED <<closed, link, buf, result, reply, arrived>>

(* One turn of _read's loop that is not the last: a chunk joins the buffer. *)
ReadChunk(c) ==
  /\ state[c] = "waiting"
  /\ queues[stream[c]] # <<>>
  /\ ~Head(queues[stream[c]]).end
  /\ buf' = [buf EXCEPT ![c] = Append(@, Head(queues[stream[c]]).data)]
  /\ queues' = [queues EXCEPT ![stream[c]] = Tail(@)]
  /\ UNCHANGED <<closed, link, nextId, state, stream, result, pending, reply,
                 arrived>>

(* Variant: the reply is taken to be whole at its first chunk. *)
ReadLastTooEarly(c) ==
  /\ state[c] = "waiting"
  /\ queues[stream[c]] # <<>>
  /\ buf' = [buf EXCEPT ![c] = Append(@, Head(queues[stream[c]]).data)]
  /\ result' = [result EXCEPT ![c] = ParseResponse(buf'[c])]
  /\ state' = [state EXCEPT ![c] = RaiseOnError(result'[c])]
  /\ UnregisterStream(stream[c])
  /\ UNCHANGED <<closed, link, nextId, stream, pending, reply, arrived>>

(* The last turn: the reply is parsed and the call returns or raises. *)
ReadLast(c) ==
  /\ state[c] = "waiting"
  /\ queues[stream[c]] # <<>>
  /\ Head(queues[stream[c]]).end
  /\ buf' = [buf EXCEPT ![c] = Append(@, Head(queues[stream[c]]).data)]
  /\ result' = [result EXCEPT ![c] = ParseResponse(buf'[c])]
  /\ state' = [state EXCEPT ![c] = RaiseOnError(result'[c])]
  /\ UnregisterStream(stream[c])
  /\ UNCHANGED <<closed, link, nextId, stream, pending, reply, arrived>>

(* Variant: no `finally`, the registration stays. *)
TimeoutLeaking(c) ==
  /\ state[c] = "waiting"
  /\ state' = [state EXCEPT ![c] = "timedout"]
  /\ UNCHANGED <<closed, link, nextId, queues, stream, buf, result, pending,
                 reply, arrived>>

(* Variant: the wait is not bounded once the link is gone. *)
TimeoutWhileUp(c) ==
  /\ link
  /\ state[c] = "waiting"
  /\ state' = [state EXCEPT ![c] = "timedout"]
  /\ UnregisterStream(stream[c])
  /\ UNCHANGED <<closed, link, nextId, stream, buf, result, pending, reply,
                 arrived>>

(* Variant: the command is sent once more before the call gives up. *)
TimeoutResending(c) ==
  /\ state[c] = "waiting"
  /\ state' = [state EXCEPT ![c] = "timedout"]
  /\ UnregisterStream(stream[c])
  /\ pending' = pending \cup {stream[c]}
  /\ UNCHANGED <<closed, link, nextId, stream, buf, result, reply, arrived>>

(* wait_for gives up.  It may do so with chunks already queued, and it tells
   the controller nothing: the stream is left as it is. *)
Timeout(c) ==
  /\ state[c] = "waiting"
  /\ state' = [state EXCEPT ![c] = "timedout"]
  /\ UnregisterStream(stream[c])
  /\ UNCHANGED <<closed, link, nextId, stream, buf, result, pending, reply,
                 arrived>>

(* The caller's task is cancelled at the await. *)
Cancel(c) ==
  /\ state[c] = "waiting"
  /\ state' = [state EXCEPT ![c] = "cancelled"]
  /\ UnregisterStream(stream[c])
  /\ UNCHANGED <<closed, link, nextId, stream, buf, result, pending, reply,
                 arrived>>

Close ==
  /\ ~closed
  /\ closed' = TRUE
  /\ link' = FALSE
  /\ UNCHANGED <<nextId, queues, client, server, arrived>>

-----------------------------------------------------------------------------
(* The controller and the network *)

(* The controller executes the command of stream s and writes its reply.  A
   command that left before the link was lost may still be executed. *)
Execute(s) ==
  /\ s \in pending
  /\ pending' = pending \ {s}
  /\ \E r \in Replies : reply' = With(reply, s, r)
  /\ arrived' = With(arrived, s, 0)
  /\ UNCHANGED <<closed, link, nextId, queues, client>>

(* Variant: a queue of one frame, which drops what finds it full. *)
DeliverChunkBounded(s) ==
  /\ link
  /\ s \in DOMAIN reply
  /\ arrived[s] < reply[s].of
  /\ arrived' = [arrived EXCEPT ![s] = @ + 1]
  /\ queues' = IF s \in DOMAIN queues /\ queues[s] = <<>>
               THEN [queues EXCEPT ![s] = Append(@, Frame(s, arrived[s] + 1))]
               ELSE queues
  /\ UNCHANGED <<closed, link, nextId, client, server>>

(* quic_event_received for stream data: the chunk goes to the queue registered
   for its stream; with none registered it is dropped (s % 4 = 0). *)
DeliverChunk(s) ==
  /\ link
  /\ s \in DOMAIN reply
  /\ arrived[s] < reply[s].of
  /\ arrived' = [arrived EXCEPT ![s] = @ + 1]
  /\ queues' = IF s \in DOMAIN queues
               THEN [queues EXCEPT ![s] = Append(@, Frame(s, arrived[s] + 1))]
               ELSE queues
  /\ UNCHANGED <<closed, link, nextId, client, server>>

(* Idle timeout, network failure or the controller closing: the protocol has
   no handler for it. *)
LoseLink ==
  /\ link
  /\ link' = FALSE
  /\ UNCHANGED <<closed, nextId, queues, client, server, arrived>>

-----------------------------------------------------------------------------
CallStep(c) ==
  \/ RequestRefused(c)
  \/ RequestSend(c)
  \/ ReadChunk(c)
  \/ ReadLast(c)
  \/ Timeout(c)
  \/ Cancel(c)

Next ==
  \/ \E c \in Calls : CallStep(c)
  \/ \E s \in pending : Execute(s)
  \/ \E s \in DOMAIN reply : DeliverChunk(s)
  \/ Close
  \/ LoseLink

(* Of all steps only the timer is certain: the event loop runs it. *)
Fairness == \A c \in Calls : WF_vars(Timeout(c))

Spec == Init /\ [][Next]_vars /\ Fairness

-----------------------------------------------------------------------------
(* Properties *)

(* A call that ends with a result ends with the result the controller wrote on
   that call's stream, though chunks of other replies, and of replies whose
   caller gave up, arrive in between. *)
OwnWholeReply == \A c \in Calls :
  state[c] \in {"returned", "raised"} =>
    /\ stream[c] \in DOMAIN reply
    /\ result[c] = reply[stream[c]].code
    /\ state[c] = RaiseOnError(reply[stream[c]].code)

(* The registered queues are exactly those of the calls in flight, one each:
   every way out of request unregisters (nothing leaks), and none unregisters
   a stream another call is waiting on. *)
QueuesMatchWaiting ==
  /\ DOMAIN queues = {stream[c] : c \in {d \in Calls : state[d] = "waiting"}}
  /\ \A c, d \in Calls : stream[c] = stream[d] /\ stream[c] # NoStream => c = d

(* How much of the reply on stream s has reached the client. *)
Got(s) == IF s \in DOMAIN reply THEN arrived[s] ELSE 0

Received(c) ==
  /\ Len(buf[c]) + Len(queues[stream[c]]) = Got(stream[c])
  /\ \A i \in 1 .. Len(buf[c]) : buf[c][i] = Part(stream[c], i)
  /\ \A i \in 1 .. Len(queues[stream[c]]) :
       queues[stream[c]][i] = Frame(stream[c], Len(buf[c]) + i)

(* What a waiting call has read, followed by what is queued for it, is the part
   of its reply that has arrived: no chunk is lost, repeated or misrouted. *)
NothingMissed == \A c \in Calls : state[c] = "waiting" => Received(c)

(* No call hangs: with the link lost, the connection closed under it or the
   controller silent, every request ends. *)
EveryCallEnds == \A c \in Calls : state[c] = "waiting" ~> state[c] # "waiting"

(* Refinement: the command of a call is unsent, in flight or executed, by where
   its stream is on the controller. *)
Fate(c) == IF stream[c] \in pending THEN "inflight"
           ELSE IF stream[c] \in DOMAIN reply THEN "executed" ELSE "unsent"

AnswerOf(c) == IF stream[c] \in DOMAIN reply THEN reply[stream[c]].code
                                             ELSE None

Outcome(c) == IF state[c] \in {"timedout", "cancelled"} THEN "gaveup"
                                                        ELSE state[c]

RPC == INSTANCE Rpc WITH state <- [c \in Calls |-> Outcome(c)],
                         fate <- [c \in Calls |-> Fate(c)],
                         answer <- [c \in Calls |-> AnswerOf(c)]

(* request and _execute implement the remote call of Rpc: executed at most once,
   a result only if it is the one computed for this command, and an end for
   every call; a call that gave up may still be executed later. *)
ImplementsRpc == RPC!Spec
=============================================================================
