------------------------ MODULE ControlStreamProofs ------------------------
(***************************************************************************)
(* Proofs about ControlStream for any set of calls, any set of reply codes *)
(* and any bound on the chunks of a reply.                                 *)
(***************************************************************************)
EXTENDS ControlStream, SequenceTheorems, TLAPS

(* Ids are handed out in increasing order, so a stream that has a call, a
   command under way or a reply is never handed out again. *)
StreamsIssued ==
  /\ \A c \in Calls : stream[c] < nextId
  /\ \A s \in pending \cup DOMAIN reply : s < nextId
  /\ \A c \in Calls : state[c] \in {"idle", "refused"} <=> stream[c] = NoStream
  /\ pending \cap DOMAIN reply = {}

(* A waiting call has not read the chunk that ends its reply. *)
NotYetWhole ==
  /\ \A s \in DOMAIN reply : arrived[s] <= reply[s].of
  /\ \A c \in Calls : state[c] = "idle" => buf[c] = <<>>
  /\ \A c \in Calls : state[c] = "waiting" /\ stream[c] \in DOMAIN reply =>
       Len(buf[c]) < reply[stream[c]].of

IInv == /\ TypeOK
        /\ StreamsIssued
        /\ NotYetWhole
        /\ QueuesMatchWaiting
        /\ NothingMissed
        /\ OwnWholeReply

(* The chunks of a reply the controller wrote are well formed. *)
LEMMA FrameType ==
  ASSUME TypeOK, NEW s \in DOMAIN reply, NEW i \in 1 .. reply[s].of
  PROVE  /\ Part(s, i) \in Parts
         /\ Frame(s, i) \in Frames
  BY ChunksAssumption DEF TypeOK, Replies, Part, Frame, Parts, Frames

LEMMA FrameFields ==
  ASSUME NEW s, NEW i
  PROVE  /\ Frame(s, i).data = Part(s, i)
         /\ Frame(s, i).end <=> i = reply[s].of
  BY Zenon DEF Frame

(* The chunks of one reply, all of them and in order, parse as its code. *)
LEMMA WholeReplyParses ==
  ASSUME TypeOK, NEW s \in DOMAIN reply, NEW b \in Seq(Parts),
         Len(b) = reply[s].of,
         \A i \in 1 .. Len(b) : b[i] = Part(s, i)
  PROVE  ParseResponse(b) = reply[s].code
<1>1. reply[s].of \in 1 .. MaxChunks
  BY DEF TypeOK, Replies
<1>2. b # <<>> /\ 1 \in 1 .. Len(b)
  BY <1>1, ChunksAssumption
<1>3. b[1] = Part(s, 1)
  BY <1>2
<1>4. \A i \in 1 .. Len(b) : b[i] = [b[1] EXCEPT !.part = i]
  BY <1>3 DEF Part
<1>5. b[1].of = Len(b) /\ b[1].code = reply[s].code
  BY <1>3 DEF Part
<1> QED
  BY <1>2, <1>4, <1>5 DEF ParseResponse

(* What a call has received does not change while its stream, its buffer, its
   queue and its reply do not. *)
LEMMA ReceivedStable ==
  ASSUME NEW d \in Calls, Received(d), stream'[d] = stream[d],
         buf'[d] = buf[d], queues'[stream[d]] = queues[stream[d]],
         reply' = reply, arrived' = arrived
  PROVE  Received(d)'
  BY DEF Received, Got, Part, Frame

(* The queue of a waiting call. *)
LEMMA WaitingQueue ==
  ASSUME TypeOK, StreamsIssued, QueuesMatchWaiting,
         NEW c \in Calls, state[c] = "waiting"
  PROVE  /\ stream[c] \in StreamIds
         /\ stream[c] # NoStream
         /\ stream[c] \in DOMAIN queues
         /\ queues[stream[c]] \in Seq(Frames)
         /\ \A d \in Calls : d # c => stream[d] # stream[c]
  BY DEF TypeOK, StreamsIssued, QueuesMatchWaiting

(* The frame at the head of a waiting call's queue is the next chunk of the
   call's own reply. *)
LEMMA NextFrame ==
  ASSUME IInv, NEW c \in Calls, state[c] = "waiting",
         queues[stream[c]] # <<>>
  PROVE  /\ stream[c] \in DOMAIN reply
         /\ Len(buf[c]) + 1 \in 1 .. reply[stream[c]].of
         /\ Head(queues[stream[c]]) = Frame(stream[c], Len(buf[c]) + 1)
         /\ Head(queues[stream[c]]).data = Part(stream[c], Len(buf[c]) + 1)
         /\ Head(queues[stream[c]]).data \in Parts
         /\ Head(queues[stream[c]]).end
              <=> Len(buf[c]) + 1 = reply[stream[c]].of
<1> DEFINE s == stream[c]
<1> DEFINE q == queues[s]
<1>1. q \in Seq(Frames) /\ buf[c] \in Seq(Parts)
  BY WaitingQueue DEF IInv, TypeOK
<1>2. Len(q) \in Nat /\ Len(q) >= 1 /\ Len(buf[c]) \in Nat /\ Head(q) = q[1]
  BY <1>1
<1>3. Received(c)
  BY DEF IInv, NothingMissed
<1> DEFINE m == Len(buf[c])
<1> DEFINE n == Len(q)
<1>4. m \in Nat /\ n \in Nat /\ n >= 1 /\ m + n = Got(s)
  BY <1>2, <1>3 DEF Received
<1>5. s \in DOMAIN reply
  <2> HIDE DEF m, n
  <2>1. Got(s) # 0
    BY <1>4
  <2> QED
    BY <2>1 DEF Got
<1>6. m + n <= reply[s].of /\ reply[s].of \in Nat
  BY <1>4, <1>5, ChunksAssumption DEF Got, IInv, NotYetWhole, TypeOK, Replies
<1>7. q[1] = Frame(s, m + 1)
  BY <1>2, <1>3 DEF Received
<1>8. m + 1 \in 1 .. reply[s].of
  <2> HIDE DEF m, n
  <2> QED
    BY <1>4, <1>6
<1>9. Part(s, m + 1) \in Parts
  BY <1>5, <1>8, FrameType DEF IInv
<1>10. /\ Head(q) = Frame(s, m + 1)
       /\ Head(q).data = Part(s, m + 1)
       /\ Head(q).end <=> m + 1 = reply[s].of
  <2> HIDE DEF m, n
  <2>1. Head(q) = Frame(s, m + 1)
    BY <1>2, <1>7
  <2> QED
    BY <2>1, FrameFields
<1> QED
  BY <1>5, <1>8, <1>9, <1>10

-----------------------------------------------------------------------------
(* Type correctness is inductive only with the facts that say which stream ids
   index which dictionary, so it is proved as a part of IInv. *)

LEMMA InitInv == Init => IInv
<1> SUFFICES ASSUME Init PROVE IInv
  OBVIOUS
<1>1. TypeOK
  <2>1. \A S : <<>> \in [DOMAIN <<>> -> S]
    OBVIOUS
  <2>2. DOMAIN queues = {} /\ DOMAIN reply = {}
    BY DEF Init
  <2>3. /\ queues \in [DOMAIN queues -> Seq(Frames)]
        /\ reply \in [DOMAIN reply -> Replies]
        /\ arrived \in [DOMAIN reply -> 0 .. MaxChunks]
    BY <2>1 DEF Init
  <2>4. nextId \in StreamIds
    BY DEF Init, StreamIds
  <2>5. buf \in [Calls -> Seq(Parts)]
    BY DEF Init
  <2> QED
    BY <2>2, <2>3, <2>4, <2>5 DEF Init, TypeOK, States
<1>2. StreamsIssued
  BY DEF Init, StreamsIssued, NoStream
<1>3. NotYetWhole
  BY DEF Init, NotYetWhole
<1>4. QueuesMatchWaiting /\ NothingMissed /\ OwnWholeReply
  BY DEF Init, QueuesMatchWaiting, NothingMissed, OwnWholeReply
<1> QED
  BY <1>1, <1>2, <1>3, <1>4 DEF IInv

LEMMA RequestSendInv ==
  ASSUME IInv, NEW c \in Calls, RequestSend(c)
  PROVE  IInv'
<1> USE DEF IInv
<1>1. /\ DOMAIN queues' = DOMAIN queues \cup {nextId}
      /\ queues'[nextId] = <<>>
      /\ \A z \in DOMAIN queues : z # nextId => queues'[z] = queues[z]
  BY DEF RequestSend, RegisterStream, With
<1>2. nextId \in StreamIds /\ nextId + 4 \in StreamIds /\ nextId # NoStream
  BY DEF TypeOK, StreamIds, NoStream
<1>3. TypeOK'
  <2>1. queues' \in [DOMAIN queues' -> Seq(Frames)]
    BY DEF RequestSend, RegisterStream, TypeOK, With
  <2> QED
    BY <1>1, <1>2, <2>1 DEF RequestSend, TypeOK, States
<1>4. nextId \notin DOMAIN reply /\ \A d \in Calls : stream[d] # nextId
  BY <1>2 DEF StreamsIssued, TypeOK, StreamIds
<1>5. StreamsIssued'
  <2>1. /\ \A d \in Calls : stream'[d] < nextId'
        /\ \A s \in (pending \cup DOMAIN reply)' : s < nextId'
    BY <1>2 DEF RequestSend, StreamsIssued, TypeOK, StreamIds, NoStream
  <2>2. \A d \in Calls : state'[d] \in {"idle", "refused"}
                           <=> stream'[d] = NoStream
    BY <1>2 DEF RequestSend, StreamsIssued, TypeOK
  <2>3. (pending \cap DOMAIN reply)' = {}
    BY <1>4 DEF RequestSend, StreamsIssued
  <2> QED
    BY <2>1, <2>2, <2>3 DEF StreamsIssued
<1>6. NotYetWhole'
  BY <1>4 DEF RequestSend, NotYetWhole, TypeOK
<1>7. QueuesMatchWaiting'
  BY <1>1, <1>2, <1>4 DEF RequestSend, QueuesMatchWaiting, TypeOK
<1>8. NothingMissed'
  <2> SUFFICES ASSUME NEW d \in Calls, state'[d] = "waiting"
               PROVE  Received(d)'
    BY DEF NothingMissed
  <2>1. CASE d = c
    <3>1. /\ stream'[d] = nextId /\ buf'[d] = <<>> /\ queues'[stream'[d]] = <<>>
          /\ nextId \notin DOMAIN reply'
      BY <2>1, <1>1, <1>4 DEF RequestSend, NotYetWhole, TypeOK
    <3>2. Got(stream[d])' = 0
      BY <3>1 DEF Got
    <3>3. Len(buf'[d]) = 0 /\ Len(queues'[stream'[d]]) = 0
      BY <3>1
    <3> QED
      BY <3>2, <3>3 DEF Received
  <2>2. CASE d # c
    <3>1. /\ stream'[d] = stream[d] /\ buf'[d] = buf[d] /\ state[d] = "waiting"
          /\ queues'[stream[d]] = queues[stream[d]]
      BY <2>2, <1>1, <1>4 DEF RequestSend, TypeOK, QueuesMatchWaiting
    <3>2. Received(d)
      BY <3>1 DEF NothingMissed
    <3>3. reply' = reply /\ arrived' = arrived
      BY DEF RequestSend
    <3> QED
      BY <3>1, <3>2, <3>3 DEF Received, Got, Part, Frame
  <2> QED
    BY <2>1, <2>2
<1>9. OwnWholeReply'
  BY <1>4 DEF RequestSend, OwnWholeReply, TypeOK
<1> QED
  BY <1>3, <1>5, <1>6, <1>7, <1>8, <1>9

LEMMA RequestRefusedInv ==
  ASSUME IInv, NEW c \in Calls, RequestRefused(c)
  PROVE  IInv'
<1> USE DEF IInv
<1>1. /\ TypeOK'
      /\ StreamsIssued'
      /\ NotYetWhole'
      /\ OwnWholeReply'
  BY DEF RequestRefused, TypeOK, States, StreamsIssued, NotYetWhole,
     OwnWholeReply
<1>2. {d \in Calls : state'[d] = "waiting"} = {d \in Calls : state[d] = "waiting"}
  BY DEF RequestRefused, TypeOK
<1>3. QueuesMatchWaiting'
  BY <1>2 DEF RequestRefused, QueuesMatchWaiting
<1>4. NothingMissed'
  BY <1>2 DEF RequestRefused, NothingMissed, Received, Got, Part, Frame
<1> QED
  BY <1>1, <1>3, <1>4

LEMMA ReadChunkInv ==
  ASSUME IInv, NEW c \in Calls, ReadChunk(c)
  PROVE  IInv'
<1> USE DEF IInv
<1> DEFINE s == stream[c]
<1> DEFINE q == queues[s]
<1>1. /\ state[c] = "waiting" /\ q # <<>> /\ ~Head(q).end
      /\ buf' = [buf EXCEPT ![c] = Append(@, Head(q).data)]
      /\ queues' = [queues EXCEPT ![s] = Tail(@)]
      /\ UNCHANGED <<closed, link, nextId, state, stream, result, pending,
                     reply, arrived>>
  BY DEF ReadChunk
<1>2. /\ s \in DOMAIN queues /\ q \in Seq(Frames) /\ buf[c] \in Seq(Parts)
      /\ \A d \in Calls : d # c => stream[d] # s
  BY <1>1, WaitingQueue DEF TypeOK
<1>3. /\ s \in DOMAIN reply
      /\ Len(buf[c]) + 1 < reply[s].of
      /\ Head(q).data = Part(s, Len(buf[c]) + 1)
      /\ Head(q).data \in Parts
  <2>1. /\ s \in DOMAIN reply /\ Len(buf[c]) + 1 \in 1 .. reply[s].of
        /\ Head(q).data = Part(s, Len(buf[c]) + 1) /\ Head(q).data \in Parts
        /\ Len(buf[c]) + 1 # reply[s].of
    BY <1>1, NextFrame
  <2>2. reply[s].of \in Nat
    BY <2>1, ChunksAssumption DEF TypeOK, Replies
  <2> QED
    BY <2>1, <2>2
<1>4. /\ DOMAIN queues' = DOMAIN queues
      /\ queues'[s] = Tail(q) /\ Tail(q) \in Seq(Frames)
      /\ \A z \in DOMAIN queues : z # s => queues'[z] = queues[z]
      /\ buf'[c] = Append(buf[c], Head(q).data)
      /\ buf'[c] \in Seq(Parts)
      /\ \A d \in Calls : d # c => buf'[d] = buf[d]
  BY <1>1, <1>2, <1>3 DEF TypeOK
<1>5. /\ Len(buf'[c]) = Len(buf[c]) + 1 /\ Len(queues'[s]) = Len(q) - 1
      /\ Len(buf[c]) \in Nat /\ Len(q) \in Nat
  BY <1>1, <1>2, <1>3, <1>4
<1>6. TypeOK'
  BY <1>1, <1>4 DEF TypeOK
<1>7. StreamsIssued' /\ OwnWholeReply' /\ QueuesMatchWaiting'
  BY <1>1, <1>4 DEF StreamsIssued, OwnWholeReply, QueuesMatchWaiting
<1>8. NotYetWhole'
  BY <1>1, <1>3, <1>4, <1>5 DEF NotYetWhole
<1>9. NothingMissed'
  <2> SUFFICES ASSUME NEW d \in Calls, state'[d] = "waiting"
               PROVE  Received(d)'
    BY DEF NothingMissed
  <2>0. Received(d)
    BY <1>1 DEF NothingMissed
  <2>1. CASE d = c
    <3>1. Len(buf'[c]) + Len(queues'[s]) = Got(s)
      <4> DEFINE m == Len(buf[c])
      <4> DEFINE n == Len(q)
      <4>1. m + n = Got(s) /\ m \in Nat /\ n \in Nat
        BY <1>5, <2>0, <2>1 DEF Received
      <4>2. (m + 1) + (n - 1) = Got(s)
        <5> HIDE DEF m, n
        <5> QED
          BY <4>1
      <4> QED
        BY <1>5, <4>2
    <3>2. \A i \in 1 .. Len(buf'[c]) : buf'[c][i] = Part(s, i)
      BY <1>2, <1>3, <1>4, <2>0, <2>1 DEF Received
    <3>3. \A i \in 1 .. Len(queues'[s]) :
            queues'[s][i] = Frame(s, Len(buf'[c]) + i)
      <4> SUFFICES ASSUME NEW i \in 1 .. Len(queues'[s])
                   PROVE  queues'[s][i] = Frame(s, Len(buf'[c]) + i)
        OBVIOUS
      <4>1. queues'[s][i] = q[i + 1] /\ i + 1 \in 1 .. Len(q)
        BY <1>1, <1>2, <1>4, <1>5
      <4>2. q[i + 1] = Frame(s, Len(buf[c]) + (i + 1))
        BY <4>1, <2>0, <2>1 DEF Received
      <4>3. Len(buf[c]) + (i + 1) = Len(buf'[c]) + i
        <5> DEFINE m == Len(buf[c])
        <5>1. m \in Nat
          BY <1>5
        <5>2. m + (i + 1) = (m + 1) + i
          <6> HIDE DEF m
          <6> QED
            BY <5>1
        <5> QED
          BY <1>5, <5>2
      <4> QED
        BY <4>1, <4>2, <4>3
    <3> QED
      BY <1>1, <2>1, <3>1, <3>2, <3>3 DEF Received, Got, Part, Frame
  <2>2. CASE d # c
    <3>1. /\ stream'[d] = stream[d] /\ buf'[d] = buf[d]
          /\ queues'[stream[d]] = queues[stream[d]]
      BY <1>1, <1>2, <1>4, <2>2 DEF QueuesMatchWaiting
    <3> QED
      BY <1>1, <2>0, <3>1, ReceivedStable
  <2> QED
    BY <2>1, <2>2
<1> QED
  BY <1>6, <1>7, <1>8, <1>9

LEMMA ReadLastInv ==
  ASSUME IInv, NEW c \in Calls, ReadLast(c)
  PROVE  IInv'
<1> USE DEF IInv
<1> DEFINE s == stream[c]
<1> DEFINE q == queues[s]
<1>1. /\ state[c] = "waiting" /\ q # <<>> /\ Head(q).end
      /\ buf' = [buf EXCEPT ![c] = Append(@, Head(q).data)]
      /\ result' = [result EXCEPT ![c] = ParseResponse(buf'[c])]
      /\ state' = [state EXCEPT ![c] = RaiseOnError(result'[c])]
      /\ queues' = Without(queues, s)
      /\ UNCHANGED <<closed, link, nextId, stream, pending, reply, arrived>>
  BY DEF ReadLast, UnregisterStream
<1>2. /\ s \in StreamIds /\ s # NoStream /\ s \in DOMAIN queues
      /\ buf[c] \in Seq(Parts)
      /\ \A d \in Calls : d # c => stream[d] # s
  BY <1>1, WaitingQueue DEF TypeOK
<1>3. /\ s \in DOMAIN reply /\ Len(buf[c]) + 1 = reply[s].of
      /\ Head(q).data = Part(s, Len(buf[c]) + 1)
      /\ Head(q).data \in Parts
  BY <1>1, NextFrame
<1>4. /\ buf'[c] \in Seq(Parts) /\ Len(buf'[c]) = reply[s].of
      /\ \A i \in 1 .. Len(buf'[c]) : buf'[c][i] = Part(s, i)
  <2>1. \A i \in 1 .. Len(buf[c]) : buf[c][i] = Part(s, i)
    BY <1>1 DEF NothingMissed, Received
  <2> QED
    BY <1>1, <1>2, <1>3, <2>1 DEF TypeOK
<1>5. result'[c] = reply[s].code /\ reply[s].code \in Codes
  BY <1>1, <1>3, <1>4, WholeReplyParses DEF TypeOK, Replies
<1>6. state'[c] = RaiseOnError(reply[s].code)
  BY <1>1, <1>5 DEF TypeOK
<1> HIDE DEF IInv
<1>7. /\ \A d \in Calls : d # c => /\ state'[d] = state[d]
                                  /\ result'[d] = result[d]
                                  /\ buf'[d] = buf[d]
      /\ state'[c] \in {"returned", "raised"}
      /\ DOMAIN queues' = DOMAIN queues \ {s}
      /\ \A z \in DOMAIN queues' : queues'[z] = queues[z]
  BY <1>1, <1>6 DEF IInv, TypeOK, RaiseOnError, Without, Restrict
<1> USE DEF IInv
<1>8. TypeOK'
  <2>1. /\ state' \in [Calls -> States] /\ result' \in [Calls -> Codes \cup {None}]
        /\ buf' \in [Calls -> Seq(Parts)]
    BY <1>1, <1>4, <1>5, <1>7 DEF TypeOK, States
  <2>2. queues' \in [DOMAIN queues' -> Seq(Frames)]
    BY <1>1, <1>7 DEF TypeOK, Without, Restrict
  <2> QED
    BY <1>1, <1>7, <2>1, <2>2 DEF TypeOK
<1>9. StreamsIssued'
  BY <1>1, <1>2, <1>7 DEF StreamsIssued
<1>10. NotYetWhole'
  BY <1>1, <1>7 DEF NotYetWhole
<1>11. QueuesMatchWaiting'
  BY <1>1, <1>2, <1>7 DEF QueuesMatchWaiting
<1>12. NothingMissed'
  <2> SUFFICES ASSUME NEW d \in Calls, state'[d] = "waiting"
               PROVE  Received(d)'
    BY DEF NothingMissed
  <2>1. /\ d # c /\ state[d] = "waiting" /\ Received(d)
        /\ stream[d] \in DOMAIN queues'
    BY <1>2, <1>7 DEF NothingMissed, QueuesMatchWaiting
  <2> QED
    BY <1>1, <1>7, <2>1, ReceivedStable
<1>13. OwnWholeReply'
  BY <1>1, <1>3, <1>5, <1>6, <1>7 DEF OwnWholeReply
<1> QED
  BY <1>8, <1>9, <1>10, <1>11, <1>12, <1>13

(* A call that gives up leaves its queue behind for no one. *)
LEMMA GiveUpInv ==
  ASSUME IInv, NEW c \in Calls, Timeout(c) \/ Cancel(c)
  PROVE  IInv'
<1> DEFINE s == stream[c]
<1>1. PICK end \in {"timedout", "cancelled"} :
        /\ state[c] = "waiting"
        /\ state' = [state EXCEPT ![c] = end]
        /\ queues' = Without(queues, s)
        /\ UNCHANGED <<closed, link, nextId, stream, buf, result, pending,
                       reply, arrived>>
  BY DEF Timeout, Cancel, UnregisterStream
<1>2. /\ s # NoStream /\ s \in DOMAIN queues
      /\ \A d \in Calls : d # c => stream[d] # s
  BY <1>1, WaitingQueue DEF IInv, TypeOK
<1>3. /\ \A d \in Calls : d # c => state'[d] = state[d]
      /\ state'[c] \in {"timedout", "cancelled"}
      /\ state' \in [Calls -> States]
      /\ DOMAIN queues' = DOMAIN queues \ {s}
      /\ \A z \in DOMAIN queues' : queues'[z] = queues[z]
  BY <1>1 DEF IInv, TypeOK, States, Without, Restrict
<1> USE DEF IInv
<1>4. TypeOK'
  <2>1. queues' \in [DOMAIN queues' -> Seq(Frames)]
    BY <1>1, <1>3 DEF TypeOK, Without, Restrict
  <2> QED
    BY <1>1, <1>3, <2>1 DEF TypeOK
<1>5. StreamsIssued' /\ NotYetWhole' /\ OwnWholeReply'
  BY <1>1, <1>2, <1>3 DEF StreamsIssued, NotYetWhole, OwnWholeReply
<1>6. QueuesMatchWaiting'
  BY <1>1, <1>2, <1>3 DEF QueuesMatchWaiting
<1>7. NothingMissed'
  <2> SUFFICES ASSUME NEW d \in Calls, state'[d] = "waiting"
               PROVE  Received(d)'
    BY DEF NothingMissed
  <2>1. /\ d # c /\ state[d] = "waiting" /\ Received(d)
        /\ stream[d] \in DOMAIN queues'
    BY <1>2, <1>3 DEF NothingMissed, QueuesMatchWaiting
  <2> QED
    BY <1>1, <1>3, <2>1, ReceivedStable
<1> QED
  BY <1>4, <1>5, <1>6, <1>7

LEMMA ExecuteInv ==
  ASSUME IInv, NEW s \in pending, Execute(s)
  PROVE  IInv'
<1> USE DEF IInv
<1>1. PICK r \in Replies :
        /\ pending' = pending \ {s}
        /\ reply' = With(reply, s, r)
        /\ arrived' = With(arrived, s, 0)
        /\ UNCHANGED <<closed, link, nextId, queues, state, stream, buf, result>>
  BY DEF Execute, client
<1>2. s \in StreamIds /\ s \notin DOMAIN reply /\ s < nextId
  BY DEF TypeOK, StreamsIssued
<1>3. /\ DOMAIN reply' = DOMAIN reply \cup {s}
      /\ reply'[s] = r /\ arrived'[s] = 0
      /\ \A z \in DOMAIN reply : reply'[z] = reply[z] /\ arrived'[z] = arrived[z]
  BY <1>1, <1>2 DEF TypeOK, With
<1>4. r.of \in Nat /\ r.of >= 1
  BY ChunksAssumption DEF Replies
<1>5. TypeOK'
  <2>1. reply' \in [DOMAIN reply' -> Replies]
    BY <1>1, <1>3 DEF TypeOK, With
  <2>2. arrived' \in [DOMAIN reply' -> 0 .. MaxChunks]
    <3>1. 0 \in 0 .. MaxChunks
      BY ChunksAssumption
    <3>2. DOMAIN arrived = DOMAIN reply
      BY DEF TypeOK
    <3> QED
      BY <1>1, <1>3, <3>1, <3>2 DEF TypeOK, With
  <2> QED
    BY <1>1, <1>2, <1>3, <2>1, <2>2 DEF TypeOK
<1>6. StreamsIssued'
  BY <1>1, <1>2, <1>3 DEF StreamsIssued, TypeOK
<1>7. \A d \in Calls : state[d] = "waiting" /\ stream[d] = s =>
        Len(buf[d]) = 0 /\ Len(queues[s]) = 0
  <2> SUFFICES ASSUME NEW d \in Calls, state[d] = "waiting", stream[d] = s
               PROVE  Len(buf[d]) = 0 /\ Len(queues[s]) = 0
    OBVIOUS
  <2> DEFINE m == Len(buf[d])
  <2> DEFINE n == Len(queues[s])
  <2>1. m + n = 0
    BY <1>2 DEF NothingMissed, Received, Got
  <2>2. m \in Nat /\ n \in Nat
    BY WaitingQueue DEF TypeOK
  <2>3. m = 0 /\ n = 0
    <3> HIDE DEF m, n
    <3> QED
      BY <2>1, <2>2
  <2> QED
    BY <2>3
<1>8. NotYetWhole'
  <2>1. \A z \in DOMAIN reply' : arrived'[z] <= reply'[z].of
    BY <1>3, <1>4 DEF NotYetWhole
  <2>2. \A d \in Calls : state'[d] = "waiting" /\ stream'[d] \in DOMAIN reply' =>
          Len(buf'[d]) < reply'[stream'[d]].of
    BY <1>1, <1>3, <1>4, <1>7 DEF NotYetWhole
  <2> QED
    BY <1>1, <2>1, <2>2 DEF NotYetWhole
<1>9. QueuesMatchWaiting'
  BY <1>1 DEF QueuesMatchWaiting
<1>10. NothingMissed'
  <2> SUFFICES ASSUME NEW d \in Calls, state'[d] = "waiting"
               PROVE  Received(d)'
    BY DEF NothingMissed
  <2>0. Received(d) /\ state[d] = "waiting"
    BY <1>1 DEF NothingMissed
  <2>1. CASE stream[d] = s
    <3>1. Len(buf'[d]) = 0 /\ Len(queues'[stream'[d]]) = 0
      BY <1>1, <1>7, <2>0, <2>1
    <3>2. Got(stream[d])' = 0
      BY <1>1, <1>3, <2>1 DEF Got
    <3> QED
      BY <3>1, <3>2 DEF Received
  <2>2. CASE stream[d] \in DOMAIN reply
    <3>1. Got(stream[d])' = Got(stream[d])
      BY <1>1, <1>3, <2>2 DEF Got
    <3>2. reply'[stream[d]] = reply[stream[d]]
      BY <1>3, <2>2
    <3> QED
      BY <1>1, <2>0, <3>1, <3>2 DEF Received, Part, Frame
  <2>3. CASE stream[d] # s /\ stream[d] \notin DOMAIN reply
    <3>1. Got(stream[d]) = 0 /\ Got(stream[d])' = 0
      BY <1>1, <1>3, <2>3 DEF Got
    <3> DEFINE m == Len(buf[d])
    <3> DEFINE n == Len(queues[stream[d]])
    <3>2. m + n = 0
      BY <2>0, <3>1 DEF Received
    <3>3. m \in Nat /\ n \in Nat
      BY <2>0, WaitingQueue DEF TypeOK
    <3>4. m = 0 /\ n = 0
      <4> HIDE DEF m, n
      <4> QED
        BY <3>2, <3>3
    <3> QED
      BY <1>1, <3>1, <3>4 DEF Received
  <2> QED
    BY <2>1, <2>2, <2>3
<1>11. OwnWholeReply'
  BY <1>1, <1>3 DEF OwnWholeReply
<1> QED
  BY <1>5, <1>6, <1>8, <1>9, <1>10, <1>11

LEMMA DeliverChunkInv ==
  ASSUME IInv, NEW s \in DOMAIN reply, DeliverChunk(s)
  PROVE  IInv'
<1> DEFINE k == arrived[s] + 1
<1>1. /\ arrived[s] < reply[s].of
      /\ arrived' = [arrived EXCEPT ![s] = k]
      /\ queues' = IF s \in DOMAIN queues
                    THEN [queues EXCEPT ![s] = Append(@, Frame(s, k))]
                    ELSE queues
      /\ UNCHANGED <<closed, link, nextId, state, stream, buf, result, pending,
                     reply>>
  BY DEF DeliverChunk, client, server
<1>2. /\ reply[s].of \in 1 .. MaxChunks /\ arrived[s] \in 0 .. MaxChunks
      /\ k \in 1 .. reply[s].of
  <2>1. reply[s].of \in 1 .. MaxChunks /\ arrived[s] \in 0 .. MaxChunks
    BY DEF IInv, TypeOK, Replies
  <2> QED
    BY <1>1, <2>1, ChunksAssumption
<1>3. Frame(s, k) \in Frames
  BY <1>2, FrameType DEF IInv
<1> USE DEF IInv
<1>4. /\ DOMAIN queues' = DOMAIN queues
      /\ s \in DOMAIN queues => queues'[s] = Append(queues[s], Frame(s, k))
      /\ \A z \in DOMAIN queues : z # s => queues'[z] = queues[z]
      /\ queues' \in [DOMAIN queues' -> Seq(Frames)]
  BY <1>1, <1>3 DEF TypeOK
<1>5. /\ arrived'[s] = k
      /\ \A z \in DOMAIN reply : z # s => arrived'[z] = arrived[z]
      /\ arrived' \in [DOMAIN reply -> 0 .. MaxChunks]
  BY <1>1, <1>2, ChunksAssumption DEF TypeOK
<1>6. TypeOK'
  BY <1>1, <1>4, <1>5 DEF TypeOK
<1>7. StreamsIssued' /\ OwnWholeReply' /\ QueuesMatchWaiting'
  BY <1>1, <1>4 DEF StreamsIssued, OwnWholeReply, QueuesMatchWaiting
<1>8. NotYetWhole'
  BY <1>1, <1>2, <1>5 DEF NotYetWhole
<1>9. NothingMissed'
  <2> SUFFICES ASSUME NEW d \in Calls, state'[d] = "waiting"
               PROVE  Received(d)'
    BY DEF NothingMissed
  <2>0. /\ Received(d) /\ state[d] = "waiting" /\ stream[d] \in DOMAIN queues
        /\ queues[stream[d]] \in Seq(Frames) /\ buf[d] \in Seq(Parts)
    BY <1>1, WaitingQueue DEF NothingMissed, TypeOK
  <2>1. CASE stream[d] = s
    <3> DEFINE m == Len(buf[d])
    <3> DEFINE n == Len(queues[s])
    <3>1. m \in Nat /\ n \in Nat /\ m + n = arrived[s]
      BY <2>0, <2>1 DEF Received, Got
    <3>2. Len(queues'[s]) = n + 1
      BY <1>4, <2>0, <2>1
    <3>3. m + (n + 1) = k
      <4> HIDE DEF m, n
      <4> QED
        BY <3>1
    <3>4. \A i \in 1 .. Len(queues'[s]) : queues'[s][i] = Frame(s, m + i)
      <4> SUFFICES ASSUME NEW i \in 1 .. Len(queues'[s])
                   PROVE  queues'[s][i] = Frame(s, m + i)
        OBVIOUS
      <4>1. CASE i = n + 1
        <5>1. queues'[s][n + 1] = Frame(s, k)
          BY <1>3, <1>4, <2>0, <2>1
        <5>2. m + i = k
          BY <3>3, <4>1
        <5> QED
          BY <4>1, <5>1, <5>2
      <4>2. CASE i # n + 1
        <5>1. i \in 1 .. n
          <6> HIDE DEF n
          <6> QED
            BY <3>1, <3>2, <4>2
        <5>2. queues'[s][i] = queues[s][i]
          BY <1>3, <1>4, <2>0, <2>1, <5>1
        <5> QED
          BY <2>0, <2>1, <5>1, <5>2 DEF Received
      <4> QED
        BY <4>1, <4>2
    <3>5. Got(s)' = k
      BY <1>1, <1>5 DEF Got
    <3> QED
      BY <1>1, <2>0, <2>1, <3>2, <3>3, <3>4, <3>5 DEF Received, Part, Frame
  <2>2. CASE stream[d] # s
    <3>1. /\ Got(stream[d])' = Got(stream[d])
          /\ queues'[stream[d]] = queues[stream[d]]
      BY <1>1, <1>4, <1>5, <2>0, <2>2 DEF Got
    <3>2. stream'[d] = stream[d] /\ buf'[d] = buf[d] /\ reply' = reply
      BY <1>1
    <3> QED
      BY <2>0, <3>1, <3>2 DEF Received, Part, Frame
  <2> QED
    BY <2>1, <2>2
<1> QED
  BY <1>6, <1>7, <1>8, <1>9

(* Steps that touch neither a queue, a call nor a reply. *)
LEMMA FrameInv ==
  ASSUME IInv, closed' \in BOOLEAN, link' \in BOOLEAN,
         UNCHANGED <<nextId, queues, state, stream, buf, result, pending, reply,
                    arrived>>
  PROVE  IInv'
<1>1. TypeOK'
  BY DEF IInv, TypeOK
<1>2. StreamsIssued' /\ NotYetWhole' /\ QueuesMatchWaiting' /\ OwnWholeReply'
  BY DEF IInv, StreamsIssued, NotYetWhole, QueuesMatchWaiting, OwnWholeReply
<1>3. NothingMissed'
  BY DEF IInv, NothingMissed, Received, Got, Part, Frame
<1> QED
  BY <1>1, <1>2, <1>3 DEF IInv

LEMMA StepInv == IInv /\ [Next]_vars => IInv'
<1> SUFFICES ASSUME IInv, [Next]_vars PROVE IInv'
  OBVIOUS
<1>1. ASSUME NEW c \in Calls, CallStep(c) PROVE IInv'
  BY <1>1, RequestRefusedInv, RequestSendInv, ReadChunkInv, ReadLastInv,
     GiveUpInv DEF CallStep
<1>2. ASSUME NEW s \in pending, Execute(s) PROVE IInv'
  BY <1>2, ExecuteInv
<1>3. ASSUME NEW s \in DOMAIN reply, DeliverChunk(s) PROVE IInv'
  BY <1>3, DeliverChunkInv
<1>4. CASE Close
  BY <1>4, FrameInv DEF Close, client, server, IInv, TypeOK
<1>5. CASE LoseLink
  BY <1>5, FrameInv DEF LoseLink, client, server, IInv, TypeOK
<1>6. CASE UNCHANGED vars
  BY <1>6, FrameInv DEF vars, IInv, TypeOK
<1> QED
  BY <1>1, <1>2, <1>3, <1>4, <1>5, <1>6 DEF Next

LEMMA Invariant == Spec => []IInv
<1>1. Init => IInv
  BY InitInv
<1>2. IInv /\ [Next]_vars => IInv'
  BY StepInv
<1> QED
  BY <1>1, <1>2, PTL DEF Spec

(* Every variable of a connection keeps its type. *)
THEOREM TypeCorrect == Spec => []TypeOK
<1>1. IInv => TypeOK
  BY DEF IInv
<1> QED
  BY <1>1, Invariant, PTL

(* A call's result is the one the controller wrote on the call's own stream,
   whatever other replies, late or not, arrive on the connection. *)
THEOREM ResultsAreOwn == Spec => []OwnWholeReply
<1>1. IInv => OwnWholeReply
  BY DEF IInv
<1> QED
  BY <1>1, Invariant, PTL

(* No way out of request leaks a registration or removes another call's. *)
THEOREM NoLeakedStream == Spec => []QueuesMatchWaiting
<1>1. IInv => QueuesMatchWaiting
  BY DEF IInv
<1> QED
  BY <1>1, Invariant, PTL

(* No chunk of a waiting call's reply is lost, repeated or misrouted. *)
THEOREM NoChunkMissed == Spec => []NothingMissed
<1>1. IInv => NothingMissed
  BY DEF IInv
<1> QED
  BY <1>1, Invariant, PTL

-----------------------------------------------------------------------------
(* Refinement.  The commands of the other calls keep their fate and answer when
   nothing happens to their streams. *)
LEMMA FateStable ==
  ASSUME UNCHANGED <<stream, pending, reply>>
  PROVE  \A c \in Calls : Fate(c)' = Fate(c) /\ AnswerOf(c)' = AnswerOf(c)
  BY DEF Fate, AnswerOf

LEMMA InitRefines == Init => RPC!Init
<1> SUFFICES ASSUME Init PROVE RPC!Init
  OBVIOUS
<1>1. \A c \in Calls :
        Fate(c) = "unsent" /\ AnswerOf(c) = None /\ Outcome(c) = "idle"
  BY DEF Init, Fate, AnswerOf, Outcome
<1> QED
  BY <1>1 DEF Init, RPC!Init

LEMMA IssueRefines ==
  ASSUME IInv, NEW c \in Calls, RequestSend(c)
  PROVE  RPC!Issue(c)
<1>1. /\ stream' = [stream EXCEPT ![c] = nextId] /\ reply' = reply
      /\ pending' = IF link THEN pending \cup {nextId} ELSE pending
  BY DEF RequestSend
<1>2. /\ nextId \notin DOMAIN reply /\ nextId \notin pending /\ nextId # NoStream
      /\ \A d \in Calls : stream[d] # nextId
      /\ stream[c] = NoStream /\ NoStream \notin pending \cup DOMAIN reply
  BY DEF IInv, StreamsIssued, TypeOK, StreamIds, NoStream, RequestSend
<1>3. \A d \in Calls : d # c => Fate(d)' = Fate(d)
  BY <1>1, <1>2 DEF Fate, IInv, TypeOK
<1>4. Fate(c)' = IF link THEN "inflight" ELSE "unsent"
  BY <1>1, <1>2 DEF Fate, IInv, TypeOK
<1>5. \A d \in Calls : AnswerOf(d)' = AnswerOf(d)
  BY <1>1, <1>2 DEF AnswerOf, IInv, TypeOK
<1>6. [d \in Calls |-> Fate(d)]' =
        [[d \in Calls |-> Fate(d)] EXCEPT ![c] = Fate(c)']
  BY <1>3
<1>7. Fate(c)' \in {"unsent", "inflight"}
  BY <1>4
<1> QED
  BY <1>5, <1>6, <1>7 DEF RPC!Issue, RequestSend, Outcome, IInv, TypeOK

LEMMA AnswerRefines ==
  ASSUME IInv, NEW c \in Calls, ReadLast(c)
  PROVE  RPC!Answer(c)
<1>1. IInv' /\ UNCHANGED <<stream, pending, reply>> /\ state[c] = "waiting"
      /\ state' = [state EXCEPT ![c] = RaiseOnError(result'[c])]
      /\ result' = [result EXCEPT ![c] = ParseResponse(buf'[c])]
  BY ReadLastInv DEF ReadLast
<1>2. state'[c] \in {"returned", "raised"}
  BY <1>1 DEF RaiseOnError, IInv, TypeOK
<1>3. stream[c] \in DOMAIN reply /\ result'[c] = reply[stream[c]].code
  BY <1>1, <1>2 DEF IInv, OwnWholeReply
<1>4. Fate(c) = "executed" /\ AnswerOf(c) = result'[c]
  BY <1>3 DEF Fate, AnswerOf, IInv, StreamsIssued
<1>5. result' = [result EXCEPT ![c] = AnswerOf(c)]
  BY <1>1, <1>4 DEF IInv, TypeOK
<1> QED
  BY <1>1, <1>4, <1>5, FateStable DEF RPC!Answer, RaiseOnError, Outcome,
     IInv, TypeOK

LEMMA ExecuteRefines ==
  ASSUME IInv, NEW s \in pending, Execute(s)
  PROVE  (\E c \in Calls : RPC!Execute(c)) \/ UNCHANGED RPC!vars
<1>1. PICK r \in Replies :
        /\ pending' = pending \ {s}
        /\ reply' = With(reply, s, r)
        /\ UNCHANGED <<state, result, stream>>
  BY DEF Execute, client
<1>2. s \notin DOMAIN reply /\ r.code \in Codes
  BY DEF IInv, StreamsIssued, Replies
<1>3. /\ DOMAIN reply' = DOMAIN reply \cup {s} /\ reply'[s] = r
      /\ \A z \in DOMAIN reply : reply'[z] = reply[z]
  BY <1>1, <1>2 DEF With
<1>4. \A d \in Calls : stream[d] # s =>
        Fate(d)' = Fate(d) /\ AnswerOf(d)' = AnswerOf(d)
  BY <1>1, <1>3 DEF Fate, AnswerOf
<1>5. CASE \A d \in Calls : stream[d] # s
  BY <1>1, <1>4, <1>5 DEF RPC!vars, Outcome
<1>6. CASE \E d \in Calls : stream[d] = s
  <2>1. PICK c \in Calls : stream[c] = s
    BY <1>6
  <2>2. \A d \in Calls : d # c => stream[d] # s
    BY <2>1 DEF IInv, QueuesMatchWaiting, TypeOK, StreamIds, NoStream
  <2>3. Fate(c) = "inflight" /\ Fate(c)' = "executed" /\ AnswerOf(c)' = r.code
    BY <1>1, <1>3, <2>1 DEF Fate, AnswerOf
  <2>4. [d \in Calls |-> Fate(d)]' =
          [[d \in Calls |-> Fate(d)] EXCEPT ![c] = "executed"]
    BY <1>4, <2>2, <2>3
  <2>5. [d \in Calls |-> AnswerOf(d)]' =
          [[d \in Calls |-> AnswerOf(d)] EXCEPT ![c] = r.code]
    BY <1>4, <2>2, <2>3
  <2> QED
    BY <1>1, <1>2, <2>3, <2>4, <2>5 DEF RPC!Execute, Outcome
<1> QED
  BY <1>5, <1>6

LEMMA StepRefines == IInv /\ [Next]_vars => [RPC!Next]_(RPC!vars)
<1> SUFFICES ASSUME IInv, [Next]_vars PROVE RPC!Next \/ UNCHANGED RPC!vars
  BY DEF RPC!vars
<1>1. ASSUME NEW c \in Calls, RequestRefused(c) PROVE RPC!Next
  <2>1. RPC!Refuse(c)
    BY <1>1, FateStable DEF RequestRefused, RPC!Refuse, Outcome, IInv,
       TypeOK
  <2> QED
    BY <2>1 DEF RPC!Next
<1>2. ASSUME NEW c \in Calls, RequestSend(c) PROVE RPC!Next
  BY <1>2, IssueRefines DEF RPC!Next
<1>3. ASSUME NEW c \in Calls, ReadLast(c) PROVE RPC!Next
  BY <1>3, AnswerRefines DEF RPC!Next
<1>4. ASSUME NEW c \in Calls, Timeout(c) \/ Cancel(c) PROVE RPC!Next
  <2>1. RPC!GiveUp(c)
    BY <1>4, FateStable DEF Timeout, Cancel, RPC!GiveUp, Outcome, IInv,
       TypeOK
  <2> QED
    BY <2>1 DEF RPC!Next
<1>5. ASSUME NEW s \in pending, Execute(s)
      PROVE  RPC!Next \/ UNCHANGED RPC!vars
  BY <1>5, ExecuteRefines DEF RPC!Next
<1>6. ASSUME \/ \E c \in Calls : ReadChunk(c)
             \/ \E s \in DOMAIN reply : DeliverChunk(s)
             \/ Close
             \/ LoseLink
             \/ UNCHANGED vars
      PROVE  UNCHANGED RPC!vars
  <2>1. UNCHANGED <<state, result, stream, pending, reply>>
    BY <1>6 DEF ReadChunk, DeliverChunk, Close, LoseLink, vars, client, server
  <2> QED
    BY <2>1, FateStable DEF RPC!vars, Outcome
<1> QED
  BY <1>1, <1>2, <1>3, <1>4, <1>5, <1>6 DEF Next, CallStep

(* request and _execute implement the remote call of Rpc: every behaviour of
   streams, chunks, late replies and lost links is one of calls that are
   executed at most once and answered with their own result. *)
THEOREM StreamsImplementRpc == Spec => RPC!SafeSpec
<1>1. Init => RPC!Init
  BY InitRefines
<1>2. IInv /\ [Next]_vars => [RPC!Next]_(RPC!vars)
  BY StepRefines
<1> QED
  BY <1>1, <1>2, Invariant, PTL DEF Spec, RPC!SafeSpec
=============================================================================
