------------------------- MODULE EventChannelProofs -------------------------
(***************************************************************************)
(* Proofs about EventChannel for any set of consumers, any queue capacity, *)
(* any number of events and any number of parts of an event.               *)
(***************************************************************************)
EXTENDS EventChannel, SequenceTheorems, TLAPS

(* The first n parts of event e, and all of them *)
Prefix(e, n) == [i \in 1 .. n |-> <<e, i>>]
Whole(e) == Prefix(e, parts[e])

(* A buffer holds what has arrived of an event that is not complete. *)
Reassembly == \A e \in Events :
  /\ arrived[e] <= parts[e]
  /\ e \in DOMAIN buffers <=> 0 < arrived[e] /\ arrived[e] < parts[e]
  /\ e \in DOMAIN buffers => buffers[e] = Prefix(e, arrived[e])

(* Every frame that is queued is all of one event. *)
FramesWhole == \A s \in Subscribers : \A i \in 1 .. Len(queue[s]) :
  \E e \in Events : arrived[e] = parts[e] /\ queue[s][i] = Whole(e)

(* An event is missed only by a consumer that was offered more than fits. *)
LossExplained == \A s \in Subscribers :
  /\ Len(queue[s]) <= Len(offered[s])
  /\ dropped[s] # {} => Capacity < Len(offered[s])

IInv == TypeOK /\ Reassembly /\ FramesWhole /\ LossExplained

-----------------------------------------------------------------------------
(* Frames *)

LEMMA FunctionIsSeq ==
  ASSUME NEW S, NEW n \in Nat, NEW f \in [1 .. n -> S]
  PROVE  f \in Seq(S) /\ Len(f) = n
OBVIOUS

LEMMA PrefixType ==
  ASSUME NEW e \in 1 .. MaxEvents, NEW n \in 0 .. MaxParts
  PROVE  Prefix(e, n) \in Seq(Part) /\ Len(Prefix(e, n)) = n
<1>1. n \in Nat /\ Prefix(e, n) \in [1 .. n -> Part]
  BY PartsAssumption DEF Prefix, Part
<1> QED
  BY <1>1, FunctionIsSeq

LEMMA PrefixGrows ==
  ASSUME NEW e \in 1 .. MaxEvents, NEW n \in 0 .. MaxParts - 1
  PROVE  Append(Prefix(e, n), <<e, n + 1>>) = Prefix(e, n + 1)
<1>1. n \in 0 .. MaxParts /\ n + 1 \in 0 .. MaxParts /\ n \in Nat
  BY PartsAssumption
<1>2. /\ Prefix(e, n) \in Seq(Part) /\ Len(Prefix(e, n)) = n
      /\ Prefix(e, n + 1) \in Seq(Part) /\ Len(Prefix(e, n + 1)) = n + 1
  BY <1>1, PrefixType
<1>3. <<e, n + 1>> \in Part
  BY <1>1, PartsAssumption DEF Part
<1>4. /\ Append(Prefix(e, n), <<e, n + 1>>) \in Seq(Part)
      /\ Len(Append(Prefix(e, n), <<e, n + 1>>)) = n + 1
      /\ \A i \in 1 .. n : Append(Prefix(e, n), <<e, n + 1>>)[i] = Prefix(e, n)[i]
      /\ Append(Prefix(e, n), <<e, n + 1>>)[n + 1] = <<e, n + 1>>
  BY <1>2, <1>3, AppendProperties
<1>5. ASSUME NEW i \in 1 .. n + 1
      PROVE  Append(Prefix(e, n), <<e, n + 1>>)[i] = Prefix(e, n + 1)[i]
  <2>1. CASE i = n + 1
    BY <1>4, <2>1 DEF Prefix
  <2>2. CASE i # n + 1
    <3>1. i \in 1 .. n
      BY <1>1, <2>2
    <3> QED
      BY <1>4, <3>1 DEF Prefix
  <2> QED
    BY <2>1, <2>2
<1> QED
  BY <1>2, <1>4, <1>5, SeqEqual

LEMMA EventType ==
  ASSUME TypeOK, NEW e \in Events
  PROVE  /\ e \in 1 .. MaxEvents /\ e >= 1
         /\ parts[e] \in 1 .. MaxParts /\ arrived[e] \in 0 .. MaxParts
<1> DEFINE m == Len(parts)
<1>1. /\ m \in Nat /\ m <= MaxEvents /\ parts \in [1 .. m -> 1 .. MaxParts]
      /\ e \in 1 .. m /\ arrived \in [1 .. m -> 0 .. MaxParts]
  BY LenProperties DEF TypeOK, Events
<1> HIDE DEF m
<1> QED
  BY <1>1, EventsAssumption

(* A whole frame decodes to its event. *)
LEMMA DecodeWhole ==
  ASSUME TypeOK, NEW e \in Events
  PROVE  Decode(Whole(e)) = e /\ e \in 1 .. MaxEvents
<1>1. parts[e] \in 1 .. MaxParts /\ e \in 1 .. MaxEvents
  BY EventType
<1>2. Whole(e)[1][1] = e
  BY <1>1 DEF Whole, Prefix
<1> QED
  BY <1>1, <1>2 DEF Decode, Whole, Prefix

(* What a part that arrives makes of the buffer of its stream *)
LEMMA CollectedPrefix ==
  ASSUME IInv, NEW e \in Events, arrived[e] < parts[e]
  PROVE  /\ Collected(e) = Prefix(e, arrived[e] + 1)
         /\ Collected(e) \in Seq(Part)
<1>1. /\ parts[e] \in 1 .. MaxParts /\ e \in 1 .. MaxEvents
      /\ arrived[e] \in 0 .. MaxParts
  BY EventType DEF IInv
<1>2. arrived[e] \in 0 .. MaxParts - 1 /\ arrived[e] + 1 \in 0 .. MaxParts
  BY <1>1, PartsAssumption
<1>3. Append(Prefix(e, arrived[e]), <<e, arrived[e] + 1>>) = Prefix(e, arrived[e] + 1)
  BY <1>1, <1>2, PrefixGrows
<1>4. (IF e \in DOMAIN buffers THEN buffers[e] ELSE <<>>) = Prefix(e, arrived[e])
  <2>1. CASE e \in DOMAIN buffers
    BY <2>1 DEF IInv, Reassembly
  <2>2. CASE e \notin DOMAIN buffers
    <3>1. arrived[e] = 0
      BY <1>1, <2>2 DEF IInv, Reassembly
    <3>2. Prefix(e, 0) = <<>>
      BY DEF Prefix
    <3> QED
      BY <2>2, <3>1, <3>2
  <2> QED
    BY <2>1, <2>2
<1> QED
  BY <1>1, <1>2, <1>3, <1>4, PrefixType DEF Collected

-----------------------------------------------------------------------------
(* Steps *)

(* A new event adds a stream to those there were. *)
LEMMA EmitFacts ==
  ASSUME IInv, Emit
  PROVE  /\ parts' \in Seq(1 .. MaxParts) /\ Len(parts') = Len(parts) + 1
         /\ arrived' \in [Events' -> 0 .. MaxParts]
         /\ Len(parts) + 1 \in Events' /\ Len(parts) + 1 \notin Events
         /\ parts'[Len(parts) + 1] \in 1 .. MaxParts
         /\ arrived'[Len(parts) + 1] = 0
         /\ \A e \in Events : /\ e \in Events' /\ parts'[e] = parts[e]
                              /\ arrived'[e] = arrived[e] /\ Whole(e)' = Whole(e)
         /\ \A e \in Events' : e \in Events \/ e = Len(parts) + 1
<1> DEFINE m == Len(parts)
<1>1. PICK n \in 1 .. MaxParts : parts' = Append(parts, n)
  BY DEF Emit
<1>2. m \in Nat /\ parts \in Seq(1 .. MaxParts) /\ Events = 1 .. m
  BY DEF IInv, TypeOK, Events
<1>3. /\ parts' \in Seq(1 .. MaxParts) /\ Len(parts') = m + 1
      /\ \A i \in 1 .. m : parts'[i] = parts[i]
      /\ parts'[m + 1] = n
  BY <1>1, <1>2, AppendProperties
<1>4. arrived \in Seq(0 .. MaxParts) /\ Len(arrived) = m
  BY <1>2, FunctionIsSeq DEF IInv, TypeOK
<1>5. 0 \in 0 .. MaxParts
  BY PartsAssumption
<1>6. /\ arrived' \in Seq(0 .. MaxParts) /\ Len(arrived') = m + 1
      /\ \A i \in 1 .. m : arrived'[i] = arrived[i]
      /\ arrived'[m + 1] = 0
  BY <1>4, <1>5, AppendProperties DEF Emit
<1>7. Events' = 1 .. m + 1 /\ arrived' \in [1 .. m + 1 -> 0 .. MaxParts]
  BY <1>3, <1>6, LenProperties DEF Events
<1> HIDE DEF m
<1>8. \A e \in 1 .. m : e \in 1 .. m + 1
  BY <1>2
<1>9. \A e \in 1 .. m + 1 : e \in 1 .. m \/ e = m + 1
  BY <1>2
<1>10. m + 1 \in 1 .. m + 1 /\ m + 1 \notin 1 .. m
  BY <1>2
<1>11. \A e \in Events : Whole(e)' = Whole(e)
  BY <1>2, <1>3 DEF Whole, Prefix
<1> QED
  BY <1>2, <1>3, <1>6, <1>7, <1>8, <1>9, <1>10, <1>11 DEF m

LEMMA EmitInv ==
  ASSUME IInv, Emit
  PROVE  IInv'
<1> DEFINE m == Len(parts)
<1>1. /\ parts' \in Seq(1 .. MaxParts) /\ Len(parts') = m + 1
      /\ arrived' \in [Events' -> 0 .. MaxParts]
      /\ m + 1 \in Events' /\ m + 1 \notin Events
      /\ parts'[m + 1] \in 1 .. MaxParts /\ arrived'[m + 1] = 0
      /\ \A e \in Events : /\ e \in Events' /\ parts'[e] = parts[e]
                           /\ arrived'[e] = arrived[e] /\ Whole(e)' = Whole(e)
      /\ \A e \in Events' : e \in Events \/ e = m + 1
  BY EmitFacts
<1>2. m \in Nat /\ m < MaxEvents /\ m + 1 <= MaxEvents
  BY EventsAssumption, LenProperties DEF Emit, IInv, TypeOK
<1>3. UNCHANGED <<link, reset, buffers, queue, consumer, history>>
  BY DEF Emit
<1> HIDE DEF m
<1>4. TypeOK'
  BY <1>1, <1>2, <1>3 DEF IInv, TypeOK, consumer, history
<1>5. Reassembly'
  <2>1. ASSUME NEW e \in Events
        PROVE  /\ arrived'[e] <= parts'[e]
               /\ e \in DOMAIN buffers' <=> 0 < arrived'[e] /\ arrived'[e] < parts'[e]
               /\ e \in DOMAIN buffers' => buffers'[e] = Prefix(e, arrived'[e])
    BY <1>1, <1>3 DEF IInv, Reassembly
  <2>2. m + 1 \notin DOMAIN buffers' /\ arrived'[m + 1] <= parts'[m + 1]
    BY <1>1, <1>3, PartsAssumption DEF IInv, TypeOK
  <2> QED
    BY <1>1, <2>1, <2>2 DEF Reassembly, Prefix
<1>6. FramesWhole'
  BY <1>1, <1>3 DEF IInv, FramesWhole
<1>7. LossExplained'
  BY <1>3 DEF IInv, LossExplained, history
<1> QED
  BY <1>4, <1>5, <1>6, <1>7 DEF IInv

LEMMA DeliverPartInv ==
  ASSUME IInv, NEW e \in Events, DeliverPart(e)
  PROVE  IInv'
<1>1. /\ parts[e] \in 1 .. MaxParts /\ arrived[e] \in 0 .. MaxParts
      /\ arrived[e] + 1 < parts[e] /\ arrived[e] < parts[e]
  BY EventType DEF DeliverPart, IInv
<1>2. Collected(e) = Prefix(e, arrived[e] + 1) /\ Collected(e) \in Seq(Part)
  BY <1>1, CollectedPrefix
<1>3. /\ UNCHANGED <<link, parts, reset, queue, consumer, history>>
      /\ arrived' = [arrived EXCEPT ![e] = @ + 1]
      /\ arrived' \in [Events -> 0 .. MaxParts] /\ arrived'[e] = arrived[e] + 1
      /\ \A x \in Events \ {e} : arrived'[x] = arrived[x]
      /\ Events' = Events
  <2>1. arrived[e] + 1 \in 0 .. MaxParts
    BY <1>1, PartsAssumption
  <2> QED
    BY <2>1 DEF DeliverPart, IInv, TypeOK, Events
<1>4. /\ DOMAIN buffers' = DOMAIN buffers \cup {e}
      /\ buffers' \in [DOMAIN buffers' -> Seq(Part)]
      /\ buffers'[e] = Collected(e)
      /\ \A x \in DOMAIN buffers \ {e} : buffers'[x] = buffers[x]
  BY <1>2 DEF DeliverPart, IInv, TypeOK
<1>5. TypeOK'
  BY <1>3, <1>4 DEF IInv, TypeOK, consumer, history
<1>6. Reassembly'
  <2> SUFFICES ASSUME NEW x \in Events
               PROVE  /\ arrived'[x] <= parts'[x]
                      /\ x \in DOMAIN buffers' <=>
                           0 < arrived'[x] /\ arrived'[x] < parts'[x]
                      /\ x \in DOMAIN buffers' => buffers'[x] = Prefix(x, arrived'[x])
    BY <1>3 DEF Reassembly, Prefix
  <2>1. CASE x = e
    BY <1>1, <1>2, <1>3, <1>4, <2>1
  <2>2. CASE x # e
    BY <1>3, <1>4, <2>2 DEF IInv, Reassembly
  <2> QED
    BY <2>1, <2>2
<1>7. FramesWhole'
  <2>1. \A x \in Events : arrived[x] = parts[x] => x # e
    BY <1>1
  <2> QED
    BY <1>3, <2>1 DEF IInv, FramesWhole, Whole, Prefix
<1>8. LossExplained'
  BY <1>3 DEF IInv, LossExplained, history
<1> QED
  BY <1>5, <1>6, <1>7, <1>8 DEF IInv

(* What the frame of a complete event does to one consumer *)
LEMMA DispatchFacts ==
  ASSUME IInv, NEW e \in Events, NEW frame \in Seq(Part),
         DispatchEventFrame(e, frame), NEW s \in Subscribers
  PROVE  /\ \/ /\ sub[s] = "on" /\ Len(queue[s]) < Capacity
               /\ queue'[s] = Append(queue[s], frame)
               /\ offered'[s] = Append(offered[s], e) /\ dropped'[s] = dropped[s]
            \/ /\ sub[s] = "on" /\ Len(queue[s]) = Capacity
               /\ queue'[s] = queue[s]
               /\ offered'[s] = Append(offered[s], e)
               /\ dropped'[s] = dropped[s] \cup {e}
            \/ /\ sub[s] # "on"
               /\ queue'[s] = queue[s]
               /\ offered'[s] = offered[s] /\ dropped'[s] = dropped[s]
         /\ queue'[s] \in Seq(Seq(Part)) /\ offered'[s] \in Seq(1 .. MaxEvents)
         /\ dropped'[s] \subseteq 1 .. MaxEvents
         /\ Len(queue'[s]) <= Capacity
         /\ Len(queue'[s]) <= Len(offered'[s])
         /\ dropped'[s] # {} => Capacity < Len(offered'[s])
<1>1. /\ queue[s] \in Seq(Seq(Part)) /\ offered[s] \in Seq(1 .. MaxEvents)
      /\ dropped[s] \subseteq 1 .. MaxEvents /\ e \in 1 .. MaxEvents
      /\ Len(queue[s]) <= Capacity /\ Len(queue[s]) <= Len(offered[s])
      /\ dropped[s] # {} => Capacity < Len(offered[s])
  BY EventType DEF IInv, TypeOK, LossExplained
<1> DEFINE q == Len(queue[s])
<1> DEFINE o == Len(offered[s])
<1>2. /\ q \in Nat /\ o \in Nat /\ Capacity \in Nat
      /\ Append(queue[s], frame) \in Seq(Seq(Part))
      /\ Len(Append(queue[s], frame)) = q + 1
      /\ Append(offered[s], e) \in Seq(1 .. MaxEvents)
      /\ Len(Append(offered[s], e)) = o + 1
  BY <1>1, CapacityAssumption, LenProperties, AppendProperties
<1>3. CASE sub[s] = "on" /\ q # Capacity
  <2>1. /\ queue'[s] = Append(queue[s], frame)
        /\ offered'[s] = Append(offered[s], e) /\ dropped'[s] = dropped[s]
    BY <1>3 DEF DispatchEventFrame
  <2> HIDE DEF q, o
  <2>2. q < Capacity /\ q + 1 <= Capacity /\ q + 1 <= o + 1
    BY <1>1, <1>2, <1>3 DEF q, o
  <2>3. dropped[s] # {} => Capacity < o + 1
    BY <1>1, <1>2 DEF o
  <2> QED
    BY <1>1, <1>2, <1>3, <2>1, <2>2, <2>3 DEF q
<1>4. CASE sub[s] = "on" /\ q = Capacity
  <2>1. /\ queue'[s] = queue[s] /\ offered'[s] = Append(offered[s], e)
        /\ dropped'[s] = dropped[s] \cup {e}
    BY <1>4 DEF DispatchEventFrame
  <2> HIDE DEF o
  <2>2. q <= o + 1 /\ Capacity < o + 1
    BY <1>1, <1>2, <1>4 DEF o
  <2> QED
    BY <1>1, <1>2, <1>4, <2>1, <2>2
<1>5. CASE sub[s] # "on"
  <2>1. /\ queue'[s] = queue[s] /\ offered'[s] = offered[s]
        /\ dropped'[s] = dropped[s]
    BY <1>5 DEF DispatchEventFrame
  <2> QED
    BY <1>1, <1>5, <2>1
<1> QED
  BY <1>3, <1>4, <1>5

(* The last part makes the frame whole, and ends the buffer. *)
LEMMA LastFacts ==
  ASSUME IInv, NEW e \in Events, DeliverLast(e)
  PROVE  /\ Collected(e) = Whole(e) /\ Collected(e) \in Seq(Part)
         /\ DispatchEventFrame(e, Collected(e))
         /\ UNCHANGED <<link, parts, reset, sub, yielded>> /\ Events' = Events
         /\ arrived' \in [Events -> 0 .. MaxParts]
         /\ arrived[e] # parts[e] /\ arrived'[e] = parts[e]
         /\ \A x \in Events \ {e} : arrived'[x] = arrived[x]
<1>1. /\ parts[e] \in 1 .. MaxParts /\ arrived[e] \in 0 .. MaxParts
      /\ arrived[e] + 1 = parts[e] /\ arrived[e] < parts[e]
  BY EventType DEF DeliverLast, IInv
<1>2. Collected(e) = Whole(e) /\ Collected(e) \in Seq(Part)
  BY <1>1, CollectedPrefix DEF Whole
<1>3. arrived[e] + 1 \in 0 .. MaxParts
  BY <1>1, PartsAssumption
<1> QED
  BY <1>1, <1>2, <1>3 DEF DeliverLast, IInv, TypeOK, Events, consumer

LEMMA DeliverLastInv ==
  ASSUME IInv, NEW e \in Events, DeliverLast(e)
  PROVE  IInv'
<1>1. /\ Collected(e) = Whole(e) /\ Collected(e) \in Seq(Part)
      /\ DispatchEventFrame(e, Collected(e))
      /\ UNCHANGED <<link, parts, reset, sub, yielded>> /\ Events' = Events
      /\ arrived' \in [Events -> 0 .. MaxParts]
      /\ arrived[e] # parts[e] /\ arrived'[e] = parts[e]
      /\ \A x \in Events \ {e} : arrived'[x] = arrived[x]
  BY LastFacts
<1>2. /\ DOMAIN buffers' = DOMAIN buffers \ {e}
      /\ \A x \in DOMAIN buffers' : buffers'[x] = buffers[x]
      /\ buffers' \in [DOMAIN buffers' -> Seq(Part)]
  BY DEF DeliverLast, Restrict, IInv, TypeOK
<1>3. \A s \in Subscribers :
        /\ queue'[s] \in Seq(Seq(Part)) /\ offered'[s] \in Seq(1 .. MaxEvents)
        /\ dropped'[s] \subseteq 1 .. MaxEvents
        /\ Len(queue'[s]) <= Capacity
        /\ Len(queue'[s]) <= Len(offered'[s])
        /\ dropped'[s] # {} => Capacity < Len(offered'[s])
  BY <1>1, DispatchFacts
<1>4. TypeOK'
  <2>1. /\ queue' \in [Subscribers -> Seq(Seq(Part))]
        /\ offered' \in [Subscribers -> Seq(1 .. MaxEvents)]
        /\ dropped' \in [Subscribers -> SUBSET (1 .. MaxEvents)]
    BY <1>1, <1>3 DEF DispatchEventFrame
  <2> QED
    BY <1>1, <1>2, <1>3, <2>1 DEF IInv, TypeOK
<1>5. Reassembly'
  <2> SUFFICES ASSUME NEW x \in Events
               PROVE  /\ arrived'[x] <= parts'[x]
                      /\ x \in DOMAIN buffers' <=>
                           0 < arrived'[x] /\ arrived'[x] < parts'[x]
                      /\ x \in DOMAIN buffers' => buffers'[x] = Prefix(x, arrived'[x])
    BY <1>1 DEF Reassembly, Prefix
  <2>1. CASE x = e
    <3>1. parts[e] \in 1 .. MaxParts
      BY EventType DEF IInv
    <3> QED
      BY <1>1, <1>2, <2>1, <3>1
  <2>2. CASE x # e
    BY <1>1, <1>2, <2>2 DEF IInv, Reassembly
  <2> QED
    BY <2>1, <2>2
<1>6. FramesWhole'
  <2> SUFFICES ASSUME NEW s \in Subscribers, NEW i \in 1 .. Len(queue'[s])
               PROVE  \E x \in Events : /\ arrived'[x] = parts[x]
                                        /\ queue'[s][i] = Whole(x)
    BY <1>1 DEF FramesWhole, Whole, Prefix
  <2>1. queue[s] \in Seq(Seq(Part))
    BY DEF IInv, TypeOK
  <2>2. ASSUME NEW j \in 1 .. Len(queue[s])
        PROVE  \E x \in Events : /\ arrived'[x] = parts[x]
                                 /\ queue[s][j] = Whole(x)
    BY <1>1, <2>2 DEF IInv, FramesWhole
  <2>3. CASE queue'[s] = queue[s]
    BY <2>2, <2>3
  <2>4. CASE queue'[s] = Append(queue[s], Collected(e))
    <3>1. /\ Len(queue[s]) \in Nat /\ Len(queue'[s]) = Len(queue[s]) + 1
          /\ \A j \in 1 .. Len(queue[s]) : queue'[s][j] = queue[s][j]
          /\ queue'[s][Len(queue[s]) + 1] = Whole(e)
      BY <1>1, <2>1, <2>4, AppendProperties
    <3>2. i \in 1 .. Len(queue[s]) \/ i = Len(queue[s]) + 1
      BY <3>1
    <3> QED
      BY <1>1, <2>2, <3>1, <3>2
  <2> QED
    BY <1>1, <2>3, <2>4, DispatchFacts
<1>7. LossExplained'
  BY <1>3 DEF LossExplained
<1> QED
  BY <1>4, <1>5, <1>6, <1>7 DEF IInv

(* The head of a queue is a whole event, and taking it leaves the others. *)
LEMMA TakeFacts ==
  ASSUME IInv, NEW s \in Subscribers, TakeEvent(s)
  PROVE  /\ queue[s] # <<>> /\ queue[s] \in Seq(Seq(Part))
         /\ Tail(queue[s]) \in Seq(Seq(Part))
         /\ Len(Tail(queue[s])) = Len(queue[s]) - 1 /\ Len(queue[s]) \in Nat
         /\ \A i \in 1 .. Len(Tail(queue[s])) :
              i + 1 \in 1 .. Len(queue[s]) /\ Tail(queue[s])[i] = queue[s][i + 1]
         /\ Decode(Head(queue[s])) \in Events
         /\ Decode(Head(queue[s])) \in 1 .. MaxEvents
         /\ UNCHANGED <<link, parts, arrived, reset, buffers, sub, history>>
         /\ queue' = [queue EXCEPT ![s] = Tail(queue[s])]
<1>1. queue[s] # <<>> /\ queue[s] \in Seq(Seq(Part))
  BY DEF TakeEvent, IInv, TypeOK
<1>2. /\ Len(queue[s]) \in Nat /\ Len(queue[s]) >= 1
      /\ Tail(queue[s]) \in Seq(Seq(Part))
      /\ Len(Tail(queue[s])) = Len(queue[s]) - 1
      /\ Head(queue[s]) = queue[s][1]
      /\ \A i \in 1 .. Len(Tail(queue[s])) : Tail(queue[s])[i] = queue[s][i + 1]
  BY <1>1, EmptySeq, HeadTailProperties
<1>3. PICK e \in Events : queue[s][1] = Whole(e)
  BY <1>2 DEF IInv, FramesWhole
<1>4. Decode(Head(queue[s])) = e /\ e \in 1 .. MaxEvents
  BY <1>2, <1>3, DecodeWhole DEF IInv
<1>5. \A i \in 1 .. Len(Tail(queue[s])) : i + 1 \in 1 .. Len(queue[s])
  BY <1>2
<1> QED
  BY <1>1, <1>2, <1>4, <1>5 DEF TakeEvent

LEMMA TakeInv ==
  ASSUME IInv, NEW s \in Subscribers, TakeEvent(s)
  PROVE  IInv'
<1> DEFINE q == Tail(queue[s])
<1>1. /\ q \in Seq(Seq(Part)) /\ Len(q) = Len(queue[s]) - 1
      /\ Len(queue[s]) \in Nat
      /\ \A i \in 1 .. Len(q) : i + 1 \in 1 .. Len(queue[s]) /\ q[i] = queue[s][i + 1]
      /\ Decode(Head(queue[s])) \in 1 .. MaxEvents
      /\ UNCHANGED <<link, parts, arrived, reset, buffers, sub, history>>
      /\ queue' = [queue EXCEPT ![s] = q]
  BY TakeFacts
<1>2. /\ queue' \in [Subscribers -> Seq(Seq(Part))] /\ queue'[s] = q
      /\ \A r \in Subscribers \ {s} : queue'[r] = queue[r]
      /\ Len(queue[s]) <= Capacity /\ Len(queue[s]) <= Len(offered[s])
      /\ Len(offered[s]) \in Nat
  BY <1>1 DEF IInv, TypeOK, LossExplained
<1>3. Len(q) <= Capacity /\ Len(q) <= Len(offered[s])
  BY <1>1, <1>2, CapacityAssumption
<1> HIDE DEF q
<1>4. TypeOK'
  <2>1. \A r \in Subscribers : Len(queue'[r]) <= Capacity
    BY <1>2, <1>3 DEF IInv, TypeOK
  <2>2. yielded' \in [Subscribers -> Seq(1 .. MaxEvents)]
    BY <1>1 DEF TakeEvent, IInv, TypeOK
  <2>3. Events' = Events
    BY <1>1 DEF Events
  <2> QED
    BY <1>1, <1>2, <2>1, <2>2, <2>3 DEF IInv, TypeOK, history
<1>5. Reassembly'
  BY <1>1 DEF IInv, Reassembly, Events, Prefix
<1>6. FramesWhole'
  <2>1. Events' = Events /\ \A x \in Events : Whole(x)' = Whole(x)
    BY <1>1 DEF Events, Whole, Prefix
  <2>2. ASSUME NEW r \in Subscribers, NEW j \in 1 .. Len(queue[r])
        PROVE  \E x \in Events : arrived[x] = parts[x] /\ queue[r][j] = Whole(x)
    BY DEF IInv, FramesWhole
  <2>3. ASSUME NEW r \in Subscribers, NEW i \in 1 .. Len(queue'[r])
        PROVE  \E x \in Events : arrived[x] = parts[x] /\ queue'[r][i] = Whole(x)
    <3>1. CASE r = s
      <4>1. i + 1 \in 1 .. Len(queue[s]) /\ queue'[r][i] = queue[s][i + 1]
        BY <1>1, <1>2, <2>3, <3>1
      <4> QED
        BY <2>2, <4>1
    <3>2. CASE r # s
      BY <1>2, <2>2, <2>3, <3>2
    <3> QED
      BY <3>1, <3>2
  <2> SUFFICES ASSUME NEW r \in Subscribers, NEW i \in 1 .. Len(queue'[r])
               PROVE  \E x \in Events' : /\ arrived'[x] = parts'[x]
                                         /\ queue'[r][i] = Whole(x)'
    BY DEF FramesWhole
  <2>4. PICK x \in Events : arrived[x] = parts[x] /\ queue'[r][i] = Whole(x)
    BY <2>3
  <2> QED
    BY <1>1, <2>1, <2>4
<1>7. LossExplained'
  BY <1>1, <1>2, <1>3 DEF IInv, LossExplained, history
<1> QED
  BY <1>4, <1>5, <1>6, <1>7 DEF IInv

(* A reset, a lost link and a consumer that comes or goes touch no frame. *)
LEMMA OtherStepsInv ==
  ASSUME IInv,
         \/ \E e \in Events : ResetStream(e)
         \/ LoseLink
         \/ \E s \in Subscribers : Subscribe(s) \/ Unsubscribe(s)
         \/ UNCHANGED vars
  PROVE  IInv'
<1>1. /\ UNCHANGED <<parts, arrived, buffers, queue, yielded, history>>
      /\ link' \in BOOLEAN /\ reset' \subseteq Events
      /\ sub' \in [Subscribers -> {"new", "on", "off"}]
  BY DEF ResetStream, LoseLink, Subscribe, Unsubscribe, vars, consumer, history,
     IInv, TypeOK
<1>2. Events' = Events
  BY <1>1 DEF Events
<1>3. TypeOK'
  BY <1>1, <1>2 DEF IInv, TypeOK, history
<1>4. Reassembly' /\ LossExplained'
  BY <1>1, <1>2 DEF IInv, Reassembly, Prefix, LossExplained, history
<1>5. FramesWhole'
  <2>1. \A x \in Events : Whole(x)' = Whole(x)
    BY <1>1 DEF Whole, Prefix
  <2> QED
    BY <1>1, <1>2, <2>1 DEF IInv, FramesWhole
<1> QED
  BY <1>3, <1>4, <1>5 DEF IInv

LEMMA InitInv == Init => IInv
<1> SUFFICES ASSUME Init PROVE IInv
  OBVIOUS
<1>1. Len(parts) = 0 /\ Events = {} /\ DOMAIN buffers = {} /\ DOMAIN arrived = {}
  BY DEF Init, Events
<1>2. TypeOK
  <2>1. \A s \in Subscribers : queue[s] = <<>> /\ Len(queue[s]) <= Capacity
    BY CapacityAssumption DEF Init
  <2> QED
    BY <1>1, <2>1, EventsAssumption DEF Init, TypeOK
<1>3. Reassembly /\ FramesWhole /\ LossExplained
  BY <1>1 DEF Init, Reassembly, FramesWhole, LossExplained
<1> QED
  BY <1>2, <1>3 DEF IInv

LEMMA StepInv == IInv /\ [Next]_vars => IInv'
<1> SUFFICES ASSUME IInv, [Next]_vars PROVE IInv'
  OBVIOUS
<1>1. CASE Emit
  BY <1>1, EmitInv
<1>2. ASSUME NEW e \in Events, DeliverPart(e) PROVE IInv'
  BY <1>2, DeliverPartInv
<1>3. ASSUME NEW e \in Events, DeliverLast(e) PROVE IInv'
  BY <1>3, DeliverLastInv
<1>4. ASSUME NEW s \in Subscribers, TakeEvent(s) PROVE IInv'
  BY <1>4, TakeInv
<1>5. CASE \/ \E e \in Events : ResetStream(e)
           \/ LoseLink
           \/ \E s \in Subscribers : Subscribe(s) \/ Unsubscribe(s)
           \/ UNCHANGED vars
  BY <1>5, OtherStepsInv
<1> QED
  BY <1>1, <1>2, <1>3, <1>4, <1>5 DEF Next

LEMMA Invariant == Spec => []IInv
<1>1. Init => IInv
  BY InitInv
<1>2. IInv /\ [Next]_vars => IInv'
  BY StepInv
<1> QED
  BY <1>1, <1>2, PTL DEF Spec

(* Every variable of the event channel keeps its type; no queue grows beyond its
   capacity, and what is yielded and dropped are events. *)
THEOREM TypeCorrect == Spec => []TypeOK
<1>1. IInv => TypeOK
  BY DEF IInv
<1> QED
  BY <1>1, Invariant, PTL

(* A consumer that was offered no more events than its queue holds misses none,
   however slow it is. *)
THEOREM NoneLostWithinCapacity == Spec => []NoLossWithinCapacity
<1>1. IInv => NoLossWithinCapacity
  <2> SUFFICES ASSUME IInv, NEW s \in Subscribers, Len(offered[s]) <= Capacity
               PROVE  dropped[s] = {}
    BY DEF NoLossWithinCapacity
  <2>1. Len(offered[s]) \in Nat /\ Capacity \in Nat
    BY CapacityAssumption, LenProperties DEF IInv, TypeOK
  <2> QED
    BY <2>1 DEF IInv, LossExplained
<1> QED
  BY <1>1, Invariant, PTL

-----------------------------------------------------------------------------
(* The refinement *)

(* The events of the frames of q *)
Decoded(q) == [i \in 1 .. Len(q) |-> Decode(q[i])]

LEMMA DecodedAppend ==
  ASSUME NEW q \in Seq(Seq(Part)), NEW frame \in Seq(Part),
         NEW S, \A i \in 1 .. Len(q) : Decode(q[i]) \in S, Decode(frame) \in S
  PROVE  Decoded(Append(q, frame)) = Append(Decoded(q), Decode(frame))
<1> DEFINE m == Len(q)
<1>1. /\ m \in Nat /\ Len(Append(q, frame)) = m + 1
      /\ \A i \in 1 .. m : Append(q, frame)[i] = q[i]
      /\ Append(q, frame)[m + 1] = frame
  BY AppendProperties
<1> HIDE DEF m
<1>2. Decoded(q) \in Seq(S) /\ Len(Decoded(q)) = m
  <2>1. Decoded(q) \in [1 .. m -> S]
    BY DEF Decoded, m
  <2> QED
    BY <1>1, <2>1, FunctionIsSeq
<1>3. /\ Append(Decoded(q), Decode(frame)) \in Seq(S)
      /\ Len(Append(Decoded(q), Decode(frame))) = m + 1
      /\ \A i \in 1 .. m : Append(Decoded(q), Decode(frame))[i] = Decoded(q)[i]
      /\ Append(Decoded(q), Decode(frame))[m + 1] = Decode(frame)
  BY <1>2, AppendProperties
<1>4. \A i \in 1 .. m + 1 : i \in 1 .. m \/ i = m + 1
  BY <1>1
<1>5. ASSUME NEW i \in 1 .. m + 1
      PROVE  Decode(Append(q, frame)[i]) = Append(Decoded(q), Decode(frame))[i]
  <2>1. CASE i \in 1 .. m
    BY <1>1, <1>3, <2>1 DEF Decoded, m
  <2>2. CASE i = m + 1
    BY <1>1, <1>3, <2>2
  <2> QED
    BY <1>4, <2>1, <2>2
<1>6. /\ Decoded(Append(q, frame)) \in [1 .. m + 1 -> S]
      /\ \A i \in 1 .. m + 1 :
           Decoded(Append(q, frame))[i] = Decode(Append(q, frame)[i])
  BY <1>1, <1>3, <1>5, ElementOfSeq DEF Decoded
<1>7. Decoded(Append(q, frame)) \in Seq(S) /\ Len(Decoded(Append(q, frame))) = m + 1
  BY <1>1, <1>6, FunctionIsSeq
<1> QED
  BY <1>3, <1>5, <1>6, <1>7, SeqEqual

LEMMA DecodedTail ==
  ASSUME NEW q \in Seq(Seq(Part)), q # <<>>,
         NEW S, \A i \in 1 .. Len(q) : Decode(q[i]) \in S
  PROVE  /\ Decoded(q) # <<>>
         /\ Head(Decoded(q)) = Decode(Head(q))
         /\ Tail(Decoded(q)) = Decoded(Tail(q))
<1> DEFINE m == Len(q)
<1>1. /\ m \in Nat /\ m >= 1 /\ Len(Tail(q)) = m - 1 /\ Head(q) = q[1]
      /\ \A i \in 1 .. m - 1 : Tail(q)[i] = q[i + 1]
  BY EmptySeq, HeadTailProperties
<1>2. Decoded(q) \in [1 .. m -> S]
  BY DEF Decoded
<1> HIDE DEF m
<1>3. Decoded(q) \in Seq(S) /\ Len(Decoded(q)) = m
  BY <1>1, <1>2, FunctionIsSeq
<1>4. Decoded(q) # <<>>
  BY <1>1, <1>3
<1>5. /\ Head(Decoded(q)) = Decoded(q)[1]
      /\ Tail(Decoded(q)) \in Seq(S) /\ Len(Tail(Decoded(q))) = m - 1
      /\ \A i \in 1 .. m - 1 : Tail(Decoded(q))[i] = Decoded(q)[i + 1]
  BY <1>3, <1>4, HeadTailProperties
<1>6. \A i \in 1 .. m - 1 : i + 1 \in 1 .. m
  BY <1>1
<1>7. Decoded(Tail(q)) \in [1 .. m - 1 -> S] /\ m - 1 \in Nat
  BY <1>1, <1>6 DEF Decoded, m
<1>8. Decoded(Tail(q)) \in Seq(S) /\ Len(Decoded(Tail(q))) = m - 1
  BY <1>7, FunctionIsSeq
<1>9. \A i \in 1 .. m - 1 : Tail(Decoded(q))[i] = Decoded(Tail(q))[i]
  BY <1>1, <1>5, <1>6 DEF Decoded, m
<1>10. 1 \in 1 .. m
  BY <1>1
<1>11. Head(Decoded(q)) = Decode(Head(q))
  BY <1>1, <1>5, <1>10 DEF Decoded, m
<1> QED
  BY <1>4, <1>5, <1>8, <1>9, <1>11, SeqEqual

LEMMA DecodesToEvents ==
  ASSUME IInv, NEW s \in Subscribers
  PROVE  \A i \in 1 .. Len(queue[s]) : Decode(queue[s][i]) \in Events
<1>1. ASSUME NEW i \in 1 .. Len(queue[s]) PROVE Decode(queue[s][i]) \in Events
  <2>1. PICK e \in Events : queue[s][i] = Whole(e)
    BY DEF IInv, FramesWhole
  <2> QED
    BY <2>1, DecodeWhole DEF IInv
<1> QED
  BY <1>1

(* A new event changes nothing of what is queued. *)
LEMMA EmitDecodes ==
  ASSUME IInv, Emit, NEW s \in Subscribers, NEW i \in 1 .. Len(queue[s])
  PROVE  Decode(queue[s][i])' = Decode(queue[s][i])
<1>1. /\ \A e \in Events : e \in Events' /\ parts'[e] = parts[e] /\ Whole(e)' = Whole(e)
      /\ queue' = queue
  BY EmitFacts DEF Emit
<1>2. PICK e \in Events : queue[s][i] = Whole(e)
  BY DEF IInv, FramesWhole
<1>3. Decode(Whole(e)) = e
  BY DecodeWhole DEF IInv
<1>4. /\ parts'[e] \in 1 .. MaxParts /\ e \in Events'
      /\ Whole(e)' = Whole(e) /\ Whole(e) = [j \in 1 .. parts'[e] |-> <<e, j>>]
  BY <1>1, EventType DEF IInv, Whole, Prefix
<1>5. Whole(e)[1][1] = e
  BY <1>4
<1>6. Decode(Whole(e))' = e
  BY <1>4, <1>5 DEF Decode
<1>7. queue'[s][i] = Whole(e)'
  BY <1>1, <1>2, <1>4
<1>8. Decode(queue[s][i])' = Decode(Whole(e))'
  BY <1>7 DEF Decode
<1> QED
  BY <1>2, <1>3, <1>6, <1>8

(* A new event changes nothing that is decoded. *)
LEMMA EmitRefines ==
  ASSUME IInv, Emit
  PROVE  UNCHANGED FEED!vars
<1> DEFINE m == Len(parts)
<1>1. /\ m + 1 \notin Events
      /\ parts'[m + 1] \in 1 .. MaxParts /\ arrived'[m + 1] = 0
      /\ \A e \in Events : /\ e \in Events' /\ parts'[e] = parts[e]
                           /\ arrived'[e] = arrived[e] /\ Whole(e)' = Whole(e)
      /\ \A e \in Events' : e \in Events \/ e = m + 1
      /\ UNCHANGED <<queue, sub, yielded>>
  BY EmitFacts DEF Emit, consumer
<1> HIDE DEF m
<1>2. {e \in Events : arrived[e] = parts[e]}' = {e \in Events : arrived[e] = parts[e]}
  BY <1>1
<1>3. ASSUME NEW s \in Subscribers, NEW i \in 1 .. Len(queue[s])
      PROVE  Decode(queue[s][i])' = Decode(queue[s][i])
  BY EmitDecodes
<1>4. [s \in Subscribers |-> [i \in 1 .. Len(queue[s]) |-> Decode(queue[s][i])]]'
      = [s \in Subscribers |-> [i \in 1 .. Len(queue[s]) |-> Decode(queue[s][i])]]
  BY <1>1, <1>3
<1> QED
  BY <1>1, <1>2, <1>4 DEF FEED!vars

(* The refinement mapping of the queues; while no event is added, frames decode
   to the same event. *)
Backlog == [s \in Subscribers |-> Decoded(queue[s])]

LEMMA BacklogMapped ==
  ASSUME parts' = parts
  PROVE  Backlog' = [s \in Subscribers |-> Decoded(queue'[s])]
  BY DEF Backlog, Decoded, Decode, Events

(* The last part of an event publishes it. *)
LEMMA LastRefines ==
  ASSUME IInv, NEW e \in Events, DeliverLast(e)
  PROVE  FEED!Publish(e)
<1>1. /\ Collected(e) = Whole(e) /\ Collected(e) \in Seq(Part)
      /\ DispatchEventFrame(e, Collected(e))
      /\ UNCHANGED <<link, parts, reset, sub, yielded>> /\ Events' = Events
      /\ arrived[e] # parts[e] /\ arrived'[e] = parts[e]
      /\ \A x \in Events \ {e} : arrived'[x] = arrived[x]
  BY LastFacts
<1>2. {x \in Events : arrived[x] = parts[x]}'
      = {x \in Events : arrived[x] = parts[x]} \cup {e}
  BY <1>1
<1>3. /\ Backlog' = [s \in Subscribers |-> Decoded(queue'[s])]
      /\ Backlog = [s \in Subscribers |-> Decoded(queue[s])]
  BY <1>1, BacklogMapped DEF Backlog
<1>4. ASSUME NEW s \in Subscribers
      PROVE  IF sub[s] = "on" THEN Backlog'[s] \in FEED!Offered(Backlog[s], e)
                              ELSE Backlog'[s] = Backlog[s]
  <2>1. queue[s] \in Seq(Seq(Part)) /\ Backlog[s] = Decoded(queue[s])
    BY <1>3 DEF IInv, TypeOK
  <2>2. Backlog'[s] = Decoded(queue'[s])
    BY <1>3
  <2>3. Len(Backlog[s]) = Len(queue[s])
    <3>1. Decoded(queue[s]) \in [1 .. Len(queue[s]) -> Events]
      BY DecodesToEvents DEF Decoded
    <3> QED
      BY <2>1, <3>1, FunctionIsSeq
  <2>4. CASE queue'[s] = Append(queue[s], Collected(e)) /\ Len(queue[s]) < Capacity
             /\ sub[s] = "on"
    <3>1. Decoded(queue'[s]) = Append(Decoded(queue[s]), e)
      BY <1>1, <2>1, <2>4, DecodesToEvents, DecodedAppend, DecodeWhole DEF IInv
    <3> QED
      BY <2>1, <2>2, <2>3, <2>4, <3>1 DEF FEED!Offered
  <2>5. CASE queue'[s] = queue[s] /\ Len(queue[s]) = Capacity /\ sub[s] = "on"
    BY <2>1, <2>2, <2>3, <2>5, CapacityAssumption DEF FEED!Offered
  <2>6. CASE queue'[s] = queue[s] /\ sub[s] # "on"
    BY <2>1, <2>2, <2>6
  <2> QED
    BY <1>1, <2>4, <2>5, <2>6, DispatchFacts
<1> QED
  BY <1>1, <1>2, <1>3, <1>4 DEF FEED!Publish, Backlog, Decoded

(* A turn of the loop of events hands out the head of the backlog or skips it. *)
LEMMA TakeRefines ==
  ASSUME IInv, NEW s \in Subscribers, TakeEvent(s)
  PROVE  FEED!Take(s)
<1>1. /\ queue[s] # <<>> /\ queue[s] \in Seq(Seq(Part))
      /\ UNCHANGED <<link, parts, arrived, reset, buffers, sub, history>>
      /\ queue' = [queue EXCEPT ![s] = Tail(queue[s])]
      /\ Decode(Head(queue[s])) \in 1 .. MaxEvents
  BY TakeFacts
<1>2. /\ Backlog' = [r \in Subscribers |-> Decoded(queue'[r])]
      /\ Backlog = [r \in Subscribers |-> Decoded(queue[r])]
  BY <1>1, BacklogMapped DEF Backlog
<1>3. /\ Decoded(queue[s]) # <<>>
      /\ Head(Decoded(queue[s])) = Decode(Head(queue[s]))
      /\ Tail(Decoded(queue[s])) = Decoded(Tail(queue[s]))
  BY <1>1, DecodesToEvents, DecodedTail
<1>4. Backlog' = [Backlog EXCEPT ![s] = Tail(@)]
  BY <1>1, <1>2, <1>3 DEF IInv, TypeOK
<1>5. Parses(Head(queue[s])) <=> Head(Backlog[s]) \notin Unreadable
  BY <1>1, <1>2, <1>3 DEF Parses, Garbled
<1>6. yielded' = IF Head(Backlog[s]) \in Unreadable
                 THEN yielded
                 ELSE [yielded EXCEPT ![s] = Append(@, Head(Backlog[s]))]
  BY <1>2, <1>3, <1>5 DEF TakeEvent
<1>7. s \in {r \in Subscribers : sub[r] = "on"} /\ Backlog[s] # <<>>
  BY <1>2, <1>3 DEF TakeEvent
<1>8. /\ {e \in Events : arrived[e] = parts[e]}' = {e \in Events : arrived[e] = parts[e]}
      /\ sub' = sub
  BY <1>1 DEF Events
<1> QED
  BY <1>4, <1>6, <1>7, <1>8 DEF FEED!Take, Backlog, Decoded

LEMMA StepRefines == IInv /\ [Next]_vars => [FEED!Next]_(FEED!vars)
<1> SUFFICES ASSUME IInv, [Next]_vars
             PROVE  FEED!Next \/ UNCHANGED FEED!vars
  BY DEF FEED!vars
<1>1. CASE Emit
  BY <1>1, EmitRefines
<1>2. ASSUME NEW e \in Events, DeliverLast(e) PROVE FEED!Next
  <2>1. e \in 1 .. MaxEvents
    BY EventType DEF IInv
  <2> QED
    BY <1>2, <2>1, LastRefines DEF FEED!Next
<1>3. ASSUME NEW s \in Subscribers, TakeEvent(s) PROVE FEED!Next
  BY <1>3, TakeRefines DEF FEED!Next
<1>4. ASSUME NEW s \in Subscribers, Subscribe(s) \/ Unsubscribe(s)
      PROVE  FEED!Next
  <2>1. UNCHANGED <<parts, arrived, queue, yielded>>
    BY <1>4 DEF Subscribe, Unsubscribe
  <2>2. /\ Backlog' = Backlog
        /\ {e \in Events : arrived[e] = parts[e]}' = {e \in Events : arrived[e] = parts[e]}
    BY <2>1, BacklogMapped DEF Backlog, Events
  <2>3. FEED!Join(s) \/ FEED!Quit(s)
    BY <1>4, <2>1, <2>2 DEF Subscribe, Unsubscribe, FEED!Join, FEED!Quit, Backlog,
       Decoded, IInv, TypeOK
  <2> QED
    BY <2>3 DEF FEED!Next
<1>5. ASSUME \/ \E e \in Events : DeliverPart(e) \/ ResetStream(e)
             \/ LoseLink
             \/ UNCHANGED vars
      PROVE  UNCHANGED FEED!vars
  <2>1. UNCHANGED <<parts, queue, sub, yielded>>
    BY <1>5 DEF DeliverPart, ResetStream, LoseLink, vars, consumer
  <2>2. Events' = Events /\ Backlog' = Backlog
    BY <2>1, BacklogMapped DEF Events, Backlog
  <2>3. {e \in Events : arrived[e] = parts[e]}' = {e \in Events : arrived[e] = parts[e]}
    <3>1. CASE arrived' = arrived
      BY <2>1, <2>2, <3>1
    <3>2. ASSUME NEW e \in Events, DeliverPart(e)
          PROVE  /\ \A x \in Events \ {e} : arrived'[x] = arrived[x]
                 /\ arrived'[e] < parts[e] /\ arrived[e] < parts[e]
      BY <3>2, EventType DEF DeliverPart, IInv, TypeOK
    <3>3. ASSUME NEW e \in Events, DeliverPart(e)
          PROVE  \A x \in Events : arrived'[x] = parts[x] <=> arrived[x] = parts[x]
      BY <3>2, <3>3, EventType DEF IInv, DeliverPart, TypeOK
    <3> QED
      BY <1>5, <2>1, <2>2, <3>1, <3>3 DEF ResetStream, LoseLink, vars
  <2> QED
    BY <2>1, <2>2, <2>3 DEF FEED!vars, Backlog, Decoded
<1> QED
  BY <1>1, <1>2, <1>3, <1>4, <1>5 DEF Next

(* The event channel implements Feed: a consumer gets events that arrived whole
   while it was subscribed, each once, in the order in which they were complete,
   and a full queue costs it the newest. *)
THEOREM EventsImplementFeed == Spec => FEED!SafeSpec
<1>1. Init => FEED!Init
  <2> SUFFICES ASSUME Init PROVE FEED!Init
    OBVIOUS
  <2>1. Events = {} /\ \A s \in Subscribers : queue[s] = <<>> /\ Len(queue[s]) = 0
    BY DEF Init, Events
  <2>2. \A s \in Subscribers : Decoded(queue[s]) = <<>>
    BY <2>1 DEF Decoded
  <2> QED
    BY <2>1, <2>2 DEF Init, FEED!Init, Decoded
<1>2. IInv /\ [Next]_vars => [FEED!Next]_(FEED!vars)
  BY StepRefines
<1> QED
  BY <1>1, <1>2, Invariant, PTL DEF Spec, FEED!SafeSpec

-----------------------------------------------------------------------------
(* Order *)

LEMMA ConcatFacts ==
  ASSUME NEW S, NEW u \in Seq(S), NEW v \in Seq(S)
  PROVE  /\ u \o v \in Seq(S)
         /\ Range(u \o v) = Range(u) \cup Range(v)
         /\ \A a, b : Precedes(u \o v, a, b)
                      <=> \/ Precedes(u, a, b)
                          \/ Precedes(v, a, b)
                          \/ a \in Range(u) /\ b \in Range(v)
<1> DEFINE m == Len(u)
<1> DEFINE n == Len(v)
<1> DEFINE w == u \o v
<1>1. /\ m \in Nat /\ n \in Nat /\ w \in Seq(S) /\ Len(w) = m + n
      /\ \A i \in 1 .. m + n : w[i] = IF i <= m THEN u[i] ELSE v[i - m]
      /\ DOMAIN u = 1 .. m /\ DOMAIN v = 1 .. n /\ DOMAIN w = 1 .. Len(w)
  BY LenProperties, ConcatProperties
<1> HIDE DEF m, n, w
<1>2. \A i \in 1 .. m : i \in 1 .. m + n /\ w[i] = u[i]
  BY <1>1
<1>3. \A i \in 1 .. n : i + m \in 1 .. m + n /\ w[i + m] = v[i]
  BY <1>1
<1>4. \A i \in 1 .. m + n : i \in 1 .. m \/ \E k \in 1 .. n : i = k + m
  <2>1. ASSUME NEW i \in 1 .. m + n, i \notin 1 .. m PROVE i - m \in 1 .. n /\ i = (i - m) + m
    BY <1>1, <2>1
  <2> QED
    BY <2>1
<1>5. Range(w) = Range(u) \cup Range(v)
  <2>1. /\ \A x : x \in Range(u) <=> \E i \in 1 .. m : x = u[i]
        /\ \A x : x \in Range(v) <=> \E i \in 1 .. n : x = v[i]
        /\ \A x : x \in Range(w) <=> \E i \in 1 .. m + n : x = w[i]
    BY <1>1 DEF Range
  <2>2. ASSUME NEW x \in Range(w) PROVE x \in Range(u) \cup Range(v)
    <3>1. PICK i \in 1 .. m + n : x = w[i]
      BY <2>1
    <3>2. CASE i \in 1 .. m
      BY <1>2, <2>1, <3>1, <3>2
    <3>3. ASSUME NEW k \in 1 .. n, i = k + m PROVE x \in Range(v)
      BY <1>3, <2>1, <3>1, <3>3
    <3> QED
      BY <1>4, <3>2, <3>3
  <2>3. \A x : x \in Range(u) => x \in Range(w)
    BY <1>2, <2>1
  <2>4. \A x : x \in Range(v) => x \in Range(w)
    BY <1>3, <2>1
  <2> QED
    BY <2>2, <2>3, <2>4
<1>11. /\ \A a, b : Precedes(u, a, b) <=> \E i, j \in 1 .. m : i < j /\ u[i] = a /\ u[j] = b
      /\ \A a, b : Precedes(v, a, b) <=> \E i, j \in 1 .. n : i < j /\ v[i] = a /\ v[j] = b
  BY DEF Precedes, m, n
<1>6. ASSUME NEW a, NEW b, Precedes(w, a, b)
      PROVE  Precedes(u, a, b) \/ Precedes(v, a, b) \/ (a \in Range(u) /\ b \in Range(v))
  <2>1. PICK i \in 1 .. m + n, j \in 1 .. m + n : i < j /\ w[i] = a /\ w[j] = b
    BY <1>1, <1>6 DEF Precedes
  <2>2. CASE j \in 1 .. m
    <3>1. i \in 1 .. m
      BY <1>1, <2>1, <2>2
    <3>2. u[i] = a /\ u[j] = b
      BY <1>2, <2>1, <2>2, <3>1
    <3> QED
      BY <1>11, <2>1, <2>2, <3>1, <3>2
  <2>3. ASSUME NEW k \in 1 .. n, j = k + m, i \in 1 .. m
        PROVE  a \in Range(u) /\ b \in Range(v)
    BY <1>1, <1>2, <1>3, <2>1, <2>3 DEF Range
  <2>4. ASSUME NEW k \in 1 .. n, j = k + m, NEW l \in 1 .. n, i = l + m
        PROVE  Precedes(v, a, b)
    <3>1. l < k /\ v[l] = a /\ v[k] = b
      BY <1>1, <1>3, <2>1, <2>4
    <3> QED
      BY <1>11, <3>1
  <2>5. CASE i \in 1 .. m /\ j \notin 1 .. m
    <3>1. PICK k \in 1 .. n : j = k + m
      BY <1>4, <2>5
    <3> QED
      BY <2>3, <2>5, <3>1
  <2>6. CASE i \notin 1 .. m /\ j \notin 1 .. m
    <3>1. PICK k \in 1 .. n : j = k + m
      BY <1>4, <2>6
    <3>2. PICK l \in 1 .. n : i = l + m
      BY <1>4, <2>6
    <3> QED
      BY <2>4, <3>1, <3>2
  <2> QED
    BY <2>2, <2>5, <2>6
<1>7. ASSUME NEW a, NEW b, Precedes(u, a, b) PROVE Precedes(w, a, b)
  <2>1. PICK i \in 1 .. m, j \in 1 .. m : i < j /\ u[i] = a /\ u[j] = b
    BY <1>7, <1>11
  <2> QED
    BY <1>1, <1>2, <2>1 DEF Precedes
<1>8. ASSUME NEW a, NEW b, Precedes(v, a, b) PROVE Precedes(w, a, b)
  <2>1. PICK i \in 1 .. n, j \in 1 .. n : i < j /\ v[i] = a /\ v[j] = b
    BY <1>8, <1>11
  <2>2. i + m < j + m
    BY <1>1, <2>1
  <2> QED
    BY <1>1, <1>3, <2>1, <2>2 DEF Precedes
<1>9. ASSUME NEW a, NEW b, a \in Range(u), b \in Range(v) PROVE Precedes(w, a, b)
  <2>1. PICK i \in 1 .. m, j \in 1 .. n : u[i] = a /\ v[j] = b
    BY <1>1, <1>9 DEF Range
  <2>2. i < j + m
    BY <1>1, <2>1
  <2> QED
    BY <1>1, <1>2, <1>3, <2>1, <2>2 DEF Precedes
<1>10. \A a, b : Precedes(w, a, b)
                 <=> \/ Precedes(u, a, b)
                     \/ Precedes(v, a, b)
                     \/ a \in Range(u) /\ b \in Range(v)
  BY <1>6, <1>7, <1>8, <1>9
<1> QED
  BY <1>1, <1>5, <1>10 DEF w

LEMMA AppendFacts ==
  ASSUME NEW S, NEW u \in Seq(S), NEW x \in S
  PROVE  /\ Append(u, x) \in Seq(S)
         /\ Range(Append(u, x)) = Range(u) \cup {x}
         /\ \A a, b : Precedes(Append(u, x), a, b)
                      <=> Precedes(u, a, b) \/ (a \in Range(u) /\ b = x)
<1> DEFINE v == <<x>>
<1>1. v \in Seq(S) /\ Len(v) = 1 /\ DOMAIN v = 1 .. 1 /\ v[1] = x
  OBVIOUS
<1>2. Append(u, x) = u \o v
  BY AppendIsConcat
<1> HIDE DEF v
<1>3. Range(v) = {x}
  BY <1>1 DEF Range
<1>4. \A a, b : ~Precedes(v, a, b)
  BY <1>1 DEF Precedes
<1> DEFINE w == Append(u, x)
<1>5. /\ w \in Seq(S)
      /\ Range(w) = Range(u) \cup Range(v)
      /\ \A a, b : Precedes(w, a, b)
                   <=> \/ Precedes(u, a, b)
                       \/ Precedes(v, a, b)
                       \/ a \in Range(u) /\ b \in Range(v)
  BY <1>1, <1>2, ConcatFacts
<1> HIDE DEF w
<1>6. \A a, b : Precedes(w, a, b) <=> Precedes(u, a, b) \/ (a \in Range(u) /\ b = x)
  BY <1>3, <1>4, <1>5
<1> QED
  BY <1>3, <1>5, <1>6 DEF w

LEMMA TailFacts ==
  ASSUME NEW S, NEW u \in Seq(S), u # <<>>
  PROVE  /\ Head(u) \in S /\ Tail(u) \in Seq(S)
         /\ Range(u) = {Head(u)} \cup Range(Tail(u))
         /\ \A a, b : Precedes(u, a, b)
                      <=> Precedes(Tail(u), a, b) \/ (a = Head(u) /\ b \in Range(Tail(u)))
<1> DEFINE h == <<Head(u)>>
<1>1. Head(u) \in S /\ Tail(u) \in Seq(S)
  BY HeadTailProperties
<1>2. h \in Seq(S) /\ Len(h) = 1 /\ DOMAIN h = 1 .. 1 /\ h[1] = Head(u)
  BY <1>1
<1>3. u = h \o Tail(u)
  <2> DEFINE n == Len(u)
  <2> DEFINE w == h \o Tail(u)
  <2>1. /\ n \in Nat /\ n >= 1 /\ Len(Tail(u)) = n - 1 /\ Head(u) = u[1]
        /\ \A i \in 1 .. n - 1 : Tail(u)[i] = u[i + 1]
    BY EmptySeq, HeadTailProperties
  <2>2. /\ w \in Seq(S) /\ Len(w) = 1 + Len(Tail(u))
        /\ \A i \in 1 .. 1 + Len(Tail(u)) : w[i] = IF i <= 1 THEN h[i] ELSE Tail(u)[i - 1]
    BY <1>1, <1>2, ConcatProperties
  <2> HIDE DEF n, w, h
  <2>3. ASSUME NEW i \in 1 .. n PROVE u[i] = w[i]
    <3>1. CASE i = 1
      BY <1>2, <2>1, <2>2, <3>1
    <3>2. CASE i # 1
      <4>1. i - 1 \in 1 .. n - 1 /\ (i - 1) + 1 = i /\ ~(i <= 1) /\ i \in 1 .. 1 + (n - 1)
        BY <2>1, <3>2
      <4>2. w[i] = Tail(u)[i - 1]
        BY <2>1, <2>2, <4>1
      <4> QED
        BY <2>1, <4>1, <4>2
    <3> QED
      BY <3>1, <3>2
  <2>4. Len(u) = Len(w)
    BY <2>1, <2>2 DEF n
  <2> QED
    BY <2>2, <2>3, <2>4, SeqEqual DEF n, w
<1> HIDE DEF h
<1>4. Range(h) = {Head(u)}
  BY <1>2 DEF Range
<1>5. \A a, b : ~Precedes(h, a, b)
  BY <1>2 DEF Precedes
<1>6. /\ Range(h \o Tail(u)) = Range(h) \cup Range(Tail(u))
      /\ \A a, b : Precedes(h \o Tail(u), a, b)
                   <=> \/ Precedes(h, a, b)
                       \/ Precedes(Tail(u), a, b)
                       \/ a \in Range(h) /\ b \in Range(Tail(u))
  BY <1>1, <1>2, ConcatFacts
<1> DEFINE t == Tail(u)
<1> DEFINE w == h \o t
<1> HIDE DEF t, w
<1>7. /\ Range(w) = Range(h) \cup Range(t)
      /\ \A a, b : Precedes(w, a, b)
                   <=> \/ Precedes(h, a, b)
                       \/ Precedes(t, a, b)
                       \/ a \in Range(h) /\ b \in Range(t)
  BY <1>6 DEF t, w
<1>8. u = w
  BY <1>3 DEF t, w
<1>9. /\ Range(u) = {Head(u)} \cup Range(t)
      /\ \A a, b : Precedes(u, a, b) <=> Precedes(t, a, b) \/ (a = Head(u) /\ b \in Range(t))
  BY <1>4, <1>5, <1>7, <1>8
<1> QED
  BY <1>1, <1>9 DEF t

LEMMA ConcatAppend ==
  ASSUME NEW S, NEW u \in Seq(S), NEW v \in Seq(S), NEW x \in S
  PROVE  u \o Append(v, x) = Append(u \o v, x)
<1> DEFINE w == u \o v
<1> DEFINE t == <<x>>
<1>1. w \in Seq(S) /\ t \in Seq(S)
  BY ConcatProperties
<1>2. w \o t = u \o (v \o t)
  <2> HIDE DEF t
  <2> QED
    BY <1>1, ConcatAssociative
<1>3. Append(v, x) = v \o t /\ Append(w, x) = w \o t
  <2> HIDE DEF w
  <2> QED
    BY <1>1, AppendIsConcat
<1> QED
  BY <1>2, <1>3

(* OrderKept of one consumer: given is o less what d and the unreadable ones are,
   where y of it is handed out. *)
Faithful(o, given, y, d) ==
  /\ \A a, b \in 1 .. MaxEvents : Precedes(given, a, b) => Precedes(o, a, b)
  /\ \A a \in 1 .. MaxEvents : ~Precedes(o, a, a)
  /\ Range(given) \subseteq Range(o) \ d
  /\ Range(o) \subseteq Range(given) \cup d \cup Unreadable
  /\ Range(y) \cap Unreadable = {}

(* Only complete events are offered, and only what was offered is dropped. *)
OfferedComplete == \A s \in Subscribers :
  /\ Range(offered[s]) \subseteq {e \in Events : arrived[e] = parts[e]}
  /\ dropped[s] \subseteq Range(offered[s])

OrderInv ==
  /\ \A s \in Subscribers :
       Faithful(offered[s], yielded[s] \o Backlog[s], yielded[s], dropped[s])
  /\ OfferedComplete
(* What a consumer is offered when its queue has room *)
LEMMA FaithfulPut ==
  ASSUME NEW o \in Seq(1 .. MaxEvents), NEW k \in Seq(1 .. MaxEvents), NEW y,
         NEW d, d \subseteq Range(o), NEW e \in 1 .. MaxEvents,
         e \notin Range(o), Faithful(o, k, y, d)
  PROVE  Faithful(Append(o, e), Append(k, e), y, d)
<1> DEFINE E == 1 .. MaxEvents
<1> DEFINE oo == Append(o, e)
<1> DEFINE kk == Append(k, e)
<1>1. o \in Seq(E) /\ k \in Seq(E) /\ e \in E
  OBVIOUS
<1> HIDE DEF E
<1>2. /\ Range(oo) = Range(o) \cup {e}
      /\ \A a, b : Precedes(oo, a, b) <=> Precedes(o, a, b) \/ (a \in Range(o) /\ b = e)
  BY <1>1, AppendFacts
<1>3. /\ Range(kk) = Range(k) \cup {e}
      /\ \A a, b : Precedes(kk, a, b) <=> Precedes(k, a, b) \/ (a \in Range(k) /\ b = e)
  BY <1>1, AppendFacts
<1> HIDE DEF oo, kk
<1>4. Faithful(oo, kk, y, d)
  BY <1>2, <1>3 DEF Faithful
<1> QED
  BY <1>4 DEF oo, kk

(* and when it has none *)
LEMMA FaithfulMiss ==
  ASSUME NEW o \in Seq(1 .. MaxEvents), NEW k, NEW y, NEW d,
         NEW e \in 1 .. MaxEvents, e \notin Range(o), Faithful(o, k, y, d)
  PROVE  Faithful(Append(o, e), k, y, d \cup {e})
<1> DEFINE oo == Append(o, e)
<1>1. /\ Range(oo) = Range(o) \cup {e}
      /\ \A a, b : Precedes(oo, a, b) <=> Precedes(o, a, b) \/ (a \in Range(o) /\ b = e)
  BY AppendFacts
<1> HIDE DEF oo
<1> QED
  BY <1>1 DEF Faithful, oo

(* What it takes from its queue, whether it parses or not *)
LEMMA FaithfulTake ==
  ASSUME NEW o, NEW y \in Seq(1 .. MaxEvents), NEW q \in Seq(1 .. MaxEvents), q # <<>>,
         NEW d, Faithful(o, y \o q, y, d)
  PROVE  /\ Head(q) \notin Unreadable
            => Faithful(o, Append(y, Head(q)) \o Tail(q), Append(y, Head(q)), d)
         /\ Head(q) \in Unreadable => Faithful(o, y \o Tail(q), y, d)
<1> DEFINE h == Head(q)
<1> DEFINE t == Tail(q)
<1> DEFINE yy == Append(y, h)
<1> DEFINE k == y \o q
<1> DEFINE kt == y \o t
<1> DEFINE kk == yy \o t
<1>1. /\ h \in 1 .. MaxEvents /\ t \in Seq(1 .. MaxEvents)
      /\ Range(q) = {h} \cup Range(t)
      /\ \A a, b : Precedes(q, a, b) <=> Precedes(t, a, b) \/ (a = h /\ b \in Range(t))
  BY TailFacts
<1>2. /\ yy \in Seq(1 .. MaxEvents)
      /\ Range(yy) = Range(y) \cup {h}
      /\ \A a, b : Precedes(yy, a, b) <=> Precedes(y, a, b) \/ (a \in Range(y) /\ b = h)
  <2> DEFINE E == 1 .. MaxEvents
  <2>1. y \in Seq(E) /\ h \in E
    BY <1>1
  <2> HIDE DEF h, E
  <2>2. /\ yy \in Seq(E)
        /\ Range(yy) = Range(y) \cup {h}
        /\ \A a, b : Precedes(yy, a, b) <=> Precedes(y, a, b) \/ (a \in Range(y) /\ b = h)
    BY <2>1, AppendFacts
  <2> QED
    BY <2>2 DEF E
<1> HIDE DEF h, t, yy
<1>3. /\ Range(k) = Range(y) \cup Range(q)
      /\ \A a, b : Precedes(k, a, b)
                   <=> \/ Precedes(y, a, b) \/ Precedes(q, a, b)
                       \/ a \in Range(y) /\ b \in Range(q)
  BY ConcatFacts
<1>4. /\ Range(kt) = Range(y) \cup Range(t)
      /\ \A a, b : Precedes(kt, a, b)
                   <=> \/ Precedes(y, a, b) \/ Precedes(t, a, b)
                       \/ a \in Range(y) /\ b \in Range(t)
  BY <1>1, ConcatFacts
<1>5. /\ Range(kk) = Range(yy) \cup Range(t)
      /\ \A a, b : Precedes(kk, a, b)
                   <=> \/ Precedes(yy, a, b) \/ Precedes(t, a, b)
                       \/ a \in Range(yy) /\ b \in Range(t)
  BY <1>1, <1>2, ConcatFacts
<1>6. Faithful(o, k, y, d)
  OBVIOUS
<1> HIDE DEF k, kt, kk
<1>7. ASSUME h \notin Unreadable PROVE Faithful(o, kk, yy, d)
  <2>1. Range(kk) = Range(k) /\ \A a, b : Precedes(kk, a, b) => Precedes(k, a, b)
    BY <1>1, <1>2, <1>3, <1>5
  <2> QED
    BY <1>2, <1>6, <1>7, <2>1 DEF Faithful
<1>8. ASSUME h \in Unreadable PROVE Faithful(o, kt, y, d)
  <2>1. /\ Range(kt) \subseteq Range(k) /\ Range(k) \subseteq Range(kt) \cup {h}
        /\ \A a, b : Precedes(kt, a, b) => Precedes(k, a, b)
    BY <1>1, <1>3, <1>4
  <2> QED
    BY <1>6, <1>8, <2>1 DEF Faithful
<1> QED
  BY <1>7, <1>8 DEF h, t, yy, kt, kk

LEMMA DecodedType ==
  ASSUME IInv, NEW s \in Subscribers
  PROVE  /\ Decoded(queue[s]) \in Seq(1 .. MaxEvents)
         /\ \A i \in 1 .. Len(queue[s]) : Decode(queue[s][i]) \in 1 .. MaxEvents
<1>1. queue[s] \in Seq(Seq(Part))
  BY DEF IInv, TypeOK
<1> DEFINE n == Len(queue[s])
<1>2. n \in Nat
  BY <1>1, LenProperties
<1>3. \A i \in 1 .. n : Decode(queue[s][i]) \in 1 .. MaxEvents
  BY DecodesToEvents, EventType DEF IInv
<1>4. Decoded(queue[s]) \in [1 .. n -> 1 .. MaxEvents]
  BY <1>3 DEF Decoded
<1> HIDE DEF n
<1>5. Decoded(queue[s]) \in Seq(1 .. MaxEvents)
  BY <1>2, <1>4, FunctionIsSeq
<1> QED
  BY <1>3, <1>5 DEF n

(* The last part of an event offers it, once. *)
LEMMA LastOrder ==
  ASSUME IInv, OrderInv, NEW e \in Events, DeliverLast(e)
  PROVE  OrderInv'
<1>1. /\ Collected(e) = Whole(e) /\ Collected(e) \in Seq(Part)
      /\ DispatchEventFrame(e, Collected(e))
      /\ UNCHANGED <<parts, yielded>> /\ Events' = Events
      /\ arrived[e] # parts[e] /\ arrived'[e] = parts[e]
      /\ \A x \in Events \ {e} : arrived'[x] = arrived[x]
  BY LastFacts
<1>2. /\ Backlog' = [s \in Subscribers |-> Decoded(queue'[s])]
      /\ Backlog = [s \in Subscribers |-> Decoded(queue[s])]
  BY <1>1, BacklogMapped DEF Backlog
<1>3. e \in 1 .. MaxEvents /\ Decode(Whole(e)) = e
  BY DecodeWhole DEF IInv
<1>4. ASSUME NEW s \in Subscribers
      PROVE  /\ Faithful(offered'[s], yielded'[s] \o Backlog'[s], yielded'[s], dropped'[s])
             /\ Range(offered'[s]) \subseteq Range(offered[s]) \cup {e}
             /\ dropped'[s] \subseteq Range(offered'[s])
  <2> DEFINE y == yielded[s]
  <2> DEFINE b == Backlog[s]
  <2> DEFINE k == y \o b
  <2>1. /\ offered[s] \in Seq(1 .. MaxEvents) /\ y \in Seq(1 .. MaxEvents)
        /\ b \in Seq(1 .. MaxEvents) /\ b = Decoded(queue[s])
        /\ queue[s] \in Seq(Seq(Part))
    BY <1>2, DecodedType DEF IInv, TypeOK
  <2>2. /\ Faithful(offered[s], k, y, dropped[s]) /\ dropped[s] \subseteq Range(offered[s])
        /\ e \notin Range(offered[s])
    BY <1>1 DEF OrderInv, OfferedComplete
  <2>3. Range(Append(offered[s], e)) = Range(offered[s]) \cup {e}
    BY <1>3, <2>1, AppendFacts
  <2>4. k \in Seq(1 .. MaxEvents)
    BY <2>1, ConcatProperties
  <2>5. yielded'[s] = y /\ Backlog'[s] = Decoded(queue'[s])
    BY <1>1, <1>2
  <2>6. CASE /\ queue'[s] = Append(queue[s], Collected(e))
             /\ offered'[s] = Append(offered[s], e) /\ dropped'[s] = dropped[s]
    <3>1. Backlog'[s] = Append(b, e)
      BY <1>1, <1>3, <2>1, <2>5, <2>6, DecodedType, DecodedAppend
    <3>2. y \o Append(b, e) = Append(k, e)
      <4> DEFINE E == 1 .. MaxEvents
      <4>1. y \in Seq(E) /\ b \in Seq(E) /\ e \in E
        BY <1>3, <2>1
      <4> HIDE DEF y, b, E
      <4> QED
        BY <4>1, ConcatAppend
    <3> HIDE DEF y, b, k
    <3>3. Faithful(Append(offered[s], e), Append(k, e), y, dropped[s])
      BY <1>3, <2>1, <2>2, <2>4, FaithfulPut
    <3> QED
      BY <2>2, <2>3, <2>5, <2>6, <3>1, <3>2, <3>3
  <2>7. CASE /\ queue'[s] = queue[s] /\ offered'[s] = Append(offered[s], e)
             /\ dropped'[s] = dropped[s] \cup {e}
    <3>1. Backlog'[s] = b
      BY <2>1, <2>5, <2>7
    <3> HIDE DEF y, b
    <3>2. Faithful(Append(offered[s], e), k, y, dropped[s] \cup {e})
      <4> HIDE DEF k
      <4> QED
        BY <1>3, <2>1, <2>2, FaithfulMiss
    <3> QED
      BY <2>2, <2>3, <2>5, <2>7, <3>1, <3>2
  <2>8. CASE queue'[s] = queue[s] /\ offered'[s] = offered[s] /\ dropped'[s] = dropped[s]
    <3>1. Backlog'[s] = b
      BY <2>1, <2>5, <2>8
    <3> HIDE DEF y, b
    <3> QED
      BY <2>2, <2>5, <2>8, <3>1
  <2> QED
    BY <1>1, <2>6, <2>7, <2>8, DispatchFacts
<1>5. OfferedComplete'
  <2>1. \A s \in Subscribers : Range(offered[s]) \subseteq {x \in Events : arrived[x] = parts[x]}
    BY DEF OrderInv, OfferedComplete
  <2>2. \A s \in Subscribers : \A x \in Range(offered'[s]) : x \in Events' /\ arrived'[x] = parts'[x]
    BY <1>1, <1>4, <2>1
  <2> QED
    BY <1>4, <2>2 DEF OfferedComplete
<1> QED
  BY <1>4, <1>5 DEF OrderInv

(* A turn of the loop moves the head of the queue to what is handed out, or
   skips it. *)
LEMMA TakeOrder ==
  ASSUME IInv, OrderInv, NEW s \in Subscribers, TakeEvent(s)
  PROVE  OrderInv'
<1>1. /\ queue[s] # <<>> /\ queue[s] \in Seq(Seq(Part))
      /\ UNCHANGED <<parts, arrived, history>>
      /\ queue' = [queue EXCEPT ![s] = Tail(queue[s])]
      /\ Decode(Head(queue[s])) \in 1 .. MaxEvents
  BY TakeFacts
<1>2. /\ Backlog' = [r \in Subscribers |-> Decoded(queue'[r])]
      /\ Backlog = [r \in Subscribers |-> Decoded(queue[r])]
  BY <1>1, BacklogMapped DEF Backlog
<1> DEFINE y == yielded[s]
<1> DEFINE q == Backlog[s]
<1>3. /\ q \in Seq(1 .. MaxEvents) /\ q # <<>>
      /\ Head(q) = Decode(Head(queue[s])) /\ Backlog'[s] = Tail(q)
      /\ y \in Seq(1 .. MaxEvents)
  <2>1. /\ Decoded(queue[s]) # <<>>
        /\ Head(Decoded(queue[s])) = Decode(Head(queue[s]))
        /\ Tail(Decoded(queue[s])) = Decoded(Tail(queue[s]))
    BY <1>1, DecodesToEvents, DecodedTail
  <2>2. queue'[s] = Tail(queue[s])
    BY <1>1 DEF IInv, TypeOK
  <2> QED
    BY <1>2, <2>1, <2>2, DecodedType DEF IInv, TypeOK
<1>4. /\ Head(q) \notin Unreadable => yielded'[s] = Append(y, Head(q))
      /\ Head(q) \in Unreadable => yielded'[s] = y
      /\ \A r \in Subscribers \ {s} : yielded'[r] = yielded[r]
  <2>1. Parses(Head(queue[s])) <=> Head(q) \notin Unreadable
    BY <1>1, <1>3 DEF Parses, Garbled
  <2> QED
    BY <1>3, <2>1 DEF TakeEvent, IInv, TypeOK
<1>5. \A r \in Subscribers \ {s} : Backlog'[r] = Backlog[r]
  BY <1>1, <1>2
<1>6. \A r \in Subscribers :
        Faithful(offered[r], yielded[r] \o Backlog[r], yielded[r], dropped[r])
  BY DEF OrderInv
<1>7. /\ Head(q) \notin Unreadable
         => Faithful(offered[s], Append(y, Head(q)) \o Tail(q), Append(y, Head(q)), dropped[s])
      /\ Head(q) \in Unreadable => Faithful(offered[s], y \o Tail(q), y, dropped[s])
  <2>1. Faithful(offered[s], y \o q, y, dropped[s])
    BY <1>6
  <2> HIDE DEF y, q
  <2> QED
    BY <1>3, <2>1, FaithfulTake
<1>8. Faithful(offered[s], yielded'[s] \o Backlog'[s], yielded'[s], dropped[s])
  <2> HIDE DEF y, q
  <2> QED
    BY <1>3, <1>4, <1>7
<1>9. UNCHANGED <<offered, dropped>> /\ Events' = Events
  BY <1>1 DEF history, Events
<1>10. ASSUME NEW r \in Subscribers
       PROVE  Faithful(offered'[r], yielded'[r] \o Backlog'[r], yielded'[r], dropped'[r])
  <2>1. CASE r = s
    BY <1>8, <1>9, <2>1
  <2>2. CASE r # s
    BY <1>4, <1>5, <1>6, <1>9, <2>2
  <2> QED
    BY <2>1, <2>2
<1>11. OfferedComplete'
  BY <1>1, <1>9 DEF OrderInv, OfferedComplete
<1> QED
  BY <1>10, <1>11 DEF OrderInv

(* No other step offers, queues or hands out anything. *)
LEMMA OtherOrder ==
  ASSUME IInv, OrderInv,
         \/ Emit
         \/ \E e \in Events : DeliverPart(e) \/ ResetStream(e)
         \/ LoseLink
         \/ \E s \in Subscribers : Subscribe(s) \/ Unsubscribe(s)
         \/ UNCHANGED vars
  PROVE  OrderInv'
<1>1. UNCHANGED <<queue, yielded, offered, dropped>>
  BY DEF Emit, DeliverPart, ResetStream, LoseLink, Subscribe, Unsubscribe, vars, consumer,
     history
<1>2. Backlog' = Backlog
  <2>1. CASE Emit
    BY <1>1, <2>1, EmitDecodes DEF Backlog, Decoded
  <2>2. CASE ~Emit
    <3>1. parts' = parts
      BY <2>2 DEF DeliverPart, ResetStream, LoseLink, Subscribe, Unsubscribe, vars
    <3> QED
      BY <1>1, <3>1, BacklogMapped DEF Backlog
  <2> QED
    BY <2>1, <2>2
<1>3. \A x \in Events : arrived[x] = parts[x] => x \in Events' /\ arrived'[x] = parts'[x]
  <2>1. CASE Emit
    BY <2>1, EmitFacts
  <2>2. ASSUME NEW e \in Events, DeliverPart(e)
        PROVE  \A x \in Events : arrived[x] = parts[x] => x \in Events' /\ arrived'[x] = parts'[x]
    <3>1. /\ arrived[e] # parts[e] /\ Events' = Events /\ parts' = parts
          /\ \A x \in Events \ {e} : arrived'[x] = arrived[x]
      BY <2>2, EventType DEF DeliverPart, IInv, TypeOK, Events
    <3> QED
      BY <3>1
  <2>3. CASE UNCHANGED <<parts, arrived>>
    BY <2>3 DEF Events
  <2> QED
    BY <2>1, <2>2, <2>3 DEF ResetStream, LoseLink, Subscribe, Unsubscribe, vars
<1>4. OfferedComplete'
  BY <1>1, <1>3 DEF OrderInv, OfferedComplete
<1> QED
  BY <1>1, <1>2, <1>4 DEF OrderInv

LEMMA InitOrder == Init => OrderInv
<1> SUFFICES ASSUME Init PROVE OrderInv
  OBVIOUS
<1> DEFINE none == <<>>
<1>1. /\ none \in Seq(1 .. MaxEvents) /\ none \o none = none /\ Decoded(none) = none
      /\ Range(none) = {} /\ \A a, b : ~Precedes(none, a, b)
  BY ConcatEmptySeq DEF Range, Precedes, Decoded
<1>2. \A s \in Subscribers : /\ queue[s] = none /\ yielded[s] = none
                              /\ offered[s] = none /\ dropped[s] = {}
  BY DEF Init
<1> HIDE DEF none
<1>3. \A s \in Subscribers : Backlog[s] = none
  BY <1>1, <1>2 DEF Backlog
<1>4. Faithful(none, none, none, {})
  BY <1>1 DEF Faithful
<1>5. OfferedComplete
  BY <1>1, <1>2 DEF OfferedComplete
<1> QED
  BY <1>1, <1>2, <1>3, <1>4, <1>5 DEF OrderInv

LEMMA StepOrder == IInv /\ OrderInv /\ [Next]_vars => OrderInv'
<1> SUFFICES ASSUME IInv, OrderInv, [Next]_vars PROVE OrderInv'
  OBVIOUS
<1>1. ASSUME NEW e \in Events, DeliverLast(e) PROVE OrderInv'
  BY <1>1, LastOrder
<1>2. ASSUME NEW s \in Subscribers, TakeEvent(s) PROVE OrderInv'
  BY <1>2, TakeOrder
<1>3. CASE \/ Emit
           \/ \E e \in Events : DeliverPart(e) \/ ResetStream(e)
           \/ LoseLink
           \/ \E s \in Subscribers : Subscribe(s) \/ Unsubscribe(s)
           \/ UNCHANGED vars
  BY <1>3, OtherOrder
<1> QED
  BY <1>1, <1>2, <1>3 DEF Next

(* What a consumer is given, with what is queued for it, is what was dispatched
   while it was subscribed, in that order and once, less what it had no room for
   and what does not parse; however its frames interleave with the others, with
   resets, and with consumers that come and go. *)
THEOREM GivenInOrder == Spec => []OrderKept
<1>1. Init => OrderInv
  BY InitOrder
<1>2. IInv /\ OrderInv /\ [Next]_vars => OrderInv'
  BY StepOrder
<1>3. IInv /\ OrderInv => OrderKept
  <2> SUFFICES ASSUME IInv, OrderInv, NEW s \in Subscribers
               PROVE  /\ \A a, b \in Events :
                           Precedes(Kept(s), a, b) => Precedes(offered[s], a, b)
                      /\ \A a \in Events : ~Precedes(offered[s], a, a)
                      /\ Range(Kept(s)) \subseteq Range(offered[s]) \ dropped[s]
                      /\ Range(offered[s])
                           \subseteq Range(Kept(s)) \cup dropped[s] \cup Unreadable
                      /\ Range(yielded[s]) \cap Unreadable = {}
    BY DEF OrderKept
  <2>1. Kept(s) = yielded[s] \o Backlog[s]
    BY DEF Kept, Backlog, Decoded
  <2>2. Faithful(offered[s], Kept(s), yielded[s], dropped[s])
    BY <2>1 DEF OrderInv
  <2>3. Events \subseteq 1 .. MaxEvents
    BY EventType DEF IInv
  <2> QED
    BY <2>2, <2>3 DEF Faithful
<1> QED
  BY <1>1, <1>2, <1>3, Invariant, PTL DEF Spec
=============================================================================
