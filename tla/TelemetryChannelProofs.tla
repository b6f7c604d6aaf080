----------------------- MODULE TelemetryChannelProofs -----------------------
(***************************************************************************)
(* Proofs about TelemetryChannel for any set of consumers, any queue       *)
(* capacity and any number of datagrams.                                   *)
(***************************************************************************)
EXTENDS TelemetryChannel, SequenceTheorems, TLAPS

(* A step of the network or of another consumer leaves a suffix a suffix: one
   more arrival joins both, *)
LEMMA SuffixAppend ==
  ASSUME NEW S, NEW q \in Seq(S), NEW a \in Seq(S), NEW d \in S,
         IsSuffixOf(q, a)
  PROVE  IsSuffixOf(Append(q, d), Append(a, d))
<1> DEFINE m == Len(q)
<1> DEFINE n == Len(a)
<1>1. m \in Nat /\ n \in Nat /\ m <= n /\ \A i \in 1 .. m : q[i] = a[n - m + i]
  BY DEF IsSuffixOf
<1>2. /\ Len(Append(q, d)) = m + 1 /\ Len(Append(a, d)) = n + 1
      /\ \A i \in 1 .. m : Append(q, d)[i] = q[i]
      /\ \A i \in 1 .. n : Append(a, d)[i] = a[i]
      /\ Append(q, d)[m + 1] = d /\ Append(a, d)[n + 1] = d
  BY AppendProperties
<1> HIDE DEF m, n
<1>3. ASSUME NEW i \in 1 .. m + 1
      PROVE  Append(q, d)[i] = Append(a, d)[(n + 1) - (m + 1) + i]
  <2>1. CASE i = m + 1
    <3>1. (n + 1) - (m + 1) + i = n + 1
      BY <1>1, <2>1
    <3>2. Append(q, d)[i] = d
      BY <1>2, <2>1
    <3>3. Append(a, d)[(n + 1) - (m + 1) + i] = d
      BY <1>2, <3>1
    <3> QED
      BY <3>2, <3>3
  <2>2. CASE i \in 1 .. m
    <3>1. (n + 1) - (m + 1) + i = n - m + i /\ n - m + i \in 1 .. n
      BY <1>1, <2>2
    <3> QED
      BY <1>1, <1>2, <2>2, <3>1
  <2>3. i = m + 1 \/ i \in 1 .. m
    BY <1>1
  <2> QED
    BY <2>1, <2>2, <2>3
<1>4. m + 1 <= n + 1
  BY <1>1
<1> QED
  BY <1>2, <1>3, <1>4 DEF IsSuffixOf

(* ... and giving up the head leaves the rest a suffix. *)
LEMMA SuffixTail ==
  ASSUME NEW S, NEW q \in Seq(S), NEW a \in Seq(S), q # <<>>, IsSuffixOf(q, a)
  PROVE  IsSuffixOf(Tail(q), a)
<1> DEFINE m == Len(q)
<1> DEFINE n == Len(a)
<1>1. m \in Nat /\ n \in Nat /\ m <= n /\ \A i \in 1 .. m : q[i] = a[n - m + i]
  BY DEF IsSuffixOf
<1>2. /\ m >= 1 /\ Len(Tail(q)) = m - 1
      /\ \A i \in 1 .. m - 1 : Tail(q)[i] = q[i + 1]
  BY HeadTailProperties, EmptySeq
<1> HIDE DEF m, n
<1>3. ASSUME NEW i \in 1 .. m - 1
      PROVE  Tail(q)[i] = a[n - (m - 1) + i]
  <2>1. i + 1 \in 1 .. m /\ n - m + (i + 1) = n - (m - 1) + i
    BY <1>1
  <2> QED
    BY <1>1, <1>2, <2>1
<1>4. m - 1 <= n
  BY <1>1
<1> QED
  BY <1>2, <1>3, <1>4 DEF IsSuffixOf

(* What a delivery does to a queue, full or not. *)
LEMMA DropOldestFacts ==
  ASSUME NEW q \in Seq(TelemetryDatagrams), NEW a \in Seq(TelemetryDatagrams),
         NEW d \in TelemetryDatagrams,
         Len(q) <= Capacity, IsSuffixOf(q, a)
  PROVE  /\ DropOldest(q, d) \in Seq(TelemetryDatagrams)
         /\ Len(DropOldest(q, d)) <= Capacity
         /\ IsSuffixOf(DropOldest(q, d), Append(a, d))
<1>1. CASE Len(q) < Capacity
  <2>1. Len(Append(q, d)) <= Capacity
    <3> DEFINE m == Len(q)
    <3>1. m \in Nat /\ Len(Append(q, d)) = m + 1
      OBVIOUS
    <3>2. m + 1 <= Capacity
      <4> HIDE DEF m
      <4> QED
        BY <1>1, <3>1, CapacityAssumption DEF m
    <3> QED
      BY <3>1, <3>2
  <2> QED
    BY <1>1, <2>1, SuffixAppend DEF DropOldest
<1>2. CASE ~(Len(q) < Capacity)
  <2>1. Len(q) = Capacity /\ q # <<>>
    <3> DEFINE m == Len(q)
    <3>1. m \in Nat
      OBVIOUS
    <3>2. m = Capacity
      <4> HIDE DEF m
      <4> QED
        BY <1>2, <3>1, CapacityAssumption DEF m
    <3> QED
      BY <3>2, CapacityAssumption
  <2>2. Tail(q) \in Seq(TelemetryDatagrams) /\ IsSuffixOf(Tail(q), a)
    BY <2>1, SuffixTail
  <2>3. Len(Append(Tail(q), d)) = Capacity
    BY <2>1, <2>2, HeadTailProperties, CapacityAssumption
  <2>4. DropOldest(q, d) = Append(Tail(q), d)
    BY <1>2 DEF DropOldest
  <2>5. IsSuffixOf(Append(Tail(q), d), Append(a, d))
    BY <2>2, SuffixAppend
  <2>6. Append(Tail(q), d) \in Seq(TelemetryDatagrams)
    BY <2>2
  <2> QED
    BY <2>3, <2>4, <2>5, <2>6, CapacityAssumption
<1> QED
  BY <1>1, <1>2

IInv == TelemetryTypeOK /\ LatestKept

LEMMA InitInv == TelemetryInit => IInv
<1> SUFFICES ASSUME TelemetryInit PROVE IInv
  OBVIOUS
<1>1. TelemetryTypeOK
  BY DatagramsAssumption DEF TelemetryInit, TelemetryTypeOK
<1>2. LatestKept
  <2>1. Len(<<>>) = 0 /\ IsSuffixOf(<<>>, <<>>)
    BY DEF IsSuffixOf
  <2>2. \A s \in Subscribers : queue[s] = <<>> /\ arrivals[s] = <<>>
    BY DEF TelemetryInit
  <2>3. 0 <= Capacity
    BY CapacityAssumption
  <2> QED
    BY <2>1, <2>2, <2>3 DEF LatestKept
<1> QED
  BY <1>1, <1>2 DEF IInv

LEMMA DeliverInv ==
  ASSUME IInv, NEW d \in onTheWay, DeliverDatagram(d)
  PROVE  IInv'
<1>1. d \in TelemetryDatagrams
  BY DatagramsAssumption DEF IInv, TelemetryTypeOK, TelemetryDatagrams
<1>2. ASSUME NEW s \in Subscribers
      PROVE  /\ queue'[s] \in Seq(TelemetryDatagrams) /\ arrivals'[s] \in Seq(TelemetryDatagrams)
             /\ Len(queue'[s]) <= Capacity
             /\ IsSuffixOf(queue'[s], arrivals'[s])
  <2>1. /\ queue[s] \in Seq(TelemetryDatagrams) /\ arrivals[s] \in Seq(TelemetryDatagrams)
        /\ Len(queue[s]) <= Capacity /\ IsSuffixOf(queue[s], arrivals[s])
    BY DEF IInv, TelemetryTypeOK, LatestKept
  <2>2. CASE sub[s] = "on"
    <3>1. /\ queue'[s] = DropOldest(queue[s], d)
          /\ arrivals'[s] = Append(arrivals[s], d)
      BY <2>2 DEF DeliverDatagram
    <3>2. arrivals'[s] \in Seq(TelemetryDatagrams)
      BY <1>1, <2>1, <3>1
    <3> QED
      BY <1>1, <2>1, <3>1, <3>2, DropOldestFacts
  <2>3. CASE sub[s] # "on"
    <3>1. queue'[s] = queue[s] /\ arrivals'[s] = arrivals[s]
      BY <2>3 DEF DeliverDatagram
    <3> QED
      BY <2>1, <3>1
  <2> QED
    BY <2>2, <2>3
<1>3. TelemetryTypeOK'
  <2>1. /\ queue' \in [Subscribers -> Seq(TelemetryDatagrams)]
        /\ arrivals' \in [Subscribers -> Seq(TelemetryDatagrams)]
    BY <1>2 DEF DeliverDatagram
  <2> QED
    BY <2>1 DEF DeliverDatagram, IInv, TelemetryTypeOK
<1>4. LatestKept'
  BY <1>2 DEF LatestKept
<1> QED
  BY <1>3, <1>4 DEF IInv

LEMMA TakeInv ==
  ASSUME IInv, NEW s \in Subscribers, TakeTelemetry(s)
  PROVE  IInv'
<1>1. /\ queue[s] # <<>> /\ queue[s] \in Seq(TelemetryDatagrams)
      /\ queue' = [queue EXCEPT ![s] = Tail(@)]
      /\ Len(queue[s]) <= Capacity /\ IsSuffixOf(queue[s], arrivals[s])
      /\ arrivals[s] \in Seq(TelemetryDatagrams) /\ arrivals' = arrivals
  BY DEF TakeTelemetry, IInv, TelemetryTypeOK, LatestKept
<1>2. /\ Tail(queue[s]) \in Seq(TelemetryDatagrams) /\ Head(queue[s]) \in TelemetryDatagrams
      /\ IsSuffixOf(Tail(queue[s]), arrivals[s])
  BY <1>1, SuffixTail
<1>3. Len(Tail(queue[s])) <= Capacity
  <2> DEFINE m == Len(queue[s])
  <2>1. m \in Nat /\ m <= Capacity /\ Len(Tail(queue[s])) = m - 1
    BY <1>1
  <2>2. m - 1 <= Capacity
    <3> HIDE DEF m
    <3> QED
      BY <2>1, CapacityAssumption
  <2> QED
    BY <2>1, <2>2
<1>4. TelemetryTypeOK'
  <2>1. queue' \in [Subscribers -> Seq(TelemetryDatagrams)]
    BY <1>1, <1>2 DEF IInv, TelemetryTypeOK
  <2>2. yielded' \in [Subscribers -> Seq(TelemetryDatagrams)]
    BY <1>2 DEF TakeTelemetry, Parses, IInv, TelemetryTypeOK
  <2> QED
    BY <2>1, <2>2 DEF TakeTelemetry, Parses, IInv, TelemetryTypeOK
<1>5. LatestKept'
  <2> SUFFICES ASSUME NEW r \in Subscribers
               PROVE  /\ Len(queue'[r]) <= Capacity
                      /\ IsSuffixOf(queue'[r], arrivals'[r])
    BY DEF LatestKept
  <2>1. CASE r = s
    BY <1>1, <1>2, <1>3, <2>1 DEF IInv, TelemetryTypeOK
  <2>2. CASE r # s
    <3>1. queue'[r] = queue[r]
      BY <1>1, <2>2 DEF IInv, TelemetryTypeOK
    <3> QED
      BY <1>1, <3>1 DEF IInv, LatestKept
  <2> QED
    BY <2>1, <2>2
<1> QED
  BY <1>4, <1>5 DEF IInv

LEMMA StepInv == IInv /\ [TelemetryNext]_telemetryVars => IInv'
<1> SUFFICES ASSUME IInv, [TelemetryNext]_telemetryVars PROVE IInv'
  OBVIOUS
<1>1. CASE SendTelemetry
  <2>1. TelemetryTypeOK'
    BY <1>1, DatagramsAssumption DEF SendTelemetry, IInv, TelemetryTypeOK
  <2>2. LatestKept'
    BY <1>1 DEF SendTelemetry, IInv, LatestKept
  <2> QED
    BY <2>1, <2>2 DEF IInv
<1>2. ASSUME NEW d \in onTheWay, DeliverDatagram(d) PROVE IInv'
  BY <1>2, DeliverInv
<1>3. ASSUME NEW s \in Subscribers, TakeTelemetry(s) PROVE IInv'
  BY <1>3, TakeInv
<1>4. ASSUME \/ \E d \in onTheWay : LoseTelemetry(d)
             \/ ConnectionLost
             \/ \E s \in Subscribers : Subscribe(s) \/ Unsubscribe(s)
             \/ UNCHANGED telemetryVars
      PROVE  IInv'
  <2>1. queue' = queue /\ arrivals' = arrivals
    BY <1>4 DEF LoseTelemetry, ConnectionLost, Subscribe, Unsubscribe, telemetryVars
  <2>2. TelemetryTypeOK'
    BY <1>4 DEF LoseTelemetry, ConnectionLost, Subscribe, Unsubscribe, telemetryVars,
                IInv, TelemetryTypeOK
  <2> QED
    BY <2>1, <2>2 DEF IInv, LatestKept
<1> QED
  BY <1>1, <1>2, <1>3, <1>4 DEF TelemetryNext

LEMMA Invariant == TelemetrySpec => []IInv
<1>1. TelemetryInit => IInv
  BY InitInv
<1>2. IInv /\ [TelemetryNext]_telemetryVars => IInv'
  BY StepInv
<1> QED
  BY <1>1, <1>2, PTL DEF TelemetrySpec

(* Every variable of the telemetry channel keeps its type. *)
THEOREM TypeCorrect == TelemetrySpec => []TelemetryTypeOK
<1>1. IInv => TelemetryTypeOK
  BY DEF IInv
<1> QED
  BY <1>1, Invariant, PTL

(* Drop-oldest keeps, for every consumer at every pace, a window of the latest
   arrivals in order. *)
THEOREM WindowOfLatest == TelemetrySpec => []LatestKept
<1>1. IInv => LatestKept
  BY DEF IInv
<1> QED
  BY <1>1, Invariant, PTL

-----------------------------------------------------------------------------
LEMMA StepRefines == IInv /\ [TelemetryNext]_telemetryVars => [FEED!Next]_(FEED!vars)
<1> SUFFICES ASSUME IInv, [TelemetryNext]_telemetryVars
             PROVE  FEED!Next \/ UNCHANGED FEED!vars
  BY DEF FEED!vars
<1>1. ASSUME NEW d \in onTheWay, DeliverDatagram(d) PROVE FEED!Next
  <2>1. d \in TelemetryDatagrams /\ d \notin seen
    BY DatagramsAssumption DEF IInv, TelemetryTypeOK, TelemetryDatagrams
  <2>2. \A s \in Subscribers : sub[s] = "on" =>
          queue'[s] \in FEED!Offered(queue[s], d)
    BY <1>1 DEF DeliverDatagram, DropOldest, FEED!Offered
  <2>3. FEED!Publish(d)
    BY <1>1, <2>1, <2>2 DEF DeliverDatagram, FEED!Publish
  <2> QED
    BY <2>1, <2>3 DEF FEED!Next
<1>2. ASSUME NEW s \in Subscribers, TakeTelemetry(s) PROVE FEED!Next
  <2>1. FEED!Take(s)
    BY <1>2 DEF TakeTelemetry, Parses, FEED!Take
  <2> QED
    BY <2>1 DEF FEED!Next
<1>3. ASSUME NEW s \in Subscribers, Subscribe(s) PROVE FEED!Next
  <2>1. FEED!Join(s)
    BY <1>3 DEF Subscribe, FEED!Join, IInv, TelemetryTypeOK
  <2> QED
    BY <2>1 DEF FEED!Next
<1>4. ASSUME NEW s \in Subscribers, Unsubscribe(s) PROVE FEED!Next
  <2>1. FEED!Quit(s)
    BY <1>4 DEF Unsubscribe, FEED!Quit, IInv, TelemetryTypeOK
  <2> QED
    BY <2>1 DEF FEED!Next
<1>5. ASSUME \/ SendTelemetry
             \/ \E d \in onTheWay : LoseTelemetry(d)
             \/ ConnectionLost
             \/ UNCHANGED telemetryVars
      PROVE  UNCHANGED FEED!vars
  BY <1>5 DEF SendTelemetry, LoseTelemetry, ConnectionLost, telemetryVars, FEED!vars
<1> QED
  BY <1>1, <1>2, <1>3, <1>4, <1>5 DEF TelemetryNext

(* The telemetry channel implements Feed: a consumer gets arrived datagrams only,
   each once, in their order of arrival, with the oldest missing on overflow. *)
THEOREM TelemetryImplementsFeed == TelemetrySpec => FEED!SafeSpec
<1>1. TelemetryInit => FEED!Init
  BY DEF TelemetryInit, FEED!Init
<1>2. IInv /\ [TelemetryNext]_telemetryVars => [FEED!Next]_(FEED!vars)
  BY StepRefines
<1> QED
  BY <1>1, <1>2, Invariant, PTL DEF TelemetrySpec, FEED!SafeSpec
=============================================================================
