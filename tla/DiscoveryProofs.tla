--------------------------- MODULE DiscoveryProofs ---------------------------
(***************************************************************************)
(* Proofs about Discovery for any set of controllers and any number of     *)
(* changes.  The counter of changes is a bound of the model: only the      *)
(* types at the end speak of it, and versions are natural numbers before.  *)
(***************************************************************************)
EXTENDS Discovery, SequenceTheorems, TLAPS

Item == [serial : Names, state : {"added", "updated", "removed"}, data : Nat,
         addresses : BOOLEAN]

Job == [name : Names, state : {"added", "updated"}, since : Nat,
        retry : BOOLEAN]

Shape ==
  /\ announced \in [Names -> {"never", "added", "updated", "removed"}]
  /\ data \in [Names -> Nat]
  /\ resolving \subseteq Job
  /\ scanQueue \in Seq(Item)
  /\ DOMAIN latest \subseteq Names
  /\ \A n \in DOMAIN latest : latest[n] \in Item

Told(c) == c.state # "removed"

(* What is said of a controller gets no older from the result over the queue, in
   its order, to the controller's data. *)
InOrder ==
  /\ \A i, j \in 1 .. Len(scanQueue) :
       /\ i < j
       /\ scanQueue[i].serial = scanQueue[j].serial
       /\ Told(scanQueue[i]) /\ Told(scanQueue[j])
       => scanQueue[i].data <= scanQueue[j].data
  /\ \A i \in 1 .. Len(scanQueue) : Told(scanQueue[i]) =>
       /\ scanQueue[i].data <= data[scanQueue[i].serial]
       /\ scanQueue[i].serial \in DOMAIN latest =>
            latest[scanQueue[i].serial].data <= scanQueue[i].data
  /\ \A n \in DOMAIN latest : latest[n].data <= data[n]

(* The last that is queued of a controller removed in time is its removal. *)
RemovalLast == \A n \in Names : announced[n] = "removed" /\ n \notin overtaken =>
  /\ \A t \in resolving : t.name # n
  /\ \/ \E i \in 1 .. Len(scanQueue) :
          /\ scanQueue[i].serial = n /\ scanQueue[i].state = "removed"
          /\ \A j \in 1 .. Len(scanQueue) : i < j => scanQueue[j].serial # n
     \/ ~Queued(n) /\ n \notin DOMAIN latest

IInv == Shape /\ InOrder /\ RemovalLast

-----------------------------------------------------------------------------
LEMMA ItemType ==
  ASSUME Shape
  PROVE  /\ \A i \in 1 .. Len(scanQueue) :
              scanQueue[i].serial \in Names /\ scanQueue[i].data \in Nat
         /\ \A n \in DOMAIN latest : n \in Names /\ latest[n].data \in Nat
<1>1. \A i \in 1 .. Len(scanQueue) : scanQueue[i] \in Item
  BY ElementOfSeq DEF Shape
<1> QED
  BY <1>1 DEF Shape, Item

(* A step that queues c. *)
LEMMA AppendInOrder ==
  ASSUME Shape, InOrder, NEW c \in Item, scanQueue' = Append(scanQueue, c),
         Told(c) => c.data = data[c.serial],
         data' = data, latest' = latest
  PROVE  scanQueue' \in Seq(Item) /\ InOrder'
<1> DEFINE m == Len(scanQueue)
<1>1. /\ m \in Nat /\ Len(scanQueue') = m + 1 /\ scanQueue' \in Seq(Item)
      /\ \A i \in 1 .. m : scanQueue'[i] = scanQueue[i]
      /\ scanQueue'[m + 1] = c
  BY DEF Shape
<1>2. \A i \in 1 .. m + 1 : i \in 1 .. m \/ i = m + 1
  BY <1>1
<1>3. ASSUME NEW i \in 1 .. m + 1, Told(scanQueue'[i])
      PROVE  /\ scanQueue'[i].data <= data[scanQueue'[i].serial]
             /\ scanQueue'[i].serial \in DOMAIN latest =>
                  latest[scanQueue'[i].serial].data <= scanQueue'[i].data
  <2>1. CASE i \in 1 .. m
    BY <1>1, <1>3, <2>1 DEF InOrder
  <2>2. CASE i = m + 1
    <3>1. scanQueue'[i] = c /\ c.data = data[c.serial]
      BY <1>1, <1>3, <2>2
    <3>2. c.serial \in Names /\ c.data \in Nat
      BY DEF Item
    <3>3. c.serial \in DOMAIN latest => latest[c.serial].data <= c.data
      BY <3>1 DEF InOrder
    <3> QED
      BY <3>1, <3>2, <3>3
  <2> QED
    BY <1>2, <2>1, <2>2
<1>4. ASSUME NEW i \in 1 .. m + 1, NEW j \in 1 .. m + 1, i < j,
             scanQueue'[i].serial = scanQueue'[j].serial,
             Told(scanQueue'[i]), Told(scanQueue'[j])
      PROVE  scanQueue'[i].data <= scanQueue'[j].data
  <2>1. i \in 1 .. m
    BY <1>1, <1>4
  <2>2. CASE j \in 1 .. m
    BY <1>1, <1>4, <2>1, <2>2 DEF InOrder
  <2>3. CASE j = m + 1
    <3>1. /\ scanQueue'[j] = c /\ scanQueue'[i] = scanQueue[i]
          /\ Told(c) /\ Told(scanQueue[i])
      BY <1>1, <1>4, <2>1, <2>3
    <3>2. scanQueue[i].data <= data[c.serial]
      BY <1>4, <2>1, <3>1 DEF InOrder
    <3> QED
      BY <3>1, <3>2
  <2> QED
    BY <1>2, <2>2, <2>3
<1>5. \A n \in DOMAIN latest' : latest'[n].data <= data'[n]
  BY DEF InOrder
<1> QED
  BY <1>1, <1>3, <1>4, <1>5 DEF InOrder

(* A controller of which c does not speak is as removed as it was. *)
LEMMA AppendRemovalLast ==
  ASSUME Shape, NEW c \in Item, scanQueue' = Append(scanQueue, c), latest' = latest,
         NEW n \in Names, c.serial # n,
         \/ \E i \in 1 .. Len(scanQueue) :
              /\ scanQueue[i].serial = n /\ scanQueue[i].state = "removed"
              /\ \A j \in 1 .. Len(scanQueue) : i < j => scanQueue[j].serial # n
         \/ ~Queued(n) /\ n \notin DOMAIN latest
  PROVE  \/ \E i \in 1 .. Len(scanQueue') :
              /\ scanQueue'[i].serial = n /\ scanQueue'[i].state = "removed"
              /\ \A j \in 1 .. Len(scanQueue') : i < j => scanQueue'[j].serial # n
         \/ ~Queued(n)' /\ n \notin DOMAIN latest'
<1> DEFINE m == Len(scanQueue)
<1>1. /\ m \in Nat /\ Len(scanQueue') = m + 1
      /\ \A i \in 1 .. m : scanQueue'[i] = scanQueue[i]
      /\ scanQueue'[m + 1] = c
  BY DEF Shape
<1>2. \A i \in 1 .. m + 1 : i \in 1 .. m \/ i = m + 1
  BY <1>1
<1>3. CASE ~Queued(n) /\ n \notin DOMAIN latest
  BY <1>1, <1>2, <1>3 DEF Queued
<1>4. ASSUME NEW i \in 1 .. m,
             scanQueue[i].serial = n, scanQueue[i].state = "removed",
             \A j \in 1 .. m : i < j => scanQueue[j].serial # n
      PROVE  /\ i \in 1 .. m + 1
             /\ scanQueue'[i].serial = n /\ scanQueue'[i].state = "removed"
             /\ \A j \in 1 .. m + 1 : i < j => scanQueue'[j].serial # n
  BY <1>1, <1>2, <1>4
<1> QED
  BY <1>1, <1>3, <1>4

LEMMA StartResolveInv ==
  ASSUME IInv, NEW n \in Names, NEW st \in {"added", "updated"},
         StartResolve(n, st)
  PROVE  IInv'
<1>1. /\ announced' = [announced EXCEPT ![n] = st]
      /\ data' = [data EXCEPT ![n] = @ + 1]
      /\ UNCHANGED <<scanQueue, latest, overtaken>>
      /\ \A x \in Names : data'[x] \in Nat /\ data[x] \in Nat /\ data[x] <= data'[x]
      /\ \A t \in resolving' : t \in resolving \/ t.name = n
  BY DEF StartResolve, history, IInv, Shape
<1>2. Shape'
  <2>1. resolving' \subseteq Job
    <3>1. data[n] + 1 \in Nat
      BY <1>1
    <3>2. [name |-> n, state |-> st, since |-> data[n] + 1, retry |-> FALSE] \in Job
      BY <3>1 DEF Job
    <3> QED
      BY <3>2 DEF StartResolve, IInv, Shape
  <2>2. data' \in [Names -> Nat]
    BY <1>1 DEF IInv, Shape
  <2> QED
    BY <1>1, <2>1, <2>2 DEF IInv, Shape
<1>3. InOrder'
  <2>1. \A i \in 1 .. Len(scanQueue) :
          scanQueue[i].serial \in Names /\ scanQueue[i].data \in Nat
    BY ItemType DEF IInv
  <2>2. \A x \in DOMAIN latest : x \in Names /\ latest[x].data \in Nat
    BY ItemType DEF IInv
  <2> QED
    BY <1>1, <2>1, <2>2 DEF IInv, InOrder
<1>4. RemovalLast'
  <2> SUFFICES ASSUME NEW x \in Names, announced'[x] = "removed", x \notin overtaken'
               PROVE  /\ \A t \in resolving' : t.name # x
                      /\ \/ \E i \in 1 .. Len(scanQueue) :
                              /\ scanQueue[i].serial = x /\ scanQueue[i].state = "removed"
                              /\ \A j \in 1 .. Len(scanQueue) :
                                   i < j => scanQueue[j].serial # x
                         \/ ~Queued(x) /\ x \notin DOMAIN latest
    BY <1>1 DEF RemovalLast, Queued
  <2>1. x # n /\ announced[x] = "removed"
    BY <1>1 DEF IInv, Shape
  <2> QED
    BY <1>1, <2>1 DEF IInv, RemovalLast
<1> QED
  BY <1>2, <1>3, <1>4 DEF IInv

LEMMA RemovedInv ==
  ASSUME IInv, NEW n \in Names, OnChangeRemoved(n)
  PROVE  IInv'
<1> DEFINE m == Len(scanQueue)
<1>1. /\ Gone(n) \in Item /\ ~Told(Gone(n))
      /\ Gone(n).serial = n /\ Gone(n).state = "removed"
  BY DEF Gone, Item, Told
<1>2. /\ scanQueue' = Append(scanQueue, Gone(n)) /\ latest' = latest /\ data' = data
      /\ resolving' = resolving /\ announced' = [announced EXCEPT ![n] = "removed"]
      /\ overtaken \subseteq overtaken'
      /\ (\E t \in resolving : t.name = n) => n \in overtaken'
  BY DEF OnChangeRemoved, versions
<1>3. scanQueue' \in Seq(Item) /\ InOrder'
  BY <1>1, <1>2, AppendInOrder DEF IInv
<1>4. Shape'
  BY <1>2, <1>3 DEF IInv, Shape
<1>5. RemovalLast'
  <2> SUFFICES ASSUME NEW x \in Names, announced'[x] = "removed", x \notin overtaken'
               PROVE  /\ \A t \in resolving' : t.name # x
                      /\ \/ \E i \in 1 .. Len(scanQueue') :
                              /\ scanQueue'[i].serial = x /\ scanQueue'[i].state = "removed"
                              /\ \A j \in 1 .. Len(scanQueue') :
                                   i < j => scanQueue'[j].serial # x
                         \/ ~Queued(x)' /\ x \notin DOMAIN latest'
    BY DEF RemovalLast
  <2>1. CASE x = n
    <3>1. /\ m \in Nat /\ Len(scanQueue') = m + 1 /\ scanQueue'[m + 1] = Gone(n)
      BY <1>2 DEF IInv, Shape
    <3>2. \A j \in 1 .. m + 1 : ~(m + 1 < j)
      BY <3>1
    <3> QED
      BY <1>1, <1>2, <2>1, <3>1, <3>2
  <2>2. CASE x # n
    <3>1. announced[x] = "removed" /\ x \notin overtaken
      BY <1>2, <2>2 DEF IInv, Shape
    <3> QED
      BY <1>1, <1>2, <2>2, <3>1, AppendRemovalLast DEF IInv, RemovalLast
  <2> QED
    BY <2>1, <2>2
<1> QED
  BY <1>3, <1>4, <1>5 DEF IInv

(* A task that ends queues what is known of the controller by then. *)
LEMMA PutInv ==
  ASSUME IInv, NEW t \in resolving, NEW ad \in BOOLEAN, Put(t, ad),
         UNCHANGED <<announced, data, latest, overtaken>>
  PROVE  IInv'
<1> DEFINE c == InfoToController(t, ad)
<1>1. /\ c \in Item /\ Told(c) /\ c.data = data[c.serial] /\ c.serial = t.name
      /\ t.name \in Names
  BY DEF InfoToController, Item, Told, IInv, Shape, Job
<1>2. scanQueue' = Append(scanQueue, c) /\ resolving' \subseteq resolving
  BY DEF Put
<1> HIDE DEF c
<1>3. scanQueue' \in Seq(Item) /\ InOrder'
  BY <1>1, <1>2, AppendInOrder DEF IInv
<1>4. Shape'
  BY <1>2, <1>3 DEF IInv, Shape
<1>5. RemovalLast'
  <2> SUFFICES ASSUME NEW x \in Names, announced[x] = "removed", x \notin overtaken
               PROVE  /\ \A u \in resolving' : u.name # x
                      /\ \/ \E i \in 1 .. Len(scanQueue') :
                              /\ scanQueue'[i].serial = x /\ scanQueue'[i].state = "removed"
                              /\ \A j \in 1 .. Len(scanQueue') :
                                   i < j => scanQueue'[j].serial # x
                         \/ ~Queued(x)' /\ x \notin DOMAIN latest'
    BY DEF RemovalLast
  <2>1. \A u \in resolving : u.name # x
    BY DEF IInv, RemovalLast
  <2> QED
    BY <1>1, <1>2, <2>1, AppendRemovalLast DEF IInv, RemovalLast
<1> QED
  BY <1>3, <1>4, <1>5 DEF IInv

(* A task that fails or asks again leaves the queue and the result alone. *)
LEMMA NoPutInv ==
  ASSUME IInv,
         \A t \in resolving' : t \in Job /\ \E u \in resolving : t.name = u.name,
         UNCHANGED <<announced, data, scanQueue, latest, overtaken>>
  PROVE  IInv'
<1>1. Shape' /\ InOrder'
  BY DEF IInv, Shape, InOrder
<1>2. RemovalLast'
  BY DEF IInv, RemovalLast, Queued
<1> QED
  BY <1>1, <1>2 DEF IInv

LEMMA ResolveInv ==
  ASSUME IInv, NEW t \in resolving, ResolveStep(t)
  PROVE  IInv'
<1>1. CASE ResolveFails(t)
  BY <1>1, NoPutInv DEF ResolveFails, versions, IInv, Shape
<1>2. CASE ResolveAnswered(t)
  BY <1>2, PutInv DEF ResolveAnswered, versions, history
<1>3. CASE ResolveAgain(t)
  <2>1. [t EXCEPT !.retry = TRUE] \in Job /\ [t EXCEPT !.retry = TRUE].name = t.name
    BY DEF IInv, Shape, Job
  <2> QED
    BY <1>3, <2>1, NoPutInv DEF ResolveAgain, versions, history, IInv, Shape
<1>4. CASE RetryEnds(t)
  BY <1>4, PutInv DEF RetryEnds, versions, history
<1> QED
  BY <1>1, <1>2, <1>3, <1>4 DEF ResolveStep

-----------------------------------------------------------------------------
(* The head of the queue goes into the result, or takes its controller out. *)
LEMMA CollectFacts ==
  ASSUME IInv, Collect
  PROVE  /\ Head(scanQueue) \in Item /\ 1 \in 1 .. Len(scanQueue)
         /\ Head(scanQueue) = scanQueue[1]
         /\ scanQueue' \in Seq(Item) /\ Len(scanQueue') = Len(scanQueue) - 1
         /\ \A i \in 1 .. Len(scanQueue') :
              i + 1 \in 1 .. Len(scanQueue) /\ scanQueue'[i] = scanQueue[i + 1]
         /\ DOMAIN latest' \subseteq DOMAIN latest \cup {Head(scanQueue).serial}
         /\ Head(scanQueue).serial \in DOMAIN latest' => Told(Head(scanQueue))
         /\ \A n \in DOMAIN latest' :
              latest'[n] = IF n = Head(scanQueue).serial THEN Head(scanQueue)
                                                     ELSE latest[n]
<1>1. scanQueue # <<>> /\ scanQueue' = Tail(scanQueue) /\ scanQueue \in Seq(Item)
  BY DEF Collect, IInv, Shape
<1>2. /\ Len(scanQueue) \in Nat /\ Len(scanQueue) >= 1
      /\ Len(scanQueue') = Len(scanQueue) - 1 /\ scanQueue' \in Seq(Item)
      /\ Head(scanQueue) = scanQueue[1] /\ Head(scanQueue) \in Item
  BY <1>1, EmptySeq
<1>3. \A i \in 1 .. Len(scanQueue') :
        i + 1 \in 1 .. Len(scanQueue) /\ scanQueue'[i] = scanQueue[i + 1]
  BY <1>1, <1>2, HeadTailProperties
<1>4. /\ DOMAIN latest' \subseteq DOMAIN latest \cup {Head(scanQueue).serial}
      /\ Head(scanQueue).serial \in DOMAIN latest' => Told(Head(scanQueue))
      /\ \A n \in DOMAIN latest' :
           latest'[n] = IF n = Head(scanQueue).serial THEN Head(scanQueue) ELSE latest[n]
  BY DEF Collect, Restrict, Told
<1> QED
  BY <1>2, <1>3, <1>4

LEMMA CollectInv ==
  ASSUME IInv, Collect
  PROVE  IInv'
<1> DEFINE c == Head(scanQueue)
<1> DEFINE m == Len(scanQueue)
<1>1. /\ c \in Item /\ 1 \in 1 .. m /\ c = scanQueue[1] /\ m \in Nat
      /\ scanQueue' \in Seq(Item) /\ Len(scanQueue') = m - 1
      /\ \A i \in 1 .. m - 1 : i + 1 \in 1 .. m /\ scanQueue'[i] = scanQueue[i + 1]
      /\ DOMAIN latest' \subseteq DOMAIN latest \cup {c.serial}
      /\ c.serial \in DOMAIN latest' => Told(c)
      /\ \A n \in DOMAIN latest' :
           latest'[n] = IF n = c.serial THEN c ELSE latest[n]
  BY CollectFacts DEF IInv, Shape
<1>2. c.serial \in Names /\ UNCHANGED <<announced, data, resolving, overtaken>>
  BY <1>1 DEF Item, Collect, versions, history
<1> HIDE DEF c, m
<1>3. Shape'
  BY <1>1, <1>2 DEF IInv, Shape
<1>4. InOrder'
  <2>1. ASSUME NEW i \in 1 .. m - 1, NEW j \in 1 .. m - 1, i < j,
               scanQueue'[i].serial = scanQueue'[j].serial,
               Told(scanQueue'[i]), Told(scanQueue'[j])
        PROVE  scanQueue'[i].data <= scanQueue'[j].data
    BY <1>1, <2>1 DEF m, IInv, InOrder
  <2>2. ASSUME NEW i \in 1 .. m - 1, Told(scanQueue'[i])
        PROVE  /\ scanQueue'[i].data <= data'[scanQueue'[i].serial]
               /\ scanQueue'[i].serial \in DOMAIN latest' =>
                    latest'[scanQueue'[i].serial].data <= scanQueue'[i].data
    <3>1. i + 1 \in 1 .. m /\ 1 < i + 1 /\ scanQueue'[i] = scanQueue[i + 1]
      BY <1>1
    <3>2. scanQueue'[i].data <= data'[scanQueue'[i].serial]
      BY <1>2, <2>2, <3>1 DEF m, IInv, InOrder
    <3>3. ASSUME scanQueue'[i].serial \in DOMAIN latest'
          PROVE  latest'[scanQueue'[i].serial].data <= scanQueue'[i].data
      <4>1. CASE scanQueue'[i].serial = c.serial
        BY <1>1, <2>2, <3>1, <3>3, <4>1 DEF m, IInv, InOrder
      <4>2. CASE scanQueue'[i].serial # c.serial
        BY <1>1, <2>2, <3>1, <3>3, <4>2 DEF m, IInv, InOrder
      <4> QED
        BY <4>1, <4>2
    <3> QED
      BY <3>2, <3>3
  <2>3. ASSUME NEW n \in DOMAIN latest' PROVE latest'[n].data <= data'[n]
    <3>1. CASE n = c.serial
      <4>1. latest'[n] = c /\ Told(scanQueue[1]) /\ c = scanQueue[1]
        BY <1>1, <2>3, <3>1
      <4> QED
        BY <1>1, <1>2, <3>1, <4>1 DEF m, IInv, InOrder
    <3>2. CASE n # c.serial
      BY <1>1, <1>2, <2>3, <3>2 DEF IInv, InOrder
    <3> QED
      BY <3>1, <3>2
  <2> QED
    BY <1>1, <2>1, <2>2, <2>3 DEF InOrder
<1>5. RemovalLast'
  <2> SUFFICES ASSUME NEW x \in Names, announced[x] = "removed", x \notin overtaken
               PROVE  /\ \A t \in resolving : t.name # x
                      /\ \/ \E i \in 1 .. m - 1 :
                              /\ scanQueue'[i].serial = x /\ scanQueue'[i].state = "removed"
                              /\ \A j \in 1 .. m - 1 : i < j => scanQueue'[j].serial # x
                         \/ ~Queued(x)' /\ x \notin DOMAIN latest'
    BY <1>1, <1>2 DEF RemovalLast
  <2>1. /\ \A t \in resolving : t.name # x
        /\ \/ \E i \in 1 .. m :
                /\ scanQueue[i].serial = x /\ scanQueue[i].state = "removed"
                /\ \A j \in 1 .. m : i < j => scanQueue[j].serial # x
           \/ ~Queued(x) /\ x \notin DOMAIN latest
    BY DEF m, IInv, RemovalLast
  <2>2. CASE ~Queued(x) /\ x \notin DOMAIN latest
    <3>1. c.serial # x
      BY <1>1, <2>2 DEF m, Queued
    <3> QED
      BY <1>1, <2>1, <2>2, <3>1 DEF m, Queued
  <2>3. ASSUME NEW i \in 1 .. m, i # 1,
               scanQueue[i].serial = x, scanQueue[i].state = "removed",
               \A j \in 1 .. m : i < j => scanQueue[j].serial # x
        PROVE  \E h \in 1 .. m - 1 :
                 /\ scanQueue'[h].serial = x /\ scanQueue'[h].state = "removed"
                 /\ \A j \in 1 .. m - 1 : h < j => scanQueue'[j].serial # x
    <3>1. i - 1 \in 1 .. m - 1 /\ scanQueue'[i - 1] = scanQueue[i]
      BY <1>1, <2>3
    <3>2. \A j \in 1 .. m - 1 : i - 1 < j => scanQueue'[j].serial # x
      BY <1>1, <2>3
    <3> QED
      BY <2>3, <3>1, <3>2
  <2>4. ASSUME scanQueue[1].serial = x, scanQueue[1].state = "removed",
               \A j \in 1 .. m : 1 < j => scanQueue[j].serial # x
        PROVE  ~Queued(x)' /\ x \notin DOMAIN latest'
    <3>1. x \notin DOMAIN latest'
      BY <1>1, <2>4 DEF Told
    <3>2. \A j \in 1 .. m - 1 : scanQueue'[j].serial # x
      BY <1>1, <2>4
    <3> QED
      BY <1>1, <3>1, <3>2 DEF Queued
  <2> QED
    BY <2>1, <2>2, <2>3, <2>4
<1> QED
  BY <1>3, <1>4, <1>5 DEF IInv

LEMMA InitInv == ScanInit => IInv
<1> SUFFICES ASSUME ScanInit PROVE IInv
  OBVIOUS
<1>1. DOMAIN latest = {} /\ Len(scanQueue) = 0
  BY DEF ScanInit
<1>2. Shape
  BY <1>1 DEF ScanInit, Shape
<1>3. InOrder /\ RemovalLast
  BY <1>1 DEF ScanInit, InOrder, RemovalLast
<1> QED
  BY <1>2, <1>3 DEF IInv

LEMMA StepInv == IInv /\ [ScanNext]_scanVars => IInv'
<1> SUFFICES ASSUME IInv, [ScanNext]_scanVars PROVE IInv'
  OBVIOUS
<1>1. ASSUME NEW n \in Names, OnChangeAdded(n) \/ OnChangeUpdated(n)
      PROVE  IInv'
  BY <1>1, StartResolveInv DEF OnChangeAdded, OnChangeUpdated
<1>2. ASSUME NEW n \in Names, OnChangeRemoved(n) PROVE IInv'
  BY <1>2, RemovedInv
<1>3. ASSUME NEW t \in resolving, ResolveStep(t) PROVE IInv'
  BY <1>3, ResolveInv
<1>4. CASE Collect
  BY <1>4, CollectInv
<1>5. CASE ScanEnds \/ UNCHANGED scanVars
  BY <1>5, NoPutInv DEF ScanEnds, history, versions, scanVars, IInv, Shape
<1> QED
  BY <1>1, <1>2, <1>3, <1>4, <1>5 DEF ScanNext

LEMMA Invariant == ScanSpec => []IInv
<1>1. ScanInit => IInv
  BY InitInv
<1>2. IInv /\ [ScanNext]_scanVars => IInv'
  BY StepInv
<1> QED
  BY <1>1, <1>2, PTL DEF ScanSpec

(* A controller that was removed while nothing asked for its data is not in the
   result once the queue has been read of it. *)
THEOREM RemovedInTimeIsGone == ScanSpec => []RemovedWhenSettled
<1>1. IInv => RemovedWhenSettled
  BY DEF IInv, RemovalLast, RemovedWhenSettled, Queued
<1> QED
  BY <1>1, Invariant, PTL

(* An entry of the result is never replaced by older data, in whatever order the
   tasks that ask for a controller's data end. *)
THEOREM LatestNeverOlder == ScanSpec => NeverOlder
<1>1. IInv /\ [ScanNext]_scanVars =>
        [\A n \in DOMAIN latest \cap DOMAIN latest' :
           latest'[n].data >= latest[n].data]_scanVars
  <2> SUFFICES ASSUME IInv, [ScanNext]_scanVars,
                      NEW n \in DOMAIN latest \cap DOMAIN latest'
               PROVE  latest'[n].data >= latest[n].data
    OBVIOUS
  <2>1. CASE Collect
    <3>1. /\ Head(scanQueue) = scanQueue[1] /\ 1 \in 1 .. Len(scanQueue)
          /\ n = Head(scanQueue).serial => Told(scanQueue[1])
          /\ latest'[n] = IF n = Head(scanQueue).serial THEN Head(scanQueue) ELSE latest[n]
      BY <2>1, CollectFacts
    <3>2. latest[n].data \in Nat
      BY ItemType DEF IInv
    <3>3. n = Head(scanQueue).serial => latest[n].data <= scanQueue[1].data
      BY <3>1 DEF IInv, InOrder
    <3>4. scanQueue[1].data \in Nat
      BY <3>1, ItemType DEF IInv
    <3> QED
      BY <3>1, <3>2, <3>3, <3>4
  <2>2. CASE ~Collect
    <3>1. latest' = latest
      BY <2>2 DEF ScanNext, OnChangeAdded, OnChangeUpdated, StartResolve,
         OnChangeRemoved, ResolveStep, ResolveFails, ResolveAnswered,
         ResolveAgain, RetryEnds, ScanEnds, scanVars
    <3>2. latest[n].data \in Nat
      BY ItemType DEF IInv
    <3> QED
      BY <3>1, <3>2
  <2> QED
    BY <2>1, <2>2
<1> QED
  BY <1>1, Invariant, PTL DEF ScanSpec, NeverOlder
-----------------------------------------------------------------------------
(* Types: a version is a number of changes, and a task was started by one. *)

TypeInv ==
  /\ ScanTypeOK
  /\ \A n \in Names : data[n] <= changes
  /\ \A t \in resolving : data[t.name] >= 1

Queueable == Found \cup {Gone(n) : n \in Names}

LEMMA StartResolveTypes ==
  ASSUME TypeInv, NEW n \in Names, NEW state \in {"added", "updated"}, StartResolve(n, state)
  PROVE  TypeInv'
<1> DEFINE task == [name |-> n, state |-> state, since |-> data[n] + 1, retry |-> FALSE]
<1>1. /\ changes \in Nat /\ MaxChanges \in Nat /\ changes < MaxChanges
      /\ changes' = changes + 1
      /\ \A m \in Names : data[m] \in Nat /\ data[m] <= changes
      /\ data \in [Names -> 0 .. MaxChanges]
  BY ChangesAssumption DEF TypeInv, ScanTypeOK, StartResolve
<1>2. /\ data' = [data EXCEPT ![n] = @ + 1]
      /\ resolving' = resolving \cup {task}
      /\ announced' = [announced EXCEPT ![n] = state]
      /\ UNCHANGED <<scanQueue, latest, over, failed, overtaken>>
  BY DEF StartResolve, history
<1>3. data[n] + 1 \in Versions /\ data[n] + 1 \in 0 .. MaxChanges /\ data[n] + 1 >= 1
      /\ changes' \in 0 .. MaxChanges
  BY <1>1 DEF Versions
<1>4. /\ data' \in [Names -> 0 .. MaxChanges]
      /\ \A m \in Names : data'[m] <= changes' /\ data'[m] >= data[m]
      /\ data'[n] = data[n] + 1
  BY <1>1, <1>2, <1>3
<1>5. task \in Tasks /\ task.name = n
  BY <1>3 DEF Tasks
<1>6. announced' \in [Names -> {"never", "added", "updated", "removed"}]
  BY <1>2 DEF TypeInv, ScanTypeOK
<1>7. \A t \in resolving' : data'[t.name] >= 1
  <2>1. ASSUME NEW t \in resolving PROVE data'[t.name] >= 1
    <3>1. t.name \in Names /\ data[t.name] >= 1 /\ data[t.name] \in Nat
      BY <1>1 DEF TypeInv, ScanTypeOK, Tasks
    <3>2. data'[t.name] \in 0 .. MaxChanges /\ data'[t.name] >= data[t.name]
      BY <1>4, <3>1
    <3> QED
      BY <1>1, <3>1, <3>2
  <2> QED
    BY <1>1, <1>2, <1>3, <1>4, <1>5, <2>1
<1> QED
  BY <1>2, <1>3, <1>4, <1>5, <1>6, <1>7 DEF TypeInv, ScanTypeOK

LEMMA AppendTypes ==
  ASSUME TypeInv, NEW c \in Queueable, scanQueue' = Append(scanQueue, c),
         resolving' \subseteq resolving,
         announced' \in [Names -> {"never", "added", "updated", "removed"}],
         overtaken' \subseteq Names, UNCHANGED <<data, changes, latest, over, failed>>
  PROVE  TypeInv'
<1>1. scanQueue' \in Seq(Queueable)
  BY AppendProperties DEF TypeInv, ScanTypeOK, Queueable
<1> QED
  BY <1>1 DEF TypeInv, ScanTypeOK, Queueable

LEMMA PutTypes ==
  ASSUME TypeInv, NEW t \in resolving, NEW addresses \in BOOLEAN, Put(t, addresses),
         UNCHANGED <<announced, data, changes, latest, over, failed, overtaken>>
  PROVE  TypeInv'
<1>1. /\ t.name \in Names /\ t.state \in {"added", "updated"}
      /\ data[t.name] \in 0 .. MaxChanges /\ data[t.name] >= 1
  BY DEF TypeInv, ScanTypeOK, Tasks
<1>2. InfoToController(t, addresses) \in Queueable
  BY <1>1, ChangesAssumption DEF InfoToController, Queueable, Found, Versions
<1> QED
  BY <1>2, AppendTypes DEF Put, TypeInv, ScanTypeOK

LEMMA ResolveTypes ==
  ASSUME TypeInv, NEW t \in resolving, ResolveStep(t)
  PROVE  TypeInv'
<1>1. CASE ResolveFails(t)
  <2>1. t.name \in Names
    BY DEF TypeInv, ScanTypeOK, Tasks
  <2> QED
    BY <1>1, <2>1 DEF ResolveFails, versions, TypeInv, ScanTypeOK
<1>2. CASE ResolveAnswered(t)
  BY <1>2, PutTypes DEF ResolveAnswered, versions, history
<1>3. CASE ResolveAgain(t)
  <2> DEFINE u == [t EXCEPT !.retry = TRUE]
  <2>1. u \in Tasks /\ u.name = t.name
    BY DEF TypeInv, ScanTypeOK, Tasks
  <2>2. /\ resolving' = (resolving \ {t}) \cup {u}
        /\ UNCHANGED <<announced, data, changes, scanQueue, latest, over, failed, overtaken>>
    BY <1>3 DEF ResolveAgain, versions, history
  <2> HIDE DEF u
  <2> QED
    BY <2>1, <2>2 DEF TypeInv, ScanTypeOK
<1>4. CASE RetryEnds(t)
  BY <1>4, PutTypes DEF RetryEnds, versions, history
<1> QED
  BY <1>1, <1>2, <1>3, <1>4 DEF ResolveStep

LEMMA CollectTypes ==
  ASSUME TypeInv, Collect
  PROVE  TypeInv'
<1> DEFINE c == Head(scanQueue)
<1>1. c \in Queueable /\ scanQueue' \in Seq(Queueable)
  <2>1. scanQueue \in Seq(Queueable) /\ scanQueue # <<>> /\ scanQueue' = Tail(scanQueue)
    BY DEF TypeInv, ScanTypeOK, Queueable, Collect
  <2> QED
    BY <2>1, HeadTailProperties
<1>2. UNCHANGED <<announced, data, changes, resolving, over, failed, overtaken>>
  BY DEF Collect, versions, history
<1>3. CASE c.state = "removed"
  <2>1. /\ DOMAIN latest' \subseteq DOMAIN latest
        /\ \A n \in DOMAIN latest' : latest'[n] = latest[n]
    BY <1>3 DEF Collect, Restrict
  <2> QED
    BY <1>1, <1>2, <2>1 DEF TypeInv, ScanTypeOK, Queueable
<1>4. CASE c.state # "removed"
  <2>1. c \in Found /\ c.serial \in Names
    BY <1>1, <1>4 DEF Queueable, Gone, Found
  <2>2. latest' = [n \in DOMAIN latest \cup {c.serial} |-> IF n = c.serial THEN c ELSE latest[n]]
    BY <1>4 DEF Collect
  <2>3. /\ DOMAIN latest' \subseteq Names
        /\ \A n \in DOMAIN latest' : latest'[n] \in Found /\ latest'[n].serial = n
    BY <2>1, <2>2 DEF TypeInv, ScanTypeOK
  <2> QED
    BY <1>1, <1>2, <2>3 DEF TypeInv, ScanTypeOK, Queueable
<1> QED
  BY <1>3, <1>4

(* Every variable of a scan keeps its type: nothing but removals is told of without
   a version, and what is found is entered under its own serial. *)
THEOREM TypeCorrect == ScanSpec => []ScanTypeOK
<1>1. ScanInit => TypeInv
  <2> SUFFICES ASSUME ScanInit PROVE TypeInv
    OBVIOUS
  <2>1. scanQueue \in Seq(Queueable)
    <3>1. scanQueue = <<>>
      BY DEF ScanInit
    <3> QED
      BY <3>1, EmptySeq
  <2>3. DOMAIN latest = {}
    <3>1. latest = <<>>
      BY DEF ScanInit
    <3> QED
      BY <3>1
  <2>2. 0 \in 0 .. MaxChanges
    BY ChangesAssumption
  <2>4. /\ announced = [n \in Names |-> "never"] /\ data = [n \in Names |-> 0]
        /\ changes = 0 /\ resolving = {} /\ over = FALSE /\ failed = {} /\ overtaken = {}
    BY DEF ScanInit
  <2> QED
    <3>1. /\ announced \in [Names -> {"never", "added", "updated", "removed"}]
          /\ data \in [Names -> 0 .. MaxChanges]
          /\ resolving \subseteq Tasks
      BY <2>2, <2>4
    <3>2. \A n \in Names : data[n] <= changes
      BY <2>4
    <3> QED
      BY <2>1, <2>2, <2>3, <2>4, <3>1, <3>2 DEF TypeInv, ScanTypeOK, Queueable
<1>2. TypeInv /\ [ScanNext]_scanVars => TypeInv'
  <2> SUFFICES ASSUME TypeInv, [ScanNext]_scanVars PROVE TypeInv'
    OBVIOUS
  <2>1. ASSUME NEW n \in Names, OnChangeAdded(n) \/ OnChangeUpdated(n) PROVE TypeInv'
    BY <2>1, StartResolveTypes DEF OnChangeAdded, OnChangeUpdated
  <2>2. ASSUME NEW n \in Names, OnChangeRemoved(n) PROVE TypeInv'
    <3>1. Gone(n) \in Queueable
      BY DEF Queueable
    <3>2. announced' \in [Names -> {"never", "added", "updated", "removed"}]
      BY <2>2 DEF OnChangeRemoved, TypeInv, ScanTypeOK
    <3>3. overtaken' \subseteq Names
      BY <2>2 DEF OnChangeRemoved, TypeInv, ScanTypeOK
    <3> QED
      BY <2>2, <3>1, <3>2, <3>3, AppendTypes DEF OnChangeRemoved, versions
  <2>3. ASSUME NEW t \in resolving, ResolveStep(t) PROVE TypeInv'
    BY <2>3, ResolveTypes
  <2>4. CASE Collect
    BY <2>4, CollectTypes
  <2>5. CASE ScanEnds \/ UNCHANGED scanVars
    BY <2>5 DEF ScanEnds, scanVars, versions, history, TypeInv, ScanTypeOK
  <2> QED
    BY <2>1, <2>2, <2>3, <2>4, <2>5 DEF ScanNext
<1>3. TypeInv => ScanTypeOK
  BY DEF TypeInv
<1> QED
  BY <1>1, <1>2, <1>3, PTL DEF ScanSpec
=============================================================================
