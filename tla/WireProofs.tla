------------------------------ MODULE WireProofs ------------------------------
(***************************************************************************)
(* Proofs about Wire: of the motion commands that arrive the one sent last *)
(* is executed, and every message is understood as it was meant, for any   *)
(* number of sends and any contents.                                       *)
(*                                                                         *)
(* What the codecs do to a message is calculated: a table read with the    *)
(* layout it was written with, whose fields have slots of their own, gives *)
(* back every field; the layouts of the two sides are the same, and so are *)
(* their enums and tags.                                                   *)
(***************************************************************************)
EXTENDS Wire, SequenceTheorems, FiniteSetTheorems, TLAPS

-----------------------------------------------------------------------------
(* Motion commands: the command executed is the one sent last *)

Seen == flying \cup arrived

(* No datagram is from the future. *)
Ordered == \A d \in Seen : d.order <= sends

(* Numbers follow the order of sending and stay below the counter: a later send
   gets a higher number. *)
Numbered == ~rewound =>
  /\ \A d \in Seen : d.seq < nextSeq
  /\ \A d, e \in Seen : d.order < e.order => d.seq < e.seq

(* The controller's last number is that of the command it executes, and no
   number it received is higher. *)
Newest ==
  /\ \A d \in arrived : d.seq <= lastSeq
  /\ arrived # {} => \E c \in arrived : c.order = current /\ c.seq = lastSeq
  /\ arrived = {} => lastSeq = -1

IInv == MotionTypeOK /\ Ordered /\ Numbered /\ Newest

-----------------------------------------------------------------------------
(* The controller executes the command with the highest number, and numbers
   grow with the order of sending. *)
LEMMA NewestFollows == IInv => NewestWins
<1> SUFFICES ASSUME IInv, ~rewound, NEW d \in arrived
             PROVE  d.order <= current
  BY DEF NewestWins
<1>1. PICK c \in arrived : c.order = current /\ c.seq = lastSeq
  BY DEF IInv, Newest
<1>2. d.seq <= c.seq
  BY <1>1 DEF IInv, Newest
<1>3. c.order < d.order => c.seq < d.seq
  BY DEF IInv, Numbered, Seen
<1>4. /\ c.seq \in Nat /\ d.seq \in Nat
      /\ c.order \in Nat /\ d.order \in Nat
  BY DEF IInv, MotionTypeOK, Datagrams
<1> QED
  BY <1>1, <1>2, <1>3, <1>4

LEMMA InitInv == MotionInit => IInv
<1> SUFFICES ASSUME MotionInit PROVE IInv
  OBVIOUS
<1>1. closed \in BOOLEAN /\ link \in BOOLEAN /\ rewound \in BOOLEAN
  BY Zenon DEF MotionInit
<1>2. nextSeq \in Nat \ {0} /\ sends \in 0 .. MaxSends
  BY SendsAssumption DEF MotionInit
<1>3. lastSeq \in Nat \cup {-1} /\ current \in 0 .. MaxSends
  BY SendsAssumption DEF MotionInit
<1>4. flying \subseteq Datagrams /\ arrived \subseteq Datagrams
  BY DEF MotionInit
<1>5. MotionTypeOK
  BY <1>1, <1>2, <1>3, <1>4 DEF MotionTypeOK
<1>6. Ordered /\ Numbered
  BY DEF MotionInit, Ordered, Numbered, Seen
<1>7. Newest
  BY DEF MotionInit, Newest
<1> QED
  BY <1>5, <1>6, <1>7 DEF IInv

(* A call takes the counter, or a number of its own, and moves the counter past
   it. *)
LEMMA NextSeqType ==
  ASSUME MotionTypeOK, NEW seq \in SeqArguments, NextSeq(seq)
  PROVE  /\ SeqUsed(seq) \in Nat
         /\ nextSeq' = SeqUsed(seq) + 1
         /\ nextSeq' \in Nat \ {0}
         /\ rewound' \in BOOLEAN
         /\ ~rewound' => ~rewound /\ nextSeq <= SeqUsed(seq)
<1>1. SeqUsed(seq) \in Nat
  BY SendsAssumption DEF SeqArguments, SeqUsed, Automatic, MotionTypeOK
<1>2. nextSeq' = SeqUsed(seq) + 1
  BY DEF NextSeq
<1>3. nextSeq' \in Nat \ {0}
  BY <1>1, <1>2
<1>4. rewound' = (rewound \/ SeqUsed(seq) < nextSeq)
  BY DEF NextSeq
<1>5. rewound' \in BOOLEAN
  BY <1>4, Zenon DEF MotionTypeOK
<1>6. ~rewound' => ~rewound /\ ~(SeqUsed(seq) < nextSeq)
  BY <1>4
<1>7. ~(SeqUsed(seq) < nextSeq) => nextSeq <= SeqUsed(seq)
  BY <1>1 DEF MotionTypeOK
<1> QED
  BY <1>1, <1>2, <1>3, <1>5, <1>6, <1>7

LEMMA SendInv ==
  ASSUME IInv, NEW seq \in SeqArguments, Send(seq)
  PROVE  IInv'
<1> DEFINE n == [seq |-> SeqUsed(seq), order |-> sends + 1]
<1>1. /\ SeqUsed(seq) \in Nat
      /\ nextSeq' = SeqUsed(seq) + 1
      /\ nextSeq' \in Nat \ {0}
      /\ rewound' \in BOOLEAN
      /\ ~rewound' => ~rewound /\ nextSeq <= SeqUsed(seq)
  BY NextSeqType DEF IInv, Send
<1>2. sends \in Nat /\ sends + 1 \in 1 .. MaxSends /\ sends' = sends + 1
  BY SendsAssumption DEF IInv, MotionTypeOK, Send
<1>3. n \in Datagrams /\ n.seq = SeqUsed(seq) /\ n.order = sends + 1
  BY <1>1, <1>2 DEF Datagrams
<1>4. Seen' \subseteq Seen \cup {n} /\ arrived' = arrived
  BY DEF Send, Seen
<1>5. \A d \in Seen : d \in Datagrams /\ d.seq \in Nat /\ d.order \in Nat
  BY DEF IInv, MotionTypeOK, Seen, Datagrams
<1>6. MotionTypeOK'
  <2>1. flying' \subseteq Datagrams
    BY <1>3 DEF IInv, MotionTypeOK, Send
  <2> QED
    BY <2>1, <1>1, <1>2 DEF IInv, MotionTypeOK, Send, controller
<1>7. Ordered'
  BY <1>2, <1>3, <1>4, <1>5 DEF IInv, Ordered
<1>8. Numbered'
  <2> SUFFICES ASSUME ~rewound'
               PROVE  /\ \A d \in Seen' : d.seq < nextSeq'
                      /\ \A d, e \in Seen' : d.order < e.order => d.seq < e.seq
    BY DEF Numbered
  <2>1. /\ nextSeq \in Nat /\ nextSeq <= SeqUsed(seq)
        /\ \A d \in Seen : d.seq < nextSeq
        /\ \A d, e \in Seen : d.order < e.order => d.seq < e.seq
    BY <1>1 DEF IInv, Numbered, MotionTypeOK
  <2>2. \A d \in Seen : d.order <= sends
    BY DEF IInv, Ordered
  <2>3. \A d \in Seen' : d.seq < nextSeq'
    BY <2>1, <1>1, <1>3, <1>4, <1>5
  <2>4. ASSUME NEW d \in Seen', NEW e \in Seen', d.order < e.order
        PROVE  d.seq < e.seq
    <3>1. CASE e \in Seen
      <4>1. d \in Seen
        BY <3>1, <2>2, <2>4, <1>2, <1>3, <1>4, <1>5
      <4> QED
        BY <3>1, <4>1, <2>1, <2>4
    <3>2. CASE e = n
      <4>1. d \in Seen
        BY <3>2, <2>4, <1>2, <1>3, <1>4
      <4> QED
        BY <3>2, <4>1, <2>1, <1>1, <1>3, <1>5
    <3> QED
      BY <3>1, <3>2, <1>4
  <2> QED
    BY <2>3, <2>4
<1>9. Newest'
  BY <1>4 DEF IInv, Newest, Send, controller
<1> QED
  BY <1>6, <1>7, <1>8, <1>9 DEF IInv

(* A failed send only moves the counter forward. *)
LEMMA SendFailsInv ==
  ASSUME IInv, NEW seq \in SeqArguments, SendFails(seq)
  PROVE  IInv'
<1>1. /\ SeqUsed(seq) \in Nat
      /\ nextSeq' = SeqUsed(seq) + 1
      /\ nextSeq' \in Nat \ {0}
      /\ rewound' \in BOOLEAN
      /\ ~rewound' => ~rewound /\ nextSeq <= SeqUsed(seq)
  BY NextSeqType DEF IInv, SendFails
<1>2. sends \in Nat /\ sends + 1 \in 0 .. MaxSends /\ sends' = sends + 1
  BY SendsAssumption DEF IInv, MotionTypeOK, SendFails
<1>3. Seen' = Seen /\ arrived' = arrived
  BY DEF SendFails, Seen
<1>4. \A d \in Seen : d.seq \in Nat /\ d.order \in Nat
  BY DEF IInv, MotionTypeOK, Seen, Datagrams
<1>5. MotionTypeOK'
  BY <1>1, <1>2 DEF IInv, MotionTypeOK, SendFails, controller
<1>6. Ordered'
  BY <1>2, <1>3, <1>4 DEF IInv, Ordered
<1>7. Numbered'
  <2>1. nextSeq \in Nat
    BY DEF IInv, MotionTypeOK
  <2> QED
    BY <2>1, <1>1, <1>3, <1>4 DEF IInv, Numbered
<1>8. Newest'
  BY <1>3 DEF IInv, Newest, SendFails, controller
<1> QED
  BY <1>5, <1>6, <1>7, <1>8 DEF IInv

LEMMA ArriveInv ==
  ASSUME IInv, NEW d \in flying, Arrive(d)
  PROVE  IInv'
<1>1. d \in Datagrams /\ d.seq \in Nat /\ d.order \in 1 .. MaxSends
  BY DEF IInv, MotionTypeOK, Datagrams
<1>2. Seen' = Seen /\ arrived' = arrived \cup {d}
  BY DEF Arrive, Seen
<1>3. MotionTypeOK'
  BY <1>1 DEF IInv, MotionTypeOK, Arrive, controller
<1>4. Ordered' /\ Numbered'
  BY <1>2 DEF IInv, Ordered, Numbered, Arrive
<1>5. \A e \in arrived : e.seq \in Nat
  BY DEF IInv, MotionTypeOK, Datagrams
<1>6. lastSeq \in Int
  BY DEF IInv, MotionTypeOK
<1>7. Newest'
  <2>1. CASE d.seq > lastSeq
    <3>1. lastSeq' = d.seq /\ current' = d.order
      BY <2>1 DEF Arrive
    <3> QED
      BY <3>1, <2>1, <1>1, <1>2, <1>5, <1>6 DEF IInv, Newest
  <2>2. CASE ~(d.seq > lastSeq)
    <3>1. lastSeq' = lastSeq /\ current' = current
      BY <2>2 DEF Arrive, controller
    <3>2. arrived # {}
      BY <2>2, <1>1, <1>6 DEF IInv, MotionTypeOK, Newest
    <3> QED
      BY <3>1, <3>2, <2>2, <1>1, <1>2, <1>6 DEF IInv, Newest
  <2> QED
    BY <2>1, <2>2
<1> QED
  BY <1>3, <1>4, <1>7 DEF IInv

LEMMA LoseInv ==
  ASSUME IInv, NEW d \in flying, LoseDatagram(d)
  PROVE  IInv'
<1>1. Seen' \subseteq Seen
  BY DEF LoseDatagram, Seen
<1>2. MotionTypeOK'
  BY DEF IInv, MotionTypeOK, LoseDatagram, controller
<1>3. Ordered' /\ Numbered'
  BY <1>1 DEF IInv, Ordered, Numbered, LoseDatagram
<1>4. Newest'
  BY DEF IInv, Newest, LoseDatagram, controller
<1> QED
  BY <1>2, <1>3, <1>4 DEF IInv

LEMMA NextInv == IInv /\ [MotionNext]_motionVars => IInv'
<1> SUFFICES ASSUME IInv, [MotionNext]_motionVars PROVE IInv'
  OBVIOUS
<1>1. ASSUME NEW seq \in SeqArguments, Send(seq) PROVE IInv'
  BY <1>1, SendInv
<1>2. ASSUME NEW seq \in SeqArguments, SendFails(seq) PROVE IInv'
  BY <1>2, SendFailsInv
<1>3. CASE Close
  BY <1>3 DEF Close, IInv, MotionTypeOK, Ordered, Numbered, Newest, Seen, controller
<1>4. CASE LoseLink
  BY <1>4 DEF LoseLink, IInv, MotionTypeOK, Ordered, Numbered, Newest, Seen,
              controller
<1>5. ASSUME NEW d \in flying, Arrive(d) PROVE IInv'
  BY <1>5, ArriveInv
<1>6. ASSUME NEW d \in flying, LoseDatagram(d) PROVE IInv'
  BY <1>6, LoseInv
<1>7. CASE UNCHANGED motionVars
  BY <1>7 DEF motionVars, IInv, MotionTypeOK, Ordered, Numbered, Newest, Seen, controller
<1> QED
  BY <1>1, <1>2, <1>3, <1>4, <1>5, <1>6, <1>7 DEF MotionNext

THEOREM InvHolds == MotionSpec => []IInv
<1>1. MotionInit => IInv
  BY InitInv
<1>2. IInv /\ [MotionNext]_motionVars => IInv'
  BY NextInv
<1> QED
  BY <1>1, <1>2, PTL DEF MotionSpec

(* The numbers of the motion commands, those under way and those that arrived keep
   their types: the counter never gets back to 0, whatever numbers are given. *)
THEOREM TypeCorrect == MotionSpec => []MotionTypeOK
<1>1. IInv => MotionTypeOK
  BY DEF IInv
<1> QED
  BY <1>1, InvHolds, PTL

(* Whatever the network loses and reorders, and whichever sends fail, the
   controller executes the command sent last among those that reached it, as
   long as no explicit number goes back. *)
THEOREM LastCommandWins == MotionSpec => []NewestWins
<1>1. IInv => NewestWins
  BY NewestFollows
<1> QED
  BY <1>1, InvHolds, PTL

-----------------------------------------------------------------------------
(* Tables *)

(* No two fields share a slot. *)
Distinct(adds) == \A f, g \in DOMAIN adds : adds[f].slot = adds[g].slot => f = g

(* The accessors read back what the Add functions wrote, defaults included, when
   both have the same layout. *)
LEMMA TableRoundTrip ==
  ASSUME NEW adds, Distinct(adds), NEW value
  PROVE  ReadTable(adds, WriteTable(adds, value)) = [f \in DOMAIN adds |-> value[f]]
<1> DEFINE stored == {f \in DOMAIN adds : value[f] # adds[f].default}
<1> DEFINE table == WriteTable(adds, value)
<1>1. /\ DOMAIN table = {adds[f].slot : f \in stored}
      /\ \A s \in DOMAIN table : table[s] = value[CHOOSE f \in stored : adds[f].slot = s]
  BY DEF WriteTable
<1>2. ASSUME NEW f \in stored
      PROVE  adds[f].slot \in DOMAIN table /\ table[adds[f].slot] = value[f]
  <2>1. (CHOOSE g \in stored : adds[g].slot = adds[f].slot) = f
    BY DEF Distinct
  <2> QED
    BY <1>1, <2>1
<1>3. ASSUME NEW f \in DOMAIN adds, f \notin stored
      PROVE  adds[f].slot \notin DOMAIN table /\ adds[f].default = value[f]
  BY <1>1, <1>3 DEF Distinct
<1> HIDE DEF table, stored
<1>4. ASSUME NEW f \in DOMAIN adds
      PROVE  (IF adds[f].slot \in DOMAIN table THEN table[adds[f].slot]
              ELSE adds[f].default) = value[f]
  BY <1>2, <1>3
<1> QED
  BY <1>4 DEF ReadTable, table

LEMMA ValueOfOne == \A v : Value({v}) = v
  BY DEF Value

(* A vector is written from its end and comes out as it was. *)
LEMMA VectorKept ==
  ASSUME NEW v \in Seq(Int)
  PROVE  Vector(v) = v /\ F32Vec(v) = v
<1> DEFINE n == Len(v)
<1> DEFINE r == Reverse(v)
<1>1. n \in Nat /\ v \in [1 .. n -> Int]
  BY LenProperties
<1> HIDE DEF n
<1>2. r = [i \in 1 .. n |-> v[(n - i) + 1]]
  BY DEF Reverse, n
<1>3. \A i \in 1 .. n : (n - i) + 1 \in 1 .. n /\ (n - ((n - i) + 1)) + 1 = i
  BY <1>1
<1>4. r \in [1 .. n -> Int] /\ \A i \in 1 .. n : r[(n - i) + 1] = v[i]
  BY <1>1, <1>2, <1>3
<1>5. r \in Seq(Int) /\ Len(r) = n
  BY <1>1, <1>4
<1> HIDE DEF r
<1>6. Reverse(r) = [i \in 1 .. n |-> r[(n - i) + 1]]
  BY <1>5 DEF Reverse
<1>7. Reverse(r) = v
  BY <1>1, <1>4, <1>6
<1> QED
  BY <1>7 DEF Vector, F32Vec, PrependAll, r

-----------------------------------------------------------------------------
(* Commands *)

(* The controller reads each command with the layout it is written with. *)
LEMMA CommandLayouts ==
  ASSUME NEW name \in DOMAIN Builders
  PROVE  Readers[name] = Builders[name].adds /\ Distinct(Builders[name].adds)
<1>1. /\ QuickstopGets = QuickstopAdds /\ Distinct(QuickstopAdds)
      /\ CalibrationGets = CalibrationAdds /\ Distinct(CalibrationAdds)
      /\ SetDriveModeGets = SetDriveModeAdds /\ Distinct(SetDriveModeAdds)
      /\ ClaimControlGets = ClaimControlAdds /\ Distinct(ClaimControlAdds)
  BY DEF QuickstopGets, QuickstopAdds, CalibrationGets, CalibrationAdds, SetDriveModeGets,
         SetDriveModeAdds, ClaimControlGets, ClaimControlAdds, Add, Get, Distinct
<1>2. /\ SingleZeroingGets = SingleZeroingAdds /\ Distinct(SingleZeroingAdds)
      /\ HumanoidZeroingGets = HumanoidZeroingAdds /\ Distinct(HumanoidZeroingAdds)
  BY DEF SingleZeroingGets, SingleZeroingAdds, HumanoidZeroingGets, HumanoidZeroingAdds,
         Add, Get, Distinct
<1>3. /\ SingleSetSpeedOverrideGets = SingleSetSpeedOverrideAdds
      /\ Distinct(SingleSetSpeedOverrideAdds)
  BY DEF SingleSetSpeedOverrideGets, SingleSetSpeedOverrideAdds, Add, Get, Distinct
<1>4. /\ HumanoidSetSpeedOverrideGets = HumanoidSetSpeedOverrideAdds
      /\ Distinct(HumanoidSetSpeedOverrideAdds)
  BY DEF HumanoidSetSpeedOverrideGets, HumanoidSetSpeedOverrideAdds, Add, Get, Distinct
<1>5. /\ SetStreamingParamsGets = SetStreamingParamsAdds
      /\ Distinct(SetStreamingParamsAdds)
  BY DEF SetStreamingParamsGets, SetStreamingParamsAdds, Add, Get, Distinct
<1>6. Distinct(NoFields)
  BY DEF NoFields, Distinct
<1> QED
  BY <1>1, <1>2, <1>3, <1>4, <1>5, <1>6 DEF Builders, Readers

(* The tags control.py writes are those of the generated union, one each. *)
LEMMA CommandTags ==
  ASSUME NEW name \in DOMAIN Builders
  PROVE  /\ name \in DOMAIN CommandType
         /\ Builders[name].tag = CommandType[name]
         /\ \A n \in DOMAIN CommandType : CommandType[n] = CommandType[name] => n = name
<1>1. CommandTag = CommandType
  BY DEF CommandTag, CommandType
<1>2. name \in DOMAIN CommandType /\ Builders[name].tag = CommandTag[name]
  BY DEF Builders, CommandTag, CommandType
<1>3. \A n, m \in DOMAIN CommandType : CommandType[n] = CommandType[m] => n = m
  BY DEF CommandType
<1> QED
  BY <1>1, <1>2, <1>3

(* Arguments of the command `name`: enums by their members, vectors of numbers *)
Fits(name, args) ==
  /\ args = [f \in DOMAIN Builders[name].adds |-> args[f]]
  /\ \A f \in DOMAIN args :
       /\ f \in DOMAIN EnumArguments => args[f] \subseteq DOMAIN EnumArguments[f]
       /\ f \in VectorArguments => args[f] \subseteq Seq(Int)

(* What UnderstoodCommand makes of the fields of the command `name` *)
CommandOf(name, fields) ==
  [name |-> name,
   args |-> [f \in DOMAIN fields |->
               IF f \in DOMAIN EnumNumbers
               THEN {m \in DOMAIN EnumNumbers[f] : EnumNumbers[f][m] \in fields[f]}
               ELSE fields[f]]]

(* Whatever a command is and whatever its arguments, the controller gets them. *)
LEMMA CommandRoundTrip ==
  ASSUME NEW name \in DOMAIN Builders, NEW args, Fits(name, args)
  PROVE  UnderstoodCommand(BuildCommand(name, args)) = [name |-> name, args |-> args]
<1> DEFINE adds == Builders[name].adds
<1> DEFINE fields == [f \in DOMAIN args |->
                        CASE f \in VectorArguments -> {Vector(v) : v \in args[f]}
                          [] f \in DOMAIN EnumArguments -> {EnumArguments[f][m] : m \in args[f]}
                          [] OTHER -> args[f]]
<1> DEFINE inner == WriteTable(adds, fields)
<1> DEFINE frame0 == BuildCommand(name, args)
<1> DEFINE envelope == ReadTable(StreamCommandGets, frame0)
<1> DEFINE back == ReadTable(Readers[name], inner)
<1>1. envelope.command_type = {CommandType[name]} /\ envelope.command = {inner}
  <2>1. StreamCommandGets = StreamCommandAdds /\ Distinct(StreamCommandAdds)
    BY DEF StreamCommandGets, StreamCommandAdds, Add, Get, Distinct
  <2> DEFINE value == [protocol_version |-> {1}, command_type |-> {Builders[name].tag},
                       command |-> {inner}]
  <2>2. frame0 = WriteTable(StreamCommandAdds, value)
    BY DEF BuildCommand, WrapCommand
  <2> HIDE DEF inner, frame0, value
  <2>3. envelope = [f \in DOMAIN StreamCommandAdds |-> value[f]]
    BY <2>1, <2>2, TableRoundTrip
  <2>4. DOMAIN StreamCommandAdds = {"protocol_version", "command_type", "command"}
    BY DEF StreamCommandAdds
  <2>5. value.command_type = {CommandType[name]} /\ value.command = {inner}
    BY CommandTags DEF value
  <2> HIDE DEF envelope
  <2> QED
    BY <2>3, <2>4, <2>5
<1>2. back = [f \in DOMAIN adds |-> fields[f]]
  <2>1. Readers[name] = adds /\ Distinct(adds)
    BY CommandLayouts
  <2> HIDE DEF adds, fields
  <2> QED
    BY <2>1, TableRoundTrip
<1>3. (CHOOSE n \in DOMAIN CommandType : {CommandType[n]} = envelope.command_type) = name
  <2> HIDE DEF envelope
  <2>1. \A n \in DOMAIN CommandType : {CommandType[n]} = envelope.command_type => n = name
    BY <1>1, CommandTags
  <2> QED
    BY <1>1, <2>1, CommandTags
<1>4. Value(envelope.command) = inner
  BY <1>1, ValueOfOne
<1>5. DOMAIN back = DOMAIN args /\ DOMAIN args = DOMAIN adds /\ back = fields
  BY <1>2 DEF Fits
<1>6. EnumNumbers = EnumArguments
  BY DEF EnumNumbers, EnumArguments, QuickstopStateNumbers, CalibrationTypeNumbers,
         DriveModeNumbers
<1>7. ASSUME NEW f \in DOMAIN args
      PROVE  (IF f \in DOMAIN EnumNumbers
              THEN {m \in DOMAIN EnumNumbers[f] : EnumNumbers[f][m] \in fields[f]}
              ELSE fields[f]) = args[f]
  <2>1. CASE f \in DOMAIN EnumArguments
    <3>1. f \notin VectorArguments
      BY <2>1 DEF EnumArguments, VectorArguments, JointLists, Gains
    <3>2. \A m, n \in DOMAIN EnumArguments[f] : EnumArguments[f][m] = EnumArguments[f][n] => m = n
      BY <2>1 DEF EnumArguments
    <3>3. fields[f] = {EnumArguments[f][m] : m \in args[f]}
      BY <2>1, <3>1
    <3>4. args[f] \subseteq DOMAIN EnumArguments[f]
      BY <2>1 DEF Fits
    <3> QED
      BY <1>6, <2>1, <3>2, <3>3, <3>4
  <2>2. CASE f \in VectorArguments
    <3>1. f \notin DOMAIN EnumArguments
      BY <2>2 DEF EnumArguments, VectorArguments, JointLists, Gains
    <3>2. \A v \in args[f] : Vector(v) = v
      BY <2>2, VectorKept DEF Fits
    <3>3. {Vector(v) : v \in args[f]} = args[f]
      BY <3>2
    <3> QED
      BY <1>6, <2>2, <3>1, <3>3
  <2>3. CASE f \notin DOMAIN EnumArguments /\ f \notin VectorArguments
    BY <1>6, <2>3
  <2> QED
    BY <2>1, <2>2, <2>3
<1>8. UnderstoodCommand(frame0) = CommandOf(name, back)
  <2>1. UnderstoodCommand(frame0)
          = CommandOf(CHOOSE n \in DOMAIN CommandType : {CommandType[n]} = envelope.command_type,
                      ReadTable(Readers[CHOOSE n \in DOMAIN CommandType :
                                          {CommandType[n]} = envelope.command_type],
                                Value(envelope.command)))
    BY DEF UnderstoodCommand, CommandOf
  <2> HIDE DEF envelope, inner
  <2> QED
    BY <1>3, <1>4, <2>1
<1> HIDE DEF back, fields, frame0
<1>9. [f \in DOMAIN back |->
         IF f \in DOMAIN EnumNumbers
         THEN {m \in DOMAIN EnumNumbers[f] : EnumNumbers[f][m] \in back[f]}
         ELSE back[f]] = args
  BY <1>5, <1>7 DEF Fits
<1> QED
  BY <1>8, <1>9 DEF frame0, CommandOf

-----------------------------------------------------------------------------
(* Motion commands *)

(* What is read of a field is what was written to it. *)
LEMMA FieldRoundTrip ==
  ASSUME NEW adds, NEW gets, gets = adds, Distinct(adds), NEW value
  PROVE  \A f \in DOMAIN adds : ReadTable(gets, WriteTable(adds, value))[f] = value[f]
BY TableRoundTrip

LEMMA ImpedanceLayouts ==
  /\ JointImpedanceGets = JointImpedanceAdds /\ Distinct(JointImpedanceAdds)
  /\ TcpImpedanceGets = TcpImpedanceAdds /\ Distinct(TcpImpedanceAdds)
  /\ DOMAIN JointImpedanceAdds = {"stiffness", "damping"}
  /\ DOMAIN TcpImpedanceAdds = {"stiffness", "damping"}
BY DEF JointImpedanceGets, JointImpedanceAdds, TcpImpedanceGets, TcpImpedanceAdds, Add, Get,
       Distinct

LEMMA ArmLayouts ==
  /\ JointPoseCommandGets = JointPoseCommandAdds /\ Distinct(JointPoseCommandAdds)
  /\ JointTwistCommandGets = JointTwistCommandAdds /\ Distinct(JointTwistCommandAdds)
  /\ ArmCommandGets = ArmCommandAdds /\ Distinct(ArmCommandAdds)
  /\ DOMAIN JointPoseCommandAdds = {"position", "velocity", "impedance_type", "impedance"}
  /\ DOMAIN JointTwistCommandAdds = {"twist", "impedance_type", "impedance"}
  /\ DOMAIN ArmCommandAdds = {"command_type", "command"}
BY DEF JointPoseCommandGets, JointPoseCommandAdds, JointTwistCommandGets,
       JointTwistCommandAdds, ArmCommandGets, ArmCommandAdds, Add, Get, Distinct

LEMMA MotionLayouts ==
  /\ SingleCommandGets = SingleCommandAdds /\ Distinct(SingleCommandAdds)
  /\ HumanoidCommandGets = HumanoidCommandAdds /\ Distinct(HumanoidCommandAdds)
  /\ MotionCommandGets = MotionCommandAdds /\ Distinct(MotionCommandAdds)
  /\ DOMAIN SingleCommandAdds = {"arm"}
  /\ DOMAIN HumanoidCommandAdds = {"right", "left"}
  /\ DOMAIN MotionCommandAdds
       = {"protocol_version", "seq", "ttl_ms", "robot_command_type", "robot_command"}
BY DEF SingleCommandGets, SingleCommandAdds, HumanoidCommandGets, HumanoidCommandAdds,
       MotionCommandGets, MotionCommandAdds, Add, Get, Distinct

(* The impedances and motions of any vectors *)
AnyImpedance ==
  [kind : {"TcpImpedance", "JointImpedance"}, stiffness : Seq(Int), damping : Seq(Int)]

AnyMotion ==
  [kind : {"JointPose"}, target : Seq(Int), velocity : Opt(Seq(Int)),
   impedance : Opt(AnyImpedance)]
  \cup
  [kind : {"JointTwist"}, target : Seq(Int), velocity : {{}}, impedance : Opt(AnyImpedance)]

LEMMA ImpedanceRoundTrip ==
  ASSUME NEW impedance \in Opt(AnyImpedance)
  PROVE  UnderstoodImpedance(BuildImpedance(impedance).tag, BuildImpedance(impedance).table)
         = impedance
<1>1. CASE impedance = {}
  BY <1>1 DEF BuildImpedance, UnderstoodImpedance, IMPEDANCE, ImpedanceTags
<1>2. ASSUME NEW imp \in AnyImpedance, impedance = {imp}
      PROVE  UnderstoodImpedance(BuildImpedance(impedance).tag, BuildImpedance(impedance).table)
             = impedance
  <2> DEFINE adds == IF imp.kind = "JointImpedance" THEN JointImpedanceAdds ELSE TcpImpedanceAdds
  <2> DEFINE gets == IF imp.kind = "JointImpedance" THEN JointImpedanceGets ELSE TcpImpedanceGets
  <2> DEFINE value == [stiffness |-> {imp.stiffness}, damping |-> {imp.damping}]
  <2> DEFINE table == WriteTable(adds, value)
  <2> DEFINE tag == ImpedanceTags[imp.kind]
  <2> DEFINE back == ReadTable(gets, table)
  <2>1. /\ imp = [kind |-> imp.kind, stiffness |-> imp.stiffness, damping |-> imp.damping]
        /\ imp.kind \in {"TcpImpedance", "JointImpedance"}
        /\ imp.stiffness \in Seq(Int) /\ imp.damping \in Seq(Int)
    BY DEF AnyImpedance
  <2>2. F32Vec(imp.stiffness) = imp.stiffness /\ F32Vec(imp.damping) = imp.damping
    BY <2>1, VectorKept
  <2>3. IMPEDANCE = ImpedanceTags
    BY DEF IMPEDANCE, ImpedanceTags
  <2>4. BuildImpedance(impedance).tag = tag /\ BuildImpedance(impedance).table = {table}
    <3>1. Value(impedance) = imp /\ impedance # {}
      BY <1>2, ValueOfOne
    <3>2. BuildImpedance(impedance)
            = [tag   |-> IMPEDANCE[imp.kind],
               table |-> {WriteTable(adds, [stiffness |-> {F32Vec(imp.stiffness)},
                                            damping   |-> {F32Vec(imp.damping)}])}]
      BY <3>1 DEF BuildImpedance
    <3> HIDE DEF adds
    <3> QED
      BY <2>2, <2>3, <3>2
  <2>5. gets = adds /\ Distinct(adds) /\ DOMAIN adds = {"stiffness", "damping"}
    BY ImpedanceLayouts
  <2>6. back.stiffness = {imp.stiffness} /\ back.damping = {imp.damping}
    <3>1. value.stiffness = {imp.stiffness} /\ value.damping = {imp.damping}
      OBVIOUS
    <3> HIDE DEF adds, gets, value
    <3>2. \A f \in DOMAIN adds : back[f] = value[f]
      BY <2>5, FieldRoundTrip
    <3> QED
      BY <2>5, <3>1, <3>2
  <2>7. /\ tag # ImpedanceTags.NONE
        /\ tag = ImpedanceTags.JointImpedance <=> imp.kind = "JointImpedance"
        /\ TagName(ImpedanceTags, tag) = imp.kind
    BY <2>1 DEF ImpedanceTags, TagName
  <2>8. UnderstoodImpedance(tag, {table})
          = {[kind |-> TagName(ImpedanceTags, tag), stiffness |-> Value(back.stiffness),
              damping |-> Value(back.damping)]}
    <3> HIDE DEF table, tag
    <3> QED
      BY <2>7, ValueOfOne DEF UnderstoodImpedance
  <2> HIDE DEF table, tag, back
  <2> QED
    BY <1>2, <2>1, <2>4, <2>6, <2>7, <2>8, ValueOfOne
<1> QED
  BY <1>1, <1>2 DEF Opt

(* A motion arrives with its targets, its velocities and its impedance. *)
LEMMA ArmRoundTrip ==
  ASSUME NEW motion \in AnyMotion
  PROVE  UnderstoodArm(BuildArmCommand(motion)) = motion
<1> DEFINE imp == BuildImpedance(motion.impedance)
<1> DEFINE poseValue == [position |-> {F32Vec(motion.target)},
                         velocity |-> {F32Vec(v) : v \in motion.velocity},
                         impedance_type |-> {imp.tag}, impedance |-> imp.table]
<1> DEFINE twistValue == [twist |-> {F32Vec(motion.target)},
                          impedance_type |-> {imp.tag}, impedance |-> imp.table]
<1> DEFINE joint == IF motion.kind = "JointPose"
                    THEN WriteTable(JointPoseCommandAdds, poseValue)
                    ELSE WriteTable(JointTwistCommandAdds, twistValue)
<1> DEFINE value == [command_type |-> {ARM_COMMAND[motion.kind]}, command |-> {joint}]
<1> DEFINE table == WriteTable(ArmCommandAdds, value)
<1> DEFINE arm == ReadTable(ArmCommandGets, table)
<1> DEFINE pose == ReadTable(JointPoseCommandGets, joint)
<1> DEFINE twist == ReadTable(JointTwistCommandGets, joint)
<1>1. /\ motion = [kind |-> motion.kind, target |-> motion.target,
                   velocity |-> motion.velocity, impedance |-> motion.impedance]
      /\ motion.kind \in {"JointPose", "JointTwist"}
      /\ motion.target \in Seq(Int) /\ motion.velocity \in Opt(Seq(Int))
      /\ motion.impedance \in Opt(AnyImpedance)
      /\ motion.kind = "JointTwist" => motion.velocity = {}
  BY DEF AnyMotion, Opt
<1>2. /\ F32Vec(motion.target) = motion.target
      /\ {F32Vec(v) : v \in motion.velocity} = motion.velocity
  <2>1. \A v \in motion.velocity : F32Vec(v) = v
    BY <1>1, VectorKept DEF Opt
  <2> QED
    BY <1>1, <2>1, VectorKept
<1>3. UnderstoodImpedance(imp.tag, imp.table) = motion.impedance
  BY <1>1, ImpedanceRoundTrip
<1>4. BuildArmCommand(motion) = table
  BY DEF BuildArmCommand
<1>5. arm.command_type = {ARM_COMMAND[motion.kind]} /\ arm.command = {joint}
  <2>1. value.command_type = {ARM_COMMAND[motion.kind]} /\ value.command = {joint}
    OBVIOUS
  <2> HIDE DEF value
  <2>2. \A f \in DOMAIN ArmCommandAdds : arm[f] = value[f]
    BY ArmLayouts, FieldRoundTrip
  <2> QED
    BY <2>1, <2>2, ArmLayouts
<1>6. TagName(ArmCommandTags, ARM_COMMAND[motion.kind]) = motion.kind
  BY <1>1 DEF TagName, ArmCommandTags, ARM_COMMAND
<1>7. ASSUME motion.kind = "JointPose"
      PROVE  /\ pose.position = {motion.target} /\ pose.velocity = motion.velocity
             /\ pose.impedance_type = {imp.tag} /\ pose.impedance = imp.table
  <2>1. /\ poseValue.position = {motion.target} /\ poseValue.velocity = motion.velocity
        /\ poseValue.impedance_type = {imp.tag} /\ poseValue.impedance = imp.table
    BY <1>2
  <2>2. joint = WriteTable(JointPoseCommandAdds, poseValue)
    BY <1>7
  <2> HIDE DEF poseValue, joint, imp
  <2>3. \A f \in DOMAIN JointPoseCommandAdds : pose[f] = poseValue[f]
    BY <2>2, ArmLayouts, FieldRoundTrip
  <2> HIDE DEF pose
  <2> QED
    BY <2>1, <2>3, ArmLayouts
<1>8. ASSUME motion.kind = "JointTwist"
      PROVE  /\ twist.twist = {motion.target}
             /\ twist.impedance_type = {imp.tag} /\ twist.impedance = imp.table
  <2>1. /\ twistValue.twist = {motion.target}
        /\ twistValue.impedance_type = {imp.tag} /\ twistValue.impedance = imp.table
    BY <1>2
  <2>2. joint = WriteTable(JointTwistCommandAdds, twistValue)
    BY <1>8
  <2> HIDE DEF twistValue, joint, imp
  <2>3. \A f \in DOMAIN JointTwistCommandAdds : twist[f] = twistValue[f]
    BY <2>2, ArmLayouts, FieldRoundTrip
  <2> HIDE DEF twist
  <2> QED
    BY <2>1, <2>3, ArmLayouts
<1> HIDE DEF joint, table, imp
<1>9. Value(arm.command_type) = ARM_COMMAND[motion.kind] /\ Value(arm.command) = joint
  <2> HIDE DEF arm
  <2> QED
    BY <1>5, ValueOfOne
<1>10. CASE motion.kind = "JointPose"
  <2>1. UnderstoodArm(table)
          = [kind |-> motion.kind, target |-> Value(pose.position), velocity |-> pose.velocity,
             impedance |-> UnderstoodImpedance(Value(pose.impedance_type), pose.impedance)]
    BY <1>6, <1>9, <1>10 DEF UnderstoodArm
  <2> HIDE DEF pose
  <2> QED
    BY <1>1, <1>3, <1>4, <1>7, <1>10, <2>1, ValueOfOne
<1>11. CASE motion.kind = "JointTwist"
  <2>1. UnderstoodArm(table)
          = [kind |-> motion.kind, target |-> Value(twist.twist), velocity |-> {},
             impedance |-> UnderstoodImpedance(Value(twist.impedance_type), twist.impedance)]
    BY <1>6, <1>9, <1>11 DEF UnderstoodArm
  <2> HIDE DEF twist
  <2> QED
    BY <1>1, <1>3, <1>4, <1>8, <1>11, <2>1, ValueOfOne
<1> QED
  BY <1>1, <1>10, <1>11

(* The envelope of a motion command *)
LEMMA FinishRoundTrip ==
  ASSUME NEW tag, NEW robot, NEW seq, NEW ttl
  PROVE  LET command == ReadTable(MotionCommandGets, FinishMotion(tag, robot, seq, ttl).root)
         IN  /\ Value(command.seq) = seq /\ Value(command.ttl_ms) = ttl
             /\ command.robot_command_type = {tag}
             /\ Value(command.robot_command) = robot
<1> DEFINE value == [protocol_version |-> {1}, seq |-> {seq}, ttl_ms |-> {ttl},
                     robot_command_type |-> {tag}, robot_command |-> {robot}]
<1> DEFINE root == FinishMotion(tag, robot, seq, ttl).root
<1> DEFINE command == ReadTable(MotionCommandGets, root)
<1>1. root = WriteTable(MotionCommandAdds, value)
  BY DEF FinishMotion
<1>2. /\ value.seq = {seq} /\ value.ttl_ms = {ttl}
      /\ value.robot_command_type = {tag} /\ value.robot_command = {robot}
  OBVIOUS
<1> HIDE DEF value, root
<1>3. \A f \in DOMAIN MotionCommandAdds : command[f] = value[f]
  BY <1>1, MotionLayouts, FieldRoundTrip
<1> HIDE DEF command
<1>4. /\ command.seq = {seq} /\ command.ttl_ms = {ttl}
      /\ command.robot_command_type = {tag} /\ command.robot_command = {robot}
  BY <1>2, <1>3, MotionLayouts
<1>5. /\ Value(command.seq) = seq /\ Value(command.ttl_ms) = ttl
      /\ command.robot_command_type = {tag}
      /\ Value(command.robot_command) = robot
  BY <1>4, ValueOfOne
<1> QED
  BY <1>5 DEF command, root

(* A motion command reaches the arms it is for, each with its own motion. *)
LEMMA SingleRoundTrip ==
  ASSUME NEW arms \in [{"arm"} -> AnyMotion], NEW seq, NEW ttl
  PROVE  UnderstoodMotion(BuildSingle(arms.arm, seq, ttl))
         = [arms |-> arms, seq |-> seq, ttl |-> ttl]
<1> DEFINE value == [arm |-> {BuildArmCommand(arms.arm)}]
<1> DEFINE robot == WriteTable(SingleCommandAdds, value)
<1> DEFINE datagram == FinishMotion(ROBOT_COMMAND.Single, robot, seq, ttl)
<1> DEFINE command == ReadTable(MotionCommandGets, datagram.root)
<1> DEFINE back == ReadTable(SingleCommandGets, robot)
<1>1. /\ BuildSingle(arms.arm, seq, ttl) = datagram
      /\ ROBOT_COMMAND.Single = RobotCommandTags.SingleCommand
  BY DEF BuildSingle, ROBOT_COMMAND, RobotCommandTags
<1>2. /\ Value(command.seq) = seq /\ Value(command.ttl_ms) = ttl
      /\ command.robot_command_type = {RobotCommandTags.SingleCommand}
      /\ Value(command.robot_command) = robot
  BY <1>1, FinishRoundTrip
<1>3. back = [arm \in {"arm"} |-> {BuildArmCommand(arms[arm])}]
  <2>1. value.arm = {BuildArmCommand(arms["arm"])}
    OBVIOUS
  <2> HIDE DEF value
  <2>2. back = [f \in {"arm"} |-> value[f]]
    BY MotionLayouts, TableRoundTrip
  <2> QED
    BY <2>1, <2>2
<1> HIDE DEF robot, datagram, command, back
<1>4. UnderstoodMotion(datagram)
        = [arms |-> [arm \in DOMAIN back |-> UnderstoodArm(Value(back[arm]))],
           seq |-> seq, ttl |-> ttl]
  BY <1>2 DEF UnderstoodMotion, command, back
<1>5. [arm \in DOMAIN back |-> UnderstoodArm(Value(back[arm]))] = arms
  <2>1. UnderstoodArm(Value(back["arm"])) = arms["arm"]
    BY <1>3, ValueOfOne, ArmRoundTrip
  <2> QED
    BY <1>3, <2>1
<1> QED
  BY <1>1, <1>4, <1>5

LEMMA HumanoidRoundTrip ==
  ASSUME NEW arms \in [{"right", "left"} -> AnyMotion], NEW seq, NEW ttl
  PROVE  UnderstoodMotion(BuildHumanoid(arms.right, arms.left, seq, ttl))
         = [arms |-> arms, seq |-> seq, ttl |-> ttl]
<1> DEFINE value == [right |-> {BuildArmCommand(arms.right)}, left |-> {BuildArmCommand(arms.left)}]
<1> DEFINE robot == WriteTable(HumanoidCommandAdds, value)
<1> DEFINE datagram == FinishMotion(ROBOT_COMMAND.Humanoid, robot, seq, ttl)
<1> DEFINE command == ReadTable(MotionCommandGets, datagram.root)
<1> DEFINE back == ReadTable(HumanoidCommandGets, robot)
<1>1. /\ BuildHumanoid(arms.right, arms.left, seq, ttl) = datagram
      /\ {ROBOT_COMMAND.Humanoid} # {RobotCommandTags.SingleCommand}
  BY DEF BuildHumanoid, ROBOT_COMMAND, RobotCommandTags
<1>2. /\ Value(command.seq) = seq /\ Value(command.ttl_ms) = ttl
      /\ command.robot_command_type = {ROBOT_COMMAND.Humanoid}
      /\ Value(command.robot_command) = robot
  BY FinishRoundTrip
<1>3. back = [arm \in {"right", "left"} |-> {BuildArmCommand(arms[arm])}]
  <2>1. /\ value.right = {BuildArmCommand(arms["right"])}
        /\ value.left = {BuildArmCommand(arms["left"])}
    OBVIOUS
  <2> HIDE DEF value
  <2>2. back = [f \in {"right", "left"} |-> value[f]]
    BY MotionLayouts, TableRoundTrip
  <2> QED
    BY <2>1, <2>2
<1> HIDE DEF robot, datagram, command, back
<1>4. UnderstoodMotion(datagram)
        = [arms |-> [arm \in DOMAIN back |-> UnderstoodArm(Value(back[arm]))],
           seq |-> seq, ttl |-> ttl]
  BY <1>1, <1>2 DEF UnderstoodMotion, command, back
<1>5. [arm \in DOMAIN back |-> UnderstoodArm(Value(back[arm]))] = arms
  <2>1. /\ UnderstoodArm(Value(back["right"])) = arms["right"]
        /\ UnderstoodArm(Value(back["left"])) = arms["left"]
    BY <1>3, ValueOfOne, ArmRoundTrip
  <2> QED
    BY <1>3, <2>1
<1> QED
  BY <1>1, <1>4, <1>5

-----------------------------------------------------------------------------
(* Responses *)

(* Every result but success raises the exception named after it, or the general
   one. *)
LEMMA ResultRaised == \A result : RaiseOnError(result) = ExceptionOf(result)
<1> SUFFICES ASSUME NEW result PROVE RaiseOnError(result) = ExceptionOf(result)
  OBVIOUS
<1> DEFINE named == {n \in DOMAIN CommandResult : CommandResult[n] = result}
<1> DEFINE classes == {c \in DOMAIN ResultCode : ResultCode[c] = result}
<1>1. CommandResult.Ok = 0 /\ CommandResult.NotImplemented = 11
  BY DEF CommandResult
<1>2. CASE result = 0
  BY <1>1, <1>2 DEF RaiseOnError, ExceptionOf
<1>3. CASE result = 11
  <2>1. classes = {"NotImplementedCommand"}
    BY <1>3 DEF ResultCode
  <2>2. ExceptionOf(result) = {"NotImplementedCommand"}
    BY <1>1, <1>3 DEF ExceptionOf
  <2>3. RaiseOnError(result)
          = {IF classes = {} THEN "CommandError" ELSE Value(classes)}
    <3> HIDE DEF classes
    <3>1. ErrorByCode(result) = IF classes = {} THEN "CommandError" ELSE Value(classes)
      BY DEF ErrorByCode, classes
    <3> QED
      BY <1>3, <3>1 DEF RaiseOnError
  <2>4. Value(classes) = "NotImplementedCommand" /\ classes # {}
    BY <2>1, ValueOfOne
  <2> HIDE DEF classes
  <2> QED
    BY <2>2, <2>3, <2>4
<1>4. CASE result # 0 /\ result # 11
  <2>1. classes = named
    BY <1>4 DEF ResultCode, CommandResult
  <2>2. \A m, n \in named : m = n
    BY DEF CommandResult
  <2>3. RaiseOnError(result) = {IF named = {} THEN "CommandError" ELSE Value(named)}
    <3> HIDE DEF named
    <3> QED
      BY <1>4, <2>1 DEF RaiseOnError, ErrorByCode
  <2>4. ExceptionOf(result) = IF named = {} THEN {"CommandError"} ELSE named
    BY <1>1, <1>4 DEF ExceptionOf
  <2> HIDE DEF named
  <2>5. named # {} => named = {Value(named)}
    BY <2>2 DEF Value
  <2> QED
    BY <2>3, <2>4, <2>5
<1> QED
  BY <1>2, <1>3, <1>4

LEMMA ResponseRoundTrip ==
  ASSUME NEW result, NEW message0
  PROVE  ParseResponse(BuildResponse(result, message0))
         = [result  |-> result,
            message |-> IF message0 = {} THEN "" ELSE Value(message0)]
<1> DEFINE value == [result |-> {result}, message |-> message0]
<1> DEFINE frame0 == BuildResponse(result, message0)
<1> DEFINE response == ReadTable(StreamCommandResponseGets, frame0)
<1>1. /\ StreamCommandResponseGets = StreamCommandResponseAdds
      /\ Distinct(StreamCommandResponseAdds)
      /\ DOMAIN StreamCommandResponseAdds = {"result", "message"}
  BY DEF StreamCommandResponseGets, StreamCommandResponseAdds, Add, Get, Distinct
<1>2. frame0 = WriteTable(StreamCommandResponseAdds, value)
  BY DEF BuildResponse
<1>3. value.result = {result} /\ value.message = message0
  OBVIOUS
<1> HIDE DEF value, frame0
<1>4. \A f \in DOMAIN StreamCommandResponseAdds : response[f] = value[f]
  BY <1>1, <1>2, FieldRoundTrip
<1> HIDE DEF response
<1>5. response.result = {result} /\ response.message = message0
  BY <1>1, <1>3, <1>4
<1>6. ParseResponse(frame0)
        = [result  |-> Value(response.result),
           message |-> IF response.message = {} THEN "" ELSE Value(response.message)]
  BY DEF ParseResponse, response, Absent
<1> QED
  BY <1>5, <1>6, ValueOfOne DEF frame0

-----------------------------------------------------------------------------
(* Events *)

(* The client's enums are those of the schema: a number has the member it was
   given for. *)
LEMMA EventEnumsAgree ==
  /\ EventDriveStatus = EventDriveStatusNumbers
  /\ EventMotionStatus = EventMotionStatusNumbers
  /\ EventActivityType = EventActivityTypeNumbers
  /\ EventDriveMode = EventDriveModeNumbers
BY DEF EventDriveStatus, EventDriveStatusNumbers, EventMotionStatus, EventMotionStatusNumbers,
       EventActivityType, EventActivityTypeNumbers, EventDriveMode, EventDriveModeNumbers

LEMMA EventLayouts ==
  /\ DriveStatusEventGets = DriveStatusEventAdds /\ Distinct(DriveStatusEventAdds)
  /\ MotionStatusEventGets = MotionStatusEventAdds /\ Distinct(MotionStatusEventAdds)
  /\ ActivityEventGets = ActivityEventAdds /\ Distinct(ActivityEventAdds)
  /\ DriveModeEventGets = DriveModeEventAdds /\ Distinct(DriveModeEventAdds)
  /\ ControllerEventGets = ControllerEventAdds /\ Distinct(ControllerEventAdds)
  /\ EventGets = EventAdds /\ Distinct(EventAdds)
BY DEF DriveStatusEventGets, DriveStatusEventAdds, MotionStatusEventGets,
       MotionStatusEventAdds, ActivityEventGets, ActivityEventAdds, DriveModeEventGets,
       DriveModeEventAdds, ControllerEventGets, ControllerEventAdds, EventGets, EventAdds,
       Add, Get, Distinct

(* What the client makes of the fields of an event is what their numbers mean. *)
LEMMA InnerRoundTrip ==
  ASSUME NEW class \in DOMAIN EventType, NEW fields,
         fields = [f \in DOMAIN EventWriters[class] |-> fields[f]]
  PROVE  InnerEvent(class, WriteTable(EventWriters[class], fields))
         = Named(Meanings[class], fields)
<1> DEFINE table == WriteTable(EventWriters[class], fields)
<1>1. class \in {"DriveStatusEvent", "MotionStatusEvent", "ActivityEvent", "DriveModeEvent",
                 "ControllerEvent"}
  BY DEF EventType
<1>2. CASE class = "DriveStatusEvent"
  <2> DEFINE t == ReadTable(DriveStatusEventGets, table)
  <2>1. EventWriters[class] = DriveStatusEventAdds /\ DOMAIN DriveStatusEventAdds = {"status"}
    BY <1>2 DEF EventWriters, DriveStatusEventAdds
  <2>2. t = [f \in {"status"} |-> fields[f]]
    BY <2>1, EventLayouts, TableRoundTrip
  <2> HIDE DEF t, table
  <2>3. InnerEvent(class, table) = [status |-> Member(EventDriveStatus, t.status)]
    BY <1>2 DEF InnerEvent, t
  <2>4. Member(EventDriveStatus, fields["status"])
          = {n \in DOMAIN EventDriveStatusNumbers :
               EventDriveStatusNumbers[n] \in fields["status"]}
    BY EventEnumsAgree DEF Member
  <2>5. Meanings[class] = [status |-> EventDriveStatusNumbers]
    BY <1>2 DEF Meanings
  <2> QED
    BY <2>1, <2>2, <2>3, <2>4, <2>5 DEF Named, table
<1>3. CASE class = "MotionStatusEvent"
  <2> DEFINE t == ReadTable(MotionStatusEventGets, table)
  <2>1. EventWriters[class] = MotionStatusEventAdds /\ DOMAIN MotionStatusEventAdds = {"status"}
    BY <1>3 DEF EventWriters, MotionStatusEventAdds
  <2>2. t = [f \in {"status"} |-> fields[f]]
    BY <2>1, EventLayouts, TableRoundTrip
  <2> HIDE DEF t, table
  <2>3. InnerEvent(class, table) = [status |-> Member(EventMotionStatus, t.status)]
    BY <1>3 DEF InnerEvent, t
  <2>4. Member(EventMotionStatus, fields["status"])
          = {n \in DOMAIN EventMotionStatusNumbers :
               EventMotionStatusNumbers[n] \in fields["status"]}
    BY EventEnumsAgree DEF Member
  <2>5. Meanings[class] = [status |-> EventMotionStatusNumbers]
    BY <1>3 DEF Meanings
  <2> QED
    BY <2>1, <2>2, <2>3, <2>4, <2>5 DEF Named, table
<1>4. CASE class = "ActivityEvent"
  <2> DEFINE t == ReadTable(ActivityEventGets, table)
  <2>1. /\ EventWriters[class] = ActivityEventAdds
        /\ DOMAIN ActivityEventAdds = {"activity", "step", "total"}
    BY <1>4 DEF EventWriters, ActivityEventAdds
  <2>2. t = [f \in {"activity", "step", "total"} |-> fields[f]]
    BY <2>1, EventLayouts, TableRoundTrip
  <2> HIDE DEF t, table
  <2>3. InnerEvent(class, table)
          = [t EXCEPT !.activity = Member(EventActivityType, t.activity)]
    BY <1>4 DEF InnerEvent, t
  <2>4. Member(EventActivityType, fields["activity"])
          = {n \in DOMAIN EventActivityTypeNumbers :
               EventActivityTypeNumbers[n] \in fields["activity"]}
    BY EventEnumsAgree DEF Member
  <2>5. Meanings[class] = [activity |-> EventActivityTypeNumbers]
    BY <1>4 DEF Meanings
  <2> QED
    BY <2>1, <2>2, <2>3, <2>4, <2>5 DEF Named, table
<1>5. CASE class = "DriveModeEvent"
  <2> DEFINE t == ReadTable(DriveModeEventGets, table)
  <2>1. EventWriters[class] = DriveModeEventAdds /\ DOMAIN DriveModeEventAdds = {"mode"}
    BY <1>5 DEF EventWriters, DriveModeEventAdds
  <2>2. t = [f \in {"mode"} |-> fields[f]]
    BY <2>1, EventLayouts, TableRoundTrip
  <2> HIDE DEF t, table
  <2>3. InnerEvent(class, table) = [mode |-> Member(EventDriveMode, t.mode)]
    BY <1>5 DEF InnerEvent, t
  <2>4. Member(EventDriveMode, fields["mode"])
          = {n \in DOMAIN EventDriveModeNumbers : EventDriveModeNumbers[n] \in fields["mode"]}
    BY EventEnumsAgree DEF Member
  <2>5. Meanings[class] = [mode |-> EventDriveModeNumbers]
    BY <1>5 DEF Meanings
  <2> QED
    BY <2>1, <2>2, <2>3, <2>4, <2>5 DEF Named, table
<1>6. CASE class = "ControllerEvent"
  <2>1. EventWriters[class] = ControllerEventAdds
    BY <1>6 DEF EventWriters
  <2>2. ReadTable(ControllerEventGets, table) = fields
    BY <2>1, EventLayouts, TableRoundTrip
  <2> HIDE DEF table
  <2>3. InnerEvent(class, table) = fields
    BY <1>6, <2>2 DEF InnerEvent
  <2>4. Meanings[class] = <<>>
    BY <1>6 DEF Meanings
  <2>5. DOMAIN Meanings[class] = {}
    BY <2>4
  <2>6. fields = [f \in DOMAIN fields |-> fields[f]]
    OBVIOUS
  <2> QED
    BY <2>3, <2>5, <2>6 DEF Named, table
<1> QED
  BY <1>1, <1>2, <1>3, <1>4, <1>5, <1>6

(* The frame of an event: its tag and its table *)
LEMMA EventFrame ==
  ASSUME NEW tag, NEW tables
  PROVE  /\ ReadTable(EventGets, WriteEvent(tag, tables)).event_type = {tag}
         /\ ReadTable(EventGets, WriteEvent(tag, tables)).event = tables
<1> DEFINE value == [protocol_version |-> {1}, event_type |-> {tag}, event |-> tables]
<1> DEFINE written == WriteEvent(tag, tables)
<1> DEFINE ev == ReadTable(EventGets, written)
<1>1. written = WriteTable(EventAdds, value) /\ DOMAIN EventAdds
        = {"protocol_version", "event_type", "event"}
  BY DEF WriteEvent, EventAdds
<1>2. value.event_type = {tag} /\ value.event = tables
  OBVIOUS
<1> HIDE DEF value, written
<1>3. \A f \in DOMAIN EventAdds : ev[f] = value[f]
  BY <1>1, EventLayouts, FieldRoundTrip
<1> HIDE DEF ev
<1>4. ev.event_type = {tag} /\ ev.event = tables
  BY <1>1, <1>2, <1>3
<1> QED
  BY <1>4 DEF ev, written

(* An event of a class the client knows is given with what its numbers mean, and
   is skipped if one of them means nothing. *)
LEMMA KnownEventRead ==
  ASSUME NEW class \in DOMAIN EventType, NEW contents0,
         \A c \in contents0 : c = [f \in DOMAIN EventWriters[class] |-> c[f]]
  PROVE  ParseEvent(WriteEvent(EventType[class],
                               {WriteTable(EventWriters[class], c) : c \in contents0}))
         = {e \in {[class |-> class, fields |-> Named(Meanings[class], c)] : c \in contents0} :
              Whole(e.fields)}
<1> DEFINE tables == {WriteTable(EventWriters[class], c) : c \in contents0}
<1> DEFINE written == WriteEvent(EventType[class], tables)
<1> DEFINE ev == ReadTable(EventGets, written)
<1> DEFINE known == {n \in DOMAIN EventType : {EventType[n]} = ev.event_type}
<1> DEFINE inner == {[class |-> class, fields |-> InnerEvent(class, t)] : t \in tables}
<1> DEFINE named == {[class |-> class, fields |-> Named(Meanings[class], c)] : c \in contents0}
<1>1. ev.event_type = {EventType[class]} /\ ev.event = tables
  BY EventFrame
<1>2. known = {class}
  <2>1. \A n \in DOMAIN EventType : EventType[n] = EventType[class] => n = class
    BY DEF EventType
  <2> HIDE DEF ev
  <2> QED
    BY <1>1, <2>1
<1>3. inner = named
  <2>1. \A c \in contents0 : InnerEvent(class, WriteTable(EventWriters[class], c))
                             = Named(Meanings[class], c)
    BY InnerRoundTrip
  <2> QED
    BY <2>1
<1>4. ParseEvent(written)
        = {e \in UNION {{[class |-> n, fields |-> InnerEvent(n, t)] : t \in ev.event} :
                        n \in known} : \A f \in DOMAIN e.fields : e.fields[f] # {}}
  BY DEF ParseEvent
<1> HIDE DEF ev, known, tables
<1>5. UNION {{[class |-> n, fields |-> InnerEvent(n, t)] : t \in ev.event} : n \in known} = inner
  BY <1>1, <1>2
<1> HIDE DEF inner, named, written
<1>6. ParseEvent(written) = {e \in named : \A f \in DOMAIN e.fields : e.fields[f] # {}}
  BY <1>3, <1>4, <1>5
<1> QED
  BY <1>6 DEF Whole, named, written, tables

LEMMA FiveClasses ==
  Cardinality(DOMAIN EventType) = 5 /\ \A n \in DOMAIN EventType : EventType[n] \in 1 .. 5
<1>1. DOMAIN EventType = {"DriveStatusEvent", "MotionStatusEvent", "ActivityEvent",
                          "DriveModeEvent", "ControllerEvent"}
  BY DEF EventType
<1> DEFINE one == {"DriveStatusEvent"}
<1> DEFINE two == one \cup {"MotionStatusEvent"}
<1> DEFINE three == two \cup {"ActivityEvent"}
<1> DEFINE four == three \cup {"DriveModeEvent"}
<1> DEFINE five == four \cup {"ControllerEvent"}
<1>2. IsFiniteSet(one) /\ Cardinality(one) = 1
  BY FS_Singleton
<1>3. IsFiniteSet(two) /\ Cardinality(two) = 2
  <2>1. "MotionStatusEvent" \notin one
    OBVIOUS
  <2> HIDE DEF one
  <2> QED
    BY <1>2, <2>1, FS_AddElement
<1>4. IsFiniteSet(three) /\ Cardinality(three) = 3
  <2>1. "ActivityEvent" \notin two
    OBVIOUS
  <2> HIDE DEF two
  <2> QED
    BY <1>3, <2>1, FS_AddElement
<1>5. IsFiniteSet(four) /\ Cardinality(four) = 4
  <2>1. "DriveModeEvent" \notin three
    OBVIOUS
  <2> HIDE DEF three
  <2> QED
    BY <1>4, <2>1, FS_AddElement
<1>6. IsFiniteSet(five) /\ Cardinality(five) = 5
  <2>1. "ControllerEvent" \notin four
    OBVIOUS
  <2> HIDE DEF four
  <2> QED
    BY <1>5, <2>1, FS_AddElement
<1>7. DOMAIN EventType = five
  BY <1>1
<1>8. \A n \in DOMAIN EventType : EventType[n] \in 1 .. 5
  BY DEF EventType
<1> HIDE DEF five
<1> QED
  BY <1>6, <1>7, <1>8

(* An event of a class the client does not know is skipped. *)
LEMMA LaterEventSkipped ==
  ASSUME NEW tables
  PROVE  ParseEvent(WriteEvent(Cardinality(DOMAIN EventType) + 1, tables)) = {}
<1> DEFINE tag == Cardinality(DOMAIN EventType) + 1
<1> DEFINE written == WriteEvent(tag, tables)
<1> DEFINE ev == ReadTable(EventGets, written)
<1> DEFINE known == {n \in DOMAIN EventType : {EventType[n]} = ev.event_type}
<1>1. ev.event_type = {tag}
  BY EventFrame
<1>2. known = {}
  <2> HIDE DEF ev
  <2>1. \A n \in DOMAIN EventType : EventType[n] # tag
    BY FiveClasses
  <2> HIDE DEF tag
  <2> QED
    BY <1>1, <2>1
<1>3. ParseEvent(written)
        = {e \in UNION {{[class |-> n, fields |-> InnerEvent(n, t)] : t \in ev.event} :
                        n \in known} : \A f \in DOMAIN e.fields : e.fields[f] # {}}
  BY DEF ParseEvent
<1> HIDE DEF ev, known, written
<1>4. ParseEvent(written) = {}
  BY <1>2, <1>3
<1> QED
  BY <1>4 DEF written, tag

-----------------------------------------------------------------------------
(* Telemetry *)

(* The slots of a layout lie in an interval. *)
SlotsIn(adds, first, last) ==
  \A f \in DOMAIN adds :
    adds[f].slot \in Int /\ first <= adds[f].slot /\ adds[f].slot <= last

(* Layouts in different intervals stay distinct together. *)
LEMMA ExtendedDistinct ==
  ASSUME NEW a, NEW b, NEW first \in Int, NEW mid \in Int, NEW last \in Int,
         first <= mid, mid < last,
         Distinct(a), SlotsIn(a, first, mid), Distinct(b), SlotsIn(b, mid + 1, last)
  PROVE  Distinct(Extended(a, b)) /\ SlotsIn(Extended(a, b), first, last)
<1> DEFINE e == Extended(a, b)
<1>1. \A f \in DOMAIN e : \/ f \in DOMAIN a /\ e[f] = a[f]
                          \/ f \in DOMAIN b /\ e[f] = b[f]
  BY DEF Extended
<1> HIDE DEF e
<1>2. \A f \in DOMAIN a, g \in DOMAIN b : a[f].slot # b[g].slot
  BY DEF SlotsIn
<1>3. SlotsIn(e, first, last)
  BY <1>1 DEF SlotsIn
<1>4. Distinct(e)
  BY <1>1, <1>2 DEF Distinct
<1> QED
  BY <1>3, <1>4 DEF e

LEMMA ArmTelemetryLayout ==
  /\ ArmTelemetryGets = ArmTelemetryAdds /\ Distinct(ArmTelemetryAdds)
  /\ JointFields \subseteq DOMAIN ArmTelemetryAdds
<1>1. TargetGets = TargetAdds /\ Distinct(TargetAdds) /\ SlotsIn(TargetAdds, 0, 2)
  BY DEF TargetGets, TargetAdds, Add, Get, Distinct, SlotsIn
<1>2. ActualGets = ActualAdds /\ Distinct(ActualAdds) /\ SlotsIn(ActualAdds, 3, 5)
  BY DEF ActualGets, ActualAdds, Add, Get, Distinct, SlotsIn
<1>3. HealthGets = HealthAdds /\ Distinct(HealthAdds) /\ SlotsIn(HealthAdds, 6, 10)
  BY DEF HealthGets, HealthAdds, Add, Get, Distinct, SlotsIn
<1>4. /\ TcpActualGets = TcpActualAdds /\ Distinct(TcpActualAdds)
      /\ SlotsIn(TcpActualAdds, 11, 14)
  BY DEF TcpActualGets, TcpActualAdds, Add, Get, Distinct, SlotsIn
<1>5. /\ TcpCommandedGets = TcpCommandedAdds /\ Distinct(TcpCommandedAdds)
      /\ SlotsIn(TcpCommandedAdds, 15, 18)
  BY DEF TcpCommandedGets, TcpCommandedAdds, Add, Get, Distinct, SlotsIn
<1>6. ArmTelemetryGets = ArmTelemetryAdds
  BY <1>1, <1>2, <1>3, <1>4, <1>5
     DEF ArmTelemetryGets, ArmTelemetryAdds, JointGets, JointAdds
<1>7. Distinct(Extended(TargetAdds, ActualAdds)) /\ SlotsIn(Extended(TargetAdds, ActualAdds), 0, 5)
  BY <1>1, <1>2, ExtendedDistinct
<1>8. Distinct(JointAdds) /\ SlotsIn(JointAdds, 0, 10)
  BY <1>3, <1>7, ExtendedDistinct DEF JointAdds
<1> DEFINE tcp == Extended(TcpActualAdds, TcpCommandedAdds)
<1>9. Distinct(tcp) /\ SlotsIn(tcp, 11, 18)
  BY <1>4, <1>5, ExtendedDistinct
<1> HIDE DEF tcp
<1>10. Distinct(Extended(JointAdds, tcp)) /\ SlotsIn(Extended(JointAdds, tcp), 0, 18)
  BY <1>8, <1>9, ExtendedDistinct
<1>11. ArmTelemetryAdds = Extended(JointAdds, tcp)
  BY DEF ArmTelemetryAdds, tcp
<1>12. JointFields \subseteq DOMAIN ArmTelemetryAdds
  <2>1. JointFields = (DOMAIN TargetAdds \cup DOMAIN ActualAdds) \cup DOMAIN HealthAdds
    BY DEF JointFields, TargetAdds, ActualAdds, HealthAdds
  <2>2. \A a, b : DOMAIN Extended(a, b) = DOMAIN a \cup DOMAIN b
    BY DEF Extended
  <2>3. DOMAIN JointAdds = JointFields
    BY <2>1, <2>2 DEF JointAdds
  <2> QED
    BY <1>11, <2>2, <2>3
<1> QED
  BY <1>6, <1>10, <1>11, <1>12

LEMMA ReportLayouts ==
  /\ SafetyStateGets = SafetyStateAdds /\ Distinct(SafetyStateAdds)
  /\ SystemStateGets = SystemStateAdds /\ Distinct(SystemStateAdds)
  /\ SingleTelemetryGets = SingleTelemetryAdds /\ Distinct(SingleTelemetryAdds)
  /\ HumanoidTelemetryGets = HumanoidTelemetryAdds /\ Distinct(HumanoidTelemetryAdds)
  /\ TelemetryDataGets = TelemetryDataAdds /\ Distinct(TelemetryDataAdds)
<1>1. SafetyStateGets = SafetyStateAdds /\ Distinct(SafetyStateAdds)
  BY DEF SafetyStateGets, SafetyStateAdds, Add, Get, Distinct
<1>2. SystemStateGets = SystemStateAdds /\ Distinct(SystemStateAdds)
  BY DEF SystemStateGets, SystemStateAdds, Add, Get, Distinct
<1>3. SingleTelemetryGets = SingleTelemetryAdds /\ Distinct(SingleTelemetryAdds)
  BY DEF SingleTelemetryGets, SingleTelemetryAdds, Add, Get, Distinct
<1>4. HumanoidTelemetryGets = HumanoidTelemetryAdds /\ Distinct(HumanoidTelemetryAdds)
  BY DEF HumanoidTelemetryGets, HumanoidTelemetryAdds, Add, Get, Distinct
<1>5. TelemetryDataGets = TelemetryDataAdds /\ Distinct(TelemetryDataAdds)
  BY DEF TelemetryDataGets, TelemetryDataAdds, Add, Get, Distinct
<1> QED
  BY <1>1, <1>2, <1>3, <1>4, <1>5

(* Every vector of an arm comes out under its own name, those left out as the
   parser fills them in. *)
LEMMA ReadingKept ==
  ASSUME NEW vectors
  PROVE  ArmFromFb(WriteArm(vectors)) = ReadingOf(vectors)
<1> DEFINE value == [f \in DOMAIN ArmTelemetryAdds |->
                       IF f \in DOMAIN vectors THEN {vectors[f]} ELSE Absent]
<1> DEFINE table == WriteArm(vectors)
<1> DEFINE t == ReadTable(ArmTelemetryGets, table)
<1>1. table = WriteTable(ArmTelemetryAdds, value)
  BY DEF WriteArm
<1> HIDE DEF value, table
<1>2. t = [f \in DOMAIN ArmTelemetryAdds |-> value[f]]
  BY <1>1, ArmTelemetryLayout, TableRoundTrip
<1>3. ArmFromFb(table) = [f \in DOMAIN t |-> IF f \in JointFields THEN Vec(t[f]) ELSE t[f]]
  BY DEF ArmFromFb
<1> HIDE DEF t
<1>4. ASSUME NEW f \in DOMAIN ArmTelemetryAdds
      PROVE  (IF f \in JointFields THEN Vec(value[f]) ELSE value[f])
             = (IF f \in DOMAIN vectors THEN {vectors[f]}
                ELSE IF f \in JointFields THEN {<<>>} ELSE {})
  <2>1. CASE f \in DOMAIN vectors
    <3>1. value[f] = {vectors[f]} /\ value[f] # {}
      BY <2>1 DEF value
    <3> QED
      BY <2>1, <3>1 DEF Vec, Absent
  <2>2. CASE f \notin DOMAIN vectors
    <3>1. value[f] = {}
      BY <2>2 DEF value, Absent
    <3> QED
      BY <2>2, <3>1 DEF Vec, Absent
  <2> QED
    BY <2>1, <2>2
<1>5. ArmFromFb(table)
        = [f \in DOMAIN ArmTelemetryAdds |->
             IF f \in JointFields THEN Vec(value[f]) ELSE value[f]]
  BY <1>2, <1>3
<1> QED
  BY <1>4, <1>5 DEF ReadingOf, table

(* The numbers of a system state get the members the schema names. *)
LEMMA SystemKept ==
  ASSUME NEW s, s = [f \in DOMAIN SystemStateAdds |-> s[f]]
  PROVE  SystemFromFb(WriteTable(SystemStateAdds, s)) = Named(Meanings.system, s)
<1> DEFINE table == WriteTable(SystemStateAdds, s)
<1> DEFINE numbers == [drive_status |-> DriveStatusNumbers, activity |-> ActivityTypeNumbers,
                       motion |-> MotionStatusNumbers]
<1>1. /\ DriveStatus = DriveStatusNumbers /\ ActivityType = ActivityTypeNumbers
      /\ MotionStatus = MotionStatusNumbers
  BY DEF DriveStatus, DriveStatusNumbers, ActivityType, ActivityTypeNumbers, MotionStatus,
         MotionStatusNumbers
<1>2. ReadTable(SystemStateGets, table) = s
  BY ReportLayouts, TableRoundTrip
<1> HIDE DEF table
<1>3. SystemFromFb(table) = [s EXCEPT !.drive_status = Member(DriveStatus, s.drive_status),
                                      !.activity = Member(ActivityType, s.activity),
                                      !.motion = Member(MotionStatus, s.motion)]
  BY <1>2 DEF SystemFromFb
<1>4. Meanings.system = numbers
  BY DEF Meanings
<1>5. /\ numbers.drive_status = DriveStatusNumbers /\ numbers.activity = ActivityTypeNumbers
      /\ numbers.motion = MotionStatusNumbers
      /\ DOMAIN numbers = {"drive_status", "activity", "motion"}
  OBVIOUS
<1>6. {"drive_status", "activity", "motion"} \subseteq DOMAIN s
  BY DEF SystemStateAdds
<1>7. s = [f \in DOMAIN s |-> s[f]]
  OBVIOUS
<1> HIDE DEF numbers
<1> QED
  BY <1>1, <1>3, <1>4, <1>5, <1>6, <1>7 DEF Named, Member, table

(* A safety state that is missing is one without faults. *)
NoSafety ==
  [f \in DOMAIN SafetyStateAdds |-> IF f = "last_received_seq" THEN {0} ELSE {FALSE}]

LEMMA SafetyKept ==
  ASSUME NEW safety,
         \/ safety = {}
         \/ \E s : safety = {s} /\ s = [f \in DOMAIN SafetyStateAdds |-> s[f]]
  PROVE  SafetyFromFb({WriteTable(SafetyStateAdds, s) : s \in safety})
         = IF safety = {} THEN NoSafety ELSE Value(safety)
<1>1. CASE safety = {}
  <2>1. SafetyFromFb({})
          = [any_fault |-> {FALSE}, all_op_enabled |-> {FALSE}, quickstop_requested |-> {FALSE},
             quickstop_active |-> {FALSE}, last_received_seq |-> {0}, has_controller |-> {FALSE}]
    BY DEF SafetyFromFb, Absent
  <2>2. DOMAIN SafetyStateAdds = {"any_fault", "all_op_enabled", "quickstop_requested",
                                  "quickstop_active", "last_received_seq", "has_controller"}
    BY DEF SafetyStateAdds
  <2>3. {WriteTable(SafetyStateAdds, s) : s \in safety} = {}
    BY <1>1
  <2> QED
    BY <1>1, <2>1, <2>2, <2>3 DEF NoSafety
<1>2. ASSUME NEW s, safety = {s}, s = [f \in DOMAIN SafetyStateAdds |-> s[f]]
      PROVE  SafetyFromFb({WriteTable(SafetyStateAdds, x) : x \in safety})
             = IF safety = {} THEN NoSafety ELSE Value(safety)
  <2> DEFINE table == WriteTable(SafetyStateAdds, s)
  <2>1. ReadTable(SafetyStateGets, table) = s
    BY <1>2, ReportLayouts, TableRoundTrip
  <2>2. {WriteTable(SafetyStateAdds, x) : x \in safety} = {table}
    BY <1>2
  <2> HIDE DEF table
  <2>3. SafetyFromFb({table}) = s
    BY <2>1, ValueOfOne DEF SafetyFromFb, Absent
  <2> QED
    BY <1>2, <2>2, <2>3, ValueOfOne
<1> QED
  BY <1>1, <1>2

(* The arms of a robot and the tag that says which there are *)
LEMMA RobotKept ==
  ASSUME NEW Readings,
         NEW arms \in {<<>>} \cup [{"arm"} -> Opt(Readings)]
                      \cup [{"right_arm", "left_arm"} -> Opt(Readings)]
  PROVE  LET robot == WriteRobot(arms)
             single == IF {robot.tag} = {RobotTelemetryType.SingleTelemetry}
                       THEN {ReadTable(SingleTelemetryGets, t) : t \in robot.table} ELSE {}
             hum == IF {robot.tag} = {RobotTelemetryType.HumanoidTelemetry}
                    THEN {ReadTable(HumanoidTelemetryGets, t) : t \in robot.table} ELSE {}
             read(name) == IF name \in DOMAIN arms THEN {WriteArm(v) : v \in arms[name]} ELSE {}
         IN  /\ UNION {t.arm : t \in single} = read("arm")
             /\ UNION {t.right : t \in hum} = read("right_arm")
             /\ UNION {t.left : t \in hum} = read("left_arm")
<1> DEFINE robot == WriteRobot(arms)
<1> DEFINE single == IF {robot.tag} = {RobotTelemetryType.SingleTelemetry}
                     THEN {ReadTable(SingleTelemetryGets, t) : t \in robot.table} ELSE {}
<1> DEFINE hum == IF {robot.tag} = {RobotTelemetryType.HumanoidTelemetry}
                  THEN {ReadTable(HumanoidTelemetryGets, t) : t \in robot.table} ELSE {}
<1> DEFINE read(name) == IF name \in DOMAIN arms THEN {WriteArm(v) : v \in arms[name]} ELSE {}
<1> SUFFICES /\ UNION {t.arm : t \in single} = read("arm")
             /\ UNION {t.right : t \in hum} = read("right_arm")
             /\ UNION {t.left : t \in hum} = read("left_arm")
  OBVIOUS
<1>1. /\ RobotTelemetryType.NONE = 0 /\ RobotTelemetryType.SingleTelemetry = 1
      /\ RobotTelemetryType.HumanoidTelemetry = 2
  BY DEF RobotTelemetryType
<1>2. CASE arms = <<>>
  <2>1. DOMAIN arms = {}
    BY <1>2
  <2>2. robot.tag = 0
    BY <1>1, <2>1 DEF WriteRobot
  <2> HIDE DEF robot
  <2>3. single = {} /\ hum = {}
    <3>1. {robot.tag} # {1} /\ {robot.tag} # {2}
      BY <2>2
    <3> QED
      BY <1>1, <3>1
  <2> HIDE DEF single, hum
  <2> QED
    BY <2>1, <2>3
<1>3. CASE arms \in [{"arm"} -> Opt(Readings)]
  <2> DEFINE value == [arm |-> {WriteArm(v) : v \in arms.arm}]
  <2> DEFINE table == WriteTable(SingleTelemetryAdds, value)
  <2> DEFINE back == ReadTable(SingleTelemetryGets, table)
  <2>1. DOMAIN arms = {"arm"}
    BY <1>3
  <2>2. robot.tag = 1 /\ robot.table = {table}
    BY <1>1, <2>1 DEF WriteRobot
  <2> HIDE DEF robot
  <2>3. single = {back} /\ hum = {}
    <3> HIDE DEF table
    <3> QED
      BY <1>1, <2>2
  <2>4. value.arm = read("arm")
    BY <2>1
  <2> HIDE DEF value
  <2>5. DOMAIN SingleTelemetryAdds = {"arm"}
    BY DEF SingleTelemetryAdds
  <2>6. back.arm = value.arm
    BY <2>5, ReportLayouts, FieldRoundTrip
  <2> HIDE DEF back, single, hum
  <2>7. read("right_arm") = {} /\ read("left_arm") = {}
    BY <2>1
  <2> HIDE DEF read
  <2> QED
    BY <2>3, <2>4, <2>6, <2>7
<1>4. CASE arms \in [{"right_arm", "left_arm"} -> Opt(Readings)]
  <2> DEFINE value == [right |-> {WriteArm(v) : v \in arms.right_arm},
                       left  |-> {WriteArm(v) : v \in arms.left_arm}]
  <2> DEFINE table == WriteTable(HumanoidTelemetryAdds, value)
  <2> DEFINE back == ReadTable(HumanoidTelemetryGets, table)
  <2>1. DOMAIN arms = {"right_arm", "left_arm"}
    BY <1>4
  <2>2. robot.tag = 2 /\ robot.table = {table}
    <3>1. DOMAIN arms # {} /\ DOMAIN arms # {"arm"}
      BY <2>1
    <3> QED
      BY <1>1, <3>1 DEF WriteRobot
  <2> HIDE DEF robot
  <2>3. single = {} /\ hum = {back}
    <3> HIDE DEF table
    <3> QED
      BY <1>1, <2>2
  <2>4. value.right = read("right_arm") /\ value.left = read("left_arm")
    BY <2>1
  <2> HIDE DEF value
  <2>5. DOMAIN HumanoidTelemetryAdds = {"right", "left"}
    BY DEF HumanoidTelemetryAdds
  <2>6. back.right = value.right /\ back.left = value.left
    <3>1. \A f \in DOMAIN HumanoidTelemetryAdds : back[f] = value[f]
      BY ReportLayouts, FieldRoundTrip
    <3> HIDE DEF back
    <3> QED
      BY <2>5, <3>1
  <2> HIDE DEF back, single, hum
  <2>7. read("arm") = {}
    BY <2>1
  <2> HIDE DEF read
  <2> QED
    BY <2>3, <2>4, <2>6, <2>7
<1> QED
  BY <1>2, <1>3, <1>4

(* A datagram gives what was reported; only one with a number no enum has is
   skipped, all of it. *)
LEMMA TelemetryRoundTrip ==
  ASSUME NEW m \in Telemetries
  PROVE  ParseTelemetry(WriteTelemetry(m.seq, m.safety, m.system, m.arms))
         = {t \in {TelemetryOf(m)} : \A s \in t.system : Whole(s)}
<1> DEFINE robot == WriteRobot(m.arms)
<1> DEFINE safety == {WriteTable(SafetyStateAdds, s) : s \in m.safety}
<1> DEFINE system == {WriteTable(SystemStateAdds, s) : s \in m.system}
<1> DEFINE value == [protocol_version |-> {1}, seq |-> {m.seq}, safety |-> safety,
                     robot_type |-> {robot.tag}, robot |-> robot.table, system |-> system]
<1> DEFINE data == WriteTelemetry(m.seq, m.safety, m.system, m.arms)
<1> DEFINE td == ReadTable(TelemetryDataGets, data)
<1> DEFINE single == IF {robot.tag} = {RobotTelemetryType.SingleTelemetry}
                     THEN {ReadTable(SingleTelemetryGets, t) : t \in robot.table} ELSE {}
<1> DEFINE hum == IF {robot.tag} = {RobotTelemetryType.HumanoidTelemetry}
                  THEN {ReadTable(HumanoidTelemetryGets, t) : t \in robot.table} ELSE {}
<1> DEFINE arm(name) == IF name \in DOMAIN m.arms THEN {ReadingOf(v) : v \in m.arms[name]} ELSE {}
<1>1. /\ m.safety \in Opt(SafetyStates) /\ m.system \in Opt(SystemStates)
      /\ m.arms \in RobotReadings
  BY DEF Telemetries, Opt, Given, RobotReadings
<1>2. data = WriteTable(TelemetryDataAdds, value)
  BY DEF WriteTelemetry
<1>3. /\ value.seq = {m.seq} /\ value.safety = safety /\ value.robot_type = {robot.tag}
      /\ value.robot = robot.table /\ value.system = system
  OBVIOUS
<1>4. DOMAIN TelemetryDataAdds
        = {"protocol_version", "seq", "safety", "robot_type", "robot", "system"}
  BY DEF TelemetryDataAdds
<1> HIDE DEF value, data
<1>5. \A f \in DOMAIN TelemetryDataAdds : td[f] = value[f]
  BY <1>2, ReportLayouts, FieldRoundTrip
<1> HIDE DEF td
<1>6. /\ td.seq = {m.seq} /\ td.safety = safety /\ td.robot_type = {robot.tag}
      /\ td.robot = robot.table /\ td.system = system
  BY <1>3, <1>4, <1>5
<1> HIDE DEF robot, safety, system
<1>7. Parsed(data)
        = [seq       |-> Value(td.seq),
           safety    |-> SafetyFromFb(td.safety),
           system    |-> {SystemFromFb(s) : s \in td.system},
           arm       |-> {ArmFromFb(a) : a \in UNION {t.arm : t \in single}},
           right_arm |-> {ArmFromFb(a) : a \in UNION {t.right : t \in hum}},
           left_arm  |-> {ArmFromFb(a) : a \in UNION {t.left : t \in hum}}]
  BY <1>6 DEF Parsed, td
<1>8. SafetyFromFb(td.safety) = IF m.safety = {} THEN NoSafety ELSE Value(m.safety)
  <2>1. m.safety = {} \/ (\E s : m.safety = {s} /\ s = [f \in DOMAIN SafetyStateAdds |-> s[f]])
    BY <1>1 DEF Opt, SafetyStates, SafetyStateAdds
  <2> QED
    BY <1>6, <2>1, SafetyKept DEF safety
<1>9. {SystemFromFb(s) : s \in td.system} = {Named(Meanings.system, s) : s \in m.system}
  <2>1. \A s \in m.system : s = [f \in DOMAIN SystemStateAdds |-> s[f]]
    BY <1>1 DEF Opt, SystemStates, SystemStateAdds
  <2>2. \A s \in m.system : SystemFromFb(WriteTable(SystemStateAdds, s))
                            = Named(Meanings.system, s)
    BY <2>1, SystemKept
  <2> QED
    BY <1>6, <2>2 DEF system
<1>10. /\ {ArmFromFb(a) : a \in UNION {t.arm : t \in single}} = arm("arm")
       /\ {ArmFromFb(a) : a \in UNION {t.right : t \in hum}} = arm("right_arm")
       /\ {ArmFromFb(a) : a \in UNION {t.left : t \in hum}} = arm("left_arm")
  <2> DEFINE read(name) == IF name \in DOMAIN m.arms
                           THEN {WriteArm(v) : v \in m.arms[name]} ELSE {}
  <2>1. /\ UNION {t.arm : t \in single} = read("arm")
        /\ UNION {t.right : t \in hum} = read("right_arm")
        /\ UNION {t.left : t \in hum} = read("left_arm")
    BY <1>1, RobotKept DEF RobotReadings, robot
  <2>2. \A v : ArmFromFb(WriteArm(v)) = ReadingOf(v)
    BY ReadingKept
  <2>3. ASSUME NEW name PROVE {ArmFromFb(a) : a \in read(name)} = arm(name)
    BY <2>2
  <2> HIDE DEF single, hum, read, arm
  <2> QED
    BY <2>1, <2>3
<1>11. TelemetryOf(m)
         = [seq |-> m.seq, safety |-> IF m.safety = {} THEN NoSafety ELSE Value(m.safety),
            system |-> {Named(Meanings.system, s) : s \in m.system},
            arm |-> arm("arm"), right_arm |-> arm("right_arm"), left_arm |-> arm("left_arm")]
  BY DEF TelemetryOf, NoSafety
<1> HIDE DEF single, hum, arm
<1>12. Parsed(data) = TelemetryOf(m)
  BY <1>6, <1>7, <1>8, <1>9, <1>10, <1>11, ValueOfOne
<1> QED
  BY <1>12 DEF ParseTelemetry, Whole, data

-----------------------------------------------------------------------------
(* The exchange of a message *)

(* Nothing is in a frame before it is sent. *)
Unsent == stage \in {"asked", "refused"} => frame = {}

(* What was sent is what is built of the message, and all of it can be encoded. *)
Sent == stage \in {"sent", "read"} =>
  /\ message.lane = "command" =>
       /\ Encodable(message.args)
       /\ frame = {BuildCommand(message.name, StoredArguments(message.args))}
  /\ message.lane = "motion" =>
       /\ MotionEncodable
       /\ frame = {IF "arm" \in DOMAIN StoredArms
                   THEN BuildSingle(StoredArms.arm, message.seq, message.ttl)
                   ELSE BuildHumanoid(StoredArms.right, StoredArms.left, message.seq,
                                      message.ttl)}
  /\ message.lane = "response" => frame = {BuildResponse(message.result, message.message)}
  /\ message.lane = "telemetry" =>
       frame = {WriteTelemetry(message.seq, message.safety, message.system, message.arms)}
  /\ message.lane = "event" =>
       frame = {IF message.class \in DOMAIN EventType
                THEN WriteEvent(EventType[message.class],
                                {WriteTable(EventWriters[message.class], f) :
                                 f \in message.fields})
                ELSE WriteEvent(Cardinality(DOMAIN EventType) + 1, {})}

(* What was read is what the other end makes of the frame. *)
Understood == stage = "read" =>
  /\ message.lane = "command" => meant = {UnderstoodCommand(f) : f \in frame}
  /\ message.lane = "motion" => meant = {UnderstoodMotion(f) : f \in frame}
  /\ message.lane = "response" =>
       meant = {[raised  |-> RaiseOnError(ParseResponse(f).result),
                 message |-> ParseResponse(f).message] : f \in frame}
  /\ message.lane = "telemetry" => meant = UNION {ParseTelemetry(f) : f \in frame}
  /\ message.lane = "event" => meant = UNION {ParseEvent(f) : f \in frame}

Messages ==
  {Nothing} \cup Commands \cup Motions \cup Responses \cup Telemetries \cup Events

ExchangeInv ==
  /\ message \in Messages
  /\ stage \in {"asked", "refused", "sent", "read"}
  /\ Unsent /\ Sent /\ Understood

(* An event has a class of this version, or a later one. *)
EventsOf(class) == [lane : {"event"}, class : {class}, fields : Opt(EventFields[class])]
LaterEvents == [lane : {"event"}, class : {"Later"}, fields : {{}}]

LEMMA EventClasses ==
  ASSUME NEW m \in Events
  PROVE  m \in LaterEvents \/ \E c \in DOMAIN EventFields : m \in EventsOf(c)
<1>1. Events = (UNION {EventsOf(c) : c \in DOMAIN EventFields}) \cup LaterEvents
  BY DEF Events, EventsOf, LaterEvents
<1> QED
  BY <1>1

(* The lane of a message says what it is. *)
LEMMA Lanes ==
  ASSUME NEW m \in Messages
  PROVE  /\ m.lane = "command" => m \in Commands
         /\ m.lane = "motion" => m \in Motions
         /\ m.lane = "response" => m \in Responses
         /\ m.lane = "telemetry" => m \in Telemetries
         /\ m.lane = "event" => m \in Events
<1>1. m = Nothing => m.lane = "none"
  BY DEF Nothing
<1>2. m \in Commands => m.lane = "command"
  BY DEF Commands
<1>3. m \in Motions => m.lane = "motion"
  BY DEF Motions
<1>4. m \in Responses => m.lane = "response"
  BY DEF Responses
<1>5. m \in Telemetries => m.lane = "telemetry"
  BY DEF Telemetries
<1>6. m \in Events => m.lane = "event"
  BY EventClasses DEF EventsOf, LaterEvents
<1> QED
  BY <1>1, <1>2, <1>3, <1>4, <1>5, <1>6 DEF Messages

LEMMA InitExchange == WireInit => ExchangeInv
BY DEF WireInit, ExchangeInv, Messages, Unsent, Sent, Understood

LEMMA NextExchange ==
  ASSUME ExchangeInv, [WireNext]_<<motionVars, contents>>
  PROVE  ExchangeInv'
<1>1. CASE UNCHANGED contents
  BY <1>1 DEF contents, ExchangeInv, Unsent, Sent, Understood, MotionEncodable, StoredArms
<1>2. CASE CommandRefused
  BY <1>2 DEF CommandRefused, ExchangeInv, Unsent, Sent, Understood
<1>3. CASE CommandBuilt
  BY <1>3 DEF CommandBuilt, Build, ExchangeInv, Unsent, Sent, Understood
<1>4. CASE CommandRead
  BY <1>4 DEF CommandRead, Read, ExchangeInv, Unsent, Sent, Understood
<1>13. CASE MotionRefused
  BY <1>13 DEF MotionRefused, ExchangeInv, Unsent, Sent, Understood
<1>5. CASE MotionBuilt
  BY <1>5 DEF MotionBuilt, Build, ExchangeInv, Unsent, Sent, Understood, MotionEncodable,
              StoredArms
<1>6. CASE MotionRead
  BY <1>6 DEF MotionRead, Read, ExchangeInv, Unsent, Sent, Understood, MotionEncodable,
              StoredArms
<1>7. CASE ResponseBuilt
  BY <1>7 DEF ResponseBuilt, Build, ExchangeInv, Unsent, Sent, Understood
<1>8. CASE ResponseRead
  BY <1>8 DEF ResponseRead, Read, ExchangeInv, Unsent, Sent, Understood
<1>9. CASE TelemetryBuilt
  BY <1>9 DEF TelemetryBuilt, Build, ExchangeInv, Unsent, Sent, Understood
<1>10. CASE TelemetryRead
  BY <1>10 DEF TelemetryRead, Read, ExchangeInv, Unsent, Sent, Understood
<1>11. CASE EventBuilt
  BY <1>11 DEF EventBuilt, Build, ExchangeInv, Unsent, Sent, Understood
<1>12. CASE EventRead
  BY <1>12 DEF EventRead, Read, ExchangeInv, Unsent, Sent, Understood
<1> QED
  BY <1>1, <1>2, <1>3, <1>4, <1>5, <1>6, <1>7, <1>8, <1>9, <1>10, <1>11, <1>12, <1>13
     DEF WireNext, Exchange, contents

(* What Connection's methods pass on are arguments of the command they name. *)
LEMMA CommandsFit ==
  ASSUME NEW m \in Commands
  PROVE  m.name \in DOMAIN Builders /\ Fits(m.name, m.args)
<1>1. m.name \in DOMAIN Arguments /\ m.args \in Arguments[m.name]
  BY DEF Commands
<1>2. DOMAIN Arguments = DOMAIN Builders
  BY DEF Arguments, Builders
<1> DEFINE args == m.args
<1> DEFINE adds == Builders[m.name].adds
<1>3. CASE m.name \in {"ReleaseControl", "ClearFault", "Stop", "CheckUpdate", "ApplyUpdate",
                       "Reboot"}
  <2>1. args = <<>>
    BY <1>1, <1>3 DEF Arguments
  <2>2. adds = NoFields
    BY <1>3 DEF Builders
  <2>3. DOMAIN NoFields = {} /\ DOMAIN args = {}
    BY <2>1 DEF NoFields
  <2>4. args = [f \in DOMAIN adds |-> args[f]]
    BY <2>1, <2>2, <2>3
  <2>5. \A f \in DOMAIN args : FALSE
    BY <2>3
  <2> HIDE DEF args, adds
  <2>6. Fits(m.name, args)
    BY <2>4, <2>5 DEF Fits, adds
  <2> QED
    BY <1>1, <1>2, <2>6 DEF args
<1>4. CASE m.name = "Quickstop"
  BY <1>1, <1>4 DEF Arguments, Builders, Fits, QuickstopAdds, Given, EnumArguments,
                    VectorArguments, JointLists, Gains
<1>5. CASE m.name = "Calibration"
  BY <1>1, <1>5 DEF Arguments, Builders, Fits, CalibrationAdds, Given, EnumArguments,
                    VectorArguments, JointLists, Gains
<1>6. CASE m.name = "SetDriveMode"
  BY <1>1, <1>6 DEF Arguments, Builders, Fits, SetDriveModeAdds, Given, EnumArguments,
                    VectorArguments, JointLists, Gains
<1>7. CASE m.name = "ClaimControl"
  BY <1>1, <1>7 DEF Arguments, Builders, Fits, ClaimControlAdds, Given, EnumArguments,
                    VectorArguments, JointLists, Gains
<1>8. CASE m.name = "SingleZeroing"
  BY <1>1, <1>8, VectorsAssumption
     DEF Arguments, Builders, Fits, SingleZeroingAdds, Given, EnumArguments,
         VectorArguments, JointLists, Gains
<1>9. CASE m.name = "HumanoidZeroing"
  BY <1>1, <1>9, VectorsAssumption
     DEF Arguments, Builders, Fits, HumanoidZeroingAdds, Opt, EnumArguments,
         VectorArguments, JointLists, Gains
<1>10. CASE m.name = "SingleSetSpeedOverride"
  BY <1>1, <1>10 DEF Arguments, Builders, Fits, SingleSetSpeedOverrideAdds, Given,
                     EnumArguments, VectorArguments, JointLists, Gains
<1>11. CASE m.name = "HumanoidSetSpeedOverride"
  BY <1>1, <1>11 DEF Arguments, Builders, Fits, HumanoidSetSpeedOverrideAdds, Given,
                     EnumArguments, VectorArguments, JointLists, Gains
<1>12. CASE m.name = "SetStreamingParams"
  BY <1>1, <1>12, VectorsAssumption
     DEF Arguments, Builders, Fits, SetStreamingParamsAdds, Given, Opt, EnumArguments,
         VectorArguments, JointLists, Gains
<1>13. DOMAIN Arguments
         = {"Quickstop", "Calibration", "SetDriveMode", "ClaimControl", "SingleZeroing",
            "HumanoidZeroing", "SingleSetSpeedOverride", "HumanoidSetSpeedOverride",
            "SetStreamingParams", "ReleaseControl", "ClearFault", "Stop", "CheckUpdate",
            "ApplyUpdate", "Reboot"}
  BY DEF Arguments
<1> QED
  BY <1>1, <1>2, <1>3, <1>4, <1>5, <1>6, <1>7, <1>8, <1>9, <1>10, <1>11, <1>12, <1>13

(* A vector that can be stored is a vector when it is. *)
LEMMA StoredVector ==
  ASSUME NEW v \in Seq(Int), Storable(v)
  PROVE  Stored(v) \in Seq(Int)
<1>1. \A i \in DOMAIN v : Float32[v[i]] \in Int
  BY Float32Assumption DEF Storable
<1>2. DOMAIN v = 1 .. Len(v) /\ Len(v) \in Nat
  OBVIOUS
<1> QED
  BY <1>1, <1>2 DEF Stored

LEMMA StoredFit ==
  ASSUME NEW name, NEW args, Fits(name, args), Encodable(args)
  PROVE  Fits(name, StoredArguments(args))
<1> DEFINE stored == StoredArguments(args)
<1>1. DOMAIN stored = DOMAIN args /\ DOMAIN args = DOMAIN Builders[name].adds
  BY DEF StoredArguments, Fits
<1>2. stored = [f \in DOMAIN Builders[name].adds |-> stored[f]]
  BY <1>1 DEF StoredArguments
<1>3. ASSUME NEW f \in DOMAIN args
      PROVE  /\ f \in DOMAIN EnumArguments => stored[f] \subseteq DOMAIN EnumArguments[f]
             /\ f \in VectorArguments => stored[f] \subseteq Seq(Int)
  <2>1. f \in Gains => stored[f] = {Stored(v) : v \in args[f]}
    <3>1. f \in Gains => f \notin Float32Arguments
      BY DEF Gains, Float32Arguments
    <3> QED
      BY <3>1 DEF StoredArguments
  <2>2. f \notin Gains /\ f \notin Float32Arguments => stored[f] = args[f]
    BY DEF StoredArguments
  <2>3. f \in DOMAIN EnumArguments => f \notin Gains /\ f \notin Float32Arguments
    BY DEF EnumArguments, Gains, Float32Arguments
  <2>4. f \in JointLists => f \notin Gains /\ f \notin Float32Arguments
    BY DEF JointLists, Gains, Float32Arguments
  <2>5. ASSUME f \in Gains, NEW v \in args[f] PROVE Stored(v) \in Seq(Int)
    BY <2>5, StoredVector DEF Encodable, Fits, VectorArguments
  <2> HIDE DEF stored
  <2> QED
    BY <2>1, <2>2, <2>3, <2>4, <2>5 DEF Fits, VectorArguments
<1> HIDE DEF stored
<1>4. Fits(name, stored)
  BY <1>1, <1>2, <1>3 DEF Fits
<1> QED
  BY <1>4 DEF stored

LEMMA StoredMotionFits ==
  ASSUME NEW motion \in AnyMotion, EncodableMotion(motion)
  PROVE  StoredMotion(motion) \in AnyMotion
<1>1. /\ motion.kind \in {"JointPose", "JointTwist"}
      /\ motion.target \in Seq(Int) /\ motion.velocity \in Opt(Seq(Int))
      /\ motion.impedance \in Opt(AnyImpedance)
      /\ motion.kind = "JointTwist" => motion.velocity = {}
  BY DEF AnyMotion, Opt
<1>2. Stored(motion.target) \in Seq(Int)
  BY <1>1, StoredVector DEF EncodableMotion
<1> DEFINE velocity == {Stored(v) : v \in motion.velocity}
<1>3. velocity \in Opt(Seq(Int))
  <2>1. CASE motion.velocity = {}
    BY <2>1 DEF Opt
  <2>2. ASSUME NEW v \in Seq(Int), motion.velocity = {v} PROVE velocity \in Opt(Seq(Int))
    <3>1. Stored(v) \in Seq(Int)
      BY <2>2, StoredVector DEF EncodableMotion
    <3>2. velocity = {Stored(v)}
      BY <2>2
    <3> QED
      BY <3>1, <3>2 DEF Opt
  <2> QED
    BY <1>1, <2>1, <2>2 DEF Opt
<1> DEFINE image(imp) == [kind |-> imp.kind, stiffness |-> Stored(imp.stiffness),
                          damping |-> Stored(imp.damping)]
<1> DEFINE impedance == {image(imp) : imp \in motion.impedance}
<1>4. impedance \in Opt(AnyImpedance)
  <2>1. CASE motion.impedance = {}
    BY <2>1 DEF Opt
  <2>2. ASSUME NEW imp \in AnyImpedance, motion.impedance = {imp}
        PROVE  impedance \in Opt(AnyImpedance)
    <3>1. imp.stiffness \in Seq(Int) /\ imp.damping \in Seq(Int)
          /\ imp.kind \in {"TcpImpedance", "JointImpedance"}
      BY DEF AnyImpedance
    <3>2. Stored(imp.stiffness) \in Seq(Int) /\ Stored(imp.damping) \in Seq(Int)
      BY <2>2, <3>1, StoredVector DEF EncodableMotion
    <3>3. image(imp) \in AnyImpedance
      BY <3>1, <3>2 DEF AnyImpedance
    <3>4. impedance = {image(imp)}
      BY <2>2
    <3> HIDE DEF image
    <3> QED
      BY <3>3, <3>4 DEF Opt
  <2> QED
    BY <1>1, <2>1, <2>2 DEF Opt
<1>5. StoredMotion(motion) = [kind |-> motion.kind, target |-> Stored(motion.target),
                              velocity |-> velocity, impedance |-> impedance]
  BY DEF StoredMotion
<1>6. motion.kind = "JointTwist" => velocity = {}
  BY <1>1
<1> HIDE DEF velocity, impedance
<1> QED
  BY <1>1, <1>2, <1>3, <1>4, <1>5, <1>6 DEF AnyMotion

LEMMA MotionsFit ==
  ASSUME NEW m \in Motions
  PROVE  \/ m.arms \in [{"arm"} -> AnyMotion]
         \/ m.arms \in [{"right", "left"} -> AnyMotion]
<1>1. Opt(Vectors) \subseteq Opt(Seq(Int)) /\ Opt(Impedances) \subseteq Opt(AnyImpedance)
  <2>1. Impedances \subseteq AnyImpedance
    BY VectorsAssumption DEF Impedances, AnyImpedance
  <2> QED
    BY <2>1, VectorsAssumption DEF Opt
<1>2. JointMotions \subseteq AnyMotion
  BY <1>1, VectorsAssumption DEF JointMotions, AnyMotion
<1>3. \/ m.arms \in [{"arm"} -> Moves]
      \/ m.arms \in [{"right", "left"} -> Moves]
  BY DEF Motions
<1> QED
  BY <1>2, <1>3, MovesAssumption

(* A known event has the fields of its class. *)
LEMMA EventsFit ==
  ASSUME NEW m \in Events
  PROVE  \/ /\ m.class \in DOMAIN EventType
            /\ \A c \in m.fields : c = [f \in DOMAIN EventWriters[m.class] |-> c[f]]
         \/ m.class \notin DOMAIN EventType /\ m.fields = {}
<1>1. CASE m \in LaterEvents
  <2>1. m.class = "Later" /\ m.fields = {}
    BY <1>1 DEF LaterEvents
  <2> QED
    BY <2>1 DEF EventType
<1>2. CASE m.class \in DOMAIN EventFields /\ m.fields \in Opt(EventFields[m.class])
  <2>1. DOMAIN EventFields = DOMAIN EventType
    BY DEF EventFields, EventType
  <2>2. ASSUME NEW c \in EventFields[m.class]
        PROVE  c = [f \in DOMAIN EventWriters[m.class] |-> c[f]]
    <3>1. CASE m.class = "DriveStatusEvent"
      BY <2>2, <3>1 DEF EventFields, EventWriters, DriveStatusEventAdds
    <3>2. CASE m.class = "MotionStatusEvent"
      BY <2>2, <3>2 DEF EventFields, EventWriters, MotionStatusEventAdds
    <3>3. CASE m.class = "ActivityEvent"
      BY <2>2, <3>3 DEF EventFields, EventWriters, ActivityEventAdds
    <3>4. CASE m.class = "DriveModeEvent"
      BY <2>2, <3>4 DEF EventFields, EventWriters, DriveModeEventAdds
    <3>5. CASE m.class = "ControllerEvent"
      BY <2>2, <3>5 DEF EventFields, EventWriters, ControllerEventAdds
    <3> QED
      BY <1>2, <3>1, <3>2, <3>3, <3>4, <3>5 DEF EventFields
  <2> QED
    BY <1>2, <2>1, <2>2 DEF Opt
<1>3. ASSUME NEW c \in DOMAIN EventFields, m \in EventsOf(c)
      PROVE  m.class \in DOMAIN EventFields /\ m.fields \in Opt(EventFields[m.class])
  BY <1>3 DEF EventsOf
<1> QED
  BY <1>1, <1>2, <1>3, EventClasses

LEMMA AskedFollows == ExchangeInv => UnderstoodAsAsked
<1> SUFFICES ASSUME ExchangeInv PROVE UnderstoodAsAsked
  OBVIOUS
<1>1. ASSUME message.lane = "command", stage = "read"
      PROVE  meant = {[name |-> message.name, args |-> StoredArguments(message.args)]}
  <2>1. message \in Commands
    BY <1>1, Lanes DEF ExchangeInv
  <2>4. Fits(message.name, StoredArguments(message.args))
    BY <1>1, <2>1, CommandsFit, StoredFit DEF ExchangeInv, Sent
  <2>2. UnderstoodCommand(BuildCommand(message.name, StoredArguments(message.args)))
          = [name |-> message.name, args |-> StoredArguments(message.args)]
    BY <2>1, <2>4, CommandsFit, CommandRoundTrip
  <2>3. /\ frame = {BuildCommand(message.name, StoredArguments(message.args))}
        /\ meant = {UnderstoodCommand(f) : f \in frame}
    BY <1>1 DEF ExchangeInv, Sent, Understood
  <2> QED
    BY <2>2, <2>3
<1>2. ASSUME message.lane = "motion", stage = "read"
      PROVE  meant = {[arms |-> StoredArms, seq |-> message.seq, ttl |-> message.ttl]}
  <2> DEFINE built == IF "arm" \in DOMAIN StoredArms
                      THEN BuildSingle(StoredArms.arm, message.seq, message.ttl)
                      ELSE BuildHumanoid(StoredArms.right, StoredArms.left, message.seq,
                                         message.ttl)
  <2>1. \/ StoredArms \in [{"arm"} -> AnyMotion]
        \/ StoredArms \in [{"right", "left"} -> AnyMotion]
    <3>1. \/ message.arms \in [{"arm"} -> AnyMotion]
          \/ message.arms \in [{"right", "left"} -> AnyMotion]
      BY <1>2, Lanes, MotionsFit DEF ExchangeInv
    <3>2. \A arm \in DOMAIN message.arms :
            message.arms[arm] \in AnyMotion => StoredMotion(message.arms[arm]) \in AnyMotion
      BY <1>2, StoredMotionFits DEF ExchangeInv, Sent, MotionEncodable
    <3> QED
      BY <3>1, <3>2 DEF StoredArms
  <2>2. UnderstoodMotion(built)
          = [arms |-> StoredArms, seq |-> message.seq, ttl |-> message.ttl]
    <3>1. CASE StoredArms \in [{"arm"} -> AnyMotion]
      <4>1. "arm" \in DOMAIN StoredArms
        BY <3>1
      <4> QED
        BY <3>1, <4>1, SingleRoundTrip
    <3>2. CASE StoredArms \in [{"right", "left"} -> AnyMotion]
      <4>1. "arm" \notin DOMAIN StoredArms
        BY <3>2
      <4> QED
        BY <3>2, <4>1, HumanoidRoundTrip
    <3> QED
      BY <2>1, <3>1, <3>2
  <2>3. frame = {built} /\ meant = {UnderstoodMotion(f) : f \in frame}
    BY <1>2 DEF ExchangeInv, Sent, Understood
  <2> HIDE DEF built
  <2> QED
    BY <2>2, <2>3
<1>3. stage = "refused" => frame = {}
  BY DEF ExchangeInv, Unsent
<1> QED
  BY <1>1, <1>2, <1>3 DEF UnderstoodAsAsked

LEMMA ReportedFollows == ExchangeInv => ReportedAsIs
<1> SUFFICES ASSUME ExchangeInv, stage = "read" PROVE ReportedAsIs
  BY DEF ReportedAsIs
<1>1. ASSUME message.lane = "response"
      PROVE  meant = {[raised  |-> ExceptionOf(message.result),
                       message |-> IF message.message = {} THEN "" ELSE Value(message.message)]}
  <2> DEFINE built == BuildResponse(message.result, message.message)
  <2> DEFINE text == IF message.message = {} THEN "" ELSE Value(message.message)
  <2>1. /\ frame = {built}
        /\ meant = {[raised  |-> RaiseOnError(ParseResponse(f).result),
                     message |-> ParseResponse(f).message] : f \in frame}
    BY <1>1 DEF ExchangeInv, Sent, Understood
  <2>2. ParseResponse(built) = [result |-> message.result, message |-> text]
    BY ResponseRoundTrip
  <2> HIDE DEF built, text
  <2>3. ParseResponse(built).result = message.result /\ ParseResponse(built).message = text
    BY <2>2
  <2>4. RaiseOnError(message.result) = ExceptionOf(message.result)
    BY ResultRaised
  <2>5. meant = {[raised |-> ExceptionOf(message.result), message |-> text]}
    BY <2>1, <2>3, <2>4
  <2> QED
    BY <2>5 DEF text
<1>2. ASSUME message.lane = "telemetry"
      PROVE  meant = {t \in {TelemetryOf(message)} : \A s \in t.system : Whole(s)}
  <2> DEFINE built == WriteTelemetry(message.seq, message.safety, message.system, message.arms)
  <2>1. frame = {built} /\ meant = UNION {ParseTelemetry(f) : f \in frame}
    BY <1>2 DEF ExchangeInv, Sent, Understood
  <2>2. message \in Telemetries
    BY <1>2, Lanes DEF ExchangeInv
  <2>3. ParseTelemetry(built) = {t \in {TelemetryOf(message)} : \A s \in t.system : Whole(s)}
    BY <2>2, TelemetryRoundTrip
  <2> HIDE DEF built
  <2>4. meant = ParseTelemetry(built)
    BY <2>1
  <2> QED
    BY <2>3, <2>4
<1>3. ASSUME message.lane = "event"
      PROVE  meant = {e \in {[class |-> message.class,
                              fields |-> Named(Meanings[message.class], f)] :
                             f \in message.fields} : Whole(e.fields)}
  <2> DEFINE built == IF message.class \in DOMAIN EventType
                      THEN WriteEvent(EventType[message.class],
                                      {WriteTable(EventWriters[message.class], f) :
                                       f \in message.fields})
                      ELSE WriteEvent(Cardinality(DOMAIN EventType) + 1, {})
  <2> DEFINE named == {e \in {[class |-> message.class,
                               fields |-> Named(Meanings[message.class], f)] :
                              f \in message.fields} : Whole(e.fields)}
  <2>1. frame = {built} /\ meant = UNION {ParseEvent(f) : f \in frame}
    BY <1>3 DEF ExchangeInv, Sent, Understood
  <2>2. message \in Events
    BY <1>3, Lanes DEF ExchangeInv
  <2>3. ParseEvent(built) = named
    <3>1. CASE /\ message.class \in DOMAIN EventType
               /\ \A c \in message.fields :
                    c = [f \in DOMAIN EventWriters[message.class] |-> c[f]]
      BY <3>1, KnownEventRead
    <3>2. CASE message.class \notin DOMAIN EventType /\ message.fields = {}
      <4>1. named = {}
        BY <3>2
      <4> QED
        BY <3>2, <4>1, LaterEventSkipped
    <3> QED
      BY <2>2, <3>1, <3>2, EventsFit
  <2> HIDE DEF built
  <2>4. meant = ParseEvent(built)
    BY <2>1
  <2> QED
    BY <2>3, <2>4
<1>4. CASE message.lane = "response"
  BY <1>1, <1>4 DEF ReportedAsIs
<1> QED
  BY <1>2, <1>3, <1>4 DEF ReportedAsIs

(* What is true of the messages of every exchange *)
LEMMA ExchangeInvHolds == WireSpec => []ExchangeInv
<1>1. WireInit => ExchangeInv
  BY InitExchange
<1>2. ExchangeInv /\ [WireNext]_<<motionVars, contents>> => ExchangeInv'
  BY NextExchange
<1> QED
  BY <1>1, <1>2, PTL DEF WireSpec

(* The exchange of other messages leaves the motion commands of a connection to
   MotionStream: all it promises holds of the whole. *)
THEOREM WireKeepsStream == WireSpec => MotionSpec
<1>1. WireInit => MotionInit
  BY DEF WireInit
<1>2. [WireNext]_<<motionVars, contents>> => [MotionNext]_motionVars
  BY DEF WireNext
<1> QED
  BY <1>1, <1>2, PTL DEF WireSpec, MotionSpec

(* Whatever command or motion a program sends, with whatever arguments, the
   controller reads the same command with the same arguments out of the frame
   that control.py or motion.py builds, and none of a command that cannot be
   encoded. *)
THEOREM AskedIsUnderstood == WireSpec => []UnderstoodAsAsked
<1>1. ExchangeInv => UnderstoodAsAsked
  BY AskedFollows
<1> QED
  BY <1>1, ExchangeInvHolds, PTL

(* Whatever the controller answers or reports, the program gets the exception,
   the values and the members that belong to it, or nothing. *)
THEOREM ReportIsUnderstood == WireSpec => []ReportedAsIs
<1>1. ExchangeInv => ReportedAsIs
  BY ReportedFollows
<1> QED
  BY <1>1, ExchangeInvHolds, PTL
=============================================================================
