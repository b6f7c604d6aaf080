------------------------- MODULE ClaimControlProofs -------------------------
(***************************************************************************)
(* Proofs about ClaimControl for any number of clients, forcing or not,    *)
(* and any number of contexts each of them enters.                         *)
(***************************************************************************)
EXTENDS ClaimControl, TLAPS

(* What the state of a call says of its command. *)
FateMatches == \A c \in Calls :
  /\ state[c] \in {"idle", "refused"} => fate[c] = "unsent"
  /\ state[c] \in {"returned", "raised"} => fate[c] = "executed"
  /\ fate[c] # "executed" => answer[c] = None

(* A client waits for one call at a time, of the context it is in. *)
OneCall(k) ==
  /\ phase[k] # "out" => attempt[k] \in Attempts
  /\ \A a \in Attempts :
       /\ state[<<k, a, "claim">>] = "waiting" =>
            a = attempt[k] /\ phase[k] = "entering"
       /\ state[<<k, a, "release">>] = "waiting" =>
            a = attempt[k] /\ phase[k] = "exiting"
  /\ phase[k] = "inside" => answer[Call(k, "claim")] = Ok

(* The claim of the context k is in was granted, and k may not know it yet. *)
Granted(k) == phase[k] \in {"entering", "inside"} /\ answer[Call(k, "claim")] = Ok

ReleaseInFlight(k) == \E a \in Attempts : fate[<<k, a, "release">>] = "inflight"
ReleaseGaveUp(k) == \E a \in Attempts : GaveUp(<<k, a, "release">>)

(* A granted claim holds: no late release of k's own revokes it. *)
GrantHolds(k) ==
  Granted(k) /\ link[k] = "up" => owner = k \/ Overruled(k) \/ ReleaseGaveUp(k)

(* The claims and releases of k that went wrong *)
Troubled(k) == \E a \in Attempts :
  GaveUp(<<k, a, "claim">>) \/ answer[<<k, a, "release">>] = InternalError

(* A client in control was granted its claim, or its release is on the way. *)
OwnerAccounted(k) ==
  owner = k /\ link[k] = "up" => Granted(k) \/ ReleaseInFlight(k) \/ Troubled(k)

ClientInv(k) == OneCall(k) /\ GrantHolds(k) /\ OwnerAccounted(k)

IInv ==
  /\ TypeOK
  /\ FateMatches
  /\ \A k \in Clients : ClientInv(k)

-----------------------------------------------------------------------------
(* The calls *)

Others(c) == \A x \in Calls \ {c} :
  state'[x] = state[x] /\ fate'[x] = fate[x] /\ answer'[x] = answer[x]

LEMMA IssueFacts ==
  ASSUME R!TypeOK, FateMatches, NEW c \in Calls, R!Issue(c)
  PROVE  /\ R!TypeOK' /\ FateMatches' /\ Others(c)
         /\ state'[c] = "waiting" /\ answer' = answer /\ answer[c] = None
  BY DEF R!TypeOK, R!States, R!Issue, FateMatches, Others, None

LEMMA RefuseFacts ==
  ASSUME R!TypeOK, FateMatches, NEW c \in Calls, R!Refuse(c)
  PROVE  /\ R!TypeOK' /\ FateMatches' /\ Others(c)
         /\ state'[c] = "refused" /\ fate' = fate /\ answer' = answer
  BY DEF R!TypeOK, R!States, R!Refuse, FateMatches, Others

LEMMA AnswerFacts ==
  ASSUME R!TypeOK, FateMatches, NEW c \in Calls, R!Answer(c)
  PROVE  /\ R!TypeOK' /\ FateMatches' /\ Others(c)
         /\ state'[c] \in {"returned", "raised"}
         /\ fate' = fate /\ answer' = answer
  BY DEF R!TypeOK, R!States, R!Answer, FateMatches, Others

LEMMA GiveUpFacts ==
  ASSUME R!TypeOK, FateMatches, NEW c \in Calls, R!GiveUp(c)
  PROVE  /\ R!TypeOK' /\ FateMatches' /\ Others(c)
         /\ state'[c] = "gaveup" /\ fate' = fate /\ answer' = answer
  BY DEF R!TypeOK, R!States, R!GiveUp, FateMatches, Others

LEMMA ExecuteFacts ==
  ASSUME R!TypeOK, FateMatches, NEW c \in Calls, NEW code \in Codes,
         Executes(c, code)
  PROVE  /\ R!TypeOK' /\ FateMatches' /\ Others(c)
         /\ state' = state /\ state[c] \in {"waiting", "gaveup"}
         /\ fate'[c] = "executed" /\ answer'[c] = code
  BY DEF R!TypeOK, R!States, R!Execute, Executes, FateMatches, Others

-----------------------------------------------------------------------------
(* The client *)

LEMMA CallType ==
  ASSUME NEW k \in Clients, NEW a \in Attempts
  PROVE  /\ <<k, a, "claim">> \in Calls
         /\ <<k, a, "release">> \in Calls
         /\ CallsOf(k) \subseteq Calls
  BY DEF Calls, CallsOf

(* A step of client k about its call c leaves the other clients' part of the
   invariant alone. *)
LEMMA ClientStepInv ==
  ASSUME IInv, NEW k \in Clients, NEW c \in CallsOf(k),
         R!TypeOK', FateMatches', Others(c), answer' = answer,
         link' = link, owner' = owner,
         phase' \in [Clients -> {"out", "entering", "inside", "exiting"}],
         attempt' \in [Clients -> 1 .. MaxAttempts + 1],
         \A j \in Clients \ {k} : phase'[j] = phase[j] /\ attempt'[j] = attempt[j],
         ClientInv(k)'
  PROVE  IInv'
<1>1. TypeOK'
  BY DEF IInv, TypeOK
<1>2. ASSUME NEW j \in Clients, j # k
      PROVE  ClientInv(j)'
  <2>1. /\ ClientInv(j) /\ phase'[j] = phase[j] /\ attempt'[j] = attempt[j]
        /\ link'[j] = link[j]
    BY <1>2 DEF IInv
  <2>2. \A a \in Attempts, op \in {"claim", "release"} :
          /\ state'[<<j, a, op>>] = state[<<j, a, op>>]
          /\ fate'[<<j, a, op>>] = fate[<<j, a, op>>]
    BY <1>2 DEF Others, CallsOf, Calls
  <2>3. OneCall(j)'
    BY <2>1, <2>2 DEF ClientInv, OneCall, Call
  <2>4. GrantHolds(j)'
    BY <2>1, <2>2 DEF ClientInv, GrantHolds, Granted, Call, Overruled,
       ReleaseGaveUp, GaveUp
  <2>5. OwnerAccounted(j)'
    BY <2>1, <2>2 DEF ClientInv, OwnerAccounted, Granted, Call,
       ReleaseInFlight, Troubled, GaveUp
  <2> QED
    BY <2>3, <2>4, <2>5 DEF ClientInv
<1> QED
  BY <1>1, <1>2 DEF IInv

(* What a client's own calls look like after a step about one of them. *)
LEMMA OwnCalls ==
  ASSUME NEW k \in Clients, NEW c \in CallsOf(k), Others(c)
  PROVE  \A a \in Attempts, op \in {"claim", "release"} : <<k, a, op>> # c =>
           /\ state'[<<k, a, op>>] = state[<<k, a, op>>]
           /\ fate'[<<k, a, op>>] = fate[<<k, a, op>>]
           /\ answer'[<<k, a, op>>] = answer[<<k, a, op>>]
  BY DEF Others, CallsOf, Calls

LEMMA ClaimInv ==
  ASSUME IInv, NEW k \in Clients, Claim(k)
  PROVE  IInv'
<1> DEFINE c == Call(k, "claim")
<1>1. attempt[k] \in Attempts
  BY AttemptsAssumption DEF Claim, MayEnter, Attempts
<1>2. c \in Calls /\ c \in CallsOf(k)
  BY <1>1, CallType DEF Call, CallsOf
<1>3. R!Issue(c) /\ fate'[c] = IF link[k] = "up" THEN "inflight" ELSE "unsent"
  BY DEF Claim, Send
<1>4. /\ R!TypeOK' /\ FateMatches' /\ Others(c)
      /\ state'[c] = "waiting" /\ answer' = answer /\ answer[c] = None
  BY <1>2, <1>3, IssueFacts DEF IInv, TypeOK
<1>5. /\ phase[k] = "out" /\ phase' = [phase EXCEPT ![k] = "entering"]
      /\ attempt' = attempt /\ link' = link /\ owner' = owner
      /\ phase'[k] = "entering"
  BY DEF Claim, GoTo, IInv, TypeOK
<1>6. ClientInv(k)'
  <2>1. ClientInv(k)
    BY DEF IInv
  <2>2. \A a \in Attempts :
          /\ state'[<<k, a, "release">>] = state[<<k, a, "release">>]
          /\ fate'[<<k, a, "release">>] = fate[<<k, a, "release">>]
          /\ a # attempt[k] => state'[<<k, a, "claim">>] = state[<<k, a, "claim">>]
    BY <1>2, <1>4, OwnCalls DEF Call
  <2>3. OneCall(k)'
    BY <1>1, <1>5, <2>1, <2>2 DEF ClientInv, OneCall
  <2>4. ~Granted(k)'
    BY <1>4, <1>5 DEF Granted, Call, None, Ok
  <2>5. OwnerAccounted(k)'
    <3>1. Troubled(k) => Troubled(k)'
      BY <1>1, <1>2, <1>3, <1>4, <2>2 DEF Troubled, GaveUp, Call, R!Issue
    <3>2. ReleaseInFlight(k) => ReleaseInFlight(k)'
      BY <2>2 DEF ReleaseInFlight
    <3> QED
      BY <1>5, <2>1, <3>1, <3>2 DEF ClientInv, OwnerAccounted, Granted
  <2> QED
    BY <2>3, <2>4, <2>5 DEF ClientInv, GrantHolds
<1> QED
  <2>1. /\ phase' \in [Clients -> {"out", "entering", "inside", "exiting"}]
        /\ \A j \in Clients \ {k} : phase'[j] = phase[j]
    BY <1>5 DEF IInv, TypeOK
  <2>2. attempt' \in [Clients -> 1 .. MaxAttempts + 1]
    BY <1>5 DEF IInv, TypeOK
  <2> QED
    BY <1>2, <1>4, <1>5, <1>6, <2>1, <2>2, ClientStepInv

(* A step that ends a context with a call of it, and that neither grants a claim
   nor sends anything: k is in control afterwards only if it was troubled, or if
   its release is still to be executed. *)
LEMMA LeaveInv ==
  ASSUME IInv, NEW k \in Clients, NEW op \in {"claim", "release"},
         attempt[k] \in Attempts, Leave(k), Others(Call(k, op)),
         R!TypeOK', FateMatches', answer' = answer, fate' = fate,
         link' = link, owner' = owner,
         state'[Call(k, op)] # "waiting",
         state[Call(k, op)] # "gaveup",
         \A o \in {"claim", "release"} \ {op} : state[Call(k, o)] # "waiting",
         Granted(k) => link[k] # "up" \/ Troubled(k)' \/ ReleaseInFlight(k)
  PROVE  IInv'
<1> DEFINE c == Call(k, op)
<1>1. c \in CallsOf(k)
  BY DEF Call, CallsOf
<1>2. /\ phase' = [phase EXCEPT ![k] = "out"]
      /\ attempt' = [attempt EXCEPT ![k] = @ + 1]
      /\ phase'[k] = "out"
  BY DEF Leave, GoTo, IInv, TypeOK
<1>3. attempt' \in [Clients -> 1 .. MaxAttempts + 1]
  BY <1>2, AttemptsAssumption DEF IInv, TypeOK, Attempts
<1>4. /\ phase' \in [Clients -> {"out", "entering", "inside", "exiting"}]
      /\ \A j \in Clients \ {k} : phase'[j] = phase[j] /\ attempt'[j] = attempt[j]
  BY <1>2 DEF IInv, TypeOK
<1>5. ClientInv(k)'
  <2>1. ClientInv(k)
    BY DEF IInv
  <2>2. \A a \in Attempts, o \in {"claim", "release"} :
          <<k, a, o>> # c => state'[<<k, a, o>>] = state[<<k, a, o>>]
    BY <1>1, OwnCalls
  <2>3. OneCall(k)'
    <3>1. \A a \in Attempts, o \in {"claim", "release"} :
            state'[<<k, a, o>>] # "waiting"
      BY <2>1, <2>2 DEF ClientInv, OneCall, Call
    <3> QED
      BY <1>2, <3>1 DEF OneCall
  <2>4. GrantHolds(k)'
    BY <1>2 DEF GrantHolds, Granted
  <2>5. OwnerAccounted(k)'
    <3>1. Troubled(k) => Troubled(k)'
      BY <2>2 DEF Troubled, GaveUp, Call
    <3>2. ReleaseInFlight(k) => ReleaseInFlight(k)'
      BY DEF ReleaseInFlight
    <3> QED
      BY <2>1, <3>1, <3>2 DEF ClientInv, OwnerAccounted
  <2> QED
    BY <2>3, <2>4, <2>5 DEF ClientInv
<1> QED
  BY <1>1, <1>3, <1>4, <1>5, ClientStepInv

LEMMA ClaimRefusedInv ==
  ASSUME IInv, NEW k \in Clients, ClaimRefused(k)
  PROVE  IInv'
<1> DEFINE c == Call(k, "claim")
<1>1. attempt[k] \in Attempts
  BY AttemptsAssumption DEF ClaimRefused, MayEnter, Attempts
<1>2. c \in Calls
  BY <1>1, CallType DEF Call
<1>3. /\ R!TypeOK' /\ FateMatches' /\ Others(c)
      /\ state'[c] = "refused" /\ fate' = fate /\ answer' = answer
  BY <1>2, RefuseFacts DEF ClaimRefused, IInv, TypeOK
<1>4. state[c] = "idle" /\ phase[k] = "out"
  BY DEF ClaimRefused, R!Refuse
<1>5. state[Call(k, "release")] # "waiting"
  BY <1>1, <1>4 DEF IInv, ClientInv, OneCall, Call
<1> QED
  BY <1>1, <1>3, <1>4, <1>5, LeaveInv DEF ClaimRefused, Granted

LEMMA ClaimAnsweredInv ==
  ASSUME IInv, NEW k \in Clients, ClaimAnswered(k)
  PROVE  IInv'
<1> DEFINE c == Call(k, "claim")
<1>1. phase[k] = "entering" /\ attempt[k] \in Attempts
  BY DEF ClaimAnswered, IInv, ClientInv, OneCall
<1>2. c \in Calls /\ c \in CallsOf(k)
  BY <1>1, CallType DEF Call, CallsOf
<1>3. /\ R!TypeOK' /\ FateMatches' /\ Others(c)
      /\ state'[c] \in {"returned", "raised"} /\ fate' = fate /\ answer' = answer
  BY <1>2, AnswerFacts DEF ClaimAnswered, IInv, TypeOK
<1>4. state[c] = "waiting" /\ link' = link /\ owner' = owner
  BY DEF ClaimAnswered, R!Answer
<1>5. state[Call(k, "release")] # "waiting"
  BY <1>1 DEF IInv, ClientInv, OneCall, Call
<1>6. CASE answer[c] = Ok
  <2>1. /\ phase' = [phase EXCEPT ![k] = "inside"] /\ attempt' = attempt
        /\ phase'[k] = "inside"
    BY <1>6 DEF ClaimAnswered, GoTo, IInv, TypeOK
  <2>2. ClientInv(k)
    BY DEF IInv
  <2>3. \A a \in Attempts, o \in {"claim", "release"} :
          <<k, a, o>> # c => state'[<<k, a, o>>] = state[<<k, a, o>>]
    BY <1>2, <1>3, OwnCalls
  <2>4. OneCall(k)'
    <3>1. \A a \in Attempts, o \in {"claim", "release"} :
            state'[<<k, a, o>>] # "waiting"
      BY <1>1, <1>3, <2>2, <2>3 DEF ClientInv, OneCall, Call
    <3> QED
      BY <1>1, <1>3, <1>6, <2>1, <3>1 DEF OneCall, Call
  <2>5. GrantHolds(k)'
    <3>1. ReleaseGaveUp(k) => ReleaseGaveUp(k)'
      BY <2>3 DEF ReleaseGaveUp, GaveUp, Call
    <3>2. Granted(k) /\ (Overruled(k) => Overruled(k)')
      BY <1>1, <1>3, <1>6 DEF Granted, Overruled
    <3> QED
      BY <1>4, <2>2, <3>1, <3>2 DEF ClientInv, GrantHolds
  <2>6. OwnerAccounted(k)'
    BY <1>3, <1>6, <2>1 DEF OwnerAccounted, Granted, Call
  <2>7. /\ phase' \in [Clients -> {"out", "entering", "inside", "exiting"}]
        /\ \A j \in Clients \ {k} : phase'[j] = phase[j]
        /\ attempt' \in [Clients -> 1 .. MaxAttempts + 1]
    BY <2>1 DEF IInv, TypeOK
  <2> QED
    BY <1>2, <1>3, <1>4, <2>1, <2>4, <2>5, <2>6, <2>7, ClientStepInv
       DEF ClientInv
<1>7. CASE answer[c] # Ok
  <2>1. Leave(k)
    BY <1>7 DEF ClaimAnswered
  <2>2. ~Granted(k)
    BY <1>7 DEF Granted
  <2> QED
    BY <1>1, <1>3, <1>4, <1>5, <2>1, <2>2, LeaveInv
<1> QED
  BY <1>6, <1>7

LEMMA ClaimGivesUpInv ==
  ASSUME IInv, NEW k \in Clients, ClaimGivesUp(k)
  PROVE  IInv'
<1> DEFINE c == Call(k, "claim")
<1>1. phase[k] = "entering" /\ attempt[k] \in Attempts
  BY DEF ClaimGivesUp, IInv, ClientInv, OneCall
<1>2. c \in Calls
  BY <1>1, CallType DEF Call
<1>3. /\ R!TypeOK' /\ FateMatches' /\ Others(c)
      /\ state'[c] = "gaveup" /\ fate' = fate /\ answer' = answer
  BY <1>2, GiveUpFacts DEF ClaimGivesUp, IInv, TypeOK
<1>4. state[c] = "waiting"
  BY DEF ClaimGivesUp, R!GiveUp
<1>5. state[Call(k, "release")] # "waiting"
  BY <1>1 DEF IInv, ClientInv, OneCall, Call
<1>6. Troubled(k)'
  BY <1>1, <1>3 DEF Troubled, GaveUp, Call
<1> QED
  BY <1>1, <1>3, <1>4, <1>5, <1>6, LeaveInv DEF ClaimGivesUp

LEMMA ExitInv ==
  ASSUME IInv, NEW k \in Clients, Exit(k)
  PROVE  IInv'
<1> DEFINE c == Call(k, "release")
<1>1. phase[k] = "inside" /\ attempt[k] \in Attempts
  BY DEF Exit, IInv, ClientInv, OneCall
<1>2. c \in Calls /\ c \in CallsOf(k)
  BY <1>1, CallType DEF Call, CallsOf
<1>3. R!Issue(c) /\ fate'[c] = IF link[k] = "up" THEN "inflight" ELSE "unsent"
  BY DEF Exit, Send
<1>4. /\ R!TypeOK' /\ FateMatches' /\ Others(c)
      /\ state'[c] = "waiting" /\ answer' = answer
  BY <1>2, <1>3, IssueFacts DEF IInv, TypeOK
<1>5. /\ phase' = [phase EXCEPT ![k] = "exiting"] /\ phase'[k] = "exiting"
      /\ attempt' = attempt /\ link' = link /\ owner' = owner
  BY DEF Exit, GoTo, IInv, TypeOK
<1>6. ClientInv(k)'
  <2>1. ClientInv(k)
    BY DEF IInv
  <2>2. OneCall(k)'
    <3>1. \A a \in Attempts, o \in {"claim", "release"} :
            <<k, a, o>> # c => state'[<<k, a, o>>] = state[<<k, a, o>>]
      BY <1>2, <1>4, OwnCalls
    <3>2. \A a \in Attempts, o \in {"claim", "release"} :
            <<k, a, o>> # c => state'[<<k, a, o>>] # "waiting"
      BY <1>1, <2>1, <3>1 DEF ClientInv, OneCall
    <3> QED
      BY <1>1, <1>5, <3>2 DEF OneCall, Call
  <2>3. GrantHolds(k)'
    BY <1>5 DEF GrantHolds, Granted
  <2>4. OwnerAccounted(k)'
    BY <1>1, <1>3, <1>5 DEF OwnerAccounted, ReleaseInFlight, Call
  <2> QED
    BY <2>2, <2>3, <2>4 DEF ClientInv
<1>7. /\ phase' \in [Clients -> {"out", "entering", "inside", "exiting"}]
      /\ \A j \in Clients \ {k} : phase'[j] = phase[j]
      /\ attempt' \in [Clients -> 1 .. MaxAttempts + 1]
  BY <1>5 DEF IInv, TypeOK
<1> QED
  BY <1>2, <1>4, <1>5, <1>6, <1>7, ClientStepInv

LEMMA ExitRefusedInv ==
  ASSUME IInv, NEW k \in Clients, ExitRefused(k)
  PROVE  IInv'
<1> DEFINE c == Call(k, "release")
<1>1. phase[k] = "inside" /\ attempt[k] \in Attempts
  BY DEF ExitRefused, IInv, ClientInv, OneCall
<1>2. c \in Calls
  BY <1>1, CallType DEF Call
<1>3. /\ R!TypeOK' /\ FateMatches' /\ Others(c)
      /\ state'[c] = "refused" /\ fate' = fate /\ answer' = answer
  BY <1>2, RefuseFacts DEF ExitRefused, IInv, TypeOK
<1>4. state[c] = "idle" /\ link[k] # "up"
  BY DEF ExitRefused, R!Refuse
<1>5. state[Call(k, "claim")] # "waiting"
  BY <1>1 DEF IInv, ClientInv, OneCall, Call
<1> QED
  BY <1>1, <1>3, <1>4, <1>5, LeaveInv DEF ExitRefused

LEMMA ExitEndsInv ==
  ASSUME IInv, NEW k \in Clients, ExitEnds(k)
  PROVE  IInv'
<1> DEFINE c == Call(k, "release")
<1>1. phase[k] = "exiting" /\ attempt[k] \in Attempts
  BY DEF ExitEnds, IInv, ClientInv, OneCall
<1>2. c \in Calls
  BY <1>1, CallType DEF Call
<1>3. /\ R!TypeOK' /\ FateMatches' /\ Others(c)
      /\ state'[c] \in {"returned", "raised", "gaveup"}
      /\ fate' = fate /\ answer' = answer
  BY <1>2, AnswerFacts, GiveUpFacts DEF ExitEnds, IInv, TypeOK
<1>4. state[c] = "waiting"
  BY DEF ExitEnds, R!Answer, R!GiveUp
<1>5. state[Call(k, "claim")] # "waiting" /\ ~Granted(k)
  BY <1>1 DEF IInv, ClientInv, OneCall, Call, Granted
<1> QED
  BY <1>1, <1>3, <1>4, <1>5, LeaveInv DEF ExitEnds

-----------------------------------------------------------------------------
(* The controller and the link *)

(* An answer stays, and so does what was concluded from it. *)
LEMMA AnswersStay ==
  ASSUME IInv, NEW c \in Calls, NEW code \in Codes, Executes(c, code),
         UNCHANGED <<phase, attempt, link>>, NEW j \in Clients
  PROVE  /\ OneCall(j)'
         /\ Granted(j) => Granted(j)'
         /\ Overruled(j) => Overruled(j)'
         /\ ReleaseGaveUp(j) => ReleaseGaveUp(j)'
         /\ Troubled(j) => Troubled(j)'
         /\ \A x \in Calls \ {c} : answer'[x] = answer[x] /\ fate'[x] = fate[x]
<1>1. /\ Others(c) /\ state' = state /\ answer[c] = None
      /\ FateMatches /\ fate[c] # "executed"
  BY ExecuteFacts DEF IInv, TypeOK, FateMatches, Executes, R!Execute
<1>2. \A x \in Calls : answer[x] # None => answer'[x] = answer[x]
  BY <1>1 DEF Others
<1>3. \A x \in Calls \ {c} : answer'[x] = answer[x] /\ fate'[x] = fate[x]
  BY <1>1 DEF Others
<1>4. Granted(j) => Granted(j)'
  <2>1. phase[j] \in {"entering", "inside"} => Call(j, "claim") \in Calls
    BY CallType DEF IInv, ClientInv, OneCall, Call
  <2> QED
    BY <1>2, <2>1 DEF Granted, Call, None, Ok
<1>5. OneCall(j)'
  <2>1. OneCall(j)
    BY DEF IInv, ClientInv
  <2>2. phase[j] = "inside" => Granted(j)
    BY <2>1 DEF OneCall, Granted
  <2> QED
    BY <1>1, <1>4, <2>1, <2>2 DEF OneCall, Granted
<1>6. Overruled(j) => Overruled(j)'
  <2> SUFFICES ASSUME NEW i \in Forcing \ {j}, NEW a \in Attempts,
                      answer[<<i, a, "claim">>] = Ok
               PROVE  Overruled(j)'
    BY DEF Overruled
  <2>1. <<i, a, "claim">> \in Calls
    BY CallType, ClientsAssumption
  <2> QED
    BY <1>2, <2>1 DEF Overruled, None, Ok
<1>7. ReleaseGaveUp(j) => ReleaseGaveUp(j)'
  BY <1>1 DEF ReleaseGaveUp, GaveUp
<1>8. Troubled(j) => Troubled(j)'
  BY <1>1, <1>2, CallType DEF Troubled, GaveUp, None, InternalError
<1> QED
  BY <1>3, <1>4, <1>5, <1>6, <1>7, <1>8

(* A claim that is granted makes k the owner; a client that loses control to it
   had none or was overruled. *)
LEMMA ExecuteClaimInv ==
  ASSUME IInv, NEW k \in Clients, NEW a \in Attempts, ExecuteClaim(k, a)
  PROVE  IInv'
<1> DEFINE c == <<k, a, "claim">>
<1>1. /\ c \in Calls /\ UNCHANGED <<phase, attempt, link>>
      /\ \A x \in Attempts : <<k, x, "release">> # c
  BY CallType DEF ExecuteClaim
<1>2. PICK code \in Codes :
        /\ Executes(c, code)
        /\ \/ /\ code = Ok /\ owner' = k
              /\ owner \in {Nobody, k} \/ k \in Forcing
           \/ code # Ok /\ owner' = owner
  BY DEF ExecuteClaim, Codes, Ok, AlreadyControlled, InternalError
<1>3. /\ R!TypeOK' /\ FateMatches' /\ state' = state
      /\ state[c] \in {"waiting", "gaveup"} /\ answer'[c] = code
  BY <1>1, <1>2, ExecuteFacts DEF IInv, TypeOK
<1>4. TypeOK'
  BY <1>1, <1>2, <1>3 DEF IInv, TypeOK
<1>5. ASSUME NEW j \in Clients PROVE ClientInv(j)'
  <2>1. /\ OneCall(j)'
        /\ Granted(j) => Granted(j)'
        /\ Overruled(j) => Overruled(j)'
        /\ ReleaseGaveUp(j) => ReleaseGaveUp(j)'
        /\ Troubled(j) => Troubled(j)'
        /\ \A x \in Calls \ {c} : answer'[x] = answer[x] /\ fate'[x] = fate[x]
    BY <1>1, <1>2, AnswersStay
  <2>2. ClientInv(j) /\ link'[j] = link[j]
    BY <1>1 DEF IInv
  <2>3. ReleaseInFlight(j) => ReleaseInFlight(j)'
    BY <2>1, CallType DEF ReleaseInFlight
  <2>4. CASE j = k
    <3>1. code # Ok => (Granted(j)' => Granted(j))
      BY <1>1, <1>3, <2>1, <2>4, CallType DEF Granted, Call, IInv, ClientInv, OneCall
    <3>2. GrantHolds(j)'
      BY <1>2, <2>1, <2>2, <2>4, <3>1 DEF ClientInv, GrantHolds
    <3>3. code = Ok => Granted(j)' \/ Troubled(j)'
      <4>1. CASE state[c] = "waiting"
        <5>1. a = attempt[k] /\ phase[k] = "entering"
          BY <2>2, <2>4, <4>1 DEF ClientInv, OneCall
        <5> QED
          BY <1>1, <1>3, <2>4, <5>1 DEF Granted, Call
      <4>2. CASE state[c] = "gaveup"
        BY <1>3, <2>4, <4>2 DEF Troubled, GaveUp
      <4> QED
        BY <1>3, <4>1, <4>2
    <3>4. OwnerAccounted(j)'
      BY <1>2, <2>1, <2>2, <2>3, <3>3 DEF ClientInv, OwnerAccounted
    <3> QED
      BY <2>1, <3>2, <3>4 DEF ClientInv
  <2>5. CASE j # k
    <3>1. Granted(j)' => Granted(j)
      BY <1>1, <2>1, <2>5, CallType DEF Granted, Call, IInv, ClientInv, OneCall
    <3>2. code = Ok /\ k \in Forcing => Overruled(j)'
      BY <1>3, <2>5 DEF Overruled
    <3>3. GrantHolds(j)'
      BY <1>2, <2>1, <2>2, <2>5, <3>1, <3>2, ClientsAssumption
         DEF ClientInv, GrantHolds
    <3>4. OwnerAccounted(j)'
      BY <1>2, <2>1, <2>2, <2>3, <2>5 DEF ClientInv, OwnerAccounted
    <3> QED
      BY <2>1, <3>3, <3>4 DEF ClientInv
  <2> QED
    BY <2>4, <2>5
<1> QED
  BY <1>3, <1>4, <1>5 DEF IInv

(* A release that is executed while its client holds a granted claim is a late
   one, which gave up. *)
LEMMA ExecuteReleaseInv ==
  ASSUME IInv, NEW k \in Clients, NEW a \in Attempts, ExecuteRelease(k, a)
  PROVE  IInv'
<1> DEFINE c == <<k, a, "release">>
<1>1. /\ c \in Calls /\ UNCHANGED <<phase, attempt, link>>
      /\ \A j \in Clients, x \in Attempts : <<j, x, "claim">> # c
  BY CallType DEF ExecuteRelease
<1>2. PICK code \in Codes :
        /\ Executes(c, code)
        /\ \/ owner = k /\ owner' = Nobody
           \/ owner' = owner /\ (owner = k => code = InternalError)
  BY DEF ExecuteRelease, Codes, Ok, NotController, InternalError
<1>3. /\ R!TypeOK' /\ FateMatches' /\ state' = state
      /\ state[c] \in {"waiting", "gaveup"} /\ answer'[c] = code
  BY <1>1, <1>2, ExecuteFacts DEF IInv, TypeOK
<1>4. TypeOK'
  BY <1>1, <1>2, <1>3 DEF IInv, TypeOK
<1>5. ASSUME NEW j \in Clients PROVE ClientInv(j)'
  <2>1. /\ OneCall(j)'
        /\ Granted(j) => Granted(j)'
        /\ Overruled(j) => Overruled(j)'
        /\ ReleaseGaveUp(j) => ReleaseGaveUp(j)'
        /\ Troubled(j) => Troubled(j)'
        /\ \A x \in Calls \ {c} : answer'[x] = answer[x] /\ fate'[x] = fate[x]
    BY <1>1, <1>2, AnswersStay
  <2>2. ClientInv(j) /\ link'[j] = link[j]
    BY <1>1 DEF IInv
  <2>3. Granted(j)' => Granted(j)
    BY <1>1, <2>1, CallType DEF Granted, Call, IInv, ClientInv, OneCall
  <2>4. Granted(j) /\ j = k => ReleaseGaveUp(j)'
    BY <1>3, <2>2 DEF Granted, ReleaseGaveUp, GaveUp, ClientInv, OneCall
  <2>5. GrantHolds(j)'
    BY <1>2, <2>1, <2>2, <2>3, <2>4 DEF ClientInv, GrantHolds
  <2>6. OwnerAccounted(j)'
    <3>1. CASE j = k
      <4>1. owner' = k => Troubled(j)'
        BY <1>2, <1>3, <3>1, ClientsAssumption DEF Troubled
      <4> QED
        BY <3>1, <4>1 DEF OwnerAccounted
    <3>2. CASE j # k
      <4>1. ReleaseInFlight(j) => ReleaseInFlight(j)'
        BY <2>1, <3>2, CallType DEF ReleaseInFlight
      <4>2. owner' = j => owner = j
        BY <1>2, ClientsAssumption
      <4> QED
        BY <2>1, <2>2, <4>1, <4>2 DEF ClientInv, OwnerAccounted
    <3> QED
      BY <3>1, <3>2
  <2> QED
    BY <2>1, <2>5, <2>6 DEF ClientInv
<1> QED
  BY <1>3, <1>4, <1>5 DEF IInv

(* The link only gets worse, and only a client without one loses control to the
   controller. *)
LEMMA LinkInv ==
  ASSUME IInv,
         \/ \E k \in Clients : CloseConnection(k) \/ LoseLink(k)
         \/ DropOwner
         \/ UNCHANGED vars
  PROVE  IInv'
<1>1. /\ UNCHANGED <<phase, attempt, calls>>
      /\ link' \in [Clients -> {"up", "lost", "closed"}]
      /\ owner' \in {owner, Nobody}
      /\ \A j \in Clients : link'[j] = "up" =>
           link[j] = "up" /\ (owner' = owner \/ owner # j)
  BY DEF CloseConnection, LoseLink, DropOwner, vars, IInv, TypeOK
<1>2. TypeOK' /\ FateMatches'
  BY <1>1 DEF IInv, TypeOK, R!TypeOK, FateMatches, calls
<1>3. ASSUME NEW j \in Clients PROVE ClientInv(j)'
  <2>1. ClientInv(j)
    BY DEF IInv
  <2>2. /\ OneCall(j)' /\ Granted(j)' = Granted(j) /\ Overruled(j)' = Overruled(j)
        /\ ReleaseGaveUp(j)' = ReleaseGaveUp(j) /\ Troubled(j)' = Troubled(j)
        /\ ReleaseInFlight(j)' = ReleaseInFlight(j)
    BY <1>1, <2>1 DEF ClientInv, OneCall, Granted, Call, Overruled, GaveUp,
       ReleaseGaveUp, Troubled, ReleaseInFlight, calls
  <2> QED
    BY <1>1, <2>1, <2>2, ClientsAssumption
       DEF ClientInv, GrantHolds, OwnerAccounted
<1> QED
  BY <1>2, <1>3 DEF IInv

-----------------------------------------------------------------------------
LEMMA InitInv == Init => IInv
<1> SUFFICES ASSUME Init PROVE IInv
  OBVIOUS
<1>1. TypeOK
  BY AttemptsAssumption DEF Init, TypeOK, R!Init, R!TypeOK, R!States
<1>2. FateMatches
  BY DEF Init, R!Init, FateMatches
<1>3. ASSUME NEW k \in Clients PROVE ClientInv(k)
  <2>1. OneCall(k)
    BY CallType DEF Init, R!Init, OneCall
  <2>2. phase[k] = "out" /\ owner # k
    BY ClientsAssumption DEF Init
  <2> QED
    BY <2>1, <2>2 DEF ClientInv, GrantHolds, Granted, OwnerAccounted
<1> QED
  BY <1>1, <1>2, <1>3 DEF IInv

LEMMA StepInv == IInv /\ [Next]_vars => IInv'
<1> SUFFICES ASSUME IInv, [Next]_vars PROVE IInv'
  OBVIOUS
<1>1. ASSUME NEW k \in Clients, ContextStep(k) PROVE IInv'
  BY <1>1, ClaimInv, ClaimRefusedInv, ClaimAnsweredInv, ClaimGivesUpInv,
     ExitInv, ExitRefusedInv, ExitEndsInv DEF ContextStep
<1>2. ASSUME NEW k \in Clients, ControllerStep(k) PROVE IInv'
  BY <1>2, ExecuteClaimInv, ExecuteReleaseInv DEF ControllerStep
<1>3. CASE \/ \E k \in Clients : CloseConnection(k) \/ LoseLink(k)
           \/ DropOwner
           \/ UNCHANGED vars
  BY <1>3, LinkInv
<1> QED
  BY <1>1, <1>2, <1>3 DEF Next

LEMMA Invariant == Spec => []IInv
<1>1. Init => IInv
  BY InitInv
<1>2. IInv /\ [Next]_vars => IInv'
  BY StepInv
<1> QED
  BY <1>1, <1>2, PTL DEF Spec

(* Every variable of the claim contexts keeps its type. *)
THEOREM TypeCorrect == Spec => []TypeOK
<1>1. IInv => TypeOK
  BY DEF IInv
<1> QED
  BY <1>1, Invariant, PTL

(* In the body of `async with conn.claim()` the client is in control, however
   many clients and contexts there are: it can lose control only to a forced
   claim, with its link, or by a late release of its own. *)
THEOREM InControlInside == Spec => []InsideOwns
<1>1. IInv => InsideOwns
  BY DEF IInv, ClientInv, OneCall, GrantHolds, Granted, ReleaseGaveUp, InsideOwns
<1> QED
  BY <1>1, Invariant, PTL

(* After a context the client is out of control once its commands are executed,
   unless a claim of its own gave up or the controller failed a release. *)
THEOREM OutOfControlAfter == Spec => []ReleasedAfterContext
<1>1. IInv => ReleasedAfterContext
  <2> SUFFICES ASSUME IInv, NEW k \in Clients,
                      phase[k] = "out", link[k] = "up",
                      \A c \in CallsOf(k) : fate[c] # "inflight",
                      \A a \in Attempts :
                        /\ ~GaveUp(<<k, a, "claim">>)
                        /\ answer[<<k, a, "release">>] # InternalError
               PROVE  owner # k
    BY DEF ReleasedAfterContext
  <2>1. ~ReleaseInFlight(k)
    BY DEF ReleaseInFlight, CallsOf
  <2>2. ~Granted(k) /\ ~Troubled(k)
    BY DEF Granted, Troubled
  <2> QED
    BY <2>1, <2>2 DEF IInv, ClientInv, OwnerAccounted
<1> QED
  BY <1>1, Invariant, PTL

-----------------------------------------------------------------------------
(* A step of a context or of the controller makes one of the client's calls take
   one step of Rpc, or leaves all of them alone: no path through __aenter__ and
   __aexit__ issues a command twice, awaits one it did not issue, or makes two
   of them move at once. *)
THEOREM ContextsUseRpc == Spec => R!SafeSpec
<1>1. Init => R!Init
  BY DEF Init
<1>2. IInv /\ [Next]_vars => [R!Next]_(R!vars)
  <2> SUFFICES ASSUME IInv, [Next]_vars PROVE [R!Next]_(R!vars)
    OBVIOUS
  <2>1. \A k \in Clients : ClientInv(k)
    BY DEF IInv
  <2>2. ASSUME NEW k \in Clients, ContextStep(k) PROVE R!Next
    <3>1. attempt[k] \in Attempts => Call(k, "claim") \in Calls /\ Call(k, "release") \in Calls
      BY DEF Call, Calls
    <3>2. phase[k] # "out" => attempt[k] \in Attempts
      BY <2>1 DEF ClientInv, OneCall
    <3>3. MayEnter(k) => attempt[k] \in Attempts
      BY AttemptsAssumption DEF MayEnter, Attempts
    <3> QED
      BY <2>2, <3>1, <3>2, <3>3 DEF ContextStep, Claim, ClaimRefused, ClaimAnswered,
         ClaimGivesUp, Exit, ExitRefused, ExitEnds, Send, R!Next
  <2>3. ASSUME NEW k \in Clients, ControllerStep(k) PROVE R!Next
    <3>1. PICK a \in Attempts : ExecuteClaim(k, a) \/ ExecuteRelease(k, a)
      BY <2>3 DEF ControllerStep
    <3>2. <<k, a, "claim">> \in Calls /\ <<k, a, "release">> \in Calls
      BY DEF Calls
    <3> QED
      BY <3>1, <3>2 DEF ExecuteClaim, ExecuteRelease, Executes, R!Next
  <2>4. ASSUME NEW k \in Clients, CloseConnection(k) \/ LoseLink(k) PROVE UNCHANGED calls
    BY <2>4 DEF CloseConnection, LoseLink
  <2>5. DropOwner \/ UNCHANGED vars => UNCHANGED calls
    BY DEF DropOwner, vars
  <2>6. UNCHANGED calls => UNCHANGED R!vars
    BY DEF calls, R!vars
  <2> QED
    BY <2>2, <2>3, <2>4, <2>5, <2>6 DEF Next
<1> QED
  BY <1>1, <1>2, Invariant, PTL DEF Spec, R!SafeSpec
=============================================================================
