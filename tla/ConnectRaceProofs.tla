-------------------------- MODULE ConnectRaceProofs --------------------------
(***************************************************************************)
(* Proofs about ConnectRace for any set of addresses and any number of     *)
(* cancellations of the caller.                                            *)
(***************************************************************************)
EXTENDS ConnectRace, TLAPS

Running == {"handshake", "established", "teardown"}

(* Whatever is still under way is in `tasks`, where the caller finds it. *)
Pending == \A a \in Addresses : attempt[a] \in Running => a \in tasks

(* Only a success has a connection, and one still in `tasks` has. *)
Successes ==
  /\ \A a \in open : attempt[a] \in {"established", "won"}
  /\ \A a \in tasks : attempt[a] \in {"established", "won"} => a \in open

(* No success leaves `tasks` while the race is on. *)
NoneSkipped ==
  pc = "racing" => \A a \in Addresses : attempt[a] = "won" => a \in tasks

WinnerKept ==
  /\ winner # NoAddress => /\ winner \in open /\ winner \notin tasks
                           /\ attempt[winner] = "won"
  /\ pc \in {"start", "racing", "failed", "refused"} =>
       winner = NoAddress /\ raising = FALSE
  /\ pc \in {"draining", "closing"} => (raising = TRUE <=> winner = NoAddress)
  /\ pc = "connected" => winner # NoAddress
  /\ pc = "cancelled" => winner = NoAddress

Progress ==
  /\ pc = "start" => tasks = {} /\ \A a \in Addresses : attempt[a] = "none"
  /\ Ended => tasks = {}
  /\ awaited # NoAddress => pc = "draining"
  /\ pc \in {"draining", "closing"} => tasks \subseteq doomed

(* The cancellation of an attempt that is being awaited can cost nothing: with
   the new wait_for a cancelled attempt does not win, and without cancellations
   of the caller there is none. *)
NothingForgotten == LateResults = FALSE \/ MaxCancels = 0

OpenAccounted == NothingForgotten =>
  /\ open \subseteq tasks \cup {winner}
  /\ awaited # NoAddress /\ LateResults = FALSE => attempt[awaited] # "won"

IInv ==
  /\ RaceTypeOK
  /\ Pending
  /\ Successes
  /\ NoneSkipped
  /\ WinnerKept
  /\ Progress
  /\ OpenAccounted
  /\ FailureIsTotal

LEMMA InitInv == RaceInit => IInv
<1> SUFFICES ASSUME RaceInit PROVE IInv
  OBVIOUS
<1>1. RaceTypeOK
  <2>1. cancels \in 0 .. MaxCancels
    BY AddressesAssumption DEF RaceInit
  <2>2. attempt \in [Addresses -> Stages]
    BY DEF RaceInit, Stages
  <2> QED
    BY <2>1, <2>2 DEF RaceInit, RaceTypeOK
<1>2. Pending /\ Successes /\ NoneSkipped
  BY DEF RaceInit, Pending, Running, Successes, NoneSkipped
<1>3. WinnerKept /\ Progress /\ OpenAccounted /\ FailureIsTotal
  BY DEF RaceInit, WinnerKept, Progress, Ended, Ends, OpenAccounted, FailureIsTotal
<1> QED
  BY <1>1, <1>2, <1>3 DEF IInv

(* A handshake that completes opens a connection; its attempt is in `tasks`. *)
LEMMA HandshakeInv ==
  ASSUME IInv, NEW a \in Addresses, HandshakeCompletes(a)
  PROVE  IInv'
<1>1. RaceTypeOK'
  BY DEF IInv, RaceTypeOK, Stages, HandshakeCompletes, Becomes, caller
<1>2. Pending'
  BY DEF IInv, Pending, Running, HandshakeCompletes, Becomes, caller
<1>3. Successes'
  BY DEF IInv, RaceTypeOK, Successes, HandshakeCompletes, Becomes, caller
<1>4. NoneSkipped'
  BY DEF IInv, NoneSkipped, HandshakeCompletes, Becomes, caller
<1>5. WinnerKept'
  BY DEF IInv, WinnerKept, HandshakeCompletes, Becomes, caller
<1>6. Progress'
  BY DEF IInv, Progress, Ended, HandshakeCompletes, caller
<1>7. OpenAccounted'
  BY DEF IInv, Pending, OpenAccounted, Running, HandshakeCompletes, Becomes,
     caller
<1>8. FailureIsTotal'
  BY DEF IInv, FailureIsTotal, HandshakeCompletes, caller
<1> QED
  BY <1>1, <1>2, <1>3, <1>4, <1>5, <1>6, <1>7, <1>8 DEF IInv

(* A success changes no connection; with the new wait_for it is not one of a
   cancelled attempt, so not of the one awaited. *)
LEMMA WinsInv ==
  ASSUME IInv, NEW a \in Addresses, AttemptWins(a)
  PROVE  IInv'
<1>1. RaceTypeOK'
  BY DEF IInv, RaceTypeOK, Stages, AttemptWins, Becomes, caller
<1>2. Pending'
  BY DEF IInv, Pending, Running, AttemptWins, Becomes, caller
<1>3. Successes'
  BY DEF IInv, Successes, AttemptWins, Becomes, caller
<1>4. NoneSkipped'
  BY DEF IInv, RaceTypeOK, Pending, NoneSkipped, Running, AttemptWins, Becomes,
     caller
<1>5. WinnerKept'
  BY DEF IInv, WinnerKept, AttemptWins, Becomes, caller
<1>6. Progress'
  BY DEF IInv, RaceTypeOK, Pending, Progress, Running, Ended, AttemptWins,
     Becomes, caller
<1>7. OpenAccounted'
  BY DEF IInv, RaceTypeOK, Pending, Progress, OpenAccounted, Running,
     AttemptWins, Becomes, caller
<1>8. FailureIsTotal'
  BY DEF IInv, FailureIsTotal, AttemptWins, Becomes, caller
<1> QED
  BY <1>1, <1>2, <1>3, <1>4, <1>5, <1>6, <1>7, <1>8 DEF IInv

(* A failure closes what the attempt had opened, which is not the winner's. *)
LEMMA FailsInv ==
  ASSUME IInv, NEW a \in Addresses, AttemptFails(a)
  PROVE  IInv'
<1>1. RaceTypeOK'
  BY DEF IInv, RaceTypeOK, Stages, AttemptFails, Becomes, caller
<1>2. Pending'
  BY DEF IInv, Pending, Running, AttemptFails, Becomes, caller
<1>3. Successes'
  BY DEF IInv, RaceTypeOK, Successes, AttemptFails, Becomes, caller
<1>4. NoneSkipped'
  BY DEF IInv, NoneSkipped, AttemptFails, Becomes, caller
<1>5. WinnerKept'
  BY DEF IInv, WinnerKept, AttemptFails, Becomes, caller
<1>6. Progress'
  BY DEF IInv, Progress, Ended, AttemptFails, Becomes, caller
<1>7. OpenAccounted'
  BY DEF IInv, OpenAccounted, AttemptFails, Becomes, caller
<1>8. FailureIsTotal'
  BY DEF IInv, FailureIsTotal, AttemptFails, caller
<1> QED
  BY <1>1, <1>2, <1>3, <1>4, <1>5, <1>6, <1>7, <1>8 DEF IInv

(* The end of a teardown opens and closes nothing. *)
LEMMA TeardownInv ==
  ASSUME IInv, NEW a \in Addresses, TeardownEnds(a)
  PROVE  IInv'
<1>1. RaceTypeOK'
  BY DEF IInv, RaceTypeOK, Stages, TeardownEnds, Becomes, caller
<1>2. Pending'
  BY DEF IInv, Pending, Running, TeardownEnds, Becomes, caller
<1>3. Successes'
  BY DEF IInv, Successes, TeardownEnds, Becomes, caller
<1>4. NoneSkipped'
  BY DEF IInv, NoneSkipped, TeardownEnds, Becomes, caller
<1>5. WinnerKept'
  BY DEF IInv, WinnerKept, TeardownEnds, Becomes, caller
<1>6. Progress'
  BY DEF IInv, Progress, Ended, TeardownEnds, caller
<1>7. OpenAccounted'
  BY DEF IInv, OpenAccounted, TeardownEnds, Becomes, caller
<1>8. FailureIsTotal'
  BY DEF IInv, FailureIsTotal, TeardownEnds, caller
<1> QED
  BY <1>1, <1>2, <1>3, <1>4, <1>5, <1>6, <1>7, <1>8 DEF IInv

(* The race starts with every attempt in `tasks`, and no connection. *)
LEMMA StartInv ==
  ASSUME IInv, StartRace
  PROVE  IInv'
<1>1. RaceTypeOK'
  BY AddressesAssumption DEF IInv, RaceTypeOK, Progress, Stages, StartRace,
     Candidates
<1>2. Pending'
  BY DEF IInv, Pending, Running, StartRace
<1>3. Successes'
  BY DEF IInv, RaceTypeOK, Successes, Progress, StartRace, Candidates
<1>4. NoneSkipped'
  BY DEF IInv, NoneSkipped, StartRace
<1>5. WinnerKept'
  BY DEF IInv, WinnerKept, StartRace
<1>6. Progress'
  BY DEF IInv, Progress, Ended, Ends, StartRace
<1>7. OpenAccounted'
  BY DEF IInv, Progress, OpenAccounted, StartRace
<1>8. FailureIsTotal'
  BY DEF IInv, FailureIsTotal, StartRace
<1> QED
  BY <1>1, <1>2, <1>3, <1>4, <1>5, <1>6, <1>7, <1>8 DEF IInv

(* Only failures leave `tasks`; when they were all, every attempt failed. *)
LEMMA AttemptsFailedInv ==
  ASSUME IInv, AttemptsFailed
  PROVE  IInv'
<1>1. RaceTypeOK'
  BY AddressesAssumption DEF IInv, RaceTypeOK, Progress, Ends, AttemptsFailed
<1>2. Pending'
  BY DEF IInv, Pending, Running, AttemptsFailed
<1>3. Successes'
  BY DEF IInv, Successes, AttemptsFailed
<1>4. NoneSkipped'
  BY DEF IInv, NoneSkipped, AttemptsFailed
<1>5. WinnerKept'
  BY DEF IInv, WinnerKept, AttemptsFailed
<1>6. Progress'
  BY DEF IInv, Progress, Ended, AttemptsFailed
<1>7. OpenAccounted'
  BY DEF IInv, Successes, OpenAccounted, AttemptsFailed
<1>8. FailureIsTotal'
  BY DEF IInv, RaceTypeOK, Pending, NoneSkipped, WinnerKept, FailureIsTotal,
     Running, Stages, AttemptsFailed
<1> QED
  BY <1>1, <1>2, <1>3, <1>4, <1>5, <1>6, <1>7, <1>8 DEF IInv

(* The winner leaves `tasks` with its connection, and failures without one;
   other successes stay. *)
LEMMA FirstWinsInv ==
  ASSUME IInv, FirstWins
  PROVE  IInv'
<1>1. RaceTypeOK'
  BY DEF IInv, RaceTypeOK, Progress, FirstWins, CancelLosers
<1>2. Pending'
  BY DEF IInv, Pending, Running, FirstWins, CancelLosers
<1>3. Successes'
  BY DEF IInv, Successes, FirstWins, CancelLosers
<1>4. NoneSkipped'
  BY DEF IInv, NoneSkipped, FirstWins, CancelLosers
<1>5. WinnerKept'
  BY AddressesAssumption DEF IInv, RaceTypeOK, Successes, WinnerKept, FirstWins,
     CancelLosers
<1>6. Progress'
  BY DEF IInv, Progress, Ended, Ends, FirstWins, CancelLosers
<1>7. OpenAccounted'
  BY DEF IInv, RaceTypeOK, Pending, Running, Successes, NoneSkipped, OpenAccounted,
     FirstWins, CancelLosers
<1>8. FailureIsTotal'
  BY DEF IInv, FailureIsTotal, FirstWins, CancelLosers
<1> QED
  BY <1>1, <1>2, <1>3, <1>4, <1>5, <1>6, <1>7, <1>8 DEF IInv

(* An attempt that is awaited is not over. *)
LEMMA AwaitInv ==
  ASSUME IInv, NEW a \in Addresses, AwaitLoser(a)
  PROVE  IInv'
<1>1. RaceTypeOK'
  BY DEF IInv, RaceTypeOK, AwaitLoser
<1>2. Pending'
  BY DEF IInv, Pending, AwaitLoser
<1>3. Successes'
  BY DEF IInv, Successes, AwaitLoser
<1>4. NoneSkipped'
  BY DEF IInv, NoneSkipped, AwaitLoser
<1>5. WinnerKept'
  BY DEF IInv, WinnerKept, AwaitLoser
<1>6. Progress'
  BY DEF IInv, Progress, Ended, AwaitLoser
<1>7. OpenAccounted'
  BY DEF IInv, OpenAccounted, AwaitLoser, Done
<1>8. FailureIsTotal'
  BY DEF IInv, FailureIsTotal, AwaitLoser
<1> QED
  BY <1>1, <1>2, <1>3, <1>4, <1>5, <1>6, <1>7, <1>8 DEF IInv

(* An attempt leaves `tasks` with its connection closed. *)
LEMMA LoserEndsInv ==
  ASSUME IInv, NEW a \in Addresses, LoserEnds(a)
  PROVE  IInv'
<1>1. RaceTypeOK'
  BY DEF IInv, RaceTypeOK, LoserEnds
<1>2. Pending'
  BY DEF IInv, Pending, Running, LoserEnds, Done
<1>3. Successes'
  BY DEF IInv, Successes, LoserEnds
<1>4. NoneSkipped'
  BY DEF IInv, NoneSkipped, LoserEnds
<1>5. WinnerKept'
  BY DEF IInv, WinnerKept, LoserEnds
<1>6. Progress'
  BY DEF IInv, Progress, Ended, Ends, LoserEnds
<1>7. OpenAccounted'
  BY DEF IInv, Successes, OpenAccounted, LoserEnds, Done
<1>8. FailureIsTotal'
  BY DEF IInv, FailureIsTotal, LoserEnds
<1> QED
  BY <1>1, <1>2, <1>3, <1>4, <1>5, <1>6, <1>7, <1>8 DEF IInv

(* A cancellation of the caller dooms the attempts and picks no winner. *)
LEMMA CancelRaceInv ==
  ASSUME IInv, CancelRace
  PROVE  IInv'
<1>1. RaceTypeOK'
  <2>1. cancels' \in 0 .. MaxCancels
    BY AddressesAssumption DEF IInv, RaceTypeOK, CancelRace
  <2>2. CASE pc = "start"
    BY <2>1, <2>2 DEF IInv, RaceTypeOK, Ends, CancelRace
  <2>3. CASE pc # "start"
    BY <2>1, <2>3 DEF IInv, RaceTypeOK, CancelRace, CancelLosers
  <2> QED
    BY <2>2, <2>3
<1>2. Pending'
  BY DEF IInv, Pending, Running, CancelRace, CancelLosers
<1>3. Successes'
  BY DEF IInv, Successes, CancelRace, CancelLosers
<1>4. NoneSkipped'
  BY DEF IInv, NoneSkipped, CancelRace, CancelLosers
<1>5. WinnerKept'
  BY DEF IInv, WinnerKept, CancelRace, CancelLosers
<1>6. Progress'
  BY DEF IInv, Progress, Ended, Ends, CancelRace, CancelLosers
<1>7. OpenAccounted'
  BY DEF IInv, OpenAccounted, CancelRace, CancelLosers
<1>8. FailureIsTotal'
  BY DEF IInv, FailureIsTotal, CancelRace, CancelLosers
<1> QED
  BY <1>1, <1>2, <1>3, <1>4, <1>5, <1>6, <1>7, <1>8 DEF IInv

(* A cancellation in the `finally` block makes it forget the attempt awaited if
   that one is over, which then is a failure. *)
LEMMA CancelDrainInv ==
  ASSUME IInv, CancelDrain
  PROVE  IInv'
<1>1. RaceTypeOK'
  BY AddressesAssumption DEF IInv, RaceTypeOK, CancelDrain
<1>2. Pending'
  BY DEF IInv, Pending, Running, CancelDrain, Done
<1>3. Successes'
  BY DEF IInv, Successes, CancelDrain
<1>4. NoneSkipped'
  BY DEF IInv, NoneSkipped, CancelDrain
<1>5. WinnerKept'
  BY DEF IInv, WinnerKept, CancelDrain
<1>6. Progress'
  BY DEF IInv, Progress, Ended, Ends, CancelDrain
<1>7. OpenAccounted'
  BY AddressesAssumption DEF IInv, RaceTypeOK, Successes, OpenAccounted,
     NothingForgotten, CancelDrain, Done
<1>8. FailureIsTotal'
  BY DEF IInv, FailureIsTotal, CancelDrain
<1> QED
  BY <1>1, <1>2, <1>3, <1>4, <1>5, <1>6, <1>7, <1>8 DEF IInv

(* The preflight, closing a late winner, returning, and stuttering. *)
LEMMA OtherStepsInv ==
  ASSUME IInv, PreflightFails \/ LateWinnerClosed \/ Return \/ UNCHANGED raceVars
  PROVE  IInv'
<1>1. RaceTypeOK'
  BY DEF IInv, RaceTypeOK, Ends, PreflightFails, LateWinnerClosed, Return, raceVars
<1>2. Pending'
  BY DEF IInv, Pending, PreflightFails, LateWinnerClosed, Return, raceVars
<1>3. Successes'
  BY DEF IInv, Successes, PreflightFails, LateWinnerClosed, Return, raceVars
<1>4. NoneSkipped'
  BY DEF IInv, NoneSkipped, PreflightFails, LateWinnerClosed, Return, raceVars
<1>5. WinnerKept'
  BY DEF IInv, WinnerKept, PreflightFails, LateWinnerClosed, Return, raceVars
<1>6. Progress'
  BY DEF IInv, RaceTypeOK, Progress, Ended, Ends, PreflightFails,
     LateWinnerClosed, Return, raceVars
<1>7. OpenAccounted'
  BY DEF IInv, OpenAccounted, PreflightFails, LateWinnerClosed, Return, raceVars
<1>8. FailureIsTotal'
  BY DEF IInv, FailureIsTotal, PreflightFails, LateWinnerClosed, Return, raceVars
<1> QED
  BY <1>1, <1>2, <1>3, <1>4, <1>5, <1>6, <1>7, <1>8 DEF IInv

LEMMA StepInv == IInv /\ [RaceNext]_raceVars => IInv'
<1> SUFFICES ASSUME IInv, [RaceNext]_raceVars PROVE IInv'
  OBVIOUS
<1>1. ASSUME NEW a \in Addresses, AttemptStep(a) PROVE IInv'
  BY <1>1, HandshakeInv, WinsInv, FailsInv, TeardownInv DEF AttemptStep
<1>2. CASE CallerStep
  BY <1>2, AttemptsFailedInv, FirstWinsInv, AwaitInv, LoserEndsInv,
     OtherStepsInv DEF CallerStep
<1>3. CASE PreflightFails \/ UNCHANGED raceVars
  BY <1>3, OtherStepsInv
<1>4. CASE StartRace \/ CancelRace \/ CancelDrain
  BY <1>4, StartInv, CancelRaceInv, CancelDrainInv
<1> QED
  BY <1>1, <1>2, <1>3, <1>4 DEF RaceNext

LEMMA Invariant == RaceSpec => []IInv
<1>1. RaceInit => IInv
  BY InitInv
<1>2. IInv /\ [RaceNext]_raceVars => IInv'
  BY StepInv
<1> QED
  BY <1>1, <1>2, PTL DEF RaceSpec

-----------------------------------------------------------------------------
(* Every variable of the race keeps its type. *)
THEOREM TypeCorrect == RaceSpec => []RaceTypeOK
<1>1. IInv => RaceTypeOK
  BY DEF IInv
<1> QED
  BY <1>1, Invariant, PTL

(* No attempt outlives connect_controller, however many addresses there are and
   however often and wherever the caller is cancelled. *)
THEOREM NoAttemptOutlives == RaceSpec => []NothingLeftRunning
<1>1. IInv => NothingLeftRunning
  <2> SUFFICES ASSUME IInv, Ended, NEW a \in Addresses
               PROVE  attempt[a] = "none" \/ Done(a)
    BY DEF NothingLeftRunning
  <2>1. attempt[a] \notin Running
    BY DEF IInv, Progress, Pending
  <2> QED
    BY <2>1 DEF IInv, RaceTypeOK, Stages, Running, Done
<1> QED
  BY <1>1, Invariant, PTL

(* ConnectError is raised only when every address was tried and has failed. *)
THEOREM FailsWhenAllFailed == RaceSpec => []FailureIsTotal
<1>1. IInv => FailureIsTotal
  BY DEF IInv
<1> QED
  BY <1>1, Invariant, PTL

(* The winner's connection is the only one left open, and after a failure or a
   cancellation none is: with the wait_for of Python 3.12 always, with the older
   one as long as the caller is not cancelled. *)
THEOREM LosersTornDown ==
  ASSUME NothingForgotten PROVE RaceSpec => []OthersTornDown
<1>1. IInv => OthersTornDown
  <2> SUFFICES ASSUME IInv, Ended
               PROVE  open = IF pc = "connected" THEN {winner} ELSE {}
    BY DEF OthersTornDown
  <2>1. open \subseteq Addresses /\ open \subseteq {winner}
    BY DEF IInv, RaceTypeOK, OpenAccounted, Progress
  <2>2. CASE pc = "connected"
    BY <2>1, <2>2 DEF IInv, WinnerKept
  <2>3. CASE pc # "connected"
    <3>1. winner = NoAddress
      BY <2>3 DEF Ended, Ends, IInv, WinnerKept
    <3> QED
      BY <2>1, <2>3, <3>1, AddressesAssumption
  <2> QED
    BY <2>2, <2>3
<1> QED
  BY <1>1, Invariant, PTL
=============================================================================
