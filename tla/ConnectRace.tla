---------------------------- MODULE ConnectRace ----------------------------
(***************************************************************************)
(* Connection establishment: connect_controller and _attempt_connect of    *)
(* transport.py.  All addresses of a controller are tried at once, one     *)
(* task each; the first handshake wins, the other tasks are cancelled and  *)
(* awaited one by one, and a connection that was completed all the same is *)
(* closed.                                                                 *)
(*                                                                         *)
(* The caller may be cancelled at any await of connect_controller.  What a *)
(* cancellation does to an attempt whose handshake has just completed      *)
(* depends on asyncio.wait_for: up to Python 3.11 it returns the finished  *)
(* result and forgets the cancellation, from 3.12 on it does not.  The     *)
(* project supports both (requires-python >= 3.10).                        *)
(***************************************************************************)
EXTENDS FiniteSets, Integers

CONSTANTS
  Addresses,   (* the addresses of the controller                          *)
  NoAddress,   (* no address                                               *)
  LateResults, (* asyncio.wait_for is that of Python 3.10 and 3.11         *)
  MaxCancels   (* bound: how often the caller is cancelled                 *)

ASSUME AddressesAssumption ==
  NoAddress \notin Addresses /\ LateResults \in BOOLEAN /\ MaxCancels \in Nat

VARIABLES
  pc,      (* where connect_controller is, or how it ended                 *)
  tasks,   (* the attempts in the dictionary `tasks`                       *)
  attempt, (* attempt[a]: where the task of address a is                   *)
  doomed,  (* the attempts whose task was cancelled                        *)
  open,    (* the QUIC connections that are established and not closed     *)
  winner,  (* the address of the connection that won                       *)
  awaited, (* the attempt the `finally` block is suspended on              *)
  raising, (* a CancelledError is on its way out of connect_controller     *)
  cancels  (* how often the caller was cancelled                           *)

raceVars ==
  <<pc, tasks, attempt, doomed, open, winner, awaited, raising, cancels>>

(* "established": the handshake is complete and the task has not resumed yet *)
Stages == {"none", "handshake", "established", "teardown", "won", "lost"}
Ends == {"connected", "failed", "cancelled", "refused"}

RaceTypeOK ==
  /\ pc \in {"start", "racing", "draining", "closing"} \cup Ends
  /\ tasks \subseteq Addresses
  /\ attempt \in [Addresses -> Stages]
  /\ doomed \subseteq Addresses
  /\ open \subseteq Addresses
  /\ winner \in Addresses \cup {NoAddress}
  /\ awaited \in tasks \cup {NoAddress}
  /\ raising \in BOOLEAN
  /\ cancels \in 0 .. MaxCancels

RaceInit ==
  /\ pc = "start"
  /\ tasks = {}
  /\ attempt = [a \in Addresses |-> "none"]
  /\ doomed = {}
  /\ open = {}
  /\ winner = NoAddress
  /\ awaited = NoAddress
  /\ raising = FALSE
  /\ cancels = 0

Done(a) == attempt[a] \in {"won", "lost"}

-----------------------------------------------------------------------------
(* One attempt: _attempt_connect *)

Becomes(a, stage) == attempt' = [attempt EXCEPT ![a] = stage]

(* What is left alone by an attempt's own steps *)
caller == <<pc, tasks, doomed, winner, awaited, raising, cancels>>

(* The handshake completes.  A cancelled handshake no longer does, but for the
   inner task of the old wait_for, which is cancelled a moment later. *)
HandshakeCompletes(a) ==
  /\ attempt[a] = "handshake"
  /\ a \in doomed => LateResults
  /\ Becomes(a, "established")
  /\ open' = open \cup {a}
  /\ UNCHANGED caller

(* wait_for returns and so does _attempt_connect. *)
AttemptWins(a) ==
  /\ attempt[a] = "established"
  /\ a \in doomed => LateResults
  /\ Becomes(a, "won")
  /\ UNCHANGED <<open, caller>>

(* The handshake fails, connect_timeout passes or the task is cancelled: the
   exit stack closes what was opened, and the exception is raised again. *)
AttemptFails(a) ==
  /\ \/ attempt[a] = "handshake"
     \/ attempt[a] = "established" /\ ~LateResults
  /\ Becomes(a, "teardown")
  /\ open' = open \ {a}
  /\ UNCHANGED caller

TeardownEnds(a) ==
  /\ attempt[a] = "teardown"
  /\ Becomes(a, "lost")
  /\ UNCHANGED <<open, caller>>

-----------------------------------------------------------------------------
(* connect_controller *)

(* The ALPN check, the list of addresses or the certificates: it raises before
   any attempt is made. *)
PreflightFails ==
  /\ pc = "start"
  /\ pc' = "refused"
  /\ UNCHANGED <<tasks, attempt, doomed, open, winner, awaited, raising,
                 cancels>>

(* The advertised addresses and those the host name resolves to, none of them
   twice; without any there is no race. *)
Candidates == SUBSET Addresses \ {{}}

StartRace ==
  /\ pc = "start"
  /\ \E A \in Candidates :
       /\ tasks' = A
       /\ attempt' = [a \in Addresses |-> IF a \in A THEN "handshake"
                                                     ELSE "none"]
  /\ pc' = "racing"
  /\ UNCHANGED <<doomed, open, winner, awaited, raising, cancels>>

(* The `finally` block: every task left is cancelled, then awaited. *)
CancelLosers(left) ==
  /\ tasks' = left
  /\ doomed' = doomed \cup left
  /\ pc' = "draining"

(* Variant: failures are reported and stay in `tasks`. *)
AttemptsFailedKept ==
  LET done == {a \in tasks : Done(a)}
  IN  /\ pc = "racing"
      /\ done # {}
      /\ \A a \in done : attempt[a] = "lost"
      /\ UNCHANGED raceVars

(* Variant: the first failure ends the race. *)
AttemptsFailedFirst ==
  LET done == {a \in tasks : Done(a)}
  IN  /\ pc = "racing"
      /\ done # {}
      /\ \A a \in done : attempt[a] = "lost"
      /\ tasks' = tasks \ done
      /\ pc' = "failed"
      /\ UNCHANGED <<attempt, doomed, open, winner, awaited, raising, cancels>>

(* asyncio.wait returns with failures only: they are collected, and the last
   one ends the race. *)
AttemptsFailed ==
  LET done == {a \in tasks : Done(a)}
  IN  /\ pc = "racing"
      /\ done # {}
      /\ \A a \in done : attempt[a] = "lost"
      /\ tasks' = tasks \ done
      /\ pc' = IF tasks' = {} THEN "failed" ELSE "racing"
      /\ UNCHANGED <<attempt, doomed, open, winner, awaited, raising, cancels>>

(* Variant: the losers that are done already are popped and forgotten. *)
FirstWinsPoppingAll ==
  LET done == {a \in tasks : Done(a)}
  IN  /\ pc = "racing"
      /\ \E w \in done :
           /\ attempt[w] = "won"
           /\ winner' = w
           /\ CancelLosers(tasks \ done)
      /\ UNCHANGED <<attempt, open, awaited, raising, cancels>>

(* asyncio.wait returns with a success among what is done.  The set of what is
   done is run through in any order up to the first success: some failures are
   popped, other successes stay in `tasks`. *)
FirstWins ==
  LET done == {a \in tasks : Done(a)}
  IN  /\ pc = "racing"
      /\ \E w \in done, popped \in SUBSET {a \in done : attempt[a] = "lost"} :
           /\ attempt[w] = "won"
           /\ winner' = w
           /\ CancelLosers(tasks \ ({w} \cup popped))
      /\ UNCHANGED <<attempt, open, awaited, raising, cancels>>

(* `await t` on an attempt that is not over suspends connect_controller. *)
AwaitLoser(a) ==
  /\ pc = "draining"
  /\ awaited = NoAddress
  /\ a \in tasks
  /\ ~Done(a)
  /\ awaited' = a
  /\ UNCHANGED <<pc, tasks, attempt, doomed, open, winner, raising, cancels>>

(* Variant: the attempt it was suspended on is not forgotten. *)
LoserEndsStill(a) ==
  /\ pc = "draining"
  /\ awaited \in {NoAddress, a}
  /\ a \in tasks
  /\ Done(a)
  /\ tasks' = tasks \ {a}
  /\ open' = open \ {a}
  /\ UNCHANGED <<pc, attempt, doomed, winner, awaited, raising, cancels>>

(* The attempt is over: an exception is ignored, a late winner is closed.  The
   close is under way when connect_controller is next suspended. *)
LoserEnds(a) ==
  /\ pc = "draining"
  /\ awaited \in {NoAddress, a}
  /\ a \in tasks
  /\ Done(a)
  /\ tasks' = tasks \ {a}
  /\ awaited' = NoAddress
  /\ IF attempt[a] = "won"
     THEN open' = open \ {a} /\ pc' = "closing"
     ELSE UNCHANGED <<open, pc>>
  /\ UNCHANGED <<attempt, doomed, winner, raising, cancels>>

LateWinnerClosed ==
  /\ pc = "closing"
  /\ pc' = "draining"
  /\ UNCHANGED <<tasks, attempt, doomed, open, winner, awaited, raising,
                 cancels>>

(* Variant: connect_controller does not wait for the attempts it cancelled. *)
ReturnWithoutWaiting ==
  /\ pc = "draining"
  /\ awaited = NoAddress
  /\ pc' = IF raising THEN "cancelled" ELSE "connected"
  /\ UNCHANGED <<tasks, attempt, doomed, open, winner, awaited, raising,
                 cancels>>

(* The `finally` block is over: the Connection is returned, or the caller's
   cancellation goes on. *)
Return ==
  /\ pc = "draining"
  /\ tasks = {}
  /\ pc' = IF raising THEN "cancelled" ELSE "connected"
  /\ UNCHANGED <<tasks, attempt, doomed, open, winner, awaited, raising,
                 cancels>>

-----------------------------------------------------------------------------
(* The caller's task is cancelled. *)

(* While the host name is looked up, or at asyncio.wait *)
CancelRace ==
  /\ pc \in {"start", "racing"}
  /\ cancels < MaxCancels
  /\ cancels' = cancels + 1
  /\ IF pc = "start"
     THEN pc' = "cancelled" /\ UNCHANGED <<tasks, doomed, raising>>
     ELSE CancelLosers(tasks) /\ raising' = TRUE
  /\ UNCHANGED <<attempt, open, winner, awaited>>

(* Inside the `finally` block, where every exception is swallowed.  If the task
   awaited is not over yet the cancellation is passed on to it, which has been
   cancelled before.  If it is over, its result is never looked at. *)
CancelDrain ==
  /\ cancels < MaxCancels
  /\ cancels' = cancels + 1
  /\ \/ /\ pc = "draining" /\ awaited # NoAddress
        /\ IF Done(awaited)
           THEN tasks' = tasks \ {awaited} /\ awaited' = NoAddress
           ELSE UNCHANGED <<tasks, awaited>>
        /\ UNCHANGED pc
     \/ /\ pc = "closing"
        /\ pc' = "draining"
        /\ UNCHANGED <<tasks, awaited>>
  /\ UNCHANGED <<attempt, doomed, open, winner, raising>>

-----------------------------------------------------------------------------
AttemptStep(a) ==
  \/ HandshakeCompletes(a)
  \/ AttemptWins(a)
  \/ AttemptFails(a)
  \/ TeardownEnds(a)

CallerStep ==
  \/ AttemptsFailed
  \/ FirstWins
  \/ \E a \in Addresses : AwaitLoser(a) \/ LoserEnds(a)
  \/ LateWinnerClosed
  \/ Return

RaceNext ==
  \/ PreflightFails
  \/ StartRace
  \/ \E a \in Addresses : AttemptStep(a)
  \/ CallerStep
  \/ CancelRace
  \/ CancelDrain

(* connect_timeout ends a handshake, closing ends with QUIC's own timer, and the
   event loop resumes the caller. *)
RaceFairness ==
  /\ \A a \in Addresses : WF_raceVars(AttemptStep(a))
  /\ WF_raceVars(CallerStep)

RaceSpec == RaceInit /\ [][RaceNext]_raceVars /\ RaceFairness

-----------------------------------------------------------------------------
(* Properties *)

Ended == pc \in Ends

(* "The first successful handshake wins, the others are torn down"
   (transport.py, connect_controller): when it has returned the one connection
   that is open is the one returned, and when it has raised none is.  Two
   handshakes completing in the same turn of the event loop, or one completing
   while it is being cancelled, leave nothing behind. *)
OthersTornDown ==
  Ended => open = IF pc = "connected" THEN {winner} ELSE {}

(* No attempt is still running when connect_controller is over. *)
NothingLeftRunning ==
  Ended => \A a \in Addresses : attempt[a] = "none" \/ Done(a)

(* ConnectError means what it says: every address was tried to its end and
   failed, and no success was passed over on the way. *)
FailureIsTotal ==
  pc = "failed" => /\ winner = NoAddress
                   /\ \E a \in Addresses : attempt[a] = "lost"
                   /\ \A a \in Addresses : attempt[a] \in {"none", "lost"}

(* connect_controller ends, whatever the controller and the network do and
   however often its caller is cancelled. *)
RaceEnds == pc = "racing" ~> Ended
=============================================================================
