---------------------------- MODULE ClaimControl ----------------------------
(***************************************************************************)
(* Control ownership: clients that use `async with conn.claim()` against   *)
(* one controller (Connection.claim, claim_control, release_control and    *)
(* _ClaimContext of transport.py).                                         *)
(*                                                                         *)
(* Every claim and every release is a remote call of module Rpc, which     *)
(* ControlStream implements: it may give up while the controller has yet   *)
(* to execute it, and the calls of one client are on independent streams,  *)
(* so the controller may execute them in another order.  The controller    *)
(* itself is not part of the repository; who it grants control to is read  *)
(* from the results control.py gives names to.                             *)
(***************************************************************************)
EXTENDS Integers

CONSTANTS
  Clients,      (* the connections, each used by one task                  *)
  Forcing,      (* the clients that call claim(force=True)                 *)
  MaxAttempts,  (* bound: the contexts one client enters                   *)
  Once,         (* bound: the clients that enter one context only          *)
  Nobody        (* the owner when no client is in control                  *)

ASSUME ClientsAssumption ==
  Forcing \subseteq Clients /\ Once \subseteq Clients /\ Nobody \notin Clients
ASSUME AttemptsAssumption == MaxAttempts \in Nat \ {0}

(* CommandResult, of control.py *)
Ok == 0
InternalError == 10
AlreadyControlled == 13
NotController == 14
Codes == {Ok, InternalError, AlreadyControlled, NotController}
None == -1

Attempts == 1 .. MaxAttempts
Calls == Clients \X Attempts \X {"claim", "release"}

VARIABLES
  phase,    (* phase[k]: "out" of any context, "entering", "inside" the
               body or "exiting"                                           *)
  attempt,  (* attempt[k]: the context k is in, or will enter next         *)
  link,     (* link[k]: "up", "lost" or "closed" by Connection.close       *)
  owner,    (* the client the controller takes commands from               *)
  state, result, fate, answer  (* of the calls, see Rpc *)

calls == <<state, result, fate, answer>>
vars == <<phase, attempt, link, owner, calls>>

R == INSTANCE Rpc

TypeOK ==
  /\ phase \in [Clients -> {"out", "entering", "inside", "exiting"}]
  /\ attempt \in [Clients -> 1 .. MaxAttempts + 1]
  /\ link \in [Clients -> {"up", "lost", "closed"}]
  /\ owner \in Clients \cup {Nobody}
  /\ R!TypeOK

Init ==
  /\ phase = [k \in Clients |-> "out"]
  /\ attempt = [k \in Clients |-> 1]
  /\ link = [k \in Clients |-> "up"]
  /\ owner = Nobody
  /\ R!Init

-----------------------------------------------------------------------------
(* The client *)

Call(k, op) == <<k, attempt[k], op>>

GoTo(k, p) == phase' = [phase EXCEPT ![k] = p]

(* The context is over; k may enter another one. *)
Leave(k) == /\ GoTo(k, "out")
            /\ attempt' = [attempt EXCEPT ![k] = @ + 1]

(* A command leaves unless the link is gone. *)
Send(k, call) ==
  /\ link[k] # "closed"
  /\ R!Issue(call)
  /\ fate'[call] = IF link[k] = "up" THEN "inflight" ELSE "unsent"

MayEnter(k) == attempt[k] \in IF k \in Once THEN {1} ELSE Attempts

(* __aenter__ up to its await *)
Claim(k) ==
  /\ phase[k] = "out"
  /\ MayEnter(k)
  /\ Send(k, Call(k, "claim"))
  /\ GoTo(k, "entering")
  /\ UNCHANGED <<attempt, link, owner>>

(* The connection is closed: claim_control raises, the body is skipped. *)
ClaimRefused(k) ==
  /\ phase[k] = "out"
  /\ MayEnter(k)
  /\ link[k] = "closed"
  /\ R!Refuse(Call(k, "claim"))
  /\ Leave(k)
  /\ UNCHANGED <<link, owner>>

(* The answer to the claim: on Ok the body starts, on an error __aenter__ raises
   and __aexit__ will not run. *)
ClaimAnswered(k) ==
  /\ phase[k] = "entering"
  /\ R!Answer(Call(k, "claim"))
  /\ IF answer[Call(k, "claim")] = Ok
     THEN GoTo(k, "inside") /\ UNCHANGED attempt
     ELSE Leave(k)
  /\ UNCHANGED <<link, owner>>

(* Timeout or cancellation inside __aenter__: it raises, and __aexit__ will not
   run, though the claim may be or become effective. *)
ClaimGivesUp(k) ==
  /\ phase[k] = "entering"
  /\ R!GiveUp(Call(k, "claim"))
  /\ Leave(k)
  /\ UNCHANGED <<link, owner>>

(* Variant: the release is sent and not awaited. *)
ExitWithoutWaiting(k) ==
  /\ phase[k] = "inside"
  /\ Send(k, Call(k, "release"))
  /\ Leave(k)
  /\ UNCHANGED <<link, owner>>

(* Variant: no release when the body ends with an exception. *)
ExitUnlessRaised(k) ==
  /\ phase[k] = "inside"
  /\ \/ /\ Send(k, Call(k, "release"))
        /\ GoTo(k, "exiting")
        /\ UNCHANGED attempt
     \/ Leave(k) /\ UNCHANGED calls
  /\ UNCHANGED <<link, owner>>

(* The body ends, by whatever way: __aexit__ up to its await. *)
Exit(k) ==
  /\ phase[k] = "inside"
  /\ Send(k, Call(k, "release"))
  /\ GoTo(k, "exiting")
  /\ UNCHANGED <<attempt, link, owner>>

(* The connection was closed inside the body: the ConnectError is swallowed. *)
ExitRefused(k) ==
  /\ phase[k] = "inside"
  /\ link[k] = "closed"
  /\ R!Refuse(Call(k, "release"))
  /\ Leave(k)
  /\ UNCHANGED <<link, owner>>

(* Variant: the release is awaited without a timeout. *)
ExitEndsAnsweredOnly(k) ==
  /\ phase[k] = "exiting"
  /\ R!Answer(Call(k, "release"))
  /\ Leave(k)
  /\ UNCHANGED <<link, owner>>

(* Variant: a release that gives up raises out of __aexit__. *)
ExitEndsRaising(k) ==
  /\ phase[k] = "exiting"
  /\ \/ R!Answer(Call(k, "release")) /\ Leave(k)
     \/ R!GiveUp(Call(k, "release")) /\ GoTo(k, "raised") /\ UNCHANGED attempt
  /\ UNCHANGED <<link, owner>>

(* The release is answered, with Ok or with an error that is swallowed, or gives
   up: either way the context is over. *)
ExitEnds(k) ==
  /\ phase[k] = "exiting"
  /\ R!Answer(Call(k, "release")) \/ R!GiveUp(Call(k, "release"))
  /\ Leave(k)
  /\ UNCHANGED <<link, owner>>

CloseConnection(k) ==
  /\ link[k] # "closed"
  /\ link' = [link EXCEPT ![k] = "closed"]
  /\ UNCHANGED <<phase, attempt, owner, calls>>

LoseLink(k) ==
  /\ link[k] = "up"
  /\ link' = [link EXCEPT ![k] = "lost"]
  /\ UNCHANGED <<phase, attempt, owner, calls>>

-----------------------------------------------------------------------------
(* The controller *)

Executes(call, code) == R!Execute(call) /\ answer'[call] = code

(* A claim is granted when nobody is in control or when it forces; a claim by
   the owner itself is granted or not. *)
ExecuteClaim(k, a) ==
  /\ \/ /\ owner \in {Nobody, k} \/ k \in Forcing
        /\ owner' = k
        /\ Executes(<<k, a, "claim">>, Ok)
     \/ /\ owner # Nobody
        /\ k \notin Forcing
        /\ Executes(<<k, a, "claim">>, AlreadyControlled)
        /\ UNCHANGED owner
     \/ /\ Executes(<<k, a, "claim">>, InternalError)
        /\ UNCHANGED owner
  /\ UNCHANGED <<phase, attempt, link>>

ExecuteRelease(k, a) ==
  /\ \/ /\ owner = k
        /\ owner' = Nobody
        /\ Executes(<<k, a, "release">>, Ok)
     \/ /\ owner # k
        /\ Executes(<<k, a, "release">>, NotController)
        /\ UNCHANGED owner
     \/ /\ Executes(<<k, a, "release">>, InternalError)
        /\ UNCHANGED owner
  /\ UNCHANGED <<phase, attempt, link>>

(* The controller may take control away from a client whose connection died. *)
DropOwner ==
  /\ owner # Nobody
  /\ link[owner] # "up"
  /\ owner' = Nobody
  /\ UNCHANGED <<phase, attempt, link, calls>>

-----------------------------------------------------------------------------
ContextStep(k) ==
  \/ Claim(k)
  \/ ClaimRefused(k)
  \/ ClaimAnswered(k)
  \/ ClaimGivesUp(k)
  \/ Exit(k)
  \/ ExitRefused(k)
  \/ ExitEnds(k)

ControllerStep(k) ==
  \E a \in Attempts : ExecuteClaim(k, a) \/ ExecuteRelease(k, a)

Next ==
  \/ \E k \in Clients : ContextStep(k)
  \/ \E k \in Clients : CloseConnection(k) \/ LoseLink(k)
  \/ \E k \in Clients : ControllerStep(k)
  \/ DropOwner

(* Calls end (Rpc); a release sent on a link that stays up reaches the
   controller, because QUIC retransmits. *)
Fairness == \A k \in Clients :
  /\ WF_vars(ClaimAnswered(k) \/ ClaimGivesUp(k))
  /\ WF_vars(ExitEnds(k))
  /\ \A a \in Attempts : WF_vars(link[k] = "up" /\ ExecuteRelease(k, a))

Spec == Init /\ [][Next]_vars /\ Fairness

-----------------------------------------------------------------------------
(* Properties *)

CallsOf(k) == {k} \X Attempts \X {"claim", "release"}
GaveUp(call) == state[call] = "gaveup"

(* Another client's forced claim has been granted at some time. *)
Overruled(k) == \E j \in Forcing \ {k}, a \in Attempts :
  answer[<<j, a, "claim">>] = Ok

(* In the body of `async with conn.claim()` the client is in control, unless
   another client forced its way in, its own link died, or the release of one of
   its earlier contexts gave up.  The last exception is real: such a release may
   be executed late and revoke the claim of the context that followed it. *)
InsideOwns == \A k \in Clients :
  /\ phase[k] = "inside"
  /\ link[k] = "up"
  /\ ~Overruled(k)
  /\ \A a \in Attempts : ~GaveUp(<<k, a, "release">>)
  => owner = k

(* Outside of every context a client with a live link and no command under way
   is not in control, provided none of its claims gave up and the controller
   failed none of its releases: contexts left normally, by an exception or with
   a release that timed out do not keep control. *)
ReleasedAfterContext == \A k \in Clients :
  /\ phase[k] = "out"
  /\ link[k] = "up"
  /\ \A call \in CallsOf(k) : fate[call] # "inflight"
  /\ \A a \in Attempts : /\ ~GaveUp(<<k, a, "claim">>)
                         /\ answer[<<k, a, "release">>] # InternalError
  => owner # k

(* "Context manager: claim on enter, release on exit (always)" (transport.py,
   Connection.claim) read as: once the `async with` statement is over, and the
   link is up and idle, the client is not in control.  It fails: a claim that
   gave up in __aenter__ is granted later, and no __aexit__ releases it. *)
AlwaysReleased == \A k \in Clients :
  /\ phase[k] = "out"
  /\ link[k] = "up"
  /\ \A call \in CallsOf(k) : fate[call] # "inflight"
  /\ \A a \in Attempts : answer[<<k, a, "release">>] # InternalError
  => owner # k

(* A client that has left a context gives up control in the end or enters the
   next, though the answer to a release be lost, unless the link dies, the
   controller fails a release, or a claim that gave up is granted late. *)
EventuallyReleased == \A k \in Clients, a \in Attempts :
  (/\ attempt[k] > a
   /\ state[<<k, a, "claim">>] = "returned")
  ~> \/ owner # k
     \/ phase[k] # "out"
     \/ link[k] # "up"
     \/ \E b \in Attempts : \/ answer[<<k, b, "release">>] = InternalError
                            \/ GaveUp(<<k, b, "claim">>)

(* No way into or out of a context blocks for ever. *)
ContextsMoveOn == \A k \in Clients :
  phase[k] \in {"entering", "exiting"} ~> phase[k] \in {"inside", "out"}
=============================================================================
