----------------------------- MODULE Discovery -----------------------------
(***************************************************************************)
(* Discovery of controllers: discover and discover_once of discovery.py.   *)
(*                                                                         *)
(* An mDNS browser calls _on_change back whenever a controller is          *)
(* announced, updated or removed.  A removal is queued at once, whereas an *)
(* announcement or an update starts a task that first asks the network for *)
(* the controller's data, for 3 s and, if no address came, for 2 s more.   *)
(* Several such tasks of one controller may be under way.  discover_once   *)
(* reads the queue into a dictionary until its time is over.               *)
(***************************************************************************)
EXTENDS Integers, Sequences, Functions

CONSTANTS
  Names,     (* the controllers, by serial                                 *)
  MaxChanges (* bound: announcements and updates of all controllers        *)

ASSUME ChangesAssumption == MaxChanges \in Nat

VARIABLES
  announced, (* announced[n]: what the browser said of n last              *)
  data,      (* data[n]: the version of the data n announces, 0 at first   *)
  changes,   (* bound: the announcements and updates so far                *)
  resolving, (* the _resolve tasks under way                               *)
  scanQueue, (* the queue of discover                                      *)
  latest,    (* `latest` of discover_once: name -> controller              *)
  over,      (* the scan has ended                                         *)
  failed,    (* history: the controllers a _resolve got no answer for      *)
  overtaken  (* history: those removed while a _resolve was under way      *)

versions == <<data, changes>>
scanVars ==
  <<announced, versions, resolving, scanQueue, latest, over, failed, overtaken>>
history == <<failed, overtaken>>

Versions == 1 .. MaxChanges

(* since: the data version that started the task *)
Tasks == [name : Names, state : {"added", "updated"}, since : Versions,
          retry : BOOLEAN]

(* A Controller, with or without addresses *)
Found == [serial : Names, state : {"added", "updated"}, data : Versions,
          addresses : BOOLEAN]
Gone(n) == [serial |-> n, state |-> "removed", data |-> 0, addresses |-> FALSE]

ScanTypeOK ==
  /\ announced \in [Names -> {"never", "added", "updated", "removed"}]
  /\ data \in [Names -> 0 .. MaxChanges]
  /\ changes \in 0 .. MaxChanges
  /\ resolving \subseteq Tasks
  /\ scanQueue \in Seq(Found \cup {Gone(n) : n \in Names})
  /\ DOMAIN latest \subseteq Names
  /\ \A n \in DOMAIN latest : latest[n] \in Found /\ latest[n].serial = n
  /\ over \in BOOLEAN
  /\ failed \subseteq Names
  /\ overtaken \subseteq Names

ScanInit ==
  /\ announced = [n \in Names |-> "never"]
  /\ data = [n \in Names |-> 0]
  /\ changes = 0
  /\ resolving = {}
  /\ scanQueue = <<>>
  /\ latest = <<>>
  /\ over = FALSE
  /\ failed = {}
  /\ overtaken = {}

-----------------------------------------------------------------------------
(* _on_change: the browser announces a controller it does not know, updates or
   removes one it knows. *)

StartResolve(n, state) ==
  /\ announced' = [announced EXCEPT ![n] = state]
  /\ changes < MaxChanges
  /\ changes' = changes + 1
  /\ data' = [data EXCEPT ![n] = @ + 1]
  /\ resolving' = resolving \cup {[name |-> n, state |-> state,
                                   since |-> data[n] + 1, retry |-> FALSE]}
  /\ UNCHANGED <<scanQueue, latest, over, history>>

OnChangeAdded(n) ==
  /\ ~over
  /\ announced[n] \in {"never", "removed"}
  /\ StartResolve(n, "added")

OnChangeUpdated(n) ==
  /\ ~over
  /\ announced[n] \in {"added", "updated"}
  /\ StartResolve(n, "updated")

(* Variant: a removal is only noted. *)
OnChangeRemovedUnqueued(n) ==
  /\ ~over
  /\ announced[n] \in {"added", "updated"}
  /\ announced' = [announced EXCEPT ![n] = "removed"]
  /\ overtaken' = IF \E t \in resolving : t.name = n THEN overtaken \cup {n}
                                                      ELSE overtaken
  /\ UNCHANGED <<versions, resolving, scanQueue, latest, over, failed>>

OnChangeRemoved(n) ==
  /\ ~over
  /\ announced[n] \in {"added", "updated"}
  /\ announced' = [announced EXCEPT ![n] = "removed"]
  /\ scanQueue' = Append(scanQueue, Gone(n))
  /\ overtaken' = IF \E t \in resolving : t.name = n THEN overtaken \cup {n}
                                                      ELSE overtaken
  /\ UNCHANGED <<versions, resolving, latest, over, failed>>

-----------------------------------------------------------------------------
(* _resolve *)

(* Variant: the data is what it was when the task started. *)
InfoAsAnnounced(t, addresses) ==
  [serial |-> t.name, state |-> t.state, data |-> t.since,
   addresses |-> addresses]

(* _info_to_controller converts what is known of the controller at that time:
   the service info is kept up to date while a request is under way. *)
InfoToController(t, addresses) ==
  [serial |-> t.name, state |-> t.state, data |-> data[t.name],
   addresses |-> addresses]

Put(t, addresses) ==
  /\ scanQueue' = Append(scanQueue, InfoToController(t, addresses))
  /\ resolving' = resolving \ {t}

(* No answer within 3 s: nothing is queued. *)
ResolveFails(t) ==
  /\ ~over
  /\ ~t.retry
  /\ resolving' = resolving \ {t}
  /\ failed' = failed \cup {t.name}
  /\ UNCHANGED <<announced, versions, scanQueue, latest, over, overtaken>>

ResolveAnswered(t) ==
  /\ ~over
  /\ ~t.retry
  /\ Put(t, TRUE)
  /\ UNCHANGED <<announced, versions, latest, over, history>>

(* An answer without addresses: a second request is made. *)
ResolveAgain(t) ==
  /\ ~over
  /\ ~t.retry
  /\ resolving' = (resolving \ {t}) \cup {[t EXCEPT !.retry = TRUE]}
  /\ UNCHANGED <<announced, versions, scanQueue, latest, over, history>>

(* Variant: a second request that brings no address is the end of it. *)
RetryEndsStrict(t) ==
  /\ ~over
  /\ t.retry
  /\ \E addresses \in BOOLEAN :
       IF addresses THEN Put(t, TRUE)
       ELSE resolving' = resolving \ {t} /\ UNCHANGED scanQueue
  /\ UNCHANGED <<announced, versions, latest, over, history>>

(* Whether the second request is answered is not looked at. *)
RetryEnds(t) ==
  /\ ~over
  /\ t.retry
  /\ \E addresses \in BOOLEAN : Put(t, addresses)
  /\ UNCHANGED <<announced, versions, latest, over, history>>

-----------------------------------------------------------------------------
(* discover_once *)

(* Variant: removals are entered like everything else. *)
CollectAll ==
  /\ ~over
  /\ scanQueue # <<>>
  /\ scanQueue' = Tail(scanQueue)
  /\ LET c == Head(scanQueue)
     IN  latest' = [n \in DOMAIN latest \cup {c.serial} |->
                      IF n = c.serial THEN c ELSE latest[n]]
  /\ UNCHANGED <<announced, versions, resolving, over, history>>

(* One turn of _collect *)
Collect ==
  /\ ~over
  /\ scanQueue # <<>>
  /\ scanQueue' = Tail(scanQueue)
  /\ LET c == Head(scanQueue)
     IN  latest' = IF c.state = "removed"
                   THEN Restrict(latest, DOMAIN latest \ {c.serial})
                   ELSE [n \in DOMAIN latest \cup {c.serial} |->
                           IF n = c.serial THEN c ELSE latest[n]]
  /\ UNCHANGED <<announced, versions, resolving, over, history>>

(* wait_for cancels _collect, wherever the _resolve tasks are: the browser is
   cancelled, and what they still queue is never read. *)
ScanEnds ==
  /\ ~over
  /\ over' = TRUE
  /\ UNCHANGED <<announced, versions, resolving, scanQueue, latest, history>>

-----------------------------------------------------------------------------
ResolveStep(t) ==
  \/ ResolveFails(t)
  \/ ResolveAnswered(t)
  \/ ResolveAgain(t)
  \/ RetryEnds(t)

ScanNext ==
  \/ \E n \in Names :
       OnChangeAdded(n) \/ OnChangeUpdated(n) \/ OnChangeRemoved(n)
  \/ \E t \in resolving : ResolveStep(t)
  \/ Collect
  \/ ScanEnds

(* A request ends by its timeout and the queue is read; the scan itself may go
   on for any time. *)
ScanFairness ==
  /\ \A t \in Tasks : WF_scanVars(t \in resolving /\ ResolveStep(t))
  /\ WF_scanVars(Collect)

ScanSpec == ScanInit /\ [][ScanNext]_scanVars /\ ScanFairness

-----------------------------------------------------------------------------
(* Properties *)

Queued(n) == \E i \in 1 .. Len(scanQueue) : scanQueue[i].serial = n

(* A removed controller that was not being resolved when it was removed is not
   in the result, whatever was queued of it before. *)
RemovedWhenSettled == \A n \in Names :
  announced[n] = "removed" /\ ~Queued(n) /\ n \notin overtaken
  => n \notin DOMAIN latest

(* "Removed controllers are dropped from the result" (discovery.py,
   discover_once).  It fails: a _resolve that is under way when its controller
   is removed queues its answer behind the removal. *)
RemovedDropped == \A n \in Names :
  announced[n] = "removed" /\ ~Queued(n) => n \notin DOMAIN latest

(* "The latest state per serial": an entry is never replaced by older data,
   though a _resolve may finish after one that started later. *)
NeverOlder ==
  [][\A n \in DOMAIN latest \cap DOMAIN latest' :
       latest'[n].data >= latest[n].data]_scanVars

(* A controller that is being resolved is found in the end, even if no address
   of it becomes known, unless the network does not answer, it is removed or
   the scan ends first. *)
FoundInTheEnd == \A n \in Names :
  (\E t \in resolving : t.name = n)
  ~> n \in DOMAIN latest \cup failed \/ announced[n] = "removed" \/ over
=============================================================================
