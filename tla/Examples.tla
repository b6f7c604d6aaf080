------------------------------ MODULE Examples ------------------------------
(***************************************************************************)
(* The programs under examples/, one at a time: the scripts that move the  *)
(* robot (MotionSession), the loop that streams a sine (SineStream), the   *)
(* monitor and the diagnosis.  They share no state, so a behavior is that  *)
(* of one of them, chosen initially, and the others keep a fixed state.    *)
(***************************************************************************)
EXTENDS MotionSession, SineStream, Monitor, Diagnose

CONSTANT Programs (* bound: the programs to check                          *)

ASSUME ProgramsAssumption ==
  Programs \subseteq DOMAIN Scripts \cup {"sine", "monitor", "diagnose"}
ASSUME FlightAssumption == MaxFlight \in [Programs -> Nat \ {0}]

vars == <<session, sine, monitor, diagnosis>>

Init ==
  /\ program \in Programs
  /\ SessionInit
  /\ program \notin DOMAIN Scripts =>
       drives = "stopped" /\ position = Zero
  /\ SineInit
  /\ MonitorInit
  /\ DiagnoseInit

RunScript == SessionNext /\ UNCHANGED <<sine, monitor, diagnosis>>

RunSine == program = "sine" /\ SineNext /\ UNCHANGED <<session, monitor, diagnosis>>

RunMonitor == program = "monitor" /\ MonitorNext /\ UNCHANGED <<session, sine, diagnosis>>

RunDiagnose == program = "diagnose" /\ DiagnoseNext /\ UNCHANGED <<session, sine, monitor>>

Next == RunScript \/ RunSine \/ RunMonitor \/ RunDiagnose

(* The event loop runs what is ready, calls time out, deadlines pass, and while
   the connection is up telemetry goes on being sent, of which some arrives. *)
Fairness ==
  /\ SessionFairness
  /\ WF_sine(program = "sine" /\ SineNext)
  /\ WF_monitor(program = "monitor" /\ mode # "quit" /\ PutKey)
  /\ WF_monitor(program = "monitor" /\ mode # "quit" /\ Redraw)
  /\ WF_monitor(program = "monitor" /\ mode # "quit" /\ QuickstopEnds)
  /\ WF_monitor(program = "monitor" /\ mode # "quit" /\ TelemetryArrives)
  /\ WF_diagnosis(program = "diagnose" /\ (DiscoverController \/ CheckCerts \/ Handshake
                  \/ SequentialHandshake \/ GiveUp \/ Subscribe \/ StopObserving
                  \/ CloseConnection \/ Report))

Spec == Init /\ [][Next]_vars /\ Fairness

TypeOK ==
  /\ program \in Programs
  /\ SessionTypeOK /\ SineTypeOK /\ MonitorTypeOK /\ DiagnoseTypeOK

-----------------------------------------------------------------------------
(* Properties *)

Unfinished ==
  \/ Running
  \/ program = "sine" /\ streaming
  \/ program = "diagnose" /\ stage # "exit"

(* Every program that has an end comes to it: a script by the timeouts of its
   calls and the deadlines of its waits as long as telemetry arrives, the sine at
   a crossing however the samples fall, the diagnosis on every path.  Once the
   link is lost nothing ends a wait. *)
ProgramEnds == Unfinished ~> ~Unfinished \/ ~link
=============================================================================
