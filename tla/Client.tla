------------------------------- MODULE Client -------------------------------
(***************************************************************************)
(* The parts of the client library that keep no call waiting: the scan for *)
(* controllers (Discovery), the race for a connection (ConnectRace), the   *)
(* reading of telemetry (TelemetryChannel), and the sending of motion      *)
(* commands with what messages are made of (Wire).  They share no state:   *)
(* the race takes its addresses as they are, the others their connection.  *)
(* So a behavior is that of one of them, chosen initially, and the others  *)
(* stay as they start.                                                     *)
(***************************************************************************)
EXTENDS Discovery, ConnectRace, TelemetryChannel, Wire

VARIABLE part (* the part of the library at work *)

wireVars == <<motionVars, contents>>

vars == <<part, scanVars, raceVars, telemetryVars, wireVars>>

Init ==
  /\ part \in {"scan", "race", "telemetry", "messages"}
  /\ ScanInit
  /\ RaceInit
  /\ TelemetryInit
  /\ WireInit
  /\ part # "messages" => message = Nothing

Scan ==
  /\ part = "scan"
  /\ ScanNext
  /\ UNCHANGED <<part, raceVars, telemetryVars, wireVars>>

Race ==
  /\ part = "race"
  /\ RaceNext
  /\ UNCHANGED <<part, scanVars, telemetryVars, wireVars>>

ReadTelemetry ==
  /\ part = "telemetry"
  /\ TelemetryNext
  /\ UNCHANGED <<part, scanVars, raceVars, wireVars>>

ExchangeMessages ==
  /\ part = "messages"
  /\ WireNext
  /\ UNCHANGED <<part, scanVars, raceVars, telemetryVars>>

Next == Scan \/ Race \/ ReadTelemetry \/ ExchangeMessages

(* What each part relies on; while it is idle none of it is enabled. *)
Spec ==
  /\ Init
  /\ [][Next]_vars
  /\ ScanFairness
  /\ RaceFairness
  /\ TelemetryFairness
=============================================================================
