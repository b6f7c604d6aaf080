----------------------------- MODULE EventCodec -----------------------------
(***************************************************************************)
(* Events: events.py on top of the generated code, and how the controller  *)
(* writes them.  An event is its class and its fields.                     *)
(***************************************************************************)
EXTENDS FlatBuffers

-----------------------------------------------------------------------------
(* Generated code: one layout for the Add functions, one for the accessors *)

DriveStatusEventAdds == [status |-> Add(0, {0})]
DriveStatusEventGets == [status |-> Get(4, {0})]

MotionStatusEventAdds == [status |-> Add(0, {0})]
MotionStatusEventGets == [status |-> Get(4, {0})]

ActivityEventAdds == [activity |-> Add(0, {0}), step |-> Add(1, {0}), total |-> Add(2, {0})]
ActivityEventGets == [activity |-> Get(4, {0}), step |-> Get(6, {0}), total |-> Get(8, {0})]

DriveModeEventAdds == [mode |-> Add(0, {0})]
DriveModeEventGets == [mode |-> Get(4, {0})]

ControllerEventAdds == [has_controller |-> Add(0, {FALSE})]
ControllerEventGets == [has_controller |-> Get(4, {FALSE})]

EventAdds ==
  [protocol_version |-> Add(0, {1}), event_type |-> Add(1, {0}), event |-> Add(2, Absent)]
EventGets ==
  [protocol_version |-> Get(4, {1}), event_type |-> Get(6, {0}), event |-> Get(8, Absent)]

(* The generated tags of the union *)
EventType ==
  [DriveStatusEvent |-> 1, MotionStatusEvent |-> 2, ActivityEvent |-> 3,
   DriveModeEvent |-> 4, ControllerEvent |-> 5]

(* The generated enums *)
EventDriveStatusNumbers ==
  [Off |-> 0, SettingUp |-> 1, BusFault |-> 2, DriveFault |-> 3, QuickStop |-> 4,
   Operational |-> 5]
EventMotionStatusNumbers == [Idle |-> 0, Settling |-> 1, Moving |-> 2, Braking |-> 3]
EventActivityTypeNumbers == [Idle |-> 0, GravityCalibration |-> 1, FrictionCalibration |-> 2]
EventDriveModeNumbers == [Csp |-> 0, Impedance |-> 1]

-----------------------------------------------------------------------------
(* events.py *)

(* Its own enums, written by hand *)
EventDriveStatus ==
  [Off |-> 0, SettingUp |-> 1, BusFault |-> 2, DriveFault |-> 3, QuickStop |-> 4,
   Operational |-> 5]
EventMotionStatus == [Idle |-> 0, Settling |-> 1, Moving |-> 2, Braking |-> 3]
EventActivityType == [Idle |-> 0, GravityCalibration |-> 1, FrictionCalibration |-> 2]
EventDriveMode == [Csp |-> 0, Impedance |-> 1]

(* What parse_event makes of the table under a known tag, field by field: a
   number without a member leaves nothing of its field. *)
InnerEvent(name, table) ==
  CASE name = "DriveStatusEvent" ->
         LET t == ReadTable(DriveStatusEventGets, table)
         IN  [status |-> Member(EventDriveStatus, t.status)]
    [] name = "MotionStatusEvent" ->
         LET t == ReadTable(MotionStatusEventGets, table)
         IN  [status |-> Member(EventMotionStatus, t.status)]
    [] name = "ActivityEvent" ->
         LET t == ReadTable(ActivityEventGets, table)
         IN  [t EXCEPT !.activity = Member(EventActivityType, @)]
    [] name = "DriveModeEvent" ->
         LET t == ReadTable(DriveModeEventGets, table)
         IN  [mode |-> Member(EventDriveMode, t.mode)]
    [] name = "ControllerEvent" -> ReadTable(ControllerEventGets, table)

(* parse_event: the event, or {} where it raises (an unknown tag, an unknown
   member, a tag without its table); events() then skips the frame. *)
ParseEvent(frame) ==
  LET ev == ReadTable(EventGets, frame)
      known == {n \in DOMAIN EventType : {EventType[n]} = ev.event_type}
      parsed == UNION {{[class |-> n, fields |-> InnerEvent(n, t)] : t \in ev.event} :
                       n \in known}
  IN  {e \in parsed : \A f \in DOMAIN e.fields : e.fields[f] # {}}

-----------------------------------------------------------------------------
(* The controller's side, from the generated code *)

(* The Add functions of each event *)
EventWriters ==
  [DriveStatusEvent |-> DriveStatusEventAdds, MotionStatusEvent |-> MotionStatusEventAdds,
   ActivityEvent |-> ActivityEventAdds, DriveModeEvent |-> DriveModeEventAdds,
   ControllerEvent |-> ControllerEventAdds]

(* A frame; the tag need not be one this client knows, nor is a table a must. *)
WriteEvent(tag, tables) ==
  WriteTable(EventAdds, [protocol_version |-> {1}, event_type |-> {tag}, event |-> tables])
=============================================================================
