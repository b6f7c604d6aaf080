--------------------------- MODULE TelemetryCodec ---------------------------
(***************************************************************************)
(* Telemetry: telemetry.py on top of the generated code, and how the       *)
(* controller writes it.  A field of a message is a set of at most one     *)
(* value; so is a field of the parsed result that may be None.             *)
(***************************************************************************)
EXTENDS FlatBuffers

-----------------------------------------------------------------------------
(* Generated code: one layout for the Add functions, one for the accessors *)

TargetAdds ==
  [target_position |-> Add(0, Absent), target_velocity |-> Add(1, Absent),
   target_torque |-> Add(2, Absent)]
TargetGets ==
  [target_position |-> Get(4, Absent), target_velocity |-> Get(6, Absent),
   target_torque |-> Get(8, Absent)]

ActualAdds ==
  [actual_position |-> Add(3, Absent), actual_velocity |-> Add(4, Absent),
   actual_torque |-> Add(5, Absent)]
ActualGets ==
  [actual_position |-> Get(10, Absent), actual_velocity |-> Get(12, Absent),
   actual_torque |-> Get(14, Absent)]

HealthAdds ==
  [motor_temperature |-> Add(6, Absent), driver_temperature |-> Add(7, Absent),
   fault_codes |-> Add(8, Absent), faulted |-> Add(9, Absent),
   quick_stop_active |-> Add(10, Absent)]
HealthGets ==
  [motor_temperature |-> Get(16, Absent), driver_temperature |-> Get(18, Absent),
   fault_codes |-> Get(20, Absent), faulted |-> Get(22, Absent),
   quick_stop_active |-> Get(24, Absent)]

TcpActualAdds ==
  [tcp_actual_position |-> Add(11, Absent), tcp_actual_orientation |-> Add(12, Absent),
   tcp_actual_linear_vel |-> Add(13, Absent), tcp_actual_angular_vel |-> Add(14, Absent)]
TcpActualGets ==
  [tcp_actual_position |-> Get(26, Absent), tcp_actual_orientation |-> Get(28, Absent),
   tcp_actual_linear_vel |-> Get(30, Absent), tcp_actual_angular_vel |-> Get(32, Absent)]

TcpCommandedAdds ==
  [tcp_commanded_position |-> Add(15, Absent), tcp_commanded_orientation |-> Add(16, Absent),
   tcp_commanded_linear_vel |-> Add(17, Absent), tcp_commanded_angular_vel |-> Add(18, Absent)]
TcpCommandedGets ==
  [tcp_commanded_position |-> Get(34, Absent), tcp_commanded_orientation |-> Get(36, Absent),
   tcp_commanded_linear_vel |-> Get(38, Absent), tcp_commanded_angular_vel |-> Get(40, Absent)]

JointAdds == Extended(Extended(TargetAdds, ActualAdds), HealthAdds)
JointGets == Extended(Extended(TargetGets, ActualGets), HealthGets)
ArmTelemetryAdds == Extended(JointAdds, Extended(TcpActualAdds, TcpCommandedAdds))
ArmTelemetryGets == Extended(JointGets, Extended(TcpActualGets, TcpCommandedGets))

SafetyStateAdds ==
  [any_fault |-> Add(0, {FALSE}), all_op_enabled |-> Add(1, {FALSE}),
   quickstop_requested |-> Add(2, {FALSE}), quickstop_active |-> Add(3, {FALSE}),
   last_received_seq |-> Add(4, {0}), has_controller |-> Add(5, {FALSE})]
SafetyStateGets ==
  [any_fault |-> Get(4, {FALSE}), all_op_enabled |-> Get(6, {FALSE}),
   quickstop_requested |-> Get(8, {FALSE}), quickstop_active |-> Get(10, {FALSE}),
   last_received_seq |-> Get(12, {0}), has_controller |-> Get(14, {FALSE})]

SystemStateAdds ==
  [drive_status |-> Add(0, {0}), activity |-> Add(1, {0}), activity_step |-> Add(2, {0}),
   activity_total |-> Add(3, {0}), motion |-> Add(4, {0}), is_impedance |-> Add(5, {FALSE})]
SystemStateGets ==
  [drive_status |-> Get(4, {0}), activity |-> Get(6, {0}), activity_step |-> Get(8, {0}),
   activity_total |-> Get(10, {0}), motion |-> Get(12, {0}), is_impedance |-> Get(14, {FALSE})]

SingleTelemetryAdds == [arm |-> Add(0, Absent)]
SingleTelemetryGets == [arm |-> Get(4, Absent)]

HumanoidTelemetryAdds == [right |-> Add(0, Absent), left |-> Add(1, Absent)]
HumanoidTelemetryGets == [right |-> Get(4, Absent), left |-> Get(6, Absent)]

TelemetryDataAdds ==
  [protocol_version |-> Add(0, {1}), seq |-> Add(1, {0}), safety |-> Add(2, Absent),
   robot_type |-> Add(3, {0}), robot |-> Add(4, Absent), system |-> Add(5, Absent)]
TelemetryDataGets ==
  [protocol_version |-> Get(4, {1}), seq |-> Get(6, {0}), safety |-> Get(8, Absent),
   robot_type |-> Get(10, {0}), robot |-> Get(12, Absent), system |-> Get(14, Absent)]

RobotTelemetryType == [NONE |-> 0, SingleTelemetry |-> 1, HumanoidTelemetry |-> 2]

(* The generated enums *)
DriveStatusNumbers ==
  [Off |-> 0, SettingUp |-> 1, BusFault |-> 2, DriveFault |-> 3, QuickStop |-> 4,
   Operational |-> 5]
ActivityTypeNumbers == [Idle |-> 0, GravityCalibration |-> 1, FrictionCalibration |-> 2]
MotionStatusNumbers == [Idle |-> 0, Settling |-> 1, Moving |-> 2, Braking |-> 3]

-----------------------------------------------------------------------------
(* telemetry.py *)

(* Its own enums, written by hand *)
DriveStatus ==
  [Off |-> 0, SettingUp |-> 1, BusFault |-> 2, DriveFault |-> 3, QuickStop |-> 4,
   Operational |-> 5]
ActivityType == [Idle |-> 0, GravityCalibration |-> 1, FrictionCalibration |-> 2]
MotionStatus == [Idle |-> 0, Settling |-> 1, Moving |-> 2, Braking |-> 3]

(* The fields of the dataclass ArmTelemetry that cannot be None *)
JointFields ==
  {"target_position", "target_velocity", "target_torque",
   "actual_position", "actual_velocity", "actual_torque",
   "motor_temperature", "driver_temperature", "fault_codes", "faulted", "quick_stop_active"}

(* _vec: a required vector that is absent is the empty one. *)
Vec(field) == IF field = Absent THEN {<<>>} ELSE field

(* _arm_from_fb, with _vec_opt for the fields that may be None *)
ArmFromFb(table) ==
  LET t == ReadTable(ArmTelemetryGets, table)
  IN  [f \in DOMAIN t |-> IF f \in JointFields THEN Vec(t[f]) ELSE t[f]]

(* _safety_from_fb, and the SafetyState of a datagram without one *)
SafetyFromFb(field) ==
  IF field = Absent
  THEN [any_fault |-> {FALSE}, all_op_enabled |-> {FALSE}, quickstop_requested |-> {FALSE},
        quickstop_active |-> {FALSE}, last_received_seq |-> {0}, has_controller |-> {FALSE}]
  ELSE ReadTable(SafetyStateGets, Value(field))

(* Variant: a motion status that is not known is taken for Idle. *)
SystemFromFbLenient(table) ==
  LET s == ReadTable(SystemStateGets, table)
  IN  [s EXCEPT !.drive_status = Member(DriveStatus, @),
                !.activity     = Member(ActivityType, @),
                !.motion       = IF Member(MotionStatus, @) = {} THEN {"Idle"}
                                 ELSE Member(MotionStatus, @)]

(* _system_from_fb: a number without a member leaves nothing of the field. *)
SystemFromFb(table) ==
  LET s == ReadTable(SystemStateGets, table)
  IN  [s EXCEPT !.drive_status = Member(DriveStatus, @),
                !.activity     = Member(ActivityType, @),
                !.motion       = Member(MotionStatus, @)]

(* parse_telemetry, when nothing raises *)
Parsed(data) ==
  LET td == ReadTable(TelemetryDataGets, data)
      single == IF td.robot_type = {RobotTelemetryType.SingleTelemetry}
                THEN {ReadTable(SingleTelemetryGets, t) : t \in td.robot} ELSE {}
      hum == IF td.robot_type = {RobotTelemetryType.HumanoidTelemetry}
             THEN {ReadTable(HumanoidTelemetryGets, t) : t \in td.robot} ELSE {}
  IN  [seq       |-> Value(td.seq),
       safety    |-> SafetyFromFb(td.safety),
       system    |-> {SystemFromFb(s) : s \in td.system},
       arm       |-> {ArmFromFb(a) : a \in UNION {t.arm : t \in single}},
       right_arm |-> {ArmFromFb(a) : a \in UNION {t.right : t \in hum}},
       left_arm  |-> {ArmFromFb(a) : a \in UNION {t.left : t \in hum}}]

(* parse_telemetry: {} where it raises; telemetry() then skips the datagram, all
   of it, though only a number of the system state is unknown. *)
ParseTelemetry(data) ==
  {t \in {Parsed(data)} : \A s \in t.system : \A f \in DOMAIN s : s[f] # {}}

-----------------------------------------------------------------------------
(* The controller's side, from the generated code.  An arm is given by the
   vectors it has. *)

WriteArm(vectors) ==
  WriteTable(ArmTelemetryAdds,
             [f \in DOMAIN ArmTelemetryAdds |->
                IF f \in DOMAIN vectors THEN {vectors[f]} ELSE Absent])

(* The union Robot: which arms there are follows from their names. *)
WriteRobot(arms) ==
  CASE DOMAIN arms = {} -> [tag |-> RobotTelemetryType.NONE, table |-> Absent]
    [] DOMAIN arms = {"arm"} ->
         [tag |-> RobotTelemetryType.SingleTelemetry,
          table |-> {WriteTable(SingleTelemetryAdds,
                                [arm |-> {WriteArm(v) : v \in arms.arm}])}]
    [] OTHER ->
         [tag |-> RobotTelemetryType.HumanoidTelemetry,
          table |-> {WriteTable(HumanoidTelemetryAdds,
                                [right |-> {WriteArm(v) : v \in arms.right_arm},
                                 left  |-> {WriteArm(v) : v \in arms.left_arm}])}]

WriteTelemetry(seq, safety, system, arms) ==
  LET robot == WriteRobot(arms)
  IN  WriteTable(TelemetryDataAdds,
        [protocol_version |-> {1}, seq |-> {seq},
         safety |-> {WriteTable(SafetyStateAdds, s) : s \in safety},
         robot_type |-> {robot.tag}, robot |-> robot.table,
         system |-> {WriteTable(SystemStateAdds, s) : s \in system}])
=============================================================================
