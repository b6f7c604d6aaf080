----------------------------- MODULE MotionCodec -----------------------------
(***************************************************************************)
(* Motion commands: motion.py on top of the generated code, and how the    *)
(* controller reads them.  A JointPose or JointTwist is a record: `kind`   *)
(* is its class, `target` its position or twist; velocity and impedance    *)
(* are sets of at most one value, {} for None.                             *)
(***************************************************************************)
EXTENDS FlatBuffers

-----------------------------------------------------------------------------
(* Generated code: one layout for the Add functions, one for the accessors *)

JointImpedanceAdds == [stiffness |-> Add(0, Absent), damping |-> Add(1, Absent)]
JointImpedanceGets == [stiffness |-> Get(4, Absent), damping |-> Get(6, Absent)]

TcpImpedanceAdds == [stiffness |-> Add(0, Absent), damping |-> Add(1, Absent)]
TcpImpedanceGets == [stiffness |-> Get(4, Absent), damping |-> Get(6, Absent)]

JointPoseCommandAdds ==
  [position |-> Add(0, Absent), velocity |-> Add(1, Absent),
   impedance_type |-> Add(2, {0}), impedance |-> Add(3, Absent)]
JointPoseCommandGets ==
  [position |-> Get(4, Absent), velocity |-> Get(6, Absent),
   impedance_type |-> Get(8, {0}), impedance |-> Get(10, Absent)]

JointTwistCommandAdds ==
  [twist |-> Add(0, Absent), impedance_type |-> Add(1, {0}), impedance |-> Add(2, Absent)]
JointTwistCommandGets ==
  [twist |-> Get(4, Absent), impedance_type |-> Get(6, {0}), impedance |-> Get(8, Absent)]

ArmCommandAdds == [command_type |-> Add(0, {0}), command |-> Add(1, Absent)]
ArmCommandGets == [command_type |-> Get(4, {0}), command |-> Get(6, Absent)]

SingleCommandAdds == [arm |-> Add(0, Absent)]
SingleCommandGets == [arm |-> Get(4, Absent)]

HumanoidCommandAdds == [right |-> Add(0, Absent), left |-> Add(1, Absent)]
HumanoidCommandGets == [right |-> Get(4, Absent), left |-> Get(6, Absent)]

MotionCommandAdds ==
  [protocol_version |-> Add(0, {1}), seq |-> Add(1, {0}), ttl_ms |-> Add(2, {0}),
   robot_command_type |-> Add(3, {0}), robot_command |-> Add(4, Absent)]
MotionCommandGets ==
  [protocol_version |-> Get(4, {1}), seq |-> Get(6, {0}), ttl_ms |-> Get(8, {0}),
   robot_command_type |-> Get(10, {0}), robot_command |-> Get(12, Absent)]

(* The generated tags of the unions Impedance and RobotCommand *)
ImpedanceTags == [NONE |-> 0, TcpImpedance |-> 1, JointImpedance |-> 2]
RobotCommandTags == [NONE |-> 0, SingleCommand |-> 1, HumanoidCommand |-> 2]

(* Those of ArmCommand's union, whose generated class CommandType is lost: the
   union of the control commands has the same name. *)
ArmCommandTags == [NONE |-> 0, JointTwist |-> 1, JointPose |-> 2]

-----------------------------------------------------------------------------
(* motion.py *)

(* Its own tags: _ARM_COMMAND_*, _ROBOT_COMMAND_*, _IMPEDANCE_* *)
ARM_COMMAND == [JointTwist |-> 1, JointPose |-> 2]
ROBOT_COMMAND == [Single |-> 1, Humanoid |-> 2]
IMPEDANCE == [NONE |-> 0, TcpImpedance |-> 1, JointImpedance |-> 2]

(* _f32_vec: the builder fills a vector from its end. *)
F32Vec(values) == PrependAll(Reverse(values))

(* A vector with a number that is too large for a float32 makes _f32_vec raise. *)
EncodableMotion(motion) ==
  /\ Storable(motion.target)
  /\ \A v \in motion.velocity : Storable(v)
  /\ \A imp \in motion.impedance : Storable(imp.stiffness) /\ Storable(imp.damping)

(* A motion as the datagram holds it *)
StoredMotion(motion) ==
  [kind |-> motion.kind, target |-> Stored(motion.target),
   velocity |-> {Stored(v) : v \in motion.velocity},
   impedance |-> {[kind |-> imp.kind, stiffness |-> Stored(imp.stiffness),
                   damping |-> Stored(imp.damping)] : imp \in motion.impedance}]

(* _build_impedance; for None, nothing under the tag NONE *)
BuildImpedance(impedance) ==
  IF impedance = {} THEN [tag |-> IMPEDANCE.NONE, table |-> Absent]
  ELSE LET imp == Value(impedance)
           adds == IF imp.kind = "JointImpedance" THEN JointImpedanceAdds ELSE TcpImpedanceAdds
       IN  [tag   |-> IMPEDANCE[imp.kind],
            table |-> {WriteTable(adds, [stiffness |-> {F32Vec(imp.stiffness)},
                                         damping   |-> {F32Vec(imp.damping)}])}]

(* _build_arm_command, for a stored motion *)
BuildArmCommand(motion) ==
  LET imp == BuildImpedance(motion.impedance)
      joint == IF motion.kind = "JointPose"
               THEN WriteTable(JointPoseCommandAdds,
                      [position |-> {F32Vec(motion.target)},
                       velocity |-> {F32Vec(v) : v \in motion.velocity},
                       impedance_type |-> {imp.tag}, impedance |-> imp.table])
               ELSE WriteTable(JointTwistCommandAdds,
                      [twist |-> {F32Vec(motion.target)},
                       impedance_type |-> {imp.tag}, impedance |-> imp.table])
  IN  WriteTable(ArmCommandAdds,
                 [command_type |-> {ARM_COMMAND[motion.kind]}, command |-> {joint}])

(* _finish_motion; `seq` and `ttl` are the caller's. *)
FinishMotion(robotTag, robot, seq, ttl) ==
  [identifier |-> "MOCM",
   root |-> WriteTable(MotionCommandAdds,
              [protocol_version |-> {1}, seq |-> {seq}, ttl_ms |-> {ttl},
               robot_command_type |-> {robotTag}, robot_command |-> {robot}])]

(* build_single *)
BuildSingle(motion, seq, ttl) ==
  FinishMotion(ROBOT_COMMAND.Single,
               WriteTable(SingleCommandAdds, [arm |-> {BuildArmCommand(motion)}]), seq, ttl)

(* build_humanoid *)
BuildHumanoid(right, left, seq, ttl) ==
  FinishMotion(ROBOT_COMMAND.Humanoid,
               WriteTable(HumanoidCommandAdds, [right |-> {BuildArmCommand(right)},
                                                left  |-> {BuildArmCommand(left)}]), seq, ttl)

-----------------------------------------------------------------------------
(* The controller's side, from the generated code *)

TagName(tags, tag) == CHOOSE name \in DOMAIN tags : tags[name] = tag

UnderstoodImpedance(tag, table) ==
  IF tag = ImpedanceTags.NONE THEN {}
  ELSE LET gets == IF tag = ImpedanceTags.JointImpedance THEN JointImpedanceGets
                   ELSE TcpImpedanceGets
           imp == ReadTable(gets, Value(table))
       IN  {[kind |-> TagName(ImpedanceTags, tag),
             stiffness |-> Value(imp.stiffness), damping |-> Value(imp.damping)]}

UnderstoodArm(table) ==
  LET arm == ReadTable(ArmCommandGets, table)
      kind == TagName(ArmCommandTags, Value(arm.command_type))
      pose == ReadTable(JointPoseCommandGets, Value(arm.command))
      twist == ReadTable(JointTwistCommandGets, Value(arm.command))
  IN  IF kind = "JointPose"
      THEN [kind |-> kind, target |-> Value(pose.position), velocity |-> pose.velocity,
            impedance |-> UnderstoodImpedance(Value(pose.impedance_type), pose.impedance)]
      ELSE [kind |-> kind, target |-> Value(twist.twist), velocity |-> {},
            impedance |-> UnderstoodImpedance(Value(twist.impedance_type), twist.impedance)]

(* The arms a datagram moves, each with its motion, and the two numbers *)
UnderstoodMotion(datagram) ==
  LET command == ReadTable(MotionCommandGets, datagram.root)
      gets == IF command.robot_command_type = {RobotCommandTags.SingleCommand}
              THEN SingleCommandGets ELSE HumanoidCommandGets
      arms == ReadTable(gets, Value(command.robot_command))
  IN  [arms |-> [arm \in DOMAIN arms |-> UnderstoodArm(Value(arms[arm]))],
       seq  |-> Value(command.seq), ttl |-> Value(command.ttl_ms)]
=============================================================================
