---------------------------- MODULE ControlCodec ----------------------------
(***************************************************************************)
(* Control commands and their responses: control.py on top of the          *)
(* generated code.  A command is its name and its arguments; a vector is a *)
(* sequence, a floating-point number an integer.                           *)
(***************************************************************************)
EXTENDS FlatBuffers

-----------------------------------------------------------------------------
(* Generated code: one layout for the Add functions, one for the accessors *)

QuickstopAdds == [state |-> Add(0, {0})]
QuickstopGets == [state |-> Get(4, {0})]

CalibrationAdds == [calibration_type |-> Add(0, {0})]
CalibrationGets == [calibration_type |-> Get(4, {0})]

SetDriveModeAdds == [mode |-> Add(0, {0})]
SetDriveModeGets == [mode |-> Get(4, {0})]

ClaimControlAdds == [force |-> Add(0, {FALSE})]
ClaimControlGets == [force |-> Get(4, {FALSE})]

SingleZeroingAdds == [joints |-> Add(0, Absent)]
SingleZeroingGets == [joints |-> Get(4, Absent)]

HumanoidZeroingAdds == [right_joints |-> Add(0, Absent), left_joints |-> Add(1, Absent)]
HumanoidZeroingGets == [right_joints |-> Get(4, Absent), left_joints |-> Get(6, Absent)]

SingleSetSpeedOverrideAdds ==
  [velocity_factor |-> Add(0, {1}), acceleration_factor |-> Add(1, {1})]
(* Variant: a default of another version of the schema. *)
SingleSetSpeedOverrideGetsZero ==
  [velocity_factor |-> Get(4, {0}), acceleration_factor |-> Get(6, {1})]
SingleSetSpeedOverrideGets ==
  [velocity_factor |-> Get(4, {1}), acceleration_factor |-> Get(6, {1})]

HumanoidSetSpeedOverrideAdds ==
  [right_velocity_factor |-> Add(0, {1}), right_acceleration_factor |-> Add(1, {1}),
   left_velocity_factor  |-> Add(2, {1}), left_acceleration_factor  |-> Add(3, {1})]
HumanoidSetSpeedOverrideGets ==
  [right_velocity_factor |-> Get(4, {1}), right_acceleration_factor |-> Get(6, {1}),
   left_velocity_factor  |-> Get(8, {1}), left_acceleration_factor  |-> Get(10, {1})]

SetStreamingParamsAdds ==
  [kp |-> Add(0, Absent), kd |-> Add(1, Absent), t_la |-> Add(2, {0})]
SetStreamingParamsGets ==
  [kp |-> Get(4, Absent), kd |-> Get(6, Absent), t_la |-> Get(8, {0})]

StreamCommandAdds ==
  [protocol_version |-> Add(0, {1}), command_type |-> Add(1, {0}), command |-> Add(2, Absent)]
StreamCommandGets ==
  [protocol_version |-> Get(4, {1}), command_type |-> Get(6, {0}), command |-> Get(8, Absent)]

StreamCommandResponseAdds == [result |-> Add(0, {0}), message |-> Add(1, Absent)]
StreamCommandResponseGets == [result |-> Get(4, {0}), message |-> Get(6, Absent)]

(* The generated tags of the union Command *)
CommandType ==
  [Quickstop |-> 1, Calibration |-> 2, SingleZeroing |-> 3, HumanoidZeroing |-> 4,
   ClearFault |-> 5, ClaimControl |-> 6, ReleaseControl |-> 7, Stop |-> 8,
   SingleSetSpeedOverride |-> 9, HumanoidSetSpeedOverride |-> 10, SetDriveMode |-> 11,
   CheckUpdate |-> 12, ApplyUpdate |-> 13, Reboot |-> 14, SetStreamingParams |-> 15]

(* The generated result codes *)
CommandResult ==
  [Ok |-> 0, InternalError |-> 10, NotImplemented |-> 11, DecodeFailed |-> 12,
   AlreadyControlled |-> 13, NotController |-> 14, FaultActive |-> 15,
   QuickstopNotActive |-> 16, ModeMismatch |-> 17, ZeroingFailed |-> 18,
   ActivityNotIdle |-> 19, NotInCspMode |-> 20, NotAtZero |-> 21,
   GravityCalibrationRequired |-> 22, NotIdleOrAtRest |-> 23]

(* The generated enums of the arguments *)
QuickstopStateNumbers == [Engage |-> 0, Disengage |-> 1]
CalibrationTypeNumbers == [Gravity |-> 0, Friction |-> 1]
DriveModeNumbers == [Csp |-> 0, Impedance |-> 1]

-----------------------------------------------------------------------------
(* control.py: commands *)

(* Its own enums, by the argument that takes a member *)
EnumArguments ==
  [state |-> [Engage |-> 0, Disengage |-> 1],
   calibration_type |-> [Gravity |-> 0, Friction |-> 1],
   mode |-> [Csp |-> 0, Impedance |-> 1]]

(* _CommandTag, written by hand *)
CommandTag ==
  [Quickstop |-> 1, Calibration |-> 2, SingleZeroing |-> 3, HumanoidZeroing |-> 4,
   ClearFault |-> 5, ClaimControl |-> 6, ReleaseControl |-> 7, Stop |-> 8,
   SingleSetSpeedOverride |-> 9, HumanoidSetSpeedOverride |-> 10, SetDriveMode |-> 11,
   CheckUpdate |-> 12, ApplyUpdate |-> 13, Reboot |-> 14, SetStreamingParams |-> 15]

(* _uint8_vector, _float32_vector: the builder fills a vector from its end. *)
Vector(values) == PrependAll(Reverse(values))

(* What the builders differ in: the table they fill, and the tag they give it.
   Without arguments it is _empty_table_offset. *)
Builders ==
  [Quickstop                |-> [adds |-> QuickstopAdds, tag |-> CommandTag.Quickstop],
   Calibration              |-> [adds |-> CalibrationAdds, tag |-> CommandTag.Calibration],
   SetDriveMode             |-> [adds |-> SetDriveModeAdds, tag |-> CommandTag.SetDriveMode],
   ClaimControl             |-> [adds |-> ClaimControlAdds, tag |-> CommandTag.ClaimControl],
   ReleaseControl           |-> [adds |-> NoFields, tag |-> CommandTag.ReleaseControl],
   ClearFault               |-> [adds |-> NoFields, tag |-> CommandTag.ClearFault],
   Stop                     |-> [adds |-> NoFields, tag |-> CommandTag.Stop],
   CheckUpdate              |-> [adds |-> NoFields, tag |-> CommandTag.CheckUpdate],
   ApplyUpdate              |-> [adds |-> NoFields, tag |-> CommandTag.ApplyUpdate],
   Reboot                   |-> [adds |-> NoFields, tag |-> CommandTag.Reboot],
   SingleZeroing            |-> [adds |-> SingleZeroingAdds, tag |-> CommandTag.SingleZeroing],
   HumanoidZeroing          |-> [adds |-> HumanoidZeroingAdds,
                                 tag |-> CommandTag.HumanoidZeroing],
   SingleSetSpeedOverride   |-> [adds |-> SingleSetSpeedOverrideAdds,
                                 tag |-> CommandTag.SingleSetSpeedOverride],
   HumanoidSetSpeedOverride |-> [adds |-> HumanoidSetSpeedOverrideAdds,
                                 tag |-> CommandTag.HumanoidSetSpeedOverride],
   SetStreamingParams       |-> [adds |-> SetStreamingParamsAdds,
                                 tag |-> CommandTag.SetStreamingParams]]

JointLists == {"joints", "right_joints", "left_joints"}
Gains == {"kp", "kd"}
VectorArguments == JointLists \cup Gains
Float32Arguments ==
  {"velocity_factor", "acceleration_factor", "right_velocity_factor",
   "right_acceleration_factor", "left_velocity_factor", "left_acceleration_factor", "t_la"}

(* A joint that is no uint8 and a number that is too large for a float32 make the
   builder raise, and nothing is sent. *)
Encodable(args) ==
  /\ \A f \in DOMAIN args \cap JointLists : \A joints \in args[f] :
       \A i \in DOMAIN joints : joints[i] \in Uint8
  /\ \A f \in DOMAIN args \cap Gains : \A v \in args[f] : Storable(v)
  /\ \A f \in DOMAIN args \cap Float32Arguments : args[f] \subseteq DOMAIN Float32

(* The arguments as the frame holds them.  (One that is rounded to its default is
   stored, or left out: it is read alike.) *)
StoredArguments(args) ==
  [f \in DOMAIN args |->
     CASE f \in Gains -> {Stored(v) : v \in args[f]}
       [] f \in Float32Arguments -> {Float32[x] : x \in args[f]}
       [] OTHER -> args[f]]

WrapCommand(inner, tag) ==
  WriteTable(StreamCommandAdds,
             [protocol_version |-> {1}, command_type |-> {tag}, command |-> {inner}])

(* build_quickstop and its kin: the frame of the command, for stored arguments *)
BuildCommand(name, args) ==
  LET fields == [f \in DOMAIN args |->
                   CASE f \in VectorArguments -> {Vector(v) : v \in args[f]}
                     [] f \in DOMAIN EnumArguments -> {EnumArguments[f][m] : m \in args[f]}
                     [] OTHER -> args[f]]
  IN  WrapCommand(WriteTable(Builders[name].adds, fields), Builders[name].tag)

-----------------------------------------------------------------------------
(* control.py: responses *)

(* The exceptions, by their result_code *)
ResultCode ==
  [InternalError |-> 10, NotImplementedCommand |-> 11, DecodeFailed |-> 12,
   AlreadyControlled |-> 13, NotController |-> 14, FaultActive |-> 15,
   QuickstopNotActive |-> 16, ModeMismatch |-> 17, ZeroingFailed |-> 18,
   ActivityNotIdle |-> 19, NotInCspMode |-> 20, NotAtZero |-> 21,
   GravityCalibrationRequired |-> 22, NotIdleOrAtRest |-> 23]

(* _ERROR_BY_CODE.get *)
ErrorByCode(code) ==
  LET classes == {c \in DOMAIN ResultCode : ResultCode[c] = code}
  IN  IF classes = {} THEN "CommandError" ELSE Value(classes)

(* raise_on_error: the class it raises, {} if it returns *)
RaiseOnError(result) == IF result = 0 THEN {} ELSE {ErrorByCode(result)}

(* parse_response: the result and the message; an absent message is the empty one. *)
ParseResponse(frame) ==
  LET response == ReadTable(StreamCommandResponseGets, frame)
  IN  [result  |-> Value(response.result),
       message |-> IF response.message = Absent THEN "" ELSE Value(response.message)]

-----------------------------------------------------------------------------
(* The controller's side, from the generated code *)

(* The accessors of each command *)
Readers ==
  [Quickstop |-> QuickstopGets, Calibration |-> CalibrationGets,
   SingleZeroing |-> SingleZeroingGets, HumanoidZeroing |-> HumanoidZeroingGets,
   ClearFault |-> NoFields, ClaimControl |-> ClaimControlGets,
   ReleaseControl |-> NoFields, Stop |-> NoFields,
   SingleSetSpeedOverride |-> SingleSetSpeedOverrideGets,
   HumanoidSetSpeedOverride |-> HumanoidSetSpeedOverrideGets,
   SetDriveMode |-> SetDriveModeGets, CheckUpdate |-> NoFields,
   ApplyUpdate |-> NoFields, Reboot |-> NoFields,
   SetStreamingParams |-> SetStreamingParamsGets]

(* The members of the arguments that are enums *)
EnumNumbers ==
  [state |-> QuickstopStateNumbers, calibration_type |-> CalibrationTypeNumbers,
   mode |-> DriveModeNumbers]

(* The command a frame stands for *)
UnderstoodCommand(frame) ==
  LET envelope == ReadTable(StreamCommandGets, frame)
      name == CHOOSE n \in DOMAIN CommandType : {CommandType[n]} = envelope.command_type
      fields == ReadTable(Readers[name], Value(envelope.command))
  IN  [name |-> name,
       args |-> [f \in DOMAIN fields |->
                   IF f \in DOMAIN EnumNumbers
                   THEN {m \in DOMAIN EnumNumbers[f] : EnumNumbers[f][m] \in fields[f]}
                   ELSE fields[f]]]

BuildResponse(result, message) ==
  WriteTable(StreamCommandResponseAdds, [result |-> {result}, message |-> message])
=============================================================================
