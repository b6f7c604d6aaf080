-------------------------------- MODULE Wire --------------------------------
(***************************************************************************)
(* What a connection carries: motion commands as MotionStream sends them,  *)
(* and the contents of every kind of message, built on one side and read   *)
(* on the other by the codecs.  The two ends have separate code for the    *)
(* same schema: the client's enums, union tags and error codes are written *)
(* by hand, the field layouts are generated, the writer leaves out what    *)
(* equals its default and the reader fills in its own.                     *)
(*                                                                         *)
(* The contents of a message and the fate of the motion commands have      *)
(* nothing to do with each other: a behaviour is about one of them.        *)
(***************************************************************************)
EXTENDS MotionStream, ControlCodec, MotionCodec, EventCodec, TelemetryCodec

CONSTANTS
  Vectors,      (* the vectors of floating-point numbers, one per joint or axis *)
  JointVectors, (* the vectors of joints, some of them no uint8            *)
  Floats,       (* the floating-point numbers: factors, look-ahead times   *)
  Moves,        (* the motions of an arm                                   *)
  Numbers,      (* the integers: sequence numbers, steps, ...              *)
  EnumCodes,    (* the numbers in the place of an enum's                   *)
  ResultCodes,  (* the results of a command                                *)
  Texts,        (* the messages of a response                              *)
  ArmReadings   (* what an arm may report: vectors, each under its field   *)

ASSUME VectorsAssumption ==
  Vectors \subseteq Seq(Int) /\ JointVectors \subseteq Seq(Int) /\ Floats \subseteq Int

VARIABLES
  message, (* what one end has to say, Nothing in a behaviour of MotionStream *)
  stage,   (* how far it got: asked, refused, sent or read                    *)
  frame,   (* the frame or datagram: {} or one                                *)
  meant    (* what the other end makes of it: {} or one reading               *)

contents == <<message, stage, frame, meant>>

Nothing == [lane |-> "none"]

(* An optional value, and one that must be there *)
Opt(S) == {{}} \cup {{v} : v \in S}
Given(S) == {{v} : v \in S}

-----------------------------------------------------------------------------
(* The messages of the client *)

(* The arguments of each method of Connection; {} stands for None. *)
Arguments ==
  [Quickstop |-> [state : Given({"Engage", "Disengage"})],
   Calibration |-> [calibration_type : Given({"Gravity", "Friction"})],
   SetDriveMode |-> [mode : Given({"Csp", "Impedance"})],
   ClaimControl |-> [force : Given(BOOLEAN)],
   SingleZeroing |-> [joints : Given(JointVectors)],
   HumanoidZeroing |-> [right_joints : Opt(JointVectors), left_joints : Opt(JointVectors)],
   SingleSetSpeedOverride |->
     [velocity_factor : Given(Floats), acceleration_factor : Given(Floats)],
   HumanoidSetSpeedOverride |->
     [right_velocity_factor : Given(Floats), right_acceleration_factor : Given(Floats),
      left_velocity_factor : Given(Floats), left_acceleration_factor : Given(Floats)],
   SetStreamingParams |-> [kp : Opt(Vectors), kd : Opt(Vectors), t_la : Given(Floats)],
   ReleaseControl |-> {<<>>}, ClearFault |-> {<<>>}, Stop |-> {<<>>},
   CheckUpdate |-> {<<>>}, ApplyUpdate |-> {<<>>}, Reboot |-> {<<>>}]

Commands ==
  UNION {[lane : {"command"}, name : {n}, args : Arguments[n]] : n \in DOMAIN Arguments}

Impedances ==
  [kind : {"TcpImpedance", "JointImpedance"}, stiffness : Vectors, damping : Vectors]

(* JointPose and JointTwist, which has no velocity besides the twist *)
JointMotions ==
  [kind : {"JointPose"}, target : Vectors, velocity : Opt(Vectors), impedance : Opt(Impedances)]
  \cup
  [kind : {"JointTwist"}, target : Vectors, velocity : {{}}, impedance : Opt(Impedances)]

ASSUME MovesAssumption == Moves \subseteq JointMotions

Motions ==
  [lane : {"motion"}, arms : [{"arm"} -> Moves] \cup [{"right", "left"} -> Moves],
   seq : Numbers, ttl : Numbers]

-----------------------------------------------------------------------------
(* The messages of the controller; enums are numbers, not all of them known. *)

Responses ==
  [lane : {"response"}, result : ResultCodes, message : Opt(Texts)]

SafetyStates ==
  [any_fault : Given(BOOLEAN), all_op_enabled : Given(BOOLEAN),
   quickstop_requested : Given(BOOLEAN), quickstop_active : Given(BOOLEAN),
   last_received_seq : Given(Numbers), has_controller : Given(BOOLEAN)]

SystemStates ==
  [drive_status : Given(EnumCodes), activity : Given(EnumCodes), motion : Given(EnumCodes),
   activity_step : Given(Numbers), activity_total : Given(Numbers),
   is_impedance : Given(BOOLEAN)]

RobotReadings ==
  {<<>>} \cup [{"arm"} -> Opt(ArmReadings)] \cup [{"right_arm", "left_arm"} -> Opt(ArmReadings)]

Telemetries ==
  LET report(safeties, systems, robots) ==
        [lane : {"telemetry"}, seq : Numbers, safety : safeties, system : systems,
         arms : robots]
  IN  report(Opt(SafetyStates), {{}}, {<<>>})
      \cup report({{}}, Given(SystemStates), {<<>>})
      \cup report({{}}, {{}}, RobotReadings)

EventFields ==
  [DriveStatusEvent |-> [status : Given(EnumCodes)],
   MotionStatusEvent |-> [status : Given(EnumCodes)],
   ActivityEvent |-> [activity : Given(EnumCodes), step : Given(Numbers), total : Given(Numbers)],
   DriveModeEvent |-> [mode : Given(EnumCodes)],
   ControllerEvent |-> [has_controller : Given(BOOLEAN)]]

(* An event of another version of the schema has a class this one does not. *)
Events ==
  (UNION {[lane : {"event"}, class : {c}, fields : Opt(EventFields[c])] :
          c \in DOMAIN EventFields})
  \cup [lane : {"event"}, class : {"Later"}, fields : {{}}]

-----------------------------------------------------------------------------
WireInit ==
  /\ MotionInit
  /\ message \in {Nothing} \cup Commands \cup Motions \cup Responses
                 \cup Telemetries \cup Events
  /\ stage = "asked"
  /\ frame = {}
  /\ meant = {}

Build(lane, encoded) ==
  /\ message.lane = lane
  /\ stage = "asked"
  /\ stage' = "sent"
  /\ frame' = {encoded}
  /\ UNCHANGED <<message, meant>>

Read(lane, readings) ==
  /\ message.lane = lane
  /\ stage = "sent"
  /\ stage' = "read"
  /\ meant' = readings
  /\ UNCHANGED <<message, frame>>

(* The builder of a command raises: no frame. *)
CommandRefused ==
  /\ message.lane = "command"
  /\ stage = "asked"
  /\ ~Encodable(message.args)
  /\ stage' = "refused"
  /\ UNCHANGED <<message, frame, meant>>

CommandBuilt ==
  /\ message.lane = "command" /\ Encodable(message.args)
  /\ Build("command", BuildCommand(message.name, StoredArguments(message.args)))

CommandRead == Read("command", {UnderstoodCommand(f) : f \in frame})

MotionEncodable == \A arm \in DOMAIN message.arms : EncodableMotion(message.arms[arm])

(* The builder of a motion raises: no datagram. *)
MotionRefused ==
  /\ message.lane = "motion"
  /\ stage = "asked"
  /\ ~MotionEncodable
  /\ stage' = "refused"
  /\ UNCHANGED <<message, frame, meant>>

StoredArms == [arm \in DOMAIN message.arms |-> StoredMotion(message.arms[arm])]

(* send_single, send_humanoid *)
MotionBuilt ==
  /\ message.lane = "motion" /\ MotionEncodable
  /\ Build("motion",
           IF "arm" \in DOMAIN StoredArms
           THEN BuildSingle(StoredArms.arm, message.seq, message.ttl)
           ELSE BuildHumanoid(StoredArms.right, StoredArms.left, message.seq, message.ttl))

MotionRead == Read("motion", {UnderstoodMotion(f) : f \in frame})

ResponseBuilt ==
  /\ message.lane = "response"
  /\ Build("response", BuildResponse(message.result, message.message))

(* _execute: raise_on_error raises, or the message is returned. *)
ResponseRead ==
  Read("response", {LET response == ParseResponse(f)
                    IN  [raised  |-> RaiseOnError(response.result),
                         message |-> response.message] : f \in frame})

TelemetryBuilt ==
  /\ message.lane = "telemetry"
  /\ Build("telemetry",
           WriteTelemetry(message.seq, message.safety, message.system, message.arms))

TelemetryRead == Read("telemetry", UNION {ParseTelemetry(f) : f \in frame})

EventBuilt ==
  /\ message.lane = "event"
  /\ Build("event",
           IF message.class \in DOMAIN EventType
           THEN WriteEvent(EventType[message.class],
                           {WriteTable(EventWriters[message.class], f) : f \in message.fields})
           ELSE WriteEvent(Cardinality(DOMAIN EventType) + 1, {}))

EventRead == Read("event", UNION {ParseEvent(f) : f \in frame})

Exchange ==
  \/ CommandRefused \/ CommandBuilt \/ CommandRead
  \/ MotionRefused \/ MotionBuilt \/ MotionRead
  \/ ResponseBuilt \/ ResponseRead
  \/ TelemetryBuilt \/ TelemetryRead
  \/ EventBuilt \/ EventRead

WireNext ==
  \/ message = Nothing /\ MotionNext /\ UNCHANGED contents
  \/ Exchange /\ UNCHANGED motionVars

WireSpec == WireInit /\ [][WireNext]_<<motionVars, contents>>

-----------------------------------------------------------------------------
(* Properties *)

(* The controller does what was asked, all of it: the command and the robot's
   arms, every argument with its value, as near as a float32 comes to it, in the
   order of the joints, what was not given still not given, whatever is left out
   of the frame as a default.  And what cannot be encoded is not sent in part. *)
UnderstoodAsAsked ==
  CASE message.lane = "command" /\ stage = "read" ->
         meant = {[name |-> message.name, args |-> StoredArguments(message.args)]}
    [] message.lane = "motion" /\ stage = "read" ->
         meant = {[arms |-> StoredArms, seq |-> message.seq, ttl |-> message.ttl]}
    [] OTHER -> stage = "refused" => frame = {}

(* The class named after a result code; a failure that has no class of its own is
   still a failure. *)
ExceptionOf(result) ==
  CASE result = CommandResult.Ok -> {}
    [] result = CommandResult.NotImplemented -> {"NotImplementedCommand"}
    [] OTHER -> LET named == {n \in DOMAIN CommandResult : CommandResult[n] = result}
                IN  IF named = {} THEN {"CommandError"} ELSE named

(* The members the numbers of a state or an event stand for, by field *)
Meanings ==
  [system |-> [drive_status |-> DriveStatusNumbers, activity |-> ActivityTypeNumbers,
               motion |-> MotionStatusNumbers],
   DriveStatusEvent |-> [status |-> EventDriveStatusNumbers],
   MotionStatusEvent |-> [status |-> EventMotionStatusNumbers],
   ActivityEvent |-> [activity |-> EventActivityTypeNumbers],
   DriveModeEvent |-> [mode |-> EventDriveModeNumbers],
   ControllerEvent |-> <<>>]

Named(numbers, fields) ==
  [f \in DOMAIN fields |->
     IF f \in DOMAIN numbers
     THEN {n \in DOMAIN numbers[f] : numbers[f][n] \in fields[f]}
     ELSE fields[f]]

(* Whole: every number has a name. *)
Whole(fields) == \A f \in DOMAIN fields : fields[f] # {}

(* A joint vector that is missing is empty, one of the tool is None. *)
ReadingOf(vectors) ==
  [f \in DOMAIN ArmTelemetryAdds |->
     IF f \in DOMAIN vectors THEN {vectors[f]}
     ELSE IF f \in JointFields THEN {<<>>} ELSE {}]

TelemetryOf(m) ==
  LET arm(name) == IF name \in DOMAIN m.arms THEN {ReadingOf(v) : v \in m.arms[name]} ELSE {}
      none == [f \in DOMAIN SafetyStateAdds |-> IF f = "last_received_seq" THEN {0} ELSE {FALSE}]
  IN  [seq |-> m.seq, safety |-> IF m.safety = {} THEN none ELSE Value(m.safety),
       system |-> {Named(Meanings.system, s) : s \in m.system},
       arm |-> arm("arm"), right_arm |-> arm("right_arm"), left_arm |-> arm("left_arm")]

(* The results on whose meaning the schema and control.py agree: success, and the
   codes that map to CommandError (control.py:76).  What 1 to 9 are is left open. *)
Agreed(result) == result = CommandResult.Ok \/ result >= 10

(* What the controller reports is what the client's caller gets: the exception
   that belongs to the result and never a silent success, each vector under its
   own name and arm, each number as the member the schema names; and what the
   client cannot name is skipped rather than passed off as something else
   (control.py:359, telemetry.py, events.py). *)
ReportedAsIs ==
  stage = "read" =>
    CASE message.lane = "response" /\ Agreed(message.result) ->
           meant = {[raised  |-> ExceptionOf(message.result),
                     message |-> IF message.message = {} THEN "" ELSE Value(message.message)]}
      [] message.lane = "telemetry" ->
           meant = {t \in {TelemetryOf(message)} : \A s \in t.system : Whole(s)}
      [] message.lane = "event" ->
           meant = {e \in {[class |-> message.class, fields |-> Named(Meanings[message.class], f)] :
                           f \in message.fields} : Whole(e.fields)}
      [] OTHER -> TRUE

(* "Raises CommandError subclass if result >= 10" (control.py:361): a response whose
   result is less raises nothing. *)
RaisesFromTen ==
  message.lane = "response" /\ stage = "read" /\ message.result < 10
  => \A response \in meant : response.raised = {}
=============================================================================
