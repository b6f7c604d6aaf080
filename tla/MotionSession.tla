---------------------------- MODULE MotionSession ----------------------------
(***************************************************************************)
(* The examples that move the robot: move_test, goto_zero, gravity_comp,   *)
(* friction_comp, zeroing_joint7 and streaming_test.  Each is a script of  *)
(* calls, waits and poses inside a claim context.  A call may be refused,  *)
(* give up, and be executed all the same; a pose is one datagram that may  *)
(* be lost; a wait reads the telemetry, which may be lost, late and out of *)
(* order; and Ctrl-C, once, may strike anywhere.                           *)
(*                                                                         *)
(* The controller is not part of the repository.  What is assumed of it is *)
(* what the examples rely on: a pose moves the arm of whoever is in        *)
(* control if the drives are operational, and every datagram reports the   *)
(* drives, the motion and the activity.                                    *)
(***************************************************************************)
EXTENDS Integers, Sequences, SequencesExt

CONSTANTS
  Target,    (* the target pose of move_test                               *)
  Zero,      (* the pose with every joint at 0                             *)
  Elsewhere, (* any other position                                         *)
  MaxFlight, (* bound: MaxFlight[p], the telemetry datagrams on their way  *)
  LateResults (* wait_for (Python 3.10 and 3.11) returns a finished result
                 when it is cancelled, and the cancellation is gone         *)

ASSUME LateResultsAssumption == LateResults \in BOOLEAN

-----------------------------------------------------------------------------
(* The scripts: what main awaits, after the connection is made *)

Call(name) == [do |-> "call", what |-> name, optional |-> FALSE]
(* try: ... except Exception: goes on *)
Try(name) == [do |-> "call", what |-> name, optional |-> TRUE]
(* wait_operational, wait_motion and wait_idle, by what they wait for *)
Wait(status) == [do |-> "wait", what |-> status, optional |-> FALSE]
Pose(position) == [do |-> "pose", what |-> position, optional |-> FALSE]
(* The loop of SineStream, and its last pose *)
Sine == [do |-> "sine", what |-> Zero, optional |-> FALSE]

Setup ==
  <<Try("clear_fault"), Call("claim"), Call("set_drive_mode"), Try("clear_fault"),
    Call("disengage"), Wait("operational")>>

(* goto *)
Goto(position) == <<Pose(position), Wait("moving"), Wait("idle")>>

MoveTest == Setup \o <<Call("set_drive_mode")>> \o Goto(Target) \o Goto(Zero)

GotoZero == Setup \o <<Call("set_drive_mode"), Pose(Zero), Wait("activity_idle")>>

GravityComp ==
  Setup \o <<Pose(Zero), Wait("activity_idle"), Call("set_drive_mode"), Call("calibrate")>>

FrictionComp ==
  Setup \o <<Pose(Zero), Wait("activity_idle"), Call("set_drive_mode"), Call("calibrate")>>

ZeroingJoint7 == <<Call("claim"), Call("engage"), Try("clear_fault"), Call("zeroing")>>

StreamingTest == Setup \o <<Call("set_drive_mode"), Sine>>

Scripts ==
  [move_test |-> MoveTest, goto_zero |-> GotoZero, gravity_comp |-> GravityComp,
   friction_comp |-> FrictionComp, zeroing_joint7 |-> ZeroingJoint7,
   streaming_test |-> StreamingTest]

-----------------------------------------------------------------------------
VARIABLES
  program,     (* the example that runs                                    *)
  phase,       (* "ready" for the step, "calling", "waiting", "leaving" or "over" *)
  step,        (* the step it is at, or one past the last                  *)
  outcome,     (* "running", "done" or "failed"                            *)
  inside,      (* it is inside the claim context                           *)
  expired,     (* the deadline of the wait has passed                      *)
  interrupted, (* history: what became of Ctrl-C: "no", "raised", "deferred"
                  to the next await or "swallowed" by wait_for             *)
  posesSince,  (* history: the poses sent since Ctrl-C, but for "swallowed" *)
  request,     (* the call: "none", "sent", "executed" or "refused"        *)
  late,        (* the calls that gave up and may still be executed         *)
  link,        (* the QUIC connection is up                                *)
  poses,       (* the pose datagrams on their way, by where they lead      *)
  controlled,  (* the example is in control                                *)
  drives,      (* "fault", "stopped", "setting_up" or "operational"        *)
  calibrating, (* the activity is not Idle                                 *)
  motion,      (* the controller's motion status                           *)
  goal,        (* where the arm is going                                   *)
  position,    (* where the arm is                                         *)
  braked,      (* history: a motion was cut short                          *)
  wire,        (* the telemetry on its way: the waits each datagram ends   *)
  overtook     (* history: telemetry was received before older telemetry
                  that may still arrive                                    *)

example == <<program, phase, step, outcome, inside, expired, interrupted, posesSince>>
calls == <<request, late>>
robot == <<controlled, drives, calibrating>>
arm == <<motion, goal, position, braked>>
telemetry == <<wire, overtook>>
session == <<example, calls, link, poses, robot, arm, telemetry>>

Running == program \in DOMAIN Scripts /\ phase # "over"
Script == Scripts[program]

CallNames == {"clear_fault", "claim", "release", "set_drive_mode", "disengage", "engage",
              "calibrate", "zeroing"}
Waits == {"operational", "moving", "idle", "activity_idle"}
MotionStatuses == {"idle", "settling", "moving", "braking"}
Positions == {Target, Zero, Elsewhere}

SessionTypeOK ==
  /\ phase \in {"ready", "calling", "waiting", "leaving", "over"}
  /\ step \in 1 .. 15
  /\ Running /\ phase # "leaving" => step <= Len(Script)
  /\ outcome \in {"running", "done", "failed"}
  /\ inside \in BOOLEAN /\ expired \in BOOLEAN
  /\ interrupted \in {"no", "raised", "deferred", "swallowed"} /\ posesSince \in 0 .. 2
  /\ request \in {"none", "sent", "executed", "refused"}
  /\ late \subseteq CallNames
  /\ link \in BOOLEAN
  /\ poses \subseteq Positions
  /\ controlled \in BOOLEAN
  /\ drives \in {"fault", "stopped", "setting_up", "operational"}
  /\ calibrating \in BOOLEAN
  /\ motion \in MotionStatuses
  /\ goal \in Positions /\ position \in Positions
  /\ braked \in BOOLEAN
  /\ wire \in Seq(SUBSET Waits)
  /\ overtook \in BOOLEAN

(* The connection is made; the arm rests anywhere, which makes a difference only
   where the script leads there.  (A calibration that is not over yet makes one
   only to those who wait for it, of which goto_zero is the first.) *)
SessionInit ==
  /\ phase = "ready" /\ step = 1 /\ outcome = "running"
  /\ inside = FALSE /\ expired = FALSE
  /\ interrupted = "no" /\ posesSince = 0
  /\ request = "none" /\ late = {}
  /\ link = TRUE
  /\ poses = {}
  /\ controlled = FALSE
  /\ drives \in {"fault", "stopped"}
  /\ calibrating \in BOOLEAN
  /\ calibrating => program = "goto_zero"
  /\ motion = "idle"
  /\ position \in Positions
  /\ position = Target => program = "move_test"
  /\ goal = position
  /\ braked = FALSE
  /\ wire = <<>>
  /\ overtook = FALSE

-----------------------------------------------------------------------------
(* The example *)

(* To step s, or out of the program: out of the context first (__aexit__ sends
   the release), then out of the connection. *)
GoTo(s, within, result) ==
  /\ step' = s
  /\ outcome' = result
  /\ phase' = CASE result = "running" -> "ready"
                [] within /\ result # "running" -> "leaving"
                [] OTHER -> "over"
  /\ inside' = (within /\ result = "running")
  /\ request' = IF within /\ result # "running" THEN "sent" ELSE "none"

Proceed(within) ==
  GoTo(step + 1, within, IF step = Len(Script) THEN "done" ELSE "running")

(* Variant: `except BaseException` around the optional steps. *)
StepRaisesCaught(cancelled) ==
  IF Script[step].optional THEN Proceed(inside) ELSE GoTo(step, inside, "failed")

(* A step raises.  `except Exception` does not catch a cancellation. *)
StepRaises(cancelled) ==
  IF Script[step].optional /\ ~cancelled
  THEN Proceed(inside)
  ELSE GoTo(step, inside, "failed")

(* A pose leaves as one datagram; nothing tells whether it arrives. *)
Send(place) ==
  /\ poses' = IF link THEN poses \cup {place} ELSE poses
  /\ posesSince' = IF interrupted \in {"raised", "deferred"} /\ posesSince < 2
                   THEN posesSince + 1 ELSE posesSince

(* What a call that ends without an answer leaves behind *)
LeaveBehind == late' = IF request = "sent" /\ link THEN late \cup {Script[step].what} ELSE late

BeginCall ==
  /\ phase = "ready" /\ Script[step].do = "call" /\ interrupted # "deferred"
  /\ phase' = "calling"
  /\ request' = "sent"
  /\ UNCHANGED <<program, step, outcome, inside, expired, interrupted, posesSince, late,
                 link, poses, robot, arm, telemetry>>

CallReturns ==
  /\ phase = "calling" /\ request = "executed" /\ link
  /\ Proceed(inside \/ Script[step].what = "claim")
  /\ UNCHANGED <<program, expired, interrupted, posesSince, late, link, poses, robot, arm,
                 telemetry>>

(* An error of the controller, or no answer in time *)
CallRaises ==
  /\ phase = "calling"
  /\ StepRaises(FALSE)
  /\ LeaveBehind
  /\ UNCHANGED <<program, expired, interrupted, posesSince, link, poses, robot, arm,
                 telemetry>>

BeginWait ==
  /\ phase = "ready" /\ Script[step].do = "wait" /\ interrupted # "deferred"
  /\ phase' = "waiting"
  /\ expired' = FALSE
  /\ UNCHANGED <<program, step, outcome, inside, interrupted, posesSince, calls, link, poses,
                 robot, arm, telemetry>>

DeadlinePasses ==
  /\ phase = "waiting" /\ ~expired
  /\ expired' = TRUE
  /\ UNCHANGED <<program, phase, step, outcome, inside, interrupted, posesSince, calls, link,
                 poses, robot, arm, telemetry>>

(* Variant: the wait for Moving ends at any datagram. *)
MatchesLoosely(tel) == Script[step].what = "moving" \/ Script[step].what \in tel

(* The datagram shows what the wait is for. *)
Matches(tel) == Script[step].what \in tel

(* Variant: no deadline. *)
ReceiveForever(tel) ==
  IF Matches(tel) THEN Proceed(inside)
  ELSE UNCHANGED <<phase, step, outcome, inside, request>>

(* The body of `async for tel in conn.telemetry()`: the deadline is looked at
   only when a datagram has arrived that does not match. *)
Receive(tel) ==
  CASE Matches(tel) -> Proceed(inside)
    [] ~Matches(tel) /\ expired -> StepRaises(FALSE)
    [] OTHER -> UNCHANGED <<phase, step, outcome, inside, request>>

(* There is no await in it. *)
SendPose ==
  /\ phase = "ready" /\ Script[step].do = "pose"
  /\ Send(Script[step].what)
  /\ Proceed(inside)
  /\ UNCHANGED <<program, expired, interrupted, late, link, robot, arm, telemetry>>

(* One more sample of the sine, and a sleep; or the pose that ends it *)
SendSample ==
  /\ phase = "ready" /\ Script[step].do = "sine"
  /\ \/ /\ Send(Elsewhere)
        /\ IF interrupted = "deferred" THEN StepRaises(TRUE)
           ELSE UNCHANGED <<phase, step, outcome, inside, request>>
     \/ Send(Script[step].what) /\ Proceed(inside)
  /\ UNCHANGED <<program, expired, interrupted, late, link, robot, arm, telemetry>>

(* Ctrl-C: asyncio.run cancels main where it waits, or the KeyboardInterrupt of
   Python 3.10 comes up where it runs.  (In __aexit__ it ends the wait for the
   release, which LeaveContext allows at any time.) *)
Interrupt ==
  /\ phase \in {"ready", "calling", "waiting"} /\ interrupted = "no"
  /\ interrupted' = "raised"
  /\ StepRaises(TRUE)
  /\ LeaveBehind
  /\ UNCHANGED <<program, expired, posesSince, link, poses, robot, arm, telemetry>>

(* From Python 3.11 on main is only marked while it runs: the cancellation is
   pending until its next await. *)
InterruptDeferred ==
  /\ phase = "ready" /\ interrupted = "no"
  /\ interrupted' = "deferred"
  /\ UNCHANGED <<program, phase, step, outcome, inside, expired, posesSince, calls, link,
                 poses, robot, arm, telemetry>>

(* That is the await of an answer, to a request which is sent before, or of the
   first datagram. *)
RaiseDeferred ==
  /\ phase = "ready" /\ interrupted = "deferred" /\ Script[step].do \in {"call", "wait"}
  /\ StepRaises(TRUE)
  /\ late' = IF Script[step].do = "call" /\ link THEN late \cup {Script[step].what} ELSE late
  /\ UNCHANGED <<program, expired, interrupted, posesSince, link, poses, robot, arm,
                 telemetry>>

(* The answer has been read when wait_for is cancelled, and it returns the answer. *)
InterruptSwallowed ==
  /\ LateResults
  /\ phase = "calling" /\ request \in {"executed", "refused"} /\ link /\ interrupted = "no"
  /\ interrupted' = "swallowed"
  /\ IF request = "executed"
     THEN Proceed(inside \/ Script[step].what = "claim")
     ELSE StepRaises(FALSE)
  /\ UNCHANGED <<program, expired, posesSince, late, link, poses, robot, arm, telemetry>>

(* __aexit__ ends with the answer of the release or without. *)
LeaveContext ==
  /\ phase = "leaving"
  /\ phase' = "over"
  /\ request' = "none"
  /\ late' = IF request = "sent" /\ link THEN late \cup {"release"} ELSE late
  /\ UNCHANGED <<program, step, outcome, inside, expired, interrupted, posesSince, link,
                 poses, robot, arm, telemetry>>

-----------------------------------------------------------------------------
(* The controller and the network *)

(* What a call does once it is executed *)
Execute(name) ==
  /\ controlled' = CASE name = "claim" -> TRUE
                     [] name = "release" -> FALSE
                     [] OTHER -> controlled
  /\ drives' = CASE name = "clear_fault" /\ drives = "fault" -> "stopped"
                 [] name = "disengage" /\ drives = "stopped" -> "setting_up"
                 [] name = "engage" /\ drives # "fault" -> "stopped"
                 [] OTHER -> drives
  /\ calibrating' = (calibrating \/ name = "calibrate")
  /\ IF name = "engage" /\ motion # "idle"
     THEN motion' = "braking" /\ braked' = TRUE
     ELSE UNCHANGED <<motion, braked>>
  /\ UNCHANGED <<goal, position>>

(* The call of the example is executed, or refused for whatever reason. *)
ExecuteCall ==
  /\ link /\ request = "sent"
  /\ \/ request' = "refused" /\ UNCHANGED <<robot, arm>>
     \/ /\ request' = "executed"
        /\ Execute(IF phase = "leaving" THEN "release" ELSE Script[step].what)
  /\ UNCHANGED <<example, late, link, poses, telemetry>>

(* A call nobody waits for any more *)
ExecuteLate(name) ==
  /\ link
  /\ name \in late
  /\ late' = late \ {name}
  /\ Execute(name)
  /\ UNCHANGED <<example, request, link, poses, telemetry>>

SetUp ==
  /\ \/ drives = "setting_up" /\ drives' = "operational" /\ UNCHANGED calibrating
     \/ calibrating /\ calibrating' = FALSE /\ UNCHANGED drives
  /\ UNCHANGED <<example, calls, link, poses, controlled, arm, telemetry>>

(* The pose arrives: the arm starts to move unless it is there already. *)
AcceptPose(p) ==
  /\ link
  /\ p \in poses
  /\ poses' = poses \ {p}
  /\ IF controlled /\ drives = "operational" /\ ~(motion = "idle" /\ position = p)
     THEN motion' = "moving" /\ position' = Elsewhere /\ goal' = p
     ELSE UNCHANGED <<motion, position, goal>>
  /\ UNCHANGED <<example, calls, link, robot, braked, telemetry>>

LosePose(p) ==
  /\ p \in poses
  /\ poses' = poses \ {p}
  /\ UNCHANGED <<example, calls, link, robot, arm, telemetry>>

(* moving, settling, idle at the goal; or braking, idle wherever that is *)
Move ==
  /\ \/ /\ motion = "moving"
        /\ motion' = "settling"
        /\ UNCHANGED position
     \/ /\ motion = "settling"
        /\ motion' = "idle" /\ position' = goal
     \/ /\ motion = "braking"
        /\ motion' = "idle"
        /\ UNCHANGED position
  /\ UNCHANGED <<example, calls, link, poses, robot, goal, braked, telemetry>>

(* A fault, a quickstop or a stop by somebody else, a sample that did not come *)
Brake ==
  /\ motion \in {"moving", "settling"}
  /\ motion' = "braking"
  /\ braked' = TRUE
  /\ drives' \in {"fault", "stopped", drives}
  /\ UNCHANGED <<example, calls, link, poses, controlled, calibrating, goal, position,
                 telemetry>>

(* The waits a datagram would end *)
Reported ==
  {s \in Waits : \/ s = "operational" /\ drives = "operational"
                 \/ s = motion
                 \/ s = "activity_idle" /\ ~calibrating}

SendTelemetry ==
  /\ link
  /\ Len(wire) < MaxFlight[program]
  /\ wire' = Append(wire, Reported)
  /\ UNCHANGED <<example, calls, link, poses, robot, arm, overtook>>

LoseTelemetry ==
  /\ \E i \in 1 .. Len(wire) : wire' = RemoveAt(wire, i)
  /\ UNCHANGED <<example, calls, link, poses, robot, arm, overtook>>

(* A datagram arrives, in any order.  Without a subscriber it is dropped. *)
DeliverTelemetry ==
  /\ link
  /\ \E i \in 1 .. Len(wire) :
       /\ overtook' = (overtook \/ i > 1)
       /\ wire' = RemoveAt(wire, i)
       /\ IF phase = "waiting" THEN Receive(wire[i])
          ELSE UNCHANGED <<phase, step, outcome, inside, request>>
  /\ UNCHANGED <<program, expired, interrupted, posesSince, late, link, poses, robot, arm>>

(* What is on its way is lost with the link. *)
LoseLink ==
  /\ link
  /\ link' = FALSE
  /\ poses' = {} /\ wire' = <<>> /\ late' = {}
  /\ UNCHANGED <<example, request, robot, arm, overtook>>

-----------------------------------------------------------------------------
SessionSteps ==
  \/ BeginCall \/ CallReturns \/ CallRaises
  \/ BeginWait \/ DeadlinePasses
  \/ SendPose \/ SendSample
  \/ Interrupt \/ InterruptDeferred \/ RaiseDeferred \/ InterruptSwallowed
  \/ LeaveContext
  \/ ExecuteCall \/ \E name \in late : ExecuteLate(name)
  \/ SetUp
  \/ \E p \in poses : AcceptPose(p) \/ LosePose(p)
  \/ Move \/ Brake
  \/ SendTelemetry \/ LoseTelemetry \/ DeliverTelemetry
  \/ LoseLink

SessionNext == Running /\ SessionSteps

(* The event loop runs, time passes, the sine ends (SineStream), and while the
   link is up the controller goes on sending telemetry of which some arrives. *)
SessionFairness ==
  /\ WF_session(Running /\ (BeginCall \/ CallRaises \/ BeginWait \/ SendPose \/ RaiseDeferred
                          \/ LeaveContext))
  /\ WF_session(Running /\ DeadlinePasses)
  /\ WF_session(Running /\ SendSample /\ phase' # phase)
  /\ WF_session(Running /\ SendTelemetry)
  /\ SF_session(Running /\ DeliverTelemetry)

-----------------------------------------------------------------------------
(* Properties *)

(* Where the last pose before this step leads *)
LastPose ==
  LET before == {i \in 1 .. step - 1 : Script[i].do = "pose"}
  IN  Script[CHOOSE i \in before : \A j \in before : j <= i].what

(* "Move each arm to a target pose, wait for idle, then return to 0"
   (move_test.py): when the example takes a motion for finished and until it sends
   the next pose, the arm rests at the goal.  Lost poses, refused calls and lost
   telemetry delay or fail a wait and never pass it.  Two things may: a motion
   that was cut short, and telemetry out of order, because the wait never looks
   at its seq. *)
RestsAtGoal ==
  /\ program = "move_test" /\ phase # "over"
  /\ step > 1 /\ Script[step - 1] = Wait("idle")
  /\ ~braked /\ ~overtook
  => motion = "idle" /\ position = LastPose

(* "Move each arm to a target pose, wait for idle, then return to 0"
   (move_test.py:1): whatever ended the motion, it has ended when the example
   goes on to the next one. *)
WaitsForIdle ==
  program = "move_test" /\ phase # "over" /\ step > 1 /\ Script[step - 1] = Wait("idle")
  => motion = "idle"

(* Ctrl-C stops an example that moves the robot (asyncio.run, move_test.py:120):
   no pose is sent after the cancellation was raised, not even if it strikes inside
   a `try` that goes on after errors and whatever is still to be released, and at
   most one while it is pending, since every pose is followed by an await.  Only
   where wait_for returns an answer in its place the example goes on as if there
   had been no Ctrl-C. *)
FewPosesAfterInterrupt ==
  /\ interrupted = "raised" => posesSince = 0
  /\ interrupted = "deferred" => posesSince <= 1
=============================================================================
