----------------------------- MODULE MotionNode -----------------------------
(* What the three nodes that play a motion have in common: the feedback they  *)
(* keep, the segment they are in, the time since it began and the commands    *)
(* they publish.  One of them drives the arm at a time; which one, and with   *)
(* which parameters, is chosen at the start (config).                         *)
EXTENDS MotionSegments

CONSTANTS MaxStateAge, \* state_timeout_s
          MaxSpeed,         \* the fastest a segment moves a motor in one tick
          MaxReach,         \* how far from zero a position is at most
          SinceCap,         \* enough ticks to cross that range at MaxSpeed
          NoCommand

ASSUME MotionAssumption ==
  /\ MaxStateAge \in Nat /\ MaxSpeed \in Nat \ {0}
  /\ MaxReach \in Nat /\ SinceCap \in Nat /\ 2 * MaxReach <= MaxSpeed * SinceCap

VARIABLES config,   \* the node and its parameters; never changes
          samples,  \* what was heard last of each motor, and how long ago
          phase,    \* "waiting", "moving", "sine", "done" (holding) or "dead"
          segments, \* the motion, once it is built
          idx,      \* active_segment_idx, counted from one
          elapsed,  \* the time since segment_started_s (or sine_started_s)
          reference,\* sine_reference_q_by_motor
          command,  \* history: the last position commanded to each motor
          sinceCmd, \* history: the time since then
          repeated  \* history: the sequence has begun again

motionVars == <<config, samples, phase, segments, idx, elapsed, reference,
                command, sinceCmd, repeated>>

MotionStart(configs) ==
  /\ config \in configs
  /\ samples = [m \in MotorIds |-> [q |-> 0, age |-> MaxStateAge + 1]]
  /\ phase = "waiting" /\ segments = <<>> /\ idx = 1 /\ elapsed = 0
  /\ reference = Zero
  /\ command = [m \in MotorIds |-> NoCommand]
  /\ sinceCmd = [m \in MotorIds |-> SinceCap]
  /\ repeated = FALSE

(* ------------------------------- durations -------------------------------- *)

LargestOf(S) == CHOOSE x \in S : \A y \in S : y <= x

Spread(from, to, among) == LargestOf({AbsDiff(from[m], to[m]) : m \in among})

Rounded(n, d) == (n + d - 1) \div d

\* estimate_minimum_jerk_duration: no motor is faster than MaxSpeed.
QuinticDuration(from, to, least) ==
  LargestOf({least, Rounded(Spread(from, to, MotorIds), MaxSpeed)})

(* -------------------------------- feedback -------------------------------- *)

Connected == {m \in MotorIds : samples[m].age <= MaxStateAge}

Measured == [m \in MotorIds |-> samples[m].q]

\* A state array with the positions of some motors (config.arrays says which); those that are
\* not plausible are not kept.  Most nodes read positions for the last time when the
\* motion begins: from then on they are all alike.
OnMotorStates(plausible) ==
  /\ phase # "dead"
  /\ \E heard \in config.arrays :
       \E q \in [heard -> IF phase = "waiting" \/ config.node = "xyz" THEN config.reported
                         ELSE {0}] :
       samples' = [m \in MotorIds |->
         IF m \in heard /\ q[m] \in plausible THEN [q |-> q[m], age |-> 0]
         ELSE samples[m]]
  /\ UNCHANGED <<config, phase, segments, idx, elapsed, reference, command, sinceCmd,
                 repeated>>

(* -------------------------------- commands -------------------------------- *)

Publish(pose, who) ==
  /\ command' = [m \in MotorIds |-> IF m \in who THEN pose[m] ELSE command[m]]
  /\ sinceCmd' = [m \in MotorIds |-> IF m \in who THEN 0 ELSE sinceCmd[m]]
  /\ UNCHANGED <<config, samples>>

\* The first tick of a motion publishes where its first segment begins.
BeginWith(segs, who) ==
  /\ phase' = "moving" /\ segments' = segs /\ idx' = 1 /\ elapsed' = 0
  /\ Publish(segs[1].start, who)

\* An exception in a callback ends rclpy.spin and with it the process.
Die ==
  /\ phase' = "dead"
  /\ UNCHANGED <<config, samples, segments, idx, elapsed, reference, command,
                 sinceCmd, repeated>>

\* Mutant: a segment that is over does not move its successor's beginning.
Play_KeepsTime(who) ==
  \E j \in {ActiveAt(segments, idx, elapsed)} :
    /\ j <= Len(segments)
    /\ idx' = j /\ elapsed' = elapsed
    /\ Publish(SampleSegment(segments[j], elapsed'), who)
    /\ UNCHANGED <<phase, segments, reference, repeated>>

\* A tick within the motion: segments that are over are skipped, and the one
\* that is active is sampled.
Play(who) ==
  \E j \in {ActiveAt(segments, idx, elapsed)} :
    /\ j <= Len(segments)
    /\ idx' = j /\ elapsed' = elapsed - Offset(segments, idx, j)
    /\ Publish(SampleSegment(segments[j], elapsed'), who)
    /\ UNCHANGED <<phase, segments, reference, repeated>>

\* Mutant: only the segment before is looked at.
AllOver_OneBehind == idx > Len(segments)

AllOver == ActiveAt(segments, idx, elapsed) > Len(segments)

Rest(pose, who) ==
  /\ phase' = "done" /\ elapsed' = 0
  /\ Publish(pose, who)
  /\ UNCHANGED <<segments, idx, reference, repeated>>

\* Time passes: what has passed of the motion becomes wrapped.  It counts while a motion runs; past the end of the motion,
\* past the timeout and past SinceCap it makes no difference.
TimePasses(wrapped) ==
  /\ phase # "dead"
  /\ samples' = [m \in MotorIds |->
       [samples[m] EXCEPT !.age = IF @ > MaxStateAge THEN @ ELSE @ + 1]]
  /\ elapsed' = IF phase \in {"moving", "sine"} THEN wrapped ELSE elapsed
  /\ sinceCmd' = [m \in MotorIds |-> IF sinceCmd[m] < SinceCap THEN sinceCmd[m] + 1 ELSE SinceCap]
  /\ UNCHANGED <<config, phase, segments, idx, reference, command, repeated>>

CapAtEnd(t) == IF t > TotalDuration(segments) + 1 THEN TotalDuration(segments) + 1 ELSE t

(* ------------------------------- properties ------------------------------- *)

(* No segment takes a motor from one side of zero to the other without a      *)
(* waypoint at zero, whatever the repetitions (joint_sweep_node.py:10).       *)
SignsPassThroughZero ==
  \A i \in DOMAIN segments :
    Crossing(segments[i].start, segments[i].end, MotorIds) = {}

(* The same until a sequence repeats: whatever combination of start, fixed    *)
(* targets, waypoints and splitting built the motion.  Goals for the end       *)
(* effector are reached directly.                                             *)
FirstPassThroughZero == ~repeated /\ config.motion # "goals" => SignsPassThroughZero

(* Motors that are set to their fixed targets at once: the sweep through zero *)
(* leads from where it is only if a motor of the sweep is not there.          *)
SetAtOnce ==
  IF config.node = "sweep" /\ (config.motion = "default" \/ (config.motion = "sine" /\ config.repeat))
  THEN DOMAIN config.fixed \ config.sweep ELSE {}

\* What a step does to the commands of a motor.
CommandContinues(m) ==
  IF command[m] = NoCommand
  THEN m \in Connected /\ phase = "waiting" => command'[m] \in {NoCommand, samples[m].q}
  ELSE \/ AbsDiff(command'[m], command[m]) <= MaxSpeed * sinceCmd[m]
       \/ config.node = "random" /\ repeated /\ idx = 1
       \/ config.node = "ik" /\ repeated'
       \/ config.motion = "sine" /\ phase' = "done"
       \/ /\ config.node = "xyz" /\ command'[m] = samples[m].q
          /\ phase = "waiting" \/ m \notin config.controlled

(* A motor's commands do not jump.  The first one of a motor that reports is   *)
(* the position it reports; over the time since its last command the next one *)
(* moves no further than the motion may, although ticks are late, several     *)
(* segments are skipped at once, feedback comes and goes, goals replace each  *)
(* other and a sequence is built again.  Left out, because the code jumps     *)
(* there: a fixed motor of the sweep through zero, a sequence that has begun  *)
(* at its first start again, the end of a timed sine, and, in                 *)
(* ee_xyz_trajectory_node, motors that are not controlled and all of them     *)
(* after a disconnect: those are sent to where they are.                      *)
CommandIsContinuous ==
  [][\A m \in MotorIds \ SetAtOnce : CommandContinues(m)]_motionVars

EndlessSine == config.motion = "sine" /\ config.sineDuration = 0

(* Once the motors keep reporting, a motion that does not repeat comes to its *)
(* end and holds there, or the node has refused it.                           *)
MotionEnds ==
  (~config.repeat /\ ~EndlessSine) =>
    (<>[](Connected = MotorIds) => <>(phase \in {"done", "dead"}))

=============================================================================
