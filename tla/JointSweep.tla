----------------------------- MODULE JointSweep -----------------------------
(* joint_sweep_node.py: a sweep, a custom sweep of one joint, a list of       *)
(* waypoints (given, preset or random), or a sine that a short motion leads   *)
(* up to.                                                                     *)
EXTENDS MotionNode

CONSTANTS InitialDuration,  \* initial_to_zero_duration_s
          SegmentDuration,  \* segment_duration_s
          HalfAtLeast,      \* the 0.5 s a half segment takes at least
          SweepReach,       \* how far from zero the positions of a sweep are
          MaxAbsQ,          \* state_max_abs_q_rad
          MinNorm, MaxNorm, \* random_min_step_norm_rad, random_max_step_norm_rad
          CheckSamples      \* collision_samples_per_segment

\* state_max_abs_q_rad: a position beyond it is not kept.
SweepPlausible == -MaxAbsQ .. MaxAbsQ

Required == config.sweep \cup DOMAIN config.fixed

SweepHalf == [d \in Nat |-> IF d \div 2 >= HalfAtLeast THEN d \div 2 ELSE HalfAtLeast]

\* The durations are fixed: MaxSpeed is what they make of the positions.
ASSUME SweepAssumption ==
  /\ {InitialDuration, SegmentDuration, HalfAtLeast} \subseteq Nat \ {0}
  /\ SweepReach \in 0 .. MaxReach
  /\ \A d \in {InitialDuration, SegmentDuration} :
       2 * SweepReach <= MaxSpeed * d /\ SweepReach <= MaxSpeed * SweepHalf[d]

(* ------------------------------- the motion ------------------------------- *)

ToAllZero(initial) ==
  IF config.zeroStart /\ initial # Zero
  THEN <<Segment(initial, Zero, InitialDuration)>> ELSE <<>>

\* A segment from waypoint to waypoint, where a required motor moves.
WaypointSegments(from) ==
  LET pose[i \in 0 .. Len(config.targets)] ==
        IF i = 0 THEN from
        ELSE Overlay(Overlay(pose[i - 1], config.fixed), config.targets[i])
      leg(i) == Segment(pose[i - 1], pose[i],
                        IF i = 1 THEN InitialDuration ELSE SegmentDuration)
  IN FlattenSeq([i \in DOMAIN config.targets |->
       IF Differ(pose[i - 1], pose[i], Required) THEN <<leg(i)>> ELSE <<>>])

\* random_waypoint_mode: waypoints drawn when the node starts, from a pose with
\* every motor at zero and the fixed ones at their targets. One is accepted if
\* it lies within the limits, far enough from the one before but not too far
\* (the first one may be anywhere), and the way to it is safe.
RandomTargets(fixed, draws, count) ==
  LET Poses(targets) == [i \in 0 .. count |->
        IF i = 0 THEN Overlay(Zero, fixed)
        ELSE Overlay(Overlay(Zero, fixed), targets[i])]
      StepSquare(p, q, among) == MapThenSumSet(LAMBDA m : (q[m] - p[m]) * (q[m] - p[m]), among)
  IN {targets \in [1 .. count -> draws] :
        \A i \in 1 .. count :
          LET p == Poses(targets)[i - 1]
              q == Poses(targets)[i]
              step == StepSquare(p, q, DOMAIN targets[i])
          IN /\ i > 1 => MinNorm * MinNorm <= step /\ step <= MaxNorm * MaxNorm
             /\ \A m \in DOMAIN targets[i] : QLower <= q[m] /\ q[m] <= QUpper
             /\ SegmentIsSafe(p, q, CheckSamples)}

\* Every swept motor at value, the fixed ones at their targets.
SweepPose(from, value) ==
  Overlay(Overlay(from, config.fixed), [m \in config.sweep |-> value])

\* A way in, unless the motors are there already, and a round of poses.
SweepRound(from, poses, among) ==
  (IF Differ(from, poses[1], among)
   THEN <<Segment(from, poses[1], InitialDuration)>> ELSE <<>>)
  \o [i \in 1 .. Len(poses) - 1 |->
        Segment(poses[i], poses[i + 1], SegmentDuration)]

CustomSegments(from) ==
  LET high == SweepPose(from, config.high)
      low == SweepPose(from, config.low)
  IN SweepRound(from, <<high, low, high>>, Required)

DefaultSegments(from) ==
  LET zero == SweepPose(from, 0)
  IN SweepRound(from, <<zero, SweepPose(from, -config.amplitude), zero,
                        SweepPose(from, config.amplitude), zero>>, config.sweep)

\* A sine has neither waypoints nor a custom sweep, so it falls through.
BuildSegments(from) ==
  IF config.motion = "waypoints" THEN WaypointSegments(from)
  ELSE IF config.motion = "custom" THEN CustomSegments(from)
  ELSE DefaultSegments(from)

(* --------------------------------- the sine -------------------------------- *)

\* The wave of the swept motors, the reference pose for the others.
SineAt(ref, t) ==
  Overlay(ref, [m \in config.sweep |-> config.wave[(t % Len(config.wave)) + 1]])

SineCenter(ref) == Overlay(ref, [m \in config.sweep |-> config.center])

LeadToSine(from) ==
  IF SineAt(from, 0) # from
  THEN <<Segment(from, SineAt(from, 0), InitialDuration)>> ELSE <<>>

SineIsValid(ref) ==
  \A i \in 0 .. CheckSamples - 1 :
    LET q == SineAt(ref, i * config.stride)
    IN Allowed(q) /\ \A m \in config.sweep : QLower <= q[m] /\ q[m] <= QUpper

(* ------------------------------- the handlers ------------------------------ *)

SweepSegmentsValid(segs) ==
  \A i \in DOMAIN segs :
    /\ WithinLimits(segs[i].start, StartTolerance) /\ WithinLimits(segs[i].end, 0)
    /\ Crossing(segs[i].start, segs[i].end, MotorIds) = {}
    /\ SegmentIsSafe(segs[i].start, segs[i].end, CheckSamples)

\* Positions of all motors are taken, those never heard of count as zero.
MotionStartPose == IF config.zeroStart THEN Zero ELSE Measured

MotionPlan(start) ==
  ToAllZero(Measured) \o (IF config.motion = "sine" THEN LeadToSine(start)
                          ELSE BuildSegments(start))

SweepBegins ==
  /\ phase = "waiting" /\ Required \subseteq Connected
  /\ \E start \in {MotionStartPose} : \E plan \in {MotionPlan(start)} :
       \E segs \in {InsertZeroCrossings(plan, SweepHalf)} :
         IF ~(SweepSegmentsValid(segs) /\ IF config.motion = "sine"
                                          THEN SineIsValid(start) ELSE segs # <<>>)
         THEN Die
         ELSE /\ reference' = start
              /\ UNCHANGED repeated
              /\ IF segs # <<>> THEN BeginWith(segs, Connected)
                 ELSE /\ phase' = "sine" /\ elapsed' = 0
                      /\ Publish(SineAt(start, 0), Connected)
                      /\ UNCHANGED <<segments, idx>>

SweepFollows == phase = "moving" /\ Play(Connected)

\* The sequence is built again from its last pose, and neither completed with
\* zero crossings nor validated; an empty one is an IndexError.
SweepRepeats ==
  /\ phase = "moving" /\ AllOver /\ config.repeat
  /\ \E segs \in {BuildSegments(segments[Len(segments)].end)} :
       IF segs = <<>> THEN Die
       ELSE /\ BeginWith(segs, Connected)
            /\ repeated' = TRUE
            /\ UNCHANGED reference

SweepStartsSine ==
  /\ phase = "moving" /\ AllOver /\ ~config.repeat /\ config.motion = "sine"
  /\ phase' = "sine" /\ elapsed' = 0
  /\ Publish(SineAt(reference, 0), Connected)
  /\ UNCHANGED <<segments, idx, reference, repeated>>

SineOver == config.sineDuration > 0 /\ elapsed >= config.sineDuration

SineFollows ==
  /\ phase = "sine" /\ ~SineOver
  /\ Publish(SineAt(reference, elapsed), Connected)
  /\ UNCHANGED <<phase, segments, idx, elapsed, reference, repeated>>

\* The last waypoint, or the centre of the sine, is held.
SweepHolds ==
  \/ /\ phase = "sine" /\ SineOver
     /\ Rest(SineCenter(reference), Connected)
  \/ /\ phase = "moving" /\ AllOver /\ ~config.repeat /\ config.motion # "sine"
     /\ Rest(segments[Len(segments)].end, Connected)
  \/ /\ phase = "done"
     /\ Rest(IF config.motion = "sine" THEN SineCenter(reference)
             ELSE segments[Len(segments)].end, Connected)

\* Without a motor that reports, on_timer returns before it does anything.
SweepTimer ==
  /\ Connected # {}
  /\ \/ SweepBegins \/ SweepFollows \/ SweepRepeats
     \/ SweepStartsSine \/ SineFollows \/ SweepHolds

\* A timed sine needs no time past its end, an endless one wraps.
SweepWrap(t) ==
  IF phase = "moving" THEN CapAtEnd(t)
  ELSE IF config.sineDuration = 0 THEN t % Len(config.wave)
  ELSE IF t > config.sineDuration THEN config.sineDuration ELSE t

SweepTick == TimePasses(SweepWrap(elapsed + 1))

SweepNext ==
  /\ config.node = "sweep"
  /\ OnMotorStates(SweepPlausible) \/ SweepTimer \/ SweepTick

=============================================================================
