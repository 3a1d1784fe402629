---------------------------- MODULE RandomMotion ----------------------------
(* random_motion_gc_node.py: home first, then random waypoints, each reached  *)
(* through zero where a motor changes sign and in steps that are not too      *)
(* long; played over and over, or held at the end.                            *)
EXTENDS MotionNode

CONSTANTS RandomDuration,   \* segment_min_duration_s
          HomeDuration,     \* initial_to_home_duration_s
          MaxStep,          \* max_joint_step_rad
          MinStep,          \* min_joint_step_norm_rad
          SafeSamples       \* collision_samples_per_segment

ASSUME RandomAssumption == {MaxStep, RandomDuration, HomeDuration} \subseteq Nat \ {0}

(* -------------------------------- the motion ------------------------------- *)

\* Mutant: no stop at zero.
ThroughZero_Straight(from, goal) == <<goal>>

\* The motors that change sign stop at zero while the others go all the way.
ThroughZero(from, goal) ==
  LET crossing == Crossing(from, goal, config.random)
  IN IF crossing = {} THEN <<goal>>
     ELSE <<Overlay(goal, [m \in crossing |-> 0]), goal>>

SplitLargeStep(from, goal) ==
  LET n == LargestOf({1, Rounded(Spread(from, goal, config.random), MaxStep)})
  IN [i \in 1 .. n |-> Between(from, goal, i, n)]

ExpandAndSplit(from, goal) ==
  LET zero == ThroughZero(from, goal)
  IN SplitLargeStep(from, zero[1])
     \o IF Len(zero) = 1 THEN <<>> ELSE SplitLargeStep(zero[1], zero[2])

ChainOf(from, poses, least) ==
  [i \in DOMAIN poses |->
     LET start == IF i = 1 THEN from ELSE poses[i - 1]
     IN Segment(start, poses[i], QuinticDuration(start, poses[i], least[i]))]

\* _assert_q_safe
RandomSafe(q) == WithinLimits(q, 0) /\ Allowed(q)

PathSafe(from, poses) ==
  \A i \in DOMAIN poses :
    LET start == IF i = 1 THEN from ELSE poses[i - 1]
    IN /\ SegmentIsSafe(start, poses[i], SafeSamples)
       /\ \A k \in 0 .. SafeSamples - 1 :
            WithinLimits(Between(start, poses[i], k, SafeSamples - 1), 0)

\* Only the first segment of the way home has the long duration.
HomePoses(from) ==
  IF config.homeFirst /\ Differ(from, config.home, config.random)
  THEN ExpandAndSplit(from, config.home) ELSE <<>>

EndOf(from, poses) == IF poses = <<>> THEN from ELSE poses[Len(poses)]

\* A waypoint is drawn from the range; one that is too close is drawn again.
Candidates(from) ==
  {q \in {Overlay(config.home, d) : d \in [config.random -> config.range]} :
     Spread(from, q, config.random) >= MinStep}

(* ------------------------------- the handlers ------------------------------ *)

\* The command motors where they are, the others at home.
RandomStart == Overlay(config.home, [m \in config.commanded |-> Measured[m]])

\* The waypoints that are accepted, one after the other, with the poses between.
RandomPaths(from) ==
  {ExpandAndSplit(from, q) : q \in {c \in Candidates(from) :
                                      PathSafe(from, ExpandAndSplit(from, c))}}

\* Either enough waypoints are found or the attempts run out.
RandomBegins ==
  LET start == RandomStart
      home == HomePoses(start)
      first == EndOf(start, home)
  IN /\ phase = "waiting" /\ config.commanded \subseteq Connected
     /\ \/ Die
        \/ /\ RandomSafe(start) /\ PathSafe(start, home)
           /\ \E one \in RandomPaths(first) :
                \E two \in RandomPaths(EndOf(first, one)) :
                  BeginWith(ChainOf(start, home, [i \in Nat |-> IF i = 1 THEN HomeDuration
                                                             ELSE RandomDuration])
                            \o ChainOf(first, one \o two, [i \in Nat |-> RandomDuration]),
                            config.commanded)
           /\ UNCHANGED <<reference, repeated>>

\* The command motors are sent together, at a gain and a torque each.
RandomSends(pose) == Publish(pose, config.commanded)

\* From here on nobody asks whether the motors still report.  The segment that
\* is over has been sampled at its end; then the next one begins.
RandomFollows ==
  LET s == segments[idx]
      over == elapsed >= s.duration
      last == idx = Len(segments)
  IN /\ phase = "moving"
     /\ RandomSends(SampleSegment(s, elapsed))
     /\ elapsed' = IF over THEN 0 ELSE elapsed
     /\ idx' = IF ~over \/ (last /\ ~config.repeat) THEN idx
               ELSE IF last THEN 1 ELSE idx + 1
     /\ phase' = IF over /\ last /\ ~config.repeat THEN "done" ELSE phase
     /\ repeated' = (repeated \/ (over /\ last /\ config.repeat))
     /\ UNCHANGED <<segments, reference>>

RandomHolds ==
  /\ phase = "done"
  /\ Rest(segments[Len(segments)].end, config.commanded)

RandomTimer == RandomBegins \/ RandomFollows \/ RandomHolds

RandomTick ==
  TimePasses(IF elapsed < segments[idx].duration THEN elapsed + 1 ELSE elapsed)

RandomNext ==
  /\ config.node = "random"
  /\ \/ OnMotorStates(Int)
     \/ RandomTimer \/ RandomTick

=============================================================================
