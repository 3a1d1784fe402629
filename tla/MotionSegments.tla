--------------------------- MODULE MotionSegments ---------------------------
(* What joint_sweep_node, random_motion_gc_node and dataset_ik_motion_node    *)
(* compute before they move: segments between poses of the arm, the waypoint  *)
(* at zero where a motor changes sign, where a segment is at a time, and what *)
(* makes a segment safe.  A position is an integer, a quintic is the straight *)
(* line with its ends and its duration.                                       *)
EXTENDS Integers, Sequences, SequencesExt, FiniteSets

CONSTANTS MotorIds,     \* the motors of the URDF motor map
          QLower, QUpper,   \* joint limits, the same for every motor
          StartTolerance,   \* start_state_joint_limit_tolerance_rad
          ZeroEps,      \* zero_crossing_epsilon_rad
          Unsafe        \* poses in collision, below the floor or too heavy to hold

ASSUME SegmentsAssumption ==
  /\ IsFiniteSet(MotorIds) /\ MotorIds # {}
  /\ QLower \in Int /\ QUpper \in Int /\ QLower <= 0 /\ 0 <= QUpper
  /\ StartTolerance \in Nat /\ ZeroEps \in Nat

AbsDiff(a, b) == IF a >= b THEN a - b ELSE b - a

Zero == [m \in MotorIds |-> 0]

\* The pose that is target where target says something, and base elsewhere.
Overlay(base, target) ==
  [m \in MotorIds |-> IF m \in DOMAIN target THEN target[m] ELSE base[m]]

Segment(from, to, time) == [start |-> from, end |-> to, duration |-> time]

Differ(a, b, among) == \E m \in among : a[m] # b[m]

(* ------------------------------ zero crossings ---------------------------- *)

SignCrossesZero(a, b) ==
  /\ AbsDiff(a, 0) > ZeroEps /\ AbsDiff(b, 0) > ZeroEps
  /\ (a > 0 /\ b < 0) \/ (a < 0 /\ b > 0)

Crossing(from, to, among) == {m \in among : SignCrossesZero(from[m], to[m])}

\* The waypoint of a segment that changes sign: zero for the motors that do,
\* half way for the others.
Midpoint(from, to) ==
  [m \in MotorIds |-> IF m \in Crossing(from, to, MotorIds) THEN 0
                      ELSE (from[m] + to[m]) \div 2]

\* A segment that changes sign becomes two, each with the duration half gives.
InsertZeroCrossings(segs, half) ==
  FlattenSeq([i \in DOMAIN segs |->
    LET s == segs[i]
        middle == Midpoint(s.start, s.end)
    IN IF Crossing(s.start, s.end, MotorIds) = {} THEN <<s>>
       ELSE <<Segment(s.start, middle, half[s.duration]),
              Segment(middle, s.end, half[s.duration])>>])

(* -------------------------------- validation ------------------------------ *)

WithinLimits(q, tolerance) ==
  \A m \in MotorIds : QLower - tolerance <= q[m] /\ q[m] <= QUpper + tolerance

Between(from, to, i, n) ==
  [m \in MotorIds |-> from[m] + ((to[m] - from[m]) * i) \div n]

\* Collision, clearance from the floor and gravity load of a pose, as a whole.
Allowed(q) == q \notin Unsafe

\* The samples the checks look at: the ends and Samples - 2 poses between them.
SegmentIsSafe(from, to, Samples) ==
  \A i \in 0 .. Samples - 1 : Allowed(Between(from, to, i, Samples - 1))

(* -------------------------------- sampling -------------------------------- *)

\* When each segment begins, and at last when the motion is over.
Begins(segs) ==
  LET begin[k \in 1 .. Len(segs) + 1] ==
        IF k = 1 THEN 0 ELSE begin[k - 1] + segs[k - 1].duration
  IN begin

\* When segment j begins, counted from the beginning of segment i.
Offset(segs, i, j) == Begins(segs)[j] - Begins(segs)[i]

TotalDuration(segs) == Offset(segs, 1, Len(segs) + 1)

\* The segment that is active when t has passed since segment i began; one
\* more than there are when all of them are over.
ActiveAt(segs, i, t) ==
  CHOOSE j \in i .. Len(segs) + 1 :
    /\ j <= Len(segs) => t <= Offset(segs, i, j + 1)
    /\ j > i => t > Offset(segs, i, j)

\* Where a segment is after t, on the line and at its end from then on.
SampleSegment(s, t) ==
  Between(s.start, s.end, IF t > s.duration THEN s.duration ELSE t, s.duration)

=============================================================================
