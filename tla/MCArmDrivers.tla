------------------------------ MODULE MCArmDrivers ------------------------------
(* Instances of ArmDrivers for TLC: two motors, and each node with the ways it *)
(* has to build a motion; plan_node with one joint that travels from 0 to QHi, *)
(* plans with one and with two legs; gripper_node with a jaw seen at its ends,  *)
(* on the block and beside those.                                             *)
EXTENDS ArmDrivers, TLC

CONSTANTS a, b, Serials

MCReported == {-2, 4, 8}
MCLower == -4
\* The motors a state array brings: both, or any of them.
BothMotors == {MotorIds}
AnyArray == SUBSET MotorIds \ {{}}
MCGoals == {"here", "there"}

SweepOf(kind, sweep) ==
  [node |-> "sweep", motion |-> kind, sweep |-> sweep, fixed |-> <<>>,
   zeroStart |-> TRUE, repeat |-> FALSE, reported |-> MCReported,
   arrays |-> IF kind = "default" THEN AnyArray ELSE BothMotors]

SineOf(sweep) ==
  SweepOf("sine", sweep) @@ [amplitude |-> 2, wave |-> <<0, 2, 0, -2>>, center |-> 0,
                             stride |-> 1, sineDuration |-> 0]

Sweeps ==
  {SweepOf("default", {a}) @@ [amplitude |-> 4],
   [zeroStart |-> FALSE] @@ SweepOf("custom", {a}) @@ [high |-> 2, low |-> -4],
   [repeat |-> TRUE] @@ SweepOf("custom", {a}) @@ [high |-> 2, low |-> -4],
   [repeat |-> TRUE, fixed |-> b :> 2] @@ SweepOf("waypoints", {a})
     @@ [targets |-> <<a :> -2, a :> 4>>],
   [repeat |-> TRUE, zeroStart |-> FALSE] @@ SweepOf("waypoints", {a})
     @@ [targets |-> <<a :> 4>>],
   SineOf({a}),
   [sineDuration |-> 3, wave |-> <<2, 0, -2, 0>>] @@ SineOf({a}),
   [repeat |-> TRUE] @@ SineOf({a})}

\* Two waypoints drawn at the start: 4 and -2 lie within the norms of each other.
DrawnSweeps ==
  {SweepOf("waypoints", {a}) @@ [targets |-> drawn] :
     drawn \in RandomTargets(<<>>, {a :> -2, a :> 2, a :> 4}, 2)}

RandomOf(again) ==
  [node |-> "random", motion |-> "random", repeat |-> again, homeFirst |-> ~again,
   home |-> Zero, random |-> {a}, commanded |-> {a, b}, range |-> {-4, 2, 6},
   reported |-> MCReported, arrays |-> AnyArray]

IkOf(again) ==
  [node |-> "ik", motion |-> "ik", repeat |-> again, zeroStart |-> ~again,
   centerFirst |-> ~again, center |-> [m \in MotorIds |-> IF m = a THEN 2 ELSE 0],
   controlled |-> {a}, range |-> {-4, 2}, reported |-> MCReported,
   arrays |-> IF again THEN AnyArray ELSE BothMotors]

XyzOf(reset, sources, goals, positions, arrays) ==
  [node |-> "xyz", motion |-> "goals", repeat |-> TRUE, controlled |-> {a},
   range |-> {4}, reported |-> positions, goals |-> goals, reset |-> reset,
   sources |-> sources, arrays |-> arrays]

PlanOnly == [node |-> "plan", motion |-> "plans", repeat |-> TRUE]
GripperOnly == [node |-> "gripper", motion |-> "grasps", repeat |-> TRUE]

\* A jaw that over-closes; angles in hundredths of a radian.
OverClose == -5
MCJawStops == {QOpen, BlockAt - 1, BlockAt, QClose - 1, QClose}

MCConfigs ==
  Sweeps \cup DrawnSweeps \cup {RandomOf(TRUE), RandomOf(FALSE), IkOf(TRUE), IkOf(FALSE),
              XyzOf(TRUE, Sources, {"here"}, {-2}, BothMotors),
              XyzOf(TRUE, {"topic"}, MCGoals, {-2}, BothMotors),
              XyzOf(TRUE, {"topic"}, {"here"}, {-2, 4}, BothMotors),
              XyzOf(FALSE, {"topic"}, {"here"}, {-2}, AnyArray), PlanOnly, GripperOnly}

\* A plan from the bottom to the top, and one back in two legs.
Up(s) == [serial |-> s, start_q |-> QLo, end_q |-> QHi, duration |-> QHi - QLo,
          has_leg2 |-> FALSE, leg2_end_q |-> QHi, leg2_duration |-> 1]
TwoLegs(s) == [serial |-> s, start_q |-> QLo, end_q |-> QLo + 1, duration |-> 1,
               has_leg2 |-> TRUE, leg2_end_q |-> QHi, leg2_duration |-> QHi - QLo]

MCMessages == {Up(s) : s \in Serials} \cup {TwoLegs(s) : s \in Serials}
MCPositions == {QLo, QHi, QHi + 1}

MCUnsafe == {[m \in MotorIds |-> -2]}

=============================================================================
