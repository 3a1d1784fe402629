--------------------------- MODULE ArmDriversProofs ---------------------------
(***************************************************************************)
(* Proofs about the nodes beside plan_node that send commands: gripper_node *)
(* for any angles, margin and settle count, and the players of motions for *)
(* any motors, limits, parameters and answers of the checks of safety.     *)
(***************************************************************************)
EXTENDS ArmDrivers, OrderLemmas

-----------------------------------------------------------------------------
(* gripper_node *)

GripperInv == GripperTypeOK /\ SettleInv /\ WatchInv

LEMMA InvInit == GripperInit => GripperInv
<1> SUFFICES ASSUME GripperInit PROVE GripperInv
  OBVIOUS
<1>1. loaded \in BOOLEAN /\ stale \in BOOLEAN /\ block \in BOOLEAN
  BY Zenon DEF GripperInit
<1>2. settle \in 0 .. SettleTicks /\ jaw \in Int
  BY JawAssumption DEF GripperInit
<1>3. QED
  BY <1>1, <1>2 DEF GripperInit, GripperInv, GripperTypeOK, SettleInv, WatchInv

LEMMA InvStep == GripperInv /\ [GripperNext]_gripperVars => GripperInv'
<1> SUFFICES ASSUME GripperInv, [GripperNext]_gripperVars PROVE GripperInv'
  OBVIOUS
<1> USE JawAssumption DEF GripperInv, GripperTypeOK, SettleInv, WatchInv
<1>1. CASE Open \/ Close
  BY <1>1 DEF Open, Close
<1>2. CASE Settling
  BY <1>2 DEF Settling
<1>3. CASE ClosedOnAir \/ Grasped
  BY <1>3 DEF ClosedOnAir, Grasped, Settled
<1>4. CASE Dropped
  BY <1>4 DEF Dropped
<1>5. ASSUME NEW position \in JawStops, NEW torque \in BOOLEAN, OnState(position, torque)
      PROVE  GripperInv'
  <2>1. loaded' \in BOOLEAN /\ stale' \in BOOLEAN
    BY <1>5, Zenon DEF OnState
  <2>2. QED
    BY <1>5, <2>1 DEF OnState
<1>6. CASE FeedbackLost
  <2>1. stale' \in BOOLEAN
    BY <1>6, Zenon DEF FeedbackLost
  <2>2. QED
    BY <1>6, <2>1 DEF FeedbackLost
<1>7. CASE BlockMoves
  <2>1. block' \in BOOLEAN
    BY <1>7, Zenon DEF BlockMoves
  <2>2. QED
    BY <1>7, <2>1 DEF BlockMoves
<1>8. CASE UNCHANGED gripperVars
  BY <1>8 DEF gripperVars
<1>9. QED
  BY <1>1, <1>2, <1>3, <1>4, <1>5, <1>6, <1>7, <1>8 DEF GripperNext, World

LEMMA InvCorrect == GripperSpec => []GripperInv
BY InvInit, InvStep, PTL DEF GripperSpec

\* The node only ever commands its two angles, and counts no further than
\* grasp_settle_ticks.
THEOREM GripperTypeCorrect == GripperSpec => []GripperTypeOK
<1>1. GripperInv => GripperTypeOK
  BY DEF GripperInv
<1>2. QED
  BY <1>1, InvCorrect, PTL

\* While the jaw is commanded open, no verdict and no drop is reported.
THEOREM OpenIsSilent == GripperSpec => NoReportWhenOpening
<1>1. GripperInv /\ [GripperNext]_gripperVars => [report' # report => qDes = QClose]_report
  BY DEF GripperInv, WatchInv, GripperNext, World, gripperVars, Open, Close, Settling,
         ClosedOnAir, Grasped, Settled, Dropped, OnState, FeedbackLost, BlockMoves
<1>2. QED
  BY <1>1, InvCorrect, PTL DEF GripperSpec, NoReportWhenOpening

\* gripper_node implements the grasp service: every step of the node is a step
\* of the service, or one the service does not see.
THEOREM GripperIsGraspService == GripperSpec => ImplementsGraspService
<1>1. GripperInit => Grasping!GraspInit
  <2>1. QOpen # QClose
    BY JawAssumption DEF QClose
  <2>2. QED
    BY <2>1 DEF GripperInit, Grasping!GraspInit
<1>2. GripperInv /\ [GripperNext]_gripperVars => [Grasping!GraspNext]_(Grasping!graspVars)
  <2> SUFFICES ASSUME GripperInv, [GripperNext]_gripperVars
               PROVE  [Grasping!GraspNext]_(Grasping!graspVars)
    OBVIOUS
  <2>o. QOpen # QClose
    BY JawAssumption DEF QClose
  <2>1. CASE Open
    BY <2>1, <2>o DEF Open, Grasping!GraspNext, Grasping!OpenHand
  <2>2. CASE Close
    BY <2>2 DEF Close, Grasping!GraspNext, Grasping!CloseHand
  <2>3. CASE ClosedOnAir
    BY <2>3 DEF ClosedOnAir, Settled, Grasping!GraspNext, Grasping!Judge
  <2>4. CASE Grasped
    BY <2>4 DEF Grasped, Settled, Grasping!GraspNext, Grasping!Judge
  <2>5. CASE Dropped
    BY <2>5 DEF Dropped, Grasping!GraspNext, Grasping!LoseGrasp
  <2>6. CASE UNCHANGED <<grip, qDes, report>>
    BY <2>6 DEF Grasping!graspVars
  <2>7. QED
    BY <2>1, <2>2, <2>3, <2>4, <2>5, <2>6
       DEF GripperNext, World, gripperVars, Settling, OnState, FeedbackLost, BlockMoves
<1>3. QED
  BY <1>1, <1>2, InvCorrect, PTL
     DEF GripperSpec, ImplementsGraspService, Grasping!GraspSpec

-----------------------------------------------------------------------------
(* The players of motions: poses, and the lines between them *)

Pose == [MotorIds -> Int]

IsBetween(p, a, b) ==
  /\ p \in Int
  /\ a <= b => a <= p /\ p <= b
  /\ b <= a => b <= p /\ p <= a

OnLine(a, b, i, n) == a + ((b - a) * i) \div n

\* The line between two positions stays between them and ends at the second one.
LEMMA LineStaysBetween ==
  ASSUME NEW a \in Int, NEW b \in Int, NEW i \in Nat, NEW n \in Nat, i <= n, 0 < n
  PROVE  IsBetween(OnLine(a, b, i, n), a, b) /\ (i = n => OnLine(a, b, i, n) = b)
<1> DEFINE x == (b - a) * i
           d == x \div n
<1>1. x \in Int
  OBVIOUS
<1>2. d \in Int /\ n * d <= x /\ x < n * (d + 1)
  <2> HIDE DEF x
  <2> QED BY <1>1
<1>3. CASE a <= b
  <2>1. 0 <= x /\ x <= (b - a) * n
    BY <1>3
  <2>2. 0 <= d /\ d <= b - a
    <3> HIDE DEF x, d
    <3>1. 0 <= d
      BY <1>1, <1>2, <2>1
    <3>2. d <= b - a
      BY <1>1, <1>2, <2>1
    <3> QED BY <3>1, <3>2
  <2>3. i = n => d = b - a
    <3> SUFFICES ASSUME i = n PROVE d = b - a
      OBVIOUS
    <3>1. x = n * (b - a)
      OBVIOUS
    <3> HIDE DEF x, d
    <3>2. b - a <= d
      BY <1>1, <1>2, <3>1
    <3> QED BY <1>2, <2>2, <3>2
  <2> HIDE DEF d
  <2> QED BY <1>2, <1>3, <2>2, <2>3 DEF d, IsBetween, OnLine
<1>4. CASE b < a
  <2>1. x <= 0 /\ (b - a) * n <= x
    BY <1>4
  <2>2. d <= 0 /\ b - a <= d
    <3> HIDE DEF x, d
    <3>1. d <= 0
      BY <1>1, <1>2, <2>1
    <3>2. b - a <= d
      BY <1>1, <1>2, <2>1
    <3> QED BY <3>1, <3>2
  <2>3. i = n => d = b - a
    <3> SUFFICES ASSUME i = n PROVE d = b - a
      OBVIOUS
    <3>1. x = n * (b - a)
      OBVIOUS
    <3> HIDE DEF x, d
    <3>2. d <= b - a
      BY <1>1, <1>2, <3>1
    <3> QED BY <1>2, <2>2, <3>2
  <2> HIDE DEF d
  <2> QED BY <1>2, <1>4, <2>2, <2>3 DEF d, IsBetween, OnLine
<1>5. QED
  BY <1>3, <1>4 DEF IsBetween, OnLine

\* Of two positions between the ends of a line neither is on the other side of zero,
\* unless the ends are.
LEMMA SidesStay ==
  ASSUME NEW a \in Int, NEW b \in Int, NEW u \in Int, NEW v \in Int,
         IsBetween(u, a, b), IsBetween(v, a, b),
         ~SignCrossesZero(a, b)
  PROVE  ~SignCrossesZero(u, v)
BY SegmentsAssumption DEF SignCrossesZero, AbsDiff, IsBetween

\* The greatest element of a finite set of integers.
LEMMA LargestIsGreatest ==
  ASSUME NEW S \in SUBSET Int, IsFiniteSet(S), S # {}
  PROVE  LargestOf(S) \in S /\ \A y \in S : y <= LargestOf(S)
BY EndsExist DEF LargestOf

LEMMA SpreadIsGreatest ==
  ASSUME NEW from \in Pose, NEW goal \in Pose, NEW among \in SUBSET MotorIds, among # {}
  PROVE  /\ Spread(from, goal, among) \in Int
         /\ \A m \in among : AbsDiff(from[m], goal[m]) <= Spread(from, goal, among)
<1> DEFINE f == [m \in among |-> AbsDiff(from[m], goal[m])]
           S == {f[m] : m \in among}
<1>1. S \in SUBSET Int /\ S # {}
  BY DEF Pose, AbsDiff
<1>2. IsFiniteSet(S)
  <2>1. IsFiniteSet(among)
    BY SegmentsAssumption, FS_Subset
  <2> HIDE DEF f
  <2>2. QED
    BY <2>1, ImageIsFinite
<1>3. S = {AbsDiff(from[m], goal[m]) : m \in among}
  OBVIOUS
<1>4. \A m \in among : AbsDiff(from[m], goal[m]) \in S
  OBVIOUS
<1> HIDE DEF S
<1>5. QED
  BY <1>1, <1>2, <1>3, <1>4, LargestIsGreatest DEF Spread

\* Poses one after the other, none of which changes the side of a motor.
From(from, poses, i) == IF i = 1 THEN from ELSE poses[i - 1]
Keeps(from, to) == \A m \in MotorIds : ~SignCrossesZero(from[m], to[m])
IsPath(from, poses) ==
  poses \in Seq(Pose) /\ \A i \in DOMAIN poses : Keeps(From(from, poses, i), poses[i])

LEMMA KeepsIsNoCrossing ==
  ASSUME NEW from, NEW to
  PROVE  Keeps(from, to) <=> Crossing(from, to, MotorIds) = {}
BY DEF Keeps, Crossing

LEMMA BetweenFacts ==
  ASSUME NEW from \in Pose, NEW goal \in Pose, NEW n \in Nat \ {0}, NEW i \in 0 .. n
  PROVE  /\ Between(from, goal, i, n) \in Pose
         /\ i = n => Between(from, goal, i, n) = goal
         /\ \A m \in MotorIds : IsBetween(Between(from, goal, i, n)[m], from[m], goal[m])
<1> DEFINE P == Between(from, goal, i, n)
<1>1. ASSUME NEW m \in MotorIds
      PROVE  IsBetween(P[m], from[m], goal[m]) /\ (i = n => P[m] = goal[m])
  <2>1. from[m] \in Int /\ goal[m] \in Int /\ i \in Nat /\ i <= n /\ n \in Nat /\ 0 < n
    BY DEF Pose
  <2>2. P[m] = OnLine(from[m], goal[m], i, n)
    BY DEF Between, OnLine
  <2> HIDE DEF P
  <2>3. QED
    BY <2>1, <2>2, LineStaysBetween
<1>2. P = [m \in MotorIds |-> P[m]]
  BY DEF Between
<1> HIDE DEF P
<1>3. P \in Pose
  BY <1>1, <1>2 DEF Pose, IsBetween
<1>4. i = n => P = goal
  BY <1>1, <1>2 DEF Pose
<1>5. QED
  BY <1>1, <1>3, <1>4 DEF P

LEMMA LargerOfTwo ==
  ASSUME NEW x \in Int, NEW y \in Int
  PROVE  LargestOf({x, y}) \in {x, y} /\ x <= LargestOf({x, y}) /\ y <= LargestOf({x, y})
<1>1. IsFiniteSet({x})
  BY FS_Singleton
<1>2. {x, y} = {x} \cup {y}
  OBVIOUS
<1>3. IsFiniteSet({x, y})
  BY <1>1, <1>2, FS_AddElement
<1>4. QED
  BY <1>3, LargestIsGreatest

\* A step is split at even distances.
LEMMA SplitIs ==
  ASSUME NEW from \in Pose, NEW goal \in Pose,
         config.random \subseteq MotorIds, config.random # {}, MaxStep \in Nat \ {0}
  PROVE  \E n \in Nat \ {0} :
           SplitLargeStep(from, goal) = [i \in 1 .. n |-> Between(from, goal, i, n)]
<1> DEFINE step == Rounded(Spread(from, goal, config.random), MaxStep)
           n == LargestOf({1, step})
<1>1. Spread(from, goal, config.random) \in Int
  BY SpreadIsGreatest
<1>2. step \in Int
  BY <1>1 DEF Rounded
<1>3. n \in Nat \ {0}
  <2> HIDE DEF step
  <2>0. 1 \in Int
    OBVIOUS
  <2>1. n \in {1, step} /\ 1 <= n
    BY <1>2, <2>0, LargerOfTwo, Zenon
  <2>2. QED
    BY <1>2, <2>1
<1>4. QED
  BY <1>3 DEF SplitLargeStep

\* A step that keeps every side is split into steps that do, which end where it does.
LEMMA SplitIsPath ==
  ASSUME NEW from \in Pose, NEW goal \in Pose, Keeps(from, goal),
         config.random \subseteq MotorIds, config.random # {}, MaxStep \in Nat \ {0}
  PROVE  LET poses == SplitLargeStep(from, goal)
         IN IsPath(from, poses) /\ Len(poses) > 0 /\ poses[Len(poses)] = goal
<1> DEFINE poses == SplitLargeStep(from, goal)
<1>1. PICK n \in Nat \ {0} : poses = [i \in 1 .. n |-> Between(from, goal, i, n)]
  BY SplitIs
<1>2. poses = [i \in 1 .. n |-> Between(from, goal, i, n)]
  BY <1>1
<1> HIDE DEF poses
<1>3. ASSUME NEW i \in 1 .. n
      PROVE  poses[i] \in Pose /\ Keeps(From(from, poses, i), poses[i])
  <2>1. poses[i] = Between(from, goal, i, n) /\ i \in 0 .. n
    BY <1>2
  <2>2. poses[i] \in Pose
    BY <1>1, <2>1, BetweenFacts
  <2>3. ASSUME NEW m \in MotorIds
        PROVE  ~SignCrossesZero(From(from, poses, i)[m], poses[i][m])
    <3>1. from[m] \in Int /\ goal[m] \in Int /\ ~SignCrossesZero(from[m], goal[m])
      BY DEF Pose, Keeps
    <3>2. IsBetween(poses[i][m], from[m], goal[m]) /\ poses[i][m] \in Int
      BY <1>1, <2>1, <3>1, BetweenFacts DEF IsBetween
    <3>3. CASE i = 1
      <4>1. From(from, poses, i)[m] = from[m] /\ poses[i][m] \in Int
        BY <2>2, <3>3 DEF From, Pose
      <4>2. QED
        <5>1. IsBetween(from[m], from[m], goal[m])
          BY <3>1 DEF IsBetween
        <5>2. ~SignCrossesZero(from[m], poses[i][m])
          BY <3>1, <3>2, <5>1, SidesStay
        <5>3. QED
          BY <4>1, <5>2
    <3>4. CASE i # 1
      <4>1. PICK k \in 0 .. n : k = i - 1 /\ k \in 1 .. n
        BY <3>4, <1>1
      <4>2. poses[k] = Between(from, goal, k, n)
        BY <1>2, <4>1
      <4>3. IsBetween(poses[k][m], from[m], goal[m])
        BY <1>1, <4>2, BetweenFacts
      <4>4. poses[k][m] \in Int
        BY <4>3 DEF IsBetween
      <4>5. From(from, poses, i)[m] = poses[k][m]
        BY <3>4, <4>1 DEF From
      <4>6. ~SignCrossesZero(poses[k][m], poses[i][m])
        BY <3>1, <3>2, <4>3, <4>4, SidesStay
      <4>7. QED
        BY <4>5, <4>6
    <3>5. QED
      BY <3>3, <3>4
  <2>4. QED
    BY <2>2, <2>3 DEF Keeps
<1>4. poses \in Seq(Pose) /\ DOMAIN poses = 1 .. n /\ Len(poses) = n
  <2>1. \A i \in 1 .. n : poses[i] \in Pose
    BY <1>3
  <2>2. poses = [i \in 1 .. n |-> poses[i]]
    BY <1>2
  <2>3. QED
    BY <1>1, <2>1, <2>2
<1>5. poses[n] = goal
  BY <1>1, <1>2, BetweenFacts
<1>6. IsPath(from, poses)
  BY <1>3, <1>4 DEF IsPath
<1>7. QED
  BY <1>1, <1>4, <1>5, <1>6 DEF poses

\* A path that goes on where another one ends is a path with it.
LEMMA PathsJoin ==
  ASSUME NEW from, NEW one, NEW two, IsPath(from, one), IsPath(EndOf(from, one), two)
  PROVE  /\ IsPath(from, one \o two)
         /\ Len(two) > 0 => one \o two # <<>> /\ (one \o two)[Len(one \o two)] = two[Len(two)]
<1> DEFINE both == one \o two
<1>1. one \in Seq(Pose) /\ two \in Seq(Pose)
  BY DEF IsPath
<1>2. /\ both \in Seq(Pose) /\ Len(both) = Len(one) + Len(two)
      /\ \A i \in 1 .. Len(one) : both[i] = one[i]
      /\ \A i \in Len(one) + 1 .. Len(both) : both[i] = two[i - Len(one)]
  BY <1>1
<1> HIDE DEF both
<1>3. ASSUME NEW i \in DOMAIN both PROVE Keeps(From(from, both, i), both[i])
  <2>1. CASE i <= Len(one)
    <3>1. i \in 1 .. Len(one) /\ i \in DOMAIN one /\ both[i] = one[i]
      BY <1>1, <1>2, <2>1
    <3>2. i # 1 => both[i - 1] = one[i - 1]
      BY <1>1, <1>2, <3>1
    <3>3. From(from, both, i) = From(from, one, i)
      BY <3>2 DEF From
    <3>4. QED
      BY <3>1, <3>3 DEF IsPath
  <2>2. CASE i > Len(one)
    <3>1. i \in Len(one) + 1 .. Len(both) /\ i - Len(one) \in DOMAIN two
      BY <1>1, <1>2, <2>2
    <3>4. both[i] = two[i - Len(one)]
      BY <1>2, <3>1
    <3>2. From(from, both, i) = From(EndOf(from, one), two, i - Len(one))
      <4>1. CASE i = Len(one) + 1
        BY <1>1, <1>2, <4>1 DEF From, EndOf
      <4>2. CASE i > Len(one) + 1
        <5>1. i - 1 \in Len(one) + 1 .. Len(both) /\ i # 1 /\ i - Len(one) # 1
          BY <1>1, <1>2, <4>2
        <5>2. both[i - 1] = two[(i - 1) - Len(one)] /\ (i - 1) - Len(one) = (i - Len(one)) - 1
          BY <1>1, <1>2, <5>1
        <5>3. QED
          BY <5>1, <5>2 DEF From
      <4>3. QED
        BY <2>2, <4>1, <4>2, <1>1, <1>2
    <3>3. QED
      BY <3>1, <3>2, <3>4 DEF IsPath
  <2>3. QED
    BY <1>1, <1>2, <2>1, <2>2
<1>4. Len(two) > 0 => both # <<>> /\ both[Len(both)] = two[Len(two)]
  BY <1>1, <1>2
<1>5. QED
  BY <1>2, <1>3, <1>4 DEF IsPath, both

RandomIsUsable ==
  /\ MaxStep \in Nat \ {0}
  /\ config.random \subseteq MotorIds /\ config.random # {}
  /\ config.home \in Pose /\ config.range \subseteq Int
  /\ \A m \in config.commanded \ config.random : AbsDiff(config.home[m], 0) <= ZeroEps

\* The way to a goal keeps every side, if the motors that are not random do.
LEMMA ExpandIsPath ==
  ASSUME NEW from \in Pose, NEW goal \in Pose, RandomIsUsable,
         \A m \in MotorIds \ config.random : ~SignCrossesZero(from[m], goal[m])
  PROVE  LET poses == ExpandAndSplit(from, goal)
         IN IsPath(from, poses) /\ poses # <<>> /\ poses[Len(poses)] = goal
<1> DEFINE crossing == Crossing(from, goal, config.random)
           zero == Overlay(goal, [m \in crossing |-> 0])
<1>1. CASE crossing = {}
  <2>1. ThroughZero(from, goal) = <<goal>>
    BY <1>1 DEF ThroughZero
  <2>2. ExpandAndSplit(from, goal) = SplitLargeStep(from, goal) \o <<>>
    BY <2>1 DEF ExpandAndSplit
  <2>3. Keeps(from, goal)
    BY <1>1 DEF Keeps, Crossing
  <2>4. /\ IsPath(from, SplitLargeStep(from, goal)) /\ Len(SplitLargeStep(from, goal)) > 0
        /\ SplitLargeStep(from, goal)[Len(SplitLargeStep(from, goal))] = goal
    BY <2>3, SplitIsPath DEF RandomIsUsable
  <2>5. SplitLargeStep(from, goal) \o <<>> = SplitLargeStep(from, goal)
    BY <2>4 DEF IsPath
  <2>6. SplitLargeStep(from, goal) # <<>>
    BY <2>4 DEF IsPath
  <2>7. QED
    BY <2>2, <2>4, <2>5, <2>6
<1>2. CASE crossing # {}
  <2>1. zero \in Pose
    <3>1. \A m \in MotorIds : zero[m] = IF m \in crossing THEN 0 ELSE goal[m]
      BY DEF Overlay
    <3>2. zero = [m \in MotorIds |-> zero[m]]
      BY DEF Overlay
    <3> HIDE DEF zero
    <3>3. \A m \in MotorIds : zero[m] \in Int
      BY <3>1 DEF Pose
    <3>4. QED
      BY <3>2, <3>3 DEF Pose
  <2>2. ASSUME NEW m \in MotorIds
        PROVE  ~SignCrossesZero(from[m], zero[m]) /\ ~SignCrossesZero(zero[m], goal[m])
    <3>1. zero[m] = IF m \in crossing THEN 0 ELSE goal[m]
      BY DEF Overlay
    <3>2. ~SignCrossesZero(from[m], goal[m]) \/ m \in crossing
      BY DEF Crossing
    <3>3. from[m] \in Int /\ goal[m] \in Int
      BY DEF Pose
    <3> HIDE DEF crossing, zero
    <3>4. QED
      BY <3>1, <3>2, <3>3, SegmentsAssumption DEF SignCrossesZero, AbsDiff
  <2>3. ThroughZero(from, goal) = <<zero, goal>>
    BY <1>2 DEF ThroughZero
  <2> HIDE DEF crossing, zero
  <2>4. Keeps(from, zero) /\ Keeps(zero, goal)
    BY <2>2 DEF Keeps
  <2> DEFINE one == SplitLargeStep(from, zero)
             two == SplitLargeStep(zero, goal)
  <2>5. ExpandAndSplit(from, goal) = one \o two
    BY <2>3 DEF ExpandAndSplit
  <2>6. IsPath(from, one) /\ Len(one) > 0 /\ one[Len(one)] = zero
    BY <2>1, <2>4, SplitIsPath DEF RandomIsUsable
  <2>7. IsPath(zero, two) /\ Len(two) > 0 /\ two[Len(two)] = goal
    BY <2>1, <2>4, SplitIsPath DEF RandomIsUsable
  <2> HIDE DEF one, two
  <2>8. EndOf(from, one) = zero
    BY <2>6 DEF EndOf
  <2>9. /\ IsPath(from, one \o two)
        /\ one \o two # <<>> /\ (one \o two)[Len(one \o two)] = two[Len(two)]
    BY <2>6, <2>7, <2>8, PathsJoin
  <2>10. QED
    BY <2>5, <2>7, <2>9
<1>3. QED
  BY <1>1, <1>2

Sides(segs) == \A i \in DOMAIN segs : Crossing(segs[i].start, segs[i].end, MotorIds) = {}

\* The elements of a sequence of segments that keep every side.
Sound(segs) ==
  {s \in {segs[i] : i \in DOMAIN segs} : Crossing(s.start, s.end, MotorIds) = {}}

\* The segments along a path do.
LEMMA ChainKeepsSides ==
  ASSUME NEW from, NEW poses, NEW least, IsPath(from, poses)
  PROVE  ChainOf(from, poses, least) \in Seq(Sound(ChainOf(from, poses, least)))
<1>1. PICK chain : chain = ChainOf(from, poses, least)
  OBVIOUS
<1>2. poses \in Seq(Pose)
  BY DEF IsPath
<1>3. /\ DOMAIN chain = 1 .. Len(poses) /\ Len(poses) \in Nat
      /\ DOMAIN poses = 1 .. Len(poses) /\ chain = [i \in 1 .. Len(poses) |-> chain[i]]
  BY <1>1, <1>2 DEF ChainOf
<1>4. ASSUME NEW i \in 1 .. Len(poses) PROVE chain[i] \in Sound(chain)
  <2>1. chain[i] = Segment(From(from, poses, i), poses[i],
                     QuinticDuration(From(from, poses, i), poses[i], least[i]))
    BY <1>1, <1>3 DEF ChainOf, From
  <2>2. chain[i].start = From(from, poses, i) /\ chain[i].end = poses[i]
    BY <2>1 DEF Segment
  <2>3. Keeps(From(from, poses, i), poses[i])
    BY <1>3 DEF IsPath
  <2>4. QED
    BY <1>3, <2>2, <2>3, KeepsIsNoCrossing DEF Sound
<1>5. chain \in Seq(Sound(chain))
  BY <1>3, <1>4
<1>6. QED
  BY <1>1, <1>5

LEMMA SidesOfBoth ==
  ASSUME NEW one, NEW two, one \in Seq(Sound(one)), two \in Seq(Sound(two))
  PROVE  Sides(one \o two)
<1>1. one \o two \in Seq(Sound(one) \cup Sound(two))
  OBVIOUS
<1>2. \A i \in DOMAIN (one \o two) : (one \o two)[i] \in Sound(one) \cup Sound(two)
  BY <1>1, ElementOf
<1>3. QED
  BY <1>2 DEF Sides, Sound

\* The sequences over a set put together one after the other, f[i] being the first i.
Flattens(S, seqs, f) ==
  \A i \in 1 .. Len(seqs) :
    f[i] \in Seq(S) /\ f[i] = IF i = 1 THEN seqs[1] ELSE f[i - 1] \o seqs[i]

LEMMA FlattenSteps ==
  ASSUME NEW S, NEW seqs \in Seq(Seq(S)), Len(seqs) # 0
  PROVE  \E f : Flattens(S, seqs, f) /\ FlattenSeq(seqs) = f[Len(seqs)]
<1> DEFINE n == Len(seqs)
           D(f) == f = [i \in 1 .. n |-> IF i = 1 THEN seqs[i] ELSE f[i - 1] \o seqs[i]]
           f == CHOOSE f : D(f)
<1>1. n \in Nat \ {0} /\ \A i \in 1 .. n : seqs[i] \in Seq(S)
  OBVIOUS
<1>2. \E h : D(h)
  <2> DEFINE next == [kv \in (1 .. n) \X Seq(S) |-> kv[2] \o seqs[kv[1]]]
  <2>1. next \in [(1 .. n) \X Seq(S) -> Seq(S)]
    BY <1>1
  <2>2. <<>> \in Seq(S)
    OBVIOUS
  <2>3. PICK r : r \in Recursions(n, Seq(S), <<>>, next)
    <3> HIDE DEF next, n
    <3>1. Recursions(n, Seq(S), <<>>, next) # {}
      BY <1>1, <2>1, <2>2, RecursionExists
    <3>2. QED
      BY <3>1
  <2> DEFINE h == [i \in 1 .. n |-> r[i]]
  <2>4. ASSUME NEW i \in 1 .. n
        PROVE  h[i] = IF i = 1 THEN seqs[i] ELSE h[i - 1] \o seqs[i]
    <3>1. r[i] = next[<<i, r[i - 1]>>] /\ r[i - 1] \in Seq(S) /\ r[0] = <<>>
      <4> HIDE DEF next, n
      <4>1. i - 1 \in 0 .. n
        BY <1>1
      <4>2. QED
        BY <2>3, <4>1 DEF Recursions
    <3>2. r[i] = r[i - 1] \o seqs[i]
      BY <3>1
    <3>3. CASE i = 1
      <4> HIDE DEF next
      <4>1. r[i] = <<>> \o seqs[i]
        <5>1. i - 1 = 0
          BY <3>3
        <5>2. r[i - 1] = <<>>
          BY <3>1, <5>1
        <5>3. QED
          BY <3>2, <5>2
      <4>2. <<>> \o seqs[i] = seqs[i]
        BY <1>1
      <4>3. QED
        BY <3>3, <4>1, <4>2
    <3>4. CASE i # 1
      <4>1. i - 1 \in 1 .. n /\ h[i - 1] = r[i - 1]
        BY <1>1, <3>4
      <4>2. QED
        BY <3>2, <3>4, <4>1
    <3>5. QED
      BY <3>3, <3>4
  <2> HIDE DEF n
  <2>5. D(h)
    BY <2>4
  <2>6. QED
    BY <2>5
<1>3. D(f)
  BY <1>2
<1> HIDE DEF f
<1> DEFINE Bad == {i \in 1 .. n : f[i] \notin Seq(S)}
<1>4. ASSUME Bad # {} PROVE FALSE
  <2>1. PICK i \in Bad : \A j \in Bad : i <= j
    <3>1. Bad \in SUBSET Nat
      BY <1>1
    <3>2. QED
      BY <1>4, <3>1, LeastNumber
  <2>2. i # 1
    BY <1>1, <1>3, <2>1
  <2>3. i - 1 \in 1 .. n /\ i - 1 \notin Bad
    BY <1>1, <2>1, <2>2
  <2>4. f[i - 1] \in Seq(S) /\ seqs[i] \in Seq(S) /\ f[i] = f[i - 1] \o seqs[i]
    BY <1>1, <1>3, <2>1, <2>2, <2>3
  <2>5. f[i] \in Seq(S)
    <3> HIDE DEF D
    <3> QED BY <2>4
  <2>6. QED
    BY <2>1, <2>5
<1>5. \A i \in 1 .. n : f[i] \in Seq(S)
  BY <1>4
<1>6. FlattenSeq(seqs) = f[n]
  BY DEF FlattenSeq, f
<1>7. \A i \in 1 .. n : f[i] = IF i = 1 THEN seqs[1] ELSE f[i - 1] \o seqs[i]
  BY <1>1, <1>3
<1>8. Flattens(S, seqs, f)
  <2> HIDE DEF D
  <2> QED BY <1>5, <1>7 DEF Flattens
<1>9. QED
  BY <1>6, <1>8

\* A sequence of sequences over a set is flattened to a sequence over it.
LEMMA FlattenIsSeq ==
  ASSUME NEW S, NEW seqs \in Seq(Seq(S))
  PROVE  FlattenSeq(seqs) \in Seq(S)
<1>1. CASE Len(seqs) = 0
  BY <1>1 DEF FlattenSeq
<1>2. CASE Len(seqs) # 0
  <2>1. PICK f : Flattens(S, seqs, f) /\ FlattenSeq(seqs) = f[Len(seqs)]
    BY <1>2, FlattenSteps
  <2>2. Len(seqs) \in 1 .. Len(seqs)
    BY <1>2
  <2>3. QED
    BY <2>1, <2>2 DEF Flattens
<1>3. QED
  BY <1>1, <1>2

\* A step that changes no side, or one that stops at zero.
LEMMA MidpointKeepsSides ==
  ASSUME NEW from \in Pose, NEW to \in Pose
  PROVE  /\ Crossing(from, Midpoint(from, to), MotorIds) = {}
         /\ Crossing(Midpoint(from, to), to, MotorIds) = {}
         /\ Midpoint(from, to) \in Pose
<1> DEFINE M == Midpoint(from, to)
<1>1. ASSUME NEW m \in MotorIds
      PROVE  /\ ~SignCrossesZero(from[m], M[m]) /\ ~SignCrossesZero(M[m], to[m])
             /\ M[m] \in Int
  <2>1. from[m] \in Int /\ to[m] \in Int
    BY DEF Pose
  <2>2. M[m] = IF SignCrossesZero(from[m], to[m]) THEN 0 ELSE (from[m] + to[m]) \div 2
    BY DEF Midpoint, Crossing
  <2> HIDE DEF M
  <2>3. CASE SignCrossesZero(from[m], to[m])
    BY <2>1, <2>2, <2>3, SegmentsAssumption DEF SignCrossesZero, AbsDiff
  <2>4. CASE ~SignCrossesZero(from[m], to[m])
    <3>1. IsBetween(M[m], from[m], to[m])
      BY <2>1, <2>2, <2>4 DEF IsBetween
    <3>2. IsBetween(from[m], from[m], to[m]) /\ IsBetween(to[m], from[m], to[m])
      BY <2>1 DEF IsBetween
    <3>3. M[m] \in Int
      BY <3>1 DEF IsBetween
    <3>4. QED
      BY <2>1, <2>4, <3>1, <3>2, <3>3, SidesStay
  <2>5. QED
    BY <2>3, <2>4
<1>2. M = [m \in MotorIds |-> M[m]]
  BY DEF Midpoint
<1> HIDE DEF M
<1>3. M \in Pose
  BY <1>1, <1>2 DEF Pose
<1>4. QED
  BY <1>1, <1>3 DEF Crossing, M

\* A motion that is completed with waypoints keeps every side.
LEMMA CompletedKeepsSides ==
  ASSUME NEW D, NEW half, NEW raw \in Seq([start : Pose, end : Pose, duration : D])
  PROVE  Sides(InsertZeroCrossings(raw, half))
<1> DEFINE part(i) == LET s == raw[i]
                          middle == Midpoint(s.start, s.end)
                      IN IF Crossing(s.start, s.end, MotorIds) = {} THEN <<s>>
                         ELSE <<Segment(s.start, middle, half[s.duration]),
                                Segment(middle, s.end, half[s.duration])>>
           parts == [i \in DOMAIN raw |-> part(i)]
           All == [start : Pose, end : Pose, duration : D \cup {half[d] : d \in D}]
           S == {s \in All : Crossing(s.start, s.end, MotorIds) = {}}
<1>1. ASSUME NEW i \in DOMAIN raw PROVE part(i) \in Seq(S)
  <2>1. raw[i] \in [start : Pose, end : Pose, duration : D]
    BY ElementOf
  <2>2. PICK s : s = raw[i]
    OBVIOUS
  <2>3. s.start \in Pose /\ s.end \in Pose /\ s.duration \in D
    BY <2>1, <2>2
  <2>4. PICK middle : middle = Midpoint(s.start, s.end)
    OBVIOUS
  <2>5. /\ Crossing(s.start, middle, MotorIds) = {} /\ Crossing(middle, s.end, MotorIds) = {}
        /\ middle \in Pose
    BY <2>3, <2>4, MidpointKeepsSides
  <2>6. Crossing(s.start, s.end, MotorIds) = {} => s \in S
    BY <2>1, <2>2
  <2>7. /\ Segment(s.start, middle, half[s.duration]) \in S
        /\ Segment(middle, s.end, half[s.duration]) \in S
    BY <2>3, <2>5 DEF Segment
  <2>8. part(i) = IF Crossing(s.start, s.end, MotorIds) = {} THEN <<s>>
                  ELSE <<Segment(s.start, middle, half[s.duration]),
                         Segment(middle, s.end, half[s.duration])>>
    BY <2>2, <2>4
  <2> HIDE DEF part, S
  <2>9. QED
    BY <2>6, <2>7, <2>8
<1>2. parts \in Seq(Seq(S))
  <2> HIDE DEF part, S
  <2>1. DOMAIN raw = 1 .. Len(raw) /\ Len(raw) \in Nat
    OBVIOUS
  <2>2. QED
    BY <1>1, <2>1
<1>3. InsertZeroCrossings(raw, half) = FlattenSeq(parts)
  BY DEF InsertZeroCrossings
<1>4. \A s \in S : Crossing(s.start, s.end, MotorIds) = {}
  OBVIOUS
<1> HIDE DEF parts, S
<1>5. FlattenSeq(parts) \in Seq(S)
  BY <1>2, FlattenIsSeq
<1>6. QED
  BY <1>3, <1>4, <1>5, ElementOf DEF Sides

LEMMA TimedKeepsSides ==
  ASSUME NEW segs, Sides(segs)
  PROVE  Sides(Timed(segs))
<1>1. ASSUME NEW i \in DOMAIN Timed(segs)
      PROVE  Crossing(Timed(segs)[i].start, Timed(segs)[i].end, MotorIds) = {}
  <2>1. i \in DOMAIN segs
    BY DEF Timed
  <2>2. Timed(segs)[i].start = segs[i].start /\ Timed(segs)[i].end = segs[i].end
    BY <2>1 DEF Timed, Segment
  <2>3. QED
    BY <2>1, <2>2 DEF Sides
<1>2. QED
  BY <1>1 DEF Sides

LEMMA InvMotionInit == DriversInit => MotionInv
<1> SUFFICES ASSUME DriversInit PROVE MotionInv
  OBVIOUS
<1>1. /\ config \in Configs /\ segments = <<>>
      /\ samples = [m \in MotorIds |-> [q |-> 0, age |-> MaxStateAge + 1]]
  BY DEF DriversInit, MotionsInit, MotionStart
<1>2. samples \in [MotorIds -> [q : Int, age : Int]]
  BY <1>1, MotionAssumption
<1>3. QED
  BY <1>1, <1>2 DEF MotionInv, FirstPassThroughZero, SignsPassThroughZero

\* A step that leaves the motion alone, or begins one that keeps every side.
LEMMA MotionGoesOn ==
  ASSUME MotionInv, UNCHANGED <<config, segments>>, repeated => repeated',
         samples' \in [MotorIds -> [q : Int, age : Int]]
  PROVE  MotionInv'
BY DEF MotionInv, FirstPassThroughZero, SignsPassThroughZero

LEMMA MotionBegins ==
  ASSUME MotionInv, NEW segs, NEW who, BeginWith(segs, who), Sides(segs)
  PROVE  MotionInv'
BY DEF MotionInv, FirstPassThroughZero, SignsPassThroughZero, BeginWith, Publish, Sides

LEMMA SamplesAreKept ==
  ASSUME MotionInv
  PROVE  /\ \A pose, who : Publish(pose, who) => UNCHANGED <<config, samples>>
         /\ UNCHANGED samples => samples' \in [MotorIds -> [q : Int, age : Int]]
BY DEF MotionInv, Publish

LEMMA HearingStep ==
  ASSUME MotionInv, NEW plausible, OnMotorStates(plausible), config.reported \subseteq Int
  PROVE  MotionInv'
<1>1. PICK heard \in config.arrays :
       \E values \in [heard -> IF phase = "waiting" \/ config.node = "xyz" THEN config.reported
                               ELSE {0}] :
         samples' = [m \in MotorIds |->
           IF m \in heard /\ values[m] \in plausible THEN [q |-> values[m], age |-> 0]
           ELSE samples[m]]
  BY DEF OnMotorStates
<1>2. PICK values \in [heard -> Int] :
         samples' = [m \in MotorIds |->
           IF m \in heard /\ values[m] \in plausible THEN [q |-> values[m], age |-> 0]
           ELSE samples[m]]
  BY <1>1
<1>3. samples' \in [MotorIds -> [q : Int, age : Int]]
  BY <1>2 DEF MotionInv
<1>4. UNCHANGED <<config, segments, repeated>>
  BY DEF OnMotorStates
<1>5. QED
  BY <1>3, <1>4, MotionGoesOn

LEMMA TimeStep ==
  ASSUME MotionInv, NEW wrapped, TimePasses(wrapped)
  PROVE  MotionInv'
<1>1. samples' \in [MotorIds -> [q : Int, age : Int]]
  BY MotionAssumption DEF MotionInv, TimePasses
<1>2. UNCHANGED <<config, segments, repeated>>
  BY DEF TimePasses
<1>3. QED
  BY <1>1, <1>2, MotionGoesOn

LEMMA DeathStep == ASSUME MotionInv, Die PROVE MotionInv'
<1>1. UNCHANGED <<config, segments, repeated, samples>>
  BY DEF Die
<1>2. QED
  BY <1>1, SamplesAreKept, MotionGoesOn

LEMMA PlayStep == ASSUME MotionInv, NEW who, Play(who) PROVE MotionInv'
<1>1. UNCHANGED <<config, segments, repeated, samples>>
  BY DEF Play, Publish
<1>2. QED
  BY <1>1, SamplesAreKept, MotionGoesOn

LEMMA RestStep == ASSUME MotionInv, NEW pose, NEW who, Rest(pose, who) PROVE MotionInv'
<1>1. UNCHANGED <<config, segments, repeated, samples>>
  BY DEF Rest, Publish
<1>2. QED
  BY <1>1, SamplesAreKept, MotionGoesOn

\* joint_sweep_node looks at every segment before it begins.
LEMMA SweepStep ==
  ASSUME MotionInv, SweepNext
  PROVE  MotionInv'
<1>1. config.reported \subseteq Int
  BY ConfigsAssumption DEF MotionInv, SweepNext
<1>2. CASE SweepBegins
  <2>1. PICK segs : \/ Die
                    \/ /\ SweepSegmentsValid(segs) /\ UNCHANGED repeated
                       /\ \/ BeginWith(segs, Connected)
                          \/ segs = <<>> /\ UNCHANGED <<config, samples, segments>>
    BY <1>2 DEF SweepBegins, Publish
  <2>2. CASE BeginWith(segs, Connected) /\ SweepSegmentsValid(segs)
    <3>1. Sides(segs)
      BY <2>2 DEF Sides, SweepSegmentsValid
    <3>2. QED
      BY <2>2, <3>1, MotionBegins
  <2>3. CASE UNCHANGED <<config, samples, segments, repeated>>
    BY <2>3, SamplesAreKept, MotionGoesOn
  <2>4. QED
    BY <2>1, <2>2, <2>3, DeathStep
<1>3. CASE SweepRepeats
  <2>1. Die \/ (repeated' = TRUE /\ UNCHANGED <<config, samples>>)
    BY <1>3 DEF SweepRepeats, BeginWith, Publish
  <2>2. QED
    BY <2>1, DeathStep DEF MotionInv, FirstPassThroughZero
<1>4. CASE SweepStartsSine \/ SineFollows
  <2>1. UNCHANGED <<config, samples, segments, repeated>>
    BY <1>4 DEF SweepStartsSine, SineFollows, Publish
  <2>2. QED
    BY <2>1, SamplesAreKept, MotionGoesOn
<1>5. CASE SweepFollows
  BY <1>5, PlayStep DEF SweepFollows
<1>6. CASE SweepHolds
  <2>1. \E pose : Rest(pose, Connected)
    BY <1>6 DEF SweepHolds
  <2>2. QED
    BY <2>1, RestStep
<1>7. CASE OnMotorStates(SweepPlausible)
  BY <1>1, <1>7, HearingStep
<1>8. CASE SweepTick
  BY <1>8, TimeStep DEF SweepTick
<1>9. QED
  BY <1>2, <1>3, <1>4, <1>5, <1>6, <1>7, <1>8 DEF SweepNext, SweepTimer

\* An accepted waypoint of random_motion_gc_node, and its home, leave a motor that is
\* not random near zero or where it is.
LEMMA StartIsPose ==
  ASSUME MotionInv, NEW among
  PROVE  Measured \in Pose /\ Overlay(Zero, [m \in among |-> Measured[m]]) \in Pose
BY DEF MotionInv, Measured, Pose, Overlay, Zero

LEMMA GoalsOfRandom ==
  ASSUME MotionInv, RandomIsUsable, NEW from \in Pose,
         \A m \in MotorIds \ config.random :
           from[m] = config.home[m] \/ m \in config.commanded
  PROVE  /\ \A m \in MotorIds \ config.random : ~SignCrossesZero(from[m], config.home[m])
         /\ \A goal \in Candidates(from) :
              /\ goal \in Pose
              /\ \A m \in MotorIds \ config.random :
                   goal[m] = config.home[m] /\ ~SignCrossesZero(from[m], goal[m])
<1>1. ASSUME NEW m \in MotorIds \ config.random
      PROVE  ~SignCrossesZero(from[m], config.home[m])
  <2>1. from[m] \in Int /\ config.home[m] \in Int
    BY DEF Pose, RandomIsUsable
  <2>2. from[m] = config.home[m] \/ AbsDiff(config.home[m], 0) <= ZeroEps
    BY DEF RandomIsUsable
  <2>3. QED
    BY <2>1, <2>2, SegmentsAssumption DEF SignCrossesZero, AbsDiff
<1>2. ASSUME NEW goal \in Candidates(from)
      PROVE  /\ goal \in Pose
             /\ \A m \in MotorIds \ config.random : goal[m] = config.home[m]
  <2>1. PICK d \in [config.random -> config.range] : goal = Overlay(config.home, d)
    BY DEF Candidates
  <2>2. QED
    BY <2>1 DEF RandomIsUsable, Overlay, Pose
<1>3. QED
  BY <1>1, <1>2

LEMMA RandomStep ==
  ASSUME MotionInv, RandomNext
  PROVE  MotionInv'
<1>1. config.reported \subseteq Int /\ RandomIsUsable
  BY ConfigsAssumption, RandomAssumption DEF MotionInv, RandomNext, RandomIsUsable, Pose
<1>2. CASE RandomBegins
  <2> DEFINE Start == RandomStart
             Home == HomePoses(Start)
             First == EndOf(Start, Home)
  <2>1. Start \in Pose /\ \A m \in MotorIds \ config.random :
                             Start[m] = config.home[m] \/ m \in config.commanded
    BY <1>1 DEF RandomStart, Overlay, RandomIsUsable, Pose, MotionInv, Measured
  <2>2. /\ IsPath(Start, Home) /\ First \in Pose
        /\ \A m \in MotorIds \ config.random :
             First[m] = config.home[m] \/ m \in config.commanded
    <3>1. CASE Home = <<>>
      <4>1. IsPath(Start, Home) /\ First = Start
        BY <3>1 DEF IsPath, EndOf
      <4>2. QED
        BY <2>1, <4>1
    <3>2. CASE Home # <<>>
      <4>1. Home = ExpandAndSplit(Start, config.home)
        BY <3>2 DEF HomePoses
      <4>2. config.home \in Pose
        BY <1>1 DEF RandomIsUsable
      <4>3. \A m \in MotorIds \ config.random : ~SignCrossesZero(Start[m], config.home[m])
        <5> HIDE DEF Start
        <5> QED BY <1>1, <2>1, GoalsOfRandom
      <4> HIDE DEF Start, Home
      <4>4. IsPath(Start, Home) /\ Home[Len(Home)] = config.home
        BY <1>1, <2>1, <4>1, <4>2, <4>3, ExpandIsPath
      <4>5. First = config.home
        BY <3>2, <4>4 DEF EndOf
      <4>6. QED
        BY <4>2, <4>4, <4>5
    <3>3. QED
      BY <3>1, <3>2
  <2> HIDE DEF Start, Home, First
  <2>3. ASSUME NEW from \in Pose, NEW path \in RandomPaths(from),
               \A m \in MotorIds \ config.random :
                 from[m] = config.home[m] \/ m \in config.commanded
        PROVE  /\ IsPath(from, path) /\ path # <<>> /\ EndOf(from, path) \in Pose
               /\ \A m \in MotorIds \ config.random :
                    EndOf(from, path)[m] = config.home[m] \/ m \in config.commanded
    <3>1. PICK goal \in Candidates(from) : path = ExpandAndSplit(from, goal)
      BY <2>3 DEF RandomPaths
    <3>2. /\ goal \in Pose
          /\ \A m \in MotorIds \ config.random :
               goal[m] = config.home[m] /\ ~SignCrossesZero(from[m], goal[m])
      BY <1>1, <2>3, GoalsOfRandom
    <3>3. IsPath(from, path) /\ path # <<>> /\ path[Len(path)] = goal
      BY <1>1, <3>1, <3>2, ExpandIsPath
    <3>4. EndOf(from, path) = goal
      BY <3>3 DEF EndOf
    <3>5. QED
      BY <3>2, <3>3, <3>4
  <2>4. \/ Die
        \/ /\ UNCHANGED repeated
           /\ \E one \in RandomPaths(First) : \E two \in RandomPaths(EndOf(First, one)) :
                \E least1, least2 :
                  BeginWith(ChainOf(Start, Home, least1) \o ChainOf(First, one \o two, least2),
                            config.commanded)
    BY <1>2 DEF RandomBegins, Start, Home, First
  <2>5. CASE Die
    BY <2>5, DeathStep
  <2>6. ASSUME NEW one \in RandomPaths(First), NEW two \in RandomPaths(EndOf(First, one)),
               NEW least1, NEW least2,
               BeginWith(ChainOf(Start, Home, least1) \o ChainOf(First, one \o two, least2),
                         config.commanded)
        PROVE  MotionInv'
    <3>1. IsPath(First, one) /\ IsPath(EndOf(First, one), two)
      BY <2>2, <2>3
    <3>2. IsPath(First, one \o two)
      BY <3>1, PathsJoin
    <3>3. Sides(ChainOf(Start, Home, least1) \o ChainOf(First, one \o two, least2))
      BY <2>2, <3>2, ChainKeepsSides, SidesOfBoth
    <3>4. QED
      BY <2>6, <3>3, MotionBegins
  <2>7. QED
    BY <2>4, <2>5, <2>6
<1>3. CASE RandomFollows
  <2>1. UNCHANGED <<config, samples, segments>> /\ (repeated => repeated')
    BY <1>3 DEF RandomFollows, RandomSends, Publish
  <2>2. QED
    BY <2>1, SamplesAreKept, MotionGoesOn
<1>4. CASE RandomHolds
  BY <1>4, RestStep DEF RandomHolds
<1>5. CASE OnMotorStates(Int)
  BY <1>1, <1>5, HearingStep
<1>6. CASE RandomTick
  BY <1>6, TimeStep DEF RandomTick
<1>7. QED
  BY <1>2, <1>3, <1>4, <1>5, <1>6 DEF RandomNext, RandomTimer

LEMMA IkStep ==
  ASSUME MotionInv, IkNext
  PROVE  MotionInv'
<1>1. config.reported \subseteq Int /\ config.center \in Pose /\ config.range \subseteq Int
  BY ConfigsAssumption DEF MotionInv, IkNext, Pose
<1>2. CASE IkBegins
  <2> DEFINE Begin == IF config.centerFirst THEN config.center
                     ELSE IF config.zeroStart THEN Zero ELSE Measured
             Legs == [start : Pose, end : Pose, duration : {IkDuration}]
  <2>1. Measured \in Pose /\ Zero \in Pose /\ Begin \in Pose
    BY <1>1 DEF MotionInv, Measured, Pose, Zero
  <2>2. ASSUME NEW from \in Pose, NEW to \in Pose PROVE Leg(from, to) \in Legs
    BY DEF Leg, Segment
  <2>3. ASSUME NEW from \in Pose, NEW one \in IkCandidates(from) PROVE one \in Pose
    <3>1. PICK d \in [config.controlled -> config.range] : one = Overlay(from, d)
      BY DEF IkCandidates
    <3>2. QED
      BY <1>1, <3>1 DEF Overlay, Pose
  <2>4. LeadIn \in Seq(Legs)
    <3> HIDE DEF Legs
    <3>1. Leg(Measured, Zero) \in Legs /\ Leg(Measured, config.center) \in Legs
          /\ Leg(Zero, config.center) \in Legs
      BY <1>1, <2>1, <2>2
    <3>2. QED
      BY <3>1 DEF LeadIn
  <2>5. \/ Die
        \/ /\ UNCHANGED repeated
           /\ \E one \in IkCandidates(Begin) : \E two \in IkCandidates(one) :
                BeginWith(RuntimeSegments(LeadIn \o <<Leg(Begin, one), Leg(one, two)>>),
                          Connected)
    BY <1>2 DEF IkBegins
  <2> HIDE DEF Begin, Legs
  <2>6. ASSUME NEW one \in IkCandidates(Begin), NEW two \in IkCandidates(one),
               BeginWith(RuntimeSegments(LeadIn \o <<Leg(Begin, one), Leg(one, two)>>),
                         Connected)
        PROVE  MotionInv'
    <3>1. one \in Pose /\ two \in Pose
      BY <2>1, <2>3
    <3>2. LeadIn \o <<Leg(Begin, one), Leg(one, two)>> \in Seq(Legs)
      BY <2>1, <2>2, <2>4, <3>1
    <3>3. Sides(RuntimeSegments(LeadIn \o <<Leg(Begin, one), Leg(one, two)>>))
      BY <3>2, CompletedKeepsSides, TimedKeepsSides DEF RuntimeSegments, Legs
    <3>4. QED
      BY <2>6, <3>3, MotionBegins
  <2>7. QED
    BY <2>5, <2>6, DeathStep
<1>3. CASE IkRepeats
  <2>1. UNCHANGED <<config, samples, segments>> /\ repeated' = TRUE
    BY <1>3 DEF IkRepeats, Publish
  <2>2. QED
    BY <2>1, SamplesAreKept, MotionGoesOn
<1>4. CASE IkFollows
  BY <1>4, PlayStep DEF IkFollows
<1>5. CASE IkHolds
  BY <1>5, RestStep DEF IkHolds
<1>6. CASE OnMotorStates(Int)
  BY <1>1, <1>6, HearingStep
<1>7. CASE IkTick
  BY <1>7, TimeStep DEF IkTick
<1>8. QED
  BY <1>2, <1>3, <1>4, <1>5, <1>6, <1>7 DEF IkNext, IkTimer

\* The goals for the end effector are reached directly, and nothing is said of them.
LEMMA XyzStep ==
  ASSUME MotionInv, XyzNext
  PROVE  MotionInv'
<1>1. config.reported \subseteq Int /\ config.motion = "goals"
  BY ConfigsAssumption DEF MotionInv, XyzNext
<1>2. CASE OnMotorStates(Int)
  BY <1>1, <1>2, HearingStep
<1>3. CASE XyzTick
  BY <1>3, TimeStep DEF XyzTick
<1>4. CASE UNCHANGED <<config, samples>>
  BY <1>1, <1>4 DEF MotionInv, FirstPassThroughZero
<1>5. XyzTimer => UNCHANGED <<config, samples>>
  BY DEF XyzTimer, XyzPublishes, Publish
<1>6. \A s : NewGoal(s) \/ SourceGoesOn(s) => UNCHANGED <<config, samples>>
  BY DEF NewGoal, SourceGoesOn, Compare, Request, Drain, Put, Asks, motionVars
<1>7. QED
  BY <1>2, <1>3, <1>4, <1>5, <1>6 DEF XyzNext

LEMMA MotionStepKeeps == MotionInv /\ [DriversNext]_driverVars => MotionInv'
<1> SUFFICES ASSUME MotionInv, [DriversNext]_driverVars PROVE MotionInv'
  OBVIOUS
<1>1. CASE UNCHANGED motionVars
  BY <1>1, SamplesAreKept, MotionGoesOn DEF motionVars
<1>2. CASE MotionsNext
  BY <1>2, SweepStep, RandomStep, IkStep, XyzStep DEF MotionsNext
<1>3. MotionsNext \/ UNCHANGED motionVars
  BY DEF DriversNext, PlanDoes, GripperDoes, PlayerDoes, driverVars
<1>4. QED
  BY <1>1, <1>2, <1>3

\* No motion that joint_sweep_node, random_motion_gc_node or dataset_ik_motion_node
\* begins takes a motor from one side of zero to the other without a stop at zero,
\* until it repeats: for any motors, limits, poses that are unsafe, and parameters.
THEOREM MotionsStopAtZero == DriversSpec => []FirstPassThroughZero
<1>1. MotionInv => FirstPassThroughZero
  BY DEF MotionInv
<1>2. QED
  BY InvMotionInit, MotionStepKeeps, <1>1, PTL DEF DriversSpec

-----------------------------------------------------------------------------
(* Where a motion is, and how fast *)

\* One tick further, a line that is slow enough is no further than MaxSpeed.
LEMMA LineIsSlow ==
  ASSUME NEW a \in Int, NEW b \in Int, NEW i \in Nat, NEW n \in Nat \ {0},
         NEW v \in Nat, AbsDiff(a, b) <= v * n
  PROVE  AbsDiff(OnLine(a, b, i + 1, n), OnLine(a, b, i, n)) <= v
<1> DEFINE D == b - a
           x == D * i
           y == D * (i + 1)
           d == x \div n
           e == y \div n
<1>1. x \in Int /\ y \in Int /\ y = x + D /\ D \in Int
  OBVIOUS
<1>2. D <= v * n /\ -(v * n) <= D
  BY DEF AbsDiff
<1> HIDE DEF D, x, y
<1>3. d \in Int /\ n * d <= x /\ x < n * (d + 1)
  BY <1>1
<1>4. e \in Int /\ n * e <= y /\ y < n * (e + 1)
  BY <1>1
<1> HIDE DEF d, e
<1>5. e - d <= v
  <2>1. n * e < n * d + n + v * n
    BY <1>1, <1>2, <1>3, <1>4
  <2>2. n * e < n * (d + 1 + v)
    BY <2>1, <1>3, <1>4
  <2>3. e < d + 1 + v
    BY <2>2, <1>3, <1>4
  <2>4. QED
    BY <2>3, <1>3, <1>4
<1>6. d - e <= v
  <2>1. n * d < n * e + n + v * n
    BY <1>1, <1>2, <1>3, <1>4
  <2>2. n * d < n * (e + 1 + v)
    BY <2>1, <1>3, <1>4
  <2>3. d < e + 1 + v
    BY <2>2, <1>3, <1>4
  <2>4. QED
    BY <2>3, <1>3, <1>4
<1>7. OnLine(a, b, i, n) = a + d /\ OnLine(a, b, i + 1, n) = a + e
  BY DEF OnLine, d, e, x, y, D
<1>8. QED
  BY <1>3, <1>4, <1>5, <1>6, <1>7 DEF AbsDiff

\* Poses at most r from zero, and segments between them.
Poses(r) == [MotorIds -> -r .. r]

Legs(r) == [start : Poses(r), end : Poses(r), duration : Nat \ {0}]

\* The times at which segments begin.
Clock(segs, b) ==
  /\ b \in [1 .. Len(segs) + 1 -> Nat]
  /\ b[1] = 0
  /\ \A i \in 1 .. Len(segs) : b[i + 1] = b[i] + segs[i].duration

\* Begins, defined by recursion over the segments, is such a clock.
LEMMA BeginsIsClock ==
  ASSUME NEW r \in Nat, NEW segs \in Seq(Legs(r))
  PROVE  Clock(segs, Begins(segs))
<1> DEFINE n == Len(segs)
           D(f) == f = [k \in 1 .. n + 1 |-> IF k = 1 THEN 0 ELSE f[k - 1] + segs[k - 1].duration]
           b == CHOOSE f : D(f)
<1>1. n \in Nat /\ \A i \in 1 .. n : segs[i].duration \in Nat
  <2>1. ASSUME NEW i \in 1 .. n PROVE segs[i].duration \in Nat
    <3>1. segs[i] \in Legs(r)
      OBVIOUS
    <3>2. QED
      BY <3>1 DEF Legs
  <2>2. QED
    BY <2>1
<1>2. \E h : D(h)
  <2> DEFINE next == [kv \in (1 .. n) \X Nat |-> kv[2] + segs[kv[1]].duration]
  <2>1. next \in [(1 .. n) \X Nat -> Nat]
    <3> HIDE DEF n
    <3> QED BY <1>1
  <2>2. PICK f : f \in Recursions(n, Nat, 0, next)
    <3> HIDE DEF next, n
    <3>1. Recursions(n, Nat, 0, next) # {}
      BY <1>1, <2>1, RecursionExists
    <3>2. QED
      BY <3>1
  <2> DEFINE h == [k \in 1 .. n + 1 |-> f[k - 1]]
  <2>3. ASSUME NEW k \in 1 .. n + 1
        PROVE  h[k] = IF k = 1 THEN 0 ELSE h[k - 1] + segs[k - 1].duration
    <3>1. CASE k = 1
      <4>1. k - 1 = 0 /\ f[0] = 0
        <5> HIDE DEF next, n
        <5> QED BY <3>1, <2>2 DEF Recursions
      <4>2. QED
        BY <3>1, <4>1
    <3>2. CASE k # 1
      <4>1. k - 1 \in 1 .. n /\ k - 1 \in 1 .. n + 1
        BY <1>1, <3>2
      <4>2. f[k - 1] = next[<<k - 1, f[k - 1 - 1]>>] /\ f[k - 1 - 1] \in Nat
        <5> HIDE DEF next, n
        <5>1. k - 1 - 1 \in 0 .. n
          BY <1>1, <4>1
        <5>2. QED
          BY <2>2, <4>1, <5>1 DEF Recursions
      <4>3. f[k - 1] = f[k - 1 - 1] + segs[k - 1].duration
        <5>1. <<k - 1, f[k - 1 - 1]>> \in (1 .. n) \X Nat
          BY <4>1, <4>2
        <5>2. QED
          BY <4>2, <5>1
      <4>4. h[k] = f[k - 1] /\ h[k - 1] = f[k - 1 - 1]
        BY <4>1
      <4>5. QED
        BY <3>2, <4>3, <4>4
    <3>3. QED
      BY <3>1, <3>2
  <2> HIDE DEF n
  <2>4. D(h)
    BY <2>3
  <2>5. QED
    BY <2>4
<1>2a. D(b)
  BY <1>2
<1>3. Begins(segs) = b
  BY DEF Begins, b
<1> HIDE DEF b
<1>4. b[1] = 0 /\ \A i \in 1 .. n : b[i + 1] = b[i] + segs[i].duration
  BY <1>1, <1>2a
<1> DEFINE Good == {k \in 0 .. n : b[k + 1] \in Nat}
<1>5. \A k \in 0 .. n : k \in Good
  <2>1. 0 \in Good
    BY <1>1, <1>4
  <2>2. ASSUME NEW k \in 1 .. n, k - 1 \in Good PROVE k \in Good
    <3>1. b[k] \in Nat
      BY <1>1, <2>2
    <3>2. b[k + 1] = b[k] + segs[k].duration
      BY <1>4
    <3>3. QED
      BY <1>1, <3>1, <3>2
  <2>3. Climbs(Good, n)
    <3> HIDE DEF Good
    <3> QED BY <2>1, <2>2 DEF Climbs
  <2> HIDE DEF Good, n
  <2>4. QED
    BY <1>1, <2>3, CountUp
<1>6. \A k \in 1 .. n + 1 : b[k] \in Nat
  <2>1. ASSUME NEW k \in 1 .. n + 1 PROVE b[k] \in Nat
    <3>1. PICK j \in 0 .. n : k = j + 1
      BY <1>1
    <3>2. QED
      BY <1>5, <3>1
  <2>2. QED
    BY <2>1
<1>7. b \in [1 .. n + 1 -> Nat]
  <2>1. DOMAIN b = 1 .. n + 1 /\ b = [k \in 1 .. n + 1 |-> b[k]]
    BY <1>2a
  <2> HIDE DEF D, n
  <2>2. QED
    BY <1>6, <2>1
<1>8. QED
  BY <1>3, <1>4, <1>7 DEF Clock

\* A segment begins later than the ones before it.
LEMMA ClockRises ==
  ASSUME NEW r \in Nat, NEW segs \in Seq(Legs(r)), NEW b, Clock(segs, b),
         NEW j \in 1 .. Len(segs) + 1, NEW k \in 1 .. Len(segs) + 1, j < k
  PROVE  b[j] < b[k]
<1> DEFINE n == Len(segs)
           Good == {d \in 0 .. n - j : b[j] < b[j + d + 1]}
<1>1. n \in Nat /\ b \in [1 .. n + 1 -> Nat]
  BY DEF Clock
<1>2. ASSUME NEW i \in 1 .. n PROVE b[i] < b[i + 1]
  <2>1. segs[i] \in Legs(r)
    OBVIOUS
  <2>2. segs[i].duration \in Nat \ {0}
    BY <2>1 DEF Legs
  <2>3. b[i + 1] = b[i] + segs[i].duration /\ b[i] \in Nat
    BY <1>1 DEF Clock
  <2>4. QED
    BY <2>2, <2>3
<1> HIDE DEF n
<1>3. n - j \in Nat /\ k - j - 1 \in 0 .. n - j
  BY <1>1 DEF n
<1>4. 0 \in Good
  BY <1>1, <1>2, <1>3
<1>5. ASSUME NEW d \in 1 .. n - j, d - 1 \in Good PROVE d \in Good
  <2>1. b[j] < b[j + (d - 1) + 1]
    BY <1>5
  <2>2. j + (d - 1) + 1 = j + d /\ j + d \in 1 .. n
    BY <1>1, <1>3
  <2>3. b[j + d] < b[j + d + 1]
    BY <1>2, <2>2
  <2>4. b[j] \in Nat /\ b[j + d] \in Nat /\ b[j + d + 1] \in Nat
    <3>1. j \in 1 .. n + 1 /\ j + d \in 1 .. n + 1 /\ j + d + 1 \in 1 .. n + 1
      BY <1>1, <2>2 DEF n
    <3>2. QED
      BY <1>1, <3>1
  <2>5. QED
    BY <2>1, <2>2, <2>3, <2>4
<1>6. Climbs(Good, n - j)
  <2> HIDE DEF Good
  <2> QED BY <1>4, <1>5 DEF Climbs
<1>7. k - j - 1 \in Good
  <2> HIDE DEF Good
  <2> QED BY <1>3, <1>6, CountUp
<1>8. b[j] < b[j + (k - j - 1) + 1]
  BY <1>7
<1>9. j + (k - j - 1) + 1 = k
  BY <1>1
<1>10. QED
  BY <1>8, <1>9

\* Segment j is active when t has passed since segment i began.
IsActive(segs, i, t, j) ==
  /\ j \in i .. Len(segs) + 1
  /\ j <= Len(segs) => t <= Offset(segs, i, j + 1)
  /\ j > i => t > Offset(segs, i, j)

\* ActiveAt finds the one segment that is active.
LEMMA ActiveIs ==
  ASSUME NEW r \in Nat, NEW segs \in Seq(Legs(r)), NEW i \in 1 .. Len(segs), NEW t \in Nat
  PROVE  /\ IsActive(segs, i, t, ActiveAt(segs, i, t))
         /\ \A j : IsActive(segs, i, t, j) => ActiveAt(segs, i, t) = j
<1> DEFINE n == Len(segs)
<1>1. PICK b : b = Begins(segs) /\ Clock(segs, b)
  BY BeginsIsClock
<1>2. n \in Nat /\ b \in [1 .. n + 1 -> Nat] /\ i \in 1 .. n
  BY <1>1 DEF Clock
<1>3. \A j \in 1 .. n + 1 : Offset(segs, i, j) = b[j] - b[i] /\ b[j] \in Nat
  BY <1>1, <1>2 DEF Offset
<1>4. ASSUME NEW j, NEW k, IsActive(segs, i, t, j), IsActive(segs, i, t, k), j < k PROVE FALSE
  <2>1. j \in i .. n + 1 /\ k \in i .. n + 1 /\ j + 1 \in 1 .. n + 1 /\ k \in 1 .. n + 1
    BY <1>2, <1>4 DEF IsActive
  <2>2. t <= Offset(segs, i, j + 1) /\ t > Offset(segs, i, k)
    BY <1>2, <1>4, <2>1 DEF IsActive
  <2>3. b[j + 1] <= b[k]
    <3>1. CASE j + 1 = k
      <4>1. b[k] \in Nat
        BY <1>3, <2>1
      <4>2. QED
        BY <3>1, <4>1
    <3>2. CASE j + 1 < k
      <4>1. b[j + 1] < b[k]
        BY <1>1, <2>1, <3>2, ClockRises
      <4>2. QED
        BY <1>3, <2>1, <4>1
    <3>3. QED
      BY <1>2, <1>4, <2>1, <3>1, <3>2
  <2>4. /\ Offset(segs, i, j + 1) = b[j + 1] - b[i] /\ Offset(segs, i, k) = b[k] - b[i]
        /\ b[j + 1] \in Nat /\ b[k] \in Nat /\ b[i] \in Nat
    <3>1. i \in 1 .. n + 1
      BY <1>2
    <3>2. QED
      BY <1>3, <2>1, <3>1
  <2>5. QED
    BY <2>2, <2>3, <2>4
<1>5. ASSUME NEW j, NEW k, IsActive(segs, i, t, j), IsActive(segs, i, t, k) PROVE j = k
  <2>1. j \in Int /\ k \in Int
    BY <1>2, <1>5 DEF IsActive
  <2>2. ~(j < k) /\ ~(k < j)
    BY <1>4, <1>5
  <2>3. QED
    BY <2>1, <2>2
<1> DEFINE Over == {j \in i .. n + 1 : j <= n => t <= Offset(segs, i, j + 1)}
<1>6. PICK j \in Over : \A k \in Over : j <= k
  <2>1. Over \in SUBSET Nat /\ n + 1 \in Over
    BY <1>2
  <2> HIDE DEF Over
  <2>2. QED
    BY <2>1, LeastNumber
<1>7. IsActive(segs, i, t, j)
  <2>1. ASSUME j > i PROVE t > Offset(segs, i, j)
    <3>0. j \in i .. n + 1
      BY <1>6
    <3>1. j - 1 \in i .. n + 1 /\ j - 1 <= n /\ j \in 1 .. n + 1
      BY <1>2, <2>1, <3>0
    <3>1a. j - 1 \notin Over
      <4> HIDE DEF Over
      <4> QED BY <1>2, <1>6, <3>0
    <3>2. ~(t <= Offset(segs, i, (j - 1) + 1)) /\ (j - 1) + 1 = j
      BY <1>2, <3>1, <3>1a
    <3>3. Offset(segs, i, j) \in Int
      BY <1>2, <1>3, <3>1
    <3>4. QED
      BY <3>2, <3>3
  <2>2. j \in i .. n + 1 /\ (j <= n => t <= Offset(segs, i, j + 1))
    BY <1>6
  <2>3. QED
    BY <2>1, <2>2 DEF IsActive
<1>8. IsActive(segs, i, t, ActiveAt(segs, i, t))
  BY <1>7 DEF ActiveAt, IsActive
<1>9. QED
  BY <1>5, <1>8

\* Where a segment is, while it is not over.
LEMMA SampleIs ==
  ASSUME NEW r \in Nat, NEW s \in Legs(r), NEW u \in 0 .. s.duration, NEW m \in MotorIds
  PROVE  /\ SampleSegment(s, u)[m] = OnLine(s.start[m], s.end[m], u, s.duration)
         /\ SampleSegment(s, u) \in Poses(r)
         /\ u = 0 => SampleSegment(s, u)[m] = s.start[m]
         /\ u = s.duration => SampleSegment(s, u)[m] = s.end[m]
<1>1. /\ s.start \in Poses(r) /\ s.end \in Poses(r) /\ s.duration \in Nat \ {0}
  BY DEF Legs
<1>2. s.start \in Pose /\ s.end \in Pose
  BY <1>1 DEF Pose, Poses
<1>3. PICK p : p = Between(s.start, s.end, u, s.duration)
  OBVIOUS
<1>4. SampleSegment(s, u) = p
  BY <1>1, <1>3 DEF SampleSegment
<1>5. /\ p \in Pose /\ (u = s.duration => p = s.end)
      /\ \A k \in MotorIds : IsBetween(p[k], s.start[k], s.end[k])
  BY <1>1, <1>2, <1>3, BetweenFacts
<1>6. p \in Poses(r)
  <2>1. ASSUME NEW k \in MotorIds PROVE p[k] \in -r .. r
    <3>1. s.start[k] \in -r .. r /\ s.end[k] \in -r .. r
      BY <1>1 DEF Poses
    <3>2. IsBetween(p[k], s.start[k], s.end[k])
      BY <1>5
    <3>3. QED
      BY <3>1, <3>2 DEF IsBetween
  <2>2. QED
    BY <1>5, <2>1 DEF Pose, Poses
<1>7. p[m] = OnLine(s.start[m], s.end[m], u, s.duration)
  BY <1>3 DEF Between, OnLine
<1>8. u = 0 => p[m] = s.start[m]
  <2>1. s.start[m] \in Int /\ s.end[m] \in Int
    BY <1>2 DEF Pose
  <2>2. OnLine(s.start[m], s.end[m], 0, s.duration) = s.start[m]
    <3>1. (s.end[m] - s.start[m]) * 0 = 0
      BY <2>1
    <3>2. 0 \div s.duration = 0
      BY <1>1
    <3>3. QED
      BY <2>1, <3>1, <3>2 DEF OnLine
  <2>3. QED
    BY <1>7, <2>2
<1>9. QED
  BY <1>4, <1>5, <1>6, <1>7, <1>8

\* The next segment begins when this one has lasted its duration.
LEMMA OffsetSteps ==
  ASSUME NEW r \in Nat, NEW segs \in Seq(Legs(r)), NEW i \in 1 .. Len(segs)
  PROVE  /\ Offset(segs, i, i) = 0
         /\ \A j \in 1 .. Len(segs) + 1 : Offset(segs, i, j) \in Int
         /\ \A j \in 1 .. Len(segs) :
              /\ Offset(segs, i, j + 1) = Offset(segs, i, j) + segs[j].duration
              /\ segs[j].duration \in Nat \ {0} /\ segs[j] \in Legs(r)
         /\ \A j \in 1 .. Len(segs) + 1 : Offset(segs, i, j) <= Offset(segs, 1, j)
<1>1. PICK b : b = Begins(segs) /\ Clock(segs, b)
  BY BeginsIsClock
<1>2. /\ b \in [1 .. Len(segs) + 1 -> Nat] /\ Len(segs) \in Nat /\ b[1] = 0
      /\ \A j \in 1 .. Len(segs) : b[j + 1] = b[j] + segs[j].duration
  BY <1>1 DEF Clock
<1>3. \A j : Offset(segs, i, j) = b[j] - b[i] /\ Offset(segs, 1, j) = b[j] - b[1]
  BY <1>1 DEF Offset
<1>4. \A j \in 1 .. Len(segs) + 1 : b[j] \in Nat
  BY <1>2
<1>5. i \in 1 .. Len(segs) + 1 /\ b[i] \in Nat
  BY <1>2
<1>6. ASSUME NEW j \in 1 .. Len(segs)
      PROVE  /\ Offset(segs, i, j + 1) = Offset(segs, i, j) + segs[j].duration
             /\ segs[j].duration \in Nat \ {0} /\ segs[j] \in Legs(r)
  <2>1. segs[j] \in Legs(r)
    OBVIOUS
  <2>2. segs[j].duration \in Nat \ {0}
    BY <2>1 DEF Legs
  <2>3. j \in 1 .. Len(segs) + 1 /\ b[j + 1] = b[j] + segs[j].duration
    BY <1>2
  <2>4. QED
    BY <1>3, <1>4, <1>5, <2>1, <2>2, <2>3
<1>7. \A j \in 1 .. Len(segs) + 1 :
        Offset(segs, i, j) \in Int /\ Offset(segs, i, j) <= Offset(segs, 1, j)
  BY <1>2, <1>3, <1>4, <1>5
<1>8. Offset(segs, i, i) = 0
  BY <1>3, <1>5
<1>9. QED
  BY <1>6, <1>7, <1>8

\* Where a motion is when t has passed since segment i began.
NowAt(segs, i, t) ==
  IF ActiveAt(segs, i, t) <= Len(segs)
  THEN SampleSegment(segs[ActiveAt(segs, i, t)], t - Offset(segs, i, ActiveAt(segs, i, t)))
  ELSE segs[Len(segs)].end

\* Where the motion is, once the active segment is known.
LEMMA NowIs ==
  ASSUME NEW r \in Nat, NEW segs \in Seq(Legs(r)), NEW i \in 1 .. Len(segs), NEW t \in Nat,
         NEW j, IsActive(segs, i, t, j)
  PROVE  /\ ActiveAt(segs, i, t) = j /\ j \in 1 .. Len(segs) + 1
         /\ j <= Len(segs) => /\ t - Offset(segs, i, j) \in 0 .. segs[j].duration
                              /\ NowAt(segs, i, t) = SampleSegment(segs[j], t - Offset(segs, i, j))
         /\ j > Len(segs) => NowAt(segs, i, t) = segs[Len(segs)].end
         /\ NowAt(segs, i, t) \in Poses(r)
<1>1. ActiveAt(segs, i, t) = j
  BY ActiveIs
<1>2. Len(segs) \in Nat /\ j \in i .. Len(segs) + 1 /\ j \in 1 .. Len(segs) + 1
  BY DEF IsActive
<1>3. CASE j <= Len(segs)
  <2>1. j \in 1 .. Len(segs)
    BY <1>2, <1>3
  <2>2. /\ Offset(segs, i, j + 1) = Offset(segs, i, j) + segs[j].duration
        /\ segs[j].duration \in Nat \ {0} /\ segs[j] \in Legs(r)
        /\ Offset(segs, i, j) \in Int /\ Offset(segs, i, i) = 0
    BY <1>2, <2>1, OffsetSteps
  <2>3. t <= Offset(segs, i, j + 1) /\ (j > i => t > Offset(segs, i, j))
    BY <1>3 DEF IsActive
  <2>4. Offset(segs, i, j) <= t
    <3>1. CASE j = i
      BY <2>2, <3>1
    <3>2. CASE j > i
      BY <2>2, <2>3, <3>2
    <3>3. QED
      BY <1>2, <3>1, <3>2
  <2>5. t - Offset(segs, i, j) \in 0 .. segs[j].duration
    BY <2>2, <2>3, <2>4
  <2>6. NowAt(segs, i, t) = SampleSegment(segs[j], t - Offset(segs, i, j))
    BY <1>1, <1>3 DEF NowAt
  <2>7. NowAt(segs, i, t) \in Poses(r)
    <3>1. PICK m \in MotorIds : TRUE
      BY SegmentsAssumption
    <3>2. QED
      BY <2>2, <2>5, <2>6, <3>1, SampleIs
  <2>8. QED
    BY <1>1, <1>2, <1>3, <2>5, <2>6, <2>7
<1>4. CASE j > Len(segs)
  <2>1. NowAt(segs, i, t) = segs[Len(segs)].end
    BY <1>1, <1>2, <1>4 DEF NowAt
  <2>2. segs[Len(segs)] \in Legs(r)
    BY <1>2
  <2>3. QED
    BY <1>1, <1>2, <1>4, <2>1, <2>2 DEF Legs
<1>5. QED
  BY <1>2, <1>3, <1>4

\* Each segment begins where the one before ends, and none is faster than MaxSpeed.
Joined(segs, m) == \A i \in 1 .. Len(segs) - 1 : segs[i].end[m] = segs[i + 1].start[m]
Slow(segs, m) ==
  \A i \in 1 .. Len(segs) :
    AbsDiff(segs[i].start[m], segs[i].end[m]) <= MaxSpeed * segs[i].duration

\* In one tick a motion goes no further than MaxSpeed, into the next segment too.
LEMMA NowIsSlow ==
  ASSUME NEW r \in Nat, NEW segs \in Seq(Legs(r)), NEW i \in 1 .. Len(segs), NEW t \in Nat,
         NEW m \in MotorIds, Joined(segs, m), Slow(segs, m)
  PROVE  AbsDiff(NowAt(segs, i, t + 1)[m], NowAt(segs, i, t)[m]) <= MaxSpeed
<1> DEFINE n == Len(segs)
<1>0. MaxSpeed \in Nat /\ n \in Nat /\ t + 1 \in Nat
  BY MotionAssumption
<1>1. PICK j : IsActive(segs, i, t, j)
  BY ActiveIs
<1>2. /\ j \in 1 .. n + 1 /\ NowAt(segs, i, t) \in Poses(r) /\ j \in i .. n + 1
      /\ j <= n => /\ t - Offset(segs, i, j) \in 0 .. segs[j].duration
                   /\ NowAt(segs, i, t) = SampleSegment(segs[j], t - Offset(segs, i, j))
      /\ j > n => NowAt(segs, i, t) = segs[n].end
  <2>1. j \in i .. n + 1
    BY <1>1 DEF IsActive
  <2> HIDE DEF n
  <2>2. QED
    BY <1>1, <2>1, NowIs DEF n
<1>3. CASE j > n
  <2>1. IsActive(segs, i, t + 1, j)
    <3>1. j > i /\ ~(j <= n)
      BY <1>0, <1>2, <1>3
    <3>2. t > Offset(segs, i, j) /\ Offset(segs, i, j) \in Int
      BY <1>1, <1>2, <3>1, OffsetSteps DEF IsActive
    <3>3. QED
      BY <1>2, <3>1, <3>2 DEF IsActive
  <2>2. NowAt(segs, i, t + 1) = segs[n].end
    BY <1>0, <1>3, <2>1, NowIs
  <2>3. NowAt(segs, i, t)[m] \in Int
    BY <1>2 DEF Poses
  <2>4. QED
    BY <1>0, <1>2, <1>3, <2>2, <2>3 DEF AbsDiff
<1>4. CASE j <= n
  <2> DEFINE u == t - Offset(segs, i, j)
             s == segs[j]
  <2>1. /\ j \in 1 .. n /\ s \in Legs(r) /\ s.duration \in Nat \ {0} /\ u \in 0 .. s.duration
        /\ Offset(segs, i, j + 1) = Offset(segs, i, j) + s.duration
        /\ Offset(segs, i, j) \in Int
    BY <1>0, <1>2, <1>4, OffsetSteps
  <2>2. NowAt(segs, i, t)[m] = OnLine(s.start[m], s.end[m], u, s.duration)
    BY <1>2, <1>4, <2>1, SampleIs
  <2>3. /\ s.start[m] \in Int /\ s.end[m] \in Int
        /\ AbsDiff(s.start[m], s.end[m]) <= MaxSpeed * s.duration
    <3>1. s.start \in Poses(r) /\ s.end \in Poses(r)
      BY <2>1 DEF Legs
    <3>2. QED
      BY <2>1, <3>1 DEF Poses, Slow
  <2>4. CASE u < s.duration
    <3>1. IsActive(segs, i, t + 1, j)
      <4>1. t + 1 <= Offset(segs, i, j + 1)
        BY <2>1, <2>4
      <4>2. j > i => t + 1 > Offset(segs, i, j)
        BY <1>1, <2>1 DEF IsActive
      <4>3. QED
        BY <1>2, <1>4, <4>1, <4>2 DEF IsActive
    <3>2. NowAt(segs, i, t + 1) = SampleSegment(s, (t + 1) - Offset(segs, i, j))
      BY <1>0, <1>4, <3>1, NowIs
    <3>3. (t + 1) - Offset(segs, i, j) = u + 1 /\ u + 1 \in 0 .. s.duration
      BY <2>1, <2>4
    <3>4. NowAt(segs, i, t + 1)[m] = OnLine(s.start[m], s.end[m], u + 1, s.duration)
      BY <2>1, <3>2, <3>3, SampleIs
    <3> HIDE DEF u, s
    <3>5. u \in Nat
      BY <2>1
    <3>6. AbsDiff(OnLine(s.start[m], s.end[m], u + 1, s.duration),
                  OnLine(s.start[m], s.end[m], u, s.duration)) <= MaxSpeed
      BY <1>0, <2>1, <2>3, <3>5, LineIsSlow
    <3>7. QED
      BY <2>2, <3>4, <3>6
  <2>5. CASE u = s.duration
    <3>1. NowAt(segs, i, t)[m] = s.end[m]
      BY <1>2, <1>4, <2>1, <2>5, SampleIs
    <3>2. t = Offset(segs, i, j + 1)
      BY <2>1, <2>5
    <3>3. IsActive(segs, i, t + 1, j + 1)
      <4>1. j + 1 <= n => t + 1 <= Offset(segs, i, (j + 1) + 1)
        <5> SUFFICES ASSUME j + 1 <= n PROVE t + 1 <= Offset(segs, i, (j + 1) + 1)
          OBVIOUS
        <5>1. j + 1 \in 1 .. n
          BY <1>0, <2>1
        <5>2. /\ Offset(segs, i, (j + 1) + 1) = Offset(segs, i, j + 1) + segs[j + 1].duration
              /\ segs[j + 1].duration \in Nat \ {0}
          BY <5>1, OffsetSteps
        <5>3. QED
          BY <3>2, <5>2
      <4>2. t + 1 > Offset(segs, i, j + 1)
        BY <3>2
      <4>3. j + 1 \in i .. n + 1
        BY <1>0, <1>2, <2>1
      <4>4. QED
        BY <4>1, <4>2, <4>3 DEF IsActive
    <3>4. CASE j + 1 <= n
      <4>1. NowAt(segs, i, t + 1) = SampleSegment(segs[j + 1], (t + 1) - Offset(segs, i, j + 1))
        BY <1>0, <3>3, <3>4, NowIs
      <4>2. j + 1 \in 1 .. n /\ j \in 1 .. n - 1
        BY <1>0, <2>1, <3>4
      <4>3. PICK z : z = segs[j + 1]
        OBVIOUS
      <4>4. z \in Legs(r) /\ z.duration \in Nat \ {0}
        BY <4>2, <4>3, OffsetSteps
      <4>5. /\ z.start[m] \in Int /\ z.end[m] \in Int
            /\ AbsDiff(z.start[m], z.end[m]) <= MaxSpeed * z.duration
            /\ s.end[m] = z.start[m]
        <5>1. z.start \in Poses(r) /\ z.end \in Poses(r)
          BY <4>4 DEF Legs
        <5>2. AbsDiff(z.start[m], z.end[m]) <= MaxSpeed * z.duration
          BY <4>2, <4>3 DEF Slow
        <5>3. s.end[m] = z.start[m]
          BY <4>2, <4>3 DEF Joined
        <5>4. QED
          BY <5>1, <5>2, <5>3 DEF Poses
      <4>6. NowAt(segs, i, t + 1)[m] = OnLine(z.start[m], z.end[m], 1, z.duration)
        <5>1. (t + 1) - Offset(segs, i, j + 1) = 1 /\ 1 \in 0 .. z.duration
          BY <3>2, <4>4
        <5>2. QED
          BY <4>1, <4>3, <4>4, <5>1, SampleIs
      <4>7. NowAt(segs, i, t)[m] = OnLine(z.start[m], z.end[m], 0, z.duration)
        <5>1. 0 \in 0 .. z.duration
          BY <4>4
        <5>2. OnLine(z.start[m], z.end[m], 0, z.duration) = z.start[m]
          BY <4>4, <5>1, SampleIs
        <5>3. QED
          BY <3>1, <4>5, <5>2
      <4> HIDE DEF s, u
      <4>8. PICK zero : zero = 0 /\ zero \in Nat /\ zero + 1 = 1
        OBVIOUS
      <4>9. QED
        BY <1>0, <4>4, <4>5, <4>6, <4>7, <4>8, LineIsSlow
    <3>5. CASE j + 1 > n
      <4>1. j = n /\ NowAt(segs, i, t + 1) = segs[n].end
        BY <1>0, <2>1, <3>3, <3>5, NowIs
      <4>2. QED
        BY <1>0, <2>3, <3>1, <4>1 DEF AbsDiff
    <3>6. QED
      BY <1>0, <2>1, <3>4, <3>5
  <2>6. QED
    BY <2>1, <2>4, <2>5
<1>5. QED
  BY <1>0, <1>2, <1>3, <1>4

\* A motion takes a motor from x to y, without a gap between its segments.
Runs(segs, m, x, y) ==
  /\ segs = <<>> => x = y
  /\ segs # <<>> => segs[1].start[m] = x /\ segs[Len(segs)].end[m] = y
  /\ Joined(segs, m)

\* A motion that goes on where another one ends.
LEMMA RunsJoin ==
  ASSUME NEW S, NEW one \in Seq(S), NEW two \in Seq(S), NEW m, NEW x, NEW y, NEW z,
         Runs(one, m, x, y), Runs(two, m, y, z)
  PROVE  Runs(one \o two, m, x, z)
<1> DEFINE both == one \o two
<1>1. /\ both \in Seq(S) /\ Len(both) = Len(one) + Len(two)
      /\ Len(one) \in Nat /\ Len(two) \in Nat
      /\ \A i \in 1 .. Len(one) : both[i] = one[i]
      /\ \A i \in Len(one) + 1 .. Len(both) : both[i] = two[i - Len(one)]
  OBVIOUS
<1>2. CASE one = <<>>
  <2>1. both = two /\ x = y
    BY <1>2 DEF Runs
  <2>2. QED
    BY <2>1
<1>3. CASE two = <<>>
  <2>1. both = one /\ y = z
    BY <1>3 DEF Runs
  <2>2. QED
    BY <2>1
<1>4. CASE one # <<>> /\ two # <<>>
  <2>1. Len(one) > 0 /\ Len(two) > 0
    BY <1>4
  <2>2. PICK k : k = Len(one) /\ k \in Nat \ {0}
    BY <1>1, <2>1
  <2>3. PICK n : n = Len(both) /\ n \in Nat /\ n > k
    BY <1>1, <2>1, <2>2
  <2> HIDE DEF both
  <2>4. both[1] = one[1] /\ both[k] = one[k] /\ both[k + 1] = two[1] /\ both[n] = two[Len(two)]
    <3>1. k + 1 \in k + 1 .. n /\ n \in k + 1 .. n /\ (k + 1) - k = 1 /\ n - k = Len(two)
      BY <1>1, <2>2, <2>3
    <3>2. QED
      BY <1>1, <2>2, <2>3, <3>1
  <2>5. /\ one[1].start[m] = x /\ one[k].end[m] = y
        /\ two[1].start[m] = y /\ two[Len(two)].end[m] = z
    BY <1>4, <2>2 DEF Runs
  <2>6. ASSUME NEW i \in 1 .. n - 1 PROVE both[i].end[m] = both[i + 1].start[m]
    <3>1. CASE i < k
      <4>1. i \in 1 .. Len(one) - 1 /\ both[i] = one[i] /\ both[i + 1] = one[i + 1]
        BY <1>1, <2>2, <3>1
      <4>2. one[i].end[m] = one[i + 1].start[m]
        BY <4>1 DEF Runs, Joined
      <4>3. QED
        BY <4>1, <4>2
    <3>2. CASE i = k
      BY <2>4, <2>5, <3>2
    <3>3. CASE i > k
      <4>1. PICK j : j = i - k
        OBVIOUS
      <4>2. j \in 1 .. Len(two) - 1 /\ (i + 1) - k = j + 1
        BY <1>1, <2>2, <2>3, <3>3, <4>1
      <4>3. both[i] = two[j] /\ both[i + 1] = two[j + 1]
        <5>1. i \in Len(one) + 1 .. Len(both) /\ i + 1 \in Len(one) + 1 .. Len(both)
          BY <2>2, <2>3, <3>3
        <5>2. both[i] = two[i - Len(one)] /\ both[i + 1] = two[(i + 1) - Len(one)]
          BY <1>1, <5>1
        <5>3. QED
          BY <2>2, <4>1, <4>2, <5>2
      <4>4. two[j].end[m] = two[j + 1].start[m]
        BY <4>2 DEF Runs, Joined
      <4>5. QED
        BY <4>3, <4>4
    <3>4. QED
      BY <2>2, <2>3, <3>1, <3>2, <3>3
  <2>7. Joined(both, m)
    BY <2>3, <2>6 DEF Joined
  <2>8. QED
    BY <2>3, <2>4, <2>5, <2>7 DEF Runs, both
<1>5. QED
  BY <1>2, <1>3, <1>4

\* Parts one after the other, each of which goes on where the one before ends.
RunsOn(parts, m, p) ==
  \A i \in 1 .. Len(parts) : Runs(parts[i], m, p[i - 1], p[i])

\* Only the empty sequence has no elements.
LEMMA EmptyIs ==
  ASSUME NEW S, NEW s \in Seq(S), Len(s) = 0
  PROVE  s = <<>>
OBVIOUS

\* Parts that go on from each other make one motion.
LEMMA FlattenRuns ==
  ASSUME NEW S, NEW parts \in Seq(Seq(S)), NEW m, NEW p, RunsOn(parts, m, p)
  PROVE  Runs(FlattenSeq(parts), m, p[0], p[Len(parts)])
<1>1. PICK n \in Nat : n = Len(parts)
  OBVIOUS
<1>2. CASE n = 0
  <2>1. parts = <<>>
    BY <1>1, <1>2, EmptyIs
  <2>2. FlattenSeq(parts) = <<>>
    BY <2>1 DEF FlattenSeq
  <2>3. QED
    BY <1>1, <1>2, <2>2 DEF Runs, Joined
<1>3. CASE n # 0
  <2>1. PICK f : Flattens(S, parts, f) /\ FlattenSeq(parts) = f[n]
    BY <1>1, <1>3, FlattenSteps
  <2> DEFINE Good == {k \in 0 .. n : k = 0 \/ Runs(f[k], m, p[0], p[k])}
  <2>2. ASSUME NEW k \in 1 .. n, k - 1 \in Good PROVE k \in Good
    <3>1. /\ f[k] \in Seq(S) /\ f[k] = IF k = 1 THEN parts[1] ELSE f[k - 1] \o parts[k]
          /\ Runs(parts[k], m, p[k - 1], p[k])
      BY <1>1, <2>1 DEF Flattens, RunsOn
    <3>2. CASE k = 1
      <4>1. k - 1 = 0
        BY <3>2
      <4>2. QED
        BY <3>1, <3>2, <4>1
    <3>3. CASE k # 1
      <4>1. PICK past : past = k - 1 /\ past \in 1 .. n
        BY <3>3
      <4>2. f[past] \in Seq(S) /\ parts[k] \in Seq(S)
        BY <1>1, <2>1, <4>1 DEF Flattens
      <4>3. Runs(f[past], m, p[0], p[past])
        BY <2>2, <4>1
      <4>4. Runs(parts[k], m, p[past], p[k])
        BY <3>1, <4>1
      <4>5. Runs(f[past] \o parts[k], m, p[0], p[k])
        BY <4>2, <4>3, <4>4, RunsJoin
      <4>6. f[k] = f[past] \o parts[k]
        BY <3>1, <3>3, <4>1
      <4>7. Runs(f[k], m, p[0], p[k])
        BY <4>5, <4>6
      <4>8. QED
        BY <4>7
    <3>4. QED
      BY <3>2, <3>3
  <2>3. Climbs(Good, n)
    <3>1. 0 \in Good
      BY <1>1
    <3> HIDE DEF Good
    <3>2. QED
      BY <2>2, <3>1 DEF Climbs
  <2>4. n \in Good
    <3> HIDE DEF Good
    <3> QED BY <1>1, <2>3, CountUp
  <2>5. QED
    BY <1>1, <1>3, <2>1, <2>4
<1>4. QED
  BY <1>2, <1>3

\* What becomes of a segment when zero crossings are inserted.
Halves(s, half) ==
  IF Crossing(s.start, s.end, MotorIds) = {} THEN <<s>>
  ELSE <<Segment(s.start, Midpoint(s.start, s.end), half[s.duration]),
         Segment(Midpoint(s.start, s.end), s.end, half[s.duration])>>

\* Zero crossings are inserted without a gap and without a change of ends.
LEMMA InsertRuns ==
  ASSUME NEW S, NEW raw, Len(raw) \in Nat, DOMAIN raw = 1 .. Len(raw), NEW half,
         \A i \in DOMAIN raw : Halves(raw[i], half) \in Seq(S)
  PROVE  /\ InsertZeroCrossings(raw, half) \in Seq(S)
         /\ raw = <<>> => InsertZeroCrossings(raw, half) = <<>>
         /\ \A m, x, y : Runs(raw, m, x, y) => Runs(InsertZeroCrossings(raw, half), m, x, y)
<1> DEFINE parts == [i \in DOMAIN raw |-> Halves(raw[i], half)]
<1>1. /\ parts \in Seq(Seq(S)) /\ Len(parts) = Len(raw)
      /\ \A i \in 1 .. Len(raw) : parts[i] = Halves(raw[i], half)
  <2> HIDE DEF Halves
  <2>1. \A i \in 1 .. Len(raw) : parts[i] \in Seq(S)
    OBVIOUS
  <2>2. QED
    BY <2>1
<1>2. InsertZeroCrossings(raw, half) = FlattenSeq(parts)
  BY DEF InsertZeroCrossings, Halves
<1> HIDE DEF parts
<1>3. FlattenSeq(parts) \in Seq(S)
  BY <1>1, FlattenIsSeq
<1>4. raw = <<>> => FlattenSeq(parts) = <<>>
  BY <1>1 DEF FlattenSeq
<1>5. ASSUME NEW m, NEW x, NEW y, Runs(raw, m, x, y)
      PROVE  Runs(FlattenSeq(parts), m, x, y)
  <2> DEFINE p == [i \in 0 .. Len(raw) |-> IF i = 0 THEN x ELSE raw[i].end[m]]
  <2>1. ASSUME NEW i \in 1 .. Len(raw) PROVE Runs(parts[i], m, p[i - 1], p[i])
    <3>1. PICK s : s = raw[i]
      OBVIOUS
    <3>2. p[i] = s.end[m] /\ p[i - 1] = s.start[m]
      <4>1. CASE i = 1
        <5>1. raw # <<>>
          OBVIOUS
        <5>2. raw[1].start[m] = x
          BY <1>5, <5>1 DEF Runs
        <5>3. QED
          BY <3>1, <4>1, <5>2
      <4>2. CASE i # 1
        <5>1. PICK past : past = i - 1 /\ past \in 1 .. Len(raw) - 1 /\ past + 1 = i
          BY <4>2
        <5>2. raw[past].end[m] = raw[past + 1].start[m]
          BY <1>5, <5>1 DEF Runs, Joined
        <5>3. QED
          BY <3>1, <5>1, <5>2
      <4>3. QED
        BY <4>1, <4>2
    <3>3. parts[i] = Halves(s, half)
      BY <1>1, <3>1
    <3>4. Runs(Halves(s, half), m, s.start[m], s.end[m])
      <4>1. CASE Crossing(s.start, s.end, MotorIds) = {}
        <5>1. Halves(s, half) = <<s>>
          BY <4>1 DEF Halves
        <5>2. QED
          BY <5>1 DEF Runs, Joined
      <4>2. CASE Crossing(s.start, s.end, MotorIds) # {}
        <5>1. PICK mid : mid = Midpoint(s.start, s.end)
          OBVIOUS
        <5>2. PICK one, two : /\ one = Segment(s.start, mid, half[s.duration])
                              /\ two = Segment(mid, s.end, half[s.duration])
          OBVIOUS
        <5>3. Halves(s, half) = <<one, two>>
          BY <4>2, <5>1, <5>2 DEF Halves
        <5>4. one.start = s.start /\ one.end = mid /\ two.start = mid /\ two.end = s.end
          BY <5>2 DEF Segment
        <5>5. QED
          BY <5>3, <5>4 DEF Runs, Joined
      <4>3. QED
        BY <4>1, <4>2
    <3>5. QED
      BY <3>2, <3>3, <3>4
  <2>2. p[0] = x /\ p[Len(raw)] = y
    <3>1. CASE raw = <<>>
      BY <1>5, <3>1 DEF Runs
    <3>2. CASE raw # <<>>
      <4>1. Len(raw) # 0
        BY <3>2
      <4>2. QED
        BY <1>5, <3>2, <4>1 DEF Runs
    <3>3. QED
      BY <3>1, <3>2
  <2> HIDE DEF p
  <2>3. RunsOn(parts, m, p)
    BY <1>1, <2>1 DEF RunsOn
  <2>4. Runs(FlattenSeq(parts), m, p[0], p[Len(parts)])
    BY <1>1, <2>3, FlattenRuns
  <2>5. QED
    BY <1>1, <2>2, <2>4
<1>6. QED
  BY <1>2, <1>3, <1>4, <1>5

\* Segments that are slow enough for every motor.
SlowLegs(r) ==
  {s \in Legs(r) : \A m \in MotorIds : AbsDiff(s.start[m], s.end[m]) <= MaxSpeed * s.duration}

\* What a sequence of slow segments is, motor by motor.
LEMMA SlowLegsAre ==
  ASSUME NEW r \in Nat, NEW segs \in Seq(SlowLegs(r)), NEW m \in MotorIds
  PROVE  segs \in Seq(Legs(r)) /\ Slow(segs, m)
<1>1. ASSUME NEW i \in 1 .. Len(segs)
      PROVE  /\ segs[i] \in Legs(r)
             /\ AbsDiff(segs[i].start[m], segs[i].end[m]) <= MaxSpeed * segs[i].duration
  <2>1. segs[i] \in SlowLegs(r)
    OBVIOUS
  <2>2. QED
    BY <2>1 DEF SlowLegs
<1>2. segs \in Seq(Legs(r))
  <2>1. Len(segs) \in Nat /\ segs = [i \in 1 .. Len(segs) |-> segs[i]]
    OBVIOUS
  <2>2. QED
    BY <1>1, <2>1
<1>3. QED
  BY <1>1, <1>2 DEF Slow

\* A duration rounded up is long enough.
LEMMA RoundedIsEnough ==
  ASSUME NEW n \in Int, NEW d \in Nat \ {0}
  PROVE  Rounded(n, d) \in Int /\ n <= d * Rounded(n, d)
<1> DEFINE x == n + d - 1
           full == x \div d
<1>1. x \in Int /\ full \in Int /\ x < d * (full + 1)
  <2>1. x \in Int
    OBVIOUS
  <2> HIDE DEF x
  <2>2. QED
    BY <2>1
<1>2. n <= d * full
  <2>1. d * (full + 1) = d * full + d
    <3> HIDE DEF x, full
    <3> QED BY <1>1
  <2> HIDE DEF full
  <2>2. QED
    BY <1>1, <2>1
<1>3. QED
  BY <1>1, <1>2 DEF Rounded

\* estimate_minimum_jerk_duration gives the time that every motor needs.
LEMMA QuinticIsSlow ==
  ASSUME NEW r \in Nat, NEW from \in Poses(r), NEW to \in Poses(r), NEW least \in Nat \ {0}
  PROVE  Segment(from, to, QuinticDuration(from, to, least)) \in SlowLegs(r)
<1> DEFINE spread == Spread(from, to, MotorIds)
           time == Rounded(spread, MaxSpeed)
           d == QuinticDuration(from, to, least)
<1>1. from \in Pose /\ to \in Pose
  BY DEF Pose, Poses
<1>2. spread \in Int /\ \A m \in MotorIds : AbsDiff(from[m], to[m]) <= spread
  BY <1>1, SegmentsAssumption, SpreadIsGreatest
<1>3. MaxSpeed \in Nat \ {0}
  BY MotionAssumption
<1>4. time \in Int /\ spread <= MaxSpeed * time
  <2> HIDE DEF spread
  <2> QED BY <1>2, <1>3, RoundedIsEnough
<1>5. d = LargestOf({least, time})
  BY DEF QuinticDuration
<1> HIDE DEF d, time, spread
<1>6. d \in {least, time} /\ least <= d /\ time <= d
  <2>1. least \in Int
    OBVIOUS
  <2>2. QED
    BY <1>4, <1>5, <2>1, LargerOfTwo, Zenon
<1>7. d \in Nat \ {0}
  BY <1>4, <1>6
<1>8. spread <= MaxSpeed * d
  BY <1>2, <1>3, <1>4, <1>6, <1>7
<1>9. ASSUME NEW m \in MotorIds PROVE AbsDiff(from[m], to[m]) <= MaxSpeed * d
  <2>1. AbsDiff(from[m], to[m]) \in Int
    BY <1>1 DEF AbsDiff, Pose
  <2>2. MaxSpeed * d \in Int
    BY <1>3, <1>7
  <2>3. QED
    BY <1>2, <1>8, <2>1, <2>2
<1>10. QED
  BY <1>7, <1>9 DEF Segment, SlowLegs, Legs, d

\* A segment of fixed duration is slow enough too, and so are its halves.
LEMMA HalvesAreSlow ==
  ASSUME NEW s \in Legs(SweepReach), s.duration \in {InitialDuration, SegmentDuration}
  PROVE  s \in SlowLegs(SweepReach) /\ Halves(s, SweepHalf) \in Seq(SlowLegs(SweepReach))
<1> DEFINE r == SweepReach
           mid == Midpoint(s.start, s.end)
           h == SweepHalf[s.duration]
<1>1. r \in Nat /\ MaxSpeed \in Nat
  BY SweepAssumption, MotionAssumption
<1>2. /\ s.start \in Poses(r) /\ s.end \in Poses(r) /\ s.duration \in Nat \ {0}
  BY DEF Legs
<1>3. 2 * r <= MaxSpeed * s.duration /\ r <= MaxSpeed * h
  BY SweepAssumption
<1>4. h \in Nat \ {0}
  <2>1. h = IF s.duration \div 2 >= HalfAtLeast THEN s.duration \div 2 ELSE HalfAtLeast
    BY <1>2 DEF SweepHalf
  <2>2. HalfAtLeast \in Nat \ {0}
    BY SweepAssumption
  <2>3. QED
    BY <1>2, <2>1, <2>2
<1>5. PICK fast : fast = MaxSpeed * s.duration /\ fast \in Int
  BY <1>1, <1>2
<1>6. PICK slow : slow = MaxSpeed * h /\ slow \in Int
  BY <1>1, <1>4
<1>7. ASSUME NEW m \in MotorIds
      PROVE  /\ AbsDiff(s.start[m], s.end[m]) <= fast
             /\ mid[m] \in -r .. r
             /\ AbsDiff(s.start[m], mid[m]) <= slow /\ AbsDiff(mid[m], s.end[m]) <= slow
  <2>1. s.start[m] \in -r .. r /\ s.end[m] \in -r .. r
    BY <1>2 DEF Poses
  <2>2. mid[m] = 0 \/ mid[m] = (s.start[m] + s.end[m]) \div 2
    BY DEF Midpoint
  <2> HIDE DEF mid, r
  <2>3. QED
    BY <1>1, <1>3, <1>5, <1>6, <2>1, <2>2 DEF AbsDiff
<1>8. mid \in Poses(r)
  <2>1. mid = [m \in MotorIds |-> mid[m]]
    BY DEF Midpoint
  <2> HIDE DEF mid
  <2>2. QED
    BY <1>7, <2>1 DEF Poses
<1>9. s \in SlowLegs(r)
  BY <1>5, <1>7 DEF SlowLegs
<1> HIDE DEF mid, h, r
<1>10. Segment(s.start, mid, h) \in SlowLegs(r) /\ Segment(mid, s.end, h) \in SlowLegs(r)
  BY <1>2, <1>4, <1>6, <1>7, <1>8 DEF Segment, SlowLegs, Legs
<1>11. Halves(s, SweepHalf) = IF Crossing(s.start, s.end, MotorIds) = {} THEN <<s>>
                              ELSE <<Segment(s.start, mid, h), Segment(mid, s.end, h)>>
  BY DEF Halves, mid, h
<1>12. QED
  BY <1>9, <1>10, <1>11 DEF r

\* Between two poses in reach the motors stay in reach.
LEMMA BetweenReach ==
  ASSUME NEW r \in Nat, NEW from \in Poses(r), NEW goal \in Poses(r), NEW n \in Nat \ {0},
         NEW i \in 0 .. n
  PROVE  Between(from, goal, i, n) \in Poses(r)
<1> DEFINE P == Between(from, goal, i, n)
<1>1. from \in Pose /\ goal \in Pose
  BY DEF Pose, Poses
<1>2. P \in Pose /\ \A m \in MotorIds : IsBetween(P[m], from[m], goal[m])
  BY <1>1, BetweenFacts
<1> HIDE DEF P
<1>3. ASSUME NEW m \in MotorIds PROVE P[m] \in -r .. r
  <2>1. from[m] \in -r .. r /\ goal[m] \in -r .. r /\ IsBetween(P[m], from[m], goal[m])
    BY <1>2 DEF Poses
  <2>2. QED
    BY <2>1 DEF IsBetween
<1>4. P \in Poses(r)
  BY <1>2, <1>3 DEF Pose, Poses
<1>5. QED
  BY <1>4 DEF P

\* So they do at the poses that split a segment at its crossings.
LEMMA SplitStaysInReach ==
  ASSUME NEW r \in Nat, NEW from \in Poses(r), NEW goal \in Poses(r), RandomIsUsable
  PROVE  SplitLargeStep(from, goal) \in Seq(Poses(r)) /\ SplitLargeStep(from, goal) # <<>>
         /\ EndOf(from, SplitLargeStep(from, goal)) = goal
<1>1. from \in Pose /\ goal \in Pose
  BY DEF Pose, Poses
<1>2. PICK n \in Nat \ {0} :
        SplitLargeStep(from, goal) = [i \in 1 .. n |-> Between(from, goal, i, n)]
  BY <1>1, SplitIs DEF RandomIsUsable
<1>3. PICK poses : poses = SplitLargeStep(from, goal)
  OBVIOUS
<1>4. ASSUME NEW i \in 1 .. n PROVE poses[i] \in Poses(r)
  <2>1. poses[i] = Between(from, goal, i, n) /\ i \in 0 .. n
    BY <1>2, <1>3
  <2>2. QED
    BY <2>1, BetweenReach
<1>5. poses[n] = goal
  BY <1>1, <1>2, <1>3, BetweenFacts
<1>6. poses = [i \in 1 .. n |-> poses[i]]
  BY <1>2, <1>3
<1>7. poses \in Seq(Poses(r)) /\ Len(poses) = n
  BY <1>4, <1>6
<1>8. poses # <<>>
  BY <1>7
<1>9. QED
  BY <1>3, <1>5, <1>7, <1>8 DEF EndOf

\* Where a motion begins and ends that consists of two.
LEMMA EndsOfBoth ==
  ASSUME NEW S, NEW one \in Seq(S), NEW two \in Seq(S), NEW from
  PROVE  /\ one \o two \in Seq(S)
         /\ EndOf(from, one \o two) = EndOf(EndOf(from, one), two)
<1>1. one \o two \in Seq(S)
  OBVIOUS
<1>2. CASE two = <<>>
  <2>1. one \o two = one
    BY <1>2
  <2>2. QED
    BY <1>1, <1>2, <2>1 DEF EndOf
<1>3. CASE two # <<>>
  <2>1. /\ one \o two # <<>> /\ Len(one \o two) = Len(one) + Len(two)
        /\ (one \o two)[Len(one) + Len(two)] = two[Len(two)]
    BY <1>3
  <2>2. QED
    BY <1>1, <1>3, <2>1 DEF EndOf
<1>4. QED
  BY <1>2, <1>3

\* So they do along a way with stops at zero.
LEMMA WayStaysInReach ==
  ASSUME NEW r \in Nat, NEW from \in Poses(r), NEW goal \in Poses(r), RandomIsUsable
  PROVE  /\ ExpandAndSplit(from, goal) \in Seq(Poses(r))
         /\ EndOf(from, ExpandAndSplit(from, goal)) = goal
         /\ ExpandAndSplit(from, goal) # <<>>
<1> DEFINE crossing == Crossing(from, goal, config.random)
           zero == Overlay(goal, [m \in crossing |-> 0])
<1>1. CASE crossing = {}
  <2>1. ThroughZero(from, goal) = <<goal>>
    BY <1>1 DEF ThroughZero
  <2>2. PICK one : one = SplitLargeStep(from, goal)
    OBVIOUS
  <2>3. one \in Seq(Poses(r)) /\ EndOf(from, one) = goal /\ one # <<>>
    BY <2>2, SplitStaysInReach
  <2>4. ExpandAndSplit(from, goal) = one \o <<>>
    BY <2>1, <2>2 DEF ExpandAndSplit
  <2>5. one \o <<>> = one
    BY <2>3
  <2>6. QED
    BY <2>3, <2>4, <2>5
<1>2. CASE crossing # {}
  <2>1. ThroughZero(from, goal) = <<zero, goal>>
    BY <1>2 DEF ThroughZero
  <2>2. zero \in Poses(r)
    <3>1. \A m \in MotorIds : zero[m] = IF m \in crossing THEN 0 ELSE goal[m]
      BY DEF Overlay
    <3>2. zero = [m \in MotorIds |-> zero[m]]
      BY DEF Overlay
    <3> HIDE DEF zero, crossing
    <3>3. \A m \in MotorIds : zero[m] \in -r .. r
      BY <3>1 DEF Poses
    <3>4. QED
      BY <3>2, <3>3 DEF Poses
  <2> HIDE DEF zero, crossing
  <2>3. PICK one, two : one = SplitLargeStep(from, zero) /\ two = SplitLargeStep(zero, goal)
    OBVIOUS
  <2>4. /\ one \in Seq(Poses(r)) /\ EndOf(from, one) = zero
        /\ two \in Seq(Poses(r)) /\ EndOf(zero, two) = goal /\ two # <<>>
    BY <2>2, <2>3, SplitStaysInReach
  <2>5. ExpandAndSplit(from, goal) = one \o two
    BY <2>1, <2>3 DEF ExpandAndSplit
  <2>6. one \o two # <<>>
    <3>1. Len(one \o two) = Len(one) + Len(two) /\ Len(one) \in Nat
      BY <2>4
    <3>2. Len(two) # 0 /\ Len(two) \in Nat
      BY <2>4, EmptyIs
    <3>3. Len(one \o two) # 0
      BY <3>1, <3>2
    <3>4. QED
      BY <3>3
  <2>7. QED
    BY <2>4, <2>5, <2>6, EndsOfBoth
<1>3. QED
  BY <1>1, <1>2

\* The segments along poses go from one to the next, slowly enough.
LEMMA ChainRuns ==
  ASSUME NEW r \in Nat, NEW from \in Poses(r), NEW poses \in Seq(Poses(r)),
         NEW least, \A i \in Nat : least[i] \in Nat \ {0}
  PROVE  /\ ChainOf(from, poses, least) \in Seq(SlowLegs(r))
         /\ \A m \in MotorIds :
              Runs(ChainOf(from, poses, least), m, from[m], EndOf(from, poses)[m])
<1>1. PICK chain : chain = ChainOf(from, poses, least)
  OBVIOUS
<1>2. PICK n \in Nat : n = Len(poses)
  OBVIOUS
<1>3. chain = [i \in 1 .. n |-> chain[i]] /\ DOMAIN chain = 1 .. n /\ DOMAIN poses = 1 .. n
  BY <1>1, <1>2 DEF ChainOf
<1>4. ASSUME NEW i \in 1 .. n
      PROVE  /\ chain[i] \in SlowLegs(r)
             /\ chain[i].start = From(from, poses, i) /\ chain[i].end = poses[i]
  <2>1. PICK start : start = From(from, poses, i)
    OBVIOUS
  <2>2. chain[i] = Segment(start, poses[i], QuinticDuration(start, poses[i], least[i]))
    BY <1>1, <1>3, <2>1 DEF ChainOf, From
  <2>3. start \in Poses(r)
    <3>1. CASE i = 1
      BY <2>1, <3>1 DEF From
    <3>2. CASE i # 1
      <4>1. PICK k \in 1 .. n : k = i - 1
        BY <3>2
      <4>2. poses[k] \in Poses(r)
        BY <1>2
      <4>3. QED
        BY <2>1, <3>2, <4>1, <4>2 DEF From
    <3>3. QED
      BY <3>1, <3>2
  <2>4. poses[i] \in Poses(r) /\ least[i] \in Nat \ {0}
    BY <1>2
  <2>5. chain[i] \in SlowLegs(r)
    BY <2>2, <2>3, <2>4, QuinticIsSlow
  <2>6. chain[i].start = start /\ chain[i].end = poses[i]
    BY <2>2 DEF Segment
  <2>7. QED
    BY <2>1, <2>5, <2>6
<1>5. chain \in Seq(SlowLegs(r)) /\ Len(chain) = n
  BY <1>3, <1>4
<1>6. ASSUME NEW m \in MotorIds PROVE Runs(chain, m, from[m], EndOf(from, poses)[m])
  <2>1. Joined(chain, m)
    <3>1. ASSUME NEW i \in 1 .. n - 1 PROVE chain[i].end[m] = chain[i + 1].start[m]
      <4>1. PICK j : j = i + 1 /\ j \in 1 .. n /\ j # 1 /\ j - 1 = i /\ i \in 1 .. n
        OBVIOUS
      <4>2. chain[i].end = poses[i] /\ chain[j].start = poses[j - 1]
        BY <1>4, <4>1 DEF From
      <4>3. QED
        BY <4>1, <4>2
    <3>2. QED
      BY <1>5, <3>1 DEF Joined
  <2>2. CASE n = 0
    <3>1. poses = <<>> /\ chain = <<>>
      BY <1>2, <1>5, <2>2, EmptyIs
    <3>2. QED
      BY <2>1, <3>1 DEF Runs, EndOf
  <2>3. CASE n # 0
    <3>1. poses # <<>> /\ 1 \in 1 .. n /\ n \in 1 .. n
      BY <1>2, <2>3
    <3>2. chain[1].start = from /\ chain[n].end = poses[n]
      BY <1>4, <3>1 DEF From
    <3>3. EndOf(from, poses) = poses[n]
      BY <1>2, <3>1 DEF EndOf
    <3>4. chain # <<>>
      BY <1>5, <2>3
    <3>5. QED
      BY <1>5, <2>1, <3>2, <3>3, <3>4 DEF Runs
  <2>4. QED
    BY <2>2, <2>3
<1>7. QED
  BY <1>1, <1>5, <1>6

\* Durations decide nothing about where a motion goes.
LEMMA TimedRuns ==
  ASSUME NEW r \in Nat, NEW segs \in Seq(Legs(r))
  PROVE  /\ Timed(segs) \in Seq(SlowLegs(r)) /\ (segs # <<>> => Timed(segs) # <<>>)
         /\ \A m, x, y : Runs(segs, m, x, y) => Runs(Timed(segs), m, x, y)
<1>1. PICK timed : timed = Timed(segs)
  OBVIOUS
<1>2. PICK n \in Nat : n = Len(segs) /\ DOMAIN segs = 1 .. n
  OBVIOUS
<1>3. timed = [i \in 1 .. n |-> timed[i]] /\ DOMAIN timed = 1 .. n
  BY <1>1, <1>2 DEF Timed
<1>4. ASSUME NEW i \in 1 .. n
      PROVE  /\ timed[i] \in SlowLegs(r)
             /\ timed[i].start = segs[i].start /\ timed[i].end = segs[i].end
  <2>1. PICK least : least = (IF i = 1 /\ config.zeroStart THEN ZeroDuration ELSE IkDuration)
    OBVIOUS
  <2>2. least \in Nat \ {0}
    BY <2>1, IkAssumption
  <2>3. segs[i] \in Legs(r)
    BY <1>2
  <2>4. segs[i].start \in Poses(r) /\ segs[i].end \in Poses(r)
    BY <2>3 DEF Legs
  <2>5. timed[i] = Segment(segs[i].start, segs[i].end,
                           QuinticDuration(segs[i].start, segs[i].end, least))
    BY <1>1, <1>2, <2>1 DEF Timed
  <2>6. timed[i] \in SlowLegs(r)
    BY <2>2, <2>4, <2>5, QuinticIsSlow
  <2>7. QED
    BY <2>5, <2>6 DEF Segment
<1>5. timed \in Seq(SlowLegs(r)) /\ Len(timed) = n
  BY <1>3, <1>4
<1>6. segs # <<>> <=> timed # <<>>
  BY <1>2, <1>5, EmptyIs
<1>7. ASSUME NEW m, NEW x, NEW y, Runs(segs, m, x, y) PROVE Runs(timed, m, x, y)
  <2>1. Joined(timed, m)
    <3>1. ASSUME NEW i \in 1 .. n - 1 PROVE timed[i].end[m] = timed[i + 1].start[m]
      <4>1. i \in 1 .. n /\ i + 1 \in 1 .. n /\ segs[i].end[m] = segs[i + 1].start[m]
        BY <1>2, <1>7 DEF Runs, Joined
      <4>2. QED
        BY <1>4, <4>1
    <3>2. QED
      BY <1>5, <3>1 DEF Joined
  <2>2. CASE segs = <<>>
    BY <1>6, <1>7, <2>1, <2>2 DEF Runs
  <2>3. CASE segs # <<>>
    <3>1. 1 \in 1 .. n /\ n \in 1 .. n
      BY <1>2, <2>3, EmptyIs
    <3>2. timed[1].start = segs[1].start /\ timed[n].end = segs[n].end
      BY <1>4, <3>1
    <3>3. QED
      BY <1>2, <1>5, <1>6, <1>7, <2>1, <2>3, <3>2 DEF Runs
  <2>4. QED
    BY <2>2, <2>3
<1>8. QED
  BY <1>1, <1>5, <1>6, <1>7

-----------------------------------------------------------------------------
(* The motions of joint_sweep_node *)

\* The poses and the segments of the sweep.
SweepPoses == Poses(SweepReach)

SweepLegs == {s \in Legs(SweepReach) : s.duration \in {InitialDuration, SegmentDuration}}

\* Where a motion leaves a motor that was at x.
EndAt(segs, m, x) == IF segs = <<>> THEN x ELSE segs[Len(segs)].end[m]

\* A segment of the sweep between two of its poses.
LEMMA SweepLeg ==
  ASSUME NEW from \in SweepPoses, NEW to \in SweepPoses,
         NEW d \in {InitialDuration, SegmentDuration}
  PROVE  Segment(from, to, d) \in SweepLegs
BY SweepAssumption DEF Segment, SweepLegs, Legs, SweepPoses

\* A pose that is laid over with positions in reach is in reach.
LEMMA OverlayReach ==
  ASSUME NEW r \in Nat, NEW base \in Poses(r), NEW target,
         \A m \in DOMAIN target : target[m] \in -r .. r
  PROVE  /\ Overlay(base, target) \in Poses(r)
         /\ \A m \in MotorIds :
              Overlay(base, target)[m] = IF m \in DOMAIN target THEN target[m] ELSE base[m]
<1> DEFINE P == Overlay(base, target)
<1>1. /\ P = [m \in MotorIds |-> P[m]]
      /\ \A m \in MotorIds : P[m] = IF m \in DOMAIN target THEN target[m] ELSE base[m]
  BY DEF Overlay
<1> HIDE DEF P
<1>2. \A m \in MotorIds : P[m] \in -r .. r
  BY <1>1 DEF Poses
<1>3. P \in Poses(r)
  BY <1>1, <1>2 DEF Poses
<1>4. QED
  BY <1>1, <1>3 DEF P

\* What the parameters of the sweep name is in reach.
SweepReaches ==
  /\ config.node = "sweep"
  /\ \A m \in DOMAIN config.fixed : config.fixed[m] \in -SweepReach .. SweepReach

\* A pose of the sweep, motor by motor.
LEMMA SweepPoseIs ==
  ASSUME SweepReaches, NEW from \in SweepPoses, NEW v \in -SweepReach .. SweepReach
  PROVE  /\ SweepPose(from, v) \in SweepPoses
         /\ \A m \in MotorIds :
              SweepPose(from, v)[m] =
                IF m \in config.sweep THEN v
                ELSE IF m \in DOMAIN config.fixed THEN config.fixed[m] ELSE from[m]
<1> DEFINE target == [m \in config.sweep |-> v]
           base == Overlay(from, config.fixed)
<1>1. SweepReach \in Nat
  BY SweepAssumption
<1>2. /\ base \in SweepPoses
      /\ \A m \in MotorIds :
           base[m] = IF m \in DOMAIN config.fixed THEN config.fixed[m] ELSE from[m]
  BY <1>1, OverlayReach DEF SweepReaches, SweepPoses
<1>3. DOMAIN target = config.sweep /\ \A m \in config.sweep : target[m] = v
  OBVIOUS
<1> HIDE DEF base, target
<1>4. /\ Overlay(base, target) \in SweepPoses
      /\ \A m \in MotorIds :
           Overlay(base, target)[m] = IF m \in DOMAIN target THEN target[m] ELSE base[m]
  BY <1>1, <1>2, <1>3, OverlayReach DEF SweepPoses
<1>5. SweepPose(from, v) = Overlay(base, target)
  BY DEF SweepPose, base, target
<1>6. QED
  BY <1>2, <1>3, <1>4, <1>5

\* A round goes from pose to pose, and to the first one unless the motors are there.
LEMMA RoundRuns ==
  ASSUME NEW from \in SweepPoses, NEW poses \in Seq(SweepPoses), poses # <<>>, NEW among
  PROVE  /\ SweepRound(from, poses, among) \in Seq(SweepLegs)
         /\ \A m \in MotorIds :
              (Differ(from, poses[1], among) \/ from[m] = poses[1][m]) =>
                Runs(SweepRound(from, poses, among), m, from[m], poses[Len(poses)][m])
<1>1. PICK n \in Nat \ {0} : n = Len(poses)
  BY EmptyIs
<1>2. \A i \in 1 .. n : poses[i] \in SweepPoses
  BY <1>1
<1>3. PICK in : in = IF Differ(from, poses[1], among)
                     THEN <<Segment(from, poses[1], InitialDuration)>> ELSE <<>>
  OBVIOUS
<1>4. PICK round : round = [i \in 1 .. n - 1 |-> Segment(poses[i], poses[i + 1], SegmentDuration)]
  OBVIOUS
<1>5. SweepRound(from, poses, among) = in \o round
  BY <1>1, <1>3, <1>4 DEF SweepRound
<1>6. Segment(from, poses[1], InitialDuration) \in SweepLegs
  BY <1>2, SweepLeg
<1>7. in \in Seq(SweepLegs)
  BY <1>3, <1>6
<1>8. ASSUME NEW i \in 1 .. n - 1
      PROVE  /\ round[i] \in SweepLegs
             /\ round[i].start = poses[i] /\ round[i].end = poses[i + 1]
  <2>1. i \in 1 .. n /\ i + 1 \in 1 .. n /\ round[i] = Segment(poses[i], poses[i + 1], SegmentDuration)
    BY <1>4
  <2>2. round[i] \in SweepLegs
    BY <1>2, <2>1, SweepLeg
  <2>3. QED
    BY <2>1, <2>2 DEF Segment
<1>9. round \in Seq(SweepLegs) /\ Len(round) = n - 1
  <2>1. round = [i \in 1 .. n - 1 |-> round[i]] /\ n - 1 \in Nat
    BY <1>4
  <2>2. QED
    BY <1>8, <2>1
<1>10. ASSUME NEW m \in MotorIds, Differ(from, poses[1], among) \/ from[m] = poses[1][m]
       PROVE  Runs(in \o round, m, from[m], poses[n][m])
  <2>1. Runs(in, m, from[m], poses[1][m])
    <3>1. CASE Differ(from, poses[1], among)
      <4>1. in = <<Segment(from, poses[1], InitialDuration)>>
        BY <1>3, <3>1
      <4>2. QED
        BY <4>1 DEF Runs, Joined, Segment
    <3>2. CASE ~Differ(from, poses[1], among)
      <4>1. in = <<>> /\ from[m] = poses[1][m]
        BY <1>3, <1>10, <3>2
      <4>2. QED
        BY <4>1 DEF Runs, Joined
    <3>3. QED
      BY <3>1, <3>2
  <2>2. Runs(round, m, poses[1][m], poses[n][m])
    <3>1. Joined(round, m)
      <4>1. ASSUME NEW i \in 1 .. (n - 1) - 1 PROVE round[i].end[m] = round[i + 1].start[m]
        <5>1. i \in 1 .. n - 1 /\ i + 1 \in 1 .. n - 1
          OBVIOUS
        <5>2. QED
          BY <1>8, <5>1
      <4>2. QED
        BY <1>9, <4>1 DEF Joined
    <3>2. CASE n = 1
      <4>1. round = <<>>
        BY <1>9, <3>2, EmptyIs
      <4>2. QED
        BY <3>1, <3>2, <4>1 DEF Runs
    <3>3. CASE n # 1
      <4>1. 1 \in 1 .. n - 1 /\ n - 1 \in 1 .. n - 1 /\ (n - 1) + 1 = n
        BY <3>3
      <4>2. round[1].start = poses[1] /\ round[n - 1].end = poses[n]
        BY <1>8, <4>1
      <4>3. round # <<>>
        BY <1>9, <3>3
      <4>4. QED
        BY <1>9, <3>1, <4>2, <4>3 DEF Runs
    <3>4. QED
      BY <3>2, <3>3
  <2>3. QED
    BY <1>7, <1>9, <2>1, <2>2, RunsJoin
<1>11. in \o round \in Seq(SweepLegs)
  BY <1>7, <1>9
<1>12. QED
  BY <1>1, <1>5, <1>10, <1>11

\* The waypoints lie in reach.
WaypointsReach ==
  /\ Len(config.targets) \in Nat /\ DOMAIN config.targets = 1 .. Len(config.targets)
  /\ \A i \in DOMAIN config.targets :
       /\ DOMAIN config.targets[i] \subseteq config.sweep
       /\ \A m \in DOMAIN config.targets[i] :
            config.targets[i][m] \in -SweepReach .. SweepReach

\* The pose at a waypoint.
NextPose(p, i) == Overlay(Overlay(p, config.fixed), config.targets[i])

\* The pose at a waypoint is in reach, and keeps the motors nobody names.
LEMMA NextPoseIs ==
  ASSUME SweepReaches, WaypointsReach, NEW p \in SweepPoses, NEW i \in DOMAIN config.targets
  PROVE  /\ NextPose(p, i) \in SweepPoses
         /\ \A m \in MotorIds \ Required : NextPose(p, i)[m] = p[m]
<1>1. SweepReach \in Nat
  BY SweepAssumption
<1>2. PICK base : base = Overlay(p, config.fixed)
  OBVIOUS
<1>3. /\ base \in SweepPoses
      /\ \A m \in MotorIds :
           base[m] = IF m \in DOMAIN config.fixed THEN config.fixed[m] ELSE p[m]
  BY <1>1, <1>2, OverlayReach DEF SweepReaches, SweepPoses
<1>4. PICK target : target = config.targets[i]
  OBVIOUS
<1>5. /\ DOMAIN target \subseteq config.sweep
      /\ \A m \in DOMAIN target : target[m] \in -SweepReach .. SweepReach
  BY <1>4 DEF WaypointsReach
<1>6. /\ Overlay(base, target) \in SweepPoses
      /\ \A m \in MotorIds :
           Overlay(base, target)[m] = IF m \in DOMAIN target THEN target[m] ELSE base[m]
  BY <1>1, <1>3, <1>5, OverlayReach DEF SweepPoses
<1>7. QED
  BY <1>2, <1>3, <1>4, <1>5, <1>6 DEF NextPose, Required

\* A motion along waypoints leaves out the legs on which no motor moves.
LEMMA WaypointsRun ==
  ASSUME SweepReaches, WaypointsReach, NEW from \in SweepPoses
  PROVE  /\ WaypointSegments(from) \in Seq(SweepLegs)
         /\ \A m \in MotorIds : \E y : Runs(WaypointSegments(from), m, from[m], y)
<1>1. PICK n \in Nat : n = Len(config.targets) /\ DOMAIN config.targets = 1 .. n
  BY DEF WaypointsReach
<1> DEFINE D(f) == f = [i \in 0 .. n |->
                          IF i = 0 THEN from
                          ELSE Overlay(Overlay(f[i - 1], config.fixed), config.targets[i])]
           pose == CHOOSE f : D(f)
<1>2. \E h : D(h) /\ h \in [0 .. n -> SweepPoses]
  <2> DEFINE next == [kp \in (1 .. n) \X SweepPoses |-> NextPose(kp[2], kp[1])]
  <2>1. next \in [(1 .. n) \X SweepPoses -> SweepPoses]
    <3>1. \A k \in 1 .. n : \A p \in SweepPoses : NextPose(p, k) \in SweepPoses
      BY <1>1, NextPoseIs
    <3>2. QED
      BY <3>1
  <2>2. PICK h : h \in Recursions(n, SweepPoses, from, next)
    <3> HIDE DEF next
    <3>1. Recursions(n, SweepPoses, from, next) # {}
      BY <2>1, RecursionExists
    <3>2. QED
      BY <3>1
  <2>3. h \in [0 .. n -> SweepPoses] /\ h[0] = from
    BY <2>2 DEF Recursions
  <2>4. ASSUME NEW k \in 1 .. n
        PROVE  h[k] = Overlay(Overlay(h[k - 1], config.fixed), config.targets[k])
    <3>1. h[k] = next[<<k, h[k - 1]>>]
      <4> HIDE DEF next
      <4> QED BY <2>2 DEF Recursions
    <3>2. k - 1 \in 0 .. n /\ h[k - 1] \in SweepPoses
      BY <2>3
    <3>3. next[<<k, h[k - 1]>>] = NextPose(h[k - 1], k)
      BY <3>2
    <3>4. QED
      BY <3>1, <3>3 DEF NextPose
  <2>5. D(h)
    <3>1. h = [i \in 0 .. n |-> h[i]]
      BY <2>3
    <3>2. \A i \in 0 .. n : h[i] = IF i = 0 THEN from
                                   ELSE Overlay(Overlay(h[i - 1], config.fixed), config.targets[i])
      BY <2>3, <2>4
    <3>3. QED
      BY <3>1, <3>2
  <2>6. QED
    BY <2>3, <2>5
<1>3. D(pose)
  BY <1>2
<1> DEFINE leg(i) == Segment(pose[i - 1], pose[i],
                             IF i = 1 THEN InitialDuration ELSE SegmentDuration)
           part(i) == IF Differ(pose[i - 1], pose[i], Required) THEN <<leg(i)>> ELSE <<>>
           parts == [i \in DOMAIN config.targets |-> part(i)]
<1>4. WaypointSegments(from) = FlattenSeq(parts)
  BY <1>1 DEF WaypointSegments
<1> HIDE DEF pose
<1>5. pose[0] = from /\ \A i \in 1 .. n : pose[i] = NextPose(pose[i - 1], i)
  BY <1>3 DEF NextPose
<1> HIDE DEF D
<1> DEFINE Good == {i \in 0 .. n : pose[i] \in SweepPoses}
<1>6. \A i \in 0 .. n : pose[i] \in SweepPoses
  <2>1. 0 \in Good
    BY <1>5
  <2>2. ASSUME NEW k \in 1 .. n, k - 1 \in Good PROVE k \in Good
    <3>1. pose[k - 1] \in SweepPoses
      BY <2>2
    <3>2. NextPose(pose[k - 1], k) \in SweepPoses
      BY <1>1, <3>1, NextPoseIs
    <3>3. QED
      BY <1>5, <3>2
  <2>3. Climbs(Good, n)
    <3> HIDE DEF Good
    <3> QED BY <2>1, <2>2 DEF Climbs
  <2>4. \A i \in 0 .. n : i \in Good
    <3> HIDE DEF Good
    <3> QED BY <2>3, CountUp
  <2>5. QED
    BY <2>4
<1>7. ASSUME NEW i \in 1 .. n
      PROVE  /\ part(i) \in Seq(SweepLegs)
             /\ \A m \in MotorIds : Runs(part(i), m, pose[i - 1][m], pose[i][m])
  <2>1. PICK past : past = pose[i - 1] /\ past \in SweepPoses
    BY <1>6
  <2>2. PICK now : now = pose[i] /\ now \in SweepPoses
    BY <1>6
  <2>3. now = NextPose(past, i)
    BY <1>5, <2>1, <2>2
  <2>4. PICK d : d = (IF i = 1 THEN InitialDuration ELSE SegmentDuration)
    OBVIOUS
  <2>5. Segment(past, now, d) \in SweepLegs
    BY <2>1, <2>2, <2>4, SweepLeg
  <2>6. part(i) = IF Differ(past, now, Required) THEN <<Segment(past, now, d)>> ELSE <<>>
    BY <2>1, <2>2, <2>4
  <2> HIDE DEF part
  <2>7. CASE Differ(past, now, Required)
    <3>1. part(i) = <<Segment(past, now, d)>>
      BY <2>6, <2>7
    <3>2. \A m \in MotorIds : Runs(part(i), m, past[m], now[m])
      BY <3>1 DEF Runs, Joined, Segment
    <3>3. QED
      BY <2>1, <2>2, <2>5, <3>1, <3>2
  <2>8. CASE ~Differ(past, now, Required)
    <3>1. part(i) = <<>>
      BY <2>6, <2>8
    <3>2. \A m \in MotorIds : past[m] = now[m]
      <4>1. \A m \in MotorIds \ Required : now[m] = past[m]
        BY <1>1, <2>1, <2>3, NextPoseIs
      <4>2. \A m \in Required : past[m] = now[m]
        BY <2>8 DEF Differ
      <4>3. QED
        BY <4>1, <4>2
    <3>3. \A m \in MotorIds : Runs(part(i), m, past[m], now[m])
      BY <3>1, <3>2 DEF Runs, Joined
    <3>4. QED
      BY <2>1, <2>2, <3>1, <3>3
  <2>9. QED
    BY <2>7, <2>8
<1>8. parts \in Seq(Seq(SweepLegs)) /\ Len(parts) = n /\ \A i \in 1 .. n : parts[i] = part(i)
  <2> HIDE DEF part
  <2>1. \A i \in 1 .. n : parts[i] = part(i) /\ parts[i] \in Seq(SweepLegs)
    BY <1>1, <1>7
  <2>2. DOMAIN parts = 1 .. n /\ parts = [i \in 1 .. n |-> parts[i]]
    BY <1>1
  <2> HIDE DEF parts
  <2>3. QED
    BY <2>1, <2>2
<1> HIDE DEF parts, part
<1>9. ASSUME NEW m \in MotorIds PROVE \E y : Runs(FlattenSeq(parts), m, from[m], y)
  <2> DEFINE p == [i \in 0 .. n |-> pose[i][m]]
  <2>1. ASSUME NEW i \in 1 .. n PROVE Runs(parts[i], m, p[i - 1], p[i])
    <3>1. p[i - 1] = pose[i - 1][m] /\ p[i] = pose[i][m]
      OBVIOUS
    <3>2. QED
      BY <1>7, <1>8, <3>1
  <2>2. p[0] = from[m]
    BY <1>5
  <2> HIDE DEF p
  <2>3. RunsOn(parts, m, p)
    BY <1>8, <2>1 DEF RunsOn
  <2>4. Runs(FlattenSeq(parts), m, p[0], p[n])
    BY <1>8, <2>3, FlattenRuns
  <2>5. QED
    BY <2>2, <2>4
<1>10. FlattenSeq(parts) \in Seq(SweepLegs)
  BY <1>8, FlattenIsSeq
<1>11. QED
  BY <1>4, <1>9, <1>10

\* What ReachAssumption says of a sweep.
LEMMA SweepIsInReach ==
  ASSUME config \in Configs, config.node = "sweep"
  PROVE  /\ SweepReaches /\ SweepReach \in Nat
         /\ config.motion \in {"waypoints", "custom", "default", "sine"}
         /\ config.motion = "waypoints" => WaypointsReach
         /\ config.motion = "custom" =>
              {config.high, config.low} \subseteq -SweepReach .. SweepReach
         /\ config.motion \in {"default", "sine"} => config.amplitude \in 0 .. SweepReach
         /\ config.motion = "sine" =>
              /\ config.center \in -SweepReach .. SweepReach /\ config.sineDuration \in Nat
              /\ WaveFlows(config.wave)
              /\ \A i \in 1 .. Len(config.wave) : config.wave[i] \in -SweepReach .. SweepReach
         /\ config.reported \cap SweepPlausible \subseteq -SweepReach .. SweepReach
BY ReachAssumption, SweepAssumption DEF SweepReaches, WaypointsReach, Reachable, Reach

\* The sweep between two positions has no gap.
LEMMA CustomRuns ==
  ASSUME config \in Configs, config.node = "sweep", config.motion = "custom",
         NEW from \in SweepPoses
  PROVE  /\ CustomSegments(from) \in Seq(SweepLegs)
         /\ \A m \in MotorIds : \E y : Runs(CustomSegments(from), m, from[m], y)
<1>1. PICK high, low : high = SweepPose(from, config.high) /\ low = SweepPose(from, config.low)
  OBVIOUS
<1>2. /\ high \in SweepPoses /\ low \in SweepPoses
      /\ \A m \in MotorIds \ Required : high[m] = from[m]
  BY <1>1, SweepIsInReach, SweepPoseIs DEF Required
<1>3. PICK poses : poses = <<high, low, high>>
  OBVIOUS
<1>4. poses \in Seq(SweepPoses) /\ poses # <<>> /\ poses[1] = high
  BY <1>2, <1>3
<1>5. CustomSegments(from) = SweepRound(from, poses, Required)
  BY <1>1, <1>3 DEF CustomSegments
<1>6. ASSUME NEW m \in MotorIds PROVE Differ(from, poses[1], Required) \/ from[m] = poses[1][m]
  BY <1>2, <1>4 DEF Differ
<1>7. QED
  BY <1>4, <1>5, <1>6, RoundRuns

\* Nor has the sweep through zero, for the motors that are not set at once.
LEMMA DefaultRuns ==
  ASSUME config \in Configs, config.node = "sweep", config.motion \in {"default", "sine"},
         NEW from \in SweepPoses
  PROVE  /\ DefaultSegments(from) \in Seq(SweepLegs)
         /\ \A m \in MotorIds \ (DOMAIN config.fixed \ config.sweep) :
              \E y : Runs(DefaultSegments(from), m, from[m], y)
<1>1. PICK zero, low, high :
        /\ zero = SweepPose(from, 0) /\ low = SweepPose(from, -config.amplitude)
        /\ high = SweepPose(from, config.amplitude)
  OBVIOUS
<1>2. /\ zero \in SweepPoses /\ low \in SweepPoses /\ high \in SweepPoses
      /\ \A m \in MotorIds : m \notin config.sweep => m \in DOMAIN config.fixed \/ zero[m] = from[m]
  <2>1. /\ 0 \in -SweepReach .. SweepReach /\ config.amplitude \in -SweepReach .. SweepReach
        /\ -config.amplitude \in -SweepReach .. SweepReach
    BY SweepIsInReach
  <2>2. QED
    BY <1>1, <2>1, SweepIsInReach, SweepPoseIs
<1>3. PICK poses : poses = <<zero, low, zero, high, zero>>
  OBVIOUS
<1>4. poses \in Seq(SweepPoses) /\ poses # <<>> /\ poses[1] = zero
  BY <1>2, <1>3
<1>5. DefaultSegments(from) = SweepRound(from, poses, config.sweep)
  BY <1>1, <1>3 DEF DefaultSegments
<1>6. ASSUME NEW m \in MotorIds \ (DOMAIN config.fixed \ config.sweep)
      PROVE  Differ(from, poses[1], config.sweep) \/ from[m] = poses[1][m]
  BY <1>2, <1>4 DEF Differ
<1>7. QED
  BY <1>4, <1>5, <1>6, RoundRuns

\* No motion the sweep builds has a gap.
LEMMA BuildRuns ==
  ASSUME config \in Configs, config.node = "sweep", config.motion # "sine" \/ config.repeat,
         NEW from \in SweepPoses
  PROVE  /\ BuildSegments(from) \in Seq(SweepLegs)
         /\ \A m \in MotorIds \ SetAtOnce : \E y : Runs(BuildSegments(from), m, from[m], y)
<1>1. CASE config.motion = "waypoints"
  BY <1>1, SweepIsInReach, WaypointsRun DEF BuildSegments
<1>2. CASE config.motion = "custom"
  BY <1>2, CustomRuns DEF BuildSegments
<1>3. CASE config.motion = "default" \/ (config.motion = "sine" /\ config.repeat)
  <2>1. SetAtOnce = DOMAIN config.fixed \ config.sweep
    BY <1>3 DEF SetAtOnce
  <2>2. BuildSegments(from) = DefaultSegments(from)
    BY <1>3 DEF BuildSegments
  <2>3. QED
    BY <1>3, <2>1, <2>2, DefaultRuns
<1>4. QED
  BY <1>1, <1>2, <1>3, SweepIsInReach

\* Division with remainder, for a divisor that is not a number.
LEMMA Remainder ==
  ASSUME NEW x \in Nat, NEW n \in Nat \ {0}
  PROVE  /\ x % n \in 0 .. n - 1
         /\ \A full \in Nat, k \in 0 .. n - 1 : x = n * full + k => x % n = k
<1> DEFINE d == x \div n
           e == x % n
<1>1. d \in Nat /\ e \in 0 .. n - 1 /\ x = n * d + e
  OBVIOUS
<1> HIDE DEF d, e
<1>2. ASSUME NEW full \in Nat, NEW k \in 0 .. n - 1, x = n * full + k PROVE e = k
  <2>1. n * full + k = n * d + e
    BY <1>1, <1>2
  <2>2. ~(full < d)
    <3> SUFFICES ASSUME full < d PROVE FALSE
      OBVIOUS
    <3>1. n * (full + 1) <= n * d
      BY <1>1
    <3>2. n * (full + 1) = n * full + n
      OBVIOUS
    <3>3. PICK a, b : a = n * full /\ b = n * d /\ a \in Int /\ b \in Int
      BY <1>1
    <3>4. QED
      BY <1>1, <2>1, <3>1, <3>2, <3>3
  <2>3. ~(d < full)
    <3> SUFFICES ASSUME d < full PROVE FALSE
      OBVIOUS
    <3>1. n * (d + 1) <= n * full
      BY <1>1
    <3>2. n * (d + 1) = n * d + n
      BY <1>1
    <3>3. PICK a, b : a = n * full /\ b = n * d /\ a \in Int /\ b \in Int
      BY <1>1
    <3>4. QED
      BY <1>1, <2>1, <3>1, <3>2, <3>3
  <2>4. full = d
    BY <1>1, <2>2, <2>3
  <2>5. PICK a : a = n * d /\ a \in Int
    BY <1>1
  <2>6. QED
    BY <1>1, <1>2, <2>4, <2>5
<1>3. QED
  BY <1>1, <1>2 DEF e

\* The wave at any time.
LEMMA WaveIs ==
  ASSUME config \in Configs, config.node = "sweep", config.motion = "sine",
         NEW ref \in SweepPoses, NEW t \in Nat
  PROVE  /\ SineAt(ref, t) \in SweepPoses /\ SineCenter(ref) \in SweepPoses
         /\ \A m \in MotorIds :
              SineAt(ref, t)[m] = IF m \in config.sweep
                                  THEN config.wave[(t % Len(config.wave)) + 1] ELSE ref[m]
<1>1. PICK n \in Nat \ {0} : n = Len(config.wave)
  BY SweepIsInReach DEF WaveFlows
<1>2. PICK v : v = config.wave[(t % n) + 1] /\ v \in -SweepReach .. SweepReach
  <2>1. (t % n) + 1 \in 1 .. n
    <3>1. t % n \in 0 .. n - 1
      BY Remainder
    <3>2. QED
      BY <3>1
  <2>2. QED
    BY <1>1, <2>1, SweepIsInReach
<1>3. SweepReach \in Nat
  BY SweepAssumption
<1>4. PICK target : target = [m \in config.sweep |-> v]
  OBVIOUS
<1>5. DOMAIN target = config.sweep /\ \A m \in config.sweep : target[m] = v
  BY <1>4
<1>6. SineAt(ref, t) = Overlay(ref, target)
  BY <1>1, <1>2, <1>4 DEF SineAt
<1>7. SineAt(ref, t) \in SweepPoses /\ \A m \in MotorIds :
        SineAt(ref, t)[m] = IF m \in config.sweep THEN v ELSE ref[m]
  BY <1>2, <1>3, <1>5, <1>6, OverlayReach DEF SweepPoses
<1>8. SineCenter(ref) \in SweepPoses
  <2>1. config.center \in -SweepReach .. SweepReach
    BY SweepIsInReach
  <2>2. PICK middle : middle = [m \in config.sweep |-> config.center]
    OBVIOUS
  <2>3. DOMAIN middle = config.sweep /\ \A m \in config.sweep : middle[m] = config.center
    BY <2>2
  <2>4. QED
    BY <1>3, <2>1, <2>2, <2>3, OverlayReach DEF SineCenter, SweepPoses
<1>9. QED
  BY <1>1, <1>2, <1>7, <1>8

\* The remainder of the next number.
LEMMA NextRemainder ==
  ASSUME NEW t \in Nat, NEW n \in Nat \ {0}
  PROVE  (t + 1) % n = IF t % n = n - 1 THEN 0 ELSE (t % n) + 1
<1> DEFINE full == t \div n
           k == t % n
<1>1. full \in Nat /\ k \in 0 .. n - 1 /\ t = n * full + k
  OBVIOUS
<1> HIDE DEF full, k
<1>2. CASE k = n - 1
  <2>1. t + 1 = n * (full + 1) + 0 /\ full + 1 \in Nat /\ 0 \in 0 .. n - 1 /\ t + 1 \in Nat
    BY <1>1, <1>2
  <2>2. (t + 1) % n = 0
    BY <2>1, Remainder
  <2>3. QED
    BY <1>2, <2>2 DEF k
<1>3. CASE k # n - 1
  <2>1. t + 1 = n * full + (k + 1) /\ k + 1 \in 0 .. n - 1 /\ t + 1 \in Nat
    BY <1>1, <1>3
  <2>2. (t + 1) % n = k + 1
    BY <1>1, <2>1, Remainder
  <2>3. QED
    BY <1>3, <2>2 DEF k
<1>4. QED
  BY <1>2, <1>3

\* The wave is slow enough, and it repeats.
LEMMA WaveIsSlow ==
  ASSUME config \in Configs, config.node = "sweep", config.motion = "sine",
         NEW ref \in SweepPoses, NEW t \in Nat, NEW m \in MotorIds
  PROVE  /\ AbsDiff(SineAt(ref, t + 1)[m], SineAt(ref, t)[m]) <= MaxSpeed
         /\ SineAt(ref, t % Len(config.wave))[m] = SineAt(ref, t)[m]
<1>1. PICK n \in Nat \ {0} : n = Len(config.wave)
  BY SweepIsInReach DEF WaveFlows
<1>2. PICK k \in 0 .. n - 1 : k = t % n
  BY Remainder
<1>3. k % n = k
  <2>1. k = n * 0 + k /\ k \in Nat /\ 0 \in Nat
    BY <1>2
  <2>2. QED
    BY <2>1, Remainder
<1>4. (t + 1) % n = IF k = n - 1 THEN 0 ELSE k + 1
  BY <1>2, NextRemainder
<1>5. t + 1 \in Nat /\ k \in Nat
  OBVIOUS
<1>6. SineAt(ref, t)[m] = IF m \in config.sweep THEN config.wave[k + 1] ELSE ref[m]
  BY <1>1, <1>2, WaveIs
<1>7. SineAt(ref, k)[m] = IF m \in config.sweep THEN config.wave[k + 1] ELSE ref[m]
  <2>1. SineAt(ref, k)[m] = IF m \in config.sweep
                            THEN config.wave[(k % Len(config.wave)) + 1] ELSE ref[m]
    BY <1>5, WaveIs
  <2>2. QED
    BY <1>1, <1>3, <2>1
<1>8. SineAt(ref, t + 1)[m] = IF m \in config.sweep
                              THEN config.wave[(IF k = n - 1 THEN 0 ELSE k + 1) + 1] ELSE ref[m]
  <2>1. SineAt(ref, t + 1)[m] = IF m \in config.sweep
                                THEN config.wave[((t + 1) % Len(config.wave)) + 1] ELSE ref[m]
    BY <1>5, WaveIs
  <2>2. QED
    BY <1>1, <1>4, <2>1
<1>9. AbsDiff(config.wave[(IF k = n - 1 THEN 0 ELSE k + 1) + 1], config.wave[k + 1]) <= MaxSpeed
  <2>1. k + 1 \in 1 .. n
    OBVIOUS
  <2>2. PICK x \in Int : x = config.wave[k + 1]
    BY <1>1, <2>1, SweepIsInReach
  <2>3. (IF k = n - 1 THEN 0 ELSE k + 1) + 1 \in 1 .. n
    OBVIOUS
  <2>4. PICK y \in Int : y = config.wave[(IF k = n - 1 THEN 0 ELSE k + 1) + 1]
    BY <1>1, <2>3, SweepIsInReach
  <2>5. (IF k = n - 1 THEN 0 ELSE k + 1) + 1 = IF k + 1 = n THEN 1 ELSE (k + 1) + 1
    OBVIOUS
  <2>6. AbsDiff(x, y) <= MaxSpeed
    BY <1>1, <2>1, <2>2, <2>4, <2>5, SweepIsInReach DEF WaveFlows
  <2>7. AbsDiff(y, x) = AbsDiff(x, y)
    BY DEF AbsDiff
  <2>8. QED
    BY <2>2, <2>4, <2>6, <2>7
<1>10. ref[m] \in Int
  BY SweepAssumption DEF SweepPoses, Poses
<1>11. AbsDiff(ref[m], ref[m]) <= MaxSpeed
  BY <1>10, MotionAssumption DEF AbsDiff
<1>12. QED
  BY <1>1, <1>2, <1>6, <1>7, <1>8, <1>9, <1>11

-----------------------------------------------------------------------------
(* Why commands do not jump: the inductive invariant *)

\* A command c, given s ago, and where the motion is now.
Within(c, x, s) == c = NoCommand \/ AbsDiff(c, x) <= MaxSpeed * s

\* What was heard and sent lies in reach.
Kept(r) ==
  /\ samples \in [MotorIds -> [q : -r .. r, age : Int]]
  /\ command \in [MotorIds -> (-r .. r) \cup {NoCommand}]
  /\ sinceCmd \in [MotorIds -> 0 .. SinceCap]
  /\ elapsed \in Nat /\ reference \in Poses(r)

\* The motion has no gap for the motors the property speaks of.
AllJoined == \A m \in MotorIds \ SetAtOnce : Joined(segments, m)

\* The motion that is played.
Built(r) ==
  segments \in Seq(SlowLegs(r)) /\ segments # <<>> /\ idx \in 1 .. Len(segments) /\ AllJoined

\* Where the motion has the motors at this time.
Now ==
  IF phase = "sine" THEN SineAt(reference, elapsed)
  ELSE IF config.node = "xyz" /\ following = NoGoal THEN reference
  ELSE IF phase = "done" THEN segments[Len(segments)].end
  ELSE NowAt(segments, idx, elapsed)

\* The motors whose commands follow it.
Followed(m) ==
  IF config.node = "xyz" THEN m \in config.controlled /\ phase \in {"moving", "done"}
  ELSE /\ m \notin SetAtOnce
       /\ phase \in {"moving", "sine"} \/ (phase = "done" /\ config.motion # "sine")
       /\ ~(config.node = "ik" /\ repeated)
       /\ ~(config.node = "random" /\ repeated /\ idx = 1)

\* A motor is as near to the motion as the time since its last command allows.
AllNear ==
  \A m \in MotorIds : Followed(m) => Within(command[m], Now[m], sinceCmd[m])

\* The motion that leads to a sine ends where the wave begins.
EndsAtSine == \A m \in MotorIds : segments[Len(segments)].end[m] = SineAt(reference, 0)[m]

\* What holds of the sweep alone.
SweepParts ==
  config.node = "sweep" =>
    /\ phase = "sine" => /\ config.motion = "sine"
                         /\ config.sineDuration > 0 => elapsed <= config.sineDuration
    /\ config.motion = "sine" /\ ~config.repeat /\ phase = "moving" => EndsAtSine

\* random_motion_gc_node sends to the motors it commands, and to no others.
AloneIsSilent == \A m \in MotorIds \ config.commanded : command[m] = NoCommand

\* What holds of the random motions alone: time stops at the end of a segment.
RandomParts ==
  config.node = "random" =>
    /\ phase = "moving" => elapsed <= segments[idx].duration
    /\ AloneIsSilent

\* No motor has been sent anywhere.
NothingSaid == \A m \in MotorIds : command[m] = NoCommand

\* What holds in each phase.
PlayParts ==
  IF config.node = "xyz"
  THEN /\ phase \in {"waiting", "moving", "done"} /\ idx = 1
       /\ following # NoGoal => phase = "moving"
       /\ phase = "moving" => Built(Reach(config)) /\ Len(segments) = 1
  ELSE /\ phase = "waiting" => NothingSaid
       /\ phase = "moving" \/ (phase = "done" /\ config.motion # "sine") => Built(Reach(config))
       /\ phase = "sine" => config.node = "sweep"

\* The nodes that play motions.
Motions == {"sweep", "random", "ik", "xyz"}

\* The inductive invariant: commands are near the motion, which has no gaps.
ContInv ==
  /\ config \in Configs
  /\ config.node \in Motions =>
       Kept(Reach(config)) /\ PlayParts /\ SweepParts /\ RandomParts /\ AllNear

-----------------------------------------------------------------------------
(* Steps of every node *)

\* How far the motors of a configuration go.
LEMMA ReachIs ==
  ASSUME NEW c \in Configs
  PROVE  /\ Reach(c) \in Nat /\ 2 * Reach(c) <= MaxSpeed * SinceCap
         /\ c.node = "sweep" => Reach(c) = SweepReach
         /\ c.node # "sweep" => Reach(c) = MaxReach
         /\ MaxSpeed * SinceCap \in Int
<1>1. PICK p \in Int : p = MaxSpeed * SinceCap
  BY MotionAssumption
<1>2. 2 * MaxReach <= p /\ SweepReach \in 0 .. MaxReach /\ MaxReach \in Nat
  BY <1>1, MotionAssumption, SweepAssumption
<1>3. QED
  BY <1>1, <1>2 DEF Reach

\* Two positions in reach are twice the reach apart at most.
LEMMA ApartAtMost ==
  ASSUME NEW r \in Nat, NEW x \in -r .. r, NEW y \in -r .. r
  PROVE  AbsDiff(x, y) <= 2 * r /\ AbsDiff(x, y) \in Nat
BY DEF AbsDiff

\* In one tick of time, a motion that goes no further than MaxSpeed stays near.
LEMMA TickStaysNear ==
  ASSUME NEW r \in Nat, 2 * r <= MaxSpeed * SinceCap, NEW c \in (-r .. r) \cup {NoCommand},
         NEW x \in -r .. r, NEW y \in -r .. r, NEW s \in 0 .. SinceCap,
         Within(c, x, s), AbsDiff(y, x) <= MaxSpeed
  PROVE  Within(c, y, IF s < SinceCap THEN s + 1 ELSE SinceCap)
<1>1. SUFFICES ASSUME c # NoCommand
               PROVE  AbsDiff(c, y) <= MaxSpeed * (IF s < SinceCap THEN s + 1 ELSE SinceCap)
  BY DEF Within
<1>2. c \in -r .. r
  BY <1>1
<1>3. CASE s < SinceCap
  <2>1. PICK p \in Int : p = MaxSpeed * s
    BY MotionAssumption
  <2>2. MaxSpeed * (s + 1) = p + MaxSpeed
    BY <2>1, MotionAssumption
  <2>3. AbsDiff(c, x) <= p
    BY <1>1, <2>1 DEF Within
  <2>4. AbsDiff(c, y) <= AbsDiff(c, x) + AbsDiff(y, x)
    BY <1>2 DEF AbsDiff
  <2>5. AbsDiff(c, y) \in Nat /\ AbsDiff(c, x) \in Nat /\ AbsDiff(y, x) \in Nat
    BY <1>2, ApartAtMost
  <2>6. AbsDiff(c, y) <= p + MaxSpeed
    BY <2>3, <2>4, <2>5, MotionAssumption
  <2>7. QED
    BY <1>3, <2>2, <2>6
<1>4. CASE ~(s < SinceCap)
  <2>1. PICK p \in Int : p = MaxSpeed * SinceCap
    BY MotionAssumption
  <2>2. AbsDiff(c, y) <= 2 * r /\ AbsDiff(c, y) \in Nat
    BY <1>2, ApartAtMost
  <2>3. AbsDiff(c, y) <= p
    BY <2>1, <2>2
  <2>4. QED
    BY <1>4, <2>1, <2>3
<1>5. QED
  BY <1>3, <1>4

\* What publishing a pose does to the commands of a motor.
LEMMA Published ==
  ASSUME NEW r \in Nat, Kept(r), NEW pose, NEW who, Publish(pose, who),
         NEW m \in MotorIds, m \in who => pose[m] \in -r .. r
  PROVE  /\ command'[m] \in (-r .. r) \cup {NoCommand} /\ sinceCmd'[m] \in 0 .. SinceCap
         /\ m \notin who => command'[m] = command[m] /\ sinceCmd'[m] = sinceCmd[m]
         /\ m \in who => /\ command'[m] = pose[m]
                         /\ Within(command'[m], pose[m], sinceCmd'[m])
         /\ Within(command'[m], command[m], sinceCmd'[m]) \/ m \in who
         /\ \A x \in -r .. r :
              Within(command[m], x, sinceCmd[m]) /\ (m \in who => pose[m] = x) =>
                /\ Within(command'[m], x, sinceCmd'[m])
                /\ command[m] = NoCommand \/ AbsDiff(command'[m], command[m]) <= MaxSpeed * sinceCmd[m]
<1>1. /\ command'[m] = IF m \in who THEN pose[m] ELSE command[m]
      /\ sinceCmd'[m] = IF m \in who THEN 0 ELSE sinceCmd[m]
  BY DEF Publish
<1>2. command[m] \in (-r .. r) \cup {NoCommand} /\ sinceCmd[m] \in 0 .. SinceCap
  BY DEF Kept
<1>3. SinceCap \in Nat /\ MaxSpeed \in Nat /\ 0 \in 0 .. SinceCap
  BY MotionAssumption
<1>4. PICK p \in Nat : p = MaxSpeed * sinceCmd[m]
  <2>1. PICK s \in Nat : s = sinceCmd[m]
    BY <1>2, <1>3
  <2>2. MaxSpeed * s \in Nat
    BY <1>3
  <2>3. QED
    BY <2>1, <2>2
<1>5. MaxSpeed * 0 = 0
  BY <1>3
<1>6. \A x \in -r .. r : AbsDiff(x, x) = 0
  BY DEF AbsDiff
<1>7. m \in who => Within(command'[m], pose[m], sinceCmd'[m])
  BY <1>1, <1>5, <1>6 DEF Within
<1>8. Within(command'[m], command[m], sinceCmd'[m]) \/ m \in who
  BY <1>1, <1>2, <1>4, <1>6 DEF Within
<1>9. ASSUME NEW x \in -r .. r, Within(command[m], x, sinceCmd[m]), m \in who => pose[m] = x
      PROVE  /\ Within(command'[m], x, sinceCmd'[m])
             /\ command[m] = NoCommand \/ AbsDiff(command'[m], command[m]) <= MaxSpeed * sinceCmd[m]
  <2>1. CASE m \in who
    <3>1. \A y \in -r .. r : AbsDiff(x, y) = AbsDiff(y, x)
      BY DEF AbsDiff
    <3>2. command'[m] = x
      BY <1>1, <1>9, <2>1
    <3>3. QED
      BY <1>2, <1>7, <1>9, <2>1, <3>1, <3>2 DEF Within
  <2>2. CASE m \notin who
    <3>1. command[m] = NoCommand \/ AbsDiff(command[m], command[m]) <= p
      BY <1>2, <1>4, <1>6
    <3>2. QED
      BY <1>1, <1>4, <1>9, <2>2, <3>1
  <2>3. QED
    BY <2>1, <2>2
<1>10. command'[m] \in (-r .. r) \cup {NoCommand} /\ sinceCmd'[m] \in 0 .. SinceCap
  BY <1>1, <1>2, <1>3
<1>11. QED
  BY <1>1, <1>7, <1>8, <1>9, <1>10

\* The motion that is played, segment by segment.
LEMMA BuiltIs ==
  ASSUME NEW r \in Nat, Built(r)
  PROVE  /\ segments \in Seq(Legs(r)) /\ Len(segments) \in 1 .. Len(segments)
         /\ segments[Len(segments)].end \in Poses(r) /\ segments[1].start \in Poses(r)
         /\ \A m \in MotorIds : Slow(segments, m)
<1>1. segments \in Seq(SlowLegs(r)) /\ segments # <<>> /\ idx \in 1 .. Len(segments)
  BY DEF Built
<1>2. \A m \in MotorIds : segments \in Seq(Legs(r)) /\ Slow(segments, m)
  BY <1>1, SlowLegsAre
<1>3. PICK m \in MotorIds : TRUE
  BY SegmentsAssumption
<1>4. segments \in Seq(Legs(r)) /\ Len(segments) \in 1 .. Len(segments) /\ 1 \in 1 .. Len(segments)
  BY <1>1, <1>2, <1>3
<1>5. segments[Len(segments)] \in Legs(r) /\ segments[1] \in Legs(r)
  BY <1>4
<1>6. QED
  BY <1>2, <1>4, <1>5 DEF Legs

\* A motor that is followed is where it can be sent.
LEMMA NowIsPose ==
  ASSUME ContInv, config.node \in Motions, NEW m \in MotorIds, Followed(m)
  PROVE  Now[m] \in -Reach(config) .. Reach(config)
<1> DEFINE r == Reach(config)
<1>1. config \in Configs /\ r \in Nat /\ reference \in Poses(r) /\ elapsed \in Nat
  BY ReachIs DEF ContInv, Kept
<1>2. (config.node = "sweep" => r = SweepReach) /\ PlayParts /\ SweepParts
  BY <1>1, ReachIs DEF ContInv
<1> HIDE DEF r
<1>3. Now \in Poses(r)
  <2>1. CASE phase = "sine"
    <3>1. config.node = "sweep" /\ config.motion = "sine"
      BY <1>2, <2>1 DEF PlayParts, SweepParts
    <3>2. SineAt(reference, elapsed) \in SweepPoses
      BY <1>1, <1>2, <3>1, WaveIs DEF SweepPoses
    <3>3. QED
      BY <1>2, <2>1, <3>1, <3>2 DEF Now, SweepPoses
  <2>2. CASE phase # "sine" /\ config.node = "xyz" /\ following = NoGoal
    BY <1>1, <2>2 DEF Now
  <2>3. CASE phase # "sine" /\ ~(config.node = "xyz" /\ following = NoGoal)
    <3>1. Built(r)
      BY <1>2, <2>3 DEF PlayParts, Followed, r
    <3>2. segments \in Seq(Legs(r)) /\ segments[Len(segments)].end \in Poses(r)
      BY <1>1, <3>1, BuiltIs
    <3>3. idx \in 1 .. Len(segments)
      BY <3>1 DEF Built
    <3>4. NowAt(segments, idx, elapsed) \in Poses(r)
      <4>1. PICK j : j = ActiveAt(segments, idx, elapsed) /\ IsActive(segments, idx, elapsed, j)
        BY <1>1, <3>2, <3>3, ActiveIs
      <4>2. QED
        BY <1>1, <3>2, <3>3, <4>1, NowIs
    <3>5. QED
      BY <2>3, <3>2, <3>4 DEF Now
  <2>4. QED
    BY <2>1, <2>2, <2>3
<1>4. QED
  BY <1>3 DEF Poses, r

\* What the motion is, whatever was heard and sent.
theMotion == <<config, phase, segments, idx, elapsed, reference, repeated, following>>

\* Where the same motion has the motors.
LEMMA SameMotion ==
  ASSUME ContInv, UNCHANGED theMotion
  PROVE  /\ config' \in Configs /\ Reach(config)' = Reach(config)
         /\ SetAtOnce' = SetAtOnce /\ Now' = Now
         /\ \A m \in MotorIds : Followed(m)' <=> Followed(m)
         /\ config.node \in Motions => SweepParts'
<1>1. /\ config' = config /\ phase' = phase /\ segments' = segments /\ idx' = idx
      /\ elapsed' = elapsed /\ reference' = reference /\ repeated' = repeated
      /\ following' = following
  BY DEF theMotion
<1>2. config' \in Configs /\ Reach(config)' = Reach(config) /\ SetAtOnce' = SetAtOnce
  BY <1>1 DEF ContInv, Reach, SetAtOnce
<1>4. SineAt(reference, elapsed)' = SineAt(reference, elapsed)
  BY <1>1 DEF SineAt
<1>5. Now' = Now
  BY <1>1, <1>4 DEF Now
<1>6. \A m \in MotorIds : Followed(m)' <=> Followed(m)
  BY <1>1, <1>2 DEF Followed
<1>7. SineAt(reference, 0)' = SineAt(reference, 0)
  BY <1>1 DEF SineAt
<1>8. config.node \in Motions => SweepParts'
  BY <1>1, <1>7 DEF ContInv, SweepParts, EndsAtSine
<1>9. QED
  BY <1>2, <1>5, <1>6, <1>8

\* A motion that is played stays one.
LEMMA StaysBuilt ==
  ASSUME NEW r, Built(r), segments' = segments, idx' \in 1 .. Len(segments), config' = config
  PROVE  Built(r)'
<1>1. SetAtOnce' = SetAtOnce
  BY DEF SetAtOnce
<1>2. QED
  BY <1>1 DEF Built, AllJoined

\* What CommandIsContinuous says of a step.
AllContinue == \A m \in MotorIds \ SetAtOnce : CommandContinues(m)

\* Steps that change neither the motion nor what was sent.
LEMMA HeardIsNear ==
  ASSUME ContInv, UNCHANGED theMotion, UNCHANGED <<command, sinceCmd>>,
         config.node \in Motions => samples' \in [MotorIds -> [q : -Reach(config) .. Reach(config),
                                                              age : Int]]
  PROVE  ContInv' /\ (config.node \in Motions => AllContinue)
<1>1. /\ config' = config /\ phase' = phase /\ segments' = segments /\ idx' = idx
      /\ elapsed' = elapsed /\ reference' = reference /\ repeated' = repeated
      /\ following' = following /\ command' = command /\ sinceCmd' = sinceCmd
  BY DEF theMotion
<1>2. /\ config' \in Configs /\ Reach(config)' = Reach(config) /\ SetAtOnce' = SetAtOnce
      /\ Now' = Now /\ \A m \in MotorIds : Followed(m)' <=> Followed(m)
      /\ config.node \in Motions => SweepParts'
  BY SameMotion
<1>3. ASSUME config.node \in Motions
      PROVE  Kept(Reach(config))' /\ PlayParts' /\ RandomParts' /\ AllNear'
  <2>1. Kept(Reach(config)) /\ PlayParts /\ RandomParts /\ AllNear
    BY <1>3 DEF ContInv
  <2>2. Kept(Reach(config))'
    BY <1>1, <1>2, <1>3, <2>1 DEF Kept
  <2>3. RandomParts'
    BY <1>1, <2>1 DEF RandomParts, AloneIsSilent
  <2>4. AllNear'
    BY <1>1, <1>2, <2>1 DEF AllNear
  <2>5. Built(Reach(config)) => Built(Reach(config))'
    BY <1>1, <1>2 DEF Built, AllJoined
  <2>6. PlayParts'
    BY <1>1, <2>1, <2>5 DEF PlayParts, NothingSaid
  <2>7. QED
    BY <2>2, <2>3, <2>4, <2>6
<1>4. ContInv'
  BY <1>1, <1>2, <1>3 DEF ContInv
<1>5. ASSUME NEW m \in MotorIds, command[m] # NoCommand, config.node \in Motions
      PROVE  AbsDiff(command'[m], command[m]) <= MaxSpeed * sinceCmd[m]
  <2>1. PICK r \in Nat : r = Reach(config)
    BY ReachIs DEF ContInv
  <2>2. command[m] \in -r .. r /\ sinceCmd[m] \in 0 .. SinceCap
    BY <1>5, <2>1 DEF ContInv, Kept
  <2>3. PICK s \in Nat : s = sinceCmd[m]
    BY <2>2, MotionAssumption
  <2>4. AbsDiff(command[m], command[m]) = 0 /\ MaxSpeed * s \in Nat
    BY <2>2, MotionAssumption DEF AbsDiff
  <2>5. QED
    BY <1>1, <2>3, <2>4
<1>6. QED
  BY <1>1, <1>4, <1>5 DEF AllContinue, CommandContinues

\* Feedback changes neither.
LEMMA HearingContinues ==
  ASSUME ContInv, config.node \in Motions, NEW plausible, OnMotorStates(plausible),
         config.reported \cap plausible \subseteq -Reach(config) .. Reach(config),
         following' = following
  PROVE  ContInv' /\ AllContinue
<1>1. PICK r \in Nat : r = Reach(config)
  BY ReachIs DEF ContInv
<1>2. PICK heard \in config.arrays :
        \E found \in [heard -> IF phase = "waiting" \/ config.node = "xyz" THEN config.reported
                           ELSE {0}] :
        samples' = [m \in MotorIds |->
          IF m \in heard /\ found[m] \in plausible THEN [q |-> found[m], age |-> 0]
          ELSE samples[m]]
  BY DEF OnMotorStates
<1>3. PICK found \in [heard -> IF phase = "waiting" \/ config.node = "xyz" THEN config.reported
                           ELSE {0}] :
        samples' = [m \in MotorIds |->
          IF m \in heard /\ found[m] \in plausible THEN [q |-> found[m], age |-> 0]
          ELSE samples[m]]
  BY <1>2
<1>4. samples \in [MotorIds -> [q : -r .. r, age : Int]]
  BY <1>1 DEF ContInv, Kept
<1>5. ASSUME NEW m \in MotorIds
      PROVE  (IF m \in heard /\ found[m] \in plausible THEN [q |-> found[m], age |-> 0]
              ELSE samples[m]) \in [q : -r .. r, age : Int]
  <2>1. ASSUME m \in heard, found[m] \in plausible
        PROVE  found[m] \in -r .. r
    <3>1. found[m] = 0 \/ found[m] \in config.reported
      BY <2>1
    <3>2. 0 \in -r .. r
      OBVIOUS
    <3>3. QED
      BY <1>1, <2>1, <3>1, <3>2
  <2>2. 0 \in Int
    OBVIOUS
  <2>3. QED
    BY <1>4, <2>1, <2>2
<1>6. samples' \in [MotorIds -> [q : -r .. r, age : Int]]
  BY <1>3, <1>5
<1>7. UNCHANGED theMotion /\ UNCHANGED <<command, sinceCmd>>
  BY DEF OnMotorStates, theMotion
<1>8. QED
  BY <1>1, <1>6, <1>7, HeardIsNear

\* A node that is dead sends nothing.
LEMMA DeathContinues ==
  ASSUME ContInv, config.node \in {"sweep", "random", "ik"}, Die
  PROVE  ContInv' /\ AllContinue
<1>1. /\ phase' = "dead"
      /\ UNCHANGED <<config, samples, segments, idx, elapsed, reference, command,
                     sinceCmd, repeated>>
  BY DEF Die
<1>2. PICK r \in Nat : r = Reach(config) /\ r = Reach(config)'
  BY <1>1, ReachIs DEF ContInv, Reach
<1>3. config.node \in Motions /\ config.node # "xyz"
  BY DEF Motions
<1>4. Kept(r) /\ RandomParts
  BY <1>2, <1>3 DEF ContInv
<1>5. Kept(r)'
  BY <1>1, <1>4 DEF Kept
<1>6. RandomParts' /\ SweepParts' /\ PlayParts'
  BY <1>1, <1>3, <1>4 DEF RandomParts, SweepParts, PlayParts, AloneIsSilent
<1>7. \A m \in MotorIds : ~Followed(m)'
  BY <1>1, <1>3 DEF Followed
<1>8. ContInv'
  BY <1>1, <1>2, <1>5, <1>6, <1>7 DEF ContInv, AllNear
<1>9. ASSUME NEW m \in MotorIds, command[m] # NoCommand
      PROVE  AbsDiff(command'[m], command[m]) <= MaxSpeed * sinceCmd[m]
  <2>1. command[m] \in -r .. r /\ sinceCmd[m] \in 0 .. SinceCap
    BY <1>4, <1>9 DEF Kept
  <2>2. PICK s \in Nat : s = sinceCmd[m]
    BY <2>1, MotionAssumption
  <2>3. AbsDiff(command[m], command[m]) = 0 /\ MaxSpeed * s \in Nat
    BY <2>1, MotionAssumption DEF AbsDiff
  <2>4. QED
    BY <1>1, <2>2, <2>3
<1>10. QED
  BY <1>1, <1>8, <1>9 DEF AllContinue, CommandContinues

\* A step of time in which the motion goes no further than it may.
LEMMA TimeContinues ==
  ASSUME ContInv, config.node \in Motions, NEW wrapped \in Nat, TimePasses(wrapped),
         following' = following,
         \A m \in MotorIds : Followed(m) /\ phase \in {"moving", "sine"} =>
           Now'[m] \in -Reach(config) .. Reach(config) /\ AbsDiff(Now'[m], Now[m]) <= MaxSpeed,
         SweepParts', RandomParts'
  PROVE  ContInv' /\ AllContinue
<1>1. /\ config' = config /\ phase' = phase /\ segments' = segments /\ idx' = idx
      /\ reference' = reference /\ command' = command /\ repeated' = repeated
      /\ elapsed' = IF phase \in {"moving", "sine"} THEN wrapped ELSE elapsed
      /\ sinceCmd' = [m \in MotorIds |-> IF sinceCmd[m] < SinceCap THEN sinceCmd[m] + 1
                                         ELSE SinceCap]
      /\ samples' = [m \in MotorIds |->
           [samples[m] EXCEPT !.age = IF @ > MaxStateAge THEN @ ELSE @ + 1]]
  BY DEF TimePasses
<1>2. PICK r \in Nat : r = Reach(config) /\ r = Reach(config)' /\ 2 * r <= MaxSpeed * SinceCap
  BY <1>1, ReachIs DEF ContInv, Reach
<1>3. Kept(r) /\ PlayParts /\ AllNear
  BY <1>2 DEF ContInv
<1>4. Kept(r)'
  <2>1. samples' \in [MotorIds -> [q : -r .. r, age : Int]]
    <3>1. ASSUME NEW m \in MotorIds
          PROVE  samples'[m] \in [q : -r .. r, age : Int]
      <4>1. samples[m] \in [q : -r .. r, age : Int]
        BY <1>3 DEF Kept
      <4>2. QED
        BY <1>1, <4>1
    <3>2. samples' = [m \in MotorIds |-> samples'[m]]
      BY <1>1
    <3>3. QED
      BY <3>1, <3>2
  <2>2. sinceCmd' \in [MotorIds -> 0 .. SinceCap]
    BY <1>1, <1>3, MotionAssumption DEF Kept
  <2>3. elapsed' \in Nat
    BY <1>1, <1>3 DEF Kept
  <2>4. QED
    BY <1>1, <1>3, <2>1, <2>2, <2>3 DEF Kept
<1>5. SetAtOnce' = SetAtOnce
  BY <1>1 DEF SetAtOnce
<1>6. \A m \in MotorIds : Followed(m)' <=> Followed(m)
  BY <1>1, <1>5 DEF Followed
<1>7. PlayParts'
  <2>1. Built(r) => Built(r)'
    BY <1>1, <1>5 DEF Built, AllJoined
  <2>2. QED
    BY <1>1, <1>2, <1>3, <2>1 DEF PlayParts, NothingSaid
<1>8. ASSUME NEW m \in MotorIds, Followed(m)'
      PROVE  Within(command'[m], Now'[m], sinceCmd'[m])
  <2>1. Followed(m) /\ Within(command[m], Now[m], sinceCmd[m])
    BY <1>3, <1>6, <1>8 DEF AllNear
  <2>2. PICK x \in -r .. r : x = Now[m]
    BY <1>2, <2>1, NowIsPose
  <2>3. command[m] \in (-r .. r) \cup {NoCommand} /\ sinceCmd[m] \in 0 .. SinceCap
    BY <1>3 DEF Kept
  <2>4. sinceCmd'[m] = IF sinceCmd[m] < SinceCap THEN sinceCmd[m] + 1 ELSE SinceCap
    BY <1>1
  <2>5. PICK y \in -r .. r : y = Now'[m] /\ AbsDiff(y, x) <= MaxSpeed
    <3>1. CASE phase \in {"moving", "sine"}
      BY <1>2, <2>1, <2>2, <3>1
    <3>2. CASE phase \notin {"moving", "sine"}
      <4>1. phase = "done" /\ (config.node = "xyz" => following = NoGoal)
        BY <1>3, <2>1, <3>2 DEF Followed, PlayParts
      <4>2. Now' = Now
        BY <1>1, <4>1 DEF Now
      <4>3. AbsDiff(x, x) <= MaxSpeed
        BY <1>2, MotionAssumption DEF AbsDiff
      <4>4. QED
        BY <2>2, <4>2, <4>3
    <3>3. QED
      BY <3>1, <3>2
  <2>6. Within(command[m], y, IF sinceCmd[m] < SinceCap THEN sinceCmd[m] + 1 ELSE SinceCap)
    <3>1. PICK c \in (-r .. r) \cup {NoCommand} : c = command[m]
      BY <2>3
    <3>2. PICK s \in 0 .. SinceCap : s = sinceCmd[m]
      BY <2>3
    <3>3. Within(c, x, s)
      BY <2>1, <2>2, <3>1, <3>2
    <3>4. Within(c, y, IF s < SinceCap THEN s + 1 ELSE SinceCap)
      BY <1>2, <2>5, <3>3, TickStaysNear
    <3>5. QED
      BY <3>1, <3>2, <3>4
  <2>7. QED
    BY <1>1, <2>4, <2>5, <2>6
<1>9. ContInv'
  BY <1>1, <1>2, <1>4, <1>7, <1>8 DEF ContInv, AllNear
<1>10. ASSUME NEW m \in MotorIds, command[m] # NoCommand
      PROVE  AbsDiff(command'[m], command[m]) <= MaxSpeed * sinceCmd[m]
  <2>1. command[m] \in -r .. r /\ sinceCmd[m] \in 0 .. SinceCap
    BY <1>3, <1>10 DEF Kept
  <2>2. PICK s \in Nat : s = sinceCmd[m]
    BY <2>1, MotionAssumption
  <2>3. AbsDiff(command[m], command[m]) = 0 /\ MaxSpeed * s \in Nat
    BY <2>1, MotionAssumption DEF AbsDiff
  <2>4. QED
    BY <1>1, <2>2, <2>3
<1>11. QED
  BY <1>1, <1>9, <1>10 DEF AllContinue, CommandContinues

\* Time that stops at the end of the motion changes nothing there.
LEMMA CapIsSlow ==
  ASSUME NEW r \in Nat, Built(r), NEW m \in MotorIds, Joined(segments, m), NEW t \in Nat
  PROVE  /\ CapAtEnd(t + 1) \in Nat
         /\ NowAt(segments, idx, CapAtEnd(t + 1))[m] \in -r .. r
         /\ AbsDiff(NowAt(segments, idx, CapAtEnd(t + 1))[m], NowAt(segments, idx, t)[m]) <= MaxSpeed
<1>1. /\ segments \in Seq(Legs(r)) /\ idx \in 1 .. Len(segments) /\ Slow(segments, m)
      /\ segments[Len(segments)].end \in Poses(r)
  BY BuiltIs DEF Built
<1>2. PICK total \in Nat : total = TotalDuration(segments)
  <2>1. Clock(segments, Begins(segments))
    BY <1>1, BeginsIsClock
  <2>2. Begins(segments)[Len(segments) + 1] \in Nat /\ Begins(segments)[1] = 0
    BY <1>1, <2>1 DEF Clock
  <2>3. QED
    BY <2>2 DEF TotalDuration, Offset
<1>3. CapAtEnd(t + 1) = IF t + 1 > total + 1 THEN total + 1 ELSE t + 1
  BY <1>2 DEF CapAtEnd
<1>4. CASE ~(t + 1 > total + 1)
  <2>1. AbsDiff(NowAt(segments, idx, t + 1)[m], NowAt(segments, idx, t)[m]) <= MaxSpeed
    BY <1>1, NowIsSlow
  <2>2. PICK j : IsActive(segments, idx, t + 1, j)
    BY <1>1, ActiveIs
  <2>3. NowAt(segments, idx, t + 1) \in Poses(r)
    BY <1>1, <2>2, NowIs
  <2>4. QED
    BY <1>3, <1>4, <2>1, <2>3 DEF Poses
<1>5. CASE t + 1 > total + 1
  <2>1. PICK n \in Nat : n = Len(segments)
    BY <1>1
  <2>2. PICK o \in Int : o = Offset(segments, idx, n + 1) /\ o <= total
    BY <1>1, <1>2, <2>1, OffsetSteps DEF TotalDuration
  <2>3. ASSUME NEW u \in Nat, u > total
        PROVE  NowAt(segments, idx, u) = segments[n].end
    <3>1. IsActive(segments, idx, u, n + 1)
      BY <1>1, <2>1, <2>2, <2>3 DEF IsActive
    <3>2. QED
      BY <1>1, <2>1, <3>1, NowIs
  <2>4. PICK x \in -r .. r : x = segments[n].end[m]
    BY <1>1, <2>1 DEF Poses
  <2>5. AbsDiff(x, x) <= MaxSpeed
    BY MotionAssumption DEF AbsDiff
  <2>6. QED
    BY <1>3, <1>5, <2>3, <2>4, <2>5
<1>6. QED
  BY <1>4, <1>5

\* Time passes between segments, or between the goals of the end effector.
LEMMA CapContinues ==
  ASSUME ContInv, config.node \in {"sweep", "ik", "xyz"}, phase # "sine",
         TimePasses(CapAtEnd(elapsed + 1)), following' = following
  PROVE  ContInv' /\ AllContinue
<1>1. PICK r \in Nat : r = Reach(config)
  BY ReachIs DEF ContInv
<1>2. config.node \in Motions /\ config.node # "random"
  BY DEF Motions
<1>3. Kept(r) /\ PlayParts /\ SweepParts /\ elapsed \in Nat
  BY <1>1, <1>2 DEF ContInv, Kept
<1>4. /\ config' = config /\ phase' = phase /\ segments' = segments /\ idx' = idx
      /\ reference' = reference /\ repeated' = repeated /\ following' = following
      /\ elapsed' = IF phase \in {"moving", "sine"} THEN CapAtEnd(elapsed + 1) ELSE elapsed
  BY DEF TimePasses
<1>5. RandomParts'
  BY <1>2, <1>4 DEF RandomParts
<1>6. SweepParts'
  <2>1. SineAt(reference, 0)' = SineAt(reference, 0)
    BY <1>4 DEF SineAt
  <2>2. QED
    BY <1>3, <1>4, <2>1 DEF SweepParts, EndsAtSine
<1>7. ASSUME phase = "moving"
      PROVE  Built(r)
  BY <1>1, <1>3, <1>7 DEF PlayParts
<1>8. ASSUME NEW m \in MotorIds, Followed(m), phase \in {"moving", "sine"}
      PROVE  Now'[m] \in -r .. r /\ AbsDiff(Now'[m], Now[m]) <= MaxSpeed
  <2>1. phase = "moving"
    BY <1>8
  <2>2. CASE config.node = "xyz" /\ following = NoGoal
    <3>1. Now' = reference /\ Now = reference
      BY <1>4, <2>1, <2>2 DEF Now
    <3>2. PICK x \in -r .. r : x = reference[m]
      BY <1>3 DEF Kept, Poses
    <3>3. AbsDiff(x, x) <= MaxSpeed
      BY MotionAssumption DEF AbsDiff
    <3>4. QED
      BY <3>1, <3>2, <3>3
  <2>3. CASE ~(config.node = "xyz" /\ following = NoGoal)
    <3>1. Built(r)
      BY <1>7, <2>1
    <3>2. m \notin SetAtOnce
      BY <1>8 DEF Followed, SetAtOnce
    <3>3. Joined(segments, m)
      BY <3>1, <3>2 DEF Built, AllJoined
    <3>4. Now' = NowAt(segments, idx, CapAtEnd(elapsed + 1)) /\ Now = NowAt(segments, idx, elapsed)
      BY <1>4, <2>1, <2>3 DEF Now
    <3>5. QED
      BY <1>3, <3>1, <3>3, <3>4, CapIsSlow
  <2>4. QED
    BY <2>2, <2>3
<1>9. CASE phase = "moving"
  <2>1. Built(r)
    BY <1>7, <1>9
  <2>2. CapAtEnd(elapsed + 1) \in Nat
    <3>1. segments \in Seq(Legs(r))
      BY <2>1, BuiltIs
    <3>2. Clock(segments, Begins(segments))
      BY <3>1, BeginsIsClock
    <3>3. Begins(segments)[Len(segments) + 1] \in Nat /\ Begins(segments)[1] = 0
      BY <3>1, <3>2 DEF Clock
    <3>4. QED
      BY <1>3, <3>3 DEF CapAtEnd, TotalDuration, Offset
  <2>3. QED
    BY <1>1, <1>2, <1>5, <1>6, <1>8, <2>2, TimeContinues
<1>10. CASE phase # "moving"
  <2>1. TimePasses(elapsed)
    BY <1>10 DEF TimePasses
  <2>2. QED
    BY <1>1, <1>2, <1>3, <1>5, <1>6, <1>8, <2>1, TimeContinues
<1>11. QED
  BY <1>9, <1>10

\* A tick of the sweep, in whose sine time is wrapped.
LEMMA SweepTickContinues ==
  ASSUME ContInv, config.node = "sweep", SweepTick, following' = following
  PROVE  ContInv' /\ AllContinue
<1>1. CASE phase # "sine"
  <2>1. TimePasses(CapAtEnd(elapsed + 1))
    BY <1>1 DEF SweepTick, SweepWrap, TimePasses
  <2>2. QED
    BY <1>1, <2>1, CapContinues
<1>2. CASE phase = "sine"
  <2>1. config.node \in Motions
    BY DEF Motions
  <2>2. PICK r \in Nat : r = Reach(config) /\ r = SweepReach
    BY ReachIs DEF ContInv
  <2>3. /\ Kept(r) /\ SweepParts /\ config \in Configs
        /\ elapsed \in Nat /\ reference \in SweepPoses
    BY <2>1, <2>2 DEF ContInv, Kept, SweepPoses
  <2>4. /\ config.motion = "sine" /\ config.sineDuration \in Nat
        /\ config.sineDuration > 0 => elapsed <= config.sineDuration
    BY <1>2, <2>3, SweepIsInReach DEF SweepParts
  <2>5. PICK n \in Nat \ {0} : n = Len(config.wave)
    BY <2>3, <2>4, SweepIsInReach DEF WaveFlows
  <2>6. PICK t : t = IF config.sineDuration = 0 THEN (elapsed + 1) % n
                     ELSE IF elapsed + 1 > config.sineDuration THEN config.sineDuration
                     ELSE elapsed + 1
    OBVIOUS
  <2>7. TimePasses(t)
    BY <1>2, <2>5, <2>6 DEF SweepTick, SweepWrap
  <2>8. /\ config' = config /\ phase' = phase /\ segments' = segments /\ elapsed' = t
        /\ reference' = reference
    BY <1>2, <2>7 DEF TimePasses
  <2>9. t \in Nat /\ (config.sineDuration > 0 => t <= config.sineDuration)
    <3>1. elapsed + 1 \in Nat
      BY <2>3
    <3>2. PICK k \in 0 .. n - 1 : k = (elapsed + 1) % n
      BY <3>1, Remainder
    <3>3. QED
      BY <2>3, <2>4, <2>6, <3>2
  <2>10. Now = SineAt(reference, elapsed) /\ Now' = SineAt(reference, t)
    <3>1. Now' = SineAt(reference', elapsed')
      BY <1>2, <2>8 DEF Now, SineAt
    <3>2. QED
      BY <1>2, <2>8, <3>1 DEF Now
  <2>11. ASSUME NEW m \in MotorIds
         PROVE  Now'[m] \in -r .. r /\ AbsDiff(Now'[m], Now[m]) <= MaxSpeed
    <3>0. elapsed + 1 \in Nat
      BY <2>3
    <3>1. AbsDiff(SineAt(reference, elapsed + 1)[m], SineAt(reference, elapsed)[m]) <= MaxSpeed
      BY <2>3, <2>4, WaveIsSlow
    <3>2. SineAt(reference, (elapsed + 1) % n)[m] = SineAt(reference, elapsed + 1)[m]
      <4>1. SineAt(reference, (elapsed + 1) % Len(config.wave))[m] = SineAt(reference, elapsed + 1)[m]
        BY <2>3, <2>4, <3>0, WaveIsSlow
      <4>2. QED
        BY <2>5, <4>1
    <3>3. SineAt(reference, elapsed) \in SweepPoses /\ SineAt(reference, t) \in SweepPoses
      BY <2>3, <2>4, <2>9, WaveIs
    <3>4. PICK x \in -r .. r : x = SineAt(reference, elapsed)[m]
      BY <2>2, <3>3 DEF SweepPoses, Poses
    <3>5. AbsDiff(x, x) <= MaxSpeed
      BY MotionAssumption DEF AbsDiff
    <3>6. t = elapsed \/ SineAt(reference, t)[m] = SineAt(reference, elapsed + 1)[m]
      BY <2>3, <2>4, <2>6, <3>2
    <3>7. AbsDiff(SineAt(reference, t)[m], SineAt(reference, elapsed)[m]) <= MaxSpeed
      BY <3>1, <3>4, <3>5, <3>6
    <3>8. SineAt(reference, t)[m] \in -r .. r
      BY <2>2, <3>3 DEF SweepPoses, Poses
    <3>9. QED
      BY <2>10, <3>7, <3>8
  <2>12. SweepParts'
    BY <1>2, <2>4, <2>8, <2>9 DEF SweepParts
  <2>13. RandomParts'
    BY <2>8 DEF RandomParts
  <2>14. QED
    BY <2>1, <2>2, <2>7, <2>9, <2>11, <2>12, <2>13, TimeContinues
<1>3. QED
  BY <1>1, <1>2

\* A tick of the random motions, whose time stops at the end of a segment.
LEMMA RandomTickContinues ==
  ASSUME ContInv, config.node = "random", RandomTick, following' = following
  PROVE  ContInv' /\ AllContinue
<1>1. config.node \in Motions /\ config.node # "xyz"
  BY DEF Motions
<1>2. PICK r \in Nat : r = Reach(config)
  BY ReachIs DEF ContInv
<1>3. Kept(r) /\ RandomParts /\ PlayParts /\ elapsed \in Nat /\ phase # "sine"
  BY <1>1, <1>2 DEF ContInv, Kept, PlayParts
<1>4. PICK t : t = IF phase = "moving" /\ elapsed < segments[idx].duration THEN elapsed + 1
                   ELSE elapsed
  OBVIOUS
<1>5. TimePasses(t) /\ t \in Nat
  BY <1>3, <1>4 DEF RandomTick, TimePasses
<1>6. /\ config' = config /\ phase' = phase /\ segments' = segments /\ idx' = idx
      /\ command' = command /\ elapsed' = t
  BY <1>3, <1>4, <1>5 DEF TimePasses
<1>7. SweepParts'
  BY <1>1, <1>6 DEF SweepParts
<1>8. phase = "moving" => Built(r)
  BY <1>1, <1>2, <1>3 DEF PlayParts
<1>9. RandomParts'
  <2>1. ASSUME phase = "moving"
        PROVE  t <= segments[idx].duration
    <3>1. segments \in Seq(Legs(r)) /\ idx \in 1 .. Len(segments)
      BY <1>8, <2>1, BuiltIs DEF Built
    <3>2. segments[idx].duration \in Nat
      <4>1. segments[idx] \in Legs(r)
        BY <3>1
      <4>2. QED
        BY <4>1 DEF Legs
    <3>3. elapsed <= segments[idx].duration
      BY <1>3, <2>1 DEF RandomParts
    <3>4. QED
      BY <1>3, <1>4, <3>2, <3>3
  <2>2. AloneIsSilent'
    BY <1>3, <1>6 DEF RandomParts, AloneIsSilent
  <2>3. QED
    BY <1>6, <2>1, <2>2 DEF RandomParts
<1>10. ASSUME NEW m \in MotorIds, Followed(m), phase \in {"moving", "sine"}
       PROVE  Now'[m] \in -r .. r /\ AbsDiff(Now'[m], Now[m]) <= MaxSpeed
  <2>1. phase = "moving" /\ Built(r) /\ m \notin SetAtOnce
    BY <1>1, <1>3, <1>8, <1>10 DEF Followed
  <2>2. /\ segments \in Seq(Legs(r)) /\ Slow(segments, m) /\ Joined(segments, m)
        /\ idx \in 1 .. Len(segments)
    BY <2>1, BuiltIs DEF Built, AllJoined
  <2>3. Now' = NowAt(segments, idx, t) /\ Now = NowAt(segments, idx, elapsed)
    BY <1>1, <1>6, <2>1 DEF Now
  <2>4. PICK j : IsActive(segments, idx, t, j)
    BY <1>5, <2>2, ActiveIs
  <2>5. PICK y \in -r .. r : y = NowAt(segments, idx, t)[m]
    BY <1>5, <2>2, <2>4, NowIs DEF Poses
  <2>6. AbsDiff(y, y) <= MaxSpeed
    BY MotionAssumption DEF AbsDiff
  <2>7. t = elapsed \/ t = elapsed + 1
    BY <1>4
  <2>8. AbsDiff(NowAt(segments, idx, elapsed + 1)[m], NowAt(segments, idx, elapsed)[m]) <= MaxSpeed
    BY <1>3, <2>2, NowIsSlow
  <2>9. QED
    BY <2>3, <2>5, <2>6, <2>7, <2>8
<1>11. QED
  BY <1>1, <1>2, <1>5, <1>7, <1>9, <1>10, TimeContinues

\* Where the code may send a motor elsewhere at once.
Excused(m) ==
  \/ config.node = "random" /\ repeated /\ idx = 1
  \/ config.node = "ik" /\ repeated'
  \/ config.motion = "sine" /\ phase' = "done"
  \/ /\ config.node = "xyz" /\ command'[m] = samples[m].q
     /\ phase = "waiting" \/ m \notin config.controlled

\* What a step that publishes has to see to.
InReach(pose, who) ==
  \A m \in MotorIds : m \in who => pose[m] \in -Reach(config) .. Reach(config)

Arrives(pose, who) ==
  \A m \in MotorIds : Followed(m)' =>
    \/ m \in who /\ Now'[m] = pose[m]
    \/ m \notin who /\ (command[m] = NoCommand \/ (Followed(m) /\ Now'[m] = Now[m]))

Departs(pose, who) ==
  \A m \in MotorIds \ SetAtOnce : m \in who =>
    IF command[m] = NoCommand THEN m \in Connected /\ phase = "waiting" => pose[m] = samples[m].q
    ELSE (Followed(m) /\ pose[m] = Now[m]) \/ Excused(m)

\* A step that publishes, when it sees to that.
LEMMA PublishContinues ==
  ASSUME ContInv, config.node \in Motions, NEW pose, NEW who, Publish(pose, who),
         InReach(pose, who), Arrives(pose, who), Departs(pose, who),
         elapsed' \in Nat, reference' \in Poses(Reach(config)),
         PlayParts', SweepParts', RandomParts'
  PROVE  ContInv' /\ AllContinue
<1>1. /\ config' = config /\ samples' = samples
      /\ command' = [m \in MotorIds |-> IF m \in who THEN pose[m] ELSE command[m]]
      /\ sinceCmd' = [m \in MotorIds |-> IF m \in who THEN 0 ELSE sinceCmd[m]]
  BY DEF Publish
<1>2. PICK r \in Nat : r = Reach(config) /\ r = Reach(config)'
  BY <1>1, ReachIs DEF ContInv, Reach
<1>3. Kept(r) /\ AllNear /\ config \in Configs
  BY <1>2 DEF ContInv
<1>4. ASSUME NEW m \in MotorIds
      PROVE  /\ command'[m] \in (-r .. r) \cup {NoCommand} /\ sinceCmd'[m] \in 0 .. SinceCap
             /\ m \notin who => command'[m] = command[m] /\ sinceCmd'[m] = sinceCmd[m]
             /\ m \in who => command'[m] = pose[m] /\ Within(command'[m], pose[m], sinceCmd'[m])
  <2>1. m \in who => pose[m] \in -r .. r
    BY <1>2 DEF InReach
  <2>2. QED
    BY <1>3, <2>1, Published
<1>5. Kept(r)'
  BY <1>1, <1>2, <1>3, <1>4 DEF Kept
<1>6. ASSUME NEW m \in MotorIds, Followed(m)'
      PROVE  Within(command'[m], Now'[m], sinceCmd'[m])
  <2>1. CASE m \in who /\ Now'[m] = pose[m]
    BY <1>4, <2>1
  <2>2. CASE m \notin who /\ command[m] = NoCommand
    BY <1>4, <2>2 DEF Within
  <2>3. CASE m \notin who /\ Followed(m) /\ Now'[m] = Now[m]
    <3>1. Within(command[m], Now[m], sinceCmd[m])
      BY <1>3, <2>3 DEF AllNear
    <3>2. QED
      BY <1>4, <2>3, <3>1
  <2>4. QED
    BY <1>6, <2>1, <2>2, <2>3 DEF Arrives
<1>7. ContInv'
  BY <1>1, <1>2, <1>3, <1>5, <1>6 DEF ContInv, AllNear
<1>8. ASSUME NEW m \in MotorIds \ SetAtOnce, command[m] = NoCommand, m \in Connected,
             phase = "waiting"
      PROVE  command'[m] \in {NoCommand, samples[m].q}
  BY <1>4, <1>8 DEF Departs
<1>9. ASSUME NEW m \in MotorIds \ SetAtOnce, command[m] # NoCommand
      PROVE  AbsDiff(command'[m], command[m]) <= MaxSpeed * sinceCmd[m] \/ Excused(m)
  <2>1. CASE m \in who /\ Excused(m)
    BY <2>1
  <2>2. CASE m \in who /\ Followed(m) /\ pose[m] = Now[m]
    <3>1. Within(command[m], Now[m], sinceCmd[m])
      BY <1>3, <2>2 DEF AllNear
    <3>2. PICK x \in -r .. r : x = pose[m]
      BY <1>2, <2>2 DEF InReach
    <3>3. QED
      BY <1>3, <1>9, <2>2, <3>1, <3>2, Published
  <2>3. CASE m \notin who
    <3>1. command[m] \in -r .. r /\ sinceCmd[m] \in 0 .. SinceCap
      BY <1>3, <1>9 DEF Kept
    <3>2. PICK s \in Nat : s = sinceCmd[m]
      BY <3>1, MotionAssumption
    <3>3. AbsDiff(command[m], command[m]) = 0 /\ MaxSpeed * s \in Nat
      BY <3>1, MotionAssumption DEF AbsDiff
    <3>4. QED
      BY <1>4, <2>3, <3>2, <3>3
  <2>4. QED
    BY <1>9, <2>1, <2>2, <2>3 DEF Departs
<1>10. AllContinue
  BY <1>8, <1>9 DEF AllContinue, CommandContinues, Excused
<1>11. QED
  BY <1>7, <1>10

\* A tick within the motion is where the motion was, whatever it skips.
LEMMA PlayContinues ==
  ASSUME ContInv, config.node \in {"sweep", "ik"}, phase = "moving", NEW who, Play(who),
         following' = following
  PROVE  ContInv' /\ AllContinue
<1>1. config.node \in Motions /\ config.node # "xyz" /\ config.node # "random"
  BY DEF Motions
<1>2. PICK r \in Nat : r = Reach(config)
  BY ReachIs DEF ContInv
<1>3. /\ Kept(r) /\ PlayParts /\ SweepParts /\ Built(r)
      /\ elapsed \in Nat /\ reference \in Poses(r)
  BY <1>1, <1>2 DEF ContInv, Kept, PlayParts
<1>4. PICK j : /\ j = ActiveAt(segments, idx, elapsed) /\ j <= Len(segments) /\ idx' = j
               /\ elapsed' = elapsed - Offset(segments, idx, j)
               /\ Publish(SampleSegment(segments[j], elapsed'), who)
               /\ UNCHANGED <<phase, segments, reference, repeated>>
  BY DEF Play
<1>5. PICK t : t = elapsed'
  OBVIOUS
<1>6. PICK pose : pose = SampleSegment(segments[j], t)
  OBVIOUS
<1>7. segments \in Seq(Legs(r)) /\ idx \in 1 .. Len(segments)
  BY <1>3, BuiltIs DEF Built
<1>8. /\ j \in 1 .. Len(segments) /\ t \in 0 .. segments[j].duration
      /\ NowAt(segments, idx, elapsed) = pose /\ pose \in Poses(r)
  <2>1. IsActive(segments, idx, elapsed, j)
    BY <1>3, <1>4, <1>7, ActiveIs
  <2>2. /\ j \in 1 .. Len(segments) + 1 /\ elapsed - Offset(segments, idx, j) \in 0 .. segments[j].duration
        /\ NowAt(segments, idx, elapsed) = SampleSegment(segments[j], elapsed - Offset(segments, idx, j))
        /\ NowAt(segments, idx, elapsed) \in Poses(r)
    BY <1>3, <1>4, <1>7, <2>1, NowIs
  <2>3. QED
    BY <1>4, <1>5, <1>6, <1>7, <2>2
<1>9. NowAt(segments, j, t) = pose
  <2>1. PICK d \in Nat \ {0} : d = segments[j].duration
    BY <1>7, <1>8, OffsetSteps
  <2>2. Offset(segments, j, j) = 0 /\ Offset(segments, j, j + 1) = d
    BY <1>7, <1>8, <2>1, OffsetSteps
  <2>3. IsActive(segments, j, t, j) /\ t \in Nat
    BY <1>7, <1>8, <2>1, <2>2 DEF IsActive
  <2>4. NowAt(segments, j, t) = SampleSegment(segments[j], t - 0)
    BY <1>4, <1>7, <1>8, <2>2, <2>3, NowIs
  <2>5. QED
    BY <1>6, <2>3, <2>4
<1>10. /\ config' = config /\ phase' = phase /\ segments' = segments /\ reference' = reference
       /\ repeated' = repeated /\ Publish(pose, who) /\ idx' = j /\ elapsed' = t
  BY <1>4, <1>5, <1>6 DEF Publish
<1>11. Now = pose /\ Now' = pose
  BY <1>1, <1>8, <1>9, <1>10 DEF Now
<1>12. SetAtOnce' = SetAtOnce /\ SineAt(reference, 0)' = SineAt(reference, 0)
       /\ Reach(config)' = r
  BY <1>2, <1>10 DEF SetAtOnce, SineAt, Reach
<1>13. \A m \in MotorIds : Followed(m)' <=> Followed(m)
  BY <1>1, <1>10, <1>12 DEF Followed
<1>14. InReach(pose, who)
  BY <1>2, <1>8 DEF InReach, Poses
<1>15. Arrives(pose, who)
  BY <1>11, <1>13 DEF Arrives
<1>16. Departs(pose, who)
  BY <1>1, <1>10, <1>11 DEF Departs, Followed, Excused
<1>17. PlayParts'
  <2>1. Built(r)'
    BY <1>3, <1>8, <1>10, StaysBuilt
  <2>2. QED
    BY <1>1, <1>10, <1>12, <2>1 DEF PlayParts
<1>18. SweepParts' /\ RandomParts'
  BY <1>1, <1>3, <1>10, <1>12 DEF SweepParts, RandomParts, EndsAtSine
<1>19. t \in Nat
  BY <1>7, <1>8, OffsetSteps
<1>20. QED
  BY <1>1, <1>2, <1>3, <1>10, <1>14, <1>15, <1>16, <1>17, <1>18, <1>19, PublishContinues

\* A motion that is over is at its end.
LEMMA OverIsAtEnd ==
  ASSUME NEW r \in Nat, Built(r), elapsed \in Nat, AllOver
  PROVE  NowAt(segments, idx, elapsed) = segments[Len(segments)].end
<1>1. segments \in Seq(Legs(r)) /\ idx \in 1 .. Len(segments)
  BY BuiltIs DEF Built
<1>2. PICK j : /\ IsActive(segments, idx, elapsed, j) /\ j = ActiveAt(segments, idx, elapsed)
  BY <1>1, ActiveIs
<1>3. j > Len(segments)
  BY <1>2 DEF AllOver
<1>4. QED
  BY <1>1, <1>2, <1>3, NowIs

\* A motion that begins is at its start.
LEMMA StartsAtStart ==
  ASSUME NEW r \in Nat, NEW segs \in Seq(SlowLegs(r)), segs # <<>>
  PROVE  /\ segs \in Seq(Legs(r)) /\ 1 \in 1 .. Len(segs) /\ segs[1].start \in Poses(r)
         /\ \A m \in MotorIds : NowAt(segs, 1, 0)[m] = segs[1].start[m]
<1>1. PICK a \in MotorIds : TRUE
  BY SegmentsAssumption
<1>2. segs \in Seq(Legs(r))
  BY SlowLegsAre
<1>3. 1 \in 1 .. Len(segs) /\ Len(segs) \in Nat
  <2>1. Len(segs) # 0 /\ Len(segs) \in Nat
    BY EmptyIs
  <2>2. QED
    BY <2>1
<1>4. PICK s \in Legs(r) : s = segs[1]
  BY <1>2, <1>3
<1>5. PICK d \in Nat \ {0} : d = s.duration
  BY <1>4 DEF Legs
<1>6. Offset(segs, 1, 1) = 0 /\ Offset(segs, 1, 1 + 1) = d
  BY <1>2, <1>3, <1>4, <1>5, OffsetSteps
<1>7. IsActive(segs, 1, 0, 1)
  BY <1>3, <1>5, <1>6 DEF IsActive
<1>8. NowAt(segs, 1, 0) = SampleSegment(s, 0 - 0)
  <2>1. 0 \in Nat /\ 1 <= Len(segs)
    BY <1>3
  <2>2. NowAt(segs, 1, 0) = SampleSegment(segs[1], 0 - Offset(segs, 1, 1))
    BY <1>2, <1>3, <1>7, <2>1, NowIs
  <2>3. QED
    BY <1>4, <1>6, <2>2
<1>9. \A m \in MotorIds : SampleSegment(s, 0)[m] = s.start[m]
  <2>1. 0 \in 0 .. s.duration
    BY <1>5
  <2>2. QED
    BY <2>1, SampleIs
<1>10. QED
  BY <1>2, <1>3, <1>4, <1>8, <1>9 DEF Legs

\* A motion leads on from where its motors are.
LeadsOn(segs, who) ==
  \A m \in MotorIds \ SetAtOnce :
    /\ Joined(segs, m)
    /\ \/ /\ command[m] = NoCommand
          /\ phase = "waiting" /\ m \in who => segs[1].start[m] = samples[m].q
       \/ Followed(m) /\ segs[1].start[m] = Now[m]

\* The first tick of a motion.
LEMMA BeginContinues ==
  ASSUME ContInv, config.node \in {"sweep", "random", "ik"},
         NEW segs \in Seq(SlowLegs(Reach(config))), segs # <<>>, NEW who, BeginWith(segs, who),
         LeadsOn(segs, who), reference' \in Poses(Reach(config)), SweepParts', RandomParts'
  PROVE  ContInv' /\ AllContinue
<1>1. config.node \in Motions /\ config.node # "xyz"
  BY DEF Motions
<1>2. PICK r \in Nat : r = Reach(config)
  BY ReachIs DEF ContInv
<1>3. PICK pose : pose = segs[1].start
  OBVIOUS
<1>4. /\ config' = config /\ phase' = "moving" /\ segments' = segs /\ idx' = 1 /\ elapsed' = 0
      /\ Publish(pose, who)
  BY <1>3 DEF BeginWith, Publish
<1>5. /\ segs \in Seq(Legs(r)) /\ 1 \in 1 .. Len(segs) /\ pose \in Poses(r)
      /\ \A m \in MotorIds : NowAt(segs, 1, 0)[m] = pose[m]
  BY <1>2, <1>3, StartsAtStart
<1>6. Now' = NowAt(segs, 1, 0)
  BY <1>1, <1>4 DEF Now
<1>7. SetAtOnce' = SetAtOnce /\ Reach(config)' = r
  BY <1>2, <1>4 DEF SetAtOnce, Reach
<1>8. ASSUME NEW m \in MotorIds, Followed(m)'
      PROVE  m \in MotorIds \ SetAtOnce
  BY <1>1, <1>4, <1>7, <1>8 DEF Followed
<1>9. Built(r)'
  BY <1>2, <1>4, <1>5, <1>7 DEF LeadsOn, Built, AllJoined
<1>10. PlayParts'
  BY <1>1, <1>4, <1>7, <1>9 DEF PlayParts
<1>11. InReach(pose, who)
  BY <1>2, <1>5 DEF InReach, Poses
<1>12. Arrives(pose, who)
  BY <1>3, <1>5, <1>6, <1>8 DEF Arrives, LeadsOn
<1>13. Departs(pose, who)
  <2>1. \A m \in MotorIds : Followed(m) => phase # "waiting"
    BY <1>1 DEF Followed
  <2>2. QED
    BY <1>3, <2>1 DEF Departs, LeadsOn
<1>14. elapsed' \in Nat
  BY <1>4
<1>15. QED
  BY <1>1, <1>4, <1>10, <1>11, <1>12, <1>13, <1>14, PublishContinues

\* Holding the end of the motion.
LEMMA HoldContinues ==
  ASSUME ContInv, config.node \in {"sweep", "random", "ik"}, config.motion # "sine",
         phase = "done" \/ (phase = "moving" /\ AllOver), NEW who,
         Rest(segments[Len(segments)].end, who),
         config.node = "random" => who = config.commanded
  PROVE  ContInv' /\ AllContinue
<1>1. config.node \in Motions /\ config.node # "xyz"
  BY DEF Motions
<1>2. PICK r \in Nat : r = Reach(config)
  BY ReachIs DEF ContInv
<1>3. /\ Kept(r) /\ PlayParts /\ RandomParts /\ Built(r)
      /\ elapsed \in Nat /\ reference \in Poses(r)
  BY <1>1, <1>2 DEF ContInv, Kept, PlayParts
<1>4. PICK pose : pose = segments[Len(segments)].end
  OBVIOUS
<1>5. /\ config' = config /\ phase' = "done" /\ elapsed' = 0 /\ Publish(pose, who)
      /\ segments' = segments /\ idx' = idx /\ reference' = reference /\ repeated' = repeated
  BY <1>4 DEF Rest, Publish
<1>6. pose \in Poses(r)
  BY <1>3, <1>4, BuiltIs
<1>7. Now' = pose /\ Now = pose
  BY <1>1, <1>3, <1>4, <1>5, OverIsAtEnd DEF Now
<1>8. SetAtOnce' = SetAtOnce /\ Reach(config)' = r
  BY <1>2, <1>5 DEF SetAtOnce, Reach
<1>9. \A m \in MotorIds : Followed(m)' => Followed(m)
  BY <1>1, <1>5, <1>8 DEF Followed
<1>10. InReach(pose, who)
  BY <1>2, <1>6 DEF InReach, Poses
<1>11. Arrives(pose, who)
  BY <1>7, <1>9 DEF Arrives
<1>12. Departs(pose, who)
  BY <1>1, <1>5, <1>7 DEF Departs, Followed, Excused
<1>13. Built(r)'
  BY <1>3, <1>5, StaysBuilt DEF Built
<1>14. PlayParts'
  BY <1>1, <1>5, <1>8, <1>13 DEF PlayParts
<1>15. SweepParts'
  BY <1>5 DEF SweepParts
<1>16. RandomParts'
  BY <1>3, <1>5 DEF RandomParts, AloneIsSilent, Publish
<1>17. elapsed' \in Nat
  BY <1>5
<1>18. QED
  BY <1>1, <1>2, <1>3, <1>5, <1>10, <1>11, <1>12, <1>14, <1>15, <1>16, <1>17, PublishContinues

-----------------------------------------------------------------------------
(* The steps of joint_sweep_node *)

\* The segments of the sweep are slow enough for its reach.
LEMMA SweepLegsAreSlow ==
  ASSUME NEW segs \in Seq(SweepLegs)
  PROVE  segs \in Seq(SlowLegs(SweepReach))
<1>1. \A s \in SweepLegs : s \in SlowLegs(SweepReach)
  BY HalvesAreSlow DEF SweepLegs
<1>2. Len(segs) \in Nat /\ \A i \in 1 .. Len(segs) : segs[i] \in SlowLegs(SweepReach)
  BY <1>1
<1>3. segs = [i \in 1 .. Len(segs) |-> segs[i]]
  OBVIOUS
<1>4. QED
  BY <1>2, <1>3

\* A motion of one segment has no gap.
LEMMA OneLegRuns ==
  ASSUME NEW from \in SweepPoses, NEW to \in SweepPoses, NEW m
  PROVE  /\ <<Segment(from, to, InitialDuration)>> \in Seq(SweepLegs)
         /\ Runs(<<Segment(from, to, InitialDuration)>>, m, from[m], to[m])
<1>1. PICK s \in SweepLegs : s = Segment(from, to, InitialDuration)
  BY SweepLeg
<1>2. s.start = from /\ s.end = to
  BY <1>1 DEF Segment
<1>3. Len(<<s>>) = 1 /\ <<s>>[1] = s /\ <<s>> # <<>>
  OBVIOUS
<1>4. Runs(<<s>>, m, from[m], to[m])
  BY <1>2, <1>3 DEF Runs, Joined
<1>5. QED
  BY <1>1, <1>4

\* A motion without a segment has none either.
LEMMA NoLegRuns ==
  ASSUME NEW S, NEW m, NEW x
  PROVE  <<>> \in Seq(S) /\ Runs(<<>>, m, x, x)
<1>1. Len(<<>>) = 0
  OBVIOUS
<1>2. QED
  BY <1>1 DEF Runs, Joined

\* The motion the sweep has planned goes from where the motors are.
LEMMA SweepPlanRuns ==
  ASSUME config \in Configs, config.node = "sweep", Measured \in SweepPoses
  PROVE  /\ MotionStartPose \in SweepPoses /\ MotionPlan(MotionStartPose) \in Seq(SweepLegs)
         /\ \A m \in MotorIds \ SetAtOnce :
              \E y : Runs(MotionPlan(MotionStartPose), m, Measured[m], y)
         /\ config.motion = "sine" => \A m \in MotorIds :
              Runs(MotionPlan(MotionStartPose), m, Measured[m], SineAt(MotionStartPose, 0)[m])
<1>1. PICK start : start = MotionStartPose
  OBVIOUS
<1>2. Zero \in SweepPoses /\ start \in SweepPoses
  <2>1. Zero \in SweepPoses
    BY SweepAssumption, MotionAssumption DEF Zero, SweepPoses, Poses
  <2>2. QED
    BY <1>1, <2>1 DEF MotionStartPose
<1>3. PICK lead : lead = ToAllZero(Measured)
  OBVIOUS
<1>4. lead \in Seq(SweepLegs) /\ \A m : Runs(lead, m, Measured[m], start[m])
  <2>1. CASE config.zeroStart /\ Measured # Zero
    BY <1>1, <1>2, <1>3, <2>1, OneLegRuns DEF ToAllZero, MotionStartPose
  <2>2. CASE ~(config.zeroStart /\ Measured # Zero)
    BY <1>1, <1>3, <2>2, NoLegRuns DEF ToAllZero, MotionStartPose
  <2>3. QED
    BY <2>1, <2>2
<1>5. PICK rest : rest = IF config.motion = "sine" THEN LeadToSine(start) ELSE BuildSegments(start)
  OBVIOUS
<1>6. MotionPlan(start) = lead \o rest
  BY <1>3, <1>5 DEF MotionPlan
<1>7. CASE config.motion = "sine"
  <2>1. PICK there \in SweepPoses : there = SineAt(start, 0)
    BY <1>2, <1>7, WaveIs
  <2>2. rest \in Seq(SweepLegs) /\ \A m : Runs(rest, m, start[m], there[m])
    <3>1. CASE there # start
      BY <1>2, <1>5, <1>7, <2>1, <3>1, OneLegRuns DEF LeadToSine
    <3>2. CASE there = start
      BY <1>5, <1>7, <2>1, <3>2, NoLegRuns DEF LeadToSine
    <3>3. QED
      BY <3>1, <3>2
  <2>3. \A m : Runs(lead \o rest, m, Measured[m], there[m])
    BY <1>4, <2>2, RunsJoin
  <2>4. lead \o rest \in Seq(SweepLegs)
    BY <1>4, <2>2
  <2>5. QED
    BY <1>1, <1>2, <1>6, <2>1, <2>3, <2>4
<1>8. CASE config.motion # "sine"
  <2>1. rest \in Seq(SweepLegs) /\ \A m \in MotorIds \ SetAtOnce : \E y : Runs(rest, m, start[m], y)
    BY <1>2, <1>5, <1>8, BuildRuns
  <2>2. ASSUME NEW m \in MotorIds \ SetAtOnce
        PROVE  \E y : Runs(lead \o rest, m, Measured[m], y)
    <3>1. PICK y : Runs(rest, m, start[m], y)
      BY <2>1
    <3>2. Runs(lead \o rest, m, Measured[m], y)
      BY <1>4, <2>1, <3>1, RunsJoin
    <3>3. QED
      BY <3>2
  <2>3. lead \o rest \in Seq(SweepLegs)
    BY <1>4, <2>1
  <2>4. QED
    BY <1>1, <1>2, <1>6, <1>8, <2>2, <2>3
<1>9. QED
  BY <1>7, <1>8

\* What becomes of it at the zero crossings.
LEMMA CompletedRuns ==
  ASSUME NEW plan \in Seq(SweepLegs)
  PROVE  /\ InsertZeroCrossings(plan, SweepHalf) \in Seq(SlowLegs(SweepReach))
         /\ \A m, x, y : Runs(plan, m, x, y) => Runs(InsertZeroCrossings(plan, SweepHalf), m, x, y)
<1>1. Len(plan) \in Nat /\ DOMAIN plan = 1 .. Len(plan)
  OBVIOUS
<1>2. \A i \in DOMAIN plan : Halves(plan[i], SweepHalf) \in Seq(SlowLegs(SweepReach))
  <2>1. \A i \in DOMAIN plan : plan[i] \in SweepLegs
    BY <1>1
  <2>2. QED
    BY <2>1, HalvesAreSlow DEF SweepLegs
<1>3. QED
  BY <1>1, <1>2, InsertRuns

\* What the invariant says of the sweep.
LEMMA SweepHas ==
  ASSUME ContInv, config.node = "sweep"
  PROVE  /\ config \in Configs /\ config.node \in Motions /\ Reach(config) = SweepReach
         /\ SweepReach \in Nat /\ Kept(SweepReach) /\ PlayParts /\ SweepParts
         /\ elapsed \in Nat /\ reference \in SweepPoses /\ Measured \in SweepPoses
<1>1. config \in Configs /\ config.node \in Motions
  BY DEF ContInv, Motions
<1>2. Reach(config) = SweepReach /\ SweepReach \in Nat
  BY <1>1, ReachIs, SweepIsInReach
<1>3. Kept(SweepReach) /\ PlayParts /\ SweepParts
  BY <1>1, <1>2 DEF ContInv
<1>4. elapsed \in Nat /\ reference \in SweepPoses /\ Measured \in SweepPoses
  BY <1>3 DEF Kept, SweepPoses, Poses, Measured
<1>5. QED
  BY <1>1, <1>2, <1>3, <1>4

\* The sweep begins where the motors are.
LEMMA SweepBeginsContinues ==
  ASSUME ContInv, config.node = "sweep", SweepBegins, following' = following
  PROVE  ContInv' /\ AllContinue
<1>1. /\ config \in Configs /\ config.node \in Motions /\ config.node # "xyz"
      /\ Reach(config) = SweepReach /\ SweepReach \in Nat /\ Kept(SweepReach)
      /\ PlayParts /\ Measured \in SweepPoses
  BY SweepHas
<1>2. PICK start : start = MotionStartPose
  OBVIOUS
<1>3. PICK plan : plan = MotionPlan(start)
  OBVIOUS
<1>4. PICK segs : segs = InsertZeroCrossings(plan, SweepHalf)
  OBVIOUS
<1>5. phase = "waiting" /\ NothingSaid
  BY <1>1 DEF SweepBegins, PlayParts
<1>6. \/ Die
      \/ /\ reference' = start /\ UNCHANGED repeated
         /\ config.motion = "sine" \/ segs # <<>>
         /\ IF segs # <<>> THEN BeginWith(segs, Connected)
            ELSE /\ phase' = "sine" /\ elapsed' = 0
                 /\ Publish(SineAt(start, 0), Connected)
                 /\ UNCHANGED <<segments, idx>>
  <2>1. IF ~(SweepSegmentsValid(segs) /\ IF config.motion = "sine"
                                         THEN SineIsValid(start) ELSE segs # <<>>)
         THEN Die
         ELSE /\ reference' = start
              /\ UNCHANGED repeated
              /\ IF segs # <<>> THEN BeginWith(segs, Connected)
                 ELSE /\ phase' = "sine" /\ elapsed' = 0
                      /\ Publish(SineAt(start, 0), Connected)
                      /\ UNCHANGED <<segments, idx>>
    BY <1>2, <1>3, <1>4 DEF SweepBegins
  <2>2. QED
    BY <2>1
<1>7. /\ start \in SweepPoses /\ segs \in Seq(SlowLegs(SweepReach))
      /\ \A m \in MotorIds \ SetAtOnce : \E y : Runs(segs, m, Measured[m], y)
      /\ config.motion = "sine" =>
           \A m \in MotorIds : Runs(segs, m, Measured[m], SineAt(start, 0)[m])
  <2>1. /\ start \in SweepPoses /\ plan \in Seq(SweepLegs)
        /\ \A m \in MotorIds \ SetAtOnce : \E y : Runs(plan, m, Measured[m], y)
        /\ config.motion = "sine" =>
             \A m \in MotorIds : Runs(plan, m, Measured[m], SineAt(start, 0)[m])
    BY <1>1, <1>2, <1>3, SweepPlanRuns
  <2>2. /\ segs \in Seq(SlowLegs(SweepReach))
        /\ \A m, x, y : Runs(plan, m, x, y) => Runs(segs, m, x, y)
    BY <1>4, <2>1, CompletedRuns
  <2>3. QED
    BY <2>1, <2>2
<1>8. CASE Die
  BY <1>8, DeathContinues
<1>9. CASE ~Die /\ segs # <<>>
  <2>1. reference' = start /\ BeginWith(segs, Connected)
    BY <1>6, <1>9
  <2>2. config' = config /\ phase' = "moving" /\ segments' = segs
    BY <2>1 DEF BeginWith, Publish
  <2>3. LeadsOn(segs, Connected)
    <3>1. ASSUME NEW m \in MotorIds \ SetAtOnce
          PROVE  Joined(segs, m) /\ segs[1].start[m] = samples[m].q /\ command[m] = NoCommand
      <4>1. PICK y : Runs(segs, m, Measured[m], y)
        BY <1>7
      <4>2. QED
        BY <1>5, <1>9, <4>1 DEF Runs, NothingSaid, Measured
    <3>2. QED
      BY <3>1 DEF LeadsOn
  <2>4. SweepParts'
    <3>1. ASSUME config.motion = "sine"
          PROVE  EndsAtSine'
      <4>1. \A m \in MotorIds : segs[Len(segs)].end[m] = SineAt(start, 0)[m]
        BY <1>7, <1>9, <3>1 DEF Runs
      <4>2. SineAt(reference, 0)' = SineAt(start, 0)
        BY <2>1, <2>2 DEF SineAt
      <4>3. QED
        BY <2>2, <4>1, <4>2 DEF EndsAtSine
    <3>2. QED
      BY <2>2, <3>1 DEF SweepParts
  <2>5. RandomParts'
    BY <2>2 DEF RandomParts
  <2>6. reference' \in Poses(Reach(config)) /\ segs \in Seq(SlowLegs(Reach(config)))
    BY <1>1, <1>7, <2>1 DEF SweepPoses
  <2>7. QED
    BY <1>9, <2>1, <2>3, <2>4, <2>5, <2>6, BeginContinues
<1>10. CASE ~Die /\ segs = <<>>
  <2>1. /\ reference' = start /\ UNCHANGED repeated /\ config.motion = "sine"
        /\ phase' = "sine" /\ elapsed' = 0 /\ Publish(SineAt(start, 0), Connected)
        /\ UNCHANGED <<segments, idx>>
    BY <1>6, <1>10
  <2>2. config' = config
    BY <2>1 DEF Publish
  <2>3. PICK pose : pose = SineAt(start, 0) /\ pose \in SweepPoses
    BY <1>1, <1>7, <2>1, WaveIs
  <2>4. Now' = pose
    <3>1. SineAt(reference, elapsed)' = SineAt(start, 0)
      BY <2>1, <2>2 DEF SineAt
    <3>2. QED
      BY <2>1, <2>3, <3>1 DEF Now
  <2>5. \A m \in MotorIds : pose[m] = samples[m].q /\ command[m] = NoCommand
    BY <1>5, <1>7, <1>10, <2>1, <2>3 DEF Runs, Measured, NothingSaid
  <2>6. InReach(pose, Connected)
    BY <1>1, <2>3 DEF InReach, SweepPoses, Poses
  <2>7. Arrives(pose, Connected)
    BY <2>4, <2>5 DEF Arrives
  <2>8. Departs(pose, Connected)
    BY <2>5 DEF Departs
  <2>9. PlayParts'
    BY <1>1, <2>1, <2>2 DEF PlayParts
  <2>10. SweepParts'
    <3>1. config.sineDuration \in Nat
      BY <1>1, <2>1, SweepIsInReach
    <3>2. QED
      BY <2>1, <2>2, <3>1 DEF SweepParts
  <2>11. RandomParts'
    BY <2>2 DEF RandomParts
  <2>12. reference' \in Poses(Reach(config)) /\ elapsed' \in Nat
    BY <1>1, <1>7, <2>1 DEF SweepPoses
  <2>13. QED
    BY <1>1, <2>1, <2>3, <2>6, <2>7, <2>8, <2>9, <2>10, <2>11, <2>12, PublishContinues
<1>11. QED
  BY <1>8, <1>9, <1>10

\* A sweep that is built again goes on from its own end.
LEMMA SweepRepeatsContinues ==
  ASSUME ContInv, config.node = "sweep", SweepRepeats, following' = following
  PROVE  ContInv' /\ AllContinue
<1>1. /\ config \in Configs /\ Reach(config) = SweepReach /\ SweepReach \in Nat
      /\ PlayParts /\ elapsed \in Nat /\ reference \in SweepPoses
  BY SweepHas
<1>2. phase = "moving" /\ AllOver /\ config.repeat
  BY DEF SweepRepeats
<1>3. Built(SweepReach)
  BY <1>1, <1>2 DEF PlayParts
<1>4. PICK from : from = segments[Len(segments)].end
  OBVIOUS
<1>5. PICK segs : segs = BuildSegments(from)
  OBVIOUS
<1>6. CASE segs = <<>>
  BY <1>4, <1>5, <1>6, DeathContinues DEF SweepRepeats
<1>7. CASE segs # <<>>
  <2>1. BeginWith(segs, Connected) /\ repeated' = TRUE /\ reference' = reference
    BY <1>4, <1>5, <1>7 DEF SweepRepeats
  <2>2. from \in SweepPoses /\ Now = from
    BY <1>1, <1>2, <1>3, <1>4, BuiltIs, OverIsAtEnd DEF Now, SweepPoses
  <2>3. /\ segs \in Seq(SweepLegs)
        /\ \A m \in MotorIds \ SetAtOnce : \E y : Runs(segs, m, from[m], y)
    BY <1>1, <1>2, <1>5, <2>2, BuildRuns
  <2>4. segs \in Seq(SlowLegs(Reach(config))) /\ reference' \in Poses(Reach(config))
    BY <1>1, <2>1, <2>3, SweepLegsAreSlow DEF SweepPoses
  <2>5. LeadsOn(segs, Connected)
    <3>1. ASSUME NEW m \in MotorIds \ SetAtOnce
          PROVE  Joined(segs, m) /\ Followed(m) /\ segs[1].start[m] = Now[m]
      <4>1. PICK y : Runs(segs, m, from[m], y)
        BY <2>3
      <4>2. QED
        BY <1>2, <1>7, <2>2, <4>1 DEF Runs, Followed
    <3>2. QED
      BY <3>1 DEF LeadsOn
  <2>6. config' = config /\ phase' = "moving"
    BY <2>1 DEF BeginWith, Publish
  <2>7. SweepParts' /\ RandomParts'
    BY <1>2, <2>6 DEF SweepParts, RandomParts
  <2>8. QED
    BY <1>7, <2>1, <2>4, <2>5, <2>7, BeginContinues
<1>8. QED
  BY <1>6, <1>7

\* The sine begins where the way to it ends.
LEMMA SweepStartsSineContinues ==
  ASSUME ContInv, config.node = "sweep", SweepStartsSine, following' = following
  PROVE  ContInv' /\ AllContinue
<1>1. /\ config \in Configs /\ config.node \in Motions /\ Reach(config) = SweepReach
      /\ SweepReach \in Nat /\ PlayParts /\ SweepParts /\ elapsed \in Nat /\ reference \in SweepPoses
      /\ config.node # "xyz"
  BY SweepHas
<1>2. /\ phase = "moving" /\ AllOver /\ ~config.repeat /\ config.motion = "sine"
      /\ phase' = "sine" /\ elapsed' = 0 /\ Publish(SineAt(reference, 0), Connected)
      /\ UNCHANGED <<segments, idx, reference, repeated>> /\ config' = config
  BY DEF SweepStartsSine, Publish
<1>3. PICK pose \in SweepPoses : pose = SineAt(reference, 0)
  BY <1>1, <1>2, WaveIs
<1>4. Built(SweepReach) /\ \A m \in MotorIds : segments[Len(segments)].end[m] = pose[m]
  BY <1>1, <1>2, <1>3 DEF PlayParts, SweepParts, EndsAtSine
<1>5. \A m \in MotorIds : Now[m] = pose[m]
  BY <1>1, <1>2, <1>4, OverIsAtEnd DEF Now
<1>6. Now' = pose
  <2>1. SineAt(reference, elapsed)' = SineAt(reference, 0)
    BY <1>2 DEF SineAt
  <2>2. QED
    BY <1>2, <1>3, <2>1 DEF Now
<1>7. SetAtOnce' = SetAtOnce
  BY <1>2 DEF SetAtOnce
<1>8. InReach(pose, Connected)
  BY <1>1, <1>3 DEF InReach, SweepPoses, Poses
<1>9. Arrives(pose, Connected)
  BY <1>1, <1>2, <1>5, <1>6, <1>7 DEF Arrives, Followed
<1>10. Departs(pose, Connected)
  BY <1>1, <1>2, <1>5 DEF Departs, Followed
<1>11. PlayParts' /\ RandomParts'
  BY <1>1, <1>2 DEF PlayParts, RandomParts
<1>12. SweepParts'
  <2>1. config.sineDuration \in Nat
    BY <1>1, <1>2, SweepIsInReach
  <2>2. QED
    BY <1>2, <2>1 DEF SweepParts
<1>13. reference' \in Poses(Reach(config)) /\ elapsed' \in Nat
  BY <1>1, <1>2 DEF SweepPoses
<1>14. QED
  BY <1>1, <1>2, <1>3, <1>8, <1>9, <1>10, <1>11, <1>12, <1>13, PublishContinues

\* The sine is followed until its time is over.
LEMMA SineFollowsContinues ==
  ASSUME ContInv, config.node = "sweep", SineFollows, following' = following
  PROVE  ContInv' /\ AllContinue
<1>1. /\ config \in Configs /\ config.node \in Motions /\ Reach(config) = SweepReach
      /\ SweepReach \in Nat /\ PlayParts /\ SweepParts /\ elapsed \in Nat /\ reference \in SweepPoses
      /\ config.node # "xyz"
  BY SweepHas
<1>2. /\ phase = "sine" /\ Publish(SineAt(reference, elapsed), Connected)
      /\ UNCHANGED <<phase, segments, idx, elapsed, reference, repeated>> /\ config' = config
  BY DEF SineFollows, Publish
<1>3. PICK pose \in SweepPoses : pose = SineAt(reference, elapsed)
  BY <1>1, <1>2, WaveIs DEF SweepParts
<1>4. Now = pose /\ Now' = pose
  <2>1. SineAt(reference, elapsed)' = SineAt(reference, elapsed)
    BY <1>2 DEF SineAt
  <2>2. QED
    BY <1>2, <1>3, <2>1 DEF Now
<1>5. SetAtOnce' = SetAtOnce
  BY <1>2 DEF SetAtOnce
<1>6. InReach(pose, Connected)
  BY <1>1, <1>3 DEF InReach, SweepPoses, Poses
<1>7. Arrives(pose, Connected)
  BY <1>1, <1>2, <1>4, <1>5 DEF Arrives, Followed
<1>8. Departs(pose, Connected)
  BY <1>1, <1>2, <1>4 DEF Departs, Followed
<1>9. PlayParts' /\ RandomParts' /\ SweepParts'
  BY <1>1, <1>2 DEF PlayParts, RandomParts, SweepParts
<1>10. reference' \in Poses(Reach(config)) /\ elapsed' \in Nat
  BY <1>1, <1>2 DEF SweepPoses
<1>11. QED
  BY <1>1, <1>2, <1>3, <1>6, <1>7, <1>8, <1>9, <1>10, PublishContinues

\* The centre of a sine is held from one tick to the next.
LEMMA CenterContinues ==
  ASSUME ContInv, config.node = "sweep", config.motion = "sine",
         phase \in {"sine", "done"}, Rest(SineCenter(reference), Connected)
  PROVE  ContInv' /\ AllContinue
<1>1. /\ config \in Configs /\ config.node \in Motions /\ Reach(config) = SweepReach
      /\ SweepReach \in Nat /\ reference \in SweepPoses /\ config.node # "xyz"
  BY SweepHas
<1>2. PICK pose \in SweepPoses : pose = SineCenter(reference)
  <2>1. 0 \in Nat
    OBVIOUS
  <2>2. QED
    BY <1>1, <2>1, WaveIs
<1>3. /\ phase' = "done" /\ elapsed' = 0 /\ Publish(pose, Connected)
      /\ UNCHANGED <<segments, idx, reference, repeated>> /\ config' = config
  BY <1>2 DEF Rest, Publish
<1>4. InReach(pose, Connected)
  BY <1>1, <1>2 DEF InReach, SweepPoses, Poses
<1>5. Arrives(pose, Connected)
  BY <1>1, <1>3 DEF Arrives, Followed
<1>6. Departs(pose, Connected)
  <2>1. \A m \in MotorIds : Excused(m)
    BY <1>3 DEF Excused
  <2>2. phase # "waiting"
    OBVIOUS
  <2>3. QED
    BY <2>1, <2>2 DEF Departs
<1>7. PlayParts' /\ RandomParts' /\ SweepParts'
  BY <1>1, <1>3 DEF PlayParts, RandomParts, SweepParts
<1>8. reference' \in Poses(Reach(config)) /\ elapsed' \in Nat
  BY <1>1, <1>3 DEF SweepPoses
<1>9. QED
  BY <1>1, <1>3, <1>4, <1>5, <1>6, <1>7, <1>8, PublishContinues

\* The steps of joint_sweep_node.
LEMMA SweepContinues ==
  ASSUME ContInv, SweepNext, following' = following
  PROVE  ContInv' /\ AllContinue
<1>1. config.node = "sweep"
  BY DEF SweepNext
<1>2. /\ config \in Configs /\ config.node \in Motions /\ config.node # "random"
      /\ Reach(config) = SweepReach /\ SweepParts
  BY <1>1, SweepHas
<1>3. CASE OnMotorStates(SweepPlausible)
  <2>1. config.reported \cap SweepPlausible \subseteq -Reach(config) .. Reach(config)
    BY <1>1, <1>2, SweepIsInReach
  <2>2. QED
    BY <1>2, <1>3, <2>1, HearingContinues
<1>4. CASE SweepTimer
  <2>1. CASE SweepBegins
    BY <1>1, <2>1, SweepBeginsContinues
  <2>2. CASE SweepFollows
    BY <1>1, <2>2, PlayContinues DEF SweepFollows
  <2>3. CASE SweepRepeats
    BY <1>1, <2>3, SweepRepeatsContinues
  <2>4. CASE SweepStartsSine
    BY <1>1, <2>4, SweepStartsSineContinues
  <2>5. CASE SineFollows
    BY <1>1, <2>5, SineFollowsContinues
  <2>6. CASE SweepHolds
    <3>1. CASE phase = "sine" /\ Rest(SineCenter(reference), Connected)
      BY <1>1, <1>2, <3>1, CenterContinues DEF SweepParts
    <3>2. CASE /\ phase = "moving" /\ AllOver /\ config.motion # "sine"
               /\ Rest(segments[Len(segments)].end, Connected)
      BY <1>1, <1>2, <3>2, HoldContinues
    <3>3. CASE phase = "done" /\ config.motion = "sine" /\ Rest(SineCenter(reference), Connected)
      BY <1>1, <3>3, CenterContinues
    <3>4. CASE /\ phase = "done" /\ config.motion # "sine"
               /\ Rest(segments[Len(segments)].end, Connected)
      BY <1>1, <1>2, <3>4, HoldContinues
    <3>5. QED
      BY <2>6, <3>1, <3>2, <3>3, <3>4 DEF SweepHolds
  <2>7. QED
    BY <1>4, <2>1, <2>2, <2>3, <2>4, <2>5, <2>6 DEF SweepTimer
<1>5. CASE SweepTick
  BY <1>1, <1>5, SweepTickContinues
<1>6. QED
  BY <1>3, <1>4, <1>5 DEF SweepNext

-----------------------------------------------------------------------------
(* The steps of dataset_ik_motion_node and random_motion_gc_node *)

\* What a node of motions that is neither the sweep nor the end effector's knows.
LEMMA PlayerHas ==
  ASSUME ContInv, config.node \in {"random", "ik"}
  PROVE  /\ config \in Configs /\ config.node \in Motions /\ Reach(config) = MaxReach
         /\ config.node # "xyz" /\ config.node # "sweep"
         /\ MaxReach \in Nat /\ Kept(MaxReach) /\ PlayParts /\ RandomParts /\ SetAtOnce = {}
         /\ elapsed \in Nat /\ reference \in Poses(MaxReach) /\ Measured \in Poses(MaxReach)
         /\ config.motion # "sine"
<1>1. config \in Configs /\ config.node \in Motions /\ MaxReach \in Nat /\ config.node # "sweep"
  BY MotionAssumption DEF ContInv, Motions
<1>2. Reach(config) = MaxReach
  BY <1>1, ReachIs
<1>3. Kept(MaxReach) /\ PlayParts /\ RandomParts
  BY <1>1, <1>2 DEF ContInv
<1>4. elapsed \in Nat /\ reference \in Poses(MaxReach) /\ Measured \in Poses(MaxReach)
  BY <1>3 DEF Kept, Poses, Measured
<1>5. SetAtOnce = {} /\ config.motion # "sine"
  BY <1>1, ConfigsAssumption DEF SetAtOnce
<1>6. QED
  BY <1>1, <1>2, <1>3, <1>4, <1>5

\* The halves of a segment are segments, slow enough when it is.
LEMMA HalvesAreLegs ==
  ASSUME NEW r \in Nat, NEW s \in Legs(r)
  PROVE  Halves(s, [d \in Nat |-> d]) \in Seq(Legs(r))
<1> DEFINE mid == Midpoint(s.start, s.end)
<1>1. s.start \in Poses(r) /\ s.end \in Poses(r) /\ s.duration \in Nat \ {0}
  BY DEF Legs
<1>2. ASSUME NEW m \in MotorIds
      PROVE  mid[m] \in -r .. r
  <2>1. s.start[m] \in -r .. r /\ s.end[m] \in -r .. r
    BY <1>1 DEF Poses
  <2>2. mid[m] = 0 \/ mid[m] = (s.start[m] + s.end[m]) \div 2
    BY DEF Midpoint
  <2> HIDE DEF mid
  <2>3. QED
    BY <2>1, <2>2
<1>3. mid \in Poses(r)
  <2>1. mid = [m \in MotorIds |-> mid[m]]
    BY DEF Midpoint
  <2> HIDE DEF mid
  <2>2. QED
    BY <1>2, <2>1 DEF Poses
<1>4. PICK d \in Nat \ {0} : d = s.duration /\ [x \in Nat |-> x][s.duration] = d
  BY <1>1
<1> DEFINE same == [x \in Nat |-> x]
<1> HIDE DEF mid
<1>5. Segment(s.start, mid, d) \in Legs(r) /\ Segment(mid, s.end, d) \in Legs(r)
  BY <1>1, <1>3 DEF Segment, Legs
<1>6. Halves(s, same) = IF Crossing(s.start, s.end, MotorIds) = {} THEN <<s>>
                        ELSE <<Segment(s.start, mid, d), Segment(mid, s.end, d)>>
  BY <1>4 DEF Halves, mid
<1>7. Halves(s, same) \in Seq(Legs(r))
  <2> HIDE DEF same
  <2>1. QED
    BY <1>5, <1>6
<1>8. QED
  BY <1>7

\* One segment of the inverse kinematics' motion.
LEMMA LegRuns ==
  ASSUME NEW r \in Nat, NEW from \in Poses(r), NEW to \in Poses(r), NEW m
  PROVE  /\ <<Leg(from, to)>> \in Seq(Legs(r)) /\ Runs(<<Leg(from, to)>>, m, from[m], to[m])
         /\ <<Leg(from, to)>> # <<>>
<1>1. PICK s \in Legs(r) : s = Leg(from, to)
  BY IkAssumption DEF Leg, Segment, Legs
<1>2. s.start = from /\ s.end = to
  BY <1>1 DEF Leg, Segment
<1>3. Len(<<s>>) = 1 /\ <<s>>[1] = s /\ <<s>> # <<>>
  OBVIOUS
<1>4. Runs(<<s>>, m, from[m], to[m])
  BY <1>2, <1>3 DEF Runs, Joined
<1>5. QED
  BY <1>1, <1>3, <1>4

\* Two segments, one after the other.
LEMMA TwoLegsRun ==
  ASSUME NEW r \in Nat, NEW from \in Poses(r), NEW one \in Poses(r), NEW two \in Poses(r)
  PROVE  /\ <<Leg(from, one), Leg(one, two)>> \in Seq(Legs(r))
         /\ Len(<<Leg(from, one), Leg(one, two)>>) = 2
         /\ \A m : Runs(<<Leg(from, one), Leg(one, two)>>, m, from[m], two[m])
<1>1. PICK a \in Legs(r) : a = Leg(from, one)
  BY IkAssumption DEF Leg, Segment, Legs
<1>2. PICK b \in Legs(r) : b = Leg(one, two)
  BY IkAssumption DEF Leg, Segment, Legs
<1>3. a.start = from /\ a.end = one /\ b.start = one /\ b.end = two
  BY <1>1, <1>2 DEF Leg, Segment
<1>4. PICK both : both = <<a, b>>
  OBVIOUS
<1>5. Len(both) = 2 /\ both[1] = a /\ both[2] = b /\ both # <<>> /\ both \in Seq(Legs(r))
  BY <1>4
<1>6. \A m : Runs(both, m, from[m], two[m])
  BY <1>3, <1>5 DEF Runs, Joined
<1>7. QED
  BY <1>1, <1>2, <1>4, <1>5, <1>6

\* What consists of parts that are not empty is not empty.
LEMMA FlattenIsNotEmpty ==
  ASSUME NEW S, NEW seqs \in Seq(Seq(S)), Len(seqs) # 0, seqs[Len(seqs)] # <<>>
  PROVE  FlattenSeq(seqs) # <<>>
<1>1. PICK n \in Nat \ {0} : n = Len(seqs)
  OBVIOUS
<1>2. PICK f : Flattens(S, seqs, f) /\ FlattenSeq(seqs) = f[n]
  BY <1>1, FlattenSteps
<1>3. /\ f[n] \in Seq(S) /\ f[n] = IF n = 1 THEN seqs[1] ELSE f[n - 1] \o seqs[n]
      /\ seqs[n] \in Seq(S) /\ n # 1 => f[n - 1] \in Seq(S)
  <2>1. n \in 1 .. n /\ (n # 1 => n - 1 \in 1 .. n)
    BY <1>1
  <2>2. QED
    BY <1>1, <1>2, <2>1 DEF Flattens
<1>4. CASE n = 1
  BY <1>1, <1>2, <1>3, <1>4
<1>5. CASE n # 1
  <2>1. PICK past \in Seq(S) : past = f[n - 1]
    BY <1>3, <1>5
  <2>2. PICK last \in Seq(S) : last = seqs[n] /\ Len(last) # 0
    <3>1. Len(seqs[n]) # 0
      BY <1>1, <1>3, EmptyIs
    <3>2. QED
      BY <1>3, <3>1
  <2>3. Len(past \o last) = Len(past) + Len(last)
    OBVIOUS
  <2>4. Len(past \o last) # 0
    BY <2>2, <2>3
  <2>5. f[n] = past \o last
    BY <1>3, <1>5, <2>1, <2>2
  <2>6. QED
    BY <1>2, <2>4, <2>5
<1>6. QED
  BY <1>4, <1>5

\* Zero crossings take no segment away.
LEMMA InsertIsNotEmpty ==
  ASSUME NEW S, NEW raw \in Seq(S), raw # <<>>, NEW half, NEW T,
         \A i \in DOMAIN raw : Halves(raw[i], half) \in Seq(T)
  PROVE  InsertZeroCrossings(raw, half) # <<>>
<1> DEFINE parts == [i \in DOMAIN raw |-> Halves(raw[i], half)]
<1>1. PICK n \in Nat \ {0} : n = Len(raw) /\ DOMAIN raw = 1 .. n
  BY EmptyIs
<1>2. /\ parts \in Seq(Seq(T)) /\ Len(parts) = n /\ parts[n] = Halves(raw[n], half)
  <2> HIDE DEF Halves
  <2>1. \A i \in 1 .. n : parts[i] \in Seq(T)
    BY <1>1
  <2>2. n \in 1 .. n
    BY <1>1
  <2>3. QED
    BY <1>1, <2>1, <2>2
<1>3. InsertZeroCrossings(raw, half) = FlattenSeq(parts)
  BY DEF InsertZeroCrossings, Halves
<1> HIDE DEF parts
<1>4. parts[n] # <<>>
  BY <1>2 DEF Halves
<1>5. QED
  BY <1>2, <1>3, <1>4, FlattenIsNotEmpty

\* The way in and two waypoints, with the zero crossings and the durations.
LEMMA IkPlanRuns ==
  ASSUME NEW r \in Nat, NEW raw \in Seq(Legs(r)), raw # <<>>
  PROVE  /\ RuntimeSegments(raw) \in Seq(SlowLegs(r)) /\ RuntimeSegments(raw) # <<>>
         /\ \A m, x, y : Runs(raw, m, x, y) => Runs(RuntimeSegments(raw), m, x, y)
<1>1. Len(raw) \in Nat /\ DOMAIN raw = 1 .. Len(raw)
  OBVIOUS
<1>2. PICK half : half = [d \in Nat |-> d]
  OBVIOUS
<1>3. \A i \in DOMAIN raw : Halves(raw[i], half) \in Seq(Legs(r))
  <2>1. \A i \in DOMAIN raw : raw[i] \in Legs(r)
    BY <1>1
  <2>2. QED
    BY <1>2, <2>1, HalvesAreLegs
<1>4. PICK segs : segs = InsertZeroCrossings(raw, half)
  OBVIOUS
<1>5. /\ segs \in Seq(Legs(r)) /\ segs # <<>>
      /\ \A m, x, y : Runs(raw, m, x, y) => Runs(segs, m, x, y)
  <2>1. segs # <<>>
    BY <1>3, <1>4, InsertIsNotEmpty
  <2>2. QED
    BY <1>1, <1>3, <1>4, <2>1, InsertRuns
<1>6. RuntimeSegments(raw) = Timed(segs)
  BY <1>2, <1>4 DEF RuntimeSegments
<1>7. QED
  BY <1>5, <1>6, TimedRuns

\* What is reported and asked for lies in reach.
LEMMA PlayerReaches ==
  ASSUME config \in Configs, config.node \in {"random", "ik"}
  PROVE  /\ config.reported \subseteq -MaxReach .. MaxReach
         /\ config.range \subseteq -MaxReach .. MaxReach
         /\ config.node = "random" => config.home \in Poses(MaxReach) /\ RandomIsUsable
         /\ config.node = "ik" => config.center \in Poses(MaxReach)
<1>1. Reach(config) = MaxReach
  BY DEF Reach
<1>2. config.reported \cup config.range \subseteq -MaxReach .. MaxReach
  BY <1>1, ReachAssumption DEF Reachable
<1>3. CASE config.node = "random"
  <2>1. config.home \in [MotorIds -> Int] /\ \A m \in MotorIds : config.home[m] \in -MaxReach .. MaxReach
    BY <1>1, <1>3, ReachAssumption, ConfigsAssumption DEF Reachable
  <2>2. RandomIsUsable
    BY <1>3, ConfigsAssumption, RandomAssumption DEF RandomIsUsable, Pose
  <2>3. QED
    BY <1>2, <1>3, <2>1, <2>2 DEF Poses
<1>4. CASE config.node = "ik"
  <2>1. config.center \in [MotorIds -> Int] /\ \A m \in MotorIds : config.center[m] \in -MaxReach .. MaxReach
    BY <1>1, <1>4, ReachAssumption, ConfigsAssumption DEF Reachable
  <2>2. QED
    BY <1>2, <1>4, <2>1 DEF Poses
<1>5. QED
  BY <1>3, <1>4

\* A pose in which some motors are drawn from the range.
LEMMA DrawnReaches ==
  ASSUME config \in Configs, config.node \in {"random", "ik"}, NEW base \in Poses(MaxReach),
         NEW among, NEW d \in [among -> config.range]
  PROVE  Overlay(base, d) \in Poses(MaxReach)
<1>1. MaxReach \in Nat
  BY MotionAssumption
<1>2. DOMAIN d = among /\ \A m \in among : d[m] \in -MaxReach .. MaxReach
  BY PlayerReaches
<1>3. QED
  BY <1>1, <1>2, OverlayReach

\* dataset_ik_motion_node begins where the motors are.
LEMMA IkBeginsContinues ==
  ASSUME ContInv, config.node = "ik", IkBegins, following' = following
  PROVE  ContInv' /\ AllContinue
<1>1. /\ config \in Configs /\ config.node \in Motions /\ Reach(config) = MaxReach
      /\ config.node # "xyz" /\ MaxReach \in Nat /\ PlayParts /\ SetAtOnce = {}
      /\ reference \in Poses(MaxReach) /\ Measured \in Poses(MaxReach)
  BY PlayerHas
<1>2. Zero \in Poses(MaxReach) /\ config.center \in Poses(MaxReach)
  <2>1. Zero \in Poses(MaxReach)
    BY <1>1 DEF Zero, Poses
  <2>2. QED
    BY <1>1, <2>1, PlayerReaches
<1>3. PICK begin : begin = IF config.zeroStart THEN Zero ELSE Measured
  OBVIOUS
<1>4. PICK from : from = IF config.centerFirst THEN config.center ELSE begin
  OBVIOUS
<1>5. begin \in Poses(MaxReach) /\ from \in Poses(MaxReach)
  BY <1>1, <1>2, <1>3, <1>4
<1>6. PICK zero : zero = IF config.zeroStart THEN <<Leg(Measured, Zero)>> ELSE <<>>
  OBVIOUS
<1>7. PICK center : center = IF config.centerFirst THEN <<Leg(begin, config.center)>> ELSE <<>>
  OBVIOUS
<1>8. zero \in Seq(Legs(MaxReach)) /\ \A m : Runs(zero, m, Measured[m], begin[m])
  BY <1>1, <1>2, <1>3, <1>6, LegRuns, NoLegRuns
<1>9. center \in Seq(Legs(MaxReach)) /\ \A m : Runs(center, m, begin[m], from[m])
  BY <1>1, <1>2, <1>4, <1>5, <1>7, LegRuns, NoLegRuns
<1>10. LeadIn = zero \o center
  BY <1>3, <1>6, <1>7 DEF LeadIn
<1>11. zero \o center \in Seq(Legs(MaxReach)) /\ \A m : Runs(zero \o center, m, Measured[m], from[m])
  BY <1>8, <1>9, RunsJoin
<1>12. phase = "waiting" /\ NothingSaid
  BY <1>1 DEF IkBegins, PlayParts
<1>13. \/ Die
       \/ /\ UNCHANGED <<reference, repeated>>
          /\ \E one \in IkCandidates(from) : \E two \in IkCandidates(one) :
               BeginWith(RuntimeSegments(LeadIn \o <<Leg(from, one), Leg(one, two)>>), Connected)
  <2>1. from = IF config.centerFirst THEN config.center
               ELSE IF config.zeroStart THEN Zero ELSE Measured
    BY <1>3, <1>4
  <2>2. QED
    BY <2>1 DEF IkBegins
<1>14. CASE Die
  BY <1>14, DeathContinues
<1>15. ASSUME NEW one \in IkCandidates(from), NEW two \in IkCandidates(one),
              UNCHANGED <<reference, repeated>>,
              BeginWith(RuntimeSegments(LeadIn \o <<Leg(from, one), Leg(one, two)>>), Connected)
       PROVE  ContInv' /\ AllContinue
  <2>1. one \in Poses(MaxReach)
    <3>1. PICK d \in [config.controlled -> config.range] : one = Overlay(from, d)
      BY <1>15 DEF IkCandidates
    <3>2. QED
      BY <1>1, <1>5, <3>1, DrawnReaches
  <2>2. two \in Poses(MaxReach)
    <3>1. PICK d \in [config.controlled -> config.range] : two = Overlay(one, d)
      BY <1>15 DEF IkCandidates
    <3>2. QED
      BY <1>1, <2>1, <3>1, DrawnReaches
  <2>4. PICK rest : rest = <<Leg(from, one), Leg(one, two)>>
    OBVIOUS
  <2>6. rest \in Seq(Legs(MaxReach)) /\ Len(rest) = 2 /\ \A m : Runs(rest, m, from[m], two[m])
    BY <1>1, <1>5, <2>1, <2>2, <2>4, TwoLegsRun
  <2>7. PICK raw : raw = LeadIn \o rest
    OBVIOUS
  <2>8. raw \in Seq(Legs(MaxReach)) /\ \A m : Runs(raw, m, Measured[m], two[m])
    <3>1. raw = (zero \o center) \o rest
      BY <1>10, <2>7
    <3>2. (zero \o center) \o rest \in Seq(Legs(MaxReach))
      BY <1>11, <2>6
    <3>3. \A m : Runs((zero \o center) \o rest, m, Measured[m], two[m])
      BY <1>11, <2>6, RunsJoin
    <3>4. QED
      BY <3>1, <3>2, <3>3
  <2>9. raw # <<>>
    <3>1. PICK lead \in Seq(Legs(MaxReach)) : lead = LeadIn
      BY <1>10, <1>11
    <3>2. PICK last \in Seq(Legs(MaxReach)) : last = rest /\ Len(last) = 2
      BY <2>6
    <3>3. Len(lead \o last) = Len(lead) + Len(last) /\ Len(lead) \in Nat
      OBVIOUS
    <3>4. Len(lead \o last) # 0
      BY <3>2, <3>3
    <3>5. QED
      BY <2>7, <3>1, <3>2, <3>4
  <2>10. PICK segs : segs = RuntimeSegments(raw)
    OBVIOUS
  <2>11. /\ segs \in Seq(SlowLegs(MaxReach)) /\ segs # <<>>
         /\ \A m : Runs(segs, m, Measured[m], two[m])
    BY <1>1, <2>8, <2>9, <2>10, IkPlanRuns
  <2>12. BeginWith(segs, Connected)
    BY <1>15, <2>4, <2>7, <2>10
  <2>13. LeadsOn(segs, Connected)
    <3>1. \A m \in MotorIds : /\ Joined(segs, m) /\ command[m] = NoCommand
                              /\ segs[1].start[m] = samples[m].q
      BY <1>12, <2>11 DEF Runs, NothingSaid, Measured
    <3>2. QED
      BY <3>1 DEF LeadsOn
  <2>14. config' = config
    BY <2>12 DEF BeginWith, Publish
  <2>15. SweepParts' /\ RandomParts'
    BY <2>14 DEF SweepParts, RandomParts
  <2>16. reference' \in Poses(Reach(config)) /\ segs \in Seq(SlowLegs(Reach(config)))
    BY <1>1, <1>15, <2>11
  <2>17. QED
    BY <2>11, <2>12, <2>13, <2>15, <2>16, BeginContinues
<1>16. QED
  BY <1>13, <1>14, <1>15

\* When it begins again it jumps, which the property leaves out.
LEMMA IkRepeatsContinues ==
  ASSUME ContInv, config.node = "ik", IkRepeats, following' = following
  PROVE  ContInv' /\ AllContinue
<1>1. /\ config \in Configs /\ config.node \in Motions /\ Reach(config) = MaxReach
      /\ config.node # "xyz" /\ MaxReach \in Nat /\ PlayParts
      /\ reference \in Poses(MaxReach)
  BY PlayerHas
<1>2. PICK pose : pose = segments[1].start
  OBVIOUS
<1>3. /\ phase = "moving" /\ idx' = 1 /\ elapsed' = 0 /\ repeated' = TRUE
      /\ Publish(pose, Connected) /\ UNCHANGED <<phase, segments, reference>>
      /\ config' = config
  BY <1>2 DEF IkRepeats, Publish
<1>4. Built(MaxReach)
  BY <1>1, <1>3 DEF PlayParts
<1>5. pose \in Poses(MaxReach) /\ 1 \in 1 .. Len(segments)
  <2>1. pose \in Poses(MaxReach)
    BY <1>1, <1>2, <1>4, BuiltIs
  <2>2. QED
    BY <1>4, <2>1 DEF Built
<1>6. InReach(pose, Connected)
  BY <1>1, <1>5 DEF InReach, Poses
<1>7. Arrives(pose, Connected)
  BY <1>1, <1>3 DEF Arrives, Followed
<1>8. Departs(pose, Connected)
  BY <1>1, <1>3 DEF Departs, Excused
<1>9. PlayParts'
  <2>1. Built(MaxReach)'
    BY <1>3, <1>4, <1>5, StaysBuilt
  <2>2. Reach(config)' = MaxReach
    BY <1>1, <1>3 DEF Reach
  <2>3. QED
    BY <1>1, <1>3, <2>1, <2>2 DEF PlayParts
<1>10. SweepParts' /\ RandomParts'
  BY <1>3 DEF SweepParts, RandomParts
<1>11. reference' \in Poses(Reach(config)) /\ elapsed' \in Nat
  BY <1>1, <1>3
<1>12. QED
  BY <1>1, <1>3, <1>6, <1>7, <1>8, <1>9, <1>10, <1>11, PublishContinues

\* The steps of dataset_ik_motion_node.
LEMMA IkContinues ==
  ASSUME ContInv, IkNext, following' = following
  PROVE  ContInv' /\ AllContinue
<1>1. config.node = "ik"
  BY DEF IkNext
<1>2. /\ config \in Configs /\ config.node \in Motions /\ Reach(config) = MaxReach
      /\ PlayParts /\ config.motion # "sine"
  BY <1>1, PlayerHas
<1>3. CASE OnMotorStates(Int)
  <2>1. config.reported \cap Int \subseteq -Reach(config) .. Reach(config)
    BY <1>1, <1>2, PlayerReaches
  <2>2. QED
    BY <1>2, <1>3, <2>1, HearingContinues
<1>4. CASE IkTimer
  <2>1. CASE IkBegins
    BY <1>1, <2>1, IkBeginsContinues
  <2>2. CASE IkFollows
    BY <1>1, <2>2, PlayContinues DEF IkFollows
  <2>3. CASE IkRepeats
    BY <1>1, <2>3, IkRepeatsContinues
  <2>4. CASE IkHolds
    <3>1. phase = "done" \/ (phase = "moving" /\ AllOver)
      BY <2>4 DEF IkHolds
    <3>2. Rest(segments[Len(segments)].end, Connected)
      BY <2>4 DEF IkHolds
    <3>3. QED
      BY <1>1, <1>2, <3>1, <3>2, HoldContinues
  <2>5. QED
    BY <1>4, <2>1, <2>2, <2>3, <2>4 DEF IkTimer
<1>5. CASE IkTick
  <2>1. phase # "sine"
    BY <1>1, <1>2 DEF PlayParts
  <2>2. QED
    BY <1>1, <1>5, <2>1, CapContinues DEF IkTick
<1>6. QED
  BY <1>3, <1>4, <1>5 DEF IkNext

\* Segments along poses are not empty.
LEMMA ChainIsNotEmpty ==
  ASSUME NEW S, NEW from, NEW poses \in Seq(S), poses # <<>>, NEW least
  PROVE  ChainOf(from, poses, least) # <<>>
<1>1. PICK n \in Nat \ {0} : n = Len(poses) /\ DOMAIN poses = 1 .. n
  BY EmptyIs
<1>2. DOMAIN ChainOf(from, poses, least) = 1 .. n
  BY <1>1 DEF ChainOf
<1>3. 1 \in 1 .. n /\ 1 \notin DOMAIN <<>>
  BY <1>1
<1>4. QED
  BY <1>2, <1>3

\* A waypoint that is accepted is in reach, and so is the way to it.
LEMMA PathReaches ==
  ASSUME config \in Configs, config.node = "random", NEW from \in Poses(MaxReach),
         NEW path \in RandomPaths(from)
  PROVE  path \in Seq(Poses(MaxReach)) /\ path # <<>> /\ EndOf(from, path) \in Poses(MaxReach)
<1>1. /\ config.node \in {"random", "ik"} /\ MaxReach \in Nat
      /\ config.home \in Poses(MaxReach) /\ RandomIsUsable
  BY PlayerReaches, MotionAssumption
<1>2. PICK goal \in Candidates(from) : path = ExpandAndSplit(from, goal)
  BY DEF RandomPaths
<1>3. PICK d \in [config.random -> config.range] : goal = Overlay(config.home, d)
  BY DEF Candidates
<1>4. goal \in Poses(MaxReach)
  BY <1>1, <1>3, DrawnReaches
<1>5. QED
  BY <1>1, <1>2, <1>4, WayStaysInReach

\* random_motion_gc_node begins where the motors are.
LEMMA RandomBeginsContinues ==
  ASSUME ContInv, config.node = "random", RandomBegins, following' = following
  PROVE  ContInv' /\ AllContinue
<1>1. /\ config \in Configs /\ config.node \in Motions /\ Reach(config) = MaxReach
      /\ config.node # "xyz" /\ MaxReach \in Nat /\ PlayParts /\ RandomParts /\ SetAtOnce = {}
      /\ reference \in Poses(MaxReach) /\ Measured \in Poses(MaxReach)
  BY PlayerHas
<1>2. /\ config.node \in {"random", "ik"} /\ config.home \in Poses(MaxReach) /\ RandomIsUsable
  BY <1>1, PlayerReaches
<1>3. PICK start : start = RandomStart
  OBVIOUS
<1>4. PICK home : home = HomePoses(start)
  OBVIOUS
<1>5. PICK first : first = EndOf(start, home)
  OBVIOUS
<1>6. phase = "waiting" /\ NothingSaid /\ config.commanded \subseteq Connected
  BY <1>1 DEF RandomBegins, PlayParts
<1>7. config.commanded \subseteq MotorIds
  BY <1>6 DEF Connected
<1>8. /\ start \in Poses(MaxReach)
      /\ \A m \in config.commanded : start[m] = samples[m].q
  <2>1. PICK target : target = [m \in config.commanded |-> Measured[m]]
    OBVIOUS
  <2>2. DOMAIN target = config.commanded /\ \A m \in config.commanded : target[m] = Measured[m]
    BY <2>1
  <2>3. \A m \in DOMAIN target : target[m] \in -MaxReach .. MaxReach
    BY <1>1, <1>7, <2>2 DEF Poses
  <2>4. start = Overlay(config.home, target)
    BY <1>3, <2>1 DEF RandomStart
  <2>5. start \in Poses(MaxReach) /\ \A m \in MotorIds :
          start[m] = IF m \in DOMAIN target THEN target[m] ELSE config.home[m]
    BY <1>1, <1>2, <2>3, <2>4, OverlayReach
  <2>6. \A m \in config.commanded : Measured[m] = samples[m].q
    BY <1>7 DEF Measured
  <2>7. QED
    BY <1>7, <2>2, <2>5, <2>6
<1>9. home \in Seq(Poses(MaxReach)) /\ first \in Poses(MaxReach)
  <2>1. CASE home = <<>>
    BY <1>5, <1>8, <2>1 DEF EndOf
  <2>2. CASE home # <<>>
    <3>1. home = ExpandAndSplit(start, config.home)
      BY <1>4, <2>2 DEF HomePoses
    <3>2. home \in Seq(Poses(MaxReach)) /\ EndOf(start, home) = config.home
      BY <1>1, <1>2, <1>8, <3>1, WayStaysInReach
    <3>3. QED
      BY <1>2, <1>5, <3>2
  <2>3. QED
    BY <2>1, <2>2
<1>10. PICK least1, least2 :
         /\ least1 = [i \in Nat |-> IF i = 1 THEN HomeDuration ELSE RandomDuration]
         /\ least2 = [i \in Nat |-> RandomDuration]
  OBVIOUS
<1>11. \/ Die
       \/ /\ UNCHANGED <<reference, repeated>>
          /\ \E one \in RandomPaths(first) : \E two \in RandomPaths(EndOf(first, one)) :
               BeginWith(ChainOf(start, home, least1) \o ChainOf(first, one \o two, least2),
                         config.commanded)
  BY <1>3, <1>4, <1>5, <1>10 DEF RandomBegins
<1>12. \A i \in Nat : least1[i] \in Nat \ {0} /\ least2[i] \in Nat \ {0}
  BY <1>10, RandomAssumption
<1>13. CASE Die
  BY <1>13, DeathContinues
<1>14. ASSUME UNCHANGED <<reference, repeated>>,
              NEW one \in RandomPaths(first), NEW two \in RandomPaths(EndOf(first, one)),
              BeginWith(ChainOf(start, home, least1) \o ChainOf(first, one \o two, least2),
                        config.commanded)
       PROVE  ContInv' /\ AllContinue
  <2>1. one \in Seq(Poses(MaxReach)) /\ one # <<>> /\ EndOf(first, one) \in Poses(MaxReach)
    BY <1>1, <1>9, PathReaches
  <2>2. two \in Seq(Poses(MaxReach)) /\ two # <<>>
    BY <1>1, <2>1, PathReaches
  <2>3. PICK way : way = one \o two
    OBVIOUS
  <2>4. way \in Seq(Poses(MaxReach)) /\ way # <<>>
    <3>1. Len(one \o two) = Len(one) + Len(two) /\ Len(one) \in Nat
      BY <2>1, <2>2
    <3>2. Len(two) # 0 /\ Len(two) \in Nat
      BY <2>2, EmptyIs
    <3>3. Len(one \o two) # 0
      BY <3>1, <3>2
    <3>4. QED
      BY <2>1, <2>2, <2>3, <3>3
  <2>5. PICK in, out : in = ChainOf(start, home, least1) /\ out = ChainOf(first, way, least2)
    OBVIOUS
  <2>6. /\ in \in Seq(SlowLegs(MaxReach))
        /\ \A m \in MotorIds : Runs(in, m, start[m], first[m])
    BY <1>1, <1>5, <1>8, <1>9, <1>12, <2>5, ChainRuns
  <2>7. /\ out \in Seq(SlowLegs(MaxReach)) /\ out # <<>>
        /\ \A m \in MotorIds : Runs(out, m, first[m], EndOf(first, way)[m])
    BY <1>1, <1>9, <1>12, <2>4, <2>5, ChainRuns, ChainIsNotEmpty
  <2>8. PICK segs : segs = in \o out
    OBVIOUS
  <2>9. segs \in Seq(SlowLegs(MaxReach)) /\ segs # <<>>
    <3>1. Len(in \o out) = Len(in) + Len(out) /\ Len(in) \in Nat
      BY <2>6, <2>7
    <3>2. Len(out) # 0 /\ Len(out) \in Nat
      BY <2>7, EmptyIs
    <3>3. Len(in \o out) # 0
      BY <3>1, <3>2
    <3>4. QED
      BY <2>6, <2>7, <2>8, <3>3
  <2>10. \A m \in MotorIds : Runs(segs, m, start[m], EndOf(first, way)[m])
    BY <2>6, <2>7, <2>8, RunsJoin
  <2>11. BeginWith(segs, config.commanded)
    BY <1>14, <2>3, <2>5, <2>8
  <2>12. LeadsOn(segs, config.commanded)
    <3>1. \A m \in MotorIds : /\ Joined(segs, m) /\ command[m] = NoCommand
                              /\ m \in config.commanded => segs[1].start[m] = samples[m].q
      BY <1>6, <1>8, <2>9, <2>10 DEF Runs, NothingSaid
    <3>2. QED
      BY <3>1 DEF LeadsOn
  <2>13. /\ config' = config /\ phase' = "moving" /\ segments' = segs /\ idx' = 1 /\ elapsed' = 0
         /\ command' = [m \in MotorIds |-> IF m \in config.commanded THEN segs[1].start[m]
                                           ELSE command[m]]
    BY <2>11 DEF BeginWith, Publish
  <2>14. SweepParts'
    BY <1>1, <2>13 DEF SweepParts
  <2>15. RandomParts'
    <3>1. segs[1] \in Legs(MaxReach)
      BY <1>1, <2>9, StartsAtStart
    <3>2. segs[1].duration \in Nat
      BY <3>1 DEF Legs
    <3>3. 0 <= segs[1].duration
      BY <3>2
    <3>4. QED
      BY <1>6, <2>13, <3>3 DEF RandomParts, AloneIsSilent, NothingSaid
  <2>16. reference' \in Poses(Reach(config)) /\ segs \in Seq(SlowLegs(Reach(config)))
    BY <1>1, <1>14, <2>9
  <2>17. QED
    BY <2>9, <2>11, <2>12, <2>14, <2>15, <2>16, BeginContinues
<1>15. QED
  BY <1>11, <1>13, <1>14

\* Within a segment the motion is where the segment is.
LEMMA WithinSegment ==
  ASSUME NEW r \in Nat, NEW segs \in Seq(Legs(r)), NEW i \in 1 .. Len(segs),
         NEW t \in 0 .. segs[i].duration
  PROVE  /\ NowAt(segs, i, t) = SampleSegment(segs[i], t) /\ t \in Nat
         /\ segs[i].duration \in Nat \ {0} /\ segs[i] \in Legs(r)
<1>1. PICK d \in Nat \ {0} : d = segs[i].duration
  BY OffsetSteps
<1>2. Offset(segs, i, i) = 0 /\ Offset(segs, i, i + 1) = d /\ segs[i] \in Legs(r)
  BY <1>1, OffsetSteps
<1>3. IsActive(segs, i, t, i) /\ t \in Nat
  BY <1>1, <1>2 DEF IsActive
<1>4. NowAt(segs, i, t) = SampleSegment(segs[i], t - 0)
  BY <1>2, <1>3, NowIs
<1>5. QED
  BY <1>1, <1>2, <1>3, <1>4

\* It goes from a segment to the next, and from the last to its end or to the first.
LEMMA RandomFollowsContinues ==
  ASSUME ContInv, config.node = "random", RandomFollows, following' = following
  PROVE  ContInv' /\ AllContinue
<1>1. /\ config \in Configs /\ config.node \in Motions /\ Reach(config) = MaxReach
      /\ config.node # "xyz" /\ config.node # "sweep" /\ config.node # "ik"
      /\ MaxReach \in Nat /\ PlayParts /\ RandomParts
      /\ SetAtOnce = {} /\ elapsed \in Nat /\ reference \in Poses(MaxReach)
  BY PlayerHas
<1>2. PICK who : who = config.commanded
  OBVIOUS
<1>3. PICK s : s = segments[idx]
  OBVIOUS
<1>4. PICK pose : pose = SampleSegment(s, elapsed)
  OBVIOUS
<1>5. /\ phase = "moving" /\ Publish(pose, who) /\ config' = config
      /\ UNCHANGED <<segments, reference>>
      /\ elapsed' = IF elapsed >= s.duration THEN 0 ELSE elapsed
      /\ idx' = IF ~(elapsed >= s.duration) \/ (idx = Len(segments) /\ ~config.repeat) THEN idx
                ELSE IF idx = Len(segments) THEN 1 ELSE idx + 1
      /\ phase' = IF elapsed >= s.duration /\ idx = Len(segments) /\ ~config.repeat THEN "done"
                  ELSE phase
      /\ repeated' = (repeated \/ (elapsed >= s.duration /\ idx = Len(segments) /\ config.repeat))
  BY <1>2, <1>3, <1>4 DEF RandomFollows, RandomSends, Publish
<1>6. Built(MaxReach) /\ elapsed <= s.duration /\ AloneIsSilent
  BY <1>1, <1>3, <1>5 DEF PlayParts, RandomParts
<1>7. PICK n \in Nat \ {0} : n = Len(segments) /\ idx \in 1 .. n
  BY <1>6, EmptyIs DEF Built
<1>8. segments \in Seq(Legs(MaxReach))
  BY <1>1, <1>6, BuiltIs
<1>9. PICK d \in Nat \ {0} : d = s.duration
  BY <1>1, <1>3, <1>7, <1>8, OffsetSteps
<1>10. /\ elapsed \in 0 .. d /\ s \in Legs(MaxReach)
       /\ NowAt(segments, idx, elapsed) = pose
  BY <1>1, <1>3, <1>4, <1>6, <1>7, <1>8, <1>9, WithinSegment
<1>11. pose \in Poses(MaxReach) /\ \A m \in MotorIds : elapsed = d => pose[m] = s.end[m]
  <2>1. PICK a \in MotorIds : TRUE
    BY SegmentsAssumption
  <2>2. QED
    BY <1>1, <1>4, <1>9, <1>10, SampleIs
<1>12. Now = pose
  BY <1>1, <1>5, <1>10 DEF Now
<1>13. SetAtOnce' = {} /\ Reach(config)' = MaxReach
  BY <1>1, <1>5 DEF SetAtOnce, Reach
<1>14. idx' \in 1 .. Len(segments) /\ elapsed' \in Nat
  BY <1>1, <1>5, <1>7, <1>9
<1>15. ASSUME NEW m \in MotorIds, Followed(m)'
       PROVE  Now'[m] = pose[m]
  <2>1. CASE ~(elapsed >= d)
    BY <1>1, <1>5, <1>9, <1>10, <2>1 DEF Now
  <2>2. CASE elapsed >= d /\ idx = n /\ ~config.repeat
    <3>1. Now' = segments[n].end
      BY <1>1, <1>5, <1>7, <1>9, <2>2 DEF Now
    <3>2. elapsed = d
      BY <1>10, <2>2
    <3>3. QED
      BY <1>3, <1>11, <2>2, <3>1, <3>2
  <2>3. CASE elapsed >= d /\ idx = n /\ config.repeat
    BY <1>1, <1>5, <1>7, <1>9, <1>15, <2>3 DEF Followed
  <2>4. CASE elapsed >= d /\ idx # n
    <3>1. PICK next \in 1 .. n : next = idx + 1
      BY <1>7, <2>4
    <3>2. /\ config' = config /\ phase' = "moving" /\ segments' = segments /\ idx' = next
          /\ elapsed' = 0
      BY <1>5, <1>7, <1>9, <2>4, <3>1
    <3>3. Now' = NowAt(segments, next, 0)
      BY <1>1, <3>2 DEF Now
    <3>4. PICK e \in Nat \ {0} : e = segments[next].duration
      BY <1>1, <1>7, <1>8, <3>1, OffsetSteps
    <3>5. NowAt(segments, next, 0) = SampleSegment(segments[next], 0) /\ segments[next] \in Legs(MaxReach)
      BY <1>1, <1>7, <1>8, <3>1, <3>4, WithinSegment
    <3>6. SampleSegment(segments[next], 0)[m] = segments[next].start[m]
      BY <1>1, <3>4, <3>5, SampleIs
    <3>7. segments[idx].end[m] = segments[idx + 1].start[m]
      <4>1. idx \in 1 .. Len(segments) - 1
        BY <1>7, <2>4
      <4>2. QED
        BY <1>1, <1>6, <4>1 DEF Built, AllJoined, Joined
    <3>8. elapsed = d
      BY <1>10, <2>4
    <3>9. QED
      BY <1>3, <1>11, <3>1, <3>3, <3>5, <3>6, <3>7, <3>8
  <2>5. QED
    BY <1>7, <2>1, <2>2, <2>3, <2>4
<1>16. InReach(pose, who)
  BY <1>1, <1>11 DEF InReach, Poses
<1>17. Arrives(pose, who)
  BY <1>2, <1>6, <1>15 DEF Arrives, AloneIsSilent
<1>18. Departs(pose, who)
  BY <1>1, <1>5, <1>12 DEF Departs, Followed, Excused
<1>19. PlayParts'
  <2>1. Built(MaxReach)'
    BY <1>5, <1>6, <1>14, StaysBuilt
  <2>2. phase' \in {"moving", "done"}
    BY <1>5
  <2>3. QED
    BY <1>1, <1>5, <1>13, <2>1, <2>2 DEF PlayParts
<1>20. SweepParts'
  BY <1>1, <1>5 DEF SweepParts
<1>21. RandomParts'
  <2>1. AloneIsSilent'
    BY <1>2, <1>5, <1>6 DEF AloneIsSilent, Publish
  <2>2. elapsed' <= segments[idx'].duration
    <3>1. PICK k \in 1 .. n : k = idx'
      BY <1>7, <1>14
    <3>2. segments[k].duration \in Nat
      BY <1>1, <1>7, <1>8, <3>1, OffsetSteps
    <3>3. CASE elapsed >= d
      BY <1>5, <1>9, <3>1, <3>2, <3>3
    <3>4. CASE ~(elapsed >= d)
      BY <1>3, <1>5, <1>9, <1>10, <3>4
    <3>5. QED
      BY <3>3, <3>4
  <2>3. QED
    BY <1>5, <2>1, <2>2 DEF RandomParts
<1>22. QED
  BY <1>1, <1>5, <1>14, <1>16, <1>17, <1>18, <1>19, <1>20, <1>21, PublishContinues

\* The steps of random_motion_gc_node.
LEMMA RandomContinues ==
  ASSUME ContInv, RandomNext, following' = following
  PROVE  ContInv' /\ AllContinue
<1>1. config.node = "random"
  BY DEF RandomNext
<1>2. /\ config \in Configs /\ config.node \in Motions /\ Reach(config) = MaxReach
      /\ config.motion # "sine"
  BY <1>1, PlayerHas
<1>3. CASE OnMotorStates(Int)
  <2>1. config.reported \cap Int \subseteq -Reach(config) .. Reach(config)
    BY <1>1, <1>2, PlayerReaches
  <2>2. QED
    BY <1>2, <1>3, <2>1, HearingContinues
<1>4. CASE RandomBegins
  BY <1>1, <1>4, RandomBeginsContinues
<1>5. CASE RandomFollows
  BY <1>1, <1>5, RandomFollowsContinues
<1>6. CASE RandomHolds
  <2>1. phase = "done" /\ Rest(segments[Len(segments)].end, config.commanded)
    BY <1>6 DEF RandomHolds
  <2>2. QED
    BY <1>1, <1>2, <2>1, HoldContinues
<1>7. CASE RandomTick
  BY <1>1, <1>7, RandomTickContinues
<1>8. QED
  BY <1>3, <1>4, <1>5, <1>6, <1>7 DEF RandomNext, RandomTimer

-----------------------------------------------------------------------------
(* The steps of ee_xyz_trajectory_node *)

\* The controller of the end effector's node, between the steps of its timer.
IsController(c) ==
  /\ c = [phase |-> c.phase, pose |-> c.pose, segments |-> c.segments, elapsed |-> c.elapsed,
          goal |-> c.goal, accepted |-> c.accepted]
  /\ c.phase \in {"waiting", "moving", "done"}
  /\ c.pose \in Poses(MaxReach) /\ c.elapsed \in Nat
  /\ c.goal # NoGoal => c.phase = "moving"
  /\ c.phase = "moving" => c.segments \in Seq(SlowLegs(MaxReach)) /\ Len(c.segments) = 1

\* Where it sends the motors.
NowOf(c) == IF c.goal = NoGoal THEN c.pose ELSE NowAt(c.segments, 1, c.elapsed)

\* Either it waits, or it has just begun where the motors are, or it goes on.
GoesOn(c) ==
  \/ c.phase = "waiting" /\ (phase = "waiting" \/ ~(config.controlled \subseteq Connected))
  \/ /\ c.phase # "waiting" /\ phase = "waiting" /\ config.controlled \subseteq Connected
     /\ \A m \in config.controlled : NowOf(c)[m] = samples[m].q
  \/ c.phase # "waiting" /\ phase # "waiting" /\ \A m \in MotorIds : NowOf(c)[m] = Now[m]

\* A controller that carries on with what the motors were sent.
CarriesOn(c) == IsController(c) /\ GoesOn(c)

\* Its desired pose is where it sends the motors.
AtItsPose(c) == \A m \in MotorIds : NowOf(c)[m] = c.pose[m]

\* What the invariant says of the node of the end effector.
LEMMA XyzHas ==
  ASSUME ContInv, config.node = "xyz"
  PROVE  /\ config \in Configs /\ config.node \in Motions /\ Reach(config) = MaxReach
         /\ MaxReach \in Nat /\ Kept(MaxReach) /\ PlayParts
         /\ elapsed \in Nat /\ reference \in Poses(MaxReach)
         /\ idx = 1 /\ phase \in {"waiting", "moving", "done"}
         /\ config.reported \subseteq -MaxReach .. MaxReach
         /\ config.range \subseteq -MaxReach .. MaxReach
<1>1. config \in Configs /\ config.node \in Motions /\ MaxReach \in Nat /\ config.node # "sweep"
  BY MotionAssumption DEF ContInv, Motions
<1>2. Reach(config) = MaxReach
  BY <1>1, ReachIs
<1>3. Kept(MaxReach) /\ PlayParts
  BY <1>1, <1>2 DEF ContInv
<1>4. elapsed \in Nat /\ reference \in Poses(MaxReach)
  BY <1>3 DEF Kept
<1>5. config.reported \cup config.range \subseteq -MaxReach .. MaxReach
  BY <1>1, <1>2, ReachAssumption DEF Reachable
<1>6. QED
  BY <1>1, <1>2, <1>3, <1>4, <1>5 DEF PlayParts

\* Before the timer the controller is as the last one left it.
LEMMA ControllerIsSound ==
  ASSUME ContInv, config.node = "xyz"
  PROVE  CarriesOn(Controller)
<1>1. /\ MaxReach \in Nat /\ Kept(MaxReach) /\ PlayParts /\ Reach(config) = MaxReach
      /\ elapsed \in Nat /\ reference \in Poses(MaxReach)
      /\ idx = 1 /\ phase \in {"waiting", "moving", "done"}
  BY XyzHas
<1>2. PICK c : c = Controller
  OBVIOUS
<1>3. /\ c.phase = phase /\ c.pose = reference /\ c.segments = segments /\ c.elapsed = elapsed
      /\ c.goal = following /\ c.accepted = accepted
      /\ c = [phase |-> phase, pose |-> reference, segments |-> segments, elapsed |-> elapsed,
              goal |-> following, accepted |-> accepted]
  BY <1>2 DEF Controller
<1>4. IsController(c)
  BY <1>1, <1>3 DEF IsController, PlayParts, Built
<1>5. NowOf(c) = Now
  <2>1. following # NoGoal => phase = "moving"
    BY <1>1 DEF PlayParts
  <2>2. QED
    BY <1>1, <1>3, <2>1 DEF NowOf, Now
<1>6. GoesOn(c)
  BY <1>3, <1>5 DEF GoesOn
<1>7. QED
  BY <1>2, <1>4, <1>6 DEF CarriesOn

\* After a disconnect it waits.
LEMMA DisconnectIsSound ==
  ASSUME NEW c, CarriesOn(c), MaxReach \in Nat
  PROVE  CarriesOn(AfterDisconnect(c))
<1>1. CASE config.reset /\ Lost # {}
  <2>1. PICK d : d = [c EXCEPT !.phase = "waiting", !.goal = NoGoal]
    OBVIOUS
  <2>2. /\ d.phase = "waiting" /\ d.goal = NoGoal /\ d.pose = c.pose /\ d.segments = c.segments
        /\ d.elapsed = c.elapsed /\ d.accepted = c.accepted
        /\ d = [phase |-> d.phase, pose |-> d.pose, segments |-> d.segments,
                elapsed |-> d.elapsed, goal |-> d.goal, accepted |-> d.accepted]
    BY <2>1 DEF CarriesOn, IsController
  <2>3. ~(config.controlled \subseteq Connected)
    BY <1>1 DEF Lost
  <2>4. QED
    BY <1>1, <2>1, <2>2, <2>3 DEF CarriesOn, IsController, GoesOn, AfterDisconnect
<1>2. CASE ~(config.reset /\ Lost # {})
  BY <1>2 DEF AfterDisconnect
<1>3. QED
  BY <1>1, <1>2

\* It begins where the motors are.
LEMMA InitialisedIsSound ==
  ASSUME ContInv, config.node = "xyz", NEW c, CarriesOn(c)
  PROVE  CarriesOn(Initialised(c))
<1>1. MaxReach \in Nat /\ Kept(MaxReach)
  BY XyzHas
<1>2. CASE c.phase = "waiting" /\ config.controlled \subseteq Connected
  <2>1. PICK target : target = [m \in config.controlled |-> samples[m].q]
    OBVIOUS
  <2>2. config.controlled \subseteq MotorIds
    BY <1>2 DEF Connected
  <2>3. DOMAIN target = config.controlled /\ \A m \in config.controlled : target[m] = samples[m].q
    BY <2>1
  <2>4. \A m \in DOMAIN target : target[m] \in -MaxReach .. MaxReach
    BY <1>1, <2>2, <2>3 DEF Kept
  <2>5. PICK pose : pose = Overlay(Zero, target)
    OBVIOUS
  <2>6. /\ pose \in Poses(MaxReach)
        /\ \A m \in MotorIds : pose[m] = IF m \in DOMAIN target THEN target[m] ELSE Zero[m]
    <3>1. Zero \in Poses(MaxReach)
      BY <1>1 DEF Zero, Poses
    <3>2. QED
      BY <1>1, <2>4, <2>5, <3>1, OverlayReach
  <2>7. PICK d : d = [c EXCEPT !.phase = "done", !.pose = pose]
    OBVIOUS
  <2>8. /\ d.phase = "done" /\ d.goal = c.goal /\ d.pose = pose /\ d.segments = c.segments
        /\ d.elapsed = c.elapsed /\ d.accepted = c.accepted
        /\ d = [phase |-> d.phase, pose |-> d.pose, segments |-> d.segments,
                elapsed |-> d.elapsed, goal |-> d.goal, accepted |-> d.accepted]
    BY <2>7 DEF CarriesOn, IsController
  <2>9. c.goal = NoGoal /\ c.elapsed \in Nat /\ phase = "waiting"
    BY <1>2 DEF CarriesOn, IsController, GoesOn
  <2>10. IsController(d)
    BY <2>6, <2>8, <2>9 DEF IsController
  <2>11. \A m \in config.controlled : NowOf(d)[m] = samples[m].q
    BY <2>2, <2>3, <2>6, <2>8, <2>9 DEF NowOf
  <2>12. GoesOn(d)
    BY <1>2, <2>8, <2>9, <2>11 DEF GoesOn
  <2>13. Initialised(c) = d
    BY <1>2, <2>1, <2>5, <2>7 DEF Initialised
  <2>14. QED
    BY <2>10, <2>12, <2>13 DEF CarriesOn
<1>3. CASE ~(c.phase = "waiting" /\ config.controlled \subseteq Connected)
  BY <1>3 DEF Initialised
<1>4. QED
  BY <1>2, <1>3

\* Where the node's only segment is, and where its motion is.
LEMMA OneSegmentIs ==
  ASSUME NEW r \in Nat, NEW segs \in Seq(SlowLegs(r)), Len(segs) = 1, NEW t \in Nat
  PROVE  /\ SampleSegment(segs[1], t) \in Poses(r)
         /\ \A m \in MotorIds : NowAt(segs, 1, t)[m] = SampleSegment(segs[1], t)[m]
         /\ segs[1].duration \in Nat \ {0}
<1>1. PICK a \in MotorIds : TRUE
  BY SegmentsAssumption
<1>2. segs \in Seq(Legs(r)) /\ 1 \in 1 .. Len(segs)
  BY <1>1, SlowLegsAre
<1>3. PICK d \in Nat \ {0} : d = segs[1].duration
  BY <1>2, OffsetSteps
<1>4. Offset(segs, 1, 1) = 0 /\ Offset(segs, 1, 1 + 1) = d /\ segs[1] \in Legs(r)
  <2>1. Offset(segs, 1, 1) = 0 /\ segs[1] \in Legs(r)
    BY <1>2, OffsetSteps
  <2>2. PICK one \in 1 .. Len(segs) : one = 1
    BY <1>2
  <2>3. Offset(segs, 1, one + 1) = Offset(segs, 1, one) + segs[one].duration
    BY <1>2, OffsetSteps
  <2>4. QED
    BY <1>3, <2>1, <2>2, <2>3
<1>5. CASE t <= d
  <2>1. t \in 0 .. segs[1].duration
    BY <1>3, <1>5
  <2>2. NowAt(segs, 1, t) = SampleSegment(segs[1], t)
    BY <1>2, <2>1, WithinSegment
  <2>3. SampleSegment(segs[1], t) \in Poses(r)
    BY <1>1, <1>4, <2>1, SampleIs
  <2>4. QED
    BY <1>3, <2>2, <2>3
<1>6. CASE t > d
  <2>1. IsActive(segs, 1, t, 2)
    BY <1>2, <1>4, <1>6 DEF IsActive
  <2>2. NowAt(segs, 1, t) = segs[1].end
    BY <1>2, <2>1, NowIs
  <2>3. SampleSegment(segs[1], t) = SampleSegment(segs[1], d)
    BY <1>3, <1>6 DEF SampleSegment
  <2>4. d \in 0 .. segs[1].duration
    BY <1>3
  <2>5. SampleSegment(segs[1], d) \in Poses(r)
    BY <1>1, <1>4, <2>4, SampleIs
  <2>6. \A m \in MotorIds : SampleSegment(segs[1], d)[m] = segs[1].end[m]
    BY <1>3, <1>4, <2>4, SampleIs
  <2>7. QED
    BY <1>3, <2>2, <2>3, <2>5, <2>6
<1>7. QED
  BY <1>5, <1>6

\* It samples its segment, and rests at the end of it.
LEMMA UpdatedIsSound ==
  ASSUME NEW c, CarriesOn(c), MaxReach \in Nat
  PROVE  /\ CarriesOn(Updated(c)) /\ AtItsPose(Updated(c))
         /\ (Updated(c).phase = "waiting") <=> (c.phase = "waiting")
<1>1. CASE c.goal = NoGoal
  BY <1>1 DEF Updated, AtItsPose, NowOf
<1>2. CASE c.goal # NoGoal
  <2>1. /\ c.phase = "moving" /\ c.segments \in Seq(SlowLegs(MaxReach)) /\ Len(c.segments) = 1
        /\ c.elapsed \in Nat
    BY <1>2 DEF CarriesOn, IsController
  <2>2. PICK pose : pose = SampleSegment(c.segments[1], c.elapsed)
    OBVIOUS
  <2>3. /\ pose \in Poses(MaxReach) /\ \A m \in MotorIds : NowOf(c)[m] = pose[m]
    BY <1>2, <2>1, <2>2, OneSegmentIs DEF NowOf
  <2>4. PICK there : there = [c EXCEPT !.pose = pose]
    OBVIOUS
  <2>5. /\ there.phase = "moving" /\ there.pose = pose /\ there.segments = c.segments
        /\ there.elapsed = c.elapsed /\ there.goal = c.goal /\ there.accepted = c.accepted
        /\ there = [phase |-> there.phase, pose |-> there.pose, segments |-> there.segments,
                    elapsed |-> there.elapsed, goal |-> there.goal, accepted |-> there.accepted]
    BY <2>1, <2>4 DEF CarriesOn, IsController
  <2>6. PICK d : d = [there EXCEPT !.phase = "done", !.goal = NoGoal]
    OBVIOUS
  <2>7. /\ d.phase = "done" /\ d.pose = pose /\ d.segments = c.segments
        /\ d.elapsed = c.elapsed /\ d.goal = NoGoal /\ d.accepted = c.accepted
        /\ d = [phase |-> d.phase, pose |-> d.pose, segments |-> d.segments,
                elapsed |-> d.elapsed, goal |-> d.goal, accepted |-> d.accepted]
    BY <2>5, <2>6
  <2>8. Updated(c) = IF c.elapsed < c.segments[1].duration THEN there ELSE d
    BY <1>2, <2>2, <2>4, <2>6 DEF Updated
  <2>9. NowOf(there) = NowOf(c)
    BY <1>2, <2>5 DEF NowOf
  <2>10. NowOf(d) = pose
    BY <2>7 DEF NowOf
  <2>11. IsController(there)
    BY <2>1, <2>3, <2>5 DEF IsController
  <2>12. IsController(d)
    BY <2>1, <2>3, <2>7 DEF IsController
  <2>13. GoesOn(c) /\ c.phase # "waiting"
    BY <2>1 DEF CarriesOn
  <2>14. config.controlled \subseteq Connected => config.controlled \subseteq MotorIds
    BY DEF Connected
  <2>15. GoesOn(there) /\ GoesOn(d)
    BY <2>3, <2>5, <2>7, <2>9, <2>10, <2>13, <2>14 DEF GoesOn
  <2>16. AtItsPose(there) /\ AtItsPose(d)
    BY <2>3, <2>5, <2>7, <2>9, <2>10 DEF AtItsPose
  <2>17. QED
    BY <2>1, <2>5, <2>7, <2>8, <2>11, <2>12, <2>15, <2>16 DEF CarriesOn
<1>3. QED
  BY <1>1, <1>2

\* A new goal is approached from where the motors are.
LEMMA StartedIsSound ==
  ASSUME ContInv, config.node = "xyz", NEW c, CarriesOn(c), NEW goal, NEW d \in Started(c, goal)
  PROVE  CarriesOn(d)
<1>1. MaxReach \in Nat /\ config.range \subseteq -MaxReach .. MaxReach
  BY XyzHas
<1>2. PICK ready : ready = Updated(Initialised(c))
  OBVIOUS
<1>3. CarriesOn(ready) /\ AtItsPose(ready)
  <2>1. CarriesOn(Initialised(c))
    BY InitialisedIsSound
  <2>2. QED
    BY <1>1, <1>2, <2>1, UpdatedIsSound
<1>4. CASE d = ready
  BY <1>3, <1>4
<1>5. CASE d # ready
  <2> DEFINE To(pose) ==
               [phase |-> "moving", pose |-> ready.pose, elapsed |-> 0,
                goal |-> goal, accepted |-> goal,
                segments |-> <<Segment(ready.pose, pose,
                                       QuinticDuration(ready.pose, pose, LeastDuration))>>]
  <2>1. ready.phase # "waiting" /\ \E way \in [config.controlled -> config.range] :
                                     d = To(Overlay(Zero, way))
    BY <1>2, <1>5 DEF Started
  <2>2. PICK way \in [config.controlled -> config.range] : d = To(Overlay(Zero, way))
    BY <2>1
  <2>3. PICK pose \in Poses(MaxReach) : pose = Overlay(Zero, way)
    <3>1. Zero \in Poses(MaxReach)
      BY <1>1 DEF Zero, Poses
    <3>2. \A m \in DOMAIN way : way[m] \in -MaxReach .. MaxReach
      BY <1>1
    <3>3. QED
      BY <1>1, <3>1, <3>2, OverlayReach
  <2>4. PICK from \in Poses(MaxReach) : from = ready.pose
    BY <1>3 DEF CarriesOn, IsController
  <2>5. PICK s \in SlowLegs(MaxReach) : s = Segment(from, pose, QuinticDuration(from, pose, LeastDuration))
    BY <1>1, XyzAssumption, QuinticIsSlow
  <2>6. s.start = from
    BY <2>5 DEF Segment
  <2>7. PICK segs : segs = <<s>>
    OBVIOUS
  <2>8. segs \in Seq(SlowLegs(MaxReach)) /\ Len(segs) = 1 /\ segs # <<>> /\ segs[1] = s
    BY <2>7
  <2>9. /\ d.phase = "moving" /\ d.pose = from /\ d.elapsed = 0 /\ d.goal = goal
        /\ d.accepted = goal /\ d.segments = segs
        /\ d = [phase |-> d.phase, pose |-> d.pose, segments |-> d.segments,
                elapsed |-> d.elapsed, goal |-> d.goal, accepted |-> d.accepted]
    BY <2>2, <2>3, <2>4, <2>5, <2>7
  <2>10. IsController(d)
    BY <2>8, <2>9 DEF IsController
  <2>11. \A m \in MotorIds : NowOf(d)[m] = from[m]
    <3>1. \A m \in MotorIds : NowAt(segs, 1, 0)[m] = from[m]
      BY <1>1, <2>6, <2>8, StartsAtStart
    <3>2. QED
      BY <2>9, <3>1 DEF NowOf
  <2>12. \A m \in MotorIds : NowOf(ready)[m] = from[m]
    BY <1>3, <2>4 DEF AtItsPose
  <2>13. GoesOn(ready) /\ (config.controlled \subseteq Connected => config.controlled \subseteq MotorIds)
    BY <1>3 DEF CarriesOn, Connected
  <2>14. GoesOn(d)
    BY <2>1, <2>9, <2>11, <2>12, <2>13 DEF GoesOn
  <2>15. QED
    BY <2>10, <2>14 DEF CarriesOn
<1>6. QED
  BY <1>4, <1>5

\* So it is when there is a goal in the queue, and when there is none.
LEMMA GoalIsSound ==
  ASSUME ContInv, config.node = "xyz", NEW c, CarriesOn(c), NEW d \in AfterGoal(c)
  PROVE  CarriesOn(d)
<1>1. CASE queue = <<>>
  BY <1>1 DEF AfterGoal
<1>2. CASE queue # <<>>
  <2>1. d \in Started(c, queue[1])
    BY <1>2 DEF AfterGoal
  <2>2. QED
    BY <2>1, StartedIsSound
<1>3. QED
  BY <1>1, <1>2

\* What the timer leaves behind, and what it has sent.
LEMMA TimerSends ==
  ASSUME ContInv, config.node = "xyz", XyzTimer
  PROVE  \E c, who : /\ CarriesOn(c) /\ who \in {Connected, {}}
                     /\ who # {} => AtItsPose(c) /\ c.phase # "waiting"
                     /\ who = {} => Connected = {} \/ c.phase = "waiting"
                     /\ phase' = c.phase /\ segments' = c.segments /\ elapsed' = c.elapsed
                     /\ reference' = c.pose /\ following' = c.goal /\ idx' = idx
                     /\ Publish([m \in MotorIds |-> IF m \in config.controlled THEN c.pose[m]
                                                    ELSE samples[m].q], who)
<1>1. MaxReach \in Nat /\ Kept(MaxReach)
  BY XyzHas
<1>2. PICK c0 \in AfterGoal(AfterDisconnect(Controller)) :
        XyzPublishes(IF Connected = {} THEN c0 ELSE Updated(Initialised(c0)))
  BY DEF XyzTimer
<1>3. CarriesOn(c0)
  <2>1. CarriesOn(AfterDisconnect(Controller))
    BY <1>1, ControllerIsSound, DisconnectIsSound
  <2>2. QED
    BY <1>2, <2>1, GoalIsSound
<1>4. PICK c : c = IF Connected = {} THEN c0 ELSE Updated(Initialised(c0))
  OBVIOUS
<1>5. CarriesOn(c) /\ (Connected # {} => AtItsPose(c))
  <2>1. CarriesOn(Initialised(c0))
    BY <1>3, InitialisedIsSound
  <2>2. CarriesOn(Updated(Initialised(c0))) /\ AtItsPose(Updated(Initialised(c0)))
    BY <1>1, <2>1, UpdatedIsSound
  <2>3. QED
    BY <1>3, <1>4, <2>2
<1>6. PICK pose : pose = [m \in MotorIds |-> IF m \in config.controlled THEN c.pose[m]
                                             ELSE samples[m].q]
  OBVIOUS
<1>7. /\ phase' = c.phase /\ segments' = c.segments /\ elapsed' = c.elapsed
      /\ reference' = c.pose /\ following' = c.goal /\ idx' = idx
      /\ IF Connected # {} /\ c.phase # "waiting" THEN Publish(pose, Connected)
         ELSE UNCHANGED <<config, samples, command, sinceCmd>>
  BY <1>2, <1>4, <1>6 DEF XyzPublishes, XyzTimer
<1>8. CASE Connected # {} /\ c.phase # "waiting"
  BY <1>5, <1>6, <1>7, <1>8
<1>9. CASE ~(Connected # {} /\ c.phase # "waiting")
  <2>1. Publish(pose, {})
    <3>1. command = [m \in MotorIds |-> command[m]] /\ sinceCmd = [m \in MotorIds |-> sinceCmd[m]]
      BY <1>1 DEF Kept
    <3>2. QED
      BY <1>7, <1>9, <3>1 DEF Publish
  <2>2. QED
    BY <1>5, <1>6, <1>7, <1>9, <2>1
<1>10. QED
  BY <1>8, <1>9

\* Then the commands the timer sends do not jump.
LEMMA TimerContinues ==
  ASSUME ContInv, config.node = "xyz", XyzTimer
  PROVE  ContInv' /\ AllContinue
<1>1. /\ config \in Configs /\ config.node \in Motions /\ Reach(config) = MaxReach
      /\ MaxReach \in Nat /\ Kept(MaxReach) /\ PlayParts
      /\ idx = 1 /\ phase \in {"waiting", "moving", "done"}
  BY XyzHas
<1>2. PICK c, who : /\ CarriesOn(c) /\ who \in {Connected, {}}
                    /\ who # {} => AtItsPose(c) /\ c.phase # "waiting"
                    /\ who = {} => Connected = {} \/ c.phase = "waiting"
                    /\ phase' = c.phase /\ segments' = c.segments /\ elapsed' = c.elapsed
                    /\ reference' = c.pose /\ following' = c.goal /\ idx' = idx
                    /\ Publish([m \in MotorIds |-> IF m \in config.controlled THEN c.pose[m]
                                                   ELSE samples[m].q], who)
  BY TimerSends
<1>3. PICK pose : pose = [m \in MotorIds |-> IF m \in config.controlled THEN c.pose[m]
                                             ELSE samples[m].q]
  OBVIOUS
<1>4. config' = config /\ Publish(pose, who)
  BY <1>2, <1>3 DEF Publish
<1>5. IsController(c) /\ GoesOn(c)
  BY <1>2 DEF CarriesOn
<1>6. SetAtOnce = {} /\ SetAtOnce' = {} /\ Reach(config)' = MaxReach
  BY <1>1, <1>4 DEF SetAtOnce, Reach
<1>7. Now' = NowOf(c)
  <2>1. c.goal # NoGoal => c.phase = "moving"
    BY <1>5 DEF IsController
  <2>2. phase' # "sine"
    BY <1>2, <1>5 DEF IsController
  <2>3. QED
    BY <1>1, <1>2, <1>4, <2>1, <2>2 DEF Now, NowOf
<1>8. \A m \in MotorIds : m \in who =>
        pose[m] = IF m \in config.controlled THEN Now'[m] ELSE samples[m].q
  BY <1>2, <1>3, <1>7 DEF AtItsPose
<1>9. InReach(pose, who)
  <2>1. \A m \in MotorIds : c.pose[m] \in -MaxReach .. MaxReach
    BY <1>5 DEF IsController, Poses
  <2>2. \A m \in MotorIds : samples[m].q \in -MaxReach .. MaxReach
    BY <1>1 DEF Kept
  <2>3. QED
    BY <1>1, <1>3, <2>1, <2>2 DEF InReach
<1>10. Arrives(pose, who)
  <2>1. SUFFICES ASSUME NEW m \in MotorIds, Followed(m)'
                 PROVE  \/ m \in who /\ Now'[m] = pose[m]
                        \/ m \notin who /\ (command[m] = NoCommand \/ (Followed(m) /\ Now'[m] = Now[m]))
    BY DEF Arrives
  <2>2. m \in config.controlled /\ c.phase # "waiting"
    BY <1>1, <1>2, <1>4, <2>1 DEF Followed
  <2>3. CASE m \in who
    BY <1>8, <2>2, <2>3
  <2>4. CASE m \notin who
    <3>1. m \notin Connected
      BY <1>2, <2>2, <2>4
    <3>2. phase # "waiting" /\ \A k \in MotorIds : NowOf(c)[k] = Now[k]
      BY <1>5, <2>2, <3>1 DEF GoesOn
    <3>3. Followed(m)
      BY <1>1, <2>2, <3>2 DEF Followed
    <3>4. QED
      BY <1>7, <2>4, <3>2, <3>3
  <2>5. QED
    BY <2>3, <2>4
<1>11. Departs(pose, who)
  <2>1. ASSUME NEW m \in MotorIds, m \in who
        PROVE  IF command[m] = NoCommand
               THEN m \in Connected /\ phase = "waiting" => pose[m] = samples[m].q
               ELSE (Followed(m) /\ pose[m] = Now[m]) \/ Excused(m)
    <3>1. command'[m] = pose[m]
      BY <1>4, <2>1 DEF Publish
    <3>2. CASE m \notin config.controlled
      <4>1. pose[m] = samples[m].q
        BY <1>8, <2>1, <3>2
      <4>2. QED
        BY <1>1, <3>1, <3>2, <4>1 DEF Excused
    <3>3. CASE m \in config.controlled
      <4>1. c.phase # "waiting" /\ who = Connected /\ pose[m] = NowOf(c)[m]
        BY <1>2, <1>7, <1>8, <2>1, <3>3
      <4>2. CASE phase = "waiting"
        <5>1. pose[m] = samples[m].q
          BY <1>5, <3>3, <4>1, <4>2 DEF GoesOn
        <5>2. QED
          BY <1>1, <3>1, <4>2, <5>1 DEF Excused
      <4>3. CASE phase # "waiting"
        <5>1. Followed(m)
          BY <1>1, <3>3, <4>3 DEF Followed
        <5>2. pose[m] = Now[m]
          BY <1>5, <4>1, <4>3 DEF GoesOn
        <5>3. QED
          BY <4>3, <5>1, <5>2
      <4>4. QED
        BY <4>2, <4>3
    <3>4. QED
      BY <3>2, <3>3
  <2>2. QED
    BY <2>1 DEF Departs
<1>12. elapsed' \in Nat /\ reference' \in Poses(Reach(config))
  BY <1>1, <1>2, <1>5 DEF IsController
<1>13. PlayParts'
  <2>1. ASSUME phase' = "moving"
        PROVE  Built(MaxReach)' /\ Len(segments') = 1
    <3>1. segments' \in Seq(SlowLegs(MaxReach)) /\ Len(segments') = 1
      BY <1>2, <1>5, <2>1 DEF IsController
    <3>2. AllJoined'
      <4>1. PICK segs : segs = segments'
        OBVIOUS
      <4>2. \A m : Joined(segs, m)
        <5>1. Len(segs) - 1 = 0
          BY <3>1, <4>1
        <5>2. \A i : i \notin 1 .. 0
          OBVIOUS
        <5>3. QED
          BY <5>1, <5>2 DEF Joined
      <4>3. \A m : Joined(segments', m)
        BY <4>1, <4>2
      <4>4. QED
        BY <4>3 DEF AllJoined
    <3>3. segments' # <<>> /\ idx' \in 1 .. Len(segments')
      <4>1. segments' = <<>> => Len(segments') = 0
        OBVIOUS
      <4>2. 1 \in 1 .. 1 /\ 1 # 0
        OBVIOUS
      <4>3. QED
        BY <1>1, <1>2, <3>1, <4>1, <4>2
    <3>4. Built(MaxReach)'
      BY <1>1, <3>1, <3>2, <3>3 DEF Built, SlowLegs, Legs, Poses
    <3>5. QED
      BY <3>1, <3>4
  <2>2. QED
    BY <1>1, <1>2, <1>4, <1>5, <1>6, <2>1 DEF PlayParts, IsController
<1>14. SweepParts' /\ RandomParts'
  BY <1>1, <1>4, XyzHas DEF SweepParts, RandomParts
<1>15. QED
  BY <1>1, <1>4, <1>9, <1>10, <1>11, <1>12, <1>13, <1>14, PublishContinues

\* The steps of ee_xyz_trajectory_node.
LEMMA XyzContinues ==
  ASSUME ContInv, XyzNext
  PROVE  ContInv' /\ AllContinue
<1>1. config.node = "xyz"
  BY DEF XyzNext
<1>2. /\ config.node \in Motions /\ Reach(config) = MaxReach /\ Kept(MaxReach) /\ PlayParts
      /\ phase \in {"waiting", "moving", "done"}
      /\ config.reported \subseteq -MaxReach .. MaxReach
  BY <1>1, XyzHas
<1>3. CASE \E s \in config.sources : NewGoal(s) \/ SourceGoesOn(s)
  <2>1. UNCHANGED motionVars /\ following' = following
    BY <1>3 DEF NewGoal, SourceGoesOn, Compare, Request, Drain, Put, Asks
  <2>2. UNCHANGED theMotion /\ UNCHANGED <<command, sinceCmd>> /\ samples' = samples
    BY <2>1 DEF motionVars, theMotion
  <2>3. samples \in [MotorIds -> [q : -Reach(config) .. Reach(config), age : Int]]
    BY <1>2 DEF Kept
  <2>4. QED
    BY <1>2, <2>2, <2>3, HeardIsNear
<1>4. CASE OnMotorStates(Int) /\ UNCHANGED xyzVars
  <2>1. following' = following /\ config.reported \cap Int \subseteq -Reach(config) .. Reach(config)
    BY <1>2, <1>4 DEF xyzVars
  <2>2. QED
    BY <1>2, <1>4, <2>1, HearingContinues
<1>5. CASE XyzTimer
  BY <1>1, <1>5, TimerContinues
<1>6. CASE XyzTick
  <2>1. TimePasses(CapAtEnd(elapsed + 1)) /\ following' = following /\ phase # "sine"
    BY <1>2, <1>6 DEF XyzTick, xyzVars
  <2>2. QED
    BY <1>1, <2>1, CapContinues
<1>7. QED
  BY <1>3, <1>4, <1>5, <1>6 DEF XyzNext

-----------------------------------------------------------------------------
(* All of them *)

\* The invariant holds at the start.
LEMMA InvContInit == DriversInit => ContInv
<1> SUFFICES ASSUME DriversInit PROVE ContInv
  OBVIOUS
<1>1. /\ config \in Configs
      /\ samples = [m \in MotorIds |-> [q |-> 0, age |-> MaxStateAge + 1]]
      /\ phase = "waiting" /\ segments = <<>> /\ idx = 1 /\ elapsed = 0
      /\ reference = Zero
      /\ command = [m \in MotorIds |-> NoCommand]
      /\ sinceCmd = [m \in MotorIds |-> SinceCap]
      /\ repeated = FALSE /\ following = NoGoal
  BY DEF DriversInit, MotionsInit, MotionStart, XyzInit
<1>2. PICK r \in Nat : r = Reach(config)
  BY <1>1, ReachIs
<1>3. Kept(r)
  <2>1. SinceCap \in 0 .. SinceCap /\ MaxStateAge + 1 \in Int
    BY MotionAssumption
  <2>2. 0 \in -r .. r
    OBVIOUS
  <2>3. reference \in Poses(r)
    BY <1>1, <2>2 DEF Zero, Poses
  <2>4. samples \in [MotorIds -> [q : -r .. r, age : Int]]
    BY <1>1, <2>1, <2>2
  <2>5. QED
    BY <1>1, <2>1, <2>3, <2>4 DEF Kept
<1>4. PlayParts
  BY <1>1 DEF PlayParts, NothingSaid
<1>5. SweepParts /\ RandomParts
  BY <1>1 DEF SweepParts, RandomParts, AloneIsSilent
<1>6. AllNear
  BY <1>1 DEF AllNear, Followed
<1>7. QED
  BY <1>1, <1>2, <1>3, <1>4, <1>5, <1>6 DEF ContInv

\* Every step of the driver that runs keeps it, and no command jumps.
LEMMA ContStep ==
  ASSUME ContInv, [DriversNext]_driverVars
  PROVE  ContInv' /\ [AllContinue]_motionVars
<1>1. CASE UNCHANGED <<motionVars, xyzVars>>
  <2>1. UNCHANGED theMotion /\ UNCHANGED <<command, sinceCmd>> /\ samples' = samples
    BY <1>1 DEF motionVars, xyzVars, theMotion
  <2>2. config.node \in Motions => samples \in [MotorIds -> [q : -Reach(config) .. Reach(config),
                                                             age : Int]]
    BY DEF ContInv, Kept
  <2>3. ContInv'
    BY <2>1, <2>2, HeardIsNear
  <2>4. QED
    BY <1>1, <2>3
<1>2. CASE SweepNext /\ UNCHANGED xyzVars
  BY <1>2, SweepContinues DEF xyzVars
<1>3. CASE RandomNext /\ UNCHANGED xyzVars
  BY <1>3, RandomContinues DEF xyzVars
<1>4. CASE IkNext /\ UNCHANGED xyzVars
  BY <1>4, IkContinues DEF xyzVars
<1>5. CASE XyzNext
  BY <1>5, XyzContinues
<1>6. MotionsNext \/ UNCHANGED <<motionVars, xyzVars>>
  BY DEF DriversNext, PlanDoes, GripperDoes, PlayerDoes, driverVars
<1>7. QED
  BY <1>1, <1>2, <1>3, <1>4, <1>5, <1>6 DEF MotionsNext

\* Whatever the parameters and however the motors report, no motor's commands
\* jump: over the time since its last command the next one moves no further than
\* the motion may, but for the jumps that CommandContinues names.
THEOREM CommandsAreContinuous == DriversSpec => CommandIsContinuous
<1>1. ContInv /\ [DriversNext]_driverVars => ContInv'
  BY ContStep
<1>2. ContInv /\ [DriversNext]_driverVars =>
        [\A m \in MotorIds \ SetAtOnce : CommandContinues(m)]_motionVars
  BY ContStep DEF AllContinue
<1>3. QED
  BY InvContInit, <1>1, <1>2, PTL DEF DriversSpec, CommandIsContinuous

=============================================================================
