--------------------------- MODULE PlanNodeProofs ---------------------------
(***************************************************************************)
(* Proofs about PlanNode, for any joint limits, plans, speeds and times    *)
(* the assumptions of that module allow.                                   *)
(***************************************************************************)
EXTENDS PlanNode, TLAPS

-----------------------------------------------------------------------------
(* The arithmetic of a plan *)

\* A command lies within the joint limits.
LEMMA ClampInLimits == ASSUME NEW x \in Int PROVE Clamp(x) \in QLo .. QHi
BY LimitsAssumption DEF Clamp, MaxOf, MinOf

LEMMA FullSpeedPositive == FullSpeed \in Nat \ {0}
BY WarpAssumption DEF FullSpeed

\* The warp slows a plan down and never turns it back.
LEMMA SpeedRange ==
  ASSUME NEW err \in Nat
  PROVE  Speed(err) \in Nat /\ (err >= WarpHi => Speed(err) = 0)
BY WarpAssumption DEF Speed, FullSpeed

\* A plan takes some time.
LEMMA LengthPositive == ASSUME NEW p \in Plan PROVE Length(p) \in Nat \ {0}
<1>1. p.duration \in Nat \ {0}
  BY DEF Plan
<1>2. \A a, b \in Nat \ {0} : a * b \in Nat \ {0}
  OBVIOUS
<1>3. QED
  BY <1>1, <1>2, FullSpeedPositive DEF Length

\* A plan is somewhere at any time.
LEMMA SampleInt ==
  ASSUME NEW p \in Plan, NEW t \in Nat PROVE Sample(p, t) \in Int
<1>1. p.start \in Int /\ p.goal \in Int
  BY DEF Plan
<1>2. Length(p) \in Nat \ {0}
  BY LengthPositive
<1>3. MinOf(t, Length(p)) \in Int
  BY <1>2 DEF MinOf
<1>4. (p.goal - p.start) * MinOf(t, Length(p)) \in Int
  BY <1>1, <1>3
<1>5. \A a \in Int : a \div Length(p) \in Int
  BY <1>2
<1>6. QED
  BY <1>1, <1>4, <1>5 DEF Sample

\* The tracking error is a natural number.
LEMMA DistanceNat == ASSUME NEW a \in Int, NEW b \in Int PROVE Abs(a - b) \in Nat
BY DEF Abs

\* A plan that is rebuilt for where the arm is, is a plan of the same leg of
\* the same message.
LEMMA CommittedIsPlan ==
  ASSUME NEW p \in Plan, q \in Int
  PROVE  /\ Committed(p) \in Plan
         /\ Committed(p).leg = p.leg /\ Committed(p).serial = p.serial
<1> DEFINE d == MaxOf(p.duration, (Abs(p.goal - q) + VMax - 1) \div VMax)
<1>1. /\ p.serial \in Nat /\ p.leg \in {1, 2} /\ p.start \in Int
      /\ p.goal \in Int /\ p.duration \in Nat \ {0}
  BY DEF Plan
<1>2. Abs(p.goal - q) + VMax - 1 \in Int
  BY <1>1, LimitsAssumption DEF Abs
<1>3. (Abs(p.goal - q) + VMax - 1) \div VMax \in Int
  BY <1>2, LimitsAssumption
<1>4. d \in Nat \ {0}
  BY <1>1, <1>3 DEF MaxOf
<1>5. CASE q = p.start
  BY <1>5 DEF Committed
<1>6. CASE q # p.start
  <2> HIDE DEF d
  <2>1. Committed(p) = [p EXCEPT !.start = q, !.duration = d]
    BY <1>6 DEF Committed, d
  <2>2. \A s \in Int, n \in Nat \ {0} :
          /\ [p EXCEPT !.start = s, !.duration = n] \in Plan
          /\ [p EXCEPT !.start = s, !.duration = n].leg = p.leg
          /\ [p EXCEPT !.start = s, !.duration = n].serial = p.serial
    BY DEF Plan
  <2>3. q \in Int /\ d \in Nat \ {0}
    BY <1>4
  <2> DEFINE c == [p EXCEPT !.start = q, !.duration = d]
  <2>4. c \in Plan /\ c.leg = p.leg /\ c.serial = p.serial
    BY <2>2, <2>3
  <2> HIDE DEF c
  <2>5. Committed(p) = c
    BY <2>1 DEF c
  <2>6. QED
    BY <2>4, <2>5
<1>7. QED
  BY <1>5, <1>6

\* Both legs of a message are plans of the message's serial.
LEMMA LegsArePlans ==
  ASSUME NEW msg \in Messages
  PROVE  /\ Leg1(msg) \in Plan /\ Leg1(msg).leg = 1
         /\ Leg2(msg) \in Plan /\ Leg2(msg).leg = 2
         /\ Leg1(msg).serial = Leg2(msg).serial
<1>1. msg \in Message
  BY MessagesAssumption
<1>2. QED
  BY <1>1 DEF Message, Plan, Leg1, Leg2

\* A quotient grows by at most k when the dividend grows by at most k divisors.
LEMMA QuotientGrowth ==
  ASSUME NEW a \in Int, NEW b \in Int, NEW n \in Nat \ {0}, NEW k \in Nat,
         b <= a + k * n
  PROVE  b \div n <= a \div n + k
<1> DEFINE x == a \div n
           y == b \div n
<1>1. x \in Int /\ y \in Int
  OBVIOUS
<1>2. a < n * x + n /\ n * y <= b
  OBVIOUS
<1> HIDE DEF x, y
<1>3. SUFFICES ASSUME y >= x + k + 1 PROVE FALSE
  BY <1>1 DEF x, y
<1>4. n * y >= n * (x + k + 1)
  BY <1>1, <1>3
<1>5. n * (x + k + 1) = n * x + k * n + n
  BY <1>1
<1>6. QED
  BY <1>1, <1>2, <1>4, <1>5

\* A plan that is no faster than VMax moves by at most VMax * g while
\* trajectory time advances by at most g units of wall time.
LEMMA SampleMoves ==
  ASSUME NEW p \in Plan, NoFasterThanVMax(p),
         NEW t \in Nat, NEW u \in Nat, NEW g \in Nat,
         t <= u, u - t <= g * FullSpeed
  PROVE  Abs(Sample(p, u) - Sample(p, t)) <= VMax * g
<1> DEFINE D == p.goal - p.start
           n == Length(p)
           m1 == MinOf(t, n)
           m2 == MinOf(u, n)
           k == VMax * g
<1>1. p.start \in Int /\ p.goal \in Int /\ p.duration \in Nat \ {0} /\ D \in Int
  BY DEF Plan
<1>2. n \in Nat \ {0} /\ FullSpeed \in Nat \ {0} /\ VMax \in Nat \ {0}
  BY LengthPositive, FullSpeedPositive, LimitsAssumption
<1>3. n = p.duration * FullSpeed
  BY DEF Length
<1>4. D <= VMax * p.duration /\ -D <= VMax * p.duration
  BY <1>1, <1>2 DEF NoFasterThanVMax, Abs
<1>5. k \in Nat
  BY <1>2
<1> HIDE DEF D, n
<1>6. m1 \in Nat /\ m2 \in Nat /\ m1 <= m2 /\ m2 - m1 <= g * FullSpeed
  BY <1>2 DEF MinOf
<1> HIDE DEF m1, m2, k
<1> DEFINE w == m2 - m1
           W == g * FullSpeed
           V == VMax * p.duration
<1>7. w \in Nat /\ W \in Nat /\ V \in Nat /\ w <= W
  BY <1>1, <1>2, <1>6
<1>8. D <= V /\ -D <= V
  BY <1>4
<1>9. V * W = k * n
  BY <1>1, <1>2, <1>3 DEF k
<1> HIDE DEF w, W, V
<1>10. V * w <= V * W
  BY <1>7
<1>11. D * w <= V * w /\ (-D) * w <= V * w
  BY <1>1, <1>7, <1>8
<1>12. D * m2 = D * m1 + D * w /\ D * m1 = D * m2 + (-D) * w
  BY <1>1, <1>6 DEF w
<1>13. D * m1 \in Int /\ D * m2 \in Int /\ D * w \in Int /\ (-D) * w \in Int
       /\ V * w \in Int /\ k * n \in Int
  BY <1>1, <1>2, <1>5, <1>6, <1>7
<1>14. D * m2 <= D * m1 + k * n /\ D * m1 <= D * m2 + k * n
  BY <1>9, <1>10, <1>11, <1>12, <1>13
<1>15. /\ (D * m2) \div n <= (D * m1) \div n + k
       /\ (D * m1) \div n <= (D * m2) \div n + k
  BY <1>2, <1>5, <1>13, <1>14, QuotientGrowth
<1>16. (D * m1) \div n \in Int /\ (D * m2) \div n \in Int
  BY <1>2, <1>13
<1>17. Sample(p, t) = p.start + (D * m1) \div n /\ Sample(p, u) = p.start + (D * m2) \div n
  BY DEF Sample, D, m1, m2, n
<1>18. QED
  BY <1>1, <1>5, <1>15, <1>16, <1>17 DEF Abs, k

\* Clamping brings two positions no further apart.
LEMMA ClampMoves ==
  ASSUME NEW a \in Int, NEW b \in Int
  PROVE  Abs(Clamp(a) - Clamp(b)) <= Abs(a - b)
BY LimitsAssumption DEF Clamp, MaxOf, MinOf, Abs

\* A plan starts at its start.
LEMMA SampleStart == ASSUME NEW p \in Plan PROVE Sample(p, 0) = p.start
<1>1. p.start \in Int /\ p.goal \in Int
  BY DEF Plan
<1>2. Length(p) \in Nat \ {0}
  BY LengthPositive
<1>3. MinOf(0, Length(p)) = 0
  BY <1>2 DEF MinOf
<1>4. (p.goal - p.start) * 0 = 0
  BY <1>1
<1>5. 0 \div Length(p) = 0
  BY <1>2
<1>6. QED
  BY <1>1, <1>3, <1>4, <1>5 DEF Sample

\* A plan that is rebuilt starts where the arm is and keeps the speed limit.
LEMMA CommittedIsSlow ==
  ASSUME NEW p \in Plan, q \in Int, NoFasterThanVMax(p)
  PROVE  Committed(p).start = q /\ NoFasterThanVMax(Committed(p))
<1>1. /\ p.serial \in Nat /\ p.leg \in {1, 2} /\ p.start \in Int
      /\ p.goal \in Int /\ p.duration \in Nat \ {0}
  BY DEF Plan
<1>2. CASE q = p.start
  BY <1>2 DEF Committed
<1>3. CASE q # p.start
  <2> DEFINE X == Abs(p.goal - q)
             c == (X + VMax - 1) \div VMax
             d == MaxOf(p.duration, c)
             r == [p EXCEPT !.start = q, !.duration = d]
  <2>1. X \in Nat /\ VMax \in Nat \ {0}
    BY <1>1, LimitsAssumption DEF Abs
  <2> HIDE DEF X
  <2>2. c \in Int /\ X <= VMax * c
    <3>1. X + VMax - 1 \in Int
      BY <2>1
    <3>2. \A a \in Int : a \div VMax \in Int /\ a < VMax * (a \div VMax) + VMax
      BY <2>1
    <3>3. c \in Int /\ X + VMax - 1 < VMax * c + VMax
      BY <3>1, <3>2
    <3> HIDE DEF c
    <3>4. VMax * c \in Int
      BY <2>1, <3>3
    <3>5. QED
      BY <2>1, <3>3, <3>4
  <2> HIDE DEF c
  <2>3. d \in Nat \ {0} /\ c <= d
    BY <1>1, <2>2 DEF MaxOf
  <2> HIDE DEF d
  <2>4. VMax * c <= VMax * d
    BY <2>1, <2>2, <2>3
  <2>5. X <= VMax * d
    BY <2>1, <2>2, <2>3, <2>4
  <2>6. r.start = q /\ r.goal = p.goal /\ r.duration = d
    BY DEF Plan
  <2>7. Committed(p) = r
    BY <1>3 DEF Committed, r, d, c, X
  <2> HIDE DEF r
  <2>8. NoFasterThanVMax(r)
    BY <2>5, <2>6 DEF NoFasterThanVMax, X
  <2>9. QED
    BY <2>6, <2>7, <2>8
<1>4. QED
  BY <1>2, <1>3

-----------------------------------------------------------------------------
(* Types *)

LEMMA TypeInit == Init => TypeOK
BY TimesAssumption DEF Init, TypeOK

\* What the actions that start a plan do to the variables they share.
LEMMA CommitTypes ==
  ASSUME TypeOK, NEW p \in Plan, Commit(p)
  PROVE  /\ active' \in Plan /\ vt' = 0 /\ gap' \in Nat /\ stall' \in Nat
         /\ hold' = None /\ cmd' \in QLo .. QHi /\ status' = "EXECUTING"
         /\ Abs(q - Sample(Committed(p), 0)) \in Nat
<1>1. q \in Int
  BY DEF TypeOK
<1>2. Committed(p) \in Plan
  BY <1>1, CommittedIsPlan
<1>3. Sample(Committed(p), 0) \in Int
  BY <1>2, SampleInt
<1>4. Abs(q - Sample(Committed(p), 0)) \in Nat
  BY <1>1, <1>3, DistanceNat
<1>5. cmd' \in QLo .. QHi
  BY <1>3, ClampInLimits DEF Commit
<1>6. QED
  BY <1>2, <1>4, <1>5 DEF Commit

\* What the timer computes while it follows a plan.
LEMMA FollowingTypes ==
  ASSUME TypeOK, Following
  PROVE  /\ active \in Plan /\ NewVt \in Nat /\ NewStall \in Nat
         /\ Sample(active, NewVt) \in Int
         /\ Clamp(Sample(active, NewVt)) \in QLo .. QHi
<1>1. /\ active \in Plan /\ vt \in Nat /\ gap \in Nat /\ prevErr \in Nat
      /\ stall \in Nat
  BY DEF TypeOK, Following
<1>2. Speed(prevErr) \in Nat
  BY <1>1, SpeedRange
<1>3. \A a, b, c \in Nat : a + b * c \in Nat
  OBVIOUS
<1>4. NewVt \in Nat
  BY <1>1, <1>2, <1>3 DEF NewVt
<1>5. NewStall \in Nat
  BY <1>1 DEF NewStall
<1>6. Sample(active, NewVt) \in Int
  BY <1>1, <1>4, SampleInt
<1>7. QED
  BY <1>1, <1>4, <1>5, <1>6, ClampInLimits

LEMMA TypeStep == TypeOK /\ [Next]_vars => TypeOK'
<1> SUFFICES ASSUME TypeOK, [Next]_vars PROVE TypeOK'
  OBVIOUS
<1> USE NoneAssumption
<1>1. ASSUME NEW position \in Positions, OnStateArray(position) PROVE TypeOK'
  BY <1>1, LimitsAssumption, TimesAssumption DEF OnStateArray, TypeOK, motion
<1>2. ASSUME NEW msg \in Messages, OnComputedPlan(msg) PROVE TypeOK'
  BY <1>2, LegsArePlans DEF OnComputedPlan, TypeOK, motion
<1>3. CASE CommitPending
  <2>1. pending \in Plan /\ Commit(pending)
    BY <1>3 DEF CommitPending, TypeOK
  <2>2. QED
    BY <1>3, <2>1, CommitTypes DEF CommitPending, TypeOK
<1>4. CASE Follow
  <2>1. prevErr' \in Nat
    BY <1>4, FollowingTypes, DistanceNat DEF Follow, TypeOK
  <2>2. QED
    BY <1>4, <2>1, FollowingTypes DEF Follow, TypeOK
<1>5. CASE Stall
  BY <1>5, FollowingTypes DEF Stall, TypeOK
<1>6. CASE StartLeg2
  <2>1. queuedLeg2 \in Plan /\ Commit(queuedLeg2)
    BY <1>6 DEF StartLeg2, TypeOK
  <2>2. QED
    BY <1>6, <2>1, CommitTypes DEF StartLeg2, TypeOK
<1>7. CASE Finish
  BY <1>7, FollowingTypes, ClampInLimits DEF Finish, LegOver, TypeOK
<1>8. CASE Hold
  <2>1. (IF hold = None THEN q ELSE hold) \in Int
    BY DEF TypeOK
  <2>2. QED
    BY <1>8, <2>1, ClampInLimits DEF Hold, TypeOK
<1>9. CASE Tick
  <2>1. stateAge' \in 0 .. StateTimeout + 1
    BY <1>9, TimesAssumption DEF Tick, TypeOK, MinOf
  <2>2. gap' \in Nat
    BY <1>9, TimesAssumption DEF Tick, TypeOK, MinOf
  <2>3. QED
    BY <1>9, <2>1, <2>2 DEF Tick, TypeOK
<1>10. CASE UNCHANGED vars
  BY <1>10 DEF vars, TypeOK
<1>11. QED
  BY <1>1, <1>2, <1>3, <1>4, <1>5, <1>6, <1>7, <1>8, <1>9, <1>10 DEF Next

\* Every command lies within the joint limits, and every plan in a slot is
\* one.
THEOREM PlanTypeCorrect == Spec => []TypeOK
BY TypeInit, TypeStep, PTL DEF Spec

-----------------------------------------------------------------------------
(* Which legs are where, and how far the active one is *)

LEMMA LegsInit == Init => LegsInv
BY NoneAssumption DEF Init, LegsInv

LEMMA LegsStep == TypeOK /\ LegsInv /\ [Next]_vars => LegsInv'
<1> SUFFICES ASSUME TypeOK, LegsInv, [Next]_vars PROVE LegsInv'
  OBVIOUS
<1>1. ASSUME NEW position \in Positions, OnStateArray(position) PROVE LegsInv'
  BY <1>1 DEF OnStateArray, LegsInv, motion
<1>2. ASSUME NEW msg \in Messages, OnComputedPlan(msg) PROVE LegsInv'
  <2>1. pending' # None
    BY <1>2, LegsArePlans, NoneAssumption DEF OnComputedPlan
  <2>2. pending'.leg = 1 /\ (queuedLeg2' # None =>
           queuedLeg2'.leg = 2 /\ queuedLeg2'.serial = pending'.serial)
    BY <1>2, LegsArePlans DEF OnComputedPlan
  <2>3. active' # None <=> status' = "EXECUTING"
    BY <1>2 DEF OnComputedPlan, motion, LegsInv
  <2>4. QED
    BY <2>1, <2>2, <2>3 DEF LegsInv
<1>3. CASE CommitPending
  <2>1. pending \in Plan /\ Commit(pending) /\ q \in Int
    BY <1>3 DEF CommitPending, TypeOK
  <2>2. /\ active' # None /\ status' = "EXECUTING"
        /\ active'.leg = pending.leg /\ active'.serial = pending.serial
    BY <2>1, CommittedIsPlan, NoneAssumption DEF Commit
  <2>3. pending # None /\ pending' = None /\ queuedLeg2' = queuedLeg2
    BY <1>3 DEF CommitPending
  <2>4. QED
    BY <2>2, <2>3 DEF LegsInv
<1>4. CASE Follow
  BY <1>4 DEF Follow, LegsInv
<1>5. CASE Stall
  BY <1>5 DEF Stall, Following, LegsInv
<1>6. CASE StartLeg2
  <2>1. queuedLeg2 \in Plan /\ Commit(queuedLeg2) /\ q \in Int
    BY <1>6 DEF StartLeg2, TypeOK
  <2>2. active' # None /\ status' = "EXECUTING"
    BY <2>1, CommittedIsPlan, NoneAssumption DEF Commit
  <2>3. pending' = None /\ queuedLeg2' = None
    BY <1>6 DEF StartLeg2, LegOver, Following
  <2>4. QED
    BY <2>2, <2>3 DEF LegsInv
<1>7. CASE Finish
  BY <1>7 DEF Finish, LegOver, Following, LegsInv
<1>8. CASE Hold
  BY <1>8 DEF Hold, LegsInv
<1>9. CASE Tick
  BY <1>9 DEF Tick, LegsInv
<1>10. CASE UNCHANGED vars
  BY <1>10 DEF vars, LegsInv
<1>11. QED
  BY <1>1, <1>2, <1>3, <1>4, <1>5, <1>6, <1>7, <1>8, <1>9, <1>10 DEF Next

LEMMA LegsCorrect == Spec => []LegsInv
BY LegsInit, LegsStep, PlanTypeCorrect, PTL DEF Spec

LEMMA ProgressInit == Init => ProgressInv
BY DEF Init, ProgressInv

LEMMA ProgressStep == TypeOK /\ ProgressInv /\ [Next]_vars => ProgressInv'
<1> SUFFICES ASSUME TypeOK, ProgressInv, [Next]_vars PROVE ProgressInv'
  OBVIOUS
<1>1. ASSUME UNCHANGED <<active, vt>> PROVE ProgressInv'
  BY <1>1 DEF ProgressInv, Length, FullSpeed
<1>2. ASSUME NEW p \in Plan, Commit(p) PROVE ProgressInv'
  <2>1. Committed(p) \in Plan
    BY CommittedIsPlan DEF TypeOK
  <2>2. 0 < Length(Committed(p))
    BY <2>1, LengthPositive
  <2>3. vt' = 0 /\ active' = Committed(p)
    BY <1>2 DEF Commit
  <2>4. Length(active') = Length(Committed(p))
    BY <2>3
  <2>5. QED
    BY <2>2, <2>3, <2>4 DEF ProgressInv, Length, FullSpeed
<1>3. ASSUME NEW position \in Positions, OnStateArray(position) PROVE ProgressInv'
  BY <1>1, <1>3 DEF OnStateArray, motion
<1>4. ASSUME NEW msg \in Messages, OnComputedPlan(msg) PROVE ProgressInv'
  BY <1>1, <1>4 DEF OnComputedPlan, motion
<1>5. CASE CommitPending
  BY <1>2, <1>5 DEF CommitPending, TypeOK
<1>6. CASE Follow
  BY <1>6 DEF Follow, ProgressInv, Length, FullSpeed
<1>7. CASE Stall \/ Finish
  BY <1>7 DEF Stall, Finish, ProgressInv
<1>8. CASE StartLeg2
  BY <1>2, <1>8 DEF StartLeg2, TypeOK
<1>9. CASE Hold \/ Tick
  BY <1>1, <1>9 DEF Hold, Tick
<1>10. CASE UNCHANGED vars
  BY <1>1, <1>10 DEF vars
<1>11. QED
  BY <1>3, <1>4, <1>5, <1>6, <1>7, <1>8, <1>9, <1>10 DEF Next

LEMMA ProgressCorrect == Spec => []ProgressInv
BY ProgressInit, ProgressStep, PlanTypeCorrect, PTL DEF Spec

-----------------------------------------------------------------------------
(* Where the last command was *)

LEMMA CommandInit == Init => CommandInv
BY DEF Init, CommandInv

\* Committing a plan commands where the arm is.
LEMMA CommitCommands ==
  ASSUME TypeOK, NEW p \in Plan, NoFasterThanVMax(p), Commit(p)
  PROVE  /\ active' \in Plan /\ NoFasterThanVMax(active')
         /\ cmd' = Clamp(Sample(active', vt')) /\ cmd' = Clamp(q)
<1>1. q \in Int
  BY DEF TypeOK
<1>2. Committed(p) \in Plan
  BY <1>1, CommittedIsPlan
<1>3. Committed(p).start = q /\ NoFasterThanVMax(Committed(p))
  BY <1>1, CommittedIsSlow
<1>4. active' = Committed(p) /\ vt' = 0 /\ cmd' = Clamp(Sample(Committed(p), 0))
  BY DEF Commit
<1>5. Sample(Committed(p), 0) = q
  BY <1>2, <1>3, SampleStart
<1>6. Sample(active', vt') = Sample(Committed(p), 0)
  BY <1>4
<1>7. QED
  BY <1>2, <1>3, <1>4, <1>5, <1>6

LEMMA CommandStep == TypeOK /\ CommandInv /\ [Next]_vars => CommandInv'
<1> SUFFICES ASSUME TypeOK, CommandInv, [Next]_vars PROVE CommandInv'
  OBVIOUS
<1> USE NoneAssumption
<1> DEFINE Commands == /\ active # None => cmd = Clamp(Sample(active, vt))
                       /\ active = None /\ hold # None => cmd = Clamp(hold)
           Slow(p) == p # None => NoFasterThanVMax(p)
<1>1. /\ CommandInv <=> Slow(pending) /\ Slow(queuedLeg2) /\ Slow(active) /\ Commands
      /\ CommandInv' <=> Slow(pending') /\ Slow(queuedLeg2') /\ Slow(active')
                         /\ Commands'
  BY DEF CommandInv
<1>2. ASSUME UNCHANGED <<active, vt, cmd, hold>> PROVE Commands' /\ Slow(active')
  BY <1>1, <1>2 DEF Sample, Clamp, Length, FullSpeed
<1>3. ASSUME NEW position \in Positions, OnStateArray(position) PROVE CommandInv'
  BY <1>1, <1>2, <1>3 DEF OnStateArray, motion
<1>4. ASSUME NEW msg \in Messages, OnComputedPlan(msg) PROVE CommandInv'
  <2>1. Slow(pending') /\ Slow(queuedLeg2')
    BY <1>4, MessagesAssumption DEF OnComputedPlan
  <2>2. Commands' /\ Slow(active')
    BY <1>2, <1>4 DEF OnComputedPlan, motion
  <2>3. QED
    BY <1>1, <2>1, <2>2
<1>5. CASE CommitPending
  <2>1. pending \in Plan /\ NoFasterThanVMax(pending) /\ Commit(pending)
    BY <1>1, <1>5 DEF CommitPending, TypeOK
  <2>2. /\ active' \in Plan /\ NoFasterThanVMax(active')
        /\ cmd' = Clamp(Sample(active', vt'))
    BY <2>1, CommitCommands
  <2>3. Slow(pending') /\ Slow(queuedLeg2')
    BY <1>1, <1>5 DEF CommitPending
  <2>4. Commands' /\ Slow(active')
    BY <2>2
  <2>5. QED
    BY <1>1, <2>3, <2>4
<1>6. CASE Follow
  <2>1. active' = active /\ vt' = NewVt /\ cmd' = Clamp(Sample(active, NewVt))
    BY <1>6 DEF Follow
  <2>2. active # None
    BY <1>6 DEF Follow, Following
  <2>3. Commands' /\ Slow(active')
    BY <1>1, <2>1, <2>2
  <2>4. Slow(pending') /\ Slow(queuedLeg2')
    BY <1>1, <1>6 DEF Follow
  <2>5. QED
    BY <1>1, <2>3, <2>4
<1>7. CASE Stall
  BY <1>1, <1>7 DEF Stall
<1>8. CASE StartLeg2
  <2>1. queuedLeg2 \in Plan /\ NoFasterThanVMax(queuedLeg2) /\ Commit(queuedLeg2)
    BY <1>1, <1>8 DEF StartLeg2, TypeOK
  <2>2. /\ active' \in Plan /\ NoFasterThanVMax(active')
        /\ cmd' = Clamp(Sample(active', vt'))
    BY <2>1, CommitCommands
  <2>3. Slow(pending') /\ Slow(queuedLeg2')
    BY <1>1, <1>8 DEF StartLeg2
  <2>4. Commands' /\ Slow(active')
    BY <2>2
  <2>5. QED
    BY <1>1, <2>3, <2>4
<1>9. CASE Finish
  BY <1>1, <1>9 DEF Finish
<1>10. CASE Hold
  <2>1. active' = None /\ hold' = hold /\ (hold # None => cmd' = Clamp(hold))
    BY <1>10 DEF Hold
  <2>2. Commands' /\ Slow(active')
    BY <2>1
  <2>3. Slow(pending') /\ Slow(queuedLeg2')
    BY <1>1, <1>10 DEF Hold
  <2>4. QED
    BY <1>1, <2>2, <2>3
<1>11. CASE Tick
  BY <1>1, <1>2, <1>11 DEF Tick
<1>12. CASE UNCHANGED vars
  BY <1>1, <1>2, <1>12 DEF vars
<1>13. QED
  BY <1>3, <1>4, <1>5, <1>6, <1>7, <1>8, <1>9, <1>10, <1>11, <1>12 DEF Next

LEMMA CommandCorrect == Spec => []CommandInv
BY CommandInit, CommandStep, PlanTypeCorrect, PTL DEF Spec

-----------------------------------------------------------------------------
(* What a step may not do *)

\* The arm enters a second leg only from the first leg of the same plan.
THEOREM SecondLegsFollow == Spec => LegsBelongTogether
<1> DEFINE Together == active' # None /\ active'.leg = 2 =>
                         active # None /\ active.serial = active'.serial
<1>1. TypeOK /\ LegsInv /\ LegsInv' /\ [Next]_vars => [Together]_active
  <2> SUFFICES ASSUME TypeOK, LegsInv, [Next]_vars, active' # active,
                      active' # None, active'.leg = 2
               PROVE  active # None /\ active.serial = active'.serial
    OBVIOUS
  <2>1. CASE CommitPending
    <3>1. pending \in Plan /\ Commit(pending) /\ q \in Int
      BY <2>1 DEF CommitPending, TypeOK
    <3>2. active'.leg = pending.leg
      BY <3>1, CommittedIsPlan DEF Commit
    <3>3. pending.leg = 1
      BY <2>1 DEF CommitPending, LegsInv
    <3>4. QED
      BY <3>2, <3>3
  <2>2. CASE StartLeg2
    <3>1. queuedLeg2 \in Plan /\ Commit(queuedLeg2) /\ q \in Int
      BY <2>2 DEF StartLeg2, TypeOK
    <3>2. active'.serial = queuedLeg2.serial
      BY <3>1, CommittedIsPlan DEF Commit
    <3>3. active # None /\ active.serial = queuedLeg2.serial
      BY <2>2 DEF StartLeg2, LegOver, Following, LegsInv
    <3>4. QED
      BY <3>2, <3>3
  <2>3. CASE Stall \/ Finish
    BY <2>3 DEF Stall, Finish
  <2>4. QED
    BY <2>1, <2>2, <2>3
       DEF Next, vars, OnStateArray, OnComputedPlan, motion, Follow, Hold, Tick
<1>2. QED
  BY <1>1, PlanTypeCorrect, LegsCorrect, PTL DEF Spec, LegsBelongTogether

\* DONE and FAIL are said of a plan that is being executed.
THEOREM EndsAnswerExecutions == Spec => EndsOncePerExecution
<1>1. LegsInv /\ [Next]_vars =>
        [status' \in {"DONE", "FAIL"} => status = "EXECUTING"]_status
  <2> SUFFICES ASSUME LegsInv, [Next]_vars, status' # status,
                      status' \in {"DONE", "FAIL"}
               PROVE  status = "EXECUTING"
    OBVIOUS
  <2>1. CASE Stall
    BY <2>1 DEF Stall, Following, LegsInv
  <2>2. CASE Finish
    BY <2>2 DEF Finish, LegOver, Following, LegsInv
  <2>3. CASE CommitPending \/ StartLeg2
    BY <2>3 DEF CommitPending, StartLeg2, Commit
  <2>4. QED
    BY <2>1, <2>2, <2>3
       DEF Next, vars, OnStateArray, OnComputedPlan, motion, Follow, Hold, Tick
<1>2. QED
  BY <1>1, LegsCorrect, PTL DEF Spec, EndsOncePerExecution

\* A leg ends only under an arm that was close to its trajectory: from WarpHi
\* on trajectory time stands still, and the leg was not over before.
THEOREM EndsWhileTracking == Spec => DoneOnlyWhileTracking
<1> DEFINE Tracking ==
      active # None /\ pending = None /\ active' # active /\ status' # "FAIL" =>
        prevErr < WarpHi
<1>1. TypeOK /\ ProgressInv /\ [Next]_vars => [Tracking]_active
  <2> SUFFICES ASSUME TypeOK, ProgressInv, [Next]_vars, active' # active,
                      active # None, pending = None, status' # "FAIL"
               PROVE  prevErr < WarpHi
    OBVIOUS
  <2>1. ASSUME LegOver PROVE prevErr < WarpHi
    <3> SUFFICES ASSUME ~(prevErr < WarpHi) PROVE FALSE
      OBVIOUS
    <3>1. vt \in Nat /\ gap \in Nat /\ prevErr \in Nat /\ active \in Plan
      BY DEF TypeOK
    <3>2. Speed(prevErr) = 0
      BY <3>1, SpeedRange, WarpAssumption
    <3>3. NewVt = vt
      BY <3>1, <3>2 DEF NewVt
    <3>4. vt < Length(active) /\ Length(active) \in Nat
      BY <3>1, LengthPositive DEF ProgressInv
    <3>5. QED
      BY <2>1, <3>1, <3>3, <3>4 DEF LegOver
  <2>2. CASE StartLeg2 \/ Finish
    BY <2>1, <2>2 DEF StartLeg2, Finish
  <2>3. CASE CommitPending \/ Stall
    BY <2>3 DEF CommitPending, Stall
  <2>4. QED
    BY <2>2, <2>3
       DEF Next, vars, OnStateArray, OnComputedPlan, motion, Follow, Hold, Tick
<1>2. QED
  BY <1>1, PlanTypeCorrect, ProgressCorrect, PTL DEF Spec, DoneOnlyWhileTracking

\* The command goes to where the arm is, or moves along a plan no faster than
\* VMax: through replaced plans, second legs, stalls and silent feedback.
THEOREM CommandsAreContinuous == Spec => CommandNeverJumps
<1> DEFINE Continuous == cmd # None => \/ cmd' = Clamp(q)
                                       \/ Abs(cmd' - cmd) <= VMax * gap
<1>1. TypeOK /\ CommandInv /\ [Next]_vars => [Continuous]_cmd
  <2> SUFFICES ASSUME TypeOK, CommandInv, [Next]_vars, cmd' # cmd, cmd # None
               PROVE  cmd' = Clamp(q) \/ Abs(cmd' - cmd) <= VMax * gap
    OBVIOUS
  <2> USE NoneAssumption
  <2>1. CASE CommitPending
    <3>1. pending \in Plan /\ NoFasterThanVMax(pending) /\ Commit(pending)
      BY <2>1 DEF CommitPending, TypeOK, CommandInv
    <3>2. QED
      BY <3>1, CommitCommands
  <2>2. CASE StartLeg2
    <3>1. queuedLeg2 \in Plan /\ NoFasterThanVMax(queuedLeg2) /\ Commit(queuedLeg2)
      BY <2>2 DEF StartLeg2, TypeOK, CommandInv
    <3>2. QED
      BY <3>1, CommitCommands
  <2>3. CASE Finish
    BY <2>3 DEF Finish
  <2>4. CASE Hold
    <3>1. active = None /\ cmd' = Clamp(IF hold = None THEN q ELSE hold)
      BY <2>4 DEF Hold
    <3>2. hold # None => cmd = Clamp(hold)
      BY <3>1 DEF CommandInv
    <3>3. QED
      BY <3>1, <3>2
  <2>5. CASE Follow \/ Stall
    <3>1. Following /\ cmd' = Clamp(Sample(active, NewVt))
      BY <2>5 DEF Follow, Stall
    <3>2. active \in Plan /\ NewVt \in Nat /\ Sample(active, NewVt) \in Int
      BY <3>1, FollowingTypes
    <3>3. cmd = Clamp(Sample(active, vt)) /\ NoFasterThanVMax(active)
      BY <3>1 DEF Following, CommandInv
    <3>4. vt \in Nat /\ gap \in Nat /\ prevErr \in Nat
      BY DEF TypeOK
    <3>5. Sample(active, vt) \in Int
      BY <3>2, <3>4, SampleInt
    <3>6. Speed(prevErr) \in Nat /\ Speed(prevErr) <= FullSpeed /\ FullSpeed \in Nat
      BY <3>4, WarpAssumption DEF Speed, FullSpeed
    <3>7. vt <= NewVt /\ NewVt - vt <= gap * FullSpeed
      <4>1. \A a, b, c \in Nat : b <= c => a * b \in Nat /\ a * c \in Nat /\ a * b <= a * c
        OBVIOUS
      <4>2. QED
        BY <3>4, <3>6, <4>1 DEF NewVt
    <3>8. Abs(Sample(active, NewVt) - Sample(active, vt)) <= VMax * gap
      BY <3>2, <3>3, <3>4, <3>7, SampleMoves
    <3>9. Abs(cmd' - cmd) <= Abs(Sample(active, NewVt) - Sample(active, vt))
      BY <3>1, <3>2, <3>3, <3>5, ClampMoves
    <3>10. /\ Abs(cmd' - cmd) \in Int
           /\ Abs(Sample(active, NewVt) - Sample(active, vt)) \in Int
           /\ VMax * gap \in Int
      <4>1. cmd' \in Int /\ cmd \in Int
        BY <3>1, <3>2, <3>3, <3>5, ClampInLimits, LimitsAssumption
      <4>2. VMax * gap \in Int
        BY <3>4, LimitsAssumption
      <4>3. \A a, b \in Int : Abs(a - b) \in Int
        BY DEF Abs
      <4>4. Abs(cmd' - cmd) \in Int
        BY <4>1, <4>3
      <4>5. Abs(Sample(active, NewVt) - Sample(active, vt)) \in Int
        BY <3>2, <3>5, <4>3
      <4>6. QED
        BY <4>2, <4>4, <4>5
    <3>11. QED
      BY <3>8, <3>9, <3>10
  <2>6. QED
    BY <2>1, <2>2, <2>3, <2>4, <2>5
       DEF Next, vars, OnStateArray, OnComputedPlan, motion, Tick
<1>2. QED
  BY <1>1, PlanTypeCorrect, CommandCorrect, PTL DEF Spec, CommandNeverJumps

=============================================================================
