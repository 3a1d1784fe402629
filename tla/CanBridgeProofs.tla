--------------------------- MODULE CanBridgeProofs ---------------------------
(***************************************************************************)
(* Proofs about CanBridge, for any set of motors and any limits, rates and *)
(* times the assumptions of that module allow.                             *)
(***************************************************************************)
EXTENDS CanBridge, TLAPS

-----------------------------------------------------------------------------
(* The arithmetic of the bridge *)

\* Clamping to a non-empty window lands in the window, and moves nothing that
\* is there already.
LEMMA ClampInWindow ==
  ASSUME NEW x \in Int, NEW lo \in Int, NEW hi \in Int
  PROVE  /\ Clamp(x, lo, hi) \in Int
         /\ lo <= hi => lo <= Clamp(x, lo, hi) /\ Clamp(x, lo, hi) <= hi
         /\ lo <= x /\ x <= hi => Clamp(x, lo, hi) = x
BY DEF Clamp

\* ClampQ respects the joint limits and is the identity between them.
LEMMA ClampQWithin ==
  ASSUME NEW m \in Motors, NEW q \in Int
  PROVE  /\ ClampQ(m, q) \in Int
         /\ WithinLimits(m, ClampQ(m, q))
         /\ WithinLimits(m, q) => ClampQ(m, q) = q
<1>1. QMin[m] \in Int /\ QMax[m] \in Int /\ QMin[m] <= QMax[m]
  BY LimitsAssumption
<1>2. QED
  BY <1>1, ClampInWindow DEF ClampQ, WithinLimits

\* The home target chosen among the turns of a joint is an integer within the
\* joint limits.
LEMMA AlignedHomeWithin ==
  ASSUME NEW m \in Motors, NEW q \in Int
  PROVE  AlignedHome(m, q) \in Int /\ WithinLimits(m, AlignedHome(m, q))
<1>1. QMin[m] \in Int /\ QMax[m] \in Int /\ QMin[m] <= QMax[m] /\ HomeQ[m] \in Int
  BY LimitsAssumption
<1>2. Period \in Int /\ Period > 0 /\ 2 * Period > 0
  BY TimesAssumption
<1>3. \A a \in Int : RoundDiv(a, Period) \in Int
  BY <1>2 DEF RoundDiv
<1> DEFINE near   == HomeQ[m] + RoundDiv(q - HomeQ[m], Period) * Period
           raised == IF near < QMin[m]
                     THEN near + ((QMin[m] - near + Period - 1) \div Period) * Period
                     ELSE near
           target == IF raised > QMax[m]
                     THEN raised - ((raised - QMax[m] + Period - 1) \div Period) * Period
                     ELSE raised
<1>4. near \in Int
  BY <1>1, <1>2, <1>3
<1>5. \A a \in Int : (a \div Period) * Period \in Int
  BY <1>2
<1>6. raised \in Int
  <2> HIDE DEF near
  <2>1. QMin[m] - near + Period - 1 \in Int
    BY <1>1, <1>2, <1>4
  <2> QED BY <1>1, <1>4, <1>5, <2>1
<1>7. target \in Int
  <2> HIDE DEF raised
  <2>1. raised - QMax[m] + Period - 1 \in Int
    BY <1>1, <1>2, <1>6
  <2> QED BY <1>1, <1>6, <1>5, <2>1
<1>8. AlignedHome(m, q) = Clamp(target, QMin[m], QMax[m])
  BY DEF AlignedHome, NearestPeriodicTarget
<1>9. \A t \in Int : /\ Clamp(t, QMin[m], QMax[m]) \in Int
                     /\ WithinLimits(m, Clamp(t, QMin[m], QMax[m]))
  BY <1>1, ClampInWindow DEF WithinLimits
<1> HIDE DEF target
<1>10. QED
  BY <1>7, <1>8, <1>9

\* A sample of a linear trajectory lies between its ends.
LEMMA InterpolateBetween ==
  ASSUME NEW start \in Int, NEW goal \in Int, NEW age \in Nat,
         NEW lo \in Int, NEW hi \in Int,
         age <= HomeDuration, lo <= start, start <= hi, lo <= goal, goal <= hi
  PROVE  /\ Interpolate(start, goal, age) \in Int
         /\ lo <= Interpolate(start, goal, age)
         /\ Interpolate(start, goal, age) <= hi
<1> DEFINE x == (goal - start) * age
           d == x \div HomeDuration
<1>1. HomeDuration \in Int /\ HomeDuration > 0
  BY TimesAssumption
<1>2. x \in Int
  OBVIOUS
<1>3. d \in Int
  <2> HIDE DEF x
  <2> QED BY <1>1, <1>2
<1>4. HomeDuration * d <= x /\ x < HomeDuration * (d + 1)
  <2> HIDE DEF x
  <2> QED BY <1>1, <1>2
<1>5. CASE goal >= start
  <2>1. 0 <= x /\ x <= (goal - start) * HomeDuration
    BY <1>1, <1>5
  <2>2. 0 <= d
    <3> HIDE DEF x, d
    <3> QED BY <1>1, <1>2, <1>3, <1>4, <2>1
  <2>3. d <= goal - start
    <3> HIDE DEF x, d
    <3> QED BY <1>1, <1>2, <1>3, <1>4, <2>1
  <2> HIDE DEF d
  <2> QED BY <1>3, <2>2, <2>3 DEF Interpolate, d
<1>6. CASE goal < start
  <2>1. x <= 0 /\ (goal - start) * HomeDuration <= x
    BY <1>1, <1>6
  <2>2. d <= 0
    <3> HIDE DEF x, d
    <3> QED BY <1>1, <1>2, <1>3, <1>4, <2>1
  <2>3. goal - start <= d
    <3> HIDE DEF x, d
    <3> QED BY <1>1, <1>2, <1>3, <1>4, <2>1
  <2> HIDE DEF d
  <2> QED BY <1>3, <2>2, <2>3 DEF Interpolate, d
<1>7. QED
  BY <1>5, <1>6

\* The slew limiter stays between the last value and the requested one, so a
\* window that holds both holds its result.
LEMMA SlewedBetween ==
  ASSUME NEW c \in Cached, NEW rate \in Nat, NEW last \in Int, NEW req \in Int,
         NEW lo \in Int, NEW hi \in Int
  PROVE  /\ Slewed(c, rate, last, req) \in Int
         /\ /\ lo <= req /\ req <= hi
            /\ c.has_sent => lo <= last /\ last <= hi
            => lo <= Slewed(c, rate, last, req) /\ Slewed(c, rate, last, req) <= hi
<1>1. MinOf(c.sent_age, DtCap) \in Nat
  BY TimesAssumption DEF Cached, MinOf
<1> DEFINE reach == rate * MinOf(c.sent_age, DtCap)
<1>2. reach \in Int /\ reach >= 0
  <2>1. \A a, b \in Nat : a * b \in Int /\ a * b >= 0
    OBVIOUS
  <2> QED BY <1>1, <2>1
<1>3. Slewed(c, rate, last, req) = IF rate > 0 /\ c.has_sent
                                   THEN Clamp(req, last - reach, last + reach)
                                   ELSE req
  BY DEF Slewed
<1> HIDE DEF reach
<1>4. CASE rate > 0 /\ c.has_sent
  BY <1>2, <1>3, <1>4 DEF Clamp
<1>5. CASE ~(rate > 0 /\ c.has_sent)
  BY <1>3, <1>5
<1>6. QED
  BY <1>4, <1>5

-----------------------------------------------------------------------------
(* The helpers on cache entries keep their type *)

\* A trajectory started from any position is a cache entry whose two ends lie
\* within the joint limits.
LEMMA StartHomeTrajectoryType ==
  ASSUME NEW m \in Motors, NEW c \in Cached, NEW q \in Int
  PROVE  LET d == StartHomeTrajectory(m, c, q) IN
         /\ d \in Cached
         /\ WithinLimits(m, d.traj_start) /\ WithinLimits(m, d.traj_goal)
         /\ d.traj_age = 0
         /\ d.valid = c.valid /\ d.has_received = c.has_received
         /\ d.has_sent = c.has_sent /\ d.cmd_q = c.cmd_q
         /\ d.timeout_home = c.timeout_home /\ d.last_q = c.last_q
         /\ d.last_tau = c.last_tau /\ d.sent_age = c.sent_age
<1> DEFINE start == ClampQ(m, q)
           goal  == AlignedHome(m, start)
           with(s, g) == [c EXCEPT !.traj_start = s, !.traj_goal = g,
                                   !.traj_age = 0, !.traj_active = g # s]
<1>1. start \in Int /\ WithinLimits(m, start)
  BY ClampQWithin
<1>2. goal \in Int /\ WithinLimits(m, goal)
  BY <1>1, AlignedHomeWithin
<1>3. StartHomeTrajectory(m, c, q) = with(start, goal)
  BY DEF StartHomeTrajectory
<1>4. \A s, g \in Int : with(s, g) \in Cached
  BY DEF Cached
<1>5. \A s, g \in Int : /\ with(s, g).traj_start = s /\ with(s, g).traj_goal = g
                        /\ with(s, g).traj_age = 0
  BY DEF Cached
<1>6. \A s, g \in Int :
        /\ with(s, g).valid = c.valid /\ with(s, g).has_received = c.has_received
        /\ with(s, g).has_sent = c.has_sent /\ with(s, g).cmd_q = c.cmd_q
        /\ with(s, g).timeout_home = c.timeout_home /\ with(s, g).last_q = c.last_q
        /\ with(s, g).last_tau = c.last_tau /\ with(s, g).sent_age = c.sent_age
  BY DEF Cached
<1> HIDE DEF start, goal, with
<1>7. QED
  BY <1>1, <1>2, <1>3, <1>4, <1>5, <1>6

\* Sampling a trajectory whose ends lie within the limits gives a position
\* within them.
LEMMA SampleWithin ==
  ASSUME NEW m \in Motors, NEW c \in Cached
  PROVE  /\ SampleHomeTrajectory(c) \in Int
         /\ WithinLimits(m, c.traj_start) /\ WithinLimits(m, c.traj_goal)
              => WithinLimits(m, SampleHomeTrajectory(c))
         /\ AfterSample(c) \in Cached
<1>1. /\ c.traj_start \in Int /\ c.traj_goal \in Int /\ c.traj_age \in Nat
      /\ c.traj_active \in BOOLEAN /\ HomeDuration \in Nat
  BY TimesAssumption DEF Cached
<1>2. AfterSample(c) \in Cached
  BY DEF AfterSample, Cached, TrajectoryOver
<1>3. CASE TrajectoryOver(c)
  BY <1>1, <1>2, <1>3 DEF SampleHomeTrajectory
<1>4. CASE ~TrajectoryOver(c)
  <2>1. c.traj_age <= HomeDuration
    BY <1>1, <1>4 DEF TrajectoryOver
  <2>2. QMin[m] \in Int /\ QMax[m] \in Int
    BY LimitsAssumption
  <2>3. SampleHomeTrajectory(c) = Interpolate(c.traj_start, c.traj_goal, c.traj_age)
    BY <1>4 DEF SampleHomeTrajectory
  <2>4. \A lo, hi \in Int :
          /\ lo <= c.traj_start /\ c.traj_start <= hi
          /\ lo <= c.traj_goal /\ c.traj_goal <= hi
          => /\ SampleHomeTrajectory(c) \in Int
             /\ lo <= SampleHomeTrajectory(c) /\ SampleHomeTrajectory(c) <= hi
    <3> SUFFICES ASSUME NEW lo \in Int, NEW hi \in Int,
                        lo <= c.traj_start, c.traj_start <= hi,
                        lo <= c.traj_goal, c.traj_goal <= hi
                 PROVE  LET i == Interpolate(c.traj_start, c.traj_goal, c.traj_age)
                        IN  i \in Int /\ lo <= i /\ i <= hi
      BY <2>3
    <3> QED BY <1>1, <2>1, InterpolateBetween
  <2>5. SampleHomeTrajectory(c) \in Int
    <3>1. CASE c.traj_start <= c.traj_goal
      BY <1>1, <2>4, <3>1
    <3>2. CASE c.traj_goal < c.traj_start
      BY <1>1, <2>4, <3>2
    <3> QED BY <1>1, <3>1, <3>2
  <2>6. ASSUME WithinLimits(m, c.traj_start), WithinLimits(m, c.traj_goal)
        PROVE  WithinLimits(m, SampleHomeTrajectory(c))
    BY <2>2, <2>4, <2>6 DEF WithinLimits
  <2> QED BY <1>2, <2>5, <2>6
<1>5. QED
  BY <1>3, <1>4

\* Leaving or entering a home episode keeps the type; an entry that was not in
\* an episode comes out with a trajectory within the joint limits.
LEMMA LeaveHomeType ==
  ASSUME NEW m \in Motors, cached[m] \in Cached
  PROVE  LET d == LeaveHome(m) IN
         /\ d \in Cached /\ d.timeout_home = FALSE
         /\ d.valid = cached[m].valid /\ d.has_received = cached[m].has_received
         /\ d.has_sent = cached[m].has_sent /\ d.cmd_q = cached[m].cmd_q
         /\ d.last_q = cached[m].last_q
<1> DEFINE c == cached[m]
           left == [c EXCEPT !.timeout_home = FALSE, !.traj_active = FALSE]
<1>1. /\ left \in Cached /\ left.timeout_home = FALSE
      /\ left.valid = c.valid /\ left.has_received = c.has_received
      /\ left.has_sent = c.has_sent /\ left.cmd_q = c.cmd_q
      /\ left.last_q = c.last_q
  BY DEF Cached
<1>2. CASE c.timeout_home
  <2>1. LeaveHome(m) = left
    BY <1>2 DEF LeaveHome
  <2> HIDE DEF left
  <2> QED BY <1>1, <2>1
<1>3. CASE ~c.timeout_home
  <2>1. LeaveHome(m) = c
    BY <1>3 DEF LeaveHome
  <2>2. c.timeout_home = FALSE
    BY <1>3 DEF Cached
  <2> QED BY <2>1, <2>2
<1>4. QED
  BY <1>2, <1>3

LEMMA EnterHomeType ==
  ASSUME NEW m \in Motors, cached[m] \in Cached, runtime[m] \in Runtime
  PROVE  LET d == EnterHome(m) IN
         /\ d \in Cached /\ d.timeout_home = TRUE
         /\ d.valid = cached[m].valid /\ d.has_received = cached[m].has_received
         /\ d.has_sent = cached[m].has_sent /\ d.cmd_q = cached[m].cmd_q
         /\ d.last_q = cached[m].last_q
         /\ \/ cached[m].timeout_home /\ d = cached[m]
            \/ WithinLimits(m, d.traj_start) /\ WithinLimits(m, d.traj_goal)
<1> DEFINE c == cached[m]
           flag(e) == [e EXCEPT !.timeout_home = TRUE]
           home == ClampQ(m, HomeQ[m])
           hold(p) == [HoldAt(c, p) EXCEPT !.traj_age = 0]
<1>1. \A e \in Cached :
        /\ flag(e) \in Cached /\ flag(e).timeout_home = TRUE
        /\ flag(e).valid = e.valid /\ flag(e).has_received = e.has_received
        /\ flag(e).has_sent = e.has_sent /\ flag(e).cmd_q = e.cmd_q
        /\ flag(e).last_q = e.last_q
        /\ flag(e).traj_start = e.traj_start /\ flag(e).traj_goal = e.traj_goal
  BY DEF Cached
<1>2. CASE c.timeout_home
  <2>1. EnterHome(m) = c
    BY <1>2 DEF EnterHome
  <2>2. c.timeout_home = TRUE
    BY <1>2 DEF Cached
  <2> QED BY <1>2, <2>1, <2>2
<1>3. CASE ~c.timeout_home /\ runtime[m].has_state
  <2> DEFINE d == StartHomeTrajectory(m, c, runtime[m].q)
  <2>1. EnterHome(m) = flag(d)
    BY <1>3 DEF EnterHome
  <2>2. runtime[m].q \in Int
    BY DEF Runtime
  <2>3. /\ d \in Cached
        /\ WithinLimits(m, d.traj_start) /\ WithinLimits(m, d.traj_goal)
        /\ d.valid = c.valid /\ d.has_received = c.has_received
        /\ d.has_sent = c.has_sent /\ d.cmd_q = c.cmd_q /\ d.last_q = c.last_q
    BY <2>2, StartHomeTrajectoryType
  <2> HIDE DEF d, flag
  <2> QED BY <1>1, <2>1, <2>3
<1>4. CASE ~c.timeout_home /\ ~runtime[m].has_state
  <2>1. EnterHome(m) = flag(hold(home))
    BY <1>4 DEF EnterHome
  <2>2. home \in Int /\ WithinLimits(m, home)
    BY LimitsAssumption, ClampQWithin
  <2>3. \A p \in Int :
          /\ hold(p) \in Cached
          /\ hold(p).traj_start = p /\ hold(p).traj_goal = p
          /\ hold(p).valid = c.valid /\ hold(p).has_received = c.has_received
          /\ hold(p).has_sent = c.has_sent /\ hold(p).cmd_q = c.cmd_q
          /\ hold(p).last_q = c.last_q
    BY DEF Cached, HoldAt
  <2> HIDE DEF home, hold, flag
  <2> QED BY <1>1, <2>1, <2>2, <2>3
<1>5. QED
  BY <1>2, <1>3, <1>4

\* Arming the home stream from a position within the limits: the entry is
\* valid, still without an external command, and its trajectory stays inside.
LEMMA ArmHomeStreamType ==
  ASSUME NEW m \in Motors, cached[m] \in Cached, NEW q \in Int
  PROVE  LET d == ArmHomeStream(m, q) IN
         /\ d \in Cached
         /\ d.valid = TRUE /\ d.has_sent = FALSE /\ d.timeout_home = FALSE
         /\ d.has_received = cached[m].has_received
         /\ WithinLimits(m, q) =>
              WithinLimits(m, d.traj_start) /\ WithinLimits(m, d.traj_goal)
<1> DEFINE armed == [cached[m] EXCEPT !.valid = TRUE, !.has_sent = FALSE,
                                      !.cmd_tau = 0, !.timeout_home = FALSE]
           homing == StartHomeTrajectory(m, armed, q)
           cmd(e, p) == [e EXCEPT !.cmd_q = p]
           hold(e) == HoldAt(e, q)
<1>1. /\ armed \in Cached
      /\ armed.valid = TRUE /\ armed.has_sent = FALSE /\ armed.timeout_home = FALSE
      /\ armed.has_received = cached[m].has_received
  <2> DEFINE arm(t) == [cached[m] EXCEPT !.valid = TRUE, !.has_sent = FALSE,
                                         !.cmd_tau = t, !.timeout_home = FALSE]
  <2>1. armed \in Cached
    <3>1. \A t \in Int : arm(t) \in Cached
      BY DEF Cached
    <3>2. armed = arm(0)
      OBVIOUS
    <3> HIDE DEF arm, armed
    <3> QED BY <3>1, <3>2
  <2>2. armed.valid = TRUE /\ armed.has_sent = FALSE /\ armed.timeout_home = FALSE
    BY DEF Cached
  <2>3. armed.has_received = cached[m].has_received
    BY DEF Cached
  <2> QED BY <2>1, <2>2, <2>3
<1>2. ASSUME NEW e \in Cached, NEW p \in Int
      PROVE  /\ cmd(e, p) \in Cached
             /\ cmd(e, p).valid = e.valid /\ cmd(e, p).has_sent = e.has_sent
             /\ cmd(e, p).timeout_home = e.timeout_home
             /\ cmd(e, p).has_received = e.has_received
             /\ cmd(e, p).traj_start = e.traj_start
             /\ cmd(e, p).traj_goal = e.traj_goal
  <2>1. cmd(e, p) \in Cached
    BY DEF Cached
  <2>2. /\ cmd(e, p).valid = e.valid /\ cmd(e, p).has_sent = e.has_sent
        /\ cmd(e, p).timeout_home = e.timeout_home
        /\ cmd(e, p).has_received = e.has_received
    BY DEF Cached
  <2>3. cmd(e, p).traj_start = e.traj_start /\ cmd(e, p).traj_goal = e.traj_goal
    BY DEF Cached
  <2> QED BY <2>1, <2>2, <2>3
<1>3. \A e \in Cached :
        /\ hold(e) \in Cached
        /\ hold(e).valid = e.valid /\ hold(e).has_sent = e.has_sent
        /\ hold(e).timeout_home = e.timeout_home
        /\ hold(e).has_received = e.has_received
        /\ hold(e).traj_start = q /\ hold(e).traj_goal = q
  BY DEF Cached, HoldAt
<1>4. /\ homing \in Cached /\ homing.traj_goal \in Int
      /\ WithinLimits(m, homing.traj_start) /\ WithinLimits(m, homing.traj_goal)
      /\ homing.valid = TRUE /\ homing.has_sent = FALSE
      /\ homing.timeout_home = FALSE
      /\ homing.has_received = cached[m].has_received
  <2> HIDE DEF armed
  <2>1. /\ homing \in Cached
        /\ WithinLimits(m, homing.traj_start) /\ WithinLimits(m, homing.traj_goal)
        /\ homing.valid = armed.valid /\ homing.has_sent = armed.has_sent
        /\ homing.timeout_home = armed.timeout_home
        /\ homing.has_received = armed.has_received
    BY <1>1, StartHomeTrajectoryType
  <2>2. homing.traj_goal \in Int
    BY <2>1 DEF Cached
  <2> QED BY <1>1, <2>1, <2>2
<1>5. ArmHomeStream(m, q) = IF m \in Gripper \/ Abs(HomeQ[m] - q) <= NearHome
                            THEN cmd(hold(armed), q)
                            ELSE cmd(homing, homing.traj_goal)
  BY DEF ArmHomeStream
<1> HIDE DEF armed, homing, cmd, hold
<1>6. CASE ArmHomeStream(m, q) = cmd(hold(armed), q)
  <2> DEFINE e == hold(armed)
  <2>1. /\ e \in Cached
        /\ e.valid = TRUE /\ e.has_sent = FALSE /\ e.timeout_home = FALSE
        /\ e.has_received = cached[m].has_received
        /\ e.traj_start = q /\ e.traj_goal = q
    BY <1>1, <1>3
  <2> HIDE DEF e
  <2>2. ArmHomeStream(m, q) = cmd(e, q)
    BY <1>6 DEF e
  <2> QED BY <1>2, <2>1, <2>2
<1>7. CASE ArmHomeStream(m, q) = cmd(homing, homing.traj_goal)
  BY <1>2, <1>4, <1>7
<1>8. QED
  BY <1>5, <1>6, <1>7

-----------------------------------------------------------------------------
(* Type correctness *)

\* The loop of dispatch_cached_commands is over exactly when no motor is left.
LEMMA NextMotorType ==
  ASSUME NEW m \in Motors, todo \subseteq Motors, m \in todo, NextMotor(m)
  PROVE  /\ phase' \in {"off", "idle", "rx", "tx"}
         /\ (phase' = "tx") <=> (todo' # {})
         /\ todo' \subseteq Motors
<1>1. CASE todo = {m}
  BY <1>1 DEF NextMotor
<1>2. CASE todo # {m}
  <2>1. todo \ {m} # {}
    BY <1>2
  <2> QED BY <1>2, <2>1 DEF NextMotor
<1>3. QED
  BY <1>1, <1>2

\* What sending one frame does to the cache entry and to the wire.
LEMMA SendEffect ==
  ASSUME TypeOK, NEW m \in Motors, m \in todo, NEW c \in Cached,
         NEW q_des \in Int, NEW tau_ff \in Int, NEW source \in Source,
         NEW written \in BOOLEAN, Send(m, c, q_des, tau_ff, source, written)
  PROVE  LET q == Slewed(c, MaxQdot[m], c.last_q, q_des) IN
         /\ q \in Int
         /\ cached' = [cached EXCEPT ![m] = cached'[m]]
         /\ cached'[m] \in Cached
         /\ cached'[m].valid = c.valid /\ cached'[m].has_received = c.has_received
         /\ cached'[m].cmd_q = c.cmd_q /\ cached'[m].timeout_home = c.timeout_home
         /\ cached'[m].traj_start = c.traj_start
         /\ cached'[m].traj_goal = c.traj_goal
         /\ cached'[m].last_q = q
         /\ wire' = [wire EXCEPT ![m] = wire'[m]]
         /\ wire'[m] \in Wire
         /\ \/ wire'[m].q = ClampQ(m, q) /\ wire'[m].applied_q = q
            \/ /\ wire'[m].q = wire[m].q /\ wire'[m].applied_q = wire[m].applied_q
               /\ wire'[m].source = wire[m].source
<1> DEFINE q   == Slewed(c, MaxQdot[m], c.last_q, q_des)
           tau == Slewed(c, MaxTauRate[m], c.last_tau, tau_ff)
           sent(a, b) == [c EXCEPT !.has_sent = TRUE, !.sent_age = 0,
                                   !.last_q = a, !.last_tau = b]
           frame(a, b, d) == [tried |-> source, source |-> source, q |-> a,
                              applied_q |-> b, tau |-> d, age |-> 0]
           lost(w) == [w EXCEPT !.tried = source]
<1>1. c.last_q \in Int /\ c.last_tau \in Int
  BY DEF Cached
<1>2. q \in Int /\ tau \in Int
  <2>1. MaxQdot[m] \in Nat /\ MaxTauRate[m] \in Nat
    BY RatesAssumption
  <2> QED BY <1>1, <2>1, SlewedBetween
<1>3. /\ cached \in [Motors -> Cached] /\ wire \in [Motors -> Wire]
      /\ wire[m] \in Wire
  BY DEF TypeOK
<1>4. ClampQ(m, q) \in Int
  <2> HIDE DEF q
  <2> QED BY <1>2, ClampQWithin
<1>5. /\ cached' = [cached EXCEPT ![m] = sent(q, tau)]
      /\ wire' = [wire EXCEPT ![m] = IF written THEN frame(ClampQ(m, q), q, tau)
                                     ELSE lost(wire[m])]
  BY DEF Send
<1>6. \A a, b \in Int : sent(a, b) \in Cached
  BY DEF Cached
<1>7. \A a, b \in Int :
        /\ sent(a, b).valid = c.valid /\ sent(a, b).has_received = c.has_received
        /\ sent(a, b).cmd_q = c.cmd_q /\ sent(a, b).timeout_home = c.timeout_home
        /\ sent(a, b).traj_start = c.traj_start
        /\ sent(a, b).traj_goal = c.traj_goal /\ sent(a, b).last_q = a
  BY DEF Cached
<1>8. \A a, b, d \in Int : /\ frame(a, b, d) \in Wire
                           /\ frame(a, b, d).q = a /\ frame(a, b, d).applied_q = b
  BY DEF Wire
<1>9. \A w \in Wire : /\ lost(w) \in Wire /\ lost(w).q = w.q
                      /\ lost(w).applied_q = w.applied_q /\ lost(w).source = w.source
  BY DEF Wire
<1> HIDE DEF q, tau, sent, frame, lost
<1>10. cached'[m] = sent(q, tau)
  BY <1>3, <1>5
<1>11. wire'[m] = IF written THEN frame(ClampQ(m, q), q, tau) ELSE lost(wire[m])
  BY <1>3, <1>5
<1>12. /\ cached' = [cached EXCEPT ![m] = cached'[m]]
       /\ wire' = [wire EXCEPT ![m] = wire'[m]]
  BY <1>5, <1>10, <1>11
<1>13. cached'[m] \in Cached
  BY <1>2, <1>6, <1>10
<1>14. /\ cached'[m].valid = c.valid /\ cached'[m].has_received = c.has_received
       /\ cached'[m].cmd_q = c.cmd_q /\ cached'[m].timeout_home = c.timeout_home
       /\ cached'[m].traj_start = c.traj_start
       /\ cached'[m].traj_goal = c.traj_goal /\ cached'[m].last_q = q
  BY <1>2, <1>7, <1>10
<1>15. wire'[m] \in Wire
  BY <1>2, <1>3, <1>4, <1>8, <1>9, <1>11
<1>16. \/ wire'[m].q = ClampQ(m, q) /\ wire'[m].applied_q = q
       \/ /\ wire'[m].q = wire[m].q /\ wire'[m].applied_q = wire[m].applied_q
          /\ wire'[m].source = wire[m].source
  BY <1>2, <1>3, <1>4, <1>8, <1>9, <1>11
<1>17. QED
  BY <1>2, <1>12, <1>13, <1>14, <1>15, <1>16 DEF q

LEMMA SendType ==
  ASSUME TypeOK, NEW m \in Motors, m \in todo, NEW c \in Cached,
         NEW q_des \in Int, NEW tau_ff \in Int, NEW source \in Source,
         NEW written \in BOOLEAN, Send(m, c, q_des, tau_ff, source, written)
  PROVE  TypeOK'
<1>1. cached' \in [Motors -> Cached] /\ wire' \in [Motors -> Wire]
  BY SendEffect DEF TypeOK
<1>2. UNCHANGED <<runtime, faultBits, energised>> /\ NextMotor(m)
  BY DEF Send
<1>3. QED
  BY <1>1, <1>2, NextMotorType DEF TypeOK

LEMMA TypeInit == Init => TypeOK
<1> SUFFICES ASSUME Init PROVE TypeOK
  OBVIOUS
<1>1. NewRuntime \in Runtime
  BY DEF NewRuntime, Runtime
<1>2. NewCached \in Cached
  BY DEF NewCached, Cached
<1>3. NoFrame \in Wire
  BY DEF NoFrame, Wire, Source
<1>4. QED
  BY <1>1, <1>2, <1>3 DEF Init, TypeOK

LEMMA TypeStep == TypeOK /\ [Next]_vars => TypeOK'
<1> SUFFICES ASSUME TypeOK, [Next]_vars PROVE TypeOK'
  OBVIOUS
<1>t. /\ runtime \in [Motors -> Runtime] /\ cached \in [Motors -> Cached]
      /\ wire \in [Motors -> Wire] /\ faultBits \in [Motors -> {0} \cup FaultBits]
      /\ todo \subseteq Motors /\ energised \subseteq Motors
  BY DEF TypeOK
<1>1. ASSUME NEW discovered \in SUBSET Motors, NEW enabled \in SUBSET Motors,
             Startup(discovered, enabled)
      PROVE  TypeOK'
  <2> DEFINE new(k, e) == [NewRuntime EXCEPT !.known = k, !.enable_sent = e]
  <2>1. \A k, e \in BOOLEAN : new(k, e) \in Runtime
    <3>1. ASSUME NEW r \in Runtime, NEW k \in BOOLEAN, NEW e \in BOOLEAN
          PROVE  [r EXCEPT !.known = k, !.enable_sent = e] \in Runtime
      BY DEF Runtime
    <3>2. NewRuntime \in Runtime
      BY DEF NewRuntime, Runtime
    <3> QED BY <3>1, <3>2
  <2>2. runtime' = [m \in Motors |-> new(m \in discovered, m \in enabled)]
    BY <1>1 DEF Startup
  <2>3. \A m \in Motors : (m \in discovered) \in BOOLEAN /\ (m \in enabled) \in BOOLEAN
    OBVIOUS
  <2>4. runtime' \in [Motors -> Runtime]
    <3> HIDE DEF new
    <3> QED BY <2>1, <2>2, <2>3
  <2>5. NewCached \in Cached
    BY DEF NewCached, Cached
  <2>6. NoFrame \in Wire
    BY DEF NoFrame, Wire, Source
  <2>7. QED
    BY <1>1, <2>4, <2>5, <2>6 DEF Startup, TypeOK
<1>2. ASSUME NEW written \in SUBSET Motors, Shutdown(written)
      PROVE  TypeOK'
  BY <1>2 DEF Shutdown, TypeOK
<1>3. ASSUME NEW S \in SUBSET Motors, NEW msg \in [S -> Command], OnCmdArray(msg)
      PROVE  TypeOK'
  <2> DEFINE take(m, q, tau) ==
               [cached[m] EXCEPT
                  !.cmd_q = q, !.cmd_tau = tau,
                  !.valid = TRUE, !.has_received = TRUE, !.recv_age = 0,
                  !.timeout_home = FALSE, !.traj_active = FALSE]
             know(r) == [r EXCEPT !.known = TRUE]
             torque(m) == Clamp(msg[m].tau, -TauLimit[m], TauLimit[m])
  <2>1. \A m \in Motors : \A q, tau \in Int : take(m, q, tau) \in Cached
    <3>1. ASSUME NEW c \in Cached, NEW q \in Int, NEW tau \in Int
          PROVE  [c EXCEPT !.cmd_q = q, !.cmd_tau = tau,
                           !.valid = TRUE, !.has_received = TRUE, !.recv_age = 0,
                           !.timeout_home = FALSE, !.traj_active = FALSE] \in Cached
      BY DEF Cached
    <3> QED BY <1>t, <3>1
  <2>2. \A r \in Runtime : know(r) \in Runtime
    BY DEF Runtime
  <2>3. \A m \in S : msg[m].q \in Int /\ torque(m) \in Int
    <3> SUFFICES ASSUME NEW m \in S PROVE msg[m].q \in Int /\ torque(m) \in Int
      OBVIOUS
    <3>1. msg[m] \in Command
      OBVIOUS
    <3>2. msg[m].q \in Int /\ msg[m].tau \in Int
      BY <3>1, InputsAssumption DEF Command
    <3>3. TauLimit[m] \in Int /\ -TauLimit[m] \in Int
      BY RatesAssumption
    <3> QED BY <3>2, <3>3, ClampInWindow
  <2>4. cached' = [m \in Motors |->
          IF m \in S /\ Accepts(m, msg[m]) THEN take(m, msg[m].q, torque(m))
                                           ELSE cached[m]]
    BY <1>3 DEF OnCmdArray
  <2>5. runtime' = [m \in Motors |->
          IF m \in S /\ msg[m].finite THEN know(runtime[m]) ELSE runtime[m]]
    BY <1>3 DEF OnCmdArray
  <2> HIDE DEF take, know, torque
  <2>6. cached' \in [Motors -> Cached]
    BY <1>t, <2>1, <2>3, <2>4
  <2>7. runtime' \in [Motors -> Runtime]
    BY <1>t, <2>2, <2>5
  <2>8. UNCHANGED <<phase, todo, faultBits, wire, energised>>
    BY <1>3 DEF OnCmdArray
  <2>9. QED
    BY <2>6, <2>7, <2>8 DEF TypeOK
<1>4. ASSUME NEW m \in Motors, NEW f \in Feedback, RxFeedback(m, f)
      PROVE  TypeOK'
  <2> DEFINE blocks == BecomesReady(m, f) /\ ~WithinLimits(m, f.q)
             got(q, r, b, t, e) ==
               [runtime[m] EXCEPT !.known = TRUE, !.has_state = TRUE, !.q = q,
                                  !.ready = r, !.blocked = b,
                                  !.thermal = t, !.fault = e]
             ready == runtime[m].ready \/ BecomesReady(m, f)
             blocked == runtime[m].blocked \/ blocks
             thermal == ThermalAfter(m, f)
             fault == FaultAfter(m, f)
  <2>1. /\ f.q \in Int /\ f.fault \in {0} \cup FaultBits /\ f.temp \in Temperature
        /\ runtime[m] \in Runtime
    BY <1>t, InputsAssumption DEF Feedback
  <2>2. \A q \in Int : \A r, b, t, e \in BOOLEAN : got(q, r, b, t, e) \in Runtime
    <3>1. ASSUME NEW x \in Runtime, NEW q \in Int, NEW r \in BOOLEAN,
                 NEW b \in BOOLEAN, NEW t \in BOOLEAN, NEW e \in BOOLEAN
          PROVE  [x EXCEPT !.known = TRUE, !.has_state = TRUE, !.q = q,
                           !.ready = r, !.blocked = b,
                           !.thermal = t, !.fault = e] \in Runtime
      BY DEF Runtime
    <3> QED BY <2>1, <3>1
  <2>3. ready \in BOOLEAN /\ blocked \in BOOLEAN
    OBVIOUS
  <2>4. thermal \in BOOLEAN
    BY <2>1 DEF ThermalAfter, Temperature, Runtime
  <2>5. fault \in BOOLEAN
    BY <2>1 DEF FaultAfter, Runtime
  <2>6. runtime' = [runtime EXCEPT ![m] = got(f.q, ready, blocked, thermal, fault)]
    BY <1>4, Zenon DEF RxFeedback
  <2>7. runtime' \in [Motors -> Runtime]
    <3> HIDE DEF got, ready, blocked, thermal, fault
    <3> QED BY <1>t, <2>1, <2>2, <2>3, <2>4, <2>5, <2>6
  <2>8. cached' \in [Motors -> Cached]
    <3>1. ArmHomeStream(m, f.q) \in Cached
      BY <1>t, <2>1, ArmHomeStreamType
    <3>2. cached' = cached \/ cached' = [cached EXCEPT ![m] = ArmHomeStream(m, f.q)]
      BY <1>4 DEF RxFeedback
    <3> QED BY <1>t, <3>1, <3>2
  <2>9. faultBits' \in [Motors -> {0} \cup FaultBits]
    BY <1>4, <1>t, <2>1 DEF RxFeedback
  <2>10. /\ phase \in {"idle", "rx"} /\ phase' = "rx"
         /\ UNCHANGED <<todo, wire, energised>>
    BY <1>4 DEF RxFeedback
  <2>11. QED
    BY <2>7, <2>8, <2>9, <2>10 DEF TypeOK
<1>5. CASE StartDispatch
  BY <1>5, MotorsAssumption DEF StartDispatch, TypeOK
<1>6. ASSUME NEW m \in Motors, Skip(m)
      PROVE  TypeOK'
  BY <1>6, NextMotorType DEF Skip, TypeOK
<1>7. ASSUME NEW m \in Motors, NEW written \in BOOLEAN, SendPreHome(m, written)
      PROVE  TypeOK'
  <2>1. AfterSample(cached[m]) \in Cached /\ SampleHomeTrajectory(cached[m]) \in Int
    BY <1>t, SampleWithin
  <2>2. "pre_home" \in Source /\ 0 \in Int
    BY DEF Source
  <2>3. QED
    BY <1>7, <2>1, <2>2, SendType DEF SendPreHome
<1>8. ASSUME NEW m \in Motors, NEW written \in BOOLEAN, SendHome(m, written)
      PROVE  TypeOK'
  <2>1. EnterHome(m) \in Cached
    BY <1>t, EnterHomeType
  <2>2. /\ AfterSample(EnterHome(m)) \in Cached
        /\ SampleHomeTrajectory(EnterHome(m)) \in Int
    BY <2>1, SampleWithin
  <2>3. "home" \in Source /\ 0 \in Int
    BY DEF Source
  <2>4. QED
    BY <1>8, <2>2, <2>3, SendType DEF SendHome
<1>9. ASSUME NEW m \in Motors, NEW written \in BOOLEAN, SendExternal(m, written)
      PROVE  TypeOK'
  <2>1. LeaveHome(m) \in Cached
    BY <1>t, LeaveHomeType
  <2>2. cached[m].cmd_q \in Int /\ cached[m].cmd_tau \in Int
    BY <1>t DEF Cached
  <2>3. "external" \in Source
    BY DEF Source
  <2>4. QED
    BY <1>9, <2>1, <2>2, <2>3, SendType DEF SendExternal
<1>10. CASE Tick
  <2> DEFINE aged(c, a, b, d) == [c EXCEPT !.sent_age = a, !.recv_age = b,
                                           !.traj_age = d]
             agedWire(w, a) == [w EXCEPT !.age = a]
  <2>1. \A c \in Cached : \A a, b, d \in Nat : aged(c, a, b, d) \in Cached
    BY DEF Cached
  <2>2. \A w \in Wire : \A a \in Nat : agedWire(w, a) \in Wire
    BY DEF Wire
  <2>3. \A c \in Cached : AgedCache(c) \in Cached
    <3> SUFFICES ASSUME NEW c \in Cached PROVE AgedCache(c) \in Cached
      OBVIOUS
    <3> DEFINE a == IF c.has_sent THEN Older(c.sent_age, MaxOf(TxPeriod, DtCap))
                                  ELSE c.sent_age
               b == IF c.has_received THEN Older(c.recv_age, CmdTimeout)
                                      ELSE c.recv_age
               d == IF c.traj_active THEN Older(c.traj_age, HomeDuration)
                                     ELSE c.traj_age
    <3>1. c.sent_age \in Nat /\ c.recv_age \in Nat /\ c.traj_age \in Nat
      BY DEF Cached
    <3>2. a \in Nat /\ b \in Nat /\ d \in Nat
      BY <3>1, TimesAssumption DEF Older, MaxOf
    <3>3. AgedCache(c) = aged(c, a, b, d)
      BY DEF AgedCache
    <3> HIDE DEF a, b, d, aged
    <3> QED BY <2>1, <3>2, <3>3
  <2>4. \A w \in Wire : AgedWire(w) \in Wire
    <3> SUFFICES ASSUME NEW w \in Wire PROVE AgedWire(w) \in Wire
      OBVIOUS
    <3> DEFINE a == IF w.source = "none" THEN w.age ELSE Older(w.age, WireCap)
    <3>1. w.age \in Nat
      BY DEF Wire
    <3>2. a \in Nat
      BY <3>1, TimesAssumption DEF Older
    <3>3. AgedWire(w) = agedWire(w, a)
      BY DEF AgedWire
    <3> HIDE DEF a, agedWire
    <3> QED BY <2>2, <3>2, <3>3
  <2>5. cached' \in [Motors -> Cached] /\ wire' \in [Motors -> Wire]
    BY <1>10, <1>t, <2>3, <2>4 DEF Tick
  <2>6. UNCHANGED <<phase, todo, runtime, faultBits, energised>>
    BY <1>10 DEF Tick
  <2>7. QED
    BY <2>5, <2>6 DEF TypeOK
<1>11. CASE UNCHANGED vars
  BY <1>11 DEF vars, TypeOK
<1>12. QED
  BY <1>1, <1>2, <1>3, <1>4, <1>5, <1>6, <1>7, <1>8, <1>9, <1>10, <1>11 DEF Next

\* Every variable keeps its type, and the bridge is dispatching exactly while
\* some motor is left in the loop.
THEOREM TypeCorrect == Spec => []TypeOK
BY TypeInit, TypeStep, PTL DEF Spec

-----------------------------------------------------------------------------
(* The invariant *)

\* Sampling only ends a trajectory; every other field of the entry stays.
LEMMA AfterSampleFields ==
  ASSUME NEW c \in Cached
  PROVE  LET d == AfterSample(c) IN
         /\ d.valid = c.valid /\ d.has_received = c.has_received
         /\ d.has_sent = c.has_sent /\ d.cmd_q = c.cmd_q /\ d.last_q = c.last_q
         /\ d.timeout_home = c.timeout_home
         /\ d.traj_start = c.traj_start /\ d.traj_goal = c.traj_goal
BY DEF AfterSample, Cached

\* An action that leaves everything about a motor alone keeps its invariant.
LEMMA OtherMotors ==
  ASSUME NEW n \in Motors, ReadyInv(n) /\ FaultInv(n) /\ LimitsInv(n),
         runtime'[n] = runtime[n], cached'[n] = cached[n],
         wire'[n] = wire[n], faultBits'[n] = faultBits[n]
  PROVE  (ReadyInv(n) /\ FaultInv(n) /\ LimitsInv(n))'
BY DEF ReadyInv, FaultInv, LimitsInv, WithinLimits

\* A frame built from an entry whose positions lie within the limits, for a
\* ready motor, keeps the invariant: the slewed position lies between two of
\* those positions, so the encoder's clamp leaves it as it is.
LEMMA SendKeepsInv ==
  ASSUME TypeOK, BridgeInv, NEW m \in Motors, m \in todo, NEW c \in Cached,
         NEW q_des \in Int, NEW tau_ff \in Int, NEW source \in Source,
         NEW written \in BOOLEAN, Send(m, c, q_des, tau_ff, source, written),
         c.valid = cached[m].valid, c.has_received = cached[m].has_received,
         c.has_sent = cached[m].has_sent, c.cmd_q = cached[m].cmd_q,
         c.last_q = cached[m].last_q,
         (c.valid /\ ~c.has_received) \/ c.timeout_home =>
           WithinLimits(m, c.traj_start) /\ WithinLimits(m, c.traj_goal),
         WithinLimits(m, q_des),
         runtime[m].ready, ~runtime[m].blocked
  PROVE  BridgeInv'
<1> DEFINE q == Slewed(c, MaxQdot[m], c.last_q, q_des)
           Inv(n) == ReadyInv(n) /\ FaultInv(n) /\ LimitsInv(n)
<1>1. ReadyInv(m) /\ FaultInv(m) /\ LimitsInv(m)
  BY DEF BridgeInv
<1>2. /\ q \in Int
      /\ cached' = [cached EXCEPT ![m] = cached'[m]]
      /\ cached'[m] \in Cached
      /\ cached'[m].valid = c.valid /\ cached'[m].has_received = c.has_received
      /\ cached'[m].cmd_q = c.cmd_q /\ cached'[m].timeout_home = c.timeout_home
      /\ cached'[m].traj_start = c.traj_start
      /\ cached'[m].traj_goal = c.traj_goal
      /\ cached'[m].last_q = q
      /\ wire' = [wire EXCEPT ![m] = wire'[m]]
      /\ \/ wire'[m].q = ClampQ(m, q) /\ wire'[m].applied_q = q
         \/ /\ wire'[m].q = wire[m].q /\ wire'[m].applied_q = wire[m].applied_q
            /\ wire'[m].source = wire[m].source
  BY SendEffect
<1>3. WithinLimits(m, q)
  <2>1. c.has_sent => WithinLimits(m, c.last_q)
    BY <1>1 DEF LimitsInv
  <2>2. QMin[m] \in Int /\ QMax[m] \in Int /\ MaxQdot[m] \in Nat /\ c.last_q \in Int
    BY LimitsAssumption, RatesAssumption DEF Cached
  <2>3. q_des \in Int /\ QMin[m] <= q_des /\ q_des <= QMax[m]
    BY DEF WithinLimits
  <2>4. QMin[m] <= q /\ q <= QMax[m]
    BY <2>1, <2>2, <2>3, SlewedBetween DEF WithinLimits
  <2> QED BY <2>4 DEF WithinLimits
<1> HIDE DEF q
<1>4. ClampQ(m, q) = q
  BY <1>2, <1>3, ClampQWithin
<1>5. UNCHANGED <<runtime, faultBits>>
  BY DEF Send
<1>6. LimitsInv(m)'
  <2>1. cached'[m].has_received => WithinLimits(m, cached'[m].cmd_q)
    BY <1>1, <1>2 DEF LimitsInv
  <2>2. (cached'[m].valid /\ ~cached'[m].has_received) \/ cached'[m].timeout_home =>
          /\ WithinLimits(m, cached'[m].traj_start)
          /\ WithinLimits(m, cached'[m].traj_goal)
    BY <1>2
  <2>3. WithinLimits(m, cached'[m].last_q)
    BY <1>2, <1>3
  <2>4. wire'[m].applied_q = wire'[m].q
    BY <1>1, <1>2, <1>4 DEF LimitsInv
  <2> QED BY <2>1, <2>2, <2>3, <2>4 DEF LimitsInv, WithinLimits
<1>7. ReadyInv(m)' /\ FaultInv(m)'
  BY <1>1, <1>5 DEF ReadyInv, FaultInv
<1>8. ASSUME NEW n \in Motors, n # m
      PROVE  (ReadyInv(n) /\ FaultInv(n) /\ LimitsInv(n))'
  <2>1. cached'[n] = cached[n] /\ wire'[n] = wire[n]
    BY <1>2, <1>8 DEF TypeOK
  <2>2. ReadyInv(n) /\ FaultInv(n) /\ LimitsInv(n)
    BY DEF BridgeInv
  <2> QED BY <1>5, <2>1, <2>2, OtherMotors
<1>9. QED
  BY <1>6, <1>7, <1>8 DEF BridgeInv

LEMMA InvInit == Init => BridgeInv
BY DEF Init, BridgeInv, ReadyInv, FaultInv, LimitsInv, NewRuntime, NewCached, NoFrame

LEMMA InvStep == TypeOK /\ BridgeInv /\ [Next]_vars => BridgeInv'
<1> SUFFICES ASSUME TypeOK, BridgeInv, [Next]_vars PROVE BridgeInv'
  OBVIOUS
<1>t. /\ runtime \in [Motors -> Runtime] /\ cached \in [Motors -> Cached]
      /\ wire \in [Motors -> Wire] /\ todo \subseteq Motors
  BY DEF TypeOK
<1>i. \A n \in Motors : ReadyInv(n) /\ FaultInv(n) /\ LimitsInv(n)
  BY DEF BridgeInv
<1>1. ASSUME NEW discovered \in SUBSET Motors, NEW enabled \in SUBSET Motors,
             Startup(discovered, enabled)
      PROVE  BridgeInv'
  <2> SUFFICES ASSUME NEW n \in Motors
               PROVE  (ReadyInv(n) /\ FaultInv(n) /\ LimitsInv(n))'
    BY DEF BridgeInv
  <2>1. /\ runtime'[n].ready = FALSE /\ runtime'[n].blocked = FALSE
        /\ runtime'[n].fault = FALSE /\ faultBits'[n] = 0
    BY <1>1 DEF Startup, NewRuntime
  <2>2. cached'[n] = NewCached /\ wire'[n] = NoFrame
    BY <1>1 DEF Startup
  <2>3. QED
    BY <2>1, <2>2 DEF ReadyInv, FaultInv, LimitsInv, NewCached, NoFrame
<1>2. ASSUME NEW written \in SUBSET Motors, Shutdown(written)
      PROVE  BridgeInv'
  BY <1>2, <1>i, OtherMotors DEF Shutdown, BridgeInv
<1>3. ASSUME NEW S \in SUBSET Motors, NEW msg \in [S -> Command], OnCmdArray(msg)
      PROVE  BridgeInv'
  <2> SUFFICES ASSUME NEW n \in Motors
               PROVE  (ReadyInv(n) /\ FaultInv(n) /\ LimitsInv(n))'
    BY DEF BridgeInv
  <2>1. /\ wire'[n] = wire[n] /\ faultBits'[n] = faultBits[n]
        /\ runtime'[n].ready = runtime[n].ready
        /\ runtime'[n].blocked = runtime[n].blocked
        /\ runtime'[n].enable_sent = runtime[n].enable_sent
        /\ runtime'[n].fault = runtime[n].fault
    BY <1>3, <1>t DEF OnCmdArray, Runtime
  <2>2. CASE n \in S /\ Accepts(n, msg[n])
    <3> DEFINE c == cached'[n]
    <3>1. c = [cached[n] EXCEPT
                 !.cmd_q = msg[n].q,
                 !.cmd_tau = Clamp(msg[n].tau, -TauLimit[n], TauLimit[n]),
                 !.valid = TRUE, !.has_received = TRUE, !.recv_age = 0,
                 !.timeout_home = FALSE, !.traj_active = FALSE]
      BY <1>3, <2>2 DEF OnCmdArray
    <3>2. /\ c.cmd_q = msg[n].q /\ c.has_received = TRUE
          /\ c.timeout_home = FALSE /\ c.has_sent = cached[n].has_sent
          /\ c.last_q = cached[n].last_q
      BY <1>t, <3>1 DEF Cached
    <3>3. WithinLimits(n, msg[n].q)
      BY <2>2 DEF Accepts
    <3>4. LimitsInv(n)'
      BY <1>i, <2>1, <3>2, <3>3 DEF LimitsInv, WithinLimits
    <3> QED BY <1>i, <2>1, <3>2, <3>4 DEF ReadyInv, FaultInv
  <2>3. CASE ~(n \in S /\ Accepts(n, msg[n]))
    <3>1. cached'[n] = cached[n]
      BY <1>3, <2>3 DEF OnCmdArray
    <3> QED BY <1>i, <2>1, <3>1 DEF ReadyInv, FaultInv, LimitsInv, WithinLimits
  <2>4. QED
    BY <2>2, <2>3
<1>4. ASSUME NEW m \in Motors, NEW f \in Feedback, RxFeedback(m, f)
      PROVE  BridgeInv'
  <2> DEFINE blocks == BecomesReady(m, f) /\ ~WithinLimits(m, f.q)
             arms == BecomesReady(m, f) /\ ~blocks /\ ~cached[m].has_received
             armed == ArmHomeStream(m, f.q)
  <2>1. f.q \in Int /\ runtime[m] \in Runtime /\ cached[m] \in Cached
    BY <1>t, InputsAssumption DEF Feedback
  <2>2. /\ runtime'[m].enable_sent = runtime[m].enable_sent
        /\ runtime'[m].ready = (runtime[m].ready \/ BecomesReady(m, f))
        /\ runtime'[m].blocked = (runtime[m].blocked \/ blocks)
        /\ runtime'[m].fault = FaultAfter(m, f)
    BY <1>4, <1>t DEF RxFeedback, Runtime
  <2>3. wire' = wire /\ faultBits'[m] = f.fault
    BY <1>4 DEF RxFeedback, TypeOK
  <2>4. FaultInv(m)'
    BY <1>i, <2>2, <2>3 DEF FaultInv, FaultAfter
  <2>b. BecomesReady(m, f) => ~runtime[m].ready /\ runtime[m].enable_sent
    BY DEF BecomesReady
  <2>r. /\ runtime'[m].ready <=> runtime[m].ready \/ BecomesReady(m, f)
        /\ runtime'[m].blocked <=> runtime[m].blocked \/ blocks
        /\ runtime'[m].enable_sent <=> runtime[m].enable_sent
    BY <2>2
  <2>w. wire'[m].source = wire[m].source
    BY <2>3
  <2>s. /\ runtime'[m].ready => runtime'[m].enable_sent
        /\ runtime'[m].blocked => runtime'[m].ready
        /\ wire'[m].source # "none" => runtime'[m].ready /\ ~runtime'[m].blocked
    <3>1. /\ runtime[m].ready => runtime[m].enable_sent
          /\ runtime[m].blocked => runtime[m].ready
          /\ wire[m].source # "none" => runtime[m].ready /\ ~runtime[m].blocked
      BY <1>i DEF ReadyInv
    <3> HIDE DEF blocks
    <3>2. blocks => BecomesReady(m, f)
      BY DEF blocks
    <3> QED BY <2>b, <2>r, <2>w, <3>1, <3>2
  <2>5. ASSUME arms PROVE (ReadyInv(m) /\ FaultInv(m) /\ LimitsInv(m))'
    <3>1. cached'[m] = armed
      BY <1>4, <1>t, <2>5 DEF RxFeedback
    <3>2. WithinLimits(m, f.q)
      BY <2>5
    <3>3. /\ armed.has_sent = FALSE /\ armed.timeout_home = FALSE
          /\ armed.has_received = cached[m].has_received
      BY <2>1, ArmHomeStreamType
    <3>4. WithinLimits(m, armed.traj_start) /\ WithinLimits(m, armed.traj_goal)
      BY <2>1, <3>2, ArmHomeStreamType
    <3>5. ~cached[m].has_received /\ ~blocks /\ BecomesReady(m, f)
      BY <2>5
    <3> HIDE DEF armed
    <3>6. LimitsInv(m)'
      BY <1>i, <2>3, <3>1, <3>3, <3>4, <3>5 DEF LimitsInv, WithinLimits
    <3>7. ReadyInv(m)'
      <4>1. ~runtime[m].blocked
        BY <1>i, <2>b, <3>5 DEF ReadyInv
      <4> HIDE DEF blocks, arms
      <4>2. runtime'[m].ready /\ ~runtime'[m].blocked
        BY <2>r, <3>5, <4>1
      <4> QED BY <2>s, <4>2 DEF ReadyInv
    <3> QED BY <2>4, <3>6, <3>7
  <2>6. ASSUME ~arms PROVE (ReadyInv(m) /\ FaultInv(m) /\ LimitsInv(m))'
    <3>1. cached' = cached
      BY <1>4, <2>6 DEF RxFeedback
    <3>2. LimitsInv(m)'
      BY <1>i, <2>3, <3>1 DEF LimitsInv, WithinLimits
    <3>3. cached[m].valid /\ ~cached[m].has_received =>
            runtime[m].ready /\ ~runtime[m].blocked
      BY <1>i DEF ReadyInv
    <3>4. blocks => ~runtime[m].ready
      BY <2>b
    <3> HIDE DEF blocks, arms
    <3>5. cached'[m].valid /\ ~cached'[m].has_received =>
            runtime'[m].ready /\ ~runtime'[m].blocked
      BY <2>r, <3>1, <3>3, <3>4
    <3>6. ReadyInv(m)'
      BY <2>s, <3>5 DEF ReadyInv
    <3> QED BY <2>4, <3>2, <3>6
  <2>7. ASSUME NEW n \in Motors, n # m
        PROVE  (ReadyInv(n) /\ FaultInv(n) /\ LimitsInv(n))'
    <3>1. /\ runtime'[n] = runtime[n] /\ cached'[n] = cached[n]
          /\ wire'[n] = wire[n] /\ faultBits'[n] = faultBits[n]
      BY <1>4, <1>t, <2>7 DEF RxFeedback, TypeOK
    <3> QED BY <1>i, <3>1, OtherMotors
  <2>8. QED
    BY <2>5, <2>6, <2>7 DEF BridgeInv
<1>5. CASE StartDispatch
  BY <1>5, <1>i, OtherMotors DEF StartDispatch, BridgeInv
<1>6. ASSUME NEW m \in Motors, Skip(m)
      PROVE  BridgeInv'
  BY <1>6, <1>i, OtherMotors DEF Skip, BridgeInv
<1>7. ASSUME NEW m \in Motors, NEW written \in BOOLEAN, SendPreHome(m, written)
      PROVE  BridgeInv'
  <2> DEFINE c == AfterSample(cached[m])
             q == SampleHomeTrajectory(cached[m])
  <2>1. cached[m] \in Cached
    BY <1>t
  <2>2. m \in todo /\ cached[m].valid /\ ~cached[m].has_received
    BY <1>7 DEF SendPreHome, Holds
  <2>3. /\ runtime[m].ready /\ ~runtime[m].blocked
        /\ WithinLimits(m, cached[m].traj_start)
        /\ WithinLimits(m, cached[m].traj_goal)
    BY <1>i, <2>2 DEF ReadyInv, LimitsInv
  <2>4. c \in Cached /\ q \in Int /\ WithinLimits(m, q)
    BY <2>1, <2>3, SampleWithin
  <2>5. /\ c.valid = cached[m].valid /\ c.has_received = cached[m].has_received
        /\ c.has_sent = cached[m].has_sent /\ c.cmd_q = cached[m].cmd_q
        /\ c.last_q = cached[m].last_q
        /\ c.traj_start = cached[m].traj_start /\ c.traj_goal = cached[m].traj_goal
    BY <2>1, AfterSampleFields
  <2>6. Send(m, c, q, 0, "pre_home", written)
    BY <1>7 DEF SendPreHome
  <2>7. "pre_home" \in Source /\ 0 \in Int
    BY DEF Source
  <2> HIDE DEF c, q
  <2>8. QED
    BY <2>2, <2>3, <2>4, <2>5, <2>6, <2>7, SendKeepsInv
<1>8. ASSUME NEW m \in Motors, NEW written \in BOOLEAN, SendHome(m, written)
      PROVE  BridgeInv'
  <2> DEFINE e == EnterHome(m)
             c == AfterSample(e)
             q == SampleHomeTrajectory(e)
  <2>1. cached[m] \in Cached /\ runtime[m] \in Runtime
    BY <1>t
  <2>2. /\ m \in todo /\ cached[m].has_received
        /\ runtime[m].ready /\ ~runtime[m].blocked
    BY <1>8 DEF SendHome, Holds
  <2>3. /\ e \in Cached /\ e.valid = cached[m].valid
        /\ e.has_received = cached[m].has_received
        /\ e.has_sent = cached[m].has_sent /\ e.cmd_q = cached[m].cmd_q
        /\ e.last_q = cached[m].last_q
        /\ \/ cached[m].timeout_home /\ e = cached[m]
           \/ WithinLimits(m, e.traj_start) /\ WithinLimits(m, e.traj_goal)
    BY <2>1, EnterHomeType
  <2>4. WithinLimits(m, e.traj_start) /\ WithinLimits(m, e.traj_goal)
    BY <1>i, <2>3 DEF LimitsInv
  <2>5. Send(m, c, q, 0, "home", written)
    BY <1>8 DEF SendHome
  <2>6. "home" \in Source /\ 0 \in Int
    BY DEF Source
  <2> HIDE DEF e
  <2>7. c \in Cached /\ q \in Int /\ WithinLimits(m, q)
    BY <2>3, <2>4, SampleWithin
  <2>8. /\ c.valid = e.valid /\ c.has_received = e.has_received
        /\ c.has_sent = e.has_sent /\ c.cmd_q = e.cmd_q /\ c.last_q = e.last_q
        /\ c.traj_start = e.traj_start /\ c.traj_goal = e.traj_goal
    BY <2>3, AfterSampleFields
  <2> HIDE DEF c, q
  <2>9. QED
    BY <2>2, <2>3, <2>4, <2>5, <2>6, <2>7, <2>8, SendKeepsInv
<1>9. ASSUME NEW m \in Motors, NEW written \in BOOLEAN, SendExternal(m, written)
      PROVE  BridgeInv'
  <2> DEFINE c == LeaveHome(m)
  <2>1. cached[m] \in Cached
    BY <1>t
  <2>2. /\ m \in todo /\ cached[m].has_received
        /\ runtime[m].ready /\ ~runtime[m].blocked
    BY <1>9 DEF SendExternal, Holds
  <2>3. /\ c \in Cached /\ c.timeout_home = FALSE
        /\ c.valid = cached[m].valid /\ c.has_received = cached[m].has_received
        /\ c.has_sent = cached[m].has_sent /\ c.cmd_q = cached[m].cmd_q
        /\ c.last_q = cached[m].last_q
    BY <2>1, LeaveHomeType
  <2>4. /\ cached[m].cmd_q \in Int /\ cached[m].cmd_tau \in Int
        /\ WithinLimits(m, cached[m].cmd_q)
    BY <1>i, <2>1, <2>2 DEF LimitsInv, Cached
  <2>5. Send(m, c, cached[m].cmd_q, cached[m].cmd_tau, "external", written)
    BY <1>9 DEF SendExternal
  <2>6. "external" \in Source
    BY DEF Source
  <2> HIDE DEF c
  <2>7. QED
    BY <2>2, <2>3, <2>4, <2>5, <2>6, SendKeepsInv
<1>10. CASE Tick
  <2> SUFFICES ASSUME NEW n \in Motors
               PROVE  (ReadyInv(n) /\ FaultInv(n) /\ LimitsInv(n))'
    BY DEF BridgeInv
  <2>1. runtime' = runtime /\ faultBits' = faultBits
    BY <1>10 DEF Tick
  <2>2. cached[n] \in Cached /\ wire[n] \in Wire
    BY <1>t
  <2>3. cached'[n] = AgedCache(cached[n]) /\ wire'[n] = AgedWire(wire[n])
    BY <1>10 DEF Tick
  <2>4. /\ cached'[n].valid = cached[n].valid
        /\ cached'[n].has_received = cached[n].has_received
        /\ cached'[n].has_sent = cached[n].has_sent
        /\ cached'[n].timeout_home = cached[n].timeout_home
    BY <2>2, <2>3 DEF AgedCache, Cached
  <2>5. /\ cached'[n].cmd_q = cached[n].cmd_q
        /\ cached'[n].last_q = cached[n].last_q
        /\ cached'[n].traj_start = cached[n].traj_start
        /\ cached'[n].traj_goal = cached[n].traj_goal
    BY <2>2, <2>3 DEF AgedCache, Cached
  <2>6. /\ wire'[n].source = wire[n].source /\ wire'[n].q = wire[n].q
        /\ wire'[n].applied_q = wire[n].applied_q
    BY <2>2, <2>3 DEF AgedWire, Wire
  <2>7. LimitsInv(n)'
    BY <1>i, <2>4, <2>5, <2>6 DEF LimitsInv, WithinLimits
  <2>8. ReadyInv(n)' /\ FaultInv(n)'
    BY <1>i, <2>1, <2>4, <2>6 DEF ReadyInv, FaultInv
  <2>9. QED
    BY <2>7, <2>8
<1>11. CASE UNCHANGED vars
  BY <1>11, <1>i, OtherMotors DEF vars, BridgeInv
<1>12. QED
  BY <1>1, <1>2, <1>3, <1>4, <1>5, <1>6, <1>7, <1>8, <1>9, <1>10, <1>11 DEF Next

LEMMA InvCorrect == Spec => []BridgeInv
BY TypeCorrect, InvInit, InvStep, PTL DEF Spec

\* No Type01 frame goes to a motor id that was not enabled by this process and
\* then seen in run mode, or that came up outside its joint limits.
THEOREM ReadyBeforeFrames == Spec => []NothingBeforeReady
<1>1. BridgeInv => NothingBeforeReady
  BY DEF BridgeInv, ReadyInv, NothingBeforeReady
<1>2. QED
  BY <1>1, InvCorrect, PTL

\* The fault shutdown of every motor follows the fault word of its last
\* feedback.
THEOREM FaultShutdownCorrect == Spec => []FaultShutdownMirrorsBits
<1>1. BridgeInv => FaultShutdownMirrorsBits
  BY DEF BridgeInv, FaultInv, FaultShutdownMirrorsBits
<1>2. QED
  BY <1>1, InvCorrect, PTL

\* What is published as applied is what the encoder put on the bus: no frame
\* ever needs the encoder's clamp to the joint limits.
THEOREM AppliedCorrect == Spec => []AppliedIsWhatWasSent
<1>1. BridgeInv => AppliedIsWhatWasSent
  BY DEF BridgeInv, LimitsInv, AppliedIsWhatWasSent
<1>2. QED
  BY <1>1, InvCorrect, PTL

-----------------------------------------------------------------------------
(* The wire *)

\* A value that is slewed from last moves no further from where out was than
\* last has been plus what the limiter allows for the time since last.
LEMMA SlewReaches ==
  ASSUME NEW c \in Cached, NEW rate \in Nat, NEW last \in Int, NEW req \in Int,
         NEW out \in Int, NEW age \in Nat, rate > 0, c.has_sent, c.sent_age <= age,
         Abs(last - out) <= rate * (age - c.sent_age)
  PROVE  Abs(Slewed(c, rate, last, req) - out) <= rate * age
<1> DEFINE dt == MinOf(c.sent_age, DtCap)
           reach == rate * dt
           room == rate * (age - c.sent_age)
<1>1. c.sent_age \in Nat /\ dt \in Nat /\ dt <= c.sent_age
  BY TimesAssumption DEF Cached, MinOf
<1>2. \A r, s, d \in Nat : d <= s => r * d \in Nat /\ r * d <= r * s
  OBVIOUS
<1>3. \A r, s, a \in Nat : s <= a => r * (a - s) \in Nat /\ r * (a - s) + r * s = r * a
  OBVIOUS
<1> HIDE DEF dt
<1>4. reach \in Nat /\ reach <= rate * c.sent_age
  BY <1>1, <1>2
<1>5. room \in Nat /\ room + rate * c.sent_age = rate * age
  BY <1>1, <1>3
<1>6. rate * c.sent_age \in Nat /\ rate * age \in Nat
  BY <1>1, <1>2
<1>7. Slewed(c, rate, last, req) = Clamp(req, last - reach, last + reach)
  BY DEF Slewed, dt
<1>8. Abs(last - out) <= room
  OBVIOUS
<1> HIDE DEF reach, room
<1>9. last - reach <= Slewed(c, rate, last, req) /\ Slewed(c, rate, last, req) <= last + reach
      /\ Slewed(c, rate, last, req) \in Int
  BY <1>4, <1>7 DEF Clamp
<1> DEFINE v == Slewed(c, rate, last, req)  ra == rate * age  rs == rate * c.sent_age
<1> HIDE DEF v, ra, rs
<1>10. v \in Int /\ last - reach <= v /\ v <= last + reach
  BY <1>9 DEF v
<1>11. reach <= rs /\ room + rs = ra /\ rs \in Nat /\ ra \in Nat
  BY <1>4, <1>5, <1>6 DEF ra, rs
<1>12. Abs(v - out) <= ra
  BY <1>4, <1>5, <1>8, <1>10, <1>11 DEF Abs
<1>13. QED
  BY <1>12 DEF v, ra

\* Two values within one window are no further apart than it is wide.
LEMMA WindowWidth ==
  ASSUME NEW a \in Int, NEW b \in Int, NEW lo \in Int, NEW hi \in Int,
         lo <= a, a <= hi, lo <= b, b <= hi
  PROVE  Abs(a - b) <= hi - lo
BY DEF Abs

\* What sending one frame does to ages, torques and the rest of the frame.
LEMMA SendTimes ==
  ASSUME TypeOK, NEW m \in Motors, m \in todo, NEW c \in Cached,
         NEW q_des \in Int, NEW tau_ff \in Int, NEW source \in Source,
         NEW written \in BOOLEAN, Send(m, c, q_des, tau_ff, source, written)
  PROVE  /\ Slewed(c, MaxTauRate[m], c.last_tau, tau_ff) \in Int
         /\ cached'[m].has_sent /\ cached'[m].sent_age = 0
         /\ cached'[m].last_tau = Slewed(c, MaxTauRate[m], c.last_tau, tau_ff)
         /\ cached'[m].cmd_tau = c.cmd_tau
         /\ cached'[m].traj_active = c.traj_active
         /\ cached'[m].traj_age = c.traj_age
         /\ wire'[m].tried = source
         /\ \/ /\ wire'[m].source = source /\ wire'[m].age = 0
               /\ wire'[m].tau = cached'[m].last_tau
               /\ wire'[m].applied_q = cached'[m].last_q
            \/ /\ wire'[m].source = wire[m].source /\ wire'[m].tau = wire[m].tau
               /\ wire'[m].age = wire[m].age /\ wire'[m].q = wire[m].q
<1> DEFINE q   == Slewed(c, MaxQdot[m], c.last_q, q_des)
           tau == Slewed(c, MaxTauRate[m], c.last_tau, tau_ff)
           sent(a, b) == [c EXCEPT !.has_sent = TRUE, !.sent_age = 0,
                                   !.last_q = a, !.last_tau = b]
           frame(a, b, d) == [tried |-> source, source |-> source, q |-> a,
                              applied_q |-> b, tau |-> d, age |-> 0]
           lost(w) == [w EXCEPT !.tried = source]
<1>1. c.last_q \in Int /\ c.last_tau \in Int
  BY DEF Cached
<1>2. q \in Int /\ tau \in Int
  <2>1. MaxQdot[m] \in Nat /\ MaxTauRate[m] \in Nat
    BY RatesAssumption
  <2> QED BY <1>1, <2>1, SlewedBetween
<1>3. /\ cached \in [Motors -> Cached] /\ wire \in [Motors -> Wire]
      /\ wire[m] \in Wire
  BY DEF TypeOK
<1>5. /\ cached' = [cached EXCEPT ![m] = sent(q, tau)]
      /\ wire' = [wire EXCEPT ![m] = IF written THEN frame(ClampQ(m, q), q, tau)
                                     ELSE lost(wire[m])]
  BY DEF Send
<1>7. \A a, b \in Int :
        /\ sent(a, b).has_sent = TRUE /\ sent(a, b).sent_age = 0
        /\ sent(a, b).last_q = a
        /\ sent(a, b).last_tau = b /\ sent(a, b).cmd_tau = c.cmd_tau
        /\ sent(a, b).traj_active = c.traj_active
        /\ sent(a, b).traj_age = c.traj_age
  BY DEF Cached
<1>8. \A a, b, d : /\ frame(a, b, d).tried = source /\ frame(a, b, d).source = source
                   /\ frame(a, b, d).tau = d /\ frame(a, b, d).age = 0
                   /\ frame(a, b, d).applied_q = b
  OBVIOUS
<1>9. \A w \in Wire : /\ lost(w).tried = source /\ lost(w).source = w.source
                      /\ lost(w).tau = w.tau /\ lost(w).age = w.age /\ lost(w).q = w.q
  BY DEF Wire
<1> HIDE DEF q, tau, sent, frame, lost
<1>10. cached'[m] = sent(q, tau)
  BY <1>3, <1>5
<1>11. wire'[m] = IF written THEN frame(ClampQ(m, q), q, tau) ELSE lost(wire[m])
  BY <1>3, <1>5
<1>12. /\ cached'[m].has_sent = TRUE /\ cached'[m].sent_age = 0
       /\ cached'[m].last_tau = tau /\ cached'[m].cmd_tau = c.cmd_tau
       /\ cached'[m].traj_active = c.traj_active
       /\ cached'[m].traj_age = c.traj_age /\ cached'[m].last_q = q
  BY <1>2, <1>7, <1>10
<1>13. CASE written
  BY <1>2, <1>8, <1>11, <1>12, <1>13 DEF tau
<1>14. CASE ~written
  BY <1>2, <1>3, <1>9, <1>11, <1>12, <1>14 DEF tau
<1>15. QED
  BY <1>13, <1>14

\* The properties of the wire, for one step of one motor.
Moves(m) ==
  /\ wire[m].source # "none" /\ wire'[m].source # "none" /\ MaxQdot[m] > 0 =>
       Abs(wire'[m].q - wire[m].q) <= MaxQdot[m] * wire[m].age
  /\ wire[m].source # "none" /\ wire'[m].source # "none" /\ MaxTauRate[m] > 0 =>
       Abs(wire'[m].tau - wire[m].tau) <= MaxTauRate[m] * wire[m].age
  /\ wire[m].tried = "external" /\ wire'[m].tried = "home" =>
       cached'[m].traj_start = ClampQ(m, runtime[m].q) /\ cached'[m].traj_age = 0
  /\ m \in Gripper /\ wire[m].source = "pre_home" /\ wire'[m].source = "pre_home" =>
       wire'[m].q = wire[m].q

\* No frame, or the same one: nothing has moved.
LEMMA StillMoves ==
  ASSUME TypeOK, NEW m \in Motors,
         \/ wire'[m] = NoFrame
         \/ /\ wire'[m].q = wire[m].q /\ wire'[m].tau = wire[m].tau
            /\ wire'[m].tried = wire[m].tried
  PROVE  Moves(m)
<1>1. wire[m] \in Wire /\ MaxQdot[m] \in Nat /\ MaxTauRate[m] \in Nat
  BY RatesAssumption DEF TypeOK
<1>2. wire[m].q \in Int /\ wire[m].tau \in Int /\ wire[m].age \in Nat
  BY <1>1 DEF Wire
<1>3. \A r, a \in Nat : 0 <= r * a
  OBVIOUS
<1>4. 0 <= MaxQdot[m] * wire[m].age /\ 0 <= MaxTauRate[m] * wire[m].age
  BY <1>1, <1>2, <1>3
<1>5. Abs(wire[m].q - wire[m].q) = 0 /\ Abs(wire[m].tau - wire[m].tau) = 0
  BY <1>2 DEF Abs
<1>6. CASE wire'[m] = NoFrame
  BY <1>6 DEF NoFrame, Moves
<1>7. CASE /\ wire'[m].q = wire[m].q /\ wire'[m].tau = wire[m].tau
           /\ wire'[m].tried = wire[m].tried
  BY <1>4, <1>5, <1>7 DEF Moves
<1>8. QED
  BY <1>6, <1>7

\* An action that leaves everything about a motor alone keeps its invariant.
LEMMA OtherWires ==
  ASSUME TypeOK, NEW n \in Motors, WireInv(n),
         runtime'[n] = runtime[n], cached'[n] = cached[n], wire'[n] = wire[n]
  PROVE  WireInv(n)' /\ Moves(n)
<1>1. WireInv(n)'
  BY DEF WireInv, EpisodeInv, HeldInv, TorqueInv, SlewInv, WithinLimits
<1>2. QED
  BY <1>1, StillMoves

\* The entry a frame is sent from has moved no further from the last frame
\* written than the limiter allows, also when the age no longer counts.
LEMMA SendIsSlewed ==
  ASSUME TypeOK, BridgeInv, BridgeInv', NEW m \in Motors, m \in todo, WireInv(m),
         NEW c \in Cached, NEW q_des \in Int, NEW tau_ff \in Int, NEW source \in Source,
         NEW written \in BOOLEAN, Send(m, c, q_des, tau_ff, source, written),
         c.has_sent = cached[m].has_sent, c.sent_age = cached[m].sent_age,
         c.last_q = cached[m].last_q, c.last_tau = cached[m].last_tau,
         Abs(tau_ff) <= TauLimit[m]
  PROVE  /\ Abs(cached'[m].last_tau) <= TauLimit[m]
         /\ wire[m].source # "none" =>
              /\ MaxQdot[m] > 0 => Abs(cached'[m].last_q - wire[m].q) <= MaxQdot[m] * wire[m].age
              /\ MaxTauRate[m] > 0 =>
                   Abs(cached'[m].last_tau - wire[m].tau) <= MaxTauRate[m] * wire[m].age
<1> DEFINE q   == Slewed(c, MaxQdot[m], c.last_q, q_des)
           tau == Slewed(c, MaxTauRate[m], c.last_tau, tau_ff)
<1>1. /\ wire[m] \in Wire /\ cached[m] \in Cached
      /\ MaxQdot[m] \in Nat /\ MaxTauRate[m] \in Nat /\ TauLimit[m] \in Nat
      /\ QMin[m] \in Int /\ QMax[m] \in Int /\ WireCap \in Nat
  BY RatesAssumption, LimitsAssumption, TimesAssumption DEF TypeOK
<1>2. /\ wire[m].q \in Int /\ wire[m].tau \in Int /\ wire[m].age \in Nat
      /\ c.last_q \in Int /\ c.last_tau \in Int /\ c.sent_age \in Nat
  BY <1>1 DEF Wire, Cached
<1>3. q \in Int /\ cached'[m].last_q = q /\ cached'[m].has_sent = TRUE
  <2>1. q \in Int /\ cached'[m].last_q = q
    BY SendEffect
  <2>2. cached'[m].has_sent = TRUE
    BY SendTimes, SendEffect DEF Cached
  <2> QED BY <2>1, <2>2
<1>4. tau \in Int /\ cached'[m].last_tau = tau
  BY SendTimes
<1>5. WithinLimits(m, cached'[m].last_q)
  <2>1. LimitsInv(m)'
    BY DEF BridgeInv
  <2> QED BY <1>3, <2>1 DEF LimitsInv, WithinLimits
<1>6. Abs(tau) <= TauLimit[m]
  <2>1. c.has_sent => Abs(c.last_tau) <= TauLimit[m]
    BY DEF WireInv, TorqueInv
  <2>2. -TauLimit[m] <= tau_ff /\ tau_ff <= TauLimit[m]
    BY <1>1 DEF Abs
  <2>3. c.has_sent => -TauLimit[m] <= c.last_tau /\ c.last_tau <= TauLimit[m]
    BY <1>1, <1>2, <2>1 DEF Abs
  <2>4. -TauLimit[m] <= tau /\ tau <= TauLimit[m]
    <3>1. \A lo, hi \in Int :
            /\ lo <= tau_ff /\ tau_ff <= hi
            /\ c.has_sent => lo <= c.last_tau /\ c.last_tau <= hi
            => lo <= tau /\ tau <= hi
      BY <1>1, <1>2, SlewedBetween
    <3>2. -TauLimit[m] \in Int /\ TauLimit[m] \in Int
      BY <1>1
    <3> HIDE DEF tau
    <3> QED BY <2>2, <2>3, <3>1, <3>2
  <2> HIDE DEF tau
  <2> QED BY <1>1, <1>4, <2>4 DEF Abs
<1>7. ASSUME wire[m].source # "none", wire[m].age >= WireCap
      PROVE  /\ MaxQdot[m] > 0 => Abs(q - wire[m].q) <= MaxQdot[m] * wire[m].age
             /\ MaxTauRate[m] > 0 => Abs(tau - wire[m].tau) <= MaxTauRate[m] * wire[m].age
  <2>1. \A r, s, a \in Nat : s <= a => r * s \in Nat /\ r * a \in Nat /\ r * s <= r * a
    OBVIOUS
  <2>2. /\ MaxQdot[m] * WireCap <= MaxQdot[m] * wire[m].age
        /\ MaxTauRate[m] * WireCap <= MaxTauRate[m] * wire[m].age
        /\ MaxQdot[m] * WireCap \in Nat /\ MaxTauRate[m] * WireCap \in Nat
        /\ MaxQdot[m] * wire[m].age \in Nat /\ MaxTauRate[m] * wire[m].age \in Nat
    BY <1>1, <1>2, <1>7, <2>1
  <2>3. WithinLimits(m, wire[m].q) /\ Abs(wire[m].tau) <= TauLimit[m]
    BY <1>7 DEF WireInv, SlewInv, TorqueInv
  <2> HIDE DEF q, tau
  <2>4. Abs(q - wire[m].q) <= QMax[m] - QMin[m]
    BY <1>1, <1>2, <1>3, <1>5, <2>3, WindowWidth DEF WithinLimits
  <2>5. Abs(tau - wire[m].tau) <= 2 * TauLimit[m]
    BY <1>1, <1>2, <1>4, <1>6, <2>3 DEF Abs
  <2>6. Abs(q - wire[m].q) \in Int /\ Abs(tau - wire[m].tau) \in Int
    BY <1>2, <1>3, <1>4 DEF Abs
  <2> DEFINE A == MaxQdot[m] * WireCap  B == MaxTauRate[m] * WireCap
             D == MaxQdot[m] * wire[m].age  E == MaxTauRate[m] * wire[m].age
             F == Abs(q - wire[m].q)  G == Abs(tau - wire[m].tau)
  <2>7. /\ MaxQdot[m] > 0 => QMax[m] - QMin[m] <= A
        /\ MaxTauRate[m] > 0 => 2 * TauLimit[m] <= B
    BY WireCapAssumption
  <2>8. /\ A \in Nat /\ B \in Nat /\ D \in Nat /\ E \in Nat /\ F \in Int /\ G \in Int
        /\ A <= D /\ B <= E /\ F <= QMax[m] - QMin[m] /\ G <= 2 * TauLimit[m]
    BY <2>2, <2>4, <2>5, <2>6
  <2> HIDE DEF A, B, D, E, F, G
  <2>9. (MaxQdot[m] > 0 => F <= D) /\ (MaxTauRate[m] > 0 => G <= E)
    BY <1>1, <2>7, <2>8
  <2> QED BY <2>9 DEF D, E, F, G
<1>8. ASSUME wire[m].source # "none", ~(wire[m].age >= WireCap)
      PROVE  /\ MaxQdot[m] > 0 => Abs(q - wire[m].q) <= MaxQdot[m] * wire[m].age
             /\ MaxTauRate[m] > 0 => Abs(tau - wire[m].tau) <= MaxTauRate[m] * wire[m].age
  <2>1. /\ c.has_sent /\ c.sent_age <= wire[m].age
        /\ MaxQdot[m] > 0 =>
             Abs(c.last_q - wire[m].q) <= MaxQdot[m] * (wire[m].age - c.sent_age)
        /\ MaxTauRate[m] > 0 =>
             Abs(c.last_tau - wire[m].tau) <= MaxTauRate[m] * (wire[m].age - c.sent_age)
    BY <1>8 DEF WireInv, SlewInv
  <2>2. MaxQdot[m] > 0 => Abs(q - wire[m].q) <= MaxQdot[m] * wire[m].age
    BY <1>1, <1>2, <2>1, SlewReaches
  <2>3. MaxTauRate[m] > 0 => Abs(tau - wire[m].tau) <= MaxTauRate[m] * wire[m].age
    BY <1>1, <1>2, <2>1, SlewReaches
  <2> QED BY <2>2, <2>3
<1> HIDE DEF q, tau
<1>9. QED
  BY <1>3, <1>4, <1>6, <1>7, <1>8

\* A slew limiter that is where it should be stays there.
LEMMA SlewedStays ==
  ASSUME NEW c \in Cached, NEW rate \in Nat, NEW last \in Int, NEW req \in Int,
         c.has_sent => last = req
  PROVE  Slewed(c, rate, last, req) = req
<1>1. \A lo, hi \in Int :
        /\ lo <= req /\ req <= hi
        /\ c.has_sent => lo <= last /\ last <= hi
        => lo <= Slewed(c, rate, last, req) /\ Slewed(c, rate, last, req) <= hi
  BY SlewedBetween
<1>2. Slewed(c, rate, last, req) \in Int
  BY SlewedBetween
<1>3. req <= Slewed(c, rate, last, req) /\ Slewed(c, rate, last, req) <= req
  BY <1>1
<1>4. QED
  BY <1>2, <1>3

\* Sending one frame, from an entry that differs from the cached one in its
\* trajectory and episode only, keeps the invariant and its properties.
LEMMA SendKeepsWire ==
  ASSUME TypeOK, BridgeInv, BridgeInv', WiresInv, NEW m \in Motors, m \in todo,
         NEW c \in Cached, NEW q_des \in Int, NEW tau_ff \in Int, NEW source \in Source,
         NEW written \in BOOLEAN, Send(m, c, q_des, tau_ff, source, written),
         c.has_sent = cached[m].has_sent, c.sent_age = cached[m].sent_age,
         c.last_q = cached[m].last_q, c.last_tau = cached[m].last_tau,
         c.has_received = cached[m].has_received, c.cmd_tau = cached[m].cmd_tau,
         cached[m].valid, source # "none", Abs(tau_ff) <= TauLimit[m],
         source = "external" => ~c.timeout_home /\ runtime[m].ready,
         source = "pre_home" => ~c.has_received,
         m \in Gripper /\ ~c.has_received =>
           ~c.traj_active /\ q_des = c.traj_goal /\ c.traj_goal = cached[m].traj_goal,
         source = "home" /\ wire[m].tried = "external" =>
           c.traj_start = ClampQ(m, runtime[m].q) /\ c.traj_age = 0
  PROVE  WiresInv' /\ \A n \in Motors : Moves(n)
<1>i. /\ WireInv(m) /\ EpisodeInv(m) /\ HeldInv(m) /\ TorqueInv(m) /\ SlewInv(m)
      /\ \A n \in Motors : WireInv(n)
  BY DEF WiresInv, WireInv
<1>1. /\ wire[m] \in Wire /\ cached[m] \in Cached
      /\ MaxQdot[m] \in Nat /\ MaxTauRate[m] \in Nat /\ TauLimit[m] \in Nat
      /\ QMin[m] \in Int /\ QMax[m] \in Int
  BY RatesAssumption, LimitsAssumption DEF TypeOK
<1>2. /\ wire[m].q \in Int /\ wire[m].tau \in Int /\ wire[m].age \in Nat
      /\ c.last_q \in Int /\ c.last_tau \in Int
  BY <1>1 DEF Wire, Cached
<1>3. /\ cached' = [cached EXCEPT ![m] = cached'[m]]
      /\ cached'[m].has_received = c.has_received
      /\ cached'[m].timeout_home = c.timeout_home
      /\ cached'[m].traj_start = c.traj_start
      /\ cached'[m].traj_goal = c.traj_goal
      /\ cached'[m].last_q = Slewed(c, MaxQdot[m], c.last_q, q_des)
      /\ wire' = [wire EXCEPT ![m] = wire'[m]]
  <2> DEFINE q == Slewed(c, MaxQdot[m], c.last_q, q_des)
  <2>1. /\ cached' = [cached EXCEPT ![m] = cached'[m]]
        /\ wire' = [wire EXCEPT ![m] = wire'[m]]
    BY SendEffect
  <2>2. cached'[m].traj_start = c.traj_start /\ cached'[m].traj_goal = c.traj_goal
    BY SendEffect
  <2>3. cached'[m].has_received = c.has_received
    BY SendEffect DEF Cached
  <2>4. cached'[m].timeout_home = c.timeout_home
    BY SendEffect DEF Cached
  <2>5. cached'[m].last_q = q
    BY SendEffect
  <2> HIDE DEF q
  <2> QED BY <2>1, <2>2, <2>3, <2>4, <2>5 DEF q
<1>4. cached'[m].last_q \in Int /\ cached'[m].last_tau \in Int
  BY SendEffect, SendTimes
<1>5. /\ cached'[m].has_sent /\ cached'[m].sent_age = 0
      /\ cached'[m].cmd_tau = c.cmd_tau
      /\ cached'[m].traj_active = c.traj_active
      /\ cached'[m].traj_age = c.traj_age
      /\ wire'[m].tried = source
  BY SendTimes
<1>6. \/ /\ wire'[m].source = source /\ wire'[m].age = 0
         /\ wire'[m].tau = cached'[m].last_tau
         /\ wire'[m].applied_q = cached'[m].last_q
      \/ /\ wire'[m].source = wire[m].source /\ wire'[m].tau = wire[m].tau
         /\ wire'[m].age = wire[m].age /\ wire'[m].q = wire[m].q
  BY SendTimes
<1>7. /\ wire'[m].applied_q = wire'[m].q
      /\ WithinLimits(m, cached'[m].last_q)
  BY <1>5 DEF BridgeInv, LimitsInv, WithinLimits
<1>8. /\ Abs(cached'[m].last_tau) <= TauLimit[m]
      /\ wire[m].source # "none" =>
           /\ MaxQdot[m] > 0 => Abs(cached'[m].last_q - wire[m].q) <= MaxQdot[m] * wire[m].age
           /\ MaxTauRate[m] > 0 =>
                Abs(cached'[m].last_tau - wire[m].tau) <= MaxTauRate[m] * wire[m].age
  BY <1>i, SendIsSlewed
<1>9. runtime' = runtime
  BY DEF Send
<1>10. m \in Gripper /\ ~c.has_received => cached'[m].last_q = c.traj_goal
  <2> SUFFICES ASSUME m \in Gripper, ~c.has_received
               PROVE  cached'[m].last_q = c.traj_goal
    OBVIOUS
  <2>1. c.has_sent => c.last_q = q_des
    BY <1>i DEF HeldInv
  <2>2. Slewed(c, MaxQdot[m], c.last_q, q_des) = q_des
    BY <1>1, <1>2, <2>1, SlewedStays
  <2> QED BY <1>3, <2>2
<1>e. EpisodeInv(m)'
  BY <1>i, <1>3, <1>5, <1>9 DEF EpisodeInv
<1>w. ASSUME wire'[m].source = source, wire'[m].age = 0,
             wire'[m].tau = cached'[m].last_tau,
             wire'[m].applied_q = cached'[m].last_q
      PROVE  WireInv(m)' /\ Moves(m)
  <2>1. wire'[m].q = cached'[m].last_q
    BY <1>7, <1>w
  <2>2. HeldInv(m)'
    BY <1>3, <1>5, <1>10, <2>1 DEF HeldInv
  <2>3. TorqueInv(m)'
    BY <1>i, <1>3, <1>5, <1>8, <1>w DEF TorqueInv
  <2>4. SlewInv(m)'
    <3>1. /\ Abs(cached'[m].last_q - wire'[m].q) = 0
          /\ Abs(cached'[m].last_tau - wire'[m].tau) = 0
      BY <1>4, <1>w, <2>1 DEF Abs
    <3>2. /\ MaxQdot[m] * (wire'[m].age - cached'[m].sent_age) = 0
          /\ MaxTauRate[m] * (wire'[m].age - cached'[m].sent_age) = 0
      BY <1>1, <1>5, <1>w
    <3>3. WithinLimits(m, wire'[m].q) /\ cached'[m].sent_age <= wire'[m].age
      BY <1>5, <1>7, <1>w, <2>1
    <3> QED BY <1>5, <3>1, <3>2, <3>3 DEF SlewInv, WithinLimits
  <2>5. Moves(m)
    <3>1. wire[m].source # "none" =>
            /\ MaxQdot[m] > 0 => Abs(wire'[m].q - wire[m].q) <= MaxQdot[m] * wire[m].age
            /\ MaxTauRate[m] > 0 =>
                 Abs(wire'[m].tau - wire[m].tau) <= MaxTauRate[m] * wire[m].age
      BY <1>8, <1>w, <2>1
    <3>2. wire[m].tried = "external" /\ wire'[m].tried = "home" =>
            cached'[m].traj_start = ClampQ(m, runtime[m].q) /\ cached'[m].traj_age = 0
      BY <1>3, <1>5
    <3>3. m \in Gripper /\ wire[m].source = "pre_home" /\ wire'[m].source = "pre_home" =>
            wire'[m].q = wire[m].q
      BY <1>i, <1>10, <1>w, <2>1 DEF HeldInv
    <3> QED BY <3>1, <3>2, <3>3 DEF Moves
  <2>6. QED
    BY <1>e, <2>2, <2>3, <2>4, <2>5 DEF WireInv
<1>l. ASSUME wire'[m].source = wire[m].source, wire'[m].tau = wire[m].tau,
             wire'[m].age = wire[m].age, wire'[m].q = wire[m].q
      PROVE  WireInv(m)' /\ Moves(m)
  <2>2. HeldInv(m)'
    BY <1>i, <1>3, <1>5, <1>10, <1>l DEF HeldInv
  <2>3. TorqueInv(m)'
    BY <1>i, <1>3, <1>5, <1>8, <1>l DEF TorqueInv
  <2>4. SlewInv(m)'
    <3>1. /\ wire'[m].age - cached'[m].sent_age = wire[m].age
          /\ cached'[m].sent_age <= wire'[m].age
      BY <1>2, <1>5, <1>l
    <3>2. wire[m].source # "none" => WithinLimits(m, wire[m].q)
      BY <1>i DEF SlewInv
    <3> QED BY <1>5, <1>8, <1>l, <3>1, <3>2 DEF SlewInv, WithinLimits
  <2>5. Moves(m)
    <3>1. Abs(wire'[m].q - wire[m].q) = 0 /\ Abs(wire'[m].tau - wire[m].tau) = 0
      BY <1>2, <1>l DEF Abs
    <3>2. 0 <= MaxQdot[m] * wire[m].age /\ 0 <= MaxTauRate[m] * wire[m].age
      <4>1. \A r, a \in Nat : 0 <= r * a
        OBVIOUS
      <4> QED BY <1>1, <1>2, <4>1
    <3>3. wire[m].tried = "external" /\ wire'[m].tried = "home" =>
            cached'[m].traj_start = ClampQ(m, runtime[m].q) /\ cached'[m].traj_age = 0
      BY <1>3, <1>5
    <3> QED BY <1>l, <3>1, <3>2, <3>3 DEF Moves
  <2>6. QED
    BY <1>e, <2>2, <2>3, <2>4, <2>5 DEF WireInv
<1>n. ASSUME NEW n \in Motors, n # m
      PROVE  WireInv(n)' /\ Moves(n)
  <2>1. cached'[n] = cached[n] /\ wire'[n] = wire[n] /\ runtime'[n] = runtime[n]
    BY <1>3, <1>9, <1>n DEF TypeOK
  <2> QED BY <1>i, <2>1, OtherWires
<1>11. WireInv(m)' /\ Moves(m)
  BY <1>6, <1>w, <1>l
<1>12. \A n \in Motors : WireInv(n)' /\ Moves(n)
  BY <1>n, <1>11
<1>13. QED
  BY <1>12 DEF WiresInv

\* What the helpers on cache entries leave alone, and where a trajectory starts.
LEMMA AfterSampleKeeps ==
  ASSUME NEW c \in Cached
  PROVE  LET d == AfterSample(c) IN
         /\ d.sent_age = c.sent_age /\ d.last_tau = c.last_tau
         /\ d.cmd_tau = c.cmd_tau /\ d.traj_age = c.traj_age
         /\ ~c.traj_active => ~d.traj_active
BY DEF AfterSample, Cached, TrajectoryOver

LEMMA LeaveHomeKeeps ==
  ASSUME NEW m \in Motors, cached[m] \in Cached
  PROVE  LET d == LeaveHome(m) IN
         /\ d.sent_age = cached[m].sent_age /\ d.last_tau = cached[m].last_tau
         /\ d.cmd_tau = cached[m].cmd_tau
BY DEF LeaveHome, Cached

LEMMA EnterHomeKeeps ==
  ASSUME NEW m \in Motors, cached[m] \in Cached, runtime[m] \in Runtime
  PROVE  LET d == EnterHome(m) IN
         /\ d.sent_age = cached[m].sent_age /\ d.last_tau = cached[m].last_tau
         /\ d.cmd_tau = cached[m].cmd_tau
         /\ ~cached[m].timeout_home /\ runtime[m].has_state =>
              d.traj_start = ClampQ(m, runtime[m].q) /\ d.traj_age = 0
<1> DEFINE with(s, g) == [cached[m] EXCEPT !.traj_start = s, !.traj_goal = g,
                                           !.traj_age = 0, !.traj_active = g # s]
           flag(e) == [e EXCEPT !.timeout_home = TRUE]
           hold(p) == [HoldAt(cached[m], p) EXCEPT !.traj_age = 0]
           start == ClampQ(m, runtime[m].q)
           goal == AlignedHome(m, start)
           home == ClampQ(m, HomeQ[m])
<1>1. \A s, g : LET d == flag(with(s, g)) IN
        /\ d.sent_age = cached[m].sent_age /\ d.last_tau = cached[m].last_tau
        /\ d.cmd_tau = cached[m].cmd_tau
        /\ d.traj_start = s /\ d.traj_age = 0
  BY DEF Cached
<1>2. \A p : LET d == flag(hold(p)) IN
        /\ d.sent_age = cached[m].sent_age /\ d.last_tau = cached[m].last_tau
        /\ d.cmd_tau = cached[m].cmd_tau
  BY DEF Cached, HoldAt
<1>3. EnterHome(m) = IF cached[m].timeout_home THEN cached[m]
                     ELSE IF runtime[m].has_state THEN flag(with(start, goal))
                     ELSE flag(hold(home))
  BY DEF EnterHome, StartHomeTrajectory
<1> HIDE DEF with, flag, hold, goal, home
<1>4. QED
  BY <1>1, <1>2, <1>3

LEMMA ArmHomeStreamHolds ==
  ASSUME NEW m \in Gripper, cached[m] \in Cached, NEW q \in Int
  PROVE  ~ArmHomeStream(m, q).traj_active
BY DEF ArmHomeStream, HoldAt, Cached

LEMMA WireInit == Init => WiresInv
<1> SUFFICES ASSUME Init, NEW m \in Motors PROVE WireInv(m)
  BY DEF WiresInv
<1>1. /\ runtime[m] = NewRuntime /\ cached[m] = NewCached /\ wire[m] = NoFrame
      /\ TauLimit[m] \in Nat
  BY RatesAssumption DEF Init
<1>2. QED
  BY <1>1 DEF WireInv, EpisodeInv, HeldInv, TorqueInv, SlewInv, NewRuntime,
              NewCached, NoFrame, Abs

\* Time passing: what was sent last and what was written last grow old together.
LEMMA TickKeepsWire ==
  ASSUME TypeOK, WiresInv, Tick, NEW n \in Motors
  PROVE  WireInv(n)' /\ Moves(n)
<1>i. EpisodeInv(n) /\ HeldInv(n) /\ TorqueInv(n) /\ SlewInv(n)
  BY DEF WiresInv, WireInv
<1>1. runtime' = runtime
  BY DEF Tick
<1>2. /\ cached[n] \in Cached /\ wire[n] \in Wire
      /\ MaxQdot[n] \in Nat /\ MaxTauRate[n] \in Nat /\ WireCap \in Nat
  BY RatesAssumption, TimesAssumption DEF TypeOK
<1>3. cached'[n] = AgedCache(cached[n]) /\ wire'[n] = AgedWire(wire[n])
  BY DEF Tick
<1>4. /\ cached'[n].valid = cached[n].valid
      /\ cached'[n].has_received = cached[n].has_received
      /\ cached'[n].has_sent = cached[n].has_sent
      /\ cached'[n].timeout_home = cached[n].timeout_home
      /\ cached'[n].traj_active = cached[n].traj_active
  BY <1>2, <1>3 DEF AgedCache, Cached
<1>5. /\ cached'[n].cmd_tau = cached[n].cmd_tau
      /\ cached'[n].last_q = cached[n].last_q
      /\ cached'[n].last_tau = cached[n].last_tau
      /\ cached'[n].traj_goal = cached[n].traj_goal
  BY <1>2, <1>3 DEF AgedCache, Cached
<1>6. /\ wire'[n].source = wire[n].source /\ wire'[n].q = wire[n].q
      /\ wire'[n].tried = wire[n].tried /\ wire'[n].tau = wire[n].tau
  BY <1>2, <1>3 DEF AgedWire, Wire
<1>7. EpisodeInv(n)'
  BY <1>i, <1>1, <1>4, <1>6 DEF EpisodeInv
<1>8. HeldInv(n)'
  BY <1>i, <1>4, <1>5, <1>6 DEF HeldInv
<1>9. TorqueInv(n)'
  BY <1>i, <1>4, <1>5, <1>6 DEF TorqueInv
<1>10. SlewInv(n)'
  <2> SUFFICES ASSUME wire[n].source # "none"
               PROVE  /\ cached'[n].has_sent /\ WithinLimits(n, wire'[n].q)
                      /\ \/ wire'[n].age >= WireCap
                         \/ /\ cached'[n].sent_age <= wire'[n].age
                            /\ MaxQdot[n] > 0 =>
                                 Abs(cached'[n].last_q - wire'[n].q)
                                   <= MaxQdot[n] * (wire'[n].age - cached'[n].sent_age)
                            /\ MaxTauRate[n] > 0 =>
                                 Abs(cached'[n].last_tau - wire'[n].tau)
                                   <= MaxTauRate[n] * (wire'[n].age - cached'[n].sent_age)
    BY <1>6 DEF SlewInv, WithinLimits
  <2>1. cached[n].has_sent /\ WithinLimits(n, wire[n].q)
    BY <1>i DEF SlewInv
  <2>2. /\ wire'[n].age = Older(wire[n].age, WireCap)
        /\ cached'[n].sent_age = Older(cached[n].sent_age, MaxOf(TxPeriod, DtCap))
    BY <1>2, <1>3, <2>1 DEF AgedWire, AgedCache, Wire, Cached
  <2>3. /\ wire[n].age \in Nat /\ cached[n].sent_age \in Nat
        /\ MaxOf(TxPeriod, DtCap) \in Nat
        /\ cached[n].last_q \in Int /\ cached[n].last_tau \in Int
        /\ wire[n].q \in Int /\ wire[n].tau \in Int
    BY <1>2, TimesAssumption DEF Wire, Cached, MaxOf
  <2>4. cached'[n].has_sent /\ WithinLimits(n, wire'[n].q)
    BY <1>4, <1>6, <2>1
  <2>5. CASE wire[n].age >= WireCap
    BY <1>2, <2>2, <2>3, <2>4, <2>5 DEF Older
  <2>6. CASE ~(wire[n].age >= WireCap)
    <3>1. /\ cached[n].sent_age <= wire[n].age
          /\ MaxQdot[n] > 0 =>
               Abs(cached[n].last_q - wire[n].q)
                 <= MaxQdot[n] * (wire[n].age - cached[n].sent_age)
          /\ MaxTauRate[n] > 0 =>
               Abs(cached[n].last_tau - wire[n].tau)
                 <= MaxTauRate[n] * (wire[n].age - cached[n].sent_age)
      BY <1>i, <2>6 DEF SlewInv
    <3> DEFINE before == wire[n].age - cached[n].sent_age
               after == wire'[n].age - cached'[n].sent_age
    <3>2. /\ before \in Nat /\ after \in Nat /\ before <= after
          /\ cached'[n].sent_age <= wire'[n].age
      BY <1>2, <2>2, <2>3, <2>6, <3>1 DEF Older
    <3> HIDE DEF before, after
    <3>3. \A r, a, b \in Nat : a <= b => r * a \in Nat /\ r * b \in Nat /\ r * a <= r * b
      OBVIOUS
    <3>4. /\ MaxQdot[n] * before <= MaxQdot[n] * after
          /\ MaxTauRate[n] * before <= MaxTauRate[n] * after
          /\ MaxQdot[n] * before \in Nat /\ MaxTauRate[n] * before \in Nat
          /\ MaxQdot[n] * after \in Nat /\ MaxTauRate[n] * after \in Nat
      BY <1>2, <3>2, <3>3
    <3> DEFINE u == Abs(cached[n].last_q - wire[n].q)
               v == Abs(cached[n].last_tau - wire[n].tau)
               A == MaxQdot[n] * before  B == MaxQdot[n] * after
               C == MaxTauRate[n] * before  D == MaxTauRate[n] * after
    <3>5. u \in Int /\ v \in Int
      BY <2>3 DEF Abs
    <3>6. (MaxQdot[n] > 0 => u <= A) /\ (MaxTauRate[n] > 0 => v <= C)
      BY <3>1 DEF before
    <3>7. /\ A \in Nat /\ B \in Nat /\ C \in Nat /\ D \in Nat /\ A <= B /\ C <= D
      BY <3>4
    <3> HIDE DEF u, v, A, B, C, D
    <3>8. (MaxQdot[n] > 0 => u <= B) /\ (MaxTauRate[n] > 0 => v <= D)
      BY <3>5, <3>6, <3>7
    <3>9. /\ MaxQdot[n] > 0 =>
               Abs(cached'[n].last_q - wire'[n].q) <= MaxQdot[n] * after
          /\ MaxTauRate[n] > 0 =>
               Abs(cached'[n].last_tau - wire'[n].tau) <= MaxTauRate[n] * after
      BY <1>5, <1>6, <3>8 DEF u, v, B, D
    <3> QED BY <2>4, <3>2, <3>9 DEF after
  <2>7. QED
    BY <2>5, <2>6
<1>11. Moves(n)
  BY <1>6, StillMoves
<1>12. QED
  BY <1>7, <1>8, <1>9, <1>10, <1>11 DEF WireInv

\* A command that is taken brings a torque within the clamp; it moves nothing.
LEMMA CommandKeepsWire ==
  ASSUME TypeOK, WiresInv, NEW S \in SUBSET Motors, NEW msg \in [S -> Command],
         OnCmdArray(msg), NEW n \in Motors
  PROVE  WireInv(n)' /\ Moves(n)
<1>i. WireInv(n) /\ EpisodeInv(n) /\ HeldInv(n) /\ TorqueInv(n) /\ SlewInv(n)
  BY DEF WiresInv, WireInv
<1>1. /\ cached[n] \in Cached /\ runtime[n] \in Runtime /\ TauLimit[n] \in Nat
  BY RatesAssumption DEF TypeOK
<1>2. /\ wire' = wire
      /\ runtime'[n].ready = runtime[n].ready
      /\ runtime'[n].has_state = runtime[n].has_state
  BY <1>1 DEF OnCmdArray, Runtime
<1>3. Moves(n)
  BY <1>2, StillMoves
<1>4. CASE n \in S /\ Accepts(n, msg[n])
  <2> DEFINE c == cached'[n]
             tau == Clamp(msg[n].tau, -TauLimit[n], TauLimit[n])
             take(t) == [cached[n] EXCEPT
                           !.cmd_q = msg[n].q, !.cmd_tau = t,
                           !.valid = TRUE, !.has_received = TRUE, !.recv_age = 0,
                           !.timeout_home = FALSE, !.traj_active = FALSE]
  <2>1. c = take(tau)
    BY <1>4 DEF OnCmdArray
  <2>2. \A t : /\ take(t).cmd_tau = t /\ take(t).has_received = TRUE
               /\ take(t).timeout_home = FALSE
               /\ take(t).has_sent = cached[n].has_sent
               /\ take(t).sent_age = cached[n].sent_age
               /\ take(t).last_q = cached[n].last_q
               /\ take(t).last_tau = cached[n].last_tau
    BY <1>1 DEF Cached
  <2>3. Abs(tau) <= TauLimit[n]
    <3>1. msg[n].tau \in Int
      <4>1. msg[n] \in Command
        BY <1>4
      <4> QED BY <4>1, InputsAssumption DEF Command
    <3> QED BY <1>1, <3>1 DEF Clamp, Abs
  <2> HIDE DEF tau, take
  <2>4. /\ c.cmd_tau = tau /\ c.has_received /\ ~c.timeout_home
        /\ c.has_sent = cached[n].has_sent /\ c.sent_age = cached[n].sent_age
        /\ c.last_q = cached[n].last_q /\ c.last_tau = cached[n].last_tau
    BY <2>1, <2>2
  <2>5. EpisodeInv(n)'
    BY <1>i, <1>2, <2>4 DEF EpisodeInv
  <2>6. HeldInv(n)'
    BY <2>4 DEF HeldInv
  <2>7. TorqueInv(n)'
    BY <1>i, <1>2, <2>3, <2>4 DEF TorqueInv
  <2>8. SlewInv(n)'
    BY <1>i, <1>2, <2>4 DEF SlewInv, WithinLimits
  <2> QED BY <1>3, <2>5, <2>6, <2>7, <2>8 DEF WireInv
<1>5. CASE ~(n \in S /\ Accepts(n, msg[n]))
  <2>1. cached'[n] = cached[n]
    BY <1>5 DEF OnCmdArray
  <2>2. WireInv(n)'
    BY <1>i, <1>2, <2>1 DEF WireInv, EpisodeInv, HeldInv, TorqueInv, SlewInv, WithinLimits
  <2> QED BY <1>3, <2>2
<1>6. QED
  BY <1>4, <1>5

\* Feedback that makes a motor ready comes before its first frame.
LEMMA FeedbackKeepsWire ==
  ASSUME TypeOK, BridgeInv, WiresInv, NEW m \in Motors, NEW f \in Feedback,
         RxFeedback(m, f), NEW n \in Motors
  PROVE  WireInv(n)' /\ Moves(n)
<1>i. WireInv(n) /\ EpisodeInv(n) /\ HeldInv(n) /\ TorqueInv(n) /\ SlewInv(n)
  BY DEF WiresInv, WireInv
<1>1. /\ runtime \in [Motors -> Runtime] /\ cached \in [Motors -> Cached]
      /\ cached[m] \in Cached /\ runtime[m] \in Runtime
  BY DEF TypeOK
<1>2. wire' = wire
  BY DEF RxFeedback
<1>3. Moves(n)
  BY <1>2, StillMoves
<1>4. CASE n # m
  <2>1. runtime'[n] = runtime[n] /\ cached'[n] = cached[n]
    BY <1>1, <1>4 DEF RxFeedback
  <2> QED BY <1>i, <1>2, <2>1, OtherWires
<1>5. CASE n = m
  <2> DEFINE arms == /\ BecomesReady(m, f)
                     /\ ~(BecomesReady(m, f) /\ ~WithinLimits(m, f.q))
                     /\ ~cached[m].has_received
             c == ArmHomeStream(m, f.q)
  <2>1. /\ runtime'[m].has_state = TRUE
        /\ runtime'[m].ready = (runtime[m].ready \/ BecomesReady(m, f))
    BY <1>1 DEF RxFeedback, Runtime
  <2>2. wire[m].tried = "external" => runtime[m].ready /\ ~cached[m].timeout_home
    BY <1>i, <1>5 DEF EpisodeInv
  <2>3. wire[m].tried = "external" => runtime'[m].ready
    BY <2>1, <2>2
  <2>4. CASE arms
    <3>1. cached'[m] = c
      BY <1>1, <2>4 DEF RxFeedback
    <3>2. f.q \in Int
      BY InputsAssumption DEF Feedback
    <3>3. /\ c.has_sent = FALSE /\ c.timeout_home = FALSE
          /\ c.has_received = cached[m].has_received
      BY <1>1, <3>2, ArmHomeStreamType
    <3>4. m \in Gripper => ~c.traj_active
      BY <1>1, <3>2, ArmHomeStreamHolds
    <3>5. ~cached[m].has_received /\ ~runtime[m].ready
      BY <2>4 DEF BecomesReady
    <3>6. wire[m].source = "none" /\ wire[m].tried # "external"
      BY <2>2, <3>5 DEF BridgeInv, ReadyInv
    <3> HIDE DEF c, arms
    <3>7. EpisodeInv(m)'
      BY <1>2, <2>1, <3>6 DEF EpisodeInv
    <3>8. HeldInv(m)'
      BY <1>2, <3>1, <3>3, <3>4, <3>6 DEF HeldInv
    <3>9. TorqueInv(m)'
      BY <1>i, <1>2, <1>5, <3>1, <3>3, <3>5 DEF TorqueInv
    <3>10. SlewInv(m)'
      BY <1>2, <3>6 DEF SlewInv
    <3> QED BY <1>3, <1>5, <3>7, <3>8, <3>9, <3>10 DEF WireInv
  <2>5. CASE ~arms
    <3>1. cached' = cached
      BY <2>5 DEF RxFeedback
    <3> HIDE DEF arms
    <3>2. EpisodeInv(m)'
      BY <1>2, <2>1, <2>2, <2>3, <3>1 DEF EpisodeInv
    <3>3. (HeldInv(m) /\ TorqueInv(m) /\ SlewInv(m))'
      BY <1>i, <1>2, <1>5, <3>1 DEF HeldInv, TorqueInv, SlewInv, WithinLimits
    <3> QED BY <1>3, <1>5, <3>2, <3>3 DEF WireInv
  <2>6. QED
    BY <2>4, <2>5
<1>6. QED
  BY <1>4, <1>5

LEMMA WireStep ==
  ASSUME TypeOK, BridgeInv, BridgeInv', WiresInv, [Next]_vars
  PROVE  WiresInv' /\ \A n \in Motors : Moves(n)
<1> DEFINE Kept == WiresInv' /\ \A n \in Motors : Moves(n)
<1>i. \A n \in Motors : WireInv(n)
  BY DEF WiresInv
<1>t. cached \in [Motors -> Cached] /\ runtime \in [Motors -> Runtime]
  BY DEF TypeOK
<1>k. ASSUME \A n \in Motors : WireInv(n)' /\ Moves(n) PROVE Kept
  BY <1>k DEF WiresInv
<1>s. ASSUME UNCHANGED <<runtime, cached, wire>> PROVE Kept
  BY <1>i, <1>k, <1>s, OtherWires
<1>1. ASSUME NEW discovered \in SUBSET Motors, NEW enabled \in SUBSET Motors,
             Startup(discovered, enabled)
      PROVE  Kept
  <2> SUFFICES ASSUME NEW n \in Motors PROVE WireInv(n)' /\ Moves(n)
    BY <1>k
  <2>1. runtime'[n].ready = FALSE
    BY <1>1 DEF Startup, NewRuntime
  <2>2. cached'[n] = NewCached /\ wire'[n] = NoFrame /\ TauLimit[n] \in Nat
    BY <1>1, RatesAssumption DEF Startup
  <2>3. Moves(n)
    BY <2>2, StillMoves
  <2>4. QED
    BY <2>1, <2>2, <2>3 DEF WireInv, EpisodeInv, HeldInv, TorqueInv, SlewInv,
                            NewCached, NoFrame, Abs
<1>2. ASSUME NEW written \in SUBSET Motors, Shutdown(written)
      PROVE  Kept
  BY <1>2, <1>s DEF Shutdown
<1>3. ASSUME NEW S \in SUBSET Motors, NEW msg \in [S -> Command], OnCmdArray(msg)
      PROVE  Kept
  BY <1>3, <1>k, CommandKeepsWire
<1>4. ASSUME NEW m \in Motors, NEW f \in Feedback, RxFeedback(m, f)
      PROVE  Kept
  BY <1>4, <1>k, FeedbackKeepsWire
<1>5. ASSUME StartDispatch PROVE Kept
  BY <1>5, <1>s DEF StartDispatch
<1>6. ASSUME NEW m \in Motors, Skip(m)
      PROVE  Kept
  BY <1>6, <1>s DEF Skip
<1>z. \A m \in Motors : Abs(0) <= TauLimit[m]
  BY RatesAssumption DEF Abs
<1>7. ASSUME NEW m \in Motors, NEW written \in BOOLEAN, SendPreHome(m, written)
      PROVE  Kept
  <2> DEFINE c == AfterSample(cached[m])
             q == SampleHomeTrajectory(cached[m])
  <2>1. cached[m] \in Cached
    BY <1>t
  <2>2. m \in todo /\ cached[m].valid /\ ~cached[m].has_received
    BY <1>7 DEF SendPreHome, Holds
  <2>3. c \in Cached /\ q \in Int
    BY <2>1, SampleWithin
  <2>4. /\ c.has_received = cached[m].has_received
        /\ c.has_sent = cached[m].has_sent /\ c.last_q = cached[m].last_q
        /\ c.traj_goal = cached[m].traj_goal
    BY <2>1, AfterSampleFields
  <2>5. /\ c.sent_age = cached[m].sent_age /\ c.last_tau = cached[m].last_tau
        /\ c.cmd_tau = cached[m].cmd_tau
        /\ ~cached[m].traj_active => ~c.traj_active
    BY <2>1, AfterSampleKeeps
  <2>6. m \in Gripper => ~cached[m].traj_active
    BY <1>i, <2>2 DEF WireInv, HeldInv
  <2>7. ~cached[m].traj_active => q = cached[m].traj_goal
    BY DEF SampleHomeTrajectory, TrajectoryOver
  <2>8. Send(m, c, q, 0, "pre_home", written)
    BY <1>7 DEF SendPreHome
  <2>9. "pre_home" \in Source /\ 0 \in Int
    BY DEF Source
  <2> HIDE DEF c, q
  <2>10. QED
    BY <1>z, <2>2, <2>3, <2>4, <2>5, <2>6, <2>7, <2>8, <2>9, SendKeepsWire
<1>8. ASSUME NEW m \in Motors, NEW written \in BOOLEAN, SendHome(m, written)
      PROVE  Kept
  <2> DEFINE e == EnterHome(m)
             c == AfterSample(e)
             q == SampleHomeTrajectory(e)
  <2>1. cached[m] \in Cached /\ runtime[m] \in Runtime
    BY <1>t
  <2>2. m \in todo /\ cached[m].valid /\ cached[m].has_received
    BY <1>8 DEF SendHome, Holds
  <2>3. /\ e \in Cached
        /\ e.has_received = cached[m].has_received
        /\ e.has_sent = cached[m].has_sent /\ e.last_q = cached[m].last_q
    BY <2>1, EnterHomeType
  <2>4. /\ e.sent_age = cached[m].sent_age /\ e.last_tau = cached[m].last_tau
        /\ e.cmd_tau = cached[m].cmd_tau
        /\ ~cached[m].timeout_home /\ runtime[m].has_state =>
             e.traj_start = ClampQ(m, runtime[m].q) /\ e.traj_age = 0
    BY <2>1, EnterHomeKeeps
  <2>5. Send(m, c, q, 0, "home", written)
    BY <1>8 DEF SendHome
  <2>6. "home" \in Source /\ 0 \in Int
    BY DEF Source
  <2> HIDE DEF e
  <2>7. c \in Cached /\ q \in Int
    BY <2>3, SampleWithin
  <2>8. /\ c.has_received = e.has_received /\ c.has_sent = e.has_sent
        /\ c.last_q = e.last_q /\ c.traj_start = e.traj_start
    BY <2>3, AfterSampleFields
  <2>9. /\ c.sent_age = e.sent_age /\ c.last_tau = e.last_tau
        /\ c.cmd_tau = e.cmd_tau /\ c.traj_age = e.traj_age
    BY <2>3, AfterSampleKeeps
  <2> HIDE DEF c, q
  <2>10. wire[m].tried = "external" =>
           c.traj_start = ClampQ(m, runtime[m].q) /\ c.traj_age = 0
    BY <1>i, <2>4, <2>8, <2>9 DEF WireInv, EpisodeInv
  <2>11. /\ c.has_received /\ c.has_received = cached[m].has_received
         /\ c.has_sent = cached[m].has_sent /\ c.last_q = cached[m].last_q
         /\ c.sent_age = cached[m].sent_age /\ c.last_tau = cached[m].last_tau
         /\ c.cmd_tau = cached[m].cmd_tau
    BY <2>2, <2>3, <2>4, <2>8, <2>9
  <2>12. /\ "home" # "none" /\ "home" # "external" /\ "home" # "pre_home"
         /\ ~(m \in Gripper /\ ~c.has_received) /\ Abs(0) <= TauLimit[m]
    BY <1>z, <2>11
  <2>13. QED
    BY <2>2, <2>5, <2>6, <2>7, <2>10, <2>11, <2>12, SendKeepsWire, Zenon
<1>9. ASSUME NEW m \in Motors, NEW written \in BOOLEAN, SendExternal(m, written)
      PROVE  Kept
  <2> DEFINE c == LeaveHome(m)
  <2>1. cached[m] \in Cached
    BY <1>t
  <2>2. /\ m \in todo /\ cached[m].valid /\ cached[m].has_received
        /\ runtime[m].ready
    BY <1>9 DEF SendExternal, Holds
  <2>3. /\ c \in Cached /\ ~c.timeout_home
        /\ c.has_received = cached[m].has_received
        /\ c.has_sent = cached[m].has_sent /\ c.last_q = cached[m].last_q
    BY <2>1, LeaveHomeType
  <2>4. /\ c.sent_age = cached[m].sent_age /\ c.last_tau = cached[m].last_tau
        /\ c.cmd_tau = cached[m].cmd_tau
    BY <2>1, LeaveHomeKeeps
  <2>5. /\ cached[m].cmd_q \in Int /\ cached[m].cmd_tau \in Int
        /\ Abs(cached[m].cmd_tau) <= TauLimit[m]
    BY <1>i, <2>1, <2>2 DEF WireInv, TorqueInv, Cached
  <2>6. Send(m, c, cached[m].cmd_q, cached[m].cmd_tau, "external", written)
    BY <1>9 DEF SendExternal
  <2>7. "external" \in Source
    BY DEF Source
  <2> HIDE DEF c
  <2>8. /\ "external" # "none" /\ "external" # "home" /\ "external" # "pre_home"
        /\ ~(m \in Gripper /\ ~c.has_received)
    BY <2>2, <2>3
  <2>9. QED
    BY <2>2, <2>3, <2>4, <2>5, <2>6, <2>7, <2>8, SendKeepsWire, Zenon
<1>10. ASSUME Tick PROVE Kept
  BY <1>10, <1>k, TickKeepsWire
<1>11. ASSUME UNCHANGED vars PROVE Kept
  BY <1>11, <1>s DEF vars
<1> HIDE DEF Kept
<1>12. Kept
  BY <1>1, <1>2, <1>3, <1>4, <1>5, <1>6, <1>7, <1>8, <1>9, <1>10, <1>11 DEF Next
<1>13. QED
  BY <1>12 DEF Kept

LEMMA WiresMove ==
  ASSUME TypeOK, BridgeInv, WiresInv, [Next]_vars
  PROVE  WiresInv' /\ \A m \in Motors : Moves(m)
BY InvStep, WireStep

LEMMA WiresCorrect == Spec => []WiresInv
<1>1. TypeOK /\ BridgeInv /\ WiresInv /\ [Next]_vars => WiresInv'
  BY WiresMove
<1>2. QED
  BY <1>1, WireInit, TypeCorrect, InvCorrect, PTL DEF Spec

\* Two frames in a row of one motor command positions no further apart than its
\* slew rate allows for the time between them: through changes between home
\* trajectories and commands and through frames whose write failed.
THEOREM FramesAreSlewLimited == Spec => WireSlewBounded
<1> DEFINE P == \A m \in Motors :
      wire[m].source # "none" /\ wire'[m].source # "none" /\ MaxQdot[m] > 0 =>
        Abs(wire'[m].q - wire[m].q) <= MaxQdot[m] * wire[m].age
<1>1. TypeOK /\ BridgeInv /\ WiresInv /\ [Next]_vars => [P]_wire
  BY WiresMove DEF Moves
<1>2. QED
  BY <1>1, TypeCorrect, InvCorrect, WiresCorrect, PTL DEF Spec, WireSlewBounded

\* The same for the torque: what a frame feeds forward changes no faster than
\* its slew rate, also where a command gives way to a trajectory without one.
THEOREM TorquesAreSlewLimited == Spec => WireTorqueSlewBounded
<1> DEFINE P == \A m \in Motors :
      wire[m].source # "none" /\ wire'[m].source # "none" /\ MaxTauRate[m] > 0 =>
        Abs(wire'[m].tau - wire[m].tau) <= MaxTauRate[m] * wire[m].age
<1>1. TypeOK /\ BridgeInv /\ WiresInv /\ [Next]_vars => [P]_wire
  BY WiresMove DEF Moves
<1>2. QED
  BY <1>1, TypeCorrect, InvCorrect, WiresCorrect, PTL DEF Spec, WireTorqueSlewBounded

\* A return home that follows a command starts its trajectory where the motor
\* reported itself last, with its clock at zero.
THEOREM HomeStartIsCorrect == Spec => HomeStartsWhereTheArmIs
<1> DEFINE P == \A m \in Motors :
      wire[m].tried = "external" /\ wire'[m].tried = "home" =>
        /\ cached'[m].traj_start = ClampQ(m, runtime[m].q)
        /\ cached'[m].traj_age = 0
<1>1. TypeOK /\ BridgeInv /\ WiresInv /\ [Next]_vars => [P]_wire
  BY WiresMove DEF Moves
<1>2. QED
  BY <1>1, TypeCorrect, InvCorrect, WiresCorrect, PTL DEF Spec, HomeStartsWhereTheArmIs

\* Until its first command the gripper is sent one position, whatever its
\* feedback and the shutdowns do meanwhile.
THEOREM GripperStaysUntilCommanded == Spec => GripperHoldsUntilCommanded
<1> DEFINE P == \A m \in Gripper :
      wire[m].source = "pre_home" /\ wire'[m].source = "pre_home" =>
        wire'[m].q = wire[m].q
<1>1. TypeOK /\ BridgeInv /\ WiresInv /\ [Next]_vars => [P]_wire
  BY WiresMove, MotorsAssumption DEF Moves
<1>2. QED
  BY <1>1, TypeCorrect, InvCorrect, WiresCorrect, PTL DEF Spec, GripperHoldsUntilCommanded

=============================================================================
