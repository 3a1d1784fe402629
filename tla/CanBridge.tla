------------------------------ MODULE CanBridge ------------------------------
(***************************************************************************)
(* can_bridge_node: the bridge between /motor_cmd_array and the CAN bus.   *)
(*                                                                         *)
(* One thread runs two callbacks to completion: on_cmd_array caches the    *)
(* newest command of each motor, and poll_can_frames (1 ms timer) first    *)
(* reads the Type02 feedback frames that are waiting and then dispatches   *)
(* at most one Type01 frame per motor from the cache.  The constructor     *)
(* scans the bus and enables what it found, the destructor stops it.       *)
(*                                                                         *)
(* Positions and torques are integers (units of the CAN encoding), time is *)
(* counted in units of which every period and timeout is a multiple, and   *)
(* an age stops counting where the code can no longer tell the difference. *)
(***************************************************************************)
EXTENDS Integers, FiniteSets

CONSTANTS
  Motors,        \* motor ids on the bus
  Gripper,       \* motors that hold in place instead of homing (motor 7)
  QMin, QMax,    \* joint limits, per motor (kMotorHomeByMotor)
  HomeQ,         \* home position, per motor
  MaxQdot,       \* q_des slew limit per unit of time; 0: not in the table
  TauLimit,      \* clamp of the tau_ff of an external command
  MaxTauRate,    \* tau_ff slew limit per unit of time; 0: not in the table
  Period,        \* one turn of a joint (2 pi)
  NearHome,      \* kHomeNearThreshold
  TxPeriod,      \* 1 / tx_hz
  CmdTimeout,    \* kCmdTimeoutMs
  HomeDuration,  \* kHomeReturnDurationSec
  DtCap,         \* 50 ms cap of the slew limiters' time step
  StateQ,        \* positions a motor may report
  CmdQ, CmdTau,  \* fields of the external commands
  FaultBits,     \* non-zero fault words
  WireCap        \* bound on the age counted for the last frame on the wire

ASSUME MotorsAssumption == IsFiniteSet(Motors) /\ Motors # {} /\ Gripper \subseteq Motors

ASSUME LimitsAssumption ==
  /\ QMin \in [Motors -> Int] /\ QMax \in [Motors -> Int]
  /\ HomeQ \in [Motors -> Int]
  /\ \A m \in Motors : QMin[m] <= HomeQ[m] /\ HomeQ[m] <= QMax[m]

ASSUME RatesAssumption ==
  /\ MaxQdot \in [Motors -> Nat] /\ MaxTauRate \in [Motors -> Nat]
  /\ TauLimit \in [Motors -> Nat]

ASSUME TimesAssumption ==
  /\ Period \in Nat \ {0} /\ NearHome \in Nat
  /\ TxPeriod \in Nat \ {0} /\ CmdTimeout \in Nat \ {0}
  /\ HomeDuration \in Nat \ {0} /\ DtCap \in Nat \ {0} /\ WireCap \in Nat

ASSUME InputsAssumption ==
  /\ StateQ \subseteq Int /\ CmdQ \subseteq Int /\ CmdTau \subseteq Int
  /\ FaultBits \subseteq Nat \ {0}

\* The age of a frame is counted until a limiter may have crossed its whole range.
ASSUME WireCapAssumption ==
  \A m \in Motors :
    /\ MaxQdot[m] > 0 => QMax[m] - QMin[m] <= MaxQdot[m] * WireCap
    /\ MaxTauRate[m] > 0 => 2 * TauLimit[m] <= MaxTauRate[m] * WireCap

VARIABLES
  phase,      \* what the thread is doing: "off", "idle", "rx", "tx"
  todo,       \* motors dispatch_cached_commands has not reached yet
  runtime,    \* runtime_by_motor_
  faultBits,  \* last_fault_bits_
  cached,     \* latest_cmd_by_motor_
  wire,       \* history, per motor: the last Type01 frame tried and written
  energised   \* motors whose last written Type03 / Type04 was a Type03

vars == <<phase, todo, runtime, faultBits, cached, wire, energised>>

-----------------------------------------------------------------------------
(* Values *)

Clamp(x, lo, hi) == IF x < lo THEN lo ELSE IF x > hi THEN hi ELSE x
Abs(x) == IF x < 0 THEN -x ELSE x
MinOf(a, b) == IF a < b THEN a ELSE b
MaxOf(a, b) == IF a < b THEN b ELSE a

Runtime == [known: BOOLEAN, enable_sent: BOOLEAN, ready: BOOLEAN,
            has_state: BOOLEAN, blocked: BOOLEAN, thermal: BOOLEAN,
            fault: BOOLEAN, q: Int]

NewRuntime == [known |-> FALSE, enable_sent |-> FALSE, ready |-> FALSE,
               has_state |-> FALSE, blocked |-> FALSE, thermal |-> FALSE,
               fault |-> FALSE, q |-> 0]

Cached == [valid: BOOLEAN, has_received: BOOLEAN, has_sent: BOOLEAN,
           cmd_q: Int, cmd_tau: Int, timeout_home: BOOLEAN,
           traj_active: BOOLEAN, traj_start: Int, traj_goal: Int,
           last_q: Int, last_tau: Int,
           sent_age: Nat, recv_age: Nat, traj_age: Nat]

NewCached == [valid |-> FALSE, has_received |-> FALSE, has_sent |-> FALSE,
              cmd_q |-> 0, cmd_tau |-> 0, timeout_home |-> FALSE,
              traj_active |-> FALSE, traj_start |-> 0, traj_goal |-> 0,
              last_q |-> 0, last_tau |-> 0,
              sent_age |-> 0, recv_age |-> 0, traj_age |-> 0]

Source == {"none", "pre_home", "home", "external"}
Wire == [tried: Source, source: Source, q: Int, applied_q: Int, tau: Int, age: Nat]
NoFrame == [tried |-> "none", source |-> "none",
            q |-> 0, applied_q |-> 0, tau |-> 0, age |-> 0]

Temperature == {"normal", "warn", "critical"}   \* below 70, 70..90, 90 and up
Feedback == [run: BOOLEAN, q: StateQ, temp: Temperature, fault: {0} \cup FaultBits]
Command == [q: CmdQ, tau: CmdTau, finite: BOOLEAN]

WithinLimits(m, q) == QMin[m] <= q /\ q <= QMax[m]
ClampQ(m, q) == Clamp(q, QMin[m], QMax[m])
SafeShutdown(m) == runtime[m].thermal \/ runtime[m].fault

-----------------------------------------------------------------------------
(* Home trajectories *)

\* std::round(a / p): halves away from zero.
RoundDiv(a, p) == IF a >= 0 THEN (2 * a + p) \div (2 * p)
                            ELSE -((p - 2 * a) \div (2 * p))

\* nearest_periodic_target: the turn of base nearest to current, moved by
\* whole turns into [lo, hi], and clamped when no turn of it lies there.
NearestPeriodicTarget(base, current, lo, hi) ==
  LET near   == base + RoundDiv(current - base, Period) * Period
      raised == IF near < lo
                THEN near + ((lo - near + Period - 1) \div Period) * Period
                ELSE near
      target == IF raised > hi
                THEN raised - ((raised - hi + Period - 1) \div Period) * Period
                ELSE raised
  IN  Clamp(target, lo, hi)

AlignedHome(m, q) == NearestPeriodicTarget(HomeQ[m], q, QMin[m], QMax[m])

\* start_home_trajectory
StartHomeTrajectory(m, c, q) ==
  LET start == ClampQ(m, q)
      goal  == AlignedHome(m, start)
  IN  [c EXCEPT !.traj_start = start, !.traj_goal = goal,
                !.traj_age = 0, !.traj_active = goal # start]

\* A trajectory that is already where it should be.
HoldAt(c, q) ==
  [c EXCEPT !.traj_start = q, !.traj_goal = q, !.traj_active = FALSE]

\* sample_home_trajectory_q_des: linear, and the goal once time is up.
Interpolate(start, goal, age) ==
  start + ((goal - start) * age) \div HomeDuration

TrajectoryOver(c) == ~c.traj_active \/ c.traj_age >= HomeDuration

SampleHomeTrajectory(c) ==
  IF TrajectoryOver(c) THEN c.traj_goal
  ELSE Interpolate(c.traj_start, c.traj_goal, c.traj_age)

AfterSample(c) == [c EXCEPT !.traj_active = ~TrajectoryOver(c)]

-----------------------------------------------------------------------------
(* Start-up and shutdown *)

Init ==
  /\ phase = "off"
  /\ todo = {}
  /\ runtime = [m \in Motors |-> NewRuntime]
  /\ faultBits = [m \in Motors |-> 0]
  /\ cached = [m \in Motors |-> NewCached]
  /\ wire = [m \in Motors |-> NoFrame]
  /\ energised = {}

\* The constructor: a Type00 scan finds some of the motors, and each of them
\* is sent Type03 once; only a Type03 that was written counts as sent.
Startup(discovered, enabled) ==
  /\ phase = "off"
  /\ enabled \subseteq discovered
  /\ phase' = "idle"
  /\ runtime' = [m \in Motors |->
                   [NewRuntime EXCEPT !.known = m \in discovered,
                                      !.enable_sent = m \in enabled]]
  /\ faultBits' = [m \in Motors |-> 0]
  /\ cached' = [m \in Motors |-> NewCached]
  /\ wire' = [m \in Motors |-> NoFrame]
  /\ energised' = energised \cup enabled
  /\ UNCHANGED todo

\* The destructor: Type04 once to every id this process came to know.
Shutdown(written) ==
  /\ phase = "idle"
  /\ written \subseteq {m \in Motors : runtime[m].known}
  /\ phase' = "off"
  /\ energised' = energised \ written
  /\ UNCHANGED <<todo, runtime, faultBits, cached, wire>>

-----------------------------------------------------------------------------
(* on_cmd_array *)

\* NaN or Inf, a motor in safe shutdown and a position outside the limits
\* reject the command of that motor and leave its cache as it was.
Accepts(m, cmd) == cmd.finite /\ ~SafeShutdown(m) /\ WithinLimits(m, cmd.q)

OnCmdArray(msg) ==
  /\ phase = "idle"
  /\ cached' = [m \in Motors |->
       IF m \in DOMAIN msg /\ Accepts(m, msg[m])
       THEN [cached[m] EXCEPT
               !.cmd_q = msg[m].q,
               !.cmd_tau = Clamp(msg[m].tau, -TauLimit[m], TauLimit[m]),
               !.valid = TRUE, !.has_received = TRUE, !.recv_age = 0,
               !.timeout_home = FALSE, !.traj_active = FALSE]
       ELSE cached[m]]
  /\ runtime' = [m \in Motors |->
       IF m \in DOMAIN msg /\ msg[m].finite
       THEN [runtime[m] EXCEPT !.known = TRUE] ELSE runtime[m]]
  /\ UNCHANGED <<phase, todo, faultBits, wire, energised>>

-----------------------------------------------------------------------------
(* poll_can_frames: the feedback frames of this tick *)

BecomesReady(m, f) ==
  ~runtime[m].ready /\ runtime[m].enable_sent /\ f.run

\* Mutant: the gripper homes like every other motor.
ArmHomeStream_GripperToo(m, q) ==
  LET homing == StartHomeTrajectory(m,
                  [cached[m] EXCEPT !.valid = TRUE, !.has_sent = FALSE], q)
  IN  [homing EXCEPT !.cmd_q = homing.traj_goal]

\* start_home_stream_for_ready_motor, for a motor inside its limits that has
\* no external command yet: hold in place, or home along a trajectory.
ArmHomeStream(m, q) ==
  LET armed == [cached[m] EXCEPT !.valid = TRUE, !.has_sent = FALSE,
                                 !.cmd_tau = 0, !.timeout_home = FALSE]
      homing == StartHomeTrajectory(m, armed, q)
  IN  IF m \in Gripper \/ Abs(HomeQ[m] - q) <= NearHome
      THEN [HoldAt(armed, q) EXCEPT !.cmd_q = q]
      ELSE [homing EXCEPT !.cmd_q = homing.traj_goal]

ThermalAfter(m, f) ==
  CASE f.temp = "critical" -> TRUE
    [] f.temp = "normal"   -> FALSE
    [] f.temp = "warn"     -> runtime[m].thermal

\* The edge that decides the event: raised, cleared, or only changed.
FaultAfter(m, f) ==
  CASE faultBits[m] = 0 /\ f.fault # 0 -> TRUE
    [] faultBits[m] # 0 /\ f.fault = 0 -> FALSE
    [] OTHER                           -> runtime[m].fault

RxFeedback(m, f) ==
  /\ phase \in {"idle", "rx"}
  /\ phase' = "rx"
  /\ LET r      == runtime[m]
         blocks == BecomesReady(m, f) /\ ~WithinLimits(m, f.q)
         arms   == BecomesReady(m, f) /\ ~blocks /\ ~cached[m].has_received
     IN  /\ runtime' = [runtime EXCEPT ![m] =
              [r EXCEPT !.known = TRUE, !.has_state = TRUE, !.q = f.q,
                        !.ready = r.ready \/ BecomesReady(m, f),
                        !.blocked = r.blocked \/ blocks,
                        !.thermal = ThermalAfter(m, f),
                        !.fault = FaultAfter(m, f)]]
         /\ cached' = IF arms
                      THEN [cached EXCEPT ![m] = ArmHomeStream(m, f.q)]
                      ELSE cached
  /\ faultBits' = [faultBits EXCEPT ![m] = f.fault]
  /\ UNCHANGED <<todo, wire, energised>>

-----------------------------------------------------------------------------
(* poll_can_frames: dispatch_cached_commands *)

StartDispatch ==
  /\ phase \in {"idle", "rx"}
  /\ phase' = "tx"
  /\ todo' = Motors
  /\ UNCHANGED <<runtime, faultBits, cached, wire, energised>>

\* The early continues of the loop: nothing cached, a blocked motor, an
\* external command for a motor that is not ready, a period not yet over.
Holds(m) ==
  \/ ~cached[m].valid
  \/ runtime[m].blocked
  \/ cached[m].has_received /\ ~runtime[m].ready
  \/ cached[m].has_sent /\ cached[m].sent_age < TxPeriod

TimedOut(m) == cached[m].has_received /\ cached[m].recv_age >= CmdTimeout
HomeRequested(m) == TimedOut(m) \/ SafeShutdown(m)

\* Mutants: one time unit too many, or too few, in dt.
Slewed_LongDt(c, rate, last, requested) ==
  LET reach == rate * (MinOf(c.sent_age, DtCap) + 1)
  IN  IF rate > 0 /\ c.has_sent
      THEN Clamp(requested, last - reach, last + reach) ELSE requested
Slewed_ShortDt(c, rate, last, requested) ==
  LET reach == rate * (MinOf(c.sent_age, DtCap) - TxPeriod)
  IN  IF rate > 0 /\ c.has_sent
      THEN Clamp(requested, last - reach, last + reach) ELSE requested

\* The slew limiter: nothing on the first frame, then rate * dt from the last
\* value handed to the socket.  slew_initialized is left out: the value it
\* guards is overwritten by that first frame before anything reads it.
Slewed(c, rate, last, requested) ==
  LET reach == rate * MinOf(c.sent_age, DtCap)
  IN  IF rate > 0 /\ c.has_sent
      THEN Clamp(requested, last - reach, last + reach)
      ELSE requested

NextMotor(m) ==
  /\ todo' = todo \ {m}
  /\ phase' = IF todo = {m} THEN "idle" ELSE "tx"

\* The end of the loop body: the frame is written or the write fails (the
\* socket buffer is full), and the cache takes it for sent either way.
Send(m, c, q_des, tau_ff, source, written) ==
  LET q   == Slewed(c, MaxQdot[m], c.last_q, q_des)
      tau == Slewed(c, MaxTauRate[m], c.last_tau, tau_ff)
  IN  /\ cached' = [cached EXCEPT ![m] =
            [c EXCEPT !.has_sent = TRUE, !.sent_age = 0,
                      !.last_q = q, !.last_tau = tau]]
      /\ wire' = [wire EXCEPT ![m] =
            IF written
            THEN [tried |-> source, source |-> source, q |-> ClampQ(m, q),
                  applied_q |-> q, tau |-> tau, age |-> 0]
            ELSE [@ EXCEPT !.tried = source]]
      /\ NextMotor(m)
      /\ UNCHANGED <<runtime, faultBits, energised>>

Skip(m) ==
  /\ m \in todo
  /\ Holds(m)
  /\ NextMotor(m)
  /\ UNCHANGED <<runtime, faultBits, cached, wire, energised>>

SendPreHome(m, written) ==
  /\ m \in todo
  /\ ~Holds(m)
  /\ ~cached[m].has_received
  /\ Send(m, AfterSample(cached[m]), SampleHomeTrajectory(cached[m]), 0,
          "pre_home", written)

\* Mutant: every home frame starts the trajectory again.
EnterHome_EveryFrame(m) ==
  [StartHomeTrajectory(m, cached[m], runtime[m].q) EXCEPT !.timeout_home = TRUE]

\* The first home frame of an episode starts the trajectory at the newest
\* feedback (or holds home when there has been none).
EnterHome(m) ==
  LET c == cached[m]
  IN  IF c.timeout_home THEN c
      ELSE [IF runtime[m].has_state
            THEN StartHomeTrajectory(m, c, runtime[m].q)
            ELSE [HoldAt(c, ClampQ(m, HomeQ[m])) EXCEPT !.traj_age = 0]
            EXCEPT !.timeout_home = TRUE]

SendHome(m, written) ==
  /\ m \in todo
  /\ ~Holds(m)
  /\ cached[m].has_received
  /\ HomeRequested(m)
  /\ \E c \in {EnterHome(m)} :
       Send(m, AfterSample(c), SampleHomeTrajectory(c), 0, "home", written)

\* Mutant: the episode is left without a trace.
LeaveHome_KeepsFlag(m) == cached[m]

\* The end of a home episode: the cached command takes over again.
LeaveHome(m) ==
  LET c == cached[m]
  IN  IF c.timeout_home
      THEN [c EXCEPT !.timeout_home = FALSE, !.traj_active = FALSE] ELSE c

SendExternal(m, written) ==
  /\ m \in todo
  /\ ~Holds(m)
  /\ cached[m].has_received
  /\ ~HomeRequested(m)
  /\ Send(m, LeaveHome(m), cached[m].cmd_q, cached[m].cmd_tau, "external", written)

-----------------------------------------------------------------------------
(* Time *)

Older(age, cap) == IF age < cap THEN age + 1 ELSE age

AgedCache(c) ==
  [c EXCEPT
     !.sent_age = IF c.has_sent THEN Older(@, MaxOf(TxPeriod, DtCap)) ELSE @,
     !.recv_age = IF c.has_received THEN Older(@, CmdTimeout) ELSE @,
     !.traj_age = IF c.traj_active THEN Older(@, HomeDuration) ELSE @]

AgedWire(w) ==
  [w EXCEPT !.age = IF w.source = "none" THEN @ ELSE Older(@, WireCap)]

\* Both callbacks read the clock once, so time passes between callbacks.
Tick ==
  /\ phase = "idle"
  /\ cached' = [m \in Motors |-> AgedCache(cached[m])]
  /\ wire' = [m \in Motors |-> AgedWire(wire[m])]
  /\ UNCHANGED <<phase, todo, runtime, faultBits, energised>>

-----------------------------------------------------------------------------
Dispatch(m, written) ==
  SendPreHome(m, written) \/ SendHome(m, written) \/ SendExternal(m, written)

Next ==
  \/ \E discovered, enabled \in SUBSET Motors : Startup(discovered, enabled)
  \/ \E written \in SUBSET Motors : Shutdown(written)
  \/ \E S \in SUBSET Motors \ {{}} : \E msg \in [S -> Command] : OnCmdArray(msg)
  \/ \E m \in Motors, f \in Feedback : RxFeedback(m, f)
  \/ StartDispatch
  \/ \E m \in Motors : Skip(m)
  \/ \E m \in Motors, written \in BOOLEAN : SendPreHome(m, written)
  \/ \E m \in Motors, written \in BOOLEAN : SendHome(m, written)
  \/ \E m \in Motors, written \in BOOLEAN : SendExternal(m, written)
  \/ Tick

Spec == Init /\ [][Next]_vars

\* The 1 ms timer fires again and again and reads a bounded number of frames
\* (kRxMaxFramesPerTick) before it dispatches; the loop reaches every motor;
\* time passes; and a socket buffer that is full drains eventually.
Fairness ==
  /\ WF_vars(StartDispatch)
  /\ SF_vars(Tick)
  /\ \A m \in Motors : /\ WF_vars(Skip(m) \/ Dispatch(m, TRUE) \/ Dispatch(m, FALSE))
                       /\ SF_vars(Dispatch(m, TRUE))

FairSpec == Spec /\ Fairness

-----------------------------------------------------------------------------
(* Properties *)

TypeOK ==
  /\ phase \in {"off", "idle", "rx", "tx"}
  /\ phase = "tx" <=> todo # {}
  /\ todo \subseteq Motors /\ energised \subseteq Motors
  /\ runtime \in [Motors -> Runtime]
  /\ faultBits \in [Motors -> {0} \cup FaultBits]
  /\ cached \in [Motors -> Cached]
  /\ wire \in [Motors -> Wire]

\* "No home or external command is sent before ready": a motor id carries
\* Type01 frames only after this process wrote its Type03 and then saw it in
\* run mode, and never when it came up outside its joint limits, whatever was
\* cached for it meanwhile.
NothingBeforeReady ==
  \A m \in Motors : wire[m].source # "none" =>
    /\ runtime[m].ready /\ runtime[m].enable_sent
    /\ ~runtime[m].blocked

\* The fault shutdown is on exactly while the motor's last feedback carried
\* fault bits, through any sequence of raised, changed and cleared words.
FaultShutdownMirrorsBits ==
  phase # "off" => \A m \in Motors : runtime[m].fault <=> faultBits[m] # 0

\* /motor_cmd_array_applied repeats what went out on the bus: the encoder's
\* last clamp to the joint limits never changes a position, because nothing
\* the cache can produce lies outside them.
AppliedIsWhatWasSent ==
  \A m \in Motors : wire[m].applied_q = wire[m].q

\* Two Type01 frames in a row command positions no further apart than the
\* slew rate allows for the time between them, across changes between home
\* and external commands and across frames whose write failed.
WireSlewBounded ==
  [][\A m \in Motors :
       wire[m].source # "none" /\ wire'[m].source # "none" /\ MaxQdot[m] > 0 =>
         Abs(wire'[m].q - wire[m].q) <= MaxQdot[m] * wire[m].age]_wire

\* The same for the feed-forward torque, which a change to home takes to 0.
WireTorqueSlewBounded ==
  [][\A m \in Motors :
       wire[m].source # "none" /\ wire'[m].source # "none" /\ MaxTauRate[m] > 0 =>
         Abs(wire'[m].tau - wire[m].tau) <= MaxTauRate[m] * wire[m].age]_wire

\* Every return home after external commands starts its trajectory where the
\* motor is now, not where an earlier episode (timeout or safe shutdown) left
\* the trajectory.
HomeStartsWhereTheArmIs ==
  [][\A m \in Motors :
       wire[m].tried = "external" /\ wire'[m].tried = "home" =>
         /\ cached'[m].traj_start = ClampQ(m, runtime[m].q)
         /\ cached'[m].traj_age = 0]_wire

\* The gripper is not homed at start-up: until the first external command its
\* frames repeat the position it was found at, through later feedback and
\* through safe shutdowns.
GripperHoldsUntilCommanded ==
  [][\A m \in Gripper :
       wire[m].source = "pre_home" /\ wire'[m].source = "pre_home" =>
         wire'[m].q = wire[m].q]_wire

\* "The first frame starts from the actual motor position, which prevents a
\* jump right after start-up": what the comment on the slew limiter says.
FirstFrameStartsAtTheMotor ==
  [][\A m \in Motors :
       wire[m].source = "none" /\ wire'[m].source # "none" /\ MaxQdot[m] > 0 =>
         Abs(wire'[m].q - runtime[m].q) <= MaxQdot[m] * DtCap]_wire

\* A running motor that stays in safe shutdown, or whose commands stop, is
\* brought to its home position.
EventuallyHome ==
  \A m \in Motors :
    <>[](/\ phase # "off" /\ ~runtime[m].blocked /\ runtime[m].ready
         /\ cached[m].has_received /\ HomeRequested(m))
      => <>[](wire[m].source = "home" /\ wire[m].q = cached[m].traj_goal
                                   /\ wire[m].tau = 0)

\* While commands for one position keep coming and no shutdown is on, the
\* frames reach that position, however far the slew limiter had to start.
EventuallyFollows ==
  \A m \in Motors : \A q \in CmdQ :
    <>[](/\ phase # "off" /\ ~runtime[m].blocked /\ runtime[m].ready
         /\ cached[m].has_received /\ ~HomeRequested(m) /\ cached[m].cmd_q = q)
      => <>[](wire[m].q = q)

\* The inductive strengthening of NothingBeforeReady, FaultShutdownMirrorsBits
\* and AppliedIsWhatWasSent: which cache entries may exist before a motor is
\* ready, and that every position a later frame can be built from lies within
\* the joint limits.
ReadyInv(m) ==
  /\ runtime[m].ready => runtime[m].enable_sent
  /\ runtime[m].blocked => runtime[m].ready
  /\ cached[m].valid /\ ~cached[m].has_received =>
       runtime[m].ready /\ ~runtime[m].blocked
  /\ wire[m].source # "none" => runtime[m].ready /\ ~runtime[m].blocked

FaultInv(m) == runtime[m].fault <=> faultBits[m] # 0

LimitsInv(m) ==
  /\ cached[m].has_received => WithinLimits(m, cached[m].cmd_q)
  /\ (cached[m].valid /\ ~cached[m].has_received) \/ cached[m].timeout_home =>
       /\ WithinLimits(m, cached[m].traj_start)
       /\ WithinLimits(m, cached[m].traj_goal)
  /\ cached[m].has_sent => WithinLimits(m, cached[m].last_q)
  /\ wire[m].applied_q = wire[m].q

BridgeInv == \A m \in Motors : ReadyInv(m) /\ FaultInv(m) /\ LimitsInv(m)

\* The inductive strengthening of the properties of the wire, on top of
\* BridgeInv.  A motor that is ready has reported where it is, and one that
\* followed a command is not in a home episode.
EpisodeInv(m) ==
  /\ runtime[m].ready => runtime[m].has_state
  /\ wire[m].tried = "external" => runtime[m].ready /\ ~cached[m].timeout_home

\* A gripper that nobody commanded has one position to send.
HeldInv(m) ==
  m \in Gripper /\ cached[m].valid /\ ~cached[m].has_received =>
    /\ ~cached[m].traj_active
    /\ cached[m].has_sent => cached[m].last_q = cached[m].traj_goal
    /\ wire[m].source = "pre_home" => wire[m].q = cached[m].traj_goal

\* Every torque a later frame can be built from is within the clamp.
TorqueInv(m) ==
  /\ cached[m].has_received => Abs(cached[m].cmd_tau) <= TauLimit[m]
  /\ cached[m].has_sent => Abs(cached[m].last_tau) <= TauLimit[m]
  /\ Abs(wire[m].tau) <= TauLimit[m]

\* What was handed to the socket since the last frame that was written has
\* moved no further than the limiter allows for the time between them.
SlewInv(m) ==
  wire[m].source # "none" =>
    /\ cached[m].has_sent /\ WithinLimits(m, wire[m].q)
    /\ \/ wire[m].age >= WireCap
       \/ /\ cached[m].sent_age <= wire[m].age
          /\ MaxQdot[m] > 0 =>
               Abs(cached[m].last_q - wire[m].q)
                 <= MaxQdot[m] * (wire[m].age - cached[m].sent_age)
          /\ MaxTauRate[m] > 0 =>
               Abs(cached[m].last_tau - wire[m].tau)
                 <= MaxTauRate[m] * (wire[m].age - cached[m].sent_age)

WireInv(m) == EpisodeInv(m) /\ HeldInv(m) /\ TorqueInv(m) /\ SlewInv(m)
WiresInv == \A m \in Motors : WireInv(m)

=============================================================================
