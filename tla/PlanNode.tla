------------------------------- MODULE PlanNode -------------------------------
(***************************************************************************)
(* plan_node: executes the plans plan_compute_node publishes.              *)
(*                                                                         *)
(* One thread runs three callbacks to completion: on_state_array keeps the *)
(* newest feedback, on_computed_plan deposits a plan (and its second leg), *)
(* and on_timer (250 Hz) commits, follows, stalls, ends or holds.  Only    *)
(* on_timer commands the motors.                                           *)
(*                                                                         *)
(* One joint stands for the arm.  A quintic is abstracted to the straight  *)
(* line between its end points, in the duration the code gives it;         *)
(* positions are integers, and trajectory time is counted in units in      *)
(* which one unit of wall time at full speed is WarpHi - WarpLo.           *)
(***************************************************************************)
EXTENDS Integers

CONSTANTS
  QLo, QHi,       \* joint limits, the clamp of _publish
  Positions,      \* positions the feedback may report
  Messages,       \* /computed_plan messages that may arrive
  None,           \* no plan, no hold position, no command yet
  VMax,           \* planner_v_max
  WarpLo, WarpHi, \* tracking errors of full speed and of standstill
  StallTimeout,   \* traj_stall_timeout_s
  StateTimeout,   \* state_timeout_s
  GapCap          \* bound on the time counted between two timer callbacks

ASSUME LimitsAssumption ==
  /\ QLo \in Int /\ QHi \in Int /\ QLo <= QHi
  /\ Positions \subseteq Int /\ VMax \in Nat \ {0}

ASSUME WarpAssumption == WarpLo \in Nat /\ WarpHi \in Nat /\ WarpLo < WarpHi

ASSUME TimesAssumption ==
  StallTimeout \in Nat \ {0} /\ StateTimeout \in Nat /\ GapCap \in Nat \ {0}

MinOf(a, b) == IF a < b THEN a ELSE b
MaxOf(a, b) == IF a < b THEN b ELSE a
Abs(x) == IF x < 0 THEN -x ELSE x

Clamp(x) == MaxOf(QLo, MinOf(QHi, x))

\* One leg of a plan: a line from start to goal no faster than VMax.
Plan == [serial: Nat, leg: {1, 2}, start: Int, goal: Int, duration: Nat \ {0}]
NoFasterThanVMax(p) == Abs(p.goal - p.start) <= VMax * p.duration

Message == [serial: Nat, start_q: Int, end_q: Int, duration: Nat \ {0},
            has_leg2: BOOLEAN, leg2_end_q: Int, leg2_duration: Nat \ {0}]

\* on_computed_plan: the two legs of a message.
Leg1(msg) == [serial |-> msg.serial, leg |-> 1, start |-> msg.start_q,
              goal |-> msg.end_q, duration |-> msg.duration]
Leg2(msg) == [serial |-> msg.serial, leg |-> 2, start |-> msg.end_q,
              goal |-> msg.leg2_end_q, duration |-> msg.leg2_duration]

ASSUME MessagesAssumption ==
  /\ Messages \subseteq Message
  /\ \A msg \in Messages :
       NoFasterThanVMax(Leg1(msg)) /\ NoFasterThanVMax(Leg2(msg))

ASSUME NoneAssumption == None \notin Plan /\ None \notin Int

VARIABLES
  q,          \* state_by_motor: the newest feedback position
  stateAge,   \* time since that feedback; StateTimeout + 1: stale or none
  pending,    \* _pending_plan
  queuedLeg2, \* _queued_leg2
  active,     \* the plan being executed
  vt,         \* _vt_elapsed_s: trajectory time, slowed down by the warp
  gap,        \* time since _vt_last_wall_s
  prevErr,    \* _prev_max_err: tracking error of the last command
  stall,      \* _warp_stall_s
  hold,       \* _hold_q
  cmd,        \* the position of the last /motor_cmd_array
  status      \* the last /plan/status of this node

vars == <<q, stateAge, pending, queuedLeg2, active, vt, gap, prevErr, stall,
          hold, cmd, status>>
motion == <<active, vt, gap, prevErr, stall, hold, cmd, status>>

Init ==
  /\ q = 0 /\ stateAge = StateTimeout + 1
  /\ pending = None /\ queuedLeg2 = None /\ active = None
  /\ vt = 0 /\ gap = 0 /\ prevErr = 0 /\ stall = 0
  /\ hold = None /\ cmd = None /\ status = "IDLE"

-----------------------------------------------------------------------------
(* Subscriptions *)

OnStateArray(position) ==
  /\ q' = position
  /\ stateAge' = 0
  /\ UNCHANGED <<pending, queuedLeg2, motion>>

\* Mutant: a message with one leg leaves the queue alone.
OnComputedPlan_KeepsLeg2(msg) ==
  /\ pending' = Leg1(msg)
  /\ queuedLeg2' = IF msg.has_leg2 THEN Leg2(msg) ELSE queuedLeg2
  /\ UNCHANGED <<q, stateAge, motion>>

\* Both slots are replaced under one lock, whatever is being executed.
OnComputedPlan(msg) ==
  /\ pending' = Leg1(msg)
  /\ queuedLeg2' = IF msg.has_leg2 THEN Leg2(msg) ELSE None
  /\ UNCHANGED <<q, stateAge, motion>>

-----------------------------------------------------------------------------
(* on_timer: nothing happens while the feedback is stale *)

TimerRuns == stateAge <= StateTimeout

\* Mutant: the plan is executed as it came.
Committed_NoRewarp(p) == p

\* _commit_plan: a plan that does not start where the arm is, is rebuilt from
\* there to the same goal, at least as long.
Committed(p) ==
  IF q = p.start THEN p
  ELSE [p EXCEPT !.start = q,
                 !.duration = MaxOf(p.duration, (Abs(p.goal - q) + VMax - 1) \div VMax)]

FullSpeed == WarpHi - WarpLo
Length(p) == p.duration * FullSpeed

\* sample_quintic, clipped to the end of the plan.
Sample(p, t) ==
  p.start + ((p.goal - p.start) * MinOf(t, Length(p))) \div Length(p)

\* _compute_warp, in parts of FullSpeed.
Speed(err) ==
  IF err <= WarpLo THEN FullSpeed ELSE IF err >= WarpHi THEN 0 ELSE WarpHi - err

NewVt == vt + gap * Speed(prevErr)

\* Mutant: every slow tick starts the count again.
NewStall_Restarts == IF 20 * Speed(prevErr) < FullSpeed THEN gap ELSE 0

\* The time the warp has been below 0.05 without a break.
NewStall == IF 20 * Speed(prevErr) < FullSpeed THEN stall + gap ELSE 0
StallOver == NewStall >= StallTimeout /\ 20 * Speed(prevErr) < FullSpeed

Commit(p) ==
  /\ active' = Committed(p)
  /\ vt' = 0 /\ gap' = 0 /\ stall' = 0
  /\ hold' = None
  /\ cmd' = Clamp(Sample(Committed(p), 0))
  /\ status' = "EXECUTING"

\* Mutant: the slot is not emptied.
CommitPending_KeepsPending ==
  /\ TimerRuns
  /\ pending # None
  /\ Commit(pending)
  /\ prevErr' = Abs(q - Sample(Committed(pending), 0))
  /\ UNCHANGED <<q, stateAge, pending, queuedLeg2>>

\* A new plan takes over at once; its first command is its first sample.
CommitPending ==
  /\ TimerRuns
  /\ pending # None
  /\ pending' = None
  /\ Commit(pending)
  /\ prevErr' = Abs(q - Sample(Committed(pending), 0))
  /\ UNCHANGED <<q, stateAge, queuedLeg2>>

\* Two timer callbacks are at least a period apart.
Following == TimerRuns /\ pending = None /\ active # None /\ gap > 0

Follow ==
  /\ Following
  /\ ~StallOver
  /\ NewVt < Length(active)
  /\ vt' = NewVt /\ gap' = 0 /\ stall' = NewStall
  /\ cmd' = Clamp(Sample(active, NewVt))
  /\ prevErr' = Abs(q - Sample(active, NewVt))
  /\ UNCHANGED <<q, stateAge, pending, queuedLeg2, active, hold, status>>

\* The plan is given up where it stands; a queued second leg stays queued.
Stall ==
  /\ Following
  /\ StallOver
  /\ hold' = Sample(active, NewVt)
  /\ cmd' = Clamp(Sample(active, NewVt))
  /\ active' = None
  /\ vt' = NewVt /\ gap' = 0 /\ prevErr' = 0 /\ stall' = 0
  /\ status' = "FAIL"
  /\ UNCHANGED <<q, stateAge, pending, queuedLeg2>>

LegOver == Following /\ ~StallOver /\ NewVt >= Length(active)

\* The end of leg 1 starts leg 2 in the same callback.
StartLeg2 ==
  /\ LegOver
  /\ queuedLeg2 # None
  /\ queuedLeg2' = None
  /\ Commit(queuedLeg2)
  /\ prevErr' = 0
  /\ UNCHANGED <<q, stateAge, pending>>

\* The end of the last leg holds the arm where it is.
Finish ==
  /\ LegOver
  /\ queuedLeg2 = None
  /\ active' = None
  /\ hold' = q
  /\ cmd' = Clamp(q)
  /\ vt' = NewVt /\ gap' = 0 /\ prevErr' = 0 /\ stall' = 0
  /\ status' = "DONE"
  /\ UNCHANGED <<q, stateAge, pending, queuedLeg2>>

Hold ==
  /\ TimerRuns
  /\ pending = None /\ active = None
  /\ stall' = 0
  /\ cmd' = Clamp(IF hold = None THEN q ELSE hold)
  /\ UNCHANGED <<q, stateAge, pending, queuedLeg2, active, vt, gap, prevErr,
                 hold, status>>

OnTimer == CommitPending \/ Follow \/ Stall \/ StartLeg2 \/ Finish \/ Hold

-----------------------------------------------------------------------------
(* Time: an age stops counting where the code stops telling it apart, and    *)
(* _vt_last_wall_s is read only while a plan is active.                      *)

Tick ==
  /\ stateAge' = MinOf(stateAge + 1, StateTimeout + 1)
  /\ gap' = IF active = None THEN gap ELSE MinOf(gap + 1, GapCap)
  /\ UNCHANGED <<q, pending, queuedLeg2, active, vt, prevErr, stall, hold, cmd,
                 status>>

Next ==
  \/ \E position \in Positions : OnStateArray(position)
  \/ \E msg \in Messages : OnComputedPlan(msg)
  \/ CommitPending \/ Follow \/ Stall \/ StartLeg2 \/ Finish \/ Hold
  \/ Tick

Spec == Init /\ [][Next]_vars

\* Feedback keeps coming (the timer is enabled again and again, if not
\* always), the 250 Hz timer runs, and time passes.
Fairness ==
  /\ WF_vars(\E position \in Positions : OnStateArray(position))
  /\ SF_vars(OnTimer)
  /\ WF_vars(Tick)

FairSpec == Spec /\ Fairness

-----------------------------------------------------------------------------
(* Properties *)

TypeOK ==
  /\ q \in Int /\ stateAge \in 0 .. StateTimeout + 1
  /\ pending \in Plan \cup {None}
  /\ queuedLeg2 \in Plan \cup {None}
  /\ active \in Plan \cup {None}
  /\ vt \in Nat /\ gap \in Nat /\ prevErr \in Nat /\ stall \in Nat
  /\ hold \in Int \cup {None} /\ cmd \in (QLo .. QHi) \cup {None}
  /\ status \in {"IDLE", "EXECUTING", "DONE", "FAIL"}

\* The commanded position moves no faster than VMax allows for the time since
\* the last command, or goes to where the arm is: through new plans in the
\* middle of others, second legs, stalls, ends, and gaps in the feedback that
\* silence the timer for a while.
CommandNeverJumps ==
  [][cmd # None => \/ cmd' = Clamp(q)
                   \/ Abs(cmd' - cmd) <= VMax * gap]_cmd

\* A second leg runs only right after the first leg of the same plan, however
\* plans, stalls and newer plans with and without a second leg interleave.
LegsBelongTogether ==
  [][active' # None /\ active'.leg = 2 =>
       /\ active # None
       /\ active.serial = active'.serial]_active

\* DONE and FAIL answer an execution: once one of them was said, only a newly
\* committed plan can lead to another.
EndsOncePerExecution ==
  [][status' \in {"DONE", "FAIL"} => status = "EXECUTING"]_status

\* An arm that lost its trajectory by WarpHi or more when it was last
\* commanded is not reported DONE, and does not start a second leg.
DoneOnlyWhileTracking ==
  [][active # None /\ pending = None /\ active' # active /\ status' # "FAIL" =>
       prevErr < WarpHi]_active

\* Once no more plans come, the execution ends, DONE or FAIL, even when the arm
\* never catches up.
ExecutionEnds == <>[](pending = None) => <>[](active = None)

\* The inductive strengthening of LegsBelongTogether: a queued second leg is
\* that of the pending plan or, when none is pending, of the active one, which
\* is then in its first leg.
LegsInv ==
  /\ pending # None => /\ pending.leg = 1
                       /\ queuedLeg2 # None => queuedLeg2.serial = pending.serial
  /\ pending = None /\ active # None /\ queuedLeg2 # None =>
       /\ active.leg = 1
       /\ active.serial = queuedLeg2.serial
  /\ queuedLeg2 # None => queuedLeg2.leg = 2
  /\ active # None <=> status = "EXECUTING"

\* What DoneOnlyWhileTracking needs: the trajectory time of an active plan is
\* short of its end.
ProgressInv == active # None => vt < Length(active)

\* What CommandNeverJumps needs: no plan in a slot is faster than VMax, and the
\* last command is where the active plan, or the hold, was last sampled.
CommandInv ==
  /\ \A p \in {pending, queuedLeg2, active} \ {None} : NoFasterThanVMax(p)
  /\ active # None => cmd = Clamp(Sample(active, vt))
  /\ active = None /\ hold # None => cmd = Clamp(hold)

=============================================================================
