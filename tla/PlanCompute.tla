----------------------------- MODULE PlanCompute -----------------------------
(***************************************************************************)
(* plan_compute_node: plans a motion in a thread per target.               *)
(*                                                                         *)
(* A target callback numbers the target under _plan_lock and starts a      *)
(* thread.  Threads plan concurrently; each compares its number with the   *)
(* newest one under the lock when it is done, and publishes its result     *)
(* after the lock was released.                                            *)
(***************************************************************************)
EXTENDS Integers, Sequences

CONSTANTS
  MaxTargets,  \* bound on the targets received
  Outcomes     \* what plan_motion may return: see Outcome

\* No collision-free plan (unreachable, or only a colliding one), one leg, or
\* two.  Whatever the planner finds for a start, it is one of these.
Outcome == [safe: BOOLEAN, legs: {1, 2}, end_q: Int, duration: Nat \ {0},
            leg2_end_q: Int, leg2_duration: Nat \ {0}]

ASSUME ComputeAssumption ==
  MaxTargets \in Nat /\ Outcomes \subseteq Outcome

VARIABLES
  latest,   \* _plan_serial
  thread,   \* per serial: how far its thread is, where it starts, its result
  computed  \* /computed_plan, on its way to plan_node

computeVars == <<latest, thread, computed>>

Stage == {"none", "planning", "current", "stale", "failed", "published"}
NoThread == [stage |-> "none"]

ComputeInit ==
  /\ latest = 0
  /\ thread = [s \in 1 .. MaxTargets |-> NoThread]
  /\ computed = <<>>

\* _start_planning.  Without fresh feedback the target is ignored: no step.
OnTarget(start) ==
  /\ latest < MaxTargets
  /\ latest' = latest + 1
  /\ thread' = [thread EXCEPT ![latest + 1] =
                  [stage |-> "planning", start |-> start, serial |-> latest + 1]]
  /\ UNCHANGED computed

\* _bg_plan up to the release of the lock: plan, then compare the serials.
FinishPlanning(s, outcome) ==
  /\ thread[s].stage = "planning"
  /\ thread' = [thread EXCEPT ![s] =
       IF thread[s].serial # latest
       THEN [stage |-> "stale"]
       ELSE [stage |-> "current", start |-> @.start, serial |-> @.serial,
             outcome |-> outcome]]
  /\ UNCHANGED <<latest, computed>>

MessageOf(t) ==
  [serial |-> t.serial, start_q |-> t.start,
   end_q |-> t.outcome.end_q, duration |-> t.outcome.duration,
   has_leg2 |-> t.outcome.legs = 2,
   leg2_end_q |-> t.outcome.leg2_end_q, leg2_duration |-> t.outcome.leg2_duration]

\* The rest of _bg_plan: the plan, or the FAIL status.
Publish(s) ==
  /\ thread[s].stage = "current"
  /\ thread' = [thread EXCEPT ![s] =
       [stage |-> IF @.outcome.safe THEN "published" ELSE "failed"]]
  /\ computed' = IF thread[s].outcome.safe
                 THEN Append(computed, MessageOf(thread[s])) ELSE computed
  /\ UNCHANGED latest

=============================================================================
