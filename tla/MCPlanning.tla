----------------------------- MODULE MCPlanning -----------------------------
(* From a target to a motion: the two nodes with their threads, messages and *)
(* legs; what one thread does in plan_motion; and the inverse kinematics the *)
(* motion nodes call.  The nodes see of plan_motion only its outcome, and    *)
(* the motion nodes do not run beside them, so that each is looked at by     *)
(* itself.                                                                   *)
(*                                                                           *)
(* Instances for TLC: targets at the top of the joint's range, reached       *)
(* directly, over a tuck pose at the bottom, or not at all; problems         *)
(* of up to three poses that reach the target or do not; and targets that    *)
(* one pose reaches, or one and a turn of it, or none.                       *)
EXTENDS PlanPipeline, Planner, InverseKinematics

VARIABLE part  \* which of them: pipeline, planner or ik

planningVars == <<part, pipelineVars, plannerVars, ikVars>>

NoPlanner == PlannerStart(Nowhere)
NoIk == IkStart(Nowhere, Nowhere, Nowhere)

PlanningInit ==
  /\ PipelineInit
  /\ \/ part = "pipeline" /\ NoPlanner /\ NoIk
     \/ part = "planner" /\ PlannerInit /\ NoIk
     \/ part = "ik" /\ NoPlanner /\ IkInit

InPipeline(Step) == part = "pipeline" /\ Step /\ UNCHANGED <<part, plannerVars, ikVars>>

PlanningNext ==
  \/ InPipeline(PipelineNext)
  \/ part = "planner" /\ PlannerNext /\ UNCHANGED <<part, pipelineVars, ikVars>>
  \/ part = "ik" /\ IkNext /\ UNCHANGED <<part, pipelineVars, plannerVars>>

PlanningSpec == PlanningInit /\ [][PlanningNext]_planningVars

\* Threads go on, messages and feedback arrive, the timer runs and time passes.
PlanningFairSpec ==
  /\ PlanningSpec
  /\ \A s \in 1 .. MaxTargets : WF_pipelineVars(InPipeline(ThreadRuns(s)))
  /\ WF_pipelineVars(InPipeline(Deliver)) /\ WF_pipelineVars(InPipeline(Feedback))
  /\ SF_pipelineVars(InPipeline(OnTimer /\ UNCHANGED computeVars))
  /\ WF_pipelineVars(InPipeline(Tick /\ UNCHANGED computeVars))

-----------------------------------------------------------------------------
(* plan_compute_node and plan_node *)

\* plan_motion's three results.  The durations suit every start in Starts.
Direct == [safe |-> TRUE, legs |-> 1, end_q |-> QHi, duration |-> QHi - QLo,
           leg2_end_q |-> QHi, leg2_duration |-> 1]
Folded == [safe |-> TRUE, legs |-> 2, end_q |-> QLo, duration |-> QHi - QLo,
           leg2_end_q |-> QHi, leg2_duration |-> QHi - QLo]
Colliding == [Direct EXCEPT !.safe = FALSE]

MCOutcomes == {Direct, Folded, Colliding}
MCPositions == {QLo, QHi}

-----------------------------------------------------------------------------
(* plan_motion *)

At(base, reach, wrist) == [base |-> base, reach |-> reach, wrist |-> wrist]
Reaches(pose) == [success |-> TRUE, q |-> pose, residual |-> 0]
Near(pose, residual) == [success |-> FALSE, q |-> pose, residual |-> residual]

\* A folded arm, and a stretched one on the other side.
MCStarts == {At(0, 1, -1), At(0, -2, 1)}

\* One pose; a singular one and one that is close enough; a miss and a singular
\* one; only a miss; more poses than are checked; and a retracted wrist.
MCSolutions == {
  <<Reaches(At(1, 1, -1))>>,
  <<Reaches(At(2, 2, -1)), Near(At(1, -1, 1), 1)>>,
  <<Near(At(2, 1, -1), 3), Near(At(0, 2, 1), 1)>>,
  <<Near(At(1, 1, -1), 2)>>,
  <<Reaches(At(2, 1, -1)), Reaches(At(1, -1, 1)), Reaches(At(2, -1, 1))>>,
  <<Reaches(At(2, 1, 0)), Reaches(At(2, 1, -1))>>}

-----------------------------------------------------------------------------
(* Inverse kinematics *)

MCLower == -2

MCGoals == {[p \in Poses |-> IF p = 1 THEN 0 ELSE IF p \in {-1, 2} THEN 1 ELSE 3],
            [p \in Poses |-> Apart(p, 2)], [p \in Poses |-> 3]}

Asks(ref, measured, restarts, heuristic, residual, jump) ==
  [ref |-> ref, measured |-> measured, restarts |-> restarts, heuristic |-> heuristic,
   residual |-> residual, jump |-> jump]

MCPolicies == {Asks(0, NotMeasured, 0, 2, 1, 0), Asks(3, -2, 0, 1, 1, 1),
               Asks(-1, NotMeasured, 1, 2, 0, 1)}

=============================================================================
