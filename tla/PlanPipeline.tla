----------------------------- MODULE PlanPipeline -----------------------------
(***************************************************************************)
(* plan_compute_node and plan_node, joined by /computed_plan.  Both nodes  *)
(* follow the same feedback, so a plan starts where the arm was when its   *)
(* target came.                                                            *)
(***************************************************************************)
EXTENDS PlanNode, PlanCompute

pipelineVars == <<vars, computeVars>>

PipelineInit == Init /\ ComputeInit

\* A target is planned for only while the feedback is fresh.
NewTarget == TimerRuns /\ OnTarget(q) /\ UNCHANGED vars

\* The topic is reliable and ordered, and never holds its depth of 10.
Deliver ==
  /\ computed # <<>>
  /\ OnComputedPlan(Head(computed))
  /\ computed' = Tail(computed)
  /\ UNCHANGED <<latest, thread>>

\* A planning thread goes on.
ThreadRuns(s) ==
  /\ \/ \E outcome \in Outcomes : FinishPlanning(s, outcome)
     \/ Publish(s)
  /\ UNCHANGED vars

Feedback == \E position \in Positions : OnStateArray(position) /\ UNCHANGED computeVars

PipelineNext ==
  \/ NewTarget
  \/ \E s \in 1 .. MaxTargets :
       \/ \E outcome \in Outcomes : FinishPlanning(s, outcome) /\ UNCHANGED vars
       \/ Publish(s) /\ UNCHANGED vars
  \/ Deliver
  \/ Feedback
  \/ OnTimer /\ UNCHANGED computeVars
  \/ Tick /\ UNCHANGED computeVars

PipelineSpec == PipelineInit /\ [][PipelineNext]_pipelineVars

-----------------------------------------------------------------------------
(* The pipeline as a service *)

\* The job of a target is planned by its thread, waits on its way to plan_node
\* or there, and is executed.
Planned(s) == thread[s].stage \in {"planning", "current"}
Sent(s) == \E i \in 1 .. Len(computed) : computed[i].serial = s
Waits(s) == Sent(s) \/ (pending # None /\ pending.serial = s)
Runs(s) == active # None /\ active.serial = s

\* A job is planned before it waits, and waits before it runs.
JobStage(s) ==
  IF Planned(s) THEN "planning"
  ELSE IF Waits(s) THEN "ready"
  ELSE IF Runs(s) THEN "running" ELSE "free"

Service == INSTANCE PlanService WITH
  Jobs <- 1 .. MaxTargets, NoJob <- 0,
  job <- [s \in 1 .. MaxTargets |-> JobStage(s)], newest <- latest

-----------------------------------------------------------------------------
(* Properties *)

Delivered(s) == thread[s].stage = "published" /\ ~Sent(s)

\* "Discard stale (newer target arrived)": plan_node never starts a plan when
\* the plan of a newer target has reached it already.
NewestPlanWins ==
  [][active' # None /\ active' # active =>
       \A s \in 1 .. MaxTargets : Delivered(s) => s <= active'.serial]_active

\* The two nodes with their threads, messages and legs are a plan service: a
\* target's plan is run at most once and by itself, and what was discarded,
\* replaced, stalled or finished never moves the arm again.
ImplementsService == Service!ServiceSpec

\* Every thread ends, every plan that was published is taken up or replaced,
\* and the arm comes to a rest: nothing waits for anything for ever.
PipelineDrains ==
  <>[](/\ \A s \in 1 .. MaxTargets : thread[s].stage \notin {"planning", "current"}
       /\ computed = <<>> /\ pending = None /\ active = None)

\* What a thread knows at each stage.
Thread ==
  [stage: {"none", "stale", "failed", "published"}]
    \cup [stage: {"planning"}, start: Int, serial: Nat]
    \cup [stage: {"current"}, start: Int, serial: Nat, outcome: Outcomes]

\* Slots hold plans, the topic messages, and the serials given are those of the
\* threads.
PipelineTypeOK ==
  /\ q \in Int
  /\ {pending, queuedLeg2, active} \subseteq Plan \cup {None}
  /\ latest \in 0 .. MaxTargets
  /\ thread \in [1 .. MaxTargets -> Thread]
  /\ computed \in Seq(Message)

\* The inductive strengthening of ImplementsService.  A serial has a thread once
\* it was given, and the thread keeps it.
ThreadsInv ==
  \A s \in 1 .. MaxTargets :
    /\ s > latest <=> thread[s].stage = "none"
    /\ Planned(s) => thread[s].serial = s

\* A message is the only one of its thread, which has ended with it.
MessagesInv ==
  /\ \A i \in 1 .. Len(computed) :
       /\ computed[i].serial \in 1 .. MaxTargets
       /\ thread[computed[i].serial].stage = "published"
  /\ \A i, k \in 1 .. Len(computed) : computed[i].serial = computed[k].serial => i = k

\* The plans in the slots have arrived, the one that waits is another one than the
\* one that runs, and a second leg follows the first leg of its own plan.
SlotsInv ==
  /\ \A p \in {pending, active} \ {None} :
       p.serial \in 1 .. MaxTargets /\ Delivered(p.serial)
  /\ pending # None /\ active # None => pending.serial # active.serial
  /\ pending # None /\ queuedLeg2 # None => queuedLeg2.serial = pending.serial
  /\ pending = None /\ active # None /\ queuedLeg2 # None =>
       queuedLeg2.serial = active.serial

PipelineInv == PipelineTypeOK /\ ThreadsInv /\ MessagesInv /\ SlotsInv

=============================================================================
