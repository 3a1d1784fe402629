----------------------------- MODULE PlanService -----------------------------
(***************************************************************************)
(* What plan_compute_node and plan_node promise together: a target becomes *)
(* a job that is planned, then ready, then run, each at most once and in   *)
(* this order, and at most one job is run at a time.  A job can end at any *)
(* stage, and one that has ended stays so until its name is used for a new *)
(* target.                                                                 *)
(***************************************************************************)
CONSTANTS Jobs, NoJob

ASSUME JobsAssumption == NoJob \notin Jobs

VARIABLES
  job,    \* the stage of every job
  newest  \* the job of the last target

serviceVars == <<job, newest>>

ServiceInit ==
  /\ job = [j \in Jobs |-> "free"]
  /\ newest = NoJob

Accept(j) ==
  /\ job[j] = "free"
  /\ job' = [job EXCEPT ![j] = "planning"]
  /\ newest' = j

\* A plan that a newer target made useless.
Discard(j) ==
  /\ job[j] = "planning" /\ j # newest
  /\ job' = [job EXCEPT ![j] = "free"]
  /\ UNCHANGED newest

\* No plan was found.
PlanFails(j) ==
  /\ job[j] = "planning"
  /\ job' = [job EXCEPT ![j] = "free"]
  /\ UNCHANGED newest

PlanReady(j) ==
  /\ job[j] = "planning"
  /\ job' = [job EXCEPT ![j] = "ready"]
  /\ UNCHANGED newest

\* A plan that is waiting is replaced by another one.
Replace(j) ==
  /\ job[j] = "ready"
  /\ \E k \in Jobs \ {j} : job[k] = "ready"
  /\ job' = [job EXCEPT ![j] = "free"]
  /\ UNCHANGED newest

\* A plan starts, and ends the one that is run.
Start(j) ==
  /\ job[j] = "ready"
  /\ job' = [k \in Jobs |->
               IF k = j THEN "running"
               ELSE IF job[k] = "running" THEN "free" ELSE job[k]]
  /\ UNCHANGED newest

\* The run is over: done, or given up.
End(j) ==
  /\ job[j] = "running"
  /\ job' = [job EXCEPT ![j] = "free"]
  /\ UNCHANGED newest

Progress(j) ==
  Discard(j) \/ PlanFails(j) \/ PlanReady(j) \/ Replace(j) \/ Start(j) \/ End(j)

ServiceNext == \E j \in Jobs : Accept(j) \/ Progress(j)

ServiceSpec == ServiceInit /\ [][ServiceNext]_serviceVars

=============================================================================
