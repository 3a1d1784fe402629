------------------------------ MODULE PickPlace ------------------------------
(***************************************************************************)
(* The pick-and-place system: task_fsm_node, the grasp service that        *)
(* gripper_node implements, and the plan service that plan_compute_node    *)
(* and plan_node implement, joined by targets, plan statuses, gripper      *)
(* calls, grasp verdicts and drop messages.                                *)
(*                                                                         *)
(* Each topic is a queue in the order of publication; the two publishers   *)
(* of /plan/status share one.  The services of the gripper are called in   *)
(* the order of the calls.                                                 *)
(***************************************************************************)
EXTENDS TaskFsm, GraspService, PlanService

CONSTANTS
  StatusCap,  \* bound on the plan statuses that are on their way
  QueueCap    \* bound on the messages of each other topic that are

ASSUME CompositionAssumption == StatusCap \in Nat \ {0} /\ QueueCap \in Nat \ {0}

VARIABLES
  statuses,  \* /plan/status
  verdicts,  \* /gripper/grasp_success
  drops,     \* /gripper/drop_detected
  doneHeard, \* history: DONE was heard since the FSM entered its state
  trouble    \* history: in this task a plan failed or an execution stalled, a target
              \* was ignored, or a grasp was not called

history == <<doneHeard, trouble>>
topics == <<statuses, verdicts, drops, history>>
pickVars == <<fsmVars, graspVars, serviceVars, topics>>

PickInit ==
  /\ FsmInit /\ GraspInit /\ ServiceInit
  /\ statuses = <<>> /\ verdicts = <<>> /\ drops = <<>>
  /\ doneHeard = FALSE /\ trouble = FALSE

HasRoom(topic) == Len(topic) < QueueCap

-----------------------------------------------------------------------------
(* task_fsm_node *)

NewTask ==
  /\ OnTaskCommand
  /\ doneHeard' = FALSE /\ trouble' = FALSE
  /\ UNCHANGED <<graspVars, serviceVars, statuses, verdicts, drops>>

FsmTimer ==
  /\ HasRoom(targets) /\ HasRoom(calls)
  /\ OnFsmTimer
  /\ doneHeard' = (doneHeard /\ fsm' = fsm)
  /\ trouble' = (trouble \/ (fsm = "GRASP_CLOSE" /\ FirstTick /\ calls' = calls))
  /\ UNCHANGED <<graspVars, serviceVars, statuses, verdicts, drops>>

HearStatus ==
  /\ statuses # <<>>
  /\ OnPlanStatus(Head(statuses))
  /\ statuses' = Tail(statuses)
  /\ doneHeard' = (doneHeard \/ Head(statuses) = "DONE")
  /\ UNCHANGED <<graspVars, serviceVars, verdicts, drops, trouble>>

HearVerdict ==
  /\ verdicts # <<>>
  /\ OnGraspSuccess(Head(verdicts))
  /\ verdicts' = Tail(verdicts)
  /\ UNCHANGED <<graspVars, serviceVars, statuses, drops, history>>

HearDrop ==
  /\ drops # <<>>
  /\ OnDropDetected
  /\ drops' = Tail(drops)
  /\ UNCHANGED <<graspVars, serviceVars, statuses, verdicts, history>>

-----------------------------------------------------------------------------
(* The plan service *)

Say(status) ==
  /\ Len(statuses) < StatusCap
  /\ statuses' = Append(statuses, status)
Silent == UNCHANGED statuses

TakeTarget ==
  /\ targets # <<>>
  /\ targets' = Tail(targets)
  /\ \/ \E j \in Jobs : Accept(j) /\ Say("PLANNING") /\ UNCHANGED trouble
     \/ Silent /\ trouble' = TRUE /\ UNCHANGED serviceVars
  /\ UNCHANGED <<fsm, ticks, retries, planStatus, verdict, dropSeen, calls,
                 graspVars, verdicts, drops, doneHeard>>

JobStep(j) ==
  /\ \/ /\ \/ (Discard(j) \/ PlanReady(j) \/ Replace(j)) /\ Silent
           \/ Start(j) /\ Say("EXECUTING")
           \/ End(j) /\ Say("DONE")
        /\ UNCHANGED trouble
     \/ /\ PlanFails(j) \/ End(j)
        /\ Say("FAIL")
        /\ trouble' = TRUE
  /\ UNCHANGED <<fsmVars, graspVars, verdicts, drops, doneHeard>>

-----------------------------------------------------------------------------
(* gripper_node *)

GripperCalled ==
  /\ calls # <<>>
  /\ \/ Head(calls) = "open" /\ OpenHand
     \/ Head(calls) = "close" /\ CloseHand
  /\ calls' = Tail(calls)
  /\ UNCHANGED <<fsm, ticks, retries, planStatus, verdict, dropSeen, targets,
                 serviceVars, topics>>

GripperTimer ==
  /\ HasRoom(verdicts) /\ HasRoom(drops)
  /\ \/ \E success \in BOOLEAN :
          Judge(success) /\ verdicts' = Append(verdicts, success) /\ UNCHANGED drops
     \/ LoseGrasp /\ drops' = Append(drops, TRUE) /\ UNCHANGED verdicts
  /\ UNCHANGED <<fsmVars, serviceVars, statuses, history>>

PickNext ==
  \/ NewTask \/ FsmTimer \/ HearStatus \/ HearVerdict \/ HearDrop
  \/ TakeTarget \/ \E j \in Jobs : JobStep(j)
  \/ GripperCalled \/ GripperTimer

PickSpec == PickInit /\ [][PickNext]_pickVars

\* Timers run, messages arrive, and every job moves on.
PickFairSpec ==
  /\ PickSpec
  /\ WF_pickVars(FsmTimer) /\ WF_pickVars(HearStatus)
  /\ WF_pickVars(HearVerdict) /\ WF_pickVars(HearDrop)
  /\ WF_pickVars(TakeTarget) /\ \A j \in Jobs : WF_pickVars(JobStep(j))
  /\ WF_pickVars(GripperCalled) /\ WF_pickVars(GripperTimer)

-----------------------------------------------------------------------------
(* Properties *)

\* What /plan/status can say, what a target is sent for.
Statuses == {"IDLE", "PLANNING", "EXECUTING", "DONE", "FAIL"}
Purposes == {"ready", "approach", "grasp", "lift", "pre_place", "place", "retract"}

\* The FSM leaves GRASP_CLOSE on the gripper's verdict about the close it has
\* called in this attempt: not on one left over from an earlier attempt or
\* task, nor while the jaw still closes.
JudgedBeforeGoingOn ==
  [][fsm = "GRASP_CLOSE" /\ fsm' # fsm =>
       calls = <<>> /\ hand # "closing" /\ closed]_fsm

\* The FSM takes a move as done only on a DONE it heard while in that state:
\* one DONE never counts for two moves, through drops, retries and new tasks
\* with plans of earlier states still running.
MovesAwaitTheirDone ==
  [][(fsm \in Moves /\ fsm' = AfterMove[fsm]) => doneHeard]_fsm

\* A task ends: the grasps that fail and the drops are retried no more than
\* max_retries times, and plans left over from an earlier task do no harm;
\* unless in this task a plan fails, a target is ignored or the gripper's
\* service is not there for a grasp.
TaskEnds == fsm # "IDLE" ~> fsm \in {"IDLE", "DONE", "FAIL"} \/ trouble

\* "Any state -> RECOVERY -> READY (retry, max 3) or FAIL": a plan that fails
\* does not leave the task where it is.
PlanFailureIsLeft ==
  fsm \in Moves /\ planStatus = "FAIL" ~> fsm \notin Moves \/ planStatus # "FAIL"

\* The task is in one of its states, every topic carries what its publisher can
\* send, and every planning job is at one stage.
PickTypeOK ==
  /\ fsm \in FsmStates /\ ticks \in Nat /\ retries \in Nat
  /\ planStatus \in Statuses /\ verdict \in BOOLEAN \cup {Unknown}
  /\ dropSeen \in BOOLEAN /\ doneHeard \in BOOLEAN /\ trouble \in BOOLEAN
  /\ targets \in Seq(Purposes) /\ calls \in Seq({"open", "close"})
  /\ statuses \in Seq(Statuses) /\ verdicts \in Seq(BOOLEAN) /\ drops \in Seq({TRUE})
  /\ hand \in {"idle", "closing", "holding"} /\ closed \in BOOLEAN
  /\ report \in {"none", "success", "failure", "drop"}
  /\ job \in [Jobs -> {"free", "planning", "ready", "running"}]
  /\ newest \in Jobs \cup {NoJob}

\* The inductive strengthening of MovesAwaitTheirDone: a DONE that counts was
\* heard in this state, because every transition resets the status.
DoneInv == planStatus = "DONE" => doneHeard

\* That of JudgedBeforeGoingOn: a close is on its way, done, judged and heard
\* only between the call and the end of the state that made it, and is at one of
\* these at a time.
Judging == fsm = "GRASP_CLOSE" /\ ticks # 0
CloseIsDue == \E i \in 1..Len(calls) : calls[i] = "close"
GraspInv ==
  /\ ~Judging => ~CloseIsDue /\ hand # "closing" /\ verdicts = <<>>
  /\ Judging =>
       /\ \A i \in 1..Len(calls) : calls[i] = "close" => i = Len(calls)
       /\ CloseIsDue => hand # "closing" /\ verdicts = <<>> /\ verdict = Unknown
       /\ hand = "closing" => verdicts = <<>> /\ verdict = Unknown
       /\ verdicts # <<>> => Len(verdicts) = 1 /\ verdict = Unknown
       /\ hand = "closing" \/ verdicts # <<>> \/ verdict # Unknown =>
            calls = <<>> /\ closed

PickInv == DoneInv /\ GraspInv

=============================================================================
