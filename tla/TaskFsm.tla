------------------------------- MODULE TaskFsm -------------------------------
(***************************************************************************)
(* task_fsm_node: walks through a pick-and-place task.                     *)
(*                                                                         *)
(* A 10 Hz timer advances the state; in a state that moves the arm its     *)
(* first tick sends a target and later ticks wait for the plan status      *)
(* DONE, in a state that uses the gripper the first tick calls a service.  *)
(* Callbacks note the last plan status, the last grasp verdict and drops.  *)
(*                                                                         *)
(* Targets are abstracted to what they are for.  The height of a stack is  *)
(* left out: _stack_count is 0 whenever a place target is sent.            *)
(***************************************************************************)
EXTENDS Integers, Sequences

CONSTANTS
  MaxRetries,    \* max_retries
  VerifyTicks,   \* grasp_verify_ticks
  ServiceReady,  \* what service_is_ready may say
  Unknown        \* no verdict yet

ASSUME FsmAssumption ==
  /\ MaxRetries \in Nat \ {0} /\ VerifyTicks \in Nat \ {0}
  /\ ServiceReady \subseteq BOOLEAN /\ Unknown \notin BOOLEAN

VARIABLES
  fsm,        \* _state
  ticks,      \* _state_ticks, counted as far as the state tells apart
  retries,    \* _retry_count
  planStatus, \* _plan_status
  verdict,    \* _grasp_success
  dropSeen,   \* _drop_detected
  targets,    \* /ee_target, on its way to plan_compute_node
  calls       \* gripper service calls on their way

fsmVars == <<fsm, ticks, retries, planStatus, verdict, dropSeen, targets, calls>>

\* What is sent in the states that move the arm, and where they lead.
MoveOf == [PRE_GRASP |-> "approach", GRASP_DESCEND |-> "grasp", LIFT |-> "lift",
           PRE_PLACE |-> "pre_place", PLACE_DESCEND |-> "place",
           RETRACT |-> "retract"]
AfterMove == [PRE_GRASP |-> "GRASP_DESCEND", GRASP_DESCEND |-> "GRASP_CLOSE",
              LIFT |-> "DETECT_PLACE", PRE_PLACE |-> "PLACE_DESCEND",
              PLACE_DESCEND |-> "GRASP_OPEN", RETRACT |-> "DONE"]
Moves == DOMAIN MoveOf
Waits == {"GRASP_CLOSE", "VERIFY_GRASP", "GRASP_OPEN", "RECOVERY"}
Passes == {"PARSE", "READY", "DETECT_PICK", "DETECT_PLACE", "DONE"}
Rests == {"IDLE", "FAIL"}
FsmStates == Moves \cup Waits \cup Passes \cup Rests

\* The ticks a state waits for, once its first one has done its work.
LastTick == [s \in FsmStates |->
  CASE s = "VERIFY_GRASP" -> VerifyTicks [] s = "GRASP_OPEN" -> 5
    [] s = "RECOVERY" -> 3 [] s \in Moves \cup {"GRASP_CLOSE"} -> 2 [] OTHER -> 1]

FsmInit ==
  /\ fsm = "IDLE" /\ ticks = 0 /\ retries = 0
  /\ planStatus = "IDLE" /\ verdict = Unknown /\ dropSeen = FALSE
  /\ targets = <<>> /\ calls = <<>>

-----------------------------------------------------------------------------
(* Subscriptions *)

\* Mutant: the plan status outlives the state it answered.
Transition_KeepsStatus(s) == fsm' = s /\ ticks' = 0 /\ UNCHANGED planStatus

Transition(s) == fsm' = s /\ ticks' = 0 /\ planStatus' = "IDLE"

OnTaskCommand ==
  /\ fsm \in {"IDLE", "DONE", "FAIL"}
  /\ Transition("PARSE")
  /\ retries' = 0
  /\ UNCHANGED <<verdict, dropSeen, targets, calls>>

OnPlanStatus(status) ==
  /\ planStatus' = status
  /\ UNCHANGED <<fsm, ticks, retries, verdict, dropSeen, targets, calls>>

OnGraspSuccess(success) ==
  /\ verdict' = success
  /\ UNCHANGED <<fsm, ticks, retries, planStatus, dropSeen, targets, calls>>

OnDropDetected ==
  /\ dropSeen' = TRUE
  /\ UNCHANGED <<fsm, ticks, retries, planStatus, verdict, targets, calls>>

-----------------------------------------------------------------------------
(* _on_timer.  ticks holds the count before the callback adds one to it. *)

Ticked == ticks' = IF ticks < LastTick[fsm] THEN ticks + 1 ELSE ticks
FirstTick == ticks = 0

\* _call_gripper: no call is made while the service is not there.
CallGripper(what) ==
  \E ready \in ServiceReady : calls' = IF ready THEN Append(calls, what) ELSE calls

\* States that last one tick; READY sends a target it does not wait for.
Pass ==
  /\ fsm \in Passes
  /\ Transition(CASE fsm = "PARSE" -> "READY"
                  [] fsm = "READY" -> "DETECT_PICK"
                  [] fsm = "DETECT_PICK" -> "PRE_GRASP"
                  [] fsm = "DETECT_PLACE" -> "PRE_PLACE"
                  [] fsm = "DONE" -> "IDLE")
  /\ targets' = IF fsm = "READY" THEN Append(targets, "ready") ELSE targets
  /\ UNCHANGED <<retries, verdict, dropSeen, calls>>

SendMove ==
  /\ fsm \in Moves /\ FirstTick
  /\ Ticked
  /\ targets' = Append(targets, MoveOf[fsm])
  /\ dropSeen' = IF fsm = "LIFT" THEN FALSE ELSE dropSeen
  /\ UNCHANGED <<fsm, retries, planStatus, verdict, calls>>

DropEndsMove == fsm \in {"LIFT", "PRE_PLACE"} /\ dropSeen

AwaitMove ==
  /\ fsm \in Moves /\ ~FirstTick
  /\ \/ /\ DropEndsMove
        /\ Transition("RECOVERY")
     \/ /\ ~DropEndsMove /\ planStatus = "DONE"
        /\ Transition(AfterMove[fsm])
     \/ /\ ~DropEndsMove /\ planStatus # "DONE"
        /\ Ticked /\ UNCHANGED <<fsm, planStatus>>
  /\ UNCHANGED <<retries, verdict, dropSeen, targets, calls>>

\* Mutant: the verdict of the last grasp is still there.
StartGrasp_KeepsVerdict ==
  /\ fsm = "GRASP_CLOSE" /\ FirstTick
  /\ Ticked
  /\ CallGripper("close")
  /\ UNCHANGED <<fsm, retries, planStatus, verdict, dropSeen, targets>>

StartGrasp ==
  /\ fsm = "GRASP_CLOSE" /\ FirstTick
  /\ Ticked
  /\ verdict' = Unknown
  /\ CallGripper("close")
  /\ UNCHANGED <<fsm, retries, planStatus, dropSeen, targets>>

AwaitGrasp ==
  /\ fsm = "GRASP_CLOSE" /\ ~FirstTick
  /\ \/ verdict = Unknown /\ Ticked /\ UNCHANGED <<fsm, planStatus>>
     \/ verdict = TRUE /\ Transition("VERIFY_GRASP")
     \/ verdict = FALSE /\ Transition("RECOVERY")
  /\ UNCHANGED <<retries, verdict, dropSeen, targets, calls>>

Verify ==
  /\ fsm = "VERIFY_GRASP"
  /\ \/ ticks + 1 < VerifyTicks /\ Ticked /\ UNCHANGED <<fsm, planStatus>>
     \/ /\ ticks + 1 >= VerifyTicks
        /\ Transition(IF verdict = TRUE THEN "LIFT" ELSE "RECOVERY")
  /\ UNCHANGED <<retries, verdict, dropSeen, targets, calls>>

Release ==
  /\ fsm = "GRASP_OPEN"
  /\ \/ FirstTick /\ CallGripper("open") /\ Ticked /\ UNCHANGED <<fsm, planStatus>>
     \/ ~FirstTick /\ ticks + 1 < 5 /\ Ticked /\ UNCHANGED <<fsm, planStatus, calls>>
     \/ ticks + 1 >= 5 /\ Transition("RETRACT") /\ UNCHANGED calls
  /\ UNCHANGED <<retries, verdict, dropSeen, targets>>

\* Mutant: the retries of a task are not counted.
StartRecovery_Uncounted ==
  /\ fsm = "RECOVERY" /\ FirstTick
  /\ CallGripper("open")
  /\ IF retries + 1 >= MaxRetries
     THEN Transition("FAIL") ELSE Ticked /\ UNCHANGED <<fsm, planStatus>>
  /\ UNCHANGED <<retries, verdict, dropSeen, targets>>

StartRecovery ==
  /\ fsm = "RECOVERY" /\ FirstTick
  /\ CallGripper("open")
  /\ retries' = retries + 1
  /\ IF retries + 1 >= MaxRetries
     THEN Transition("FAIL") ELSE Ticked /\ UNCHANGED <<fsm, planStatus>>
  /\ UNCHANGED <<verdict, dropSeen, targets>>

Recover ==
  /\ fsm = "RECOVERY" /\ ~FirstTick
  /\ \/ ticks + 1 < 3 /\ Ticked /\ UNCHANGED <<fsm, planStatus>>
     \/ ticks + 1 >= 3 /\ Transition("READY")
  /\ UNCHANGED <<retries, verdict, dropSeen, targets, calls>>

OnFsmTimer ==
  \/ Pass \/ SendMove \/ AwaitMove \/ StartGrasp \/ AwaitGrasp \/ Verify
  \/ Release \/ StartRecovery \/ Recover

=============================================================================
