---------------------------- MODULE PickPlaceProofs ----------------------------
(***************************************************************************)
(* Proofs about PickPlace, for any number of jobs and retries, any bounds  *)
(* of the topics, and whatever the services answer.                        *)
(***************************************************************************)
EXTENDS PickPlace, TLAPS

-----------------------------------------------------------------------------
(* Queues *)

\* A message goes to the end of its topic.
LEMMA AppendOf ==
  ASSUME NEW S, NEW s \in Seq(S), NEW e \in S
  PROVE  /\ Append(s, e) \in Seq(S) /\ Len(s) \in Nat
         /\ Len(Append(s, e)) = Len(s) + 1
         /\ Append(s, e)[Len(s) + 1] = e
         /\ \A i \in 1..Len(s) : Append(s, e)[i] = s[i]
OBVIOUS

\* The oldest message of a topic is taken first.
LEMMA TailOf ==
  ASSUME NEW S, NEW s \in Seq(S), s # <<>>
  PROVE  /\ Head(s) \in S /\ Head(s) = s[1]
         /\ Tail(s) \in Seq(S) /\ Len(s) \in Nat /\ Len(s) > 0
         /\ Len(Tail(s)) = Len(s) - 1
         /\ \A i \in 1..Len(Tail(s)) : Tail(s)[i] = s[i + 1]
OBVIOUS

-----------------------------------------------------------------------------
(* Type correctness *)

\* A tick counts up, and no further than the state tells apart.
LEMMA TickedType ==
  ASSUME fsm \in FsmStates, ticks \in Nat, Ticked
  PROVE  ticks' \in Nat /\ ticks' # 0
<1>1. LastTick[fsm] \in Nat \ {0}
  BY FsmAssumption DEF LastTick
<1>2. QED
  BY <1>1 DEF Ticked

\* A call reaches the gripper or, when the service is not there, is only logged.
LEMMA CallType ==
  ASSUME calls \in Seq({"open", "close"}), NEW what \in {"open", "close"},
         CallGripper(what)
  PROVE  /\ calls' \in Seq({"open", "close"})
         /\ calls' = calls \/ calls' = Append(calls, what)
BY AppendOf DEF CallGripper

\* Every way through the timer of the FSM keeps the types, and either enters a
\* state afresh or stays in the one it is in.
LEMMA TimerType ==
  ASSUME PickTypeOK, OnFsmTimer
  PROVE  /\ fsm' \in FsmStates /\ ticks' \in Nat /\ retries' \in Nat
         /\ planStatus' \in Statuses /\ verdict' \in BOOLEAN \cup {Unknown}
         /\ dropSeen' \in BOOLEAN
         /\ targets' \in Seq(Purposes) /\ calls' \in Seq({"open", "close"})
         /\ \/ planStatus' = "IDLE" /\ ticks' = 0
            \/ planStatus' = planStatus /\ fsm' = fsm /\ ticks' # 0
<1>t. /\ fsm \in FsmStates /\ ticks \in Nat /\ retries \in Nat
      /\ planStatus \in Statuses /\ verdict \in BOOLEAN \cup {Unknown}
      /\ dropSeen \in BOOLEAN
      /\ targets \in Seq(Purposes) /\ calls \in Seq({"open", "close"})
  BY DEF PickTypeOK
<1>s. "IDLE" \in Statuses /\ "open" \in {"open", "close"} /\ "close" \in {"open", "close"}
  BY DEF Statuses
<1>f. /\ Moves = {"PRE_GRASP", "GRASP_DESCEND", "LIFT", "PRE_PLACE",
                  "PLACE_DESCEND", "RETRACT"}
      /\ \A s \in Moves : MoveOf[s] \in Purposes /\ AfterMove[s] \in FsmStates
  BY DEF Moves, MoveOf, AfterMove, Purposes, FsmStates, Waits, Passes, Rests
<1>g. {"READY", "DETECT_PICK", "PRE_GRASP", "PRE_PLACE", "IDLE", "RECOVERY", "RETRACT",
       "VERIFY_GRASP", "LIFT", "FAIL"} \subseteq FsmStates
  BY <1>f DEF FsmStates, Waits, Passes, Rests
<1>1. CASE Pass
  <2>1. fsm' \in FsmStates /\ planStatus' = "IDLE" /\ ticks' = 0
    BY <1>1, <1>g DEF Pass, Passes, Transition
  <2>2. targets' \in Seq(Purposes)
    <3>1. "ready" \in Purposes
      BY DEF Purposes
    <3> QED BY <1>1, <1>t, <3>1, AppendOf DEF Pass
  <2> QED BY <1>1, <1>t, <1>s, <2>1, <2>2 DEF Pass
<1>2. CASE SendMove
  <2>1. targets' \in Seq(Purposes)
    BY <1>2, <1>t, <1>f, AppendOf DEF SendMove
  <2>2. dropSeen' \in BOOLEAN
    BY <1>2, <1>t DEF SendMove
  <2> QED BY <1>2, <1>t, <2>1, <2>2, TickedType DEF SendMove
<1>3. CASE AwaitMove
  <2>1. UNCHANGED <<retries, verdict, dropSeen, targets, calls>> /\ fsm \in Moves
    BY <1>3 DEF AwaitMove
  <2>2. \/ Transition("RECOVERY") \/ Transition(AfterMove[fsm])
        \/ Ticked /\ UNCHANGED <<fsm, planStatus>>
    BY <1>3 DEF AwaitMove
  <2> QED BY <1>t, <1>s, <1>f, <1>g, <2>1, <2>2, TickedType DEF Transition
<1>4. CASE StartGrasp
  BY <1>4, <1>t, <1>s, TickedType, CallType DEF StartGrasp
<1>5. CASE AwaitGrasp
  BY <1>5, <1>t, <1>s, <1>g, TickedType DEF AwaitGrasp, Transition
<1>6. CASE Verify
  BY <1>6, <1>t, <1>s, <1>g, TickedType DEF Verify, Transition
<1>7. CASE Release
  <2>1. UNCHANGED <<retries, verdict, dropSeen, targets>>
    BY <1>7 DEF Release
  <2>2. CallGripper("open") \/ UNCHANGED calls
    BY <1>7 DEF Release
  <2>3. Transition("RETRACT") \/ (Ticked /\ UNCHANGED <<fsm, planStatus>>)
    BY <1>7 DEF Release
  <2> QED BY <1>t, <1>s, <1>g, <2>1, <2>2, <2>3, TickedType, CallType DEF Transition
<1>8. CASE StartRecovery
  <2>1. UNCHANGED <<verdict, dropSeen, targets>> /\ retries' = retries + 1
        /\ CallGripper("open")
    BY <1>8 DEF StartRecovery
  <2>2. Transition("FAIL") \/ (Ticked /\ UNCHANGED <<fsm, planStatus>>)
    BY <1>8 DEF StartRecovery
  <2> QED BY <1>t, <1>s, <1>g, <2>1, <2>2, TickedType, CallType DEF Transition
<1>9. CASE Recover
  BY <1>9, <1>t, <1>s, <1>g, TickedType DEF Recover, Transition
<1>10. QED
  BY <1>1, <1>2, <1>3, <1>4, <1>5, <1>6, <1>7, <1>8, <1>9 DEF OnFsmTimer

\* The jobs of the plan service keep their stages.
LEMMA JobType ==
  ASSUME PickTypeOK, NEW j \in Jobs, Accept(j) \/ Progress(j)
  PROVE  /\ job' \in [Jobs -> {"free", "planning", "ready", "running"}]
         /\ newest' \in Jobs \cup {NoJob}
BY DEF PickTypeOK, Accept, Progress, Discard, PlanFails, PlanReady, Replace, Start, End

\* The task and its services start within their types.
LEMMA TypeInit == PickInit => PickTypeOK
<1>1. /\ <<>> \in Seq(Purposes) /\ <<>> \in Seq({"open", "close"}) /\ <<>> \in Seq(Statuses)
      /\ <<>> \in Seq(BOOLEAN) /\ <<>> \in Seq({TRUE})
  OBVIOUS
<1>2. "IDLE" \in FsmStates /\ "IDLE" \in Statuses
  BY DEF FsmStates, Rests, Statuses
<1>3. ASSUME PickInit PROVE PickTypeOK
  <2>1. FsmInit /\ GraspInit /\ ServiceInit /\ statuses = <<>> /\ verdicts = <<>>
        /\ drops = <<>> /\ doneHeard = FALSE /\ trouble = FALSE
    BY <1>3 DEF PickInit
  <2>2. /\ fsm \in FsmStates /\ ticks \in Nat /\ retries \in Nat
        /\ planStatus \in Statuses /\ verdict \in BOOLEAN \cup {Unknown}
        /\ dropSeen \in BOOLEAN
        /\ targets \in Seq(Purposes) /\ calls \in Seq({"open", "close"})
    BY <1>1, <1>2, <2>1 DEF FsmInit
  <2>3. /\ statuses \in Seq(Statuses) /\ verdicts \in Seq(BOOLEAN)
        /\ drops \in Seq({TRUE}) /\ doneHeard \in BOOLEAN /\ trouble \in BOOLEAN
    BY <1>1, <2>1
  <2>4. /\ hand \in {"idle", "closing", "holding"} /\ closed \in BOOLEAN
        /\ report \in {"none", "success", "failure", "drop"}
    BY <2>1 DEF GraspInit
  <2>5. /\ job \in [Jobs -> {"free", "planning", "ready", "running"}]
        /\ newest \in Jobs \cup {NoJob}
    BY <2>1 DEF ServiceInit
  <2> QED BY <2>2, <2>3, <2>4, <2>5 DEF PickTypeOK
<1>4. QED
  BY <1>3

\* Every step keeps the types.
LEMMA TypeStep == PickTypeOK /\ [PickNext]_pickVars => PickTypeOK'
<1> SUFFICES ASSUME PickTypeOK, [PickNext]_pickVars PROVE PickTypeOK'
  OBVIOUS
<1>s. {"IDLE", "PLANNING", "EXECUTING", "DONE", "FAIL"} = Statuses
  BY DEF Statuses
<1>q. /\ statuses \in Seq(Statuses) /\ verdicts \in Seq(BOOLEAN) /\ drops \in Seq({TRUE})
      /\ targets \in Seq(Purposes) /\ calls \in Seq({"open", "close"})
  BY DEF PickTypeOK
<1>a. /\ Append(statuses, "PLANNING") \in Seq(Statuses)
      /\ Append(statuses, "EXECUTING") \in Seq(Statuses)
      /\ Append(statuses, "DONE") \in Seq(Statuses)
      /\ Append(statuses, "FAIL") \in Seq(Statuses)
  <2>1. \A x \in Statuses : Append(statuses, x) \in Seq(Statuses)
    BY <1>q, AppendOf, Zenon
  <2> QED BY <1>s, <2>1
<1>1. CASE NewTask
  <2>1. "PARSE" \in FsmStates
    BY DEF FsmStates, Passes
  <2> QED BY <1>1, <1>s, <2>1 DEF NewTask, OnTaskCommand, Transition, graspVars,
                                 serviceVars, PickTypeOK
<1>2. CASE FsmTimer
  <2>1. OnFsmTimer /\ UNCHANGED <<graspVars, serviceVars, statuses, verdicts, drops>>
    BY <1>2 DEF FsmTimer
  <2>2. doneHeard' \in BOOLEAN /\ trouble' \in BOOLEAN
    BY <1>2 DEF FsmTimer
  <2> QED BY <2>1, <2>2, TimerType DEF graspVars, serviceVars, PickTypeOK
<1>3. CASE HearStatus
  <2>1. Head(statuses) \in Statuses /\ Tail(statuses) \in Seq(Statuses)
    BY <1>3, <1>q, TailOf DEF HearStatus
  <2>2. doneHeard' \in BOOLEAN
    BY <1>3 DEF HearStatus, PickTypeOK
  <2> QED BY <1>3, <2>1, <2>2 DEF HearStatus, OnPlanStatus, graspVars, serviceVars,
                                  PickTypeOK
<1>4. CASE HearVerdict
  <2>1. Head(verdicts) \in BOOLEAN /\ Tail(verdicts) \in Seq(BOOLEAN)
    BY <1>4, <1>q, TailOf DEF HearVerdict
  <2> QED BY <1>4, <2>1 DEF HearVerdict, OnGraspSuccess, graspVars, serviceVars, history,
                            PickTypeOK
<1>5. CASE HearDrop
  <2>1. Tail(drops) \in Seq({TRUE})
    BY <1>5, <1>q, TailOf DEF HearDrop
  <2> QED BY <1>5, <2>1 DEF HearDrop, OnDropDetected, graspVars, serviceVars, history,
                            PickTypeOK
<1>6. CASE TakeTarget
  <2>1. Tail(targets) \in Seq(Purposes)
    BY <1>6, <1>q, TailOf DEF TakeTarget
  <2>2. \/ \E j \in Jobs : Accept(j)
        \/ UNCHANGED serviceVars
    BY <1>6 DEF TakeTarget
  <2>3. /\ job' \in [Jobs -> {"free", "planning", "ready", "running"}]
        /\ newest' \in Jobs \cup {NoJob}
    BY <2>2, JobType DEF serviceVars, PickTypeOK
  <2>4. statuses' \in Seq(Statuses)
    BY <1>6, <1>q, <1>a DEF TakeTarget, Say, Silent
  <2>5. trouble' \in BOOLEAN
    BY <1>6 DEF TakeTarget, PickTypeOK
  <2> QED BY <1>6, <2>1, <2>3, <2>4, <2>5 DEF TakeTarget, graspVars, PickTypeOK
<1>7. ASSUME NEW j \in Jobs, JobStep(j) PROVE PickTypeOK'
  <2>1. Progress(j)
    BY <1>7 DEF JobStep, Progress
  <2>2. /\ job' \in [Jobs -> {"free", "planning", "ready", "running"}]
        /\ newest' \in Jobs \cup {NoJob}
    BY <2>1, JobType
  <2>3. statuses' \in Seq(Statuses)
    BY <1>7, <1>q, <1>a DEF JobStep, Say, Silent
  <2>4. trouble' \in BOOLEAN
    BY <1>7 DEF JobStep, PickTypeOK
  <2> QED BY <1>7, <2>2, <2>3, <2>4 DEF JobStep, fsmVars, graspVars, PickTypeOK
<1>8. CASE GripperCalled
  <2>1. Tail(calls) \in Seq({"open", "close"})
    BY <1>8, <1>q, TailOf DEF GripperCalled
  <2>2. /\ hand' \in {"idle", "closing", "holding"} /\ closed' \in BOOLEAN
        /\ report' = report
    BY <1>8 DEF GripperCalled, OpenHand, CloseHand
  <2> QED BY <1>8, <2>1, <2>2 DEF GripperCalled, serviceVars, topics, history, PickTypeOK
<1>9. CASE GripperTimer
  <2>a. \A success \in BOOLEAN : Append(verdicts, success) \in Seq(BOOLEAN)
    BY <1>q, AppendOf, Zenon
  <2>b. Append(drops, TRUE) \in Seq({TRUE})
    BY <1>q, AppendOf, Zenon
  <2>1. verdicts' \in Seq(BOOLEAN) /\ drops' \in Seq({TRUE})
    BY <1>9, <1>q, <2>a, <2>b DEF GripperTimer
  <2>2. /\ hand' \in {"idle", "closing", "holding"} /\ closed' = closed
        /\ report' \in {"none", "success", "failure", "drop"}
    BY <1>9 DEF GripperTimer, Judge, LoseGrasp
  <2> QED BY <1>9, <2>1, <2>2 DEF GripperTimer, fsmVars, serviceVars, history, PickTypeOK
<1>10. CASE UNCHANGED pickVars
  BY <1>10 DEF pickVars, fsmVars, graspVars, serviceVars, topics, history, PickTypeOK
<1>11. QED
  BY <1>1, <1>2, <1>3, <1>4, <1>5, <1>6, <1>7, <1>8, <1>9, <1>10 DEF PickNext

\* Every variable of the task and of the services keeps its type.
THEOREM PickTypeCorrect == PickSpec => []PickTypeOK
BY TypeInit, TypeStep, PTL DEF PickSpec

-----------------------------------------------------------------------------
(* The invariant *)

\* A callback that touches neither the grasp nor the state keeps GraspInv.
LEMMA GraspApart ==
  ASSUME GraspInv, fsm' = fsm, ticks' = ticks, verdict' = verdict, calls' = calls,
         hand' = hand, closed' = closed, verdicts' = verdicts
  PROVE  GraspInv'
BY DEF GraspInv, Judging, CloseIsDue

\* Nor does one that is not about a close, before and after it.
LEMMA GraspNotJudged ==
  ASSUME GraspInv, ~Judging, ~Judging', hand' = hand, verdicts' = verdicts,
         ~CloseIsDue'
  PROVE  GraspInv'
BY DEF GraspInv

\* Calling to open leaves no close behind.
LEMMA OpenIsNoClose ==
  ASSUME PickTypeOK, ~CloseIsDue, CallGripper("open")
  PROVE  ~CloseIsDue'
<1>1. calls \in Seq({"open", "close"}) /\ "open" \in {"open", "close"}
  BY DEF PickTypeOK
<1>2. calls' = calls \/ calls' = Append(calls, "open")
  BY <1>1, CallType
<1>3. CASE calls' = calls
  BY <1>3 DEF CloseIsDue
<1>4. CASE calls' = Append(calls, "open")
  BY <1>1, <1>4, AppendOf DEF CloseIsDue
<1>5. QED
  BY <1>2, <1>3, <1>4

\* The timer of the FSM: a close is called in the first tick of GRASP_CLOSE,
\* and that state is left on the verdict about it.
LEMMA TimerKeepsGrasp ==
  ASSUME PickTypeOK, GraspInv, OnFsmTimer, hand' = hand, closed' = closed,
         verdicts' = verdicts
  PROVE  /\ GraspInv'
         /\ fsm = "GRASP_CLOSE" /\ fsm' # fsm =>
              calls = <<>> /\ hand # "closing" /\ closed
<1> DEFINE Left == fsm = "GRASP_CLOSE" /\ fsm' # fsm
<1>t. /\ verdict \in BOOLEAN \cup {Unknown} /\ calls \in Seq({"open", "close"})
      /\ ticks \in Nat /\ fsm \in FsmStates
  BY DEF PickTypeOK
<1>n. ~Judging => ~CloseIsDue /\ hand # "closing" /\ verdicts = <<>>
  BY DEF GraspInv
<1>c. calls' = calls => (CloseIsDue' <=> CloseIsDue)
  BY DEF CloseIsDue
<1>1. CASE Pass
  <2>1. fsm # "GRASP_CLOSE" /\ ticks' = 0 /\ calls' = calls
    BY <1>1 DEF Pass, Passes, Transition
  <2> QED BY <1>n, <1>c, <2>1, GraspNotJudged DEF Judging
<1>2. CASE SendMove
  <2>1. fsm # "GRASP_CLOSE" /\ fsm' = fsm /\ calls' = calls
    BY <1>2 DEF SendMove, Moves, MoveOf
  <2> QED BY <1>n, <1>c, <2>1, GraspNotJudged DEF Judging
<1>3. CASE AwaitMove
  <2>1. /\ fsm # "GRASP_CLOSE" /\ calls' = calls
        /\ ticks' = 0 \/ fsm' = fsm
    BY <1>3 DEF AwaitMove, Moves, MoveOf, Transition
  <2> QED BY <1>n, <1>c, <2>1, GraspNotJudged DEF Judging
<1>4. CASE StartGrasp
  <2>1. /\ fsm = "GRASP_CLOSE" /\ ticks = 0 /\ fsm' = fsm /\ ticks' # 0
        /\ verdict' = Unknown /\ CallGripper("close")
    BY <1>4, <1>t, TickedType DEF StartGrasp, FirstTick
  <2>2. /\ ~CloseIsDue /\ hand # "closing" /\ verdicts = <<>> /\ Judging'
    BY <1>n, <2>1 DEF Judging
  <2>3. "close" \in {"open", "close"}
    OBVIOUS
  <2>4. calls' = calls \/ calls' = Append(calls, "close")
    BY <1>t, <2>1, <2>3, CallType
  <2>5. \A i \in 1..Len(calls') : calls'[i] = "close" => i = Len(calls')
    <3>1. CASE calls' = calls
      BY <2>2, <3>1 DEF CloseIsDue
    <3>2. CASE calls' = Append(calls, "close")
      BY <1>t, <2>2, <2>3, <3>2, AppendOf DEF CloseIsDue
    <3> QED BY <2>4, <3>1, <3>2
  <2>6. GraspInv'
    BY <2>1, <2>2, <2>5 DEF GraspInv
  <2> QED BY <2>1, <2>6
<1>5. CASE AwaitGrasp
  <2>1. Judging /\ calls' = calls
    BY <1>5 DEF AwaitGrasp, FirstTick, Judging
  <2>2. CASE verdict = Unknown /\ Ticked /\ UNCHANGED <<fsm, planStatus>>
    <3>1. verdict' = verdict /\ Judging' /\ fsm' = fsm
      BY <1>5, <1>t, <2>1, <2>2, TickedType DEF AwaitGrasp, Judging
    <3> QED BY <1>c, <2>1, <3>1 DEF GraspInv
  <2>3. CASE verdict # Unknown /\ ticks' = 0
    <3>1. calls = <<>> /\ closed /\ hand # "closing" /\ verdicts = <<>>
      BY <2>1, <2>3 DEF GraspInv
    <3>2. ~CloseIsDue /\ ~Judging'
      BY <2>3, <3>1 DEF CloseIsDue, Judging
    <3>3. GraspInv'
      BY <1>c, <2>1, <3>1, <3>2 DEF GraspInv
    <3> QED BY <3>1, <3>3
  <2>4. \/ verdict = Unknown /\ Ticked /\ UNCHANGED <<fsm, planStatus>>
        \/ verdict # Unknown /\ ticks' = 0
    BY <1>5, FsmAssumption DEF AwaitGrasp, Transition
  <2> QED BY <2>2, <2>3, <2>4
<1>6. CASE Verify
  <2>1. fsm # "GRASP_CLOSE" /\ calls' = calls /\ (ticks' = 0 \/ fsm' = fsm)
    BY <1>6 DEF Verify, Transition
  <2> QED BY <1>n, <1>c, <2>1, GraspNotJudged DEF Judging
<1>7. CASE Release
  <2>1. /\ fsm # "GRASP_CLOSE" /\ (ticks' = 0 \/ fsm' = fsm)
        /\ CallGripper("open") \/ calls' = calls
    BY <1>7 DEF Release, Transition
  <2> QED BY <1>n, <1>c, <2>1, GraspNotJudged, OpenIsNoClose DEF Judging
<1>8. CASE StartRecovery
  <2>1. /\ fsm # "GRASP_CLOSE" /\ (ticks' = 0 \/ fsm' = fsm)
        /\ CallGripper("open")
    BY <1>8 DEF StartRecovery, Transition
  <2> QED BY <1>n, <2>1, GraspNotJudged, OpenIsNoClose DEF Judging
<1>9. CASE Recover
  <2>1. fsm # "GRASP_CLOSE" /\ calls' = calls /\ (ticks' = 0 \/ fsm' = fsm)
    BY <1>9 DEF Recover, Transition
  <2> QED BY <1>n, <1>c, <2>1, GraspNotJudged DEF Judging
<1>10. QED
  BY <1>1, <1>2, <1>3, <1>4, <1>5, <1>6, <1>7, <1>8, <1>9 DEF OnFsmTimer

\* The services of the gripper are called in order, so nothing follows a close.
LEMMA CalledKeepsGrasp ==
  ASSUME PickTypeOK, GraspInv, GripperCalled
  PROVE  GraspInv'
<1>1. /\ fsm' = fsm /\ ticks' = ticks /\ verdict' = verdict /\ verdicts' = verdicts
      /\ calls # <<>> /\ calls' = Tail(calls)
      /\ \/ Head(calls) = "open" /\ hand' = "idle"
         \/ Head(calls) = "close" /\ hand' = "closing" /\ closed' = TRUE
  BY DEF GripperCalled, OpenHand, CloseHand, topics
<1>2. /\ Head(calls) = calls[1] /\ calls' \in Seq({"open", "close"})
      /\ Len(calls) \in Nat /\ Len(calls) > 0 /\ Len(calls') = Len(calls) - 1
      /\ \A i \in 1..Len(calls') : calls'[i] = calls[i + 1]
  BY <1>1, TailOf DEF PickTypeOK
<1>3. Judging' <=> Judging
  BY <1>1 DEF Judging
<1>4. CloseIsDue' => CloseIsDue
  BY <1>2 DEF CloseIsDue
<1>5. CASE ~Judging
  <2>1. ~CloseIsDue /\ hand # "closing" /\ verdicts = <<>>
    BY <1>5 DEF GraspInv
  <2>2. Head(calls) # "close"
    BY <1>2, <2>1 DEF CloseIsDue
  <2> QED BY <1>1, <1>3, <1>4, <1>5, <2>1, <2>2 DEF GraspInv
<1>6. CASE Judging /\ Head(calls) = "open"
  <2>1. \A i \in 1..Len(calls') : calls'[i] = "close" => i = Len(calls')
    BY <1>2, <1>6 DEF GraspInv
  <2>2. verdicts = <<>> /\ verdict = Unknown
    BY <1>1, <1>6 DEF GraspInv
  <2> QED BY <1>1, <1>3, <1>6, <2>1, <2>2 DEF GraspInv
<1>7. CASE Judging /\ Head(calls) = "close"
  <2>1. CloseIsDue
    BY <1>2, <1>7 DEF CloseIsDue
  <2>2. Len(calls) = 1
    BY <1>2, <1>7 DEF GraspInv
  <2>3. calls' = <<>>
    BY <1>2, <2>2
  <2>4. verdicts = <<>> /\ verdict = Unknown
    BY <1>7, <2>1 DEF GraspInv
  <2>5. ~CloseIsDue'
    BY <2>3 DEF CloseIsDue
  <2>6. \A i \in 1..Len(calls') : calls'[i] = "close" => i = Len(calls')
    BY <2>3
  <2> QED BY <1>1, <1>3, <1>7, <2>3, <2>4, <2>5, <2>6 DEF GraspInv
<1>8. QED
  BY <1>1, <1>5, <1>6, <1>7

\* The verdict about a close ends it, and is the only one on its way.
LEMMA JudgedKeepsGrasp ==
  ASSUME PickTypeOK, GraspInv, GripperTimer
  PROVE  GraspInv'
<1>1. /\ fsm' = fsm /\ ticks' = ticks /\ verdict' = verdict /\ calls' = calls
  BY DEF GripperTimer, fsmVars
<1>2. (Judging' <=> Judging) /\ (CloseIsDue' <=> CloseIsDue)
  BY <1>1 DEF Judging, CloseIsDue
<1>3. ASSUME NEW success \in BOOLEAN, Judge(success), verdicts' = Append(verdicts, success)
      PROVE  GraspInv'
  <2>1. hand = "closing" /\ hand' # "closing" /\ closed' = closed
    BY <1>3 DEF Judge
  <2>2. Judging /\ verdicts = <<>> /\ verdict = Unknown /\ calls = <<>> /\ closed
        /\ ~CloseIsDue
    BY <2>1 DEF GraspInv
  <2>3. verdicts' # <<>> /\ Len(verdicts') = 1
    BY <1>3, <2>2
  <2>4. \A i \in 1..Len(calls') : calls'[i] = "close" => i = Len(calls')
    BY <1>1, <2>2
  <2> QED BY <1>1, <1>2, <2>1, <2>2, <2>3, <2>4 DEF GraspInv
<1>4. ASSUME LoseGrasp, UNCHANGED verdicts PROVE GraspInv'
  <2>1. hand = "holding" /\ hand' = "idle" /\ closed' = closed
    BY <1>4 DEF LoseGrasp
  <2> QED BY <1>1, <1>2, <1>4, <2>1 DEF GraspInv
<1>5. QED
  BY <1>3, <1>4 DEF GripperTimer

\* Nothing is called, heard or done at the start.
LEMMA PickInvInit == PickInit => PickInv
BY DEF PickInit, FsmInit, GraspInit, PickInv, DoneInv, GraspInv, Judging, CloseIsDue

\* Every step keeps the invariant; one that ends a grasp or a move obeys the two
\* action properties.
LEMMA PickInvStep ==
  ASSUME PickTypeOK, PickInv, [PickNext]_pickVars
  PROVE  /\ PickInv'
         /\ fsm = "GRASP_CLOSE" /\ fsm' # fsm =>
              calls = <<>> /\ hand # "closing" /\ closed
         /\ (fsm \in Moves /\ fsm' = AfterMove[fsm]) => doneHeard
<1> DEFINE Kept ==
      /\ PickInv'
      /\ fsm = "GRASP_CLOSE" /\ fsm' # fsm =>
           calls = <<>> /\ hand # "closing" /\ closed
      /\ (fsm \in Moves /\ fsm' = AfterMove[fsm]) => doneHeard
<1>i. DoneInv /\ GraspInv
  BY DEF PickInv
<1>m. \A s \in Moves : AfterMove[s] # s /\ s # "GRASP_CLOSE"
  BY DEF Moves, MoveOf, AfterMove
<1>s. ASSUME DoneInv', GraspInv', fsm' = fsm PROVE Kept
  BY <1>m, <1>s DEF PickInv
<1>1. ASSUME NewTask PROVE Kept
  <2>1. /\ fsm \in {"IDLE", "DONE", "FAIL"} /\ ticks' = 0 /\ planStatus' = "IDLE"
        /\ calls' = calls /\ hand' = hand /\ verdicts' = verdicts
    BY <1>1 DEF NewTask, OnTaskCommand, Transition, graspVars
  <2>2. DoneInv'
    BY <2>1 DEF DoneInv
  <2>3. ~CloseIsDue /\ ~Judging /\ ~Judging'
    BY <1>i, <2>1 DEF GraspInv, Judging
  <2>4. GraspInv'
    BY <1>i, <2>1, <2>3, GraspNotJudged DEF CloseIsDue
  <2>5. fsm \notin Moves /\ fsm # "GRASP_CLOSE"
    BY <2>1 DEF Moves, MoveOf
  <2> QED BY <2>2, <2>4, <2>5 DEF PickInv
<1>2. ASSUME FsmTimer PROVE Kept
  <2>1. /\ OnFsmTimer /\ doneHeard' = (doneHeard /\ fsm' = fsm)
        /\ hand' = hand /\ closed' = closed /\ verdicts' = verdicts
    BY <1>2 DEF FsmTimer, graspVars
  <2>2. /\ GraspInv'
        /\ fsm = "GRASP_CLOSE" /\ fsm' # fsm =>
             calls = <<>> /\ hand # "closing" /\ closed
    BY <1>i, <2>1, TimerKeepsGrasp
  <2>3. planStatus' = "IDLE" \/ (planStatus' = planStatus /\ fsm' = fsm)
    BY <2>1, TimerType
  <2>4. DoneInv'
    BY <1>i, <2>1, <2>3 DEF DoneInv
  <2>5. ASSUME fsm \in Moves, fsm' = AfterMove[fsm] PROVE doneHeard
    <3>1. AwaitMove
      <4>1. ~(Pass \/ StartGrasp \/ AwaitGrasp \/ Verify \/ Release \/ StartRecovery \/ Recover)
        BY <2>5 DEF Moves, MoveOf, Pass, Passes, StartGrasp, AwaitGrasp, Verify, Release,
                    StartRecovery, Recover
      <4>2. ~SendMove
        BY <1>m, <2>5 DEF SendMove
      <4> QED BY <2>1, <4>1, <4>2 DEF OnFsmTimer
    <3>2. AfterMove[fsm] # "RECOVERY" /\ AfterMove[fsm] # fsm
      BY <2>5 DEF Moves, MoveOf, AfterMove
    <3>3. planStatus = "DONE"
      BY <2>5, <3>1, <3>2 DEF AwaitMove, Transition
    <3> QED BY <1>i, <3>3 DEF DoneInv
  <2> QED BY <2>2, <2>4, <2>5 DEF PickInv
<1>3. ASSUME HearStatus PROVE Kept
  <2>1. /\ fsm' = fsm /\ ticks' = ticks /\ verdict' = verdict /\ calls' = calls
        /\ hand' = hand /\ closed' = closed /\ verdicts' = verdicts
        /\ planStatus' = Head(statuses)
        /\ doneHeard' = (doneHeard \/ Head(statuses) = "DONE")
    BY <1>3 DEF HearStatus, OnPlanStatus, graspVars
  <2>2. DoneInv'
    BY <2>1 DEF DoneInv
  <2> QED BY <1>i, <1>s, <2>1, <2>2, GraspApart
<1>4. ASSUME HearVerdict PROVE Kept
  <2>1. /\ fsm' = fsm /\ ticks' = ticks /\ calls' = calls
        /\ hand' = hand /\ closed' = closed /\ planStatus' = planStatus
        /\ doneHeard' = doneHeard
        /\ verdicts # <<>> /\ verdicts' = Tail(verdicts)
    BY <1>4 DEF HearVerdict, OnGraspSuccess, graspVars, history
  <2>2. DoneInv'
    BY <1>i, <2>1 DEF DoneInv
  <2>3. Judging /\ Judging' /\ Len(verdicts) = 1 /\ verdict = Unknown
        /\ calls = <<>> /\ closed /\ hand # "closing"
    BY <1>i, <2>1 DEF GraspInv, Judging
  <2>4. verdicts' = <<>>
    <3>1. Len(Tail(verdicts)) = 0 /\ Tail(verdicts) \in Seq(BOOLEAN)
      BY <2>1, <2>3, TailOf DEF PickTypeOK
    <3> QED BY <2>1, <3>1
  <2>5. ~CloseIsDue' /\ \A i \in 1..Len(calls') : calls'[i] = "close" => i = Len(calls')
    BY <2>1, <2>3 DEF CloseIsDue
  <2>6. GraspInv'
    BY <2>1, <2>3, <2>4, <2>5 DEF GraspInv
  <2> QED BY <1>s, <2>1, <2>2, <2>6
<1>5. ASSUME HearDrop \/ TakeTarget \/ (\E j \in Jobs : JobStep(j)) \/ UNCHANGED pickVars
      PROVE  Kept
  <2>1. /\ fsm' = fsm /\ ticks' = ticks /\ verdict' = verdict /\ calls' = calls
        /\ hand' = hand /\ closed' = closed /\ verdicts' = verdicts
        /\ planStatus' = planStatus /\ doneHeard' = doneHeard
    BY <1>5 DEF HearDrop, OnDropDetected, TakeTarget, JobStep, graspVars, fsmVars, history,
                pickVars, topics
  <2>2. DoneInv'
    BY <1>i, <2>1 DEF DoneInv
  <2> QED BY <1>i, <1>s, <2>1, <2>2, GraspApart
<1>6. ASSUME GripperCalled \/ GripperTimer PROVE Kept
  <2>1. fsm' = fsm /\ planStatus' = planStatus /\ doneHeard' = doneHeard
    BY <1>6 DEF GripperCalled, GripperTimer, fsmVars, topics, history
  <2>2. DoneInv'
    BY <1>i, <2>1 DEF DoneInv
  <2> QED BY <1>6, <1>i, <1>s, <2>1, <2>2, CalledKeepsGrasp, JudgedKeepsGrasp
<1> HIDE DEF Kept
<1>7. Kept
  BY <1>1, <1>2, <1>3, <1>4, <1>5, <1>6 DEF PickNext
<1>8. QED
  BY <1>7 DEF Kept

\* The invariant holds throughout.
LEMMA PickInvCorrect == PickSpec => []PickInv
<1>1. PickTypeOK /\ PickInv /\ [PickNext]_pickVars => PickInv'
  BY PickInvStep
<1>2. QED
  BY <1>1, PickInvInit, PickTypeCorrect, PTL DEF PickSpec

\* The FSM leaves GRASP_CLOSE on the verdict about the close it has called in
\* this attempt, whatever verdicts, drops and calls were on their way before.
THEOREM GraspsAreJudged == PickSpec => JudgedBeforeGoingOn
<1> DEFINE P == fsm = "GRASP_CLOSE" /\ fsm' # fsm =>
                  calls = <<>> /\ hand # "closing" /\ closed
<1>1. PickTypeOK /\ PickInv /\ [PickNext]_pickVars => [P]_fsm
  BY PickInvStep
<1>2. QED
  BY <1>1, PickTypeCorrect, PickInvCorrect, PTL DEF PickSpec, JudgedBeforeGoingOn

\* A move counts as done only on a DONE that was heard in its state.
THEOREM MovesAreDone == PickSpec => MovesAwaitTheirDone
<1> DEFINE P == (fsm \in Moves /\ fsm' = AfterMove[fsm]) => doneHeard
<1>1. PickTypeOK /\ PickInv /\ [PickNext]_pickVars => [P]_fsm
  BY PickInvStep
<1>2. QED
  BY <1>1, PickTypeCorrect, PickInvCorrect, PTL DEF PickSpec, MovesAwaitTheirDone

================================================================================
