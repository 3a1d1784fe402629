-------------------------- MODULE PlanningProofs --------------------------
(***************************************************************************)
(* plan_compute_node and plan_node are a plan service, for any number of   *)
(* targets and any planner that returns what plan_motion can return.       *)
(***************************************************************************)
EXTENDS PlanPipeline, PlanNodeProofs, Planner, InverseKinematics, OrderLemmas

Serials == 1 .. MaxTargets

-----------------------------------------------------------------------------
(* Types *)

\* The message of a thread that has planned carries its number.
LEMMA MessageOfIsMessage ==
  ASSUME NEW t \in [stage: {"current"}, start: Int, serial: Nat, outcome: Outcomes]
  PROVE  MessageOf(t) \in Message /\ MessageOf(t).serial = t.serial
<1>1. t.outcome \in Outcome /\ t.serial \in Nat /\ t.start \in Int
  BY ComputeAssumption
<1>2. QED
  BY <1>1 DEF Outcome, Message, MessageOf

\* plan_node makes plans of the serial of the message.
LEMMA LegsOfMessage ==
  ASSUME NEW msg \in Message
  PROVE  /\ Leg1(msg) \in Plan /\ Leg1(msg).serial = msg.serial
         /\ Leg2(msg) \in Plan /\ Leg2(msg).serial = msg.serial
BY DEF Message, Leg1, Leg2, Plan

\* A target is given the next serial.
LEMMA TargetTypes ==
  ASSUME PipelineTypeOK, NewTarget
  PROVE  PipelineTypeOK'
<1>1. MaxTargets \in Nat
  BY ComputeAssumption
<1>2. [stage |-> "planning", start |-> q, serial |-> latest + 1] \in Thread
  BY <1>1 DEF PipelineTypeOK, Thread
<1>3. thread' \in [1 .. MaxTargets -> Thread]
  BY <1>2 DEF PipelineTypeOK, NewTarget, OnTarget
<1>4. QED
  BY <1>1, <1>3 DEF PipelineTypeOK, NewTarget, OnTarget, vars, motion

\* A thread goes from planning to its result.
LEMMA ThreadTypes ==
  ASSUME PipelineTypeOK, NEW s \in 1 .. MaxTargets, UNCHANGED vars,
         \/ \E outcome \in Outcomes : FinishPlanning(s, outcome)
         \/ Publish(s)
  PROVE  PipelineTypeOK'
<1>t. thread[s] \in Thread /\ thread \in [1 .. MaxTargets -> Thread]
  BY DEF PipelineTypeOK
<1>1. ASSUME NEW outcome \in Outcomes, FinishPlanning(s, outcome)
      PROVE  thread' \in [1 .. MaxTargets -> Thread] /\ computed' = computed
  <2>1. thread[s] \in [stage: {"planning"}, start: Int, serial: Nat]
    BY <1>1, <1>t DEF FinishPlanning, Thread
  <2>2. [stage |-> "current", start |-> thread[s].start, serial |-> thread[s].serial,
         outcome |-> outcome] \in Thread
    BY <2>1 DEF Thread
  <2>3. [stage |-> "stale"] \in Thread
    BY DEF Thread
  <2>4. QED
    BY <1>1, <1>t, <2>2, <2>3 DEF FinishPlanning
<1>2. ASSUME Publish(s)
      PROVE  thread' \in [1 .. MaxTargets -> Thread] /\ computed' \in Seq(Message)
  <2>1. thread[s] \in [stage: {"current"}, start: Int, serial: Nat, outcome: Outcomes]
    BY <1>2, <1>t DEF Publish, Thread
  <2>2. MessageOf(thread[s]) \in Message
    BY <2>1, MessageOfIsMessage
  <2>3. computed \in Seq(Message)
    BY DEF PipelineTypeOK
  <2>4. computed' \in Seq(Message)
    BY <1>2, <2>2, <2>3 DEF Publish
  <2>5. [stage |-> "published"] \in Thread /\ [stage |-> "failed"] \in Thread
    BY DEF Thread
  <2>6. QED
    BY <1>2, <1>t, <2>4, <2>5 DEF Publish
<1>3. computed' \in Seq(Message) /\ thread' \in [1 .. MaxTargets -> Thread] /\ latest' = latest
  BY <1>1, <1>2 DEF PipelineTypeOK, FinishPlanning, Publish
<1>4. QED
  BY <1>3 DEF PipelineTypeOK, vars

\* The oldest message is delivered first.
LEMMA TailOfTopic ==
  ASSUME NEW S, NEW c \in Seq(S), c # <<>>
  PROVE  /\ Head(c) \in S /\ Head(c) = c[1]
         /\ Tail(c) \in Seq(S) /\ Len(c) \in Nat /\ Len(c) > 0
         /\ Len(Tail(c)) = Len(c) - 1
         /\ \A i \in 1 .. Len(Tail(c)) : Tail(c)[i] = c[i + 1]
OBVIOUS

\* What arrives fills the slots with its legs.
LEMMA DeliverTypes ==
  ASSUME PipelineTypeOK, Deliver
  PROVE  PipelineTypeOK'
<1>1. computed \in Seq(Message) /\ computed # <<>>
  BY DEF PipelineTypeOK, Deliver
<1>2. Head(computed) \in Message /\ Tail(computed) \in Seq(Message)
  BY <1>1, TailOfTopic
<1>3. Leg1(Head(computed)) \in Plan /\ Leg2(Head(computed)) \in Plan
  BY <1>2, LegsOfMessage
<1>4. QED
  BY <1>2, <1>3 DEF PipelineTypeOK, Deliver, OnComputedPlan, motion

\* The timer fills the slots with plans, if with anything.
LEMMA TimerTypes ==
  ASSUME PipelineTypeOK, OnTimer, UNCHANGED computeVars
  PROVE  PipelineTypeOK'
<1>1. \A p \in Plan : Committed(p) \in Plan
  BY CommittedIsPlan DEF PipelineTypeOK
<1>2. CASE CommitPending
  BY <1>1, <1>2 DEF PipelineTypeOK, CommitPending, Commit, computeVars
<1>3. CASE Follow
  BY <1>3 DEF PipelineTypeOK, Follow, computeVars
<1>4. CASE Stall
  BY <1>4 DEF PipelineTypeOK, Stall, computeVars
<1>5. CASE StartLeg2
  BY <1>1, <1>5 DEF PipelineTypeOK, StartLeg2, Commit, computeVars
<1>6. CASE Finish
  BY <1>6 DEF PipelineTypeOK, Finish, computeVars
<1>7. CASE Hold
  BY <1>7 DEF PipelineTypeOK, Hold, computeVars
<1>8. QED
  BY <1>2, <1>3, <1>4, <1>5, <1>6, <1>7 DEF OnTimer

-----------------------------------------------------------------------------
(* The stages of the jobs *)

Stages == [s \in Serials |-> JobStage(s)]

SameStage(s) ==
  (Planned(s)' <=> Planned(s)) /\ (Waits(s)' <=> Waits(s)) /\ (Runs(s)' <=> Runs(s))

\* A step that moves no job leaves the service as it is.
LEMMA Unmoved ==
  ASSUME \A s \in Serials : SameStage(s)
  PROVE  UNCHANGED Stages
<1>1. \A s \in Serials : JobStage(s)' = JobStage(s)
  BY DEF SameStage, JobStage
<1>2. QED
  BY <1>1 DEF Stages, Serials

\* The stage of one job changes when no other does.
LEMMA Moved ==
  ASSUME NEW j \in Serials, \A s \in Serials \ {j} : SameStage(s)
  PROVE  Stages' = [Stages EXCEPT ![j] = JobStage(j)']
<1>1. \A s \in Serials \ {j} : JobStage(s)' = JobStage(s)
  BY DEF SameStage, JobStage
<1>2. QED
  BY <1>1 DEF Stages, Serials

\* A job is at one stage at a time.
LEMMA OneStage ==
  ASSUME PipelineInv, NEW s \in Serials
  PROVE  /\ Planned(s) => ~Waits(s) /\ ~Runs(s)
         /\ Waits(s) => ~Runs(s)
         /\ Waits(s) \/ Runs(s) => thread[s].stage = "published"
         /\ thread[s].stage = "none" => ~Planned(s) /\ ~Waits(s) /\ ~Runs(s)
<1>1. Sent(s) => thread[s].stage = "published"
  BY DEF PipelineInv, MessagesInv, Sent
<1>2. /\ pending # None /\ pending.serial = s => Delivered(s)
      /\ active # None /\ active.serial = s => Delivered(s)
  BY DEF PipelineInv, SlotsInv
<1>3. Waits(s) => ~Runs(s)
  BY <1>2 DEF PipelineInv, SlotsInv, Waits, Runs, Delivered
<1>4. Waits(s) \/ Runs(s) => thread[s].stage = "published"
  BY <1>1, <1>2 DEF Waits, Runs, Delivered
<1>5. QED
  BY <1>3, <1>4 DEF Planned

-----------------------------------------------------------------------------
(* The steps of plan_compute_node *)

LEMMA TargetStep ==
  ASSUME PipelineInv, NewTarget
  PROVE  PipelineInv' /\ Service!ServiceNext
<1>0. PICK j \in Serials : j = latest + 1
  BY ComputeAssumption DEF PipelineInv, PipelineTypeOK, NewTarget, OnTarget, Serials
<1>1. /\ j \in Serials /\ latest' = j /\ computed' = computed
      /\ thread' = [thread EXCEPT ![j] = [stage |-> "planning", start |-> q, serial |-> j]]
      /\ pending' = pending /\ active' = active /\ queuedLeg2' = queuedLeg2
  BY <1>0 DEF NewTarget, OnTarget, vars, motion
<1>2. /\ thread[j].stage = "none"
      /\ \A s \in Serials \ {j} : thread'[s] = thread[s]
      /\ thread'[j].stage = "planning" /\ thread'[j].serial = j
  BY <1>0, <1>1, ComputeAssumption DEF PipelineInv, ThreadsInv, PipelineTypeOK, Serials
<1>3. ~Planned(j) /\ ~Waits(j) /\ ~Runs(j)
  BY <1>1, <1>2, OneStage
<1>4. \A s \in Serials \ {j} : SameStage(s)
  BY <1>1, <1>2 DEF SameStage, Planned, Waits, Sent, Runs
<1>5. JobStage(j) = "free" /\ JobStage(j)' = "planning"
  BY <1>1, <1>2, <1>3 DEF Planned, JobStage
<1>6. Service!ServiceNext
  <2>1. Stages' = [Stages EXCEPT ![j] = "planning"] /\ Stages[j] = "free"
    BY <1>4, <1>5, Moved DEF Stages
  <2>2. QED
    BY <1>1, <2>1 DEF Service!ServiceNext, Service!Accept, Stages, Serials
<1>7. ThreadsInv'
  BY <1>0, <1>1, <1>2, ComputeAssumption DEF PipelineInv, PipelineTypeOK, ThreadsInv, Planned, Serials
<1>8. \A s \in Serials : Delivered(s) => Delivered(s)'
  BY <1>1, <1>2 DEF Delivered, Sent
<1>9. MessagesInv'
  BY <1>1, <1>2 DEF PipelineInv, MessagesInv, Serials
<1>10. SlotsInv'
  BY <1>1, <1>8 DEF PipelineInv, SlotsInv, Serials
<1>11. PipelineTypeOK'
  BY TargetTypes DEF PipelineInv
<1>12. QED
  BY <1>6, <1>7, <1>9, <1>10, <1>11 DEF PipelineInv

\* A thread whose target is the newest goes on to its result; the job of any other
\* ends with its thread.
LEMMA FinishStep ==
  ASSUME PipelineInv, UNCHANGED vars, NEW j \in Serials,
         \E outcome \in Outcomes : FinishPlanning(j, outcome)
  PROVE  PipelineInv' /\ [Service!ServiceNext]_(Service!serviceVars)
<1>1. /\ computed' = computed /\ pending' = pending /\ active' = active
      /\ queuedLeg2' = queuedLeg2 /\ latest' = latest
  BY DEF FinishPlanning, vars
<1>2. /\ thread[j].stage = "planning" /\ thread[j].serial = j
      /\ \A s \in Serials \ {j} : thread'[s] = thread[s]
      /\ \/ j # latest /\ thread'[j].stage = "stale"
         \/ thread'[j].stage = "current" /\ thread'[j].serial = j
  BY DEF FinishPlanning, PipelineInv, PipelineTypeOK, ThreadsInv, Planned, Serials
<1>3. Planned(j) /\ ~Waits(j) /\ ~Runs(j)
  BY <1>2, OneStage DEF Planned
<1>4. \A s \in Serials \ {j} : SameStage(s)
  BY <1>1, <1>2 DEF SameStage, Planned, Waits, Sent, Runs
<1>5. ~Waits(j)' /\ ~Runs(j)'
  BY <1>1, <1>3 DEF Waits, Sent, Runs
<1>6. [Service!ServiceNext]_(Service!serviceVars)
  <2>1. CASE thread'[j].stage = "current"
    <3>1. SameStage(j)
      BY <1>3, <1>5, <2>1 DEF SameStage, Planned
    <3>2. UNCHANGED Stages
      BY <1>4, <3>1, Unmoved
    <3>3. QED
      BY <1>1, <3>2 DEF Service!serviceVars, Stages, Serials
  <2>2. CASE j # latest /\ thread'[j].stage = "stale"
    <3>1. JobStage(j) = "planning" /\ JobStage(j)' = "free"
      BY <1>3, <1>5, <2>2 DEF JobStage, Planned
    <3>2. Stages' = [Stages EXCEPT ![j] = "free"] /\ Stages[j] = "planning"
      BY <1>4, <3>1, Moved DEF Stages
    <3>3. QED
      BY <1>1, <2>2, <3>2
         DEF Service!ServiceNext, Service!Progress, Service!Discard, Stages, Serials
  <2>3. QED
    BY <1>2, <2>1, <2>2
<1>7. ThreadsInv'
  BY <1>1, <1>2 DEF PipelineInv, ThreadsInv, Planned, Serials
<1>8. \A s \in Serials : Delivered(s) => Delivered(s)'
  BY <1>1, <1>2 DEF Delivered, Sent
<1>9. MessagesInv'
  BY <1>1, <1>2 DEF PipelineInv, MessagesInv, Serials
<1>10. SlotsInv'
  BY <1>1, <1>8 DEF PipelineInv, SlotsInv, Serials
<1>11. PipelineTypeOK'
  BY ThreadTypes DEF PipelineInv, Serials
<1>12. QED
  BY <1>6, <1>7, <1>9, <1>10, <1>11 DEF PipelineInv

\* A message is sent with the end of its thread.
LEMMA SentWith ==
  ASSUME NEW S, NEW c \in Seq(S), NEW e \in S
  PROVE  /\ Append(c, e) \in Seq(S) /\ Len(c) \in Nat
         /\ Len(Append(c, e)) = Len(c) + 1
         /\ Append(c, e)[Len(c) + 1] = e
         /\ \A i \in 1 .. Len(c) : Append(c, e)[i] = c[i]
OBVIOUS

\* A thread publishes its plan, or says that there is none.
LEMMA PublishStep ==
  ASSUME PipelineInv, UNCHANGED vars, NEW j \in Serials, Publish(j)
  PROVE  PipelineInv' /\ Service!ServiceNext
<1>1. /\ pending' = pending /\ active' = active
      /\ queuedLeg2' = queuedLeg2 /\ latest' = latest
  BY DEF Publish, vars
<1>2. /\ thread[j].stage = "current" /\ thread[j].serial = j
      /\ \A s \in Serials \ {j} : thread'[s] = thread[s]
      /\ \/ computed' = computed /\ thread'[j].stage = "failed"
         \/ computed' = Append(computed, MessageOf(thread[j])) /\ thread'[j].stage = "published"
  BY DEF Publish, PipelineInv, PipelineTypeOK, ThreadsInv, Planned, Serials
<1>3. Planned(j) /\ ~Waits(j) /\ ~Runs(j) /\ ~Sent(j)
  BY <1>2, OneStage DEF Planned, Waits
<1>4. ThreadsInv'
  BY <1>1, <1>2 DEF PipelineInv, ThreadsInv, Planned, Serials
<1>5. PipelineTypeOK'
  BY ThreadTypes DEF PipelineInv, Serials
<1>6. JobStage(j) = "planning" /\ ~Planned(j)'
  BY <1>2, <1>3 DEF JobStage, Planned
<1>7. CASE computed' = computed /\ thread'[j].stage = "failed"
  <2>1. \A s \in Serials \ {j} : SameStage(s)
    BY <1>1, <1>2, <1>7 DEF SameStage, Planned, Waits, Sent, Runs
  <2>2. JobStage(j)' = "free"
    BY <1>1, <1>3, <1>6, <1>7 DEF JobStage, Waits, Sent, Runs
  <2>3. Stages' = [Stages EXCEPT ![j] = "free"] /\ Stages[j] = "planning"
    BY <2>1, <2>2, <1>6, Moved DEF Stages
  <2>4. Service!ServiceNext
    BY <1>1, <2>3 DEF Service!ServiceNext, Service!Progress, Service!PlanFails, Stages, Serials
  <2>5. \A s \in Serials : Delivered(s) => Delivered(s)'
    BY <1>2, <1>7 DEF Delivered, Sent
  <2>6. MessagesInv'
    BY <1>2, <1>7 DEF PipelineInv, MessagesInv, Serials
  <2>7. SlotsInv'
    BY <1>1, <2>5 DEF PipelineInv, SlotsInv, Serials
  <2>8. QED
    BY <1>4, <1>5, <2>4, <2>6, <2>7 DEF PipelineInv
<1>8. CASE /\ computed' = Append(computed, MessageOf(thread[j]))
           /\ thread'[j].stage = "published"
  <2> DEFINE e == MessageOf(thread[j])
  <2>1. thread[j] \in [stage: {"current"}, start: Int, serial: Nat, outcome: Outcomes]
    BY <1>2 DEF PipelineInv, PipelineTypeOK, Thread, Serials
  <2>2. e \in Message /\ e.serial = j /\ computed \in Seq(Message)
    BY <1>2, <2>1, MessageOfIsMessage DEF PipelineInv, PipelineTypeOK
  <2>3. /\ Len(computed) \in Nat /\ Len(computed') = Len(computed) + 1
        /\ computed'[Len(computed) + 1].serial = j
        /\ \A i \in 1 .. Len(computed) : computed'[i] = computed[i]
    BY <1>8, <2>2, SentWith
  <2>4. \A s \in Serials : Sent(s)' <=> Sent(s) \/ s = j
    BY <2>3 DEF Sent
  <2>5. \A s \in Serials \ {j} : SameStage(s)
    BY <1>1, <1>2, <2>4 DEF SameStage, Planned, Waits, Runs
  <2>6. JobStage(j)' = "ready"
    BY <1>6, <2>4 DEF JobStage, Waits
  <2>7. Stages' = [Stages EXCEPT ![j] = "ready"] /\ Stages[j] = "planning"
    BY <2>5, <2>6, <1>6, Moved DEF Stages
  <2>8. Service!ServiceNext
    BY <1>1, <2>7 DEF Service!ServiceNext, Service!Progress, Service!PlanReady, Stages, Serials
  <2>9. \A s \in Serials : Delivered(s) => Delivered(s)'
    BY <1>2, <2>4 DEF Delivered
  <2>10. \A i \in 1 .. Len(computed) : computed[i].serial # j
    BY <1>3 DEF Sent
  <2>11. MessagesInv'
    <3>1. /\ \A i \in 1 .. Len(computed) :
               /\ computed[i].serial \in 1 .. MaxTargets
               /\ thread[computed[i].serial].stage = "published"
          /\ \A i, k \in 1 .. Len(computed) : computed[i].serial = computed[k].serial => i = k
      BY DEF PipelineInv, MessagesInv
    <3>2. \A i \in 1 .. Len(computed') :
            \/ i \in 1 .. Len(computed) /\ computed'[i] = computed[i]
            \/ i = Len(computed) + 1 /\ computed'[i].serial = j
      BY <2>3
    <3>3. \A i \in 1 .. Len(computed) : thread'[computed[i].serial].stage = "published"
      <4> TAKE i \in 1 .. Len(computed)
      <4>1. computed[i].serial \in Serials \ {j}
        BY <2>10, <3>1 DEF Serials
      <4>2. QED
        BY <1>2, <3>1, <4>1
    <3>4. \A i \in 1 .. Len(computed') :
            computed'[i].serial \in 1 .. MaxTargets /\ thread'[computed'[i].serial].stage = "published"
      <4>1. j \in 1 .. MaxTargets
        BY DEF Serials
      <4>2. QED
        BY <1>8, <3>1, <3>2, <3>3, <4>1
    <3>5. \A i, k \in 1 .. Len(computed') : computed'[i].serial = computed'[k].serial => i = k
      BY <2>10, <3>1, <3>2
    <3>6. QED
      BY <3>4, <3>5 DEF MessagesInv
  <2>12. SlotsInv'
    BY <1>1, <2>9 DEF PipelineInv, SlotsInv, Serials
  <2>13. QED
    BY <1>4, <1>5, <2>8, <2>11, <2>12 DEF PipelineInv
<1>9. QED
  BY <1>2, <1>7, <1>8

-----------------------------------------------------------------------------
(* The steps of plan_node *)

\* A message that arrives replaces the plan that waits in the slot.
LEMMA DeliverStep ==
  ASSUME PipelineInv, Deliver
  PROVE  PipelineInv' /\ [Service!ServiceNext]_(Service!serviceVars)
<1>1. /\ computed \in Seq(Message) /\ computed # <<>>
      /\ computed' = Tail(computed) /\ thread' = thread /\ latest' = latest
      /\ active' = active /\ pending' = Leg1(Head(computed))
      /\ queuedLeg2' \in {None, Leg2(Head(computed))}
  BY DEF PipelineInv, PipelineTypeOK, Deliver, OnComputedPlan, motion
<1>2. /\ Head(computed) \in Message /\ Head(computed) = computed[1]
      /\ Len(computed) \in Nat /\ Len(computed) > 0
      /\ Len(computed') = Len(computed) - 1
      /\ \A i \in 1 .. Len(computed') : computed'[i] = computed[i + 1]
  BY <1>1, TailOfTopic
<1>3. PICK j \in Serials : j = computed[1].serial
  BY <1>2 DEF PipelineInv, MessagesInv, Serials
<1>4. /\ pending' # None /\ pending'.serial = j
      /\ queuedLeg2' # None => queuedLeg2'.serial = j
  BY <1>1, <1>2, <1>3, LegsOfMessage, NoneAssumption
<1>5. Sent(j) /\ thread[j].stage = "published"
  BY <1>2, <1>3 DEF Sent, PipelineInv, MessagesInv
<1>6. \A s \in Serials : Sent(s)' <=> Sent(s) /\ s # j
  <2> SUFFICES ASSUME NEW s \in Serials PROVE Sent(s)' <=> Sent(s) /\ s # j
    OBVIOUS
  <2>1. ASSUME NEW i \in 1 .. Len(computed'), computed'[i].serial = s
        PROVE  Sent(s) /\ s # j
    <3>1. i + 1 \in 1 .. Len(computed) /\ computed[i + 1].serial = s /\ i + 1 # 1
          /\ 1 \in 1 .. Len(computed)
      BY <1>2, <2>1
    <3>2. QED
      BY <3>1, <1>3 DEF Sent, PipelineInv, MessagesInv
  <2>2. ASSUME NEW i \in 1 .. Len(computed), computed[i].serial = s, s # j
        PROVE  Sent(s)'
    <3>1. i - 1 \in 1 .. Len(computed') /\ computed'[i - 1] = computed[(i - 1) + 1]
          /\ (i - 1) + 1 = i
      BY <1>2, <1>3, <2>2
    <3>2. QED
      BY <3>1, <2>2 DEF Sent
  <2>3. QED
    BY <2>1, <2>2 DEF Sent
<1>7. \A s \in Serials : pending = None \/ pending.serial # s => SameStage(s)
  BY <1>1, <1>4, <1>5, <1>6 DEF SameStage, Planned, Waits, Runs
<1>8. [Service!ServiceNext]_(Service!serviceVars)
  <2>1. CASE pending = None
    <3>1. UNCHANGED Stages
      BY <1>7, <2>1, Unmoved
    <3>2. QED
      BY <1>1, <3>1 DEF Service!serviceVars, Stages, Serials
  <2>2. CASE pending # None
    <3>1. PICK k \in Serials : k = pending.serial
      BY <2>2 DEF PipelineInv, SlotsInv, Serials
    <3>2. Waits(k) /\ Delivered(k) /\ k # j
      BY <1>5, <2>2, <3>1 DEF PipelineInv, SlotsInv, Waits, Delivered
    <3>3. ~Planned(k) /\ ~Runs(k)
      BY <3>2, OneStage
    <3>4. ~Planned(k)' /\ ~Runs(k)' /\ ~Waits(k)'
      BY <1>1, <1>4, <1>6, <3>2, <3>3 DEF Planned, Runs, Waits, Delivered
    <3>5. JobStage(k) = "ready" /\ JobStage(k)' = "free"
      BY <3>2, <3>3, <3>4 DEF JobStage
    <3>6. JobStage(j) = "ready"
      BY <1>5 DEF JobStage, Planned, Waits
    <3>7. Stages' = [Stages EXCEPT ![k] = "free"]
      BY <1>7, <3>1, <3>5, Moved
    <3>8. Stages[k] = "ready" /\ Stages[j] = "ready"
      BY <3>5, <3>6 DEF Stages
    <3>9. QED
      BY <1>1, <3>2, <3>7, <3>8
         DEF Service!ServiceNext, Service!Progress, Service!Replace, Stages, Serials
  <2>3. QED
    BY <2>1, <2>2
<1>9. ThreadsInv'
  BY <1>1 DEF PipelineInv, ThreadsInv, Planned
<1>10. MessagesInv'
  <2>1. \A i \in 1 .. Len(computed') :
          i + 1 \in 1 .. Len(computed) /\ computed'[i] = computed[i + 1]
    BY <1>2
  <2>2. \A i \in 1 .. Len(computed') :
          /\ computed'[i].serial \in 1 .. MaxTargets
          /\ thread'[computed'[i].serial].stage = "published"
    BY <1>1, <2>1 DEF PipelineInv, MessagesInv
  <2>3. ASSUME NEW i \in 1 .. Len(computed'), NEW k \in 1 .. Len(computed'),
               computed'[i].serial = computed'[k].serial
        PROVE  i = k
    <3>1. i + 1 = k + 1
      BY <2>1, <2>3 DEF PipelineInv, MessagesInv
    <3>2. QED
      BY <1>2, <3>1
  <2>4. QED
    BY <2>2, <2>3 DEF MessagesInv
<1>11. \A s \in Serials : Delivered(s) => Delivered(s)' /\ s # j
  BY <1>1, <1>5, <1>6 DEF Delivered
<1>12. Delivered(j)'
  BY <1>1, <1>5, <1>6 DEF Delivered
<1>13. SlotsInv'
  BY <1>1, <1>4, <1>11, <1>12 DEF PipelineInv, SlotsInv, Serials
<1>14. PipelineTypeOK'
  BY DeliverTypes DEF PipelineInv
<1>15. QED
  BY <1>8, <1>9, <1>10, <1>13, <1>14 DEF PipelineInv

\* The timer leaves threads and messages alone.
LEMMA TimerKeeps ==
  ASSUME PipelineInv, OnTimer, UNCHANGED computeVars
  PROVE  /\ PipelineTypeOK' /\ ThreadsInv' /\ MessagesInv'
         /\ latest' = latest
         /\ \A s \in Serials : /\ Planned(s)' <=> Planned(s)
                               /\ Sent(s)' <=> Sent(s)
                               /\ Delivered(s)' <=> Delivered(s)
<1>1. thread' = thread /\ computed' = computed /\ latest' = latest
  BY DEF computeVars
<1>2. QED
  BY <1>1, TimerTypes
     DEF PipelineInv, ThreadsInv, MessagesInv, Planned, Sent, Delivered

\* A plan that waited starts, and ends the one that runs.
LEMMA CommitStep ==
  ASSUME PipelineInv, CommitPending, UNCHANGED computeVars
  PROVE  SlotsInv' /\ Service!ServiceNext
<1>k. /\ latest' = latest
      /\ \A s \in Serials : /\ Planned(s)' <=> Planned(s)
                            /\ Sent(s)' <=> Sent(s)
                            /\ Delivered(s)' <=> Delivered(s)
  BY TimerKeeps DEF OnTimer
<1>1. /\ pending # None /\ pending' = None /\ queuedLeg2' = queuedLeg2
      /\ active' = Committed(pending)
  BY DEF CommitPending, Commit
<1>2. pending \in Plan /\ q \in Int
  BY <1>1 DEF PipelineInv, PipelineTypeOK
<1>3. active' \in Plan /\ active' # None /\ active'.serial = pending.serial
  BY <1>1, <1>2, CommittedIsPlan, NoneAssumption
<1>4. PICK j \in Serials : j = pending.serial
  BY <1>1 DEF PipelineInv, SlotsInv, Serials
<1>5. Waits(j) /\ Delivered(j)
  BY <1>1, <1>4 DEF PipelineInv, SlotsInv, Waits
<1>6. ~Planned(j) /\ ~Runs(j) /\ ~Sent(j)
  BY <1>5, OneStage DEF Delivered
<1>7. \A s \in Serials : /\ Waits(s)' <=> Sent(s)
                         /\ Waits(s) <=> Sent(s) \/ s = j
                         /\ Runs(s)' <=> s = j
  BY <1>k, <1>1, <1>3, <1>4 DEF Waits, Runs
<1>8. /\ JobStage(j) = "ready" /\ JobStage(j)' = "running"
      /\ \A s \in Serials \ {j} :
           JobStage(s)' = IF JobStage(s) = "running" THEN "free" ELSE JobStage(s)
  <2>1. JobStage(j) = "ready" /\ JobStage(j)' = "running"
    BY <1>k, <1>5, <1>6, <1>7 DEF JobStage
  <2>2. ASSUME NEW s \in Serials \ {j}
        PROVE  JobStage(s)' = IF JobStage(s) = "running" THEN "free" ELSE JobStage(s)
    BY <1>k, <1>7 DEF JobStage
  <2>3. QED
    BY <2>1, <2>2
<1>9. Service!ServiceNext
  <2>1. Stages[j] = "ready"
    BY <1>8 DEF Stages
  <2>2. Stages' = [s \in Serials |->
                     IF s = j THEN "running"
                     ELSE IF Stages[s] = "running" THEN "free" ELSE Stages[s]]
    BY <1>8 DEF Stages, Serials
  <2>3. QED
    BY <1>k, <2>1, <2>2
       DEF Service!ServiceNext, Service!Progress, Service!Start, Stages, Serials
<1>10. SlotsInv'
  BY <1>k, <1>1, <1>3, <1>4, <1>5 DEF PipelineInv, SlotsInv, Serials
<1>11. QED
  BY <1>9, <1>10

\* A plan ends, stalled or done.
LEMMA EndStep ==
  ASSUME PipelineInv, Stall \/ Finish, UNCHANGED computeVars
  PROVE  SlotsInv' /\ Service!ServiceNext
<1>k. /\ latest' = latest
      /\ \A s \in Serials : /\ Planned(s)' <=> Planned(s)
                            /\ Sent(s)' <=> Sent(s)
                            /\ Delivered(s)' <=> Delivered(s)
  BY TimerKeeps DEF OnTimer
<1>1. /\ pending = None /\ pending' = None /\ active # None /\ active' = None
  BY DEF Stall, Finish, LegOver, Following
<1>2. PICK j \in Serials : j = active.serial
  BY <1>1 DEF PipelineInv, SlotsInv, Serials
<1>3. Runs(j) /\ ~Planned(j) /\ ~Waits(j)
  BY <1>1, <1>2, OneStage DEF Runs
<1>4. \A s \in Serials : (Waits(s)' <=> Waits(s)) /\ ~Runs(s)' /\ (s # j => ~Runs(s))
  BY <1>k, <1>1, <1>2 DEF Waits, Runs
<1>5. \A s \in Serials \ {j} : SameStage(s)
  BY <1>k, <1>4 DEF SameStage
<1>6. JobStage(j) = "running" /\ JobStage(j)' = "free"
  BY <1>k, <1>3, <1>4 DEF JobStage
<1>7. Stages' = [Stages EXCEPT ![j] = "free"] /\ Stages[j] = "running"
  BY <1>5, <1>6, Moved DEF Stages
<1>8. Service!ServiceNext
  BY <1>k, <1>7 DEF Service!ServiceNext, Service!Progress, Service!End, Stages, Serials
<1>9. SlotsInv'
  BY <1>1 DEF PipelineInv, SlotsInv
<1>10. QED
  BY <1>8, <1>9

\* Following a plan, starting its second leg and holding are no steps of the
\* service.
LEMMA GoOnStep ==
  ASSUME PipelineInv, Follow \/ StartLeg2 \/ Hold, UNCHANGED computeVars
  PROVE  SlotsInv' /\ UNCHANGED Stages
<1>k. \A s \in Serials : /\ Planned(s)' <=> Planned(s)
                         /\ Sent(s)' <=> Sent(s)
                         /\ Delivered(s)' <=> Delivered(s)
  BY TimerKeeps DEF OnTimer
<1>1. /\ pending = None /\ pending' = None
      /\ \/ active' = active /\ queuedLeg2' = queuedLeg2
         \/ /\ active # None /\ active' # None /\ queuedLeg2' = None
            /\ active'.serial = active.serial
  <2>1. CASE Follow \/ Hold
    BY <2>1 DEF Follow, Following, Hold
  <2>2. CASE StartLeg2
    <3>1. /\ pending = None /\ pending' = None /\ active # None
          /\ queuedLeg2 # None /\ queuedLeg2' = None /\ active' = Committed(queuedLeg2)
      BY <2>2 DEF StartLeg2, LegOver, Following, Commit
    <3>2. queuedLeg2 \in Plan /\ q \in Int /\ queuedLeg2.serial = active.serial
      BY <3>1 DEF PipelineInv, PipelineTypeOK, SlotsInv
    <3>3. active' \in Plan /\ active'.serial = active.serial
      BY <3>1, <3>2, CommittedIsPlan
    <3>4. QED
      BY <3>1, <3>3, NoneAssumption
  <2>3. QED
    BY <2>1, <2>2
<1>2. \A s \in Serials : SameStage(s)
  BY <1>k, <1>1 DEF SameStage, Waits, Runs
<1>3. SlotsInv'
  BY <1>k, <1>1 DEF PipelineInv, SlotsInv, Serials
<1>4. QED
  BY <1>2, <1>3, Unmoved

\* Whatever the timer does, it is a step of the service or none.
LEMMA TimerStep ==
  ASSUME PipelineInv, OnTimer, UNCHANGED computeVars
  PROVE  PipelineInv' /\ [Service!ServiceNext]_(Service!serviceVars)
<1>1. SlotsInv' /\ [Service!ServiceNext]_(Service!serviceVars)
  <2>1. CASE CommitPending
    BY <2>1, CommitStep
  <2>2. CASE Stall \/ Finish
    BY <2>2, EndStep
  <2>3. CASE Follow \/ StartLeg2 \/ Hold
    BY <2>3, GoOnStep, TimerKeeps DEF Service!serviceVars, Stages, Serials
  <2>4. QED
    BY <2>1, <2>2, <2>3 DEF OnTimer
<1>2. QED
  BY <1>1, TimerKeeps DEF PipelineInv

\* Feedback and time concern no plan.
LEMMA OtherStep ==
  ASSUME PipelineInv, Feedback \/ (Tick /\ UNCHANGED computeVars) \/ UNCHANGED pipelineVars
  PROVE  PipelineInv' /\ UNCHANGED Service!serviceVars
<1>1. /\ UNCHANGED <<thread, computed, latest, pending, queuedLeg2, active>>
      /\ q' \in Int
  BY LimitsAssumption
     DEF Feedback, OnStateArray, Tick, computeVars, pipelineVars, vars, motion,
         PipelineInv, PipelineTypeOK
<1>2. PipelineInv'
  BY <1>1 DEF PipelineInv, PipelineTypeOK, ThreadsInv, MessagesInv, SlotsInv, Planned,
              Delivered, Sent
<1>3. \A s \in Serials : SameStage(s)
  BY <1>1 DEF SameStage, Planned, Waits, Sent, Runs
<1>4. UNCHANGED Stages
  BY <1>3, Unmoved
<1>5. QED
  BY <1>1, <1>2, <1>4 DEF Service!serviceVars, Stages, Serials

-----------------------------------------------------------------------------
(* The refinement *)

\* Nothing is planned, sent, waits or runs at the start.
LEMMA PipelineStarts == PipelineInit => PipelineInv /\ Service!ServiceInit
<1> SUFFICES ASSUME PipelineInit PROVE PipelineInv /\ Service!ServiceInit
  OBVIOUS
<1>1. /\ latest = 0 /\ computed = <<>> /\ q = 0
      /\ pending = None /\ queuedLeg2 = None /\ active = None
      /\ thread = [s \in Serials |-> NoThread]
  BY DEF PipelineInit, Init, ComputeInit, Serials
<1>2. Len(computed) = 0 /\ computed \in Seq(Message)
  BY <1>1
<1>3. NoThread \in Thread /\ NoThread.stage = "none"
  BY DEF NoThread, Thread
<1>4. PipelineTypeOK
  BY <1>1, <1>2, <1>3, ComputeAssumption DEF PipelineTypeOK, Serials
<1>5. \A s \in Serials : ~Planned(s) /\ ~Waits(s) /\ ~Runs(s)
  BY <1>1, <1>2, <1>3 DEF Planned, Waits, Sent, Runs
<1>6. ThreadsInv
  BY <1>1, <1>3, <1>5, ComputeAssumption DEF ThreadsInv, Serials
<1>7. MessagesInv /\ SlotsInv
  BY <1>1, <1>2 DEF MessagesInv, SlotsInv
<1>8. Service!ServiceInit
  BY <1>1, <1>5 DEF Service!ServiceInit, JobStage, Serials
<1>9. QED
  BY <1>4, <1>6, <1>7, <1>8 DEF PipelineInv

\* Every step keeps the invariant and is a step of the service or none.
LEMMA PipelineSteps ==
  ASSUME PipelineInv, [PipelineNext]_pipelineVars
  PROVE  PipelineInv' /\ [Service!ServiceNext]_(Service!serviceVars)
<1>1. CASE NewTarget
  BY <1>1, TargetStep
<1>2. ASSUME NEW s \in 1 .. MaxTargets, UNCHANGED vars,
             \/ \E outcome \in Outcomes : FinishPlanning(s, outcome)
             \/ Publish(s)
      PROVE  PipelineInv' /\ [Service!ServiceNext]_(Service!serviceVars)
  BY <1>2, FinishStep, PublishStep DEF Serials
<1>3. CASE Deliver
  BY <1>3, DeliverStep
<1>4. CASE OnTimer /\ UNCHANGED computeVars
  BY <1>4, TimerStep
<1>5. CASE Feedback \/ (Tick /\ UNCHANGED computeVars) \/ UNCHANGED pipelineVars
  BY <1>5, OtherStep
<1>6. QED
  BY <1>1, <1>2, <1>3, <1>4, <1>5 DEF PipelineNext

\* plan_compute_node and plan_node, with their threads, messages and legs, are a
\* plan service: every step of theirs is a step of the service, or one the
\* service does not see.
THEOREM PipelineIsPlanService == PipelineSpec => ImplementsService
<1>1. PipelineInit => PipelineInv /\ Service!ServiceInit
  BY PipelineStarts
<1>2. PipelineInv /\ [PipelineNext]_pipelineVars
        => PipelineInv' /\ [Service!ServiceNext]_(Service!serviceVars)
  BY PipelineSteps
<1>3. QED
  BY <1>1, <1>2, PTL DEF PipelineSpec, ImplementsService, Service!ServiceSpec

-----------------------------------------------------------------------------
(* plan_motion: rankings *)

\* A pose of the arm is not none.
LEMMA PoseIsSomewhere ==
  ASSUME NEW x \in Pose
  PROVE  x # Nowhere
<1>1. DOMAIN x = {"base", "reach", "wrist"}
  BY DEF Pose
<1>2. DOMAIN Nowhere = {}
  BY DEF Nowhere
<1>3. QED
  BY <1>1, <1>2

\* A cost is a natural number.
LEMMA CostType ==
  ASSUME NEW p \in Pose, NEW x \in Pose
  PROVE  Cost(p, x) \in Nat
<1>1. p.base \in Int /\ p.reach \in Int /\ p.wrist \in Int
  BY PlannerAssumption DEF Pose
<1>2. x.base \in Int /\ x.reach \in Int /\ x.wrist \in Int
  BY PlannerAssumption DEF Pose
<1>3. \A n \in Int : Magnitude(n) \in Nat
  BY DEF Magnitude
<1>4. Moves(x, p)[1] \in Nat /\ Moves(x, p)[2] \in Nat /\ Moves(x, p)[3] \in Nat
  BY <1>1, <1>2, <1>3 DEF Moves
<1>5. QED
  BY <1>1, <1>2, <1>3, <1>4 DEF Cost, Distance

\* What _rank_ik_candidates promises.
IsFeasible(r) == Accepted(r) /\ ~Singular(r.q)


\* When no result is feasible the ranking is the one that came closest.
LEMMA RankWhenNoneFeasible ==
  ASSUME NEW given \in Seq(IKResult), given # <<>>, NEW seed \in Pose,
         ~\E i \in DOMAIN given : IsFeasible(given[i])
  PROVE  \E c \in DOMAIN given : /\ RankCandidates(given, seed) = <<given[c]>>
                                   /\ \A j \in DOMAIN given :
                                        given[c].residual <= given[j].residual
<1> DEFINE closer(i, j) == given[i].residual < given[j].residual
           nearest(i) == \A j \in DOMAIN given : ~closer(j, i) /\ (j < i => closer(i, j))
           closest == CHOOSE i \in DOMAIN given : nearest(i)
<1>1. DOMAIN given = 1 .. Len(given) /\ Len(given) \in Nat
  OBVIOUS
<1>2. IsFiniteSet(DOMAIN given) /\ DOMAIN given # {} /\ DOMAIN given \in SUBSET Int
  <2>1. IsFiniteSet(1 .. Len(given))
    BY <1>1, FS_Interval
  <2>2. 1 \in DOMAIN given
    OBVIOUS
  <2>3. QED
    BY <1>1, <2>1, <2>2
<1>3. \A i \in DOMAIN given : given[i].residual \in Nat /\ i \in Nat
  <2>1. \A i \in DOMAIN given : given[i] \in IKResult
    BY ElementOf
  <2>2. QED
    BY <1>1, <2>1 DEF IKResult
<1>4. PICK f \in [DOMAIN given -> Int] : \A i \in DOMAIN given : f[i] = given[i].residual
  <2>1. [i \in DOMAIN given |-> given[i].residual] \in [DOMAIN given -> Int]
    BY <1>3
  <2>2. QED
    BY <2>1
<1>5. PICK c \in DOMAIN given : \A j \in DOMAIN given \ {c} : Before(f, c, j)
  BY <1>2, LeastExists
<1>6. nearest(c)
  <2>1. ASSUME NEW j \in DOMAIN given PROVE ~closer(j, c) /\ (j < c => closer(c, j))
    <3>1. CASE j = c
      BY <1>3, <3>1
    <3>2. CASE j # c
      BY <1>3, <1>4, <1>5, <3>2 DEF Before
    <3>3. QED
      BY <3>1, <3>2
  <2>2. QED
    BY <2>1
<1>7. nearest(closest) /\ closest \in DOMAIN given
  <2> HIDE DEF nearest
  <2>1. QED
    BY <1>5, <1>6
<1>8. RankCandidates(given, seed) = <<given[closest]>>
  BY DEF RankCandidates, IsFeasible
<1>9. \A j \in DOMAIN given : given[closest].residual <= given[j].residual
  <2> HIDE DEF closest
  <2>1. QED
    BY <1>3, <1>7
<1>10. QED
  BY <1>7, <1>8, <1>9

\* When some are feasible they are all ranked, by their cost.
LEMMA RankWhenSomeFeasible ==
  ASSUME NEW given \in Seq(IKResult), NEW seed \in Pose,
         \E i \in DOMAIN given : IsFeasible(given[i])
  PROVE  \E n \in Nat \ {0} : \E g \in [1 .. n -> DOMAIN given] :
           /\ RankCandidates(given, seed) = [k \in 1 .. n |-> given[g[k]]]
           /\ \A k \in 1 .. n : IsFeasible(given[g[k]])
           /\ \A i \in DOMAIN given : IsFeasible(given[i]) => \E k \in 1 .. n : g[k] = i
           /\ \A j, k \in 1 .. n : j < k =>
                Cost(given[g[j]].q, seed) <= Cost(given[g[k]].q, seed)
<1> DEFINE S == {i \in DOMAIN given : IsFeasible(given[i])}
           n == Cardinality(S)
           cost(i) == Cost(given[i].q, seed)
           before(i, j) == cost(i) < cost(j) \/ (cost(i) = cost(j) /\ i < j)
           sorted(g) == \A i, j \in DOMAIN g : i < j => before(g[i], g[j])
           order == CHOOSE g \in [1 .. n -> S] : sorted(g)
<1>1. DOMAIN given = 1 .. Len(given) /\ Len(given) \in Nat
  OBVIOUS
<1>2. IsFiniteSet(S) /\ S # {} /\ S \in SUBSET Int /\ S \in SUBSET DOMAIN given
  <2>1. IsFiniteSet(DOMAIN given)
    BY <1>1, FS_Interval
  <2>2. QED
    BY <1>1, <2>1, FS_Subset
<1>3. n \in Nat \ {0}
  <2> HIDE DEF S
  <2>1. QED
    BY <1>2, FS_CardinalityType, FS_EmptySet
<1>4. \A i \in S : cost(i) \in Int /\ i \in Int
  <2>1. \A i \in DOMAIN given : given[i] \in IKResult
    BY ElementOf
  <2>2. \A i \in S : given[i].q \in Pose
    BY <2>1 DEF IKResult
  <2>3. QED
    BY <1>2, <2>2, CostType
<1>5. n = Cardinality(S)
  OBVIOUS
<1>6. RankCandidates(given, seed) = [k \in DOMAIN order |-> given[order[k]]]
  BY <1>2 DEF RankCandidates, IsFeasible
<1>7. \A i \in S : IsFeasible(given[i])
  OBVIOUS
<1>8. \A i \in DOMAIN given : IsFeasible(given[i]) => i \in S
  OBVIOUS
<1> HIDE DEF S, cost, n
<1>9. PICK f \in [S -> Int] : \A i \in S : f[i] = cost(i)
  <2>1. [i \in S |-> cost(i)] \in [S -> Int]
    BY <1>4
  <2>2. QED
    BY <2>1
<1>10. \A i, j \in S : Before(f, i, j) <=> before(i, j)
  BY <1>9 DEF Before
<1> HIDE DEF before
<1>11. PICK h \in [1 .. n -> S] : \A i, j \in 1 .. n : i < j => Before(f, h[i], h[j])
  BY <1>2, <1>5, SortExists
<1>12. sorted(h)
  BY <1>10, <1>11
<1>13. order \in [1 .. n -> S] /\ sorted(order)
  <2> HIDE DEF sorted
  <2>1. QED
    BY <1>12
<1> HIDE DEF order
<1>14. \A i, j \in 1 .. n : i < j => Before(f, order[i], order[j])
  BY <1>10, <1>13
<1>15. \A x \in S : \E k \in 1 .. n : order[k] = x
  <2>1. S \in SUBSET Int /\ IsFiniteSet(S)
    BY <1>2
  <2>2. f \in [S -> Int]
    BY <1>9
  <2>3. order \in [1 .. Cardinality(S) -> S]
    BY <1>5, <1>13
  <2>4. \A i, j \in 1 .. Cardinality(S) : i < j => Before(f, order[i], order[j])
    BY <1>5, <1>14
  <2>5. \A x \in S : \E k \in 1 .. Cardinality(S) : order[k] = x
    BY <2>1, <2>2, <2>3, <2>4, SortIsOnto, Zenon
  <2>6. QED
    BY <1>5, <2>5
<1>16. \A j, k \in 1 .. n : j < k => cost(order[j]) <= cost(order[k])
  <2>1. ASSUME NEW j \in 1 .. n, NEW k \in 1 .. n, j < k
        PROVE  cost(order[j]) <= cost(order[k])
    <3>1. before(order[j], order[k]) /\ order[j] \in S /\ order[k] \in S
      BY <1>13, <2>1
    <3>2. cost(order[j]) \in Int /\ cost(order[k]) \in Int
      BY <1>4, <3>1
    <3>3. QED
      BY <3>1, <3>2 DEF before
  <2>2. QED
    BY <2>1
<1>17. order \in [1 .. n -> DOMAIN given] /\ DOMAIN order = 1 .. n
  BY <1>2, <1>13
<1>18. \A k \in 1 .. n : IsFeasible(given[order[k]])
  BY <1>7, <1>13
<1>19. \A j, k \in 1 .. n : j < k =>
         Cost(given[order[j]].q, seed) <= Cost(given[order[k]].q, seed)
  BY <1>16 DEF cost
<1>20. QED
  BY <1>3, <1>6, <1>8, <1>15, <1>17, <1>18, <1>19


\* What _rank_ik_candidates promises: it returns results of the solver; if one is
\* feasible then all of these, and only these, the cheapest first.  It starts with
\* one that misses the target only if all do.
RankIsSound(given, seed, r) ==
  /\ r \in Seq(IKResult) /\ 1 \in DOMAIN r
  /\ \A k \in DOMAIN r : \E i \in DOMAIN given : r[k] = given[i]
  /\ IF \E i \in DOMAIN given : IsFeasible(given[i])
     THEN /\ \A k \in DOMAIN r : IsFeasible(r[k])
          /\ \A i \in DOMAIN given : IsFeasible(given[i]) => \E k \in DOMAIN r : r[k] = given[i]
          /\ \A j, k \in DOMAIN r : j < k => Cost(r[j].q, seed) <= Cost(r[k].q, seed)
     ELSE DOMAIN r = {1}
  /\ ~Accepted(r[1]) => ~\E i \in DOMAIN given : Accepted(given[i])

\* That is what it returns, for every list of results and every pose to start from.
LEMMA RankPromises ==
  ASSUME NEW given \in Solutions, NEW seed \in Pose
  PROVE  RankIsSound(given, seed, RankCandidates(given, seed))
<1> DEFINE r == RankCandidates(given, seed)
<1>1. given \in Seq(IKResult) /\ given # <<>>
  BY PlannerAssumption
<1>2. \A i \in DOMAIN given : given[i] \in IKResult
  BY <1>1, ElementOf
<1>3. CASE ~\E i \in DOMAIN given : IsFeasible(given[i])
  <2>1. PICK c \in DOMAIN given : /\ r = <<given[c]>>
                                    /\ \A j \in DOMAIN given : given[c].residual <= given[j].residual
    BY <1>1, <1>3, RankWhenNoneFeasible
  <2> HIDE DEF r
  <2>2. r \in Seq(IKResult) /\ DOMAIN r = {1} /\ r[1] = given[c]
    BY <1>2, <2>1
  <2>3. ASSUME NEW i \in DOMAIN given, Accepted(given[i]) PROVE Accepted(given[c])
    <3>1. given[i].residual \in Nat /\ given[c].residual \in Nat
      BY <1>2 DEF IKResult
    <3>2. given[i].residual <= ResidualAccept /\ ResidualAccept \in Nat
      BY <2>3, PlannerAssumption DEF Accepted
    <3>3. given[c].residual <= given[i].residual
      BY <2>1
    <3>4. QED
      BY <3>1, <3>2, <3>3 DEF Accepted
  <2>4. QED
    BY <1>3, <2>2, <2>3 DEF RankIsSound, r
<1>4. CASE \E i \in DOMAIN given : IsFeasible(given[i])
  <2>1. PICK n \in Nat \ {0} : \E g \in [1 .. n -> DOMAIN given] :
           /\ r = [k \in 1 .. n |-> given[g[k]]]
           /\ \A k \in 1 .. n : IsFeasible(given[g[k]])
           /\ \A i \in DOMAIN given : IsFeasible(given[i]) => \E k \in 1 .. n : g[k] = i
           /\ \A j, k \in 1 .. n : j < k =>
                Cost(given[g[j]].q, seed) <= Cost(given[g[k]].q, seed)
    BY <1>1, <1>4, RankWhenSomeFeasible
  <2>2. PICK g \in [1 .. n -> DOMAIN given] :
           /\ r = [k \in 1 .. n |-> given[g[k]]]
           /\ \A k \in 1 .. n : IsFeasible(given[g[k]])
           /\ \A i \in DOMAIN given : IsFeasible(given[i]) => \E k \in 1 .. n : g[k] = i
           /\ \A j, k \in 1 .. n : j < k =>
                Cost(given[g[j]].q, seed) <= Cost(given[g[k]].q, seed)
    BY <2>1
  <2> HIDE DEF r
  <2>3. r \in Seq(IKResult) /\ DOMAIN r = 1 .. n /\ 1 \in 1 .. n
    <3>1. \A k \in 1 .. n : given[g[k]] \in IKResult
      BY <1>2, <2>2
    <3>2. QED
      BY <2>2, <3>1
  <2>4. \A k \in 1 .. n : r[k] = given[g[k]] /\ g[k] \in DOMAIN given
    BY <2>2
  <2>5. \A k \in 1 .. n : IsFeasible(r[k])
    BY <2>2, <2>4
  <2>6. \A i \in DOMAIN given : IsFeasible(given[i]) => \E k \in 1 .. n : r[k] = given[i]
    BY <2>2, <2>4
  <2>7. \A j, k \in 1 .. n : j < k => Cost(r[j].q, seed) <= Cost(r[k].q, seed)
    BY <2>2, <2>4
  <2>8. Accepted(r[1])
    BY <2>3, <2>5 DEF IsFeasible
  <2>9. RankIsSound(given, seed, r)
    BY <1>4, <2>3, <2>4, <2>5, <2>6, <2>7, <2>8 DEF RankIsSound
  <2>10. QED
    BY <2>9 DEF r
<1>5. QED
  BY <1>3, <1>4

\* A ranking that starts with a result that reaches the target has no other.
LEMMA AllAccepted ==
  ASSUME NEW given, NEW seed, NEW r, RankIsSound(given, seed, r), Accepted(r[1])
  PROVE  \A k \in DOMAIN r : Accepted(r[k])
BY DEF RankIsSound, IsFeasible

\* The tucked pose has its wrist on a side.
LEMMA TuckIsPose ==
  ASSUME NEW base \in Int, NEW x
  PROVE  TuckPose(base, x) \in Pose /\ TuckPose(base, x).wrist # 0
<1> DEFINE on(side) == [base |-> base, reach |-> 0, wrist |-> -side]
<1>1. ASSUME NEW side \in -1 .. 1, side # 0 PROVE on(side) \in Pose /\ on(side).wrist # 0
  <2>1. -FullReach <= 0 /\ 0 <= FullReach /\ FullReach \in Int
    BY PlannerAssumption
  <2>2. 0 \in -FullReach .. FullReach
    BY <2>1
  <2>3. -side \in -1 .. 1 /\ -side # 0
    BY <1>1
  <2>4. QED
    BY <2>2, <2>3 DEF Pose
<1>2. \E side \in -1 .. 1 : side # 0 /\ TuckPose(base, x) = on(side)
  <2>1. PICK minus : minus = -1
    OBVIOUS
  <2>2. minus \in -1 .. 1 /\ minus # 0 /\ 1 \in -1 .. 1
    BY <2>1
  <2>3. TuckPose(base, x) = on(1) \/ TuckPose(base, x) = on(minus)
    BY <2>1 DEF TuckPose
  <2>4. QED
    BY <2>2, <2>3
<1>3. QED
  BY <1>1, <1>2

\* What is known of a call whose ways are being tried.
WaysAreRanked ==
  /\ RankIsSound(found.direct, from, ranked.direct)
  /\ RankIsSound(found.fold, tuck, ranked.fold)
  /\ Accepted(ranked.direct[1]) /\ ranked.direct[1].q \in Pose /\ ranked.direct[1].q # Nowhere
  /\ tuck \in Pose /\ tuck.wrist # 0

\* That is known as soon as the straight way was found to reach the target.
LEMMA WaysAreRankedWhenTried ==
  ASSUME CallTypeOK, answer \in {"checking", "planned", "colliding"}
  PROVE  WaysAreRanked
<1>1. /\ found.direct \in Solutions /\ found.fold \in Solutions /\ from \in Pose
      /\ ranked.direct = RankCandidates(found.direct, from)
      /\ tuck = TuckPose(ranked.direct[1].q.base, from)
      /\ ranked.fold = RankCandidates(found.fold, tuck)
      /\ Accepted(ranked.direct[1])
  BY DEF CallTypeOK
<1>2. RankIsSound(found.direct, from, ranked.direct)
  BY <1>1, RankPromises
<1>3. ranked.direct[1] \in IKResult
  BY <1>2, ElementOf DEF RankIsSound
<1>4. ranked.direct[1].q \in Pose /\ ranked.direct[1].q.base \in Int
  BY <1>3 DEF IKResult, Pose
<1>5. tuck \in Pose /\ tuck.wrist # 0
  BY <1>1, <1>4, TuckIsPose
<1>6. RankIsSound(found.fold, tuck, ranked.fold)
  BY <1>1, <1>5, RankPromises
<1>7. QED
  BY <1>1, <1>2, <1>4, <1>5, <1>6, PoseIsSomewhere DEF WaysAreRanked

\* The ways that are ahead when one is left.
HasMode(list, mode) == \E i \in DOMAIN list : list[i] = mode

\* A way that is left does not come back, and the others stay.
LEMMA ModeSteps ==
  ASSUME NEW list \in ModeLists, list # <<>>
  PROVE  /\ Tail(list) \in ModeLists
         /\ Head(list) \in {"direct", "fold", "retract"} /\ HasMode(list, Head(list))
         /\ \A mode \in {"direct", "fold", "retract"} :
              HasMode(Tail(list), mode) <=> HasMode(list, mode) /\ mode # Head(list)
         /\ Head(list) = "retract" => ~HasMode(list, "direct")
         /\ HasMode(list, "direct") => HasMode(list, "retract")
<1>1. CASE list = <<"fold", "direct", "retract">>
  BY <1>1 DEF ModeLists, HasMode
<1>2. CASE list = <<"direct", "retract", "fold">>
  BY <1>2 DEF ModeLists, HasMode
<1>3. CASE list = <<"direct", "retract">>
  BY <1>3 DEF ModeLists, HasMode
<1>4. CASE list = <<"retract", "fold">>
  BY <1>4 DEF ModeLists, HasMode
<1>5. CASE list = <<"retract">>
  BY <1>5 DEF ModeLists, HasMode
<1>6. CASE list = <<"fold">>
  BY <1>6 DEF ModeLists, HasMode
<1>7. QED
  BY <1>1, <1>2, <1>3, <1>4, <1>5, <1>6 DEF ModeLists


\* A call whose state is kept but for what the checker found, and for the way that
\* is tried.
RankingStays == UNCHANGED <<from, found, ranked, tuck>> /\ hits \subseteq hits'

\* What was found of a pose or a leg stays known.
LEMMA HitsStay ==
  ASSUME RankingStays
  PROVE  /\ \A p, x : Collides(p, x) => Collides(p, x)'
         /\ \A p, x : IsFree(p, x) => IsFree(p, x)'
         /\ HitAll("direct", from) => HitAll("direct", from)'
         /\ HitAll("fold", tuck) => HitAll("fold", tuck)'
<1>1. /\ \A p, x : Collides(p, x) => Collides(p, x)'
      /\ \A p, x : IsFree(p, x) => IsFree(p, x)'
  BY DEF RankingStays, Collides, IsFree
<1>2. HitAll("direct", from) => HitAll("direct", from)'
  BY <1>1 DEF RankingStays, HitAll
<1>3. HitAll("fold", tuck) => HitAll("fold", tuck)'
  BY <1>1 DEF RankingStays, HitAll
<1>4. QED
  BY <1>1, <1>2, <1>3

\* The two notions say the same of the ways that are left.
LEMMA AheadIsHolds ==
  /\ \A mode : Ahead(mode) <=> HasMode(modes, mode)
  /\ \A mode : Ahead(mode)' <=> HasMode(modes', mode)
BY DEF Ahead, HasMode

\* What a way leaves behind.
FoldFailed == Collides(from, tuck) \/ ~Accepted(ranked.fold[1]) \/ HitAll("fold", tuck)
RetractFailed == Collides(Mid, Mid) \/ Collides(from, Mid) \/ Collides(Mid, unsafe)

\* When a way is left and what it leaves behind is known, the next is tried afresh.
LEMMA LeaveMode ==
  ASSUME CallTypeOK, WaysInv, answer = "checking", modes # <<>>,
         modes' = Tail(modes), next' = 1, RankingStays, UNCHANGED <<answer, way>>,
         Head(modes) = "direct" => unsafe' = ranked.direct[1].q /\ HitAll("direct", from)',
         Head(modes) # "direct" => unsafe' = unsafe,
         Head(modes) = "fold" => FoldFailed',
         Head(modes) = "retract" => RetractFailed'
  PROVE  CallTypeOK' /\ WaysInv'
<1>1. modes \in ModeLists
  BY DEF CallTypeOK
<1>2. /\ modes' \in ModeLists
      /\ Head(modes) \in {"direct", "fold", "retract"} /\ Ahead(Head(modes))
      /\ \A mode \in {"direct", "fold", "retract"} :
           Ahead(mode)' <=> Ahead(mode) /\ mode # Head(modes)
      /\ Ahead("direct") => Ahead("retract")
  BY <1>1, ModeSteps, AheadIsHolds
<1>3. CallTypeOK'
  <2>1. 1 \in Nat \ {0}
    OBVIOUS
  <2>2. QED
    BY <1>2, <2>1 DEF CallTypeOK, RankingStays
<1>4. DirectInv /\ FoldInv /\ RetractInv
  BY DEF WaysInv
<1>5. DirectInv'
  <2>1. unsafe' = IF Ahead("direct")' THEN Nowhere ELSE ranked'.direct[1].q
    <3>1. CASE Head(modes) = "direct"
      BY <1>2, <3>1 DEF RankingStays
    <3>2. CASE Head(modes) # "direct"
      <4>1. Ahead("direct")' <=> Ahead("direct")
        BY <1>2, <3>2
      <4>2. unsafe = IF Ahead("direct") THEN Nowhere ELSE ranked.direct[1].q
        BY <1>4, <3>2 DEF DirectInv, IsTried
      <4>3. QED
        BY <3>2, <4>1, <4>2 DEF RankingStays
    <3>3. QED
      BY <3>1, <3>2
  <2>2. HitBefore("direct", from, next)'
    <3>1. 1 .. next' - 1 = {}
      OBVIOUS
    <3>2. QED
      BY <3>1 DEF HitBefore
  <2>3. (next - 1 \in 0 .. Len(ranked.direct))'
    <3>1. ranked'.direct \in Seq(IKResult)
      BY <1>3, WaysAreRankedWhenTried DEF WaysAreRanked, RankIsSound, RankingStays
    <3>2. Len(ranked'.direct) \in Nat
      BY <3>1
    <3>3. QED
      BY <3>2
  <2>4. ~Ahead("direct")' => HitAll("direct", from)'
    BY <1>2, <1>4, HitsStay DEF DirectInv
  <2>5. ~(next' > 1)
    OBVIOUS
  <2>6. QED
    BY <2>1, <2>2, <2>3, <2>4, <2>5 DEF DirectInv
<1>6. FoldInv'
  <2>1. ~Ahead("fold")' => FoldFailed'
    <3>1. CASE Head(modes) = "fold"
      BY <3>1
    <3>2. CASE Head(modes) # "fold"
      BY <1>2, <1>4, <3>2, HitsStay DEF FoldInv, FoldFailed, RankingStays
    <3>3. QED
      BY <3>1, <3>2
  <2>2. ~(next' > 1)
    OBVIOUS
  <2>3. QED
    BY <2>1, <2>2 DEF FoldInv, FoldFailed
<1>7. RetractInv'
  <2>1. ~Ahead("retract")' => RetractFailed'
    <3>1. CASE Head(modes) = "retract"
      BY <3>1
    <3>2. CASE Head(modes) # "retract"
      <4>1. ASSUME ~Ahead("retract")' PROVE RetractFailed'
        <5>1. ~Ahead("retract") /\ Head(modes) # "direct"
          BY <1>2, <3>2, <4>1
        <5>2. RetractFailed /\ unsafe' = unsafe
          BY <1>4, <5>1 DEF RetractInv, RetractFailed
        <5>3. QED
          BY <5>2, HitsStay DEF RetractFailed, Mid, RankingStays
      <4>2. QED
        BY <4>1
    <3>3. QED
      BY <3>1, <3>2
  <2>2. next' <= 3 /\ next' # 3
    OBVIOUS
  <2>3. QED
    BY <2>1, <2>2 DEF RetractInv, RetractFailed
<1>8. QED
  BY <1>3, <1>5, <1>6, <1>7 DEF WaysInv


\* What is behind a candidate of a ranking.
Reaching(given) == {given[i].q : i \in {j \in DOMAIN given : Accepted(given[j])}}

\* A candidate reaches the target; it is singular only if all that reach it are, and what
\* is cheaper comes before it.
LEMMA RankedGoal ==
  ASSUME NEW given \in Solutions, NEW seed \in Pose, NEW r,
         RankIsSound(given, seed, r), Accepted(r[1]), NEW k \in DOMAIN r
  PROVE  /\ r[k].q \in Reaching(given)
         /\ Singular(r[k].q) => \A x \in Reaching(given) : Singular(x)
         /\ \A x \in Reaching(given) : ~Singular(x) /\ Cost(x, seed) < Cost(r[k].q, seed) =>
              \E j \in 1 .. k - 1 : j \in DOMAIN r /\ r[j].q = x
<1>1. \A i \in DOMAIN given : given[i] \in IKResult /\ given[i].q \in Pose
  <2>1. \A i \in DOMAIN given : given[i] \in IKResult
    BY PlannerAssumption, ElementOf
  <2>2. QED
    BY <2>1 DEF IKResult
<1>2. DOMAIN r = 1 .. Len(r) /\ Len(r) \in Nat
  BY DEF RankIsSound
<1>3. PICK i \in DOMAIN given : r[k] = given[i]
  BY DEF RankIsSound
<1>4. Accepted(r[k])
  BY AllAccepted
<1>5. r[k].q \in Reaching(given)
  BY <1>3, <1>4 DEF Reaching
<1>6. ASSUME Singular(r[k].q), NEW j \in DOMAIN given, Accepted(given[j])
      PROVE  Singular(given[j].q)
  BY <1>6 DEF RankIsSound, IsFeasible
<1>7. ASSUME NEW n \in DOMAIN given, Accepted(given[n]), ~Singular(given[n].q),
             Cost(given[n].q, seed) < Cost(r[k].q, seed)
      PROVE  \E j \in 1 .. k - 1 : j \in DOMAIN r /\ r[j].q = given[n].q
  <2>1. IsFeasible(given[n])
    BY <1>7 DEF IsFeasible
  <2>2. PICK j \in DOMAIN r : r[j] = given[n]
    BY <2>1 DEF RankIsSound
  <2>3. \A x, y \in DOMAIN r : x < y => Cost(r[x].q, seed) <= Cost(r[y].q, seed)
    BY <2>1 DEF RankIsSound
  <2>4. Cost(r[j].q, seed) \in Nat /\ Cost(r[k].q, seed) \in Nat
    BY <1>1, <1>3, <2>2, CostType
  <2>5. Cost(r[j].q, seed) < Cost(r[k].q, seed)
    BY <1>7, <2>2
  <2>6. ~(k < j) /\ k # j
    BY <2>3, <2>4, <2>5
  <2>7. j \in 1 .. k - 1
    BY <1>2, <2>6
  <2>8. QED
    BY <2>2, <2>7
<1>8. QED
  BY <1>5, <1>6, <1>7 DEF Reaching

\* What the property names of what the solver found, before and after a step.
LEMMA ReachedIsGoals ==
  /\ Reached("direct") = Reaching(found.direct) /\ Reached("fold") = Reaching(found.fold)
  /\ Reached("direct")' = Reaching(found'.direct) /\ Reached("fold")' = Reaching(found'.fold)
BY DEF Reached, Reaching

\* What holds while a way is tried.
LEMMA Trying ==
  ASSUME PlannerInv, answer = "checking", modes # <<>>
  PROVE  /\ CallTypeOK /\ WaysInv /\ DirectInv /\ FoldInv /\ RetractInv /\ WaysAreRanked
         /\ next \in Nat \ {0} /\ from \in Pose
         /\ found.direct \in Solutions /\ found.fold \in Solutions
         /\ Head(modes) \in {"direct", "fold", "retract"}
         /\ IsTried(Head(modes)) /\ Ahead(Head(modes))
         /\ Head(modes) = "retract" => ~Ahead("direct") /\ unsafe = ranked.direct[1].q
<1>1. CallTypeOK /\ WaysInv /\ DirectInv /\ FoldInv /\ RetractInv
  BY DEF PlannerInv, WaysInv
<1>2. WaysAreRanked
  BY <1>1, WaysAreRankedWhenTried
<1>3. /\ next \in Nat \ {0} /\ from \in Pose /\ modes \in ModeLists
      /\ found.direct \in Solutions /\ found.fold \in Solutions
  BY <1>1 DEF CallTypeOK
<1>4. /\ Head(modes) \in {"direct", "fold", "retract"} /\ Ahead(Head(modes))
      /\ Head(modes) = "retract" => ~Ahead("direct")
  BY <1>3, ModeSteps, AheadIsHolds
<1>5. IsTried(Head(modes))
  BY DEF IsTried
<1>6. Head(modes) = "retract" => unsafe = ranked.direct[1].q
  BY <1>1, <1>4 DEF DirectInv
<1>7. QED
  BY <1>1, <1>2, <1>3, <1>4, <1>5, <1>6

\* A straight plan.
LEMMA FreeDirect ==
  ASSUME PlannerInv, CheckFree, Head(modes) = "direct"
  PROVE  PlannerInv'
<1>1. /\ CallTypeOK /\ DirectInv /\ WaysAreRanked /\ IsTried("direct")
      /\ from \in Pose /\ found.direct \in Solutions
  BY Trying DEF CheckFree
<1>2. next \in Tried(ranked.direct)
  BY DEF CheckFree, Exhausted
<1>3. PICK k : k = next
  OBVIOUS
<1>4. k \in DOMAIN ranked.direct /\ HitBefore("direct", from, k)
  BY <1>1, <1>2, <1>3 DEF Tried, DirectInv
<1>5. PICK end : end = ranked.direct[k].q
  OBVIOUS
<1>6. Asked = <<from, end>> /\ Way = <<from, end>> /\ IsLast
  BY <1>3, <1>5 DEF Asked, Way, IsLast
<1>7. answer' = "planned" /\ way' = <<from, end>> /\ RankingStays /\ UNCHANGED modes
  BY <1>6 DEF CheckFree, Checked, RankingStays
<1>8. IsFree(from, end)'
  BY <1>6 DEF CheckFree, Checked, IsFree
<1>9. /\ end \in Reaching(found.direct)
      /\ Singular(end) => \A x \in Reaching(found.direct) : Singular(x)
      /\ \A x \in Reaching(found.direct) : ~Singular(x) /\ Cost(x, from) < Cost(end, from) =>
           \E j \in 1 .. k - 1 : j \in DOMAIN ranked.direct /\ ranked.direct[j].q = x
  BY <1>1, <1>4, <1>5, RankedGoal DEF WaysAreRanked
<1>10. \A x \in Reaching(found.direct) : ~Singular(x) /\ Cost(x, from) < Cost(end, from) =>
         Collides(from, x)
  BY <1>4, <1>9 DEF HitBefore
<1>11. PlanIsUsable'
  <2>1. Len(way') = 2 /\ way'[1] = from' /\ way'[2] = end /\ Last(way') = end
    BY <1>7 DEF Last, RankingStays
  <2>2. \A i \in 1 .. Len(way') - 1 : i = 1 /\ i + 1 = 2
    BY <2>1
  <2>3. \A i \in 1 .. Len(way') - 1 : IsFree(way[i], way[i + 1])'
    BY <1>8, <2>1, <2>2 DEF IsFree, RankingStays
  <2>4. Reached("direct")' = Reaching(found.direct)
    BY <1>7, ReachedIsGoals DEF RankingStays
  <2>5. \A x \in Reaching(found.direct) : ~Singular(x) /\ Cost(x, from') < Cost(end, from') =>
           Collides(from, x)'
    BY <1>7, <1>10, HitsStay DEF RankingStays
  <2>6. Len(way') # 3
    BY <2>1
  <2>7. answer' # "unreachable" /\ answer' # "colliding"
    BY <1>7
  <2>8. QED
    BY <1>9, <2>1, <2>3, <2>4, <2>5, <2>6, <2>7 DEF PlanIsUsable
<1>12. CallTypeOK'
  BY <1>1, <1>7 DEF CallTypeOK, RankingStays, CheckFree
<1>13. WaysInv'
  BY <1>7 DEF WaysInv
<1>14. QED
  BY <1>11, <1>12, <1>13 DEF PlannerInv


\* A plan over the tucked pose: its first leg, then its second.
LEMMA FreeFold ==
  ASSUME PlannerInv, CheckFree, Head(modes) = "fold"
  PROVE  PlannerInv'
<1>1. /\ CallTypeOK /\ WaysInv /\ DirectInv /\ FoldInv /\ RetractInv /\ WaysAreRanked
      /\ IsTried("fold") /\ Ahead("fold") /\ next \in Nat \ {0} /\ found.fold \in Solutions
  BY Trying DEF CheckFree
<1>2. Accepted(ranked.fold[1]) /\ (next = 1 \/ next - 1 \in Tried(ranked.fold))
  BY <1>1 DEF CheckFree, Exhausted
<1>3. RankingStays /\ UNCHANGED modes
  BY DEF CheckFree, Checked, RankingStays
<1>4. CASE next = 1
  <2>1. Asked = <<from, tuck>> /\ ~IsLast
    BY <1>4 DEF Asked, IsLast
  <2>2. next' = 2 /\ UNCHANGED <<answer, way, unsafe>>
    BY <1>4, <2>1 DEF CheckFree
  <2>3. IsFree(from, tuck)'
    BY <2>1 DEF CheckFree, Checked, IsFree
  <2>4. ~IsTried("direct") /\ ~IsTried("retract")
    BY DEF IsTried
  <2>5. DirectInv'
    BY <1>1, <1>3, <2>2, <2>4, HitsStay DEF DirectInv, IsTried, Ahead, RankingStays
  <2>6. FoldInv'
    <3>1. HitBefore("fold", tuck, next - 1)'
      <4>1. 1 .. (next' - 1) - 1 = {}
        BY <2>2
      <4>2. QED
        BY <4>1 DEF HitBefore
    <3>2. (next - 2 \in 0 .. Len(ranked.fold))'
      <4>1. Len(ranked.fold) \in Nat
        BY <1>1 DEF WaysAreRanked, RankIsSound
      <4>2. QED
        BY <1>3, <2>2, <4>1 DEF RankingStays
    <3>3. Accepted(ranked.fold[1])'
      BY <1>2, <1>3 DEF RankingStays
    <3>4. Ahead("fold")'
      BY <1>1, <1>3 DEF Ahead
    <3>5. QED
      BY <2>3, <3>1, <3>2, <3>3, <3>4 DEF FoldInv
  <2>7. RetractInv'
    <3>1. ~IsTried("retract")'
      BY <1>3, <2>4 DEF IsTried
    <3>2. ~Ahead("retract")' => RetractFailed'
      BY <1>1, <1>3, <2>2, HitsStay DEF RetractInv, RetractFailed, Ahead, Mid, RankingStays
    <3>3. QED
      BY <3>1, <3>2 DEF RetractInv, RetractFailed
  <2>8. CallTypeOK'
    BY <1>1, <1>3, <2>2 DEF CallTypeOK, RankingStays, CheckFree
  <2>9. PlanIsUsable'
    BY <2>2 DEF CheckFree, PlanIsUsable
  <2>10. QED
    BY <2>5, <2>6, <2>7, <2>8, <2>9 DEF PlannerInv, WaysInv
<1>5. CASE next # 1
  <2>1. PICK k : k = next - 1
    OBVIOUS
  <2>2. PICK end : end = ranked.fold[k].q
    OBVIOUS
  <2>3. next > 1 /\ k \in DOMAIN ranked.fold
    BY <1>1, <1>2, <1>5, <2>1 DEF Tried
  <2>4. Asked = <<tuck, end>> /\ Way = <<from, tuck, end>> /\ IsLast
    BY <1>5, <2>1, <2>2, <2>3 DEF Asked, Way, IsLast
  <2>5. answer' = "planned" /\ way' = <<from, tuck, end>>
    BY <2>4 DEF CheckFree
  <2>6. IsFree(tuck, end)'
    BY <2>4 DEF CheckFree, Checked, IsFree
  <2>7. IsFree(from, tuck)'
    <3>1. IsFree(from, tuck)
      BY <1>1, <2>3 DEF FoldInv
    <3>2. QED
      BY <1>3, <3>1 DEF IsFree, RankingStays
  <2>8. /\ end \in Reaching(found.fold)
        /\ Singular(end) => \A x \in Reaching(found.fold) : Singular(x)
    BY <1>1, <1>2, <2>2, <2>3, RankedGoal DEF WaysAreRanked
  <2>9. PlanIsUsable'
    <3>1. Len(way') = 3 /\ way'[1] = from' /\ way'[2] = tuck' /\ way'[3] = end /\ Last(way') = end
      BY <1>3, <2>5 DEF Last, RankingStays
    <3>2. \A i \in 1 .. Len(way') - 1 : (i = 1 /\ i + 1 = 2) \/ (i = 2 /\ i + 1 = 3)
      BY <3>1
    <3>3. \A i \in 1 .. Len(way') - 1 : IsFree(way[i], way[i + 1])'
      BY <1>3, <2>6, <2>7, <3>1, <3>2 DEF IsFree, RankingStays
    <3>4. Reached("fold")' = Reaching(found.fold)
      BY <1>3, ReachedIsGoals DEF RankingStays
    <3>5. Len(way') # 2
      BY <3>1
    <3>6. answer' # "unreachable" /\ answer' # "colliding"
      BY <2>5
    <3>7. QED
      BY <2>8, <3>1, <3>3, <3>4, <3>5, <3>6 DEF PlanIsUsable
  <2>10. CallTypeOK'
    BY <1>1, <1>3, <2>5 DEF CallTypeOK, RankingStays, CheckFree
  <2>11. WaysInv'
    BY <2>5 DEF WaysInv
  <2>12. QED
    BY <2>9, <2>10, <2>11 DEF PlannerInv
<1>6. QED
  BY <1>4, <1>5

\* A plan with the wrist straightened on the way: the pose between, and two legs.
LEMMA FreeRetract ==
  ASSUME PlannerInv, CheckFree, Head(modes) = "retract"
  PROVE  PlannerInv'
<1>1. /\ CallTypeOK /\ WaysInv /\ DirectInv /\ FoldInv /\ RetractInv /\ WaysAreRanked
      /\ IsTried("retract") /\ Ahead("retract") /\ next \in Nat \ {0} /\ found.direct \in Solutions
      /\ unsafe = ranked.direct[1].q /\ from \in Pose
  BY Trying DEF CheckFree
<1>2. RankingStays /\ UNCHANGED <<modes, unsafe>>
  BY DEF CheckFree, Checked, RankingStays
<1>3. next \in {1, 2, 3}
  BY <1>1 DEF RetractInv
<1>4. CASE next # 3
  <2>1. ~IsLast
    BY <1>4 DEF IsLast
  <2>2. next' = next + 1 /\ UNCHANGED <<answer, way>>
    BY <2>1 DEF CheckFree
  <2>3. ~IsTried("direct") /\ ~IsTried("fold")
    BY DEF IsTried
  <2>4. DirectInv'
    BY <1>1, <1>2, <2>3, HitsStay DEF DirectInv, IsTried, Ahead, RankingStays
  <2>5. FoldInv'
    <3>1. ~IsTried("fold")'
      BY <1>2, <2>3 DEF IsTried
    <3>2. ~Ahead("fold")' => FoldFailed'
      BY <1>1, <1>2, HitsStay DEF FoldInv, FoldFailed, Ahead, RankingStays
    <3>3. QED
      BY <3>1, <3>2 DEF FoldInv, FoldFailed
  <2>6. RetractInv'
    <3>1. next' <= 3
      BY <1>3, <1>4, <2>2
    <3>2. next' = 3 => IsFree(from, Mid)'
      <4>1. ASSUME next' = 3 PROVE IsFree(from, Mid)'
        <5>1. next = 2
          BY <1>3, <2>2, <4>1
        <5>2. Asked = <<from, Mid>>
          BY <5>1 DEF Asked
        <5>3. QED
          BY <1>2, <5>2 DEF CheckFree, Checked, IsFree, Mid
      <4>2. QED
        BY <4>1
    <3>3. Ahead("retract")'
      BY <1>1, <1>2 DEF Ahead
    <3>4. QED
      BY <3>1, <3>2, <3>3 DEF RetractInv
  <2>7. CallTypeOK'
    <3>1. next' \in Nat \ {0}
      BY <1>1, <2>2
    <3>2. QED
      BY <1>1, <1>2, <2>2, <3>1 DEF CallTypeOK, RankingStays, CheckFree
  <2>8. PlanIsUsable'
    BY <2>2 DEF CheckFree, PlanIsUsable
  <2>9. QED
    BY <2>4, <2>5, <2>6, <2>7, <2>8 DEF PlannerInv, WaysInv
<1>5. CASE next = 3
  <2>1. PICK mid : mid = Mid
    OBVIOUS
  <2>2. PICK end : end = unsafe
    OBVIOUS
  <2>3. Asked = <<mid, end>> /\ Way = <<from, mid, end>> /\ IsLast
    BY <1>5, <2>1, <2>2 DEF Asked, Way, IsLast
  <2>4. answer' = "planned" /\ way' = <<from, mid, end>>
    BY <2>3 DEF CheckFree
  <2>5. IsFree(mid, end)'
    BY <2>3 DEF CheckFree, Checked, IsFree
  <2>6. IsFree(from, mid)'
    <3>1. IsFree(from, mid)
      BY <1>1, <1>5, <2>1 DEF RetractInv
    <3>2. QED
      BY <1>2, <3>1, HitsStay DEF IsFree, RankingStays
  <2>7. mid # tuck
    <3>1. end \in Pose /\ mid = [end EXCEPT !.wrist = 0]
      BY <1>1, <2>1, <2>2 DEF Mid, WaysAreRanked
    <3>2. mid.wrist = 0
      BY <3>1 DEF Pose
    <3>3. QED
      BY <1>1, <3>2 DEF WaysAreRanked
  <2>8. /\ end \in Reaching(found.direct)
        /\ Singular(end) => \A x \in Reaching(found.direct) : Singular(x)
    <3>1. 1 \in DOMAIN ranked.direct
      BY <1>1 DEF WaysAreRanked, RankIsSound
    <3>2. QED
      BY <1>1, <2>2, <3>1, RankedGoal DEF WaysAreRanked
  <2>9. PlanIsUsable'
    <3>1. Len(way') = 3 /\ way'[1] = from' /\ way'[2] = mid /\ way'[3] = end /\ Last(way') = end
      BY <1>2, <2>4 DEF Last, RankingStays
    <3>2. \A i \in 1 .. Len(way') - 1 : (i = 1 /\ i + 1 = 2) \/ (i = 2 /\ i + 1 = 3)
      BY <3>1
    <3>3. \A i \in 1 .. Len(way') - 1 : IsFree(way[i], way[i + 1])'
      BY <1>2, <2>5, <2>6, <3>1, <3>2 DEF IsFree, RankingStays
    <3>4. Reached("direct")' = Reaching(found.direct)
      BY <1>2, ReachedIsGoals DEF RankingStays
    <3>5. Len(way') # 2 /\ way'[2] # tuck'
      BY <1>2, <2>7, <3>1 DEF RankingStays
    <3>6. answer' # "unreachable" /\ answer' # "colliding"
      BY <2>4
    <3>7. QED
      BY <2>8, <3>1, <3>3, <3>4, <3>5, <3>6 DEF PlanIsUsable
  <2>10. CallTypeOK'
    BY <1>1, <1>2, <2>4 DEF CallTypeOK, RankingStays, CheckFree
  <2>11. WaysInv'
    BY <2>4 DEF WaysInv
  <2>12. QED
    BY <2>9, <2>10, <2>11 DEF PlannerInv
<1>6. QED
  BY <1>4, <1>5

\* A candidate that collides leaves the next one.
LEMMA HitStep ==
  ASSUME PlannerInv, CheckHit
  PROVE  PlannerInv'
<1>1. /\ CallTypeOK /\ WaysInv /\ DirectInv /\ FoldInv /\ RetractInv /\ WaysAreRanked
      /\ next \in Nat \ {0} /\ Head(modes) \in {"direct", "fold", "retract"}
      /\ IsTried(Head(modes)) /\ Ahead(Head(modes))
      /\ Head(modes) = "retract" => ~Ahead("direct") /\ unsafe = ranked.direct[1].q
  BY Trying DEF CheckHit
<1>2. RankingStays /\ UNCHANGED <<answer, way>> /\ answer = "checking" /\ modes # <<>> /\ ~Exhausted
  BY DEF CheckHit, Checked, RankingStays
<1>3. [of |-> Asked, collides |-> TRUE] \in hits'
  BY DEF CheckHit, Checked
<1>4. PlanIsUsable'
  BY <1>2 DEF PlanIsUsable
<1>5. CASE Head(modes) = "direct"
  <2>1. next' = next + 1 /\ UNCHANGED modes
    BY <1>5 DEF CheckHit
  <2>2. IsTried("direct") /\ Ahead("direct") /\ ~IsTried("fold") /\ ~IsTried("retract")
    BY <1>1, <1>5 DEF IsTried
  <2>3. IsTried("direct")' /\ Ahead("direct")' /\ ~IsTried("fold")' /\ ~IsTried("retract")'
    BY <2>1, <2>2 DEF IsTried, Ahead
  <2>4. next \in Tried(ranked.direct)
    BY <1>2, <1>5 DEF Exhausted
  <2>5. next \in DOMAIN ranked.direct /\ Len(ranked.direct) \in Nat
        /\ DOMAIN ranked.direct = 1 .. Len(ranked.direct)
    BY <1>1, <2>4 DEF Tried, WaysAreRanked, RankIsSound
  <2>6. Asked = <<from, ranked.direct[next].q>>
    BY <1>5 DEF Asked
  <2>7. [of |-> <<from, ranked.direct[next].q>>, collides |-> TRUE] \in hits'
    BY <1>3, <2>6
  <2>8. next' - 1 = next /\ next' > 1 /\ next \in 0 .. Len(ranked.direct)
    BY <1>1, <2>1, <2>5
  <2>9. HitBefore("direct", from, next)'
    <3>1. HitBefore("direct", from, next)
      BY <1>1, <2>2 DEF DirectInv
    <3>2. ASSUME NEW i \in 1 .. next' - 1
          PROVE  [of |-> <<from', ranked'.direct[i].q>>, collides |-> TRUE] \in hits'
      <4>1. CASE i = next
        BY <1>2, <2>7, <4>1 DEF RankingStays
      <4>2. CASE i # next
        <5>1. i \in 1 .. next - 1
          BY <1>1, <2>8, <4>2
        <5>2. [of |-> <<from, ranked.direct[i].q>>, collides |-> TRUE] \in hits
          BY <3>1, <5>1 DEF HitBefore, Collides
        <5>3. QED
          BY <1>2, <5>2 DEF RankingStays
      <4>3. QED
        BY <4>1, <4>2
    <3>3. QED
      BY <3>2 DEF HitBefore, Collides
  <2>10. unsafe' = ranked.direct[1].q
    <3>1. unsafe' = IF unsafe = Nowhere THEN ranked.direct[next].q ELSE unsafe
      BY <1>5, <2>6 DEF CheckHit
    <3>2. unsafe = IF next > 1 THEN ranked.direct[1].q ELSE Nowhere
      BY <1>1, <2>2 DEF DirectInv
    <3>3. next > 1 \/ next = 1
      BY <1>1
    <3>4. QED
      BY <1>1, <3>1, <3>2, <3>3 DEF WaysAreRanked
  <2>11. DirectInv'
    BY <1>2, <2>3, <2>8, <2>9, <2>10 DEF DirectInv, RankingStays
  <2>12. FoldInv'
    <3>1. ~Ahead("fold")' => FoldFailed'
      BY <1>1, <1>2, <2>1, HitsStay DEF FoldInv, FoldFailed, Ahead, RankingStays
    <3>2. QED
      BY <2>3, <3>1 DEF FoldInv, FoldFailed
  <2>13. RetractInv'
    <3>1. Ahead("retract")
      BY <1>1, <2>2, ModeSteps, AheadIsHolds, <1>2 DEF CallTypeOK
    <3>2. Ahead("retract")'
      BY <2>1, <3>1 DEF Ahead
    <3>3. QED
      BY <2>3, <3>2 DEF RetractInv
  <2>14. CallTypeOK'
    <3>1. next' \in Nat \ {0}
      BY <1>1, <2>1
    <3>2. QED
      BY <1>1, <1>2, <2>1, <3>1 DEF CallTypeOK, RankingStays
  <2>15. QED
    BY <1>2, <1>4, <2>11, <2>12, <2>13, <2>14 DEF PlannerInv, WaysInv
<1>6. CASE Head(modes) = "fold" /\ next > 1
  <2>1. next' = next + 1 /\ UNCHANGED <<modes, unsafe>>
    BY <1>6 DEF CheckHit
  <2>2. IsTried("fold") /\ Ahead("fold") /\ ~IsTried("direct") /\ ~IsTried("retract")
    BY <1>1, <1>6 DEF IsTried
  <2>3. IsTried("fold")' /\ Ahead("fold")' /\ ~IsTried("direct")' /\ ~IsTried("retract")'
    BY <2>1, <2>2 DEF IsTried, Ahead
  <2>4. next - 1 \in Tried(ranked.fold)
    BY <1>2, <1>6 DEF Exhausted
  <2>5. next - 1 \in DOMAIN ranked.fold /\ Len(ranked.fold) \in Nat
        /\ DOMAIN ranked.fold = 1 .. Len(ranked.fold)
    BY <1>1, <2>4 DEF Tried, WaysAreRanked, RankIsSound
  <2>6. Asked = <<tuck, ranked.fold[next - 1].q>>
    BY <1>1, <1>6 DEF Asked
  <2>7. [of |-> <<tuck, ranked.fold[next - 1].q>>, collides |-> TRUE] \in hits'
    BY <1>3, <2>6
  <2>8. next' - 1 = next /\ next' - 2 = next - 1 /\ next' > 1 /\ next - 1 \in 0 .. Len(ranked.fold)
    BY <1>1, <2>1, <2>5
  <2>9. HitBefore("fold", tuck, next - 1)'
    <3>1. HitBefore("fold", tuck, next - 1)
      BY <1>1, <1>6, <2>2 DEF FoldInv
    <3>2. ASSUME NEW i \in 1 .. (next' - 1) - 1
          PROVE  [of |-> <<tuck', ranked'.fold[i].q>>, collides |-> TRUE] \in hits'
      <4>1. CASE i = next - 1
        BY <1>2, <2>7, <4>1 DEF RankingStays
      <4>2. CASE i # next - 1
        <5>1. i \in 1 .. (next - 1) - 1
          BY <1>1, <2>8, <4>2
        <5>2. [of |-> <<tuck, ranked.fold[i].q>>, collides |-> TRUE] \in hits
          BY <3>1, <5>1 DEF HitBefore, Collides
        <5>3. QED
          BY <1>2, <5>2 DEF RankingStays
      <4>3. QED
        BY <4>1, <4>2
    <3>3. QED
      BY <3>2 DEF HitBefore, Collides
  <2>10. IsFree(from, tuck)'
    <3>1. IsFree(from, tuck)
      BY <1>1, <1>6, <2>2 DEF FoldInv
    <3>2. QED
      BY <1>2, <3>1 DEF IsFree, RankingStays
  <2>11. Accepted(ranked.fold[1])'
    BY <1>1, <1>2, <1>6, <2>2 DEF FoldInv, RankingStays
  <2>12. FoldInv'
    BY <1>2, <2>3, <2>8, <2>9, <2>10, <2>11 DEF FoldInv, RankingStays
  <2>13. DirectInv'
    BY <1>1, <1>2, <2>1, <2>2, HitsStay DEF DirectInv, IsTried, Ahead, RankingStays
  <2>14. RetractInv'
    <3>1. ~Ahead("retract")' => RetractFailed'
      BY <1>1, <1>2, <2>1, HitsStay DEF RetractInv, RetractFailed, Ahead, Mid, RankingStays
    <3>2. QED
      BY <2>3, <3>1 DEF RetractInv, RetractFailed
  <2>15. CallTypeOK'
    <3>1. next' \in Nat \ {0}
      BY <1>1, <2>1
    <3>2. QED
      BY <1>1, <1>2, <2>1, <3>1 DEF CallTypeOK, RankingStays
  <2>16. QED
    BY <1>2, <1>4, <2>12, <2>13, <2>14, <2>15 DEF PlannerInv, WaysInv
<1>7. CASE Head(modes) # "direct" /\ ~(Head(modes) = "fold" /\ next > 1)
  <2>1. next' = 1 /\ modes' = Tail(modes) /\ UNCHANGED unsafe
    BY <1>7 DEF CheckHit
  <2>2. next = 1 \/ Head(modes) = "retract"
    BY <1>1, <1>7
  <2>3. Head(modes) = "fold" => FoldFailed'
    <3>1. ASSUME Head(modes) = "fold" PROVE Collides(from, tuck)'
      <4>1. Asked = <<from, tuck>>
        BY <2>2, <3>1 DEF Asked
      <4>2. QED
        BY <1>2, <1>3, <4>1 DEF Collides, RankingStays
    <3>2. QED
      BY <3>1 DEF FoldFailed
  <2>4. Head(modes) = "retract" => RetractFailed'
    <3>1. ASSUME Head(modes) = "retract" PROVE RetractFailed'
      <4>1. Asked \in {<<Mid, Mid>>, <<from, Mid>>, <<Mid, unsafe>>}
        BY <3>1 DEF Asked
      <4>2. Mid' = Mid
        BY <2>1 DEF Mid
      <4>3. QED
        BY <1>2, <1>3, <2>1, <4>1, <4>2 DEF RetractFailed, Collides, RankingStays
    <3>2. QED
      BY <3>1
  <2>5. CallTypeOK' /\ WaysInv'
    BY <1>1, <1>2, <1>7, <2>1, <2>3, <2>4, LeaveMode
  <2>6. QED
    BY <1>4, <2>5 DEF PlannerInv
<1>8. QED
  BY <1>5, <1>6, <1>7

\* A way without a candidate is left.
LEMMA NextModeStep ==
  ASSUME PlannerInv, NextMode
  PROVE  PlannerInv'
<1>1. /\ CallTypeOK /\ WaysInv /\ DirectInv /\ FoldInv /\ RetractInv /\ WaysAreRanked
      /\ next \in Nat \ {0} /\ Head(modes) \in {"direct", "fold", "retract"}
      /\ IsTried(Head(modes)) /\ Ahead(Head(modes))
      /\ Head(modes) = "retract" => ~Ahead("direct") /\ unsafe = ranked.direct[1].q
  BY Trying DEF NextMode
<1>2. /\ RankingStays /\ UNCHANGED <<answer, way, unsafe, hits>> /\ answer = "checking" /\ modes # <<>>
      /\ Exhausted /\ next' = 1 /\ modes' = Tail(modes)
  BY DEF NextMode, RankingStays
<1>3. PlanIsUsable'
  BY <1>2 DEF PlanIsUsable
<1>4. Head(modes) # "retract"
  BY <1>1, <1>2 DEF Exhausted, WaysAreRanked
<1>5. Head(modes) = "direct" => unsafe' = ranked.direct[1].q /\ HitAll("direct", from)'
  <2>1. ASSUME Head(modes) = "direct" PROVE unsafe' = ranked.direct[1].q /\ HitAll("direct", from)
    <3>1. next \notin Tried(ranked.direct)
      BY <1>2, <2>1 DEF Exhausted
    <3>2. MaxChecks \in Nat \ {0} /\ Len(ranked.direct) \in Nat
          /\ DOMAIN ranked.direct = 1 .. Len(ranked.direct) /\ 1 \in DOMAIN ranked.direct
      BY <1>1, PlannerAssumption DEF WaysAreRanked, RankIsSound
    <3>3. 1 \in Tried(ranked.direct)
      BY <1>1, <3>2 DEF Tried, WaysAreRanked
    <3>4. next > 1
      BY <1>1, <3>1, <3>3
    <3>5. unsafe = ranked.direct[1].q /\ HitBefore("direct", from, next)
      BY <1>1, <2>1, <3>4 DEF DirectInv
    <3>6. next \notin 1 .. MaxChecks \cap DOMAIN ranked.direct
      BY <1>1, <3>1, AllAccepted DEF Tried, WaysAreRanked
    <3>7. \A i \in 1 .. MaxChecks \cap DOMAIN ranked.direct : i \in 1 .. next - 1
      BY <1>1, <3>2, <3>6
    <3>8. QED
      BY <1>2, <3>5, <3>7 DEF HitAll, HitBefore
  <2>2. QED
    BY <1>2, <2>1, HitsStay
<1>6. Head(modes) = "fold" => FoldFailed'
  <2>1. ASSUME Head(modes) = "fold", Accepted(ranked.fold[1]) PROVE HitAll("fold", tuck)
    <3>1. next > 1 /\ next - 1 \notin Tried(ranked.fold)
      BY <1>2, <2>1 DEF Exhausted
    <3>2. MaxChecks \in Nat \ {0} /\ Len(ranked.fold) \in Nat
          /\ DOMAIN ranked.fold = 1 .. Len(ranked.fold)
      BY <1>1, PlannerAssumption DEF WaysAreRanked, RankIsSound
    <3>3. HitBefore("fold", tuck, next - 1)
      BY <1>1, <2>1, <3>1 DEF FoldInv
    <3>4. next - 1 \notin 1 .. MaxChecks \cap DOMAIN ranked.fold
      BY <1>1, <2>1, <3>1, AllAccepted DEF Tried, WaysAreRanked
    <3>5. \A i \in 1 .. MaxChecks \cap DOMAIN ranked.fold : i \in 1 .. (next - 1) - 1
      BY <1>1, <3>1, <3>2, <3>4
    <3>6. QED
      BY <3>3, <3>5 DEF HitAll, HitBefore
  <2>2. QED
    BY <1>2, <2>1, HitsStay DEF FoldFailed, RankingStays
<1>7. CallTypeOK' /\ WaysInv'
  BY <1>1, <1>2, <1>4, <1>5, <1>6, LeaveMode
<1>8. QED
  BY <1>3, <1>7 DEF PlannerInv


\* A way that is left has no candidate that did not collide, or too many that did.
LEMMA SpentWhenHit ==
  ASSUME NEW given \in Solutions, NEW seed \in Pose, NEW r, RankIsSound(given, seed, r),
         NEW H, \A i \in 1 .. MaxChecks \cap DOMAIN r : Accepted(r[i]) => r[i].q \in H
  PROVE  LET hit == {x \in Reaching(given) : x \in H}
         IN \/ {x \in Reaching(given) : ~Singular(x)} \subseteq hit
            \/ Cardinality({i \in DOMAIN r : r[i].q \in hit}) >= MaxChecks
<1> DEFINE hit == {x \in Reaching(given) : x \in H}
           many == {i \in DOMAIN r : r[i].q \in hit}
<1>1. CASE ~Accepted(r[1])
  BY <1>1 DEF RankIsSound, Reaching
<1>2. CASE Accepted(r[1])
  <2>1. MaxChecks \in Nat \ {0} /\ DOMAIN r = 1 .. Len(r) /\ Len(r) \in Nat
    BY PlannerAssumption DEF RankIsSound
  <2>2. \A k \in DOMAIN r : Accepted(r[k]) /\ r[k].q \in Reaching(given)
    BY <1>2, RankedGoal, AllAccepted
  <2>3. CASE Len(r) <= MaxChecks
    <3>1. \A k \in DOMAIN r : r[k].q \in hit
      BY <2>1, <2>2, <2>3
    <3>2. ASSUME NEW x \in Reaching(given), ~Singular(x) PROVE x \in hit
      <4>1. PICK i \in DOMAIN given : IsFeasible(given[i]) /\ given[i].q = x
        BY <3>2 DEF Reaching, IsFeasible
      <4>2. \E k \in DOMAIN r : r[k] = given[i]
        BY <4>1 DEF RankIsSound
      <4>3. QED
        BY <3>1, <4>1, <4>2
    <3>3. QED
      BY <3>2
  <2>4. CASE ~(Len(r) <= MaxChecks)
    <3>1. 1 .. MaxChecks \in SUBSET many
      BY <2>1, <2>2, <2>4
    <3>2. IsFiniteSet(1 .. MaxChecks) /\ Cardinality(1 .. MaxChecks) = MaxChecks
      BY <2>1, FS_Interval
    <3>3. IsFiniteSet(DOMAIN r) /\ many \in SUBSET DOMAIN r
      BY <2>1, FS_Interval
    <3> HIDE DEF many
    <3>4. IsFiniteSet(many)
      BY <3>3, FS_Subset
    <3>5. Cardinality(1 .. MaxChecks) <= Cardinality(many)
      BY <3>1, <3>4, FS_Subset
    <3>6. Cardinality(many) \in Nat
      BY <3>4, FS_CardinalityType
    <3>7. Cardinality(many) >= MaxChecks
      BY <2>1, <3>2, <3>5, <3>6
    <3>8. QED
      BY <3>7 DEF many
  <2>5. QED
    BY <2>3, <2>4
<1>3. QED
  BY <1>1, <1>2

\* Every way was left.
LEMMA GiveUpStep ==
  ASSUME PlannerInv, GiveUp
  PROVE  PlannerInv'
<1>1. /\ CallTypeOK /\ DirectInv /\ FoldInv /\ RetractInv /\ modes = <<>>
      /\ from \in Pose /\ found.direct \in Solutions /\ found.fold \in Solutions
  BY DEF PlannerInv, CallTypeOK, WaysInv, GiveUp
<1>2. WaysAreRanked
  BY <1>1, WaysAreRankedWhenTried DEF GiveUp
<1>3. answer' = "colliding" /\ UNCHANGED <<from, found, ranked, tuck, modes, next, unsafe, hits, way>>
  BY DEF GiveUp
<1>4. ~Ahead("direct") /\ ~Ahead("fold") /\ ~Ahead("retract")
  BY <1>1 DEF Ahead
<1>5. Spent("direct", from)
  <2> DEFINE H == {x \in Reaching(found.direct) : Collides(from, x)}
  <2>1. \A i \in 1 .. MaxChecks \cap DOMAIN ranked.direct :
          Accepted(ranked.direct[i]) => ranked.direct[i].q \in H
    <3>1. \A i \in DOMAIN ranked.direct : ranked.direct[i].q \in Reaching(found.direct)
      BY <1>1, <1>2, RankedGoal DEF WaysAreRanked
    <3>2. QED
      BY <1>1, <1>4, <3>1 DEF DirectInv, HitAll
  <2>2. H = {x \in Reaching(found.direct) : x \in H}
    OBVIOUS
  <2> HIDE DEF H
  <2>3. \/ {x \in Reaching(found.direct) : ~Singular(x)} \subseteq H
        \/ Cardinality({i \in DOMAIN ranked.direct : ranked.direct[i].q \in H}) >= MaxChecks
    BY <1>1, <1>2, <2>1, <2>2, SpentWhenHit DEF WaysAreRanked
  <2>4. H = {x \in Reached("direct") : Collides(from, x)} /\ Reached("direct") = Reaching(found.direct)
    BY ReachedIsGoals DEF H
  <2>5. QED
    BY <2>3, <2>4 DEF Spent
<1>6. Collides(from, tuck) \/ Spent("fold", tuck)
  <2> DEFINE H == {x \in Reaching(found.fold) : Collides(tuck, x)}
  <2>1. ASSUME ~Collides(from, tuck)
        PROVE  \A i \in 1 .. MaxChecks \cap DOMAIN ranked.fold :
                 Accepted(ranked.fold[i]) => ranked.fold[i].q \in H
    <3>1. CASE Accepted(ranked.fold[1])
      <4>1. \A i \in DOMAIN ranked.fold : ranked.fold[i].q \in Reaching(found.fold)
        BY <1>1, <1>2, <3>1, RankedGoal DEF WaysAreRanked
      <4>2. QED
        BY <1>1, <1>4, <2>1, <3>1, <4>1 DEF FoldInv, HitAll
    <3>2. CASE ~Accepted(ranked.fold[1])
      <4>1. ASSUME NEW i \in DOMAIN ranked.fold PROVE ~Accepted(ranked.fold[i])
        BY <1>2, <3>2 DEF WaysAreRanked, RankIsSound
      <4>2. QED
        BY <4>1
    <3>3. QED
      BY <3>1, <3>2
  <2>2. H = {x \in Reaching(found.fold) : x \in H}
    OBVIOUS
  <2> HIDE DEF H
  <2>3. ASSUME ~Collides(from, tuck)
        PROVE  \/ {x \in Reaching(found.fold) : ~Singular(x)} \subseteq H
               \/ Cardinality({i \in DOMAIN ranked.fold : ranked.fold[i].q \in H}) >= MaxChecks
    BY <1>1, <1>2, <2>1, <2>2, <2>3, SpentWhenHit DEF WaysAreRanked
  <2>4. H = {x \in Reached("fold") : Collides(tuck, x)} /\ Reached("fold") = Reaching(found.fold)
    BY ReachedIsGoals DEF H
  <2>5. QED
    BY <2>3, <2>4 DEF Spent
<1>7. RetractFailed
  BY <1>1, <1>4 DEF RetractInv, RetractFailed
<1>8. PlanIsUsable'
  <2>1. Spent("direct", from)'
    BY <1>3, <1>5 DEF Spent, Reached, Collides
  <2>2. Collides(from, tuck)' \/ Spent("fold", tuck)'
    BY <1>3, <1>6 DEF Spent, Reached, Collides
  <2>3. RetractFailed'
    BY <1>3, <1>7 DEF RetractFailed, Collides, Mid
  <2>4. QED
    BY <1>3, <2>1, <2>2, <2>3 DEF PlanIsUsable, RetractFailed
<1>9. CallTypeOK'
  BY <1>1, <1>3 DEF CallTypeOK, GiveUp
<1>10. WaysInv'
  <2>1. DirectInv'
    BY <1>1, <1>3 DEF DirectInv, Ahead, IsTried, HitBefore, HitAll, Collides
  <2>2. FoldInv'
    BY <1>1, <1>3 DEF FoldInv, Ahead, IsTried, HitBefore, HitAll, Collides, IsFree
  <2>3. RetractInv'
    BY <1>1, <1>3 DEF RetractInv, Ahead, IsTried, Collides, IsFree, Mid
  <2>4. QED
    BY <2>1, <2>2, <2>3 DEF WaysInv
<1>11. QED
  BY <1>8, <1>9, <1>10 DEF PlannerInv

\* What the solver returned is ranked, or it all misses the target.
LEMMA SolveStep ==
  ASSUME PlannerInv, Solve
  PROVE  PlannerInv'
<1>1. CallTypeOK /\ from \in Pose /\ next = 1 /\ unsafe = Nowhere /\ answer = "asked"
  BY DEF PlannerInv, CallTypeOK, Solve
<1>2. PICK solution \in Solutions, folded \in Solutions :
        /\ found' = [direct |-> solution, fold |-> folded]
        /\ IF Accepted(RankCandidates(solution, from)[1])
           THEN /\ ranked'.direct = RankCandidates(solution, from)
                /\ tuck' = TuckPose(RankCandidates(solution, from)[1].q.base, from)
                /\ ranked'.fold = RankCandidates(folded, tuck')
                /\ modes' \in {<<"fold", "direct", "retract">>, <<"direct", "retract", "fold">>}
                /\ answer' = "checking"
           ELSE answer' = "unreachable"
  BY DEF Solve
<1>3. UNCHANGED <<from, next, unsafe, hits, way>>
  BY DEF Solve
<1>4. RankIsSound(solution, from, RankCandidates(solution, from))
  BY <1>1, RankPromises
<1>5. CASE Accepted(RankCandidates(solution, from)[1])
  <2>1. modes' \in ModeLists /\ \A mode \in {"direct", "fold", "retract"} : Ahead(mode)'
    BY <1>2, <1>5 DEF ModeLists, Ahead
  <2>2. next' = 1 /\ 1 \in Nat \ {0} /\ ~(next' > 1)
    BY <1>1, <1>3
  <2>3. CallTypeOK'
    BY <1>1, <1>2, <1>3, <1>5, <2>1, <2>2 DEF CallTypeOK
  <2>4. DirectInv'
    <3>1. 1 .. next' - 1 = {}
      BY <2>2
    <3>2. Len(ranked'.direct) \in Nat
      BY <1>2, <1>4, <1>5 DEF RankIsSound
    <3>3. next' - 1 \in 0 .. Len(ranked'.direct)
      BY <2>2, <3>2
    <3>4. QED
      BY <1>1, <1>3, <2>1, <2>2, <3>1, <3>3 DEF DirectInv, HitBefore
  <2>5. FoldInv'
    BY <2>1, <2>2 DEF FoldInv
  <2>6. RetractInv'
    BY <2>1, <2>2 DEF RetractInv
  <2>7. PlanIsUsable'
    BY <1>2, <1>5 DEF PlanIsUsable
  <2>8. QED
    BY <2>3, <2>4, <2>5, <2>6, <2>7 DEF PlannerInv, WaysInv
<1>6. CASE ~Accepted(RankCandidates(solution, from)[1])
  <2>1. answer' = "unreachable"
    BY <1>2, <1>6
  <2>2. Reaching(solution) = {}
    BY <1>4, <1>6 DEF RankIsSound, Reaching
  <2>3. Reached("direct")' = {}
    BY <1>2, <2>2, ReachedIsGoals
  <2>4. PlanIsUsable'
    BY <2>1, <2>3 DEF PlanIsUsable
  <2>5. CallTypeOK'
    BY <1>1, <1>2, <1>3, <2>1 DEF CallTypeOK
  <2>6. WaysInv'
    BY <2>1 DEF WaysInv
  <2>7. QED
    BY <2>4, <2>5, <2>6 DEF PlannerInv
<1>7. QED
  BY <1>5, <1>6

\* Planner.plan_motion returns as safe only a plan whose legs were all found free of
\* collisions and that ends at the cheapest pose left, calls a target out of reach only
\* when every search missed it, and gives up only when every way collides: for any poses,
\* results of the solver, and bounds of the search.
THEOREM PlansAreUsable == PlannerSpec => []PlanIsUsable
<1>1. PlannerInit => PlannerInv
  <2> SUFFICES ASSUME PlannerInit PROVE PlannerInv
    OBVIOUS
  <2>1. from \in Pose /\ answer = "asked" /\ next = 1 /\ unsafe = Nowhere
    BY PlannerAssumption DEF PlannerInit, PlannerStart
  <2>2. QED
    BY <2>1 DEF PlannerInv, CallTypeOK, WaysInv, PlanIsUsable
<1>2. PlannerInv /\ [PlannerNext]_plannerVars => PlannerInv'
  <2> SUFFICES ASSUME PlannerInv, [PlannerNext]_plannerVars PROVE PlannerInv'
    OBVIOUS
  <2>1. CASE Solve
    BY <2>1, SolveStep
  <2>2. CASE CheckFree
    <3>1. Head(modes) \in {"direct", "fold", "retract"}
      BY <2>2, Trying DEF CheckFree
    <3>2. QED
      BY <2>2, <3>1, FreeDirect, FreeFold, FreeRetract
  <2>3. CASE CheckHit
    BY <2>3, HitStep
  <2>4. CASE NextMode
    BY <2>4, NextModeStep
  <2>5. CASE GiveUp
    BY <2>5, GiveUpStep
  <2>6. CASE UNCHANGED plannerVars
    <3>1. CallTypeOK'
      BY <2>6 DEF PlannerInv, CallTypeOK, plannerVars
    <3>2. DirectInv <=> DirectInv'
      BY <2>6 DEF plannerVars, DirectInv, Ahead, IsTried, HitBefore, HitAll, Collides
    <3>3. FoldInv <=> FoldInv'
      BY <2>6 DEF plannerVars, FoldInv, Ahead, IsTried, HitBefore, HitAll, Collides, IsFree
    <3>4. RetractInv <=> RetractInv'
      BY <2>6 DEF plannerVars, RetractInv, Ahead, IsTried, Collides, IsFree, Mid
    <3>5. PlanIsUsable <=> PlanIsUsable'
      BY <2>6 DEF plannerVars, PlanIsUsable, Spent, Reached, Collides, IsFree, Mid
    <3>6. QED
      BY <2>6, <3>1, <3>2, <3>3, <3>4, <3>5 DEF PlannerInv, WaysInv, plannerVars
  <2>7. QED
    BY <2>1, <2>2, <2>3, <2>4, <2>5, <2>6 DEF PlannerNext
<1>3. PlannerInv => PlanIsUsable
  BY DEF PlannerInv
<1>4. QED
  BY <1>1, <1>2, <1>3, PTL DEF PlannerSpec

-----------------------------------------------------------------------------
(* Inverse kinematics *)

\* A pose is brought back to the limits.
LEMMA ClipToPoses ==
  ASSUME NEW pose \in Int
  PROVE  ClipToLimits(pose) \in Poses
BY PolicyAssumption DEF ClipToLimits, Poses

\* How far two poses are apart is a natural number.
LEMMA ApartType ==
  ASSUME NEW p \in Int, NEW pose \in Int
  PROVE  Apart(p, pose) \in Nat
BY DEF Apart

\* A pose is one of its turns, of which one is the closest to the reference.
LEMMA AlignedIsNearest ==
  ASSUME NEW pose \in Poses, NEW ref \in Poses
  PROVE  IF Upper - Lower = Period
         THEN /\ Aligned(pose, ref) \in Turns(pose)
              /\ \A r \in Turns(pose) : Apart(Aligned(pose, ref), ref) <= Apart(r, ref)
         ELSE Aligned(pose, ref) = pose
<1>1. CASE Upper - Lower = Period
  <2> DEFINE Closer(p, r) == \/ Apart(p, ref) < Apart(r, ref)
                             \/ Apart(p, ref) = Apart(r, ref) /\ p < r
  <2> DEFINE R == {pr \in Turns(pose) \X Turns(pose) : Closer(pr[1], pr[2])}
  <2>1. Poses \subseteq Int /\ Turns(pose) \subseteq Poses /\ IsFiniteSet(Turns(pose))
    <3>1. Lower \in Int /\ Upper \in Int
      BY PolicyAssumption
    <3>2. IsFiniteSet(Poses) /\ Turns(pose) \in SUBSET Poses
      BY <3>1, FS_Interval DEF Poses, Turns
    <3>3. IsFiniteSet(Turns(pose))
      BY <3>2, FS_Subset
    <3>4. QED
      BY <3>2, <3>3 DEF Poses
  <2>2. pose \in Turns(pose)
    <3>1. pose = pose + 0 * Period /\ 0 \in -2 .. 2
      BY <2>1, PolicyAssumption
    <3>2. QED
      BY <3>1 DEF Turns
  <2>3. \A p, r \in Turns(pose) : <<p, r>> \in R <=> Closer(p, r)
    OBVIOUS
  <2> HIDE DEF R
  <2>4. \A p \in Turns(pose) : Apart(p, ref) \in Nat /\ p \in Int
    BY <2>1, ApartType
  <2>5. \A p \in Turns(pose) : <<p, p>> \notin R
    BY <2>3, <2>4
  <2>6. \A x, y, z \in Turns(pose) : <<x, y>> \in R /\ <<y, z>> \in R => <<x, z>> \in R
    BY <2>3, <2>4
  <2>7. PICK p \in Turns(pose) : \A r \in Turns(pose) : <<r, p>> \notin R
    BY <2>1, <2>2, <2>5, <2>6, FirstExists
  <2>8. \A r \in Turns(pose) :
          Apart(p, ref) < Apart(r, ref) \/ (Apart(p, ref) = Apart(r, ref) /\ p <= r)
    <3>1. ASSUME NEW r \in Turns(pose)
          PROVE  Apart(p, ref) < Apart(r, ref) \/ (Apart(p, ref) = Apart(r, ref) /\ p <= r)
      <4>1. ~Closer(r, p)
        BY <2>3, <2>7
      <4>2. Apart(p, ref) \in Nat /\ Apart(r, ref) \in Nat /\ p \in Int /\ r \in Int
        BY <2>4, <2>7
      <4>3. QED
        BY <4>1, <4>2
    <3>2. QED
      BY <3>1
  <2>9. Aligned(pose, ref) = CHOOSE x \in Turns(pose) : \A r \in Turns(pose) :
          Apart(x, ref) < Apart(r, ref) \/ (Apart(x, ref) = Apart(r, ref) /\ x <= r)
    BY <1>1 DEF Aligned
  <2>10. /\ Aligned(pose, ref) \in Turns(pose)
         /\ \A r \in Turns(pose) : \/ Apart(Aligned(pose, ref), ref) < Apart(r, ref)
                                \/ Apart(Aligned(pose, ref), ref) = Apart(r, ref)
    BY <2>7, <2>8, <2>9
  <2>11. QED
    BY <1>1, <2>4, <2>10
<1>2. CASE Upper - Lower # Period
  BY <1>2 DEF Aligned
<1>3. QED
  BY <1>1, <1>2

\* What a goal is compared with is a pose within the limits.
LEMMA ReferenceType ==
  ASSUME policy \in Policies
  PROVE  Reference \in Poses
BY PolicyAssumption, ClipToPoses DEF Reference

\* What a feasible result is judged by.
Aims(i) == Aligned(results[i].q, Reference)

\* What is known of a result that is judged.
LEMMA AimsType ==
  ASSUME IkTypeOK, NEW i \in DOMAIN results
  PROVE  /\ results[i].q \in Poses /\ results[i].residual \in Nat
         /\ results[i].success \in BOOLEAN
         /\ Aims(i) \in Poses /\ Apart(Aims(i), Reference) \in Nat
<1>1. results[i] \in [success: BOOLEAN, q: Poses, residual: Nat]
  BY ElementOf DEF IkTypeOK
<1>2. results[i].q \in Poses /\ results[i].residual \in Nat
  BY <1>1
<1>3. results[i].success \in BOOLEAN
  BY <1>1, Zenon
<1>4. Reference \in Poses /\ Poses \subseteq Int
  BY PolicyAssumption, ReferenceType DEF IkTypeOK, Poses
<1>5. Aims(i) \in Poses
  <2>1. Turns(results[i].q) \subseteq Poses
    BY DEF Turns
  <2>2. QED
    BY <1>2, <1>4, <2>1, AlignedIsNearest DEF Aims
<1>6. QED
  BY <1>2, <1>3, <1>4, <1>5, ApartType

\* One of the feasible results is the best, and none aims closer.
LEMMA BestIsNearest ==
  ASSUME IkTypeOK, Feasible # {}
  PROVE  /\ Best \in Feasible
         /\ \A i \in Feasible : Apart(Aims(Best), Reference) <= Apart(Aims(i), Reference)
<1> DEFINE distance(i) == Apart(Aims(i), Reference)
           before(i, j) ==
             \/ distance(i) < distance(j)
             \/ /\ distance(i) = distance(j)
                /\ results[i].residual < results[j].residual
                   \/ (results[i].residual = results[j].residual /\ i < j)
           R == {ij \in Feasible \X Feasible : before(ij[1], ij[2])}
<1>1. Feasible \in SUBSET DOMAIN results /\ DOMAIN results = 1 .. Len(results) /\ Len(results) \in Nat
  BY DEF IkTypeOK, Feasible
<1>2. IsFiniteSet(Feasible)
  <2>1. IsFiniteSet(1 .. Len(results))
    BY <1>1, FS_Interval
  <2>2. Feasible \in SUBSET (1 .. Len(results))
    BY <1>1
  <2>3. QED
    BY <2>1, <2>2, FS_Subset
<1>3. \A i \in Feasible : distance(i) \in Nat /\ results[i].residual \in Nat /\ i \in Nat
  BY <1>1, AimsType
<1>4. \A i, j \in Feasible : <<i, j>> \in R <=> before(i, j)
  OBVIOUS
<1> HIDE DEF distance, R
<1>5. \A i \in Feasible : <<i, i>> \notin R
  BY <1>3, <1>4
<1>6. \A x, y, z \in Feasible : <<x, y>> \in R /\ <<y, z>> \in R => <<x, z>> \in R
  BY <1>3, <1>4
<1>7. PICK b \in Feasible : \A j \in Feasible : <<j, b>> \notin R
  BY <1>2, <1>5, <1>6, FirstExists
<1>8. \A j \in Feasible \ {b} : before(b, j)
  <2>1. ASSUME NEW j \in Feasible \ {b} PROVE before(b, j)
    <3>1. ~before(j, b)
      BY <1>4, <1>7
    <3>2. /\ distance(b) \in Nat /\ results[b].residual \in Nat /\ b \in Nat
          /\ distance(j) \in Nat /\ results[j].residual \in Nat /\ j \in Nat
      BY <1>3, <1>7
    <3>3. QED
      BY <3>1, <3>2
  <2>2. QED
    BY <2>1
<1>9. Best = CHOOSE i \in Feasible : \A j \in Feasible \ {i} : before(i, j)
  BY DEF Best, Aims, distance
<1>10. Best \in Feasible /\ \A j \in Feasible \ {Best} : before(Best, j)
  <2> HIDE DEF before
  <2>1. QED
    BY <1>7, <1>8, <1>9
<1>11. \A i \in Feasible : distance(Best) <= distance(i)
  BY <1>3, <1>10
<1>12. QED
  BY <1>10, <1>11 DEF distance

\* What a caller is told follows from the results.
LEMMA DecideStep ==
  ASSUME IkInv, Decide
  PROVE  AcceptedGoalIsNearest'
<1> USE DEF IkInv
<1>1. UNCHANGED <<goal, policy, results>> /\ verdict' # Pending
  BY DEF Decide, Pending
<1> DEFINE turns == UNION {Turns(results[i].q) : i \in Feasible}
           reachable == IF Upper - Lower = Period THEN turns
                        ELSE {results[i].q : i \in Feasible}
           near(pose) == policy.jump = 0 \/ Apart(pose, Reference) <= policy.jump
           isNear(pose, residual) == \E p \in Poses : Apart(p, pose) <= 1 /\ goal[p] <= residual
<1>2. policy.jump \in Nat /\ policy.residual \in Nat /\ Reference \in Poses
  BY PolicyAssumption, ReferenceType DEF IkTypeOK
<1>3. Feasible \subseteq DOMAIN results /\ \A i \in Feasible : results[i].q \in Poses
  BY AimsType DEF Feasible
<1>4. \A i \in Feasible : Aims(i) \in reachable
  <2>1. ASSUME NEW i \in Feasible PROVE Aims(i) \in reachable
    <3>1. CASE Upper - Lower = Period
      BY <1>2, <1>3, <3>1, AlignedIsNearest DEF Aims
    <3>2. CASE Upper - Lower # Period
      BY <1>2, <1>3, <3>2, AlignedIsNearest DEF Aims
    <3>3. QED
      BY <3>1, <3>2
  <2>2. QED
    BY <2>1
<1>5. ASSUME Feasible # {}, NEW pose \in reachable
      PROVE  /\ Apart(Aims(Best), Reference) <= Apart(pose, Reference)
             /\ Apart(Aims(Best), Reference) \in Nat /\ Apart(pose, Reference) \in Nat
  <2>1. PICK i \in Feasible : /\ Apart(Aims(i), Reference) <= Apart(pose, Reference)
                              /\ pose \in Poses
    <3>1. CASE Upper - Lower = Period
      <4>1. PICK i \in Feasible : pose \in Turns(results[i].q)
        BY <1>5, <3>1
      <4>2. Turns(results[i].q) \subseteq Poses
        BY DEF Turns
      <4>3. QED
        BY <1>2, <1>3, <3>1, <4>1, <4>2, AlignedIsNearest DEF Aims
    <3>2. CASE Upper - Lower # Period
      <4>1. PICK i \in Feasible : pose = results[i].q
        BY <1>5, <3>2
      <4>2. Aims(i) = pose /\ pose \in Poses
        BY <1>2, <1>3, <3>2, <4>1, AlignedIsNearest DEF Aims
      <4>3. Apart(pose, Reference) \in Nat
        BY <1>3, <4>2, AimsType
      <4>4. QED
        BY <4>2, <4>3
    <3>3. QED
      BY <3>1, <3>2
  <2>2. Apart(pose, Reference) \in Nat
    BY <1>2, <2>1, PolicyAssumption, ApartType DEF Poses
  <2>3. /\ Apart(Aims(Best), Reference) <= Apart(Aims(i), Reference)
        /\ Best \in Feasible
    BY <1>5, BestIsNearest
  <2>4. Apart(Aims(Best), Reference) \in Nat /\ Apart(Aims(i), Reference) \in Nat
    BY <1>3, <2>1, <2>3, AimsType
  <2>5. QED
    BY <2>1, <2>2, <2>3, <2>4
<1> HIDE DEF turns, reachable, near, isNear
<1>6. CASE Feasible = {}
  <2>1. verdict' = [reason |-> "rejected_residual"] /\ reachable = {}
    BY <1>6 DEF Decide, reachable, turns
  <2>2. QED
    BY <1>1, <2>1 DEF AcceptedGoalIsNearest, reachable, turns, Feasible, Reference
<1>7. CASE Feasible # {}
  <2> DEFINE jumps == policy.jump > 0 /\ Apart(Aims(Best), Reference) > policy.jump
  <2>1. /\ verdict'.reason = IF jumps THEN "rejected_joint_jump" ELSE "accepted"
        /\ verdict'.q_goal = Aims(Best) /\ verdict'.best = results[Best]
    BY <1>7 DEF Decide, Aims
  <2>2. Best \in Feasible /\ Aims(Best) \in reachable
    BY <1>4, <1>7, BestIsNearest
  <2>3. jumps => \A pose \in reachable : ~near(pose)
    BY <1>2, <1>5, <1>7 DEF near
  <2>4. ~jumps => near(Aims(Best))
    BY <1>2, <1>5, <1>7, <2>2 DEF near
  <2>5. IF results[Best].success THEN goal[results[Best].q] <= Tolerance
        ELSE isNear(results[Best].q, policy.residual)
    <3>1. /\ results[Best].residual \in Nat
          /\ results[Best].success \/ results[Best].residual <= policy.residual
      BY <1>3, <2>2, AimsType DEF Feasible
    <3>2. IF results[Best].success THEN goal[results[Best].q] <= Tolerance
          ELSE \E p \in Poses : Apart(p, results[Best].q) <= 1 /\ goal[p] <= results[Best].residual
      BY <1>3, <2>2 DEF ResultsAreTrue
    <3>3. CASE results[Best].success
      BY <3>2, <3>3
    <3>4. CASE ~results[Best].success
      <4>1. PICK p \in Poses : Apart(p, results[Best].q) <= 1 /\ goal[p] <= results[Best].residual
        BY <3>2, <3>4
      <4>2. goal[p] \in Nat
        BY PolicyAssumption DEF IkTypeOK
      <4>3. goal[p] <= policy.residual
        BY <1>2, <3>1, <3>4, <4>1, <4>2
      <4>4. QED
        BY <3>4, <4>1, <4>3 DEF isNear
    <3>5. QED
      BY <3>3, <3>4
  <2>6. \A pose \in reachable : Apart(Aims(Best), Reference) <= Apart(pose, Reference)
    BY <1>5, <1>7
  <2> HIDE DEF jumps
  <2>7. QED
    BY <1>1, <2>1, <2>2, <2>3, <2>4, <2>5, <2>6
       DEF AcceptedGoalIsNearest, reachable, turns, near, isNear, Feasible, Reference
<1>8. QED
  BY <1>6, <1>7

\* A call starts with nothing found.
LEMMA IkStarts == IkInit => IkInv
<1> SUFFICES ASSUME IkInit PROVE IkInv
  OBVIOUS
<1>0. PICK target \in Goals, p \in Policies : \E random \in [1 .. p.restarts -> Poses] :
        IkStart(target, p, <<p.ref>>
                           \o (IF p.measured = NotMeasured THEN <<>> ELSE <<p.measured>>)
                           \o <<0, p.heuristic>> \o random)
  BY DEF IkInit
<1>1. PICK random \in [1 .. p.restarts -> Poses] :
        IkStart(target, p, <<p.ref>>
                           \o (IF p.measured = NotMeasured THEN <<>> ELSE <<p.measured>>)
                           \o <<0, p.heuristic>> \o random)
  BY <1>0
<1>2. random \in Seq(Int)
  <2>1. p.restarts \in Nat /\ Poses \subseteq Int
    BY PolicyAssumption DEF Poses
  <2>2. random \in [1 .. p.restarts -> Int]
    BY <2>1
  <2>3. QED
    BY <2>1, <2>2
<1>3. p.ref \in Int /\ p.measured \in Int /\ p.heuristic \in Int
  BY PolicyAssumption
<1>4. <<p.ref>> \in Seq(Int) /\ <<p.measured>> \in Seq(Int) /\ <<0, p.heuristic>> \in Seq(Int)
  BY <1>3
<1>5. seeds \in Seq(Int)
  BY <1>1, <1>2, <1>4 DEF IkStart
<1>6. QED
  BY <1>1, <1>5 DEF IkStart, IkInv, IkTypeOK, ResultsAreTrue, VerdictIsLast, AcceptedGoalIsNearest

\* A result that is appended is told as truly as those before.
LEMMA AppendResult ==
  ASSUME IkInv, NEW success \in BOOLEAN, NEW pose \in Poses, NEW residual \in Nat,
         results' = Append(results, Result(success, pose, residual)), goal' = goal,
         IF success THEN goal[pose] <= Tolerance
         ELSE \E p \in Poses : Apart(p, pose) <= 1 /\ goal[p] <= residual
  PROVE  /\ results' \in Seq([success: BOOLEAN, q: Poses, residual: Nat])
         /\ ResultsAreTrue'
<1> DEFINE S == [success: BOOLEAN, q: Poses, residual: Nat]
<1>1. Result(success, pose, residual) \in S
  BY DEF Result
<1>2. PICK r \in S : r = Result(success, pose, residual)
  BY <1>1
<1>3. results \in Seq(S) /\ results' = Append(results, r)
  BY <1>2 DEF IkInv, IkTypeOK
<1>4. r.success = success /\ r.q = pose /\ r.residual = residual
  BY <1>2, Zenon DEF Result
<1> HIDE DEF S
<1>5. /\ results' \in Seq(S)
      /\ \A i \in DOMAIN results' : results'[i] = r \/ (i \in DOMAIN results /\ results'[i] = results[i])
  BY <1>3
<1>6. ResultsAreTrue'
  <2>1. ASSUME NEW i \in DOMAIN results'
        PROVE IF results'[i].success THEN goal[results'[i].q] <= Tolerance
              ELSE \E p \in Poses : Apart(p, results'[i].q) <= 1 /\ goal[p] <= results'[i].residual
    <3>1. CASE results'[i] = r
      BY <1>4, <3>1
    <3>2. CASE i \in DOMAIN results /\ results'[i] = results[i]
      BY <3>2 DEF IkInv, ResultsAreTrue
    <3>3. QED
      BY <1>5, <3>1, <3>2
  <2>2. QED
    BY <2>1 DEF ResultsAreTrue
<1>7. QED
  BY <1>5, <1>6 DEF S

\* No step of a search or of the choice breaks it.
LEMMA IkStep ==
  ASSUME IkInv, [IkNext]_ikVars
  PROVE  IkInv'
<1>1. goal \in Goals /\ policy \in Policies /\ seeds \in Seq(Int)
  BY DEF IkInv, IkTypeOK
<1>2. search # Idle => search.iters \in Nat /\ search.q \in Poses
  BY DEF IkInv, IkTypeOK
<1>3. \A pose \in Poses : goal[pose] \in Nat /\ pose \in Int
  BY <1>1, PolicyAssumption DEF Poses
<1>4. ASSUME UNCHANGED <<goal, policy, results, verdict>>
      PROVE  AcceptedGoalIsNearest' /\ ResultsAreTrue'
  BY <1>4 DEF IkInv, AcceptedGoalIsNearest, ResultsAreTrue, Feasible, Reference
<1>5. CASE StartSearch
  <2>1. Head(seeds) \in Int /\ Tail(seeds) \in Seq(Int)
    BY <1>1, <1>5 DEF StartSearch
  <2>2. ClipToLimits(Head(seeds)) \in Poses
    BY <2>1, ClipToPoses
  <2>3. search' \in [iters: Nat, q: Poses]
    BY <1>5, <2>2 DEF StartSearch
  <2>4. QED
    BY <1>4, <1>5, <2>1, <2>3 DEF StartSearch, IkInv, IkTypeOK, VerdictIsLast
<1>6. ASSUME NEW success \in BOOLEAN, NEW pose \in Poses, NEW residual \in Nat,
             results' = Append(results, Result(success, pose, residual)),
             IF success THEN goal[pose] <= Tolerance
             ELSE \E p \in Poses : Apart(p, pose) <= 1 /\ goal[p] <= residual,
             search # Idle, search' = Idle, UNCHANGED <<goal, policy, seeds, verdict>>
      PROVE  IkInv'
  <2>1. results' \in Seq([success: BOOLEAN, q: Poses, residual: Nat]) /\ ResultsAreTrue'
    BY <1>6, AppendResult
  <2>2. verdict' = Pending
    BY <1>6 DEF IkInv, VerdictIsLast
  <2>3. QED
    BY <1>1, <1>6, <2>1, <2>2 DEF IkInv, IkTypeOK, VerdictIsLast, AcceptedGoalIsNearest
<1>7. CASE Converges
  BY <1>2, <1>3, <1>6, <1>7 DEF Converges
<1>8. CASE Iterate
  <2>1. PICK step \in {-1, 0, 1} :
          LET pose == ClipToLimits(search.q + step)
          IN IF search.iters < Iterations
             THEN /\ search' = [iters |-> search.iters + 1, q |-> pose]
                  /\ UNCHANGED results
             ELSE /\ results' = Append(results, Result(FALSE, pose, goal[search.q]))
                  /\ search' = Idle
    BY <1>8 DEF Iterate
  <2>2. search # Idle /\ search.q \in Poses /\ goal[search.q] \in Nat
    BY <1>2, <1>3, <1>8 DEF Iterate
  <2>3. ClipToLimits(search.q + step) \in Poses /\ Apart(search.q, ClipToLimits(search.q + step)) <= 1
    <3>1. Lower \in Int /\ Upper \in Int /\ Lower <= Upper
      BY PolicyAssumption
    <3>2. QED
      BY <2>2, <3>1, ClipToPoses DEF ClipToLimits, Apart, Poses
  <2>4. UNCHANGED <<goal, policy, seeds, verdict>>
    BY <1>8 DEF Iterate
  <2>5. CASE search.iters < Iterations
    <3>1. search' \in [iters: Nat, q: Poses] /\ UNCHANGED results
      BY <1>2, <2>1, <2>2, <2>3, <2>5
    <3>2. QED
      BY <1>4, <2>2, <2>4, <3>1 DEF IkInv, IkTypeOK, VerdictIsLast
  <2>6. CASE ~(search.iters < Iterations)
    <3>1. \E p \in Poses : Apart(p, ClipToLimits(search.q + step)) <= 1 /\ goal[p] <= goal[search.q]
      BY <2>2, <2>3
    <3>2. /\ results' = Append(results, Result(FALSE, ClipToLimits(search.q + step), goal[search.q]))
          /\ search' = Idle
      BY <2>1, <2>6
    <3>3. QED
      BY <1>6, <2>2, <2>3, <2>4, <3>1, <3>2
  <2>7. QED
    BY <2>5, <2>6
<1>9. CASE Decide
  <2>1. AcceptedGoalIsNearest'
    BY <1>9, DecideStep
  <2>2. QED
    BY <1>9, <2>1 DEF Decide, IkInv, IkTypeOK, ResultsAreTrue, VerdictIsLast
<1>10. CASE UNCHANGED ikVars
  BY <1>4, <1>10 DEF ikVars, IkInv, IkTypeOK, VerdictIsLast
<1>11. QED
  BY <1>5, <1>7, <1>8, <1>9, <1>10 DEF IkNext

\* A goal that is accepted can be reached, is close enough to the target, and no
\* other pose that was found is closer to where the arm is; one is refused only
\* when all are out of reach or too far away.
THEOREM AcceptedGoalsAreNearest == IkSpec => []AcceptedGoalIsNearest
<1>1. IkInv /\ [IkNext]_ikVars => IkInv'
  BY IkStep
<1>2. IkInv => AcceptedGoalIsNearest
  BY DEF IkInv
<1>3. QED
  BY <1>1, <1>2, IkStarts, PTL DEF IkSpec

=============================================================================
