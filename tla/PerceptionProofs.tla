--------------------------- MODULE PerceptionProofs ---------------------------
(***************************************************************************)
(* Proofs about what the robot is told of the world: contact_detector_node *)
(* with any motors, thresholds and timeouts, whatever comes on its topics  *)
(* and whatever the model answers; object_depth_node with any images;      *)
(* image_learning_node with any interval, wherever it is interrupted; the  *)
(* training of the detector on any recordings; and the choice of a box by  *)
(* qwen_box_selector_node, for any commands and sightings.                 *)
(***************************************************************************)
EXTENDS Perception, OrderLemmas

-----------------------------------------------------------------------------
(* contact_detector_node: types *)

\* The thresholds are numbers, given or derived from those of the checkpoint.
LEMMA StartsWithThresholds ==
  ASSUME NEW c \in Checkpoints, NEW t \in Startable(c)
  PROVE  t.hysteresis \in BOOLEAN /\ {t.decision, t.on, t.off} \subseteq Int
<1>1. PICK p \in Parameters : t = Resolved(p, c)
  BY DEF Startable
<1>2. p.hysteresis \in BOOLEAN /\ p.decision \in Int /\ p.on \in Int /\ p.off \in Int /\ c \in Int
  BY DetectorAssumption
<1>3. t.decision \in Int /\ t.on \in Int /\ t.off \in Int
  BY <1>1, <1>2 DEF Resolved
<1>4. t.hysteresis = p.hysteresis
  BY <1>1 DEF Resolved
<1>5. QED
  BY <1>2, <1>3, <1>4

\* The window grows to its length and then moves.
LEMMA PushedType ==
  ASSUME NEW S, NEW s \in Seq(S), NEW e \in S, NEW n \in Nat \ {0}
  PROVE  /\ Pushed(s, e, n) \in Seq(S)
         /\ Len(s) = n => Len(Pushed(s, e, n)) = n
<1>1. CASE Len(s) < n
  BY <1>1 DEF Pushed
<1>2. CASE ~(Len(s) < n)
  <2>1. s # <<>>
    BY <1>2
  <2>2. Tail(s) \in Seq(S) /\ Len(Tail(s)) = Len(s) - 1 /\ Len(s) \in Nat
    BY <2>1
  <2>3. Append(Tail(s), e) \in Seq(S) /\ Len(Append(Tail(s), e)) = Len(s)
    BY <2>2
  <2>4. QED
    BY <1>2, <2>3 DEF Pushed
<1>3. QED
  BY <1>1, <1>2

\* Ages grow, and what was never heard stays so.
LEMMA AgedType ==
  ASSUME NEW by \in [MotorIds -> Sample \cup {NoSample}]
  PROVE  /\ Aged(by) \in [MotorIds -> Sample \cup {NoSample}]
         /\ \A m \in MotorIds : by[m] # NoSample =>
              /\ Aged(by)[m] # NoSample /\ by[m].recv \in Nat
              /\ Aged(by)[m].recv <= by[m].recv + 1
<1>1. ASSUME NEW m \in MotorIds, by[m] # NoSample
      PROVE  /\ Aged(by)[m] \in Sample /\ by[m].recv \in Nat
             /\ Aged(by)[m].recv <= by[m].recv + 1
  <2>1. by[m] \in Sample
    BY <1>1
  <2>2. by[m].stamp \in Nat /\ by[m].recv \in Nat /\ by[m].finite \in BOOLEAN
    BY <2>1 DEF Sample
  <2> DEFINE s == IF by[m].stamp < StampCap THEN by[m].stamp + 1 ELSE by[m].stamp
             r == IF by[m].recv < RecvCap THEN by[m].recv + 1 ELSE by[m].recv
  <2>3. s \in Nat /\ r \in Nat /\ r <= by[m].recv + 1
    BY <2>2
  <2>4. Aged(by)[m] = [by[m] EXCEPT !.stamp = s, !.recv = r]
    BY <1>1 DEF Aged
  <2> HIDE DEF s, r
  <2>5. [by[m] EXCEPT !.stamp = s, !.recv = r] \in Sample
        /\ [by[m] EXCEPT !.stamp = s, !.recv = r].recv = r
    BY <2>1, <2>3 DEF Sample
  <2>6. QED
    BY <2>2, <2>3, <2>4, <2>5
<1>2. ASSUME NEW m \in MotorIds, by[m] = NoSample PROVE Aged(by)[m] = NoSample
  BY <1>2 DEF Aged
<1>3. Aged(by) \in [MotorIds -> Sample \cup {NoSample}]
  BY <1>1, <1>2 DEF Aged
<1>4. QED
  BY <1>1, <1>3, SampleAssumption

\* Nothing was heard at the start.
LEMMA DetectorStarts == DetectorInit => DetectorInv
<1> SUFFICES ASSUME DetectorInit PROVE DetectorInv
  OBVIOUS
<1>1. Started
  BY StartsWithThresholds DEF DetectorInit, Started
<1>2. /\ states \in [MotorIds -> Sample \cup {NoSample}]
      /\ cmds \in [MotorIds -> Sample \cup {NoSample}]
      /\ window \in Seq([value: Nat, delta: Int]) /\ value \in Nat
      /\ prev \in Nat \cup {NoSample}
  BY DEF DetectorInit, NothingHeard
<1>3. /\ due \in BOOLEAN /\ contact = FALSE /\ broken \in BOOLEAN
      /\ out.ready = FALSE /\ out.contact \in BOOLEAN /\ out.probability \in Nat
  BY DEF DetectorInit, NothingHeard, NotReady
<1>4. QED
  BY <1>1, <1>2, <1>3 DEF DetectorInv, DetectorTypeOK, FreshInv, ContactInv

\* A message of some motors is kept as it was received.
LEMMA WithType ==
  ASSUME NEW by \in [MotorIds -> Sample \cup {NoSample}], NEW motors,
         NEW sample \in Sample, sample.recv = 0
  PROVE  LET new == With(by, motors, sample)
         IN /\ new \in [MotorIds -> Sample \cup {NoSample}]
            /\ \A m \in MotorIds : \/ new[m] = by[m]
                                   \/ new[m] # NoSample /\ new[m].recv = 0
BY SampleAssumption DEF With

\* A step of the subscriptions.
LEMMA ReceiveStep ==
  ASSUME DetectorInv, Receive
  PROVE  DetectorInv' /\ UNCHANGED <<contact, out, broken>>
<1>1. /\ UNCHANGED <<config, window, prev, contact, out, due, value, broken>>
  BY DEF Receive, OnStateArray, OnCmdArray, temporal, history
<1> DEFINE Kept(old, new) ==
             /\ new \in [MotorIds -> Sample \cup {NoSample}]
             /\ \A m \in MotorIds : new[m] = old[m] \/ (new[m] # NoSample /\ new[m].recv = 0)
<1>2. Kept(states, states') /\ Kept(cmds, cmds')
  <2>1. 0 .. Late \subseteq Nat
    BY DetectorAssumption
  <2>2. /\ states \in [MotorIds -> Sample \cup {NoSample}]
        /\ cmds \in [MotorIds -> Sample \cup {NoSample}]
    BY DEF DetectorInv, DetectorTypeOK
  <2>3. ASSUME NEW motors \in Arrays, NEW late \in 0 .. Late, NEW finite \in BOOLEAN,
               OnStateArray(motors, late, finite)
        PROVE  Kept(states, states') /\ Kept(cmds, cmds')
    <3>1. PICK sample \in Sample :
            sample = [stamp |-> late, recv |-> 0, finite |-> finite]
      BY <2>1 DEF Sample
    <3>2. sample.recv = 0
      BY <3>1
    <3>3. states' = With(states, motors, sample) /\ cmds' = cmds
      BY <2>3, <3>1 DEF OnStateArray
    <3>4. QED
      BY <2>2, <3>2, <3>3, WithType
  <2>4. ASSUME NEW motors \in Arrays, NEW late \in 0 .. Late, NEW finite \in BOOLEAN,
               OnCmdArray(motors, late, finite)
        PROVE  Kept(states, states') /\ Kept(cmds, cmds')
    <3>1. PICK sample \in Sample :
            sample = [stamp |-> late, recv |-> 0, finite |-> finite]
      BY <2>1 DEF Sample
    <3>2. sample.recv = 0
      BY <3>1
    <3>3. cmds' = With(cmds, motors, sample) /\ states' = states
      BY <2>4, <3>1 DEF OnCmdArray
    <3>4. QED
      BY <2>2, <3>2, <3>3, WithType
  <2>5. QED
    BY <2>3, <2>4 DEF Receive
<1>3. FreshInv'
  <2>1. StateTimeout \in Nat /\ CmdTimeout \in Nat
    BY DetectorAssumption
  <2>2. 0 <= StateTimeout + (IF due THEN 1 ELSE 0) /\ 0 <= CmdTimeout + (IF due THEN 1 ELSE 0)
    BY <2>1
  <2>3. QED
    BY <1>1, <1>2, <2>2 DEF DetectorInv, FreshInv, ReadyIsFresh, Present
<1>4. DetectorTypeOK' /\ ContactInv' /\ Started'
  BY <1>1, <1>2 DEF DetectorInv, DetectorTypeOK, ContactInv, Started
<1>5. QED
  BY <1>1, <1>3, <1>4 DEF DetectorInv

\* A period passes only when the timer has run, which has looked at the ages.
LEMMA TickStep ==
  ASSUME DetectorInv, Tick
  PROVE  DetectorInv' /\ UNCHANGED <<contact, out, broken>>
<1>1. /\ UNCHANGED <<config, window, prev, contact, out, value, broken>>
      /\ due = FALSE /\ due' = TRUE /\ states' = Aged(states) /\ cmds' = Aged(cmds)
  BY DEF Tick, history, DetectorInv, DetectorTypeOK
<1>2. /\ states' \in [MotorIds -> Sample \cup {NoSample}]
      /\ cmds' \in [MotorIds -> Sample \cup {NoSample}]
      /\ \A m \in MotorIds : states[m] # NoSample =>
           /\ states'[m] # NoSample /\ states[m].recv \in Nat
           /\ states'[m].recv <= states[m].recv + 1
      /\ \A m \in MotorIds : cmds[m] # NoSample =>
           /\ cmds'[m] # NoSample /\ cmds[m].recv \in Nat
           /\ cmds'[m].recv <= cmds[m].recv + 1
  BY <1>1, AgedType DEF DetectorInv, DetectorTypeOK
<1>3. ASSUME out.ready
      PROVE  Present(states)' /\ Present(cmds)' /\ ReadyIsFresh'
  <2>1. Present(states) /\ Present(cmds) /\ ReadyIsFresh
    BY <1>3 DEF DetectorInv, FreshInv
  <2>2. Present(states)' /\ Present(cmds)'
    BY <1>2, <2>1 DEF Present
  <2>3. ASSUME NEW m \in MotorIds
        PROVE  states'[m].recv <= StateTimeout + 1 /\ cmds'[m].recv <= CmdTimeout + 1
    <3>1. states[m].recv <= StateTimeout + 0 /\ cmds[m].recv <= CmdTimeout + 0
      BY <1>1, <1>3, <2>1 DEF ReadyIsFresh
    <3>2. states[m] # NoSample /\ cmds[m] # NoSample
      BY <2>1 DEF Present
    <3>3. states'[m] \in Sample /\ cmds'[m] \in Sample
      BY <1>2, <3>2
    <3>4. states'[m].recv \in Nat /\ cmds'[m].recv \in Nat
      BY <3>3 DEF Sample
    <3>5. StateTimeout \in Nat /\ CmdTimeout \in Nat
      BY DetectorAssumption
    <3>6. QED
      BY <1>2, <3>1, <3>2, <3>4, <3>5
  <2>4. QED
    BY <1>1, <2>2, <2>3 DEF ReadyIsFresh
<1>4. FreshInv'
  BY <1>1, <1>3 DEF FreshInv
<1>5. DetectorTypeOK' /\ ContactInv' /\ Started'
  BY <1>1, <1>2 DEF DetectorInv, DetectorTypeOK, ContactInv, Started
<1>6. QED
  BY <1>1, <1>4, <1>5 DEF DetectorInv

-----------------------------------------------------------------------------
(* contact_detector_node: the timer *)

\* A window that is complete and fresh was made of motors that were heard lately.
LEMMA FreshWhenProcessed ==
  ASSUME DetectorInv, CompleteAndFresh, UNCHANGED <<states, cmds>>, due' = FALSE
  PROVE  Present(states)' /\ Present(cmds)' /\ ReadyIsFresh'
<1>1. StateTimeout + 0 = StateTimeout /\ CmdTimeout + 0 = CmdTimeout
  BY DetectorAssumption
<1>2. QED
  BY <1>1 DEF CompleteAndFresh, Present, ReadyIsFresh

\* What every callback that uses a sample does to the window.
LEMMA SampleStep ==
  ASSUME DetectorInv, NewSample
  PROVE  /\ Started' /\ CompleteAndFresh /\ UNCHANGED <<config, states, cmds>>
         /\ due' = FALSE /\ broken' = FALSE /\ prev' \in Nat /\ value' \in Nat
         /\ window' \in Seq([value: Nat, delta: Int])
         /\ Len(window) = WindowLength => Len(window') = WindowLength
<1>1. value' \in Nat
  BY DetectorAssumption DEF DetectorInv, DetectorTypeOK, NewSample
<1>2. Feature \in [value: Nat, delta: Int]
  BY <1>1 DEF Feature, DetectorInv, DetectorTypeOK
<1> DEFINE F == [value: Nat, delta: Int]
<1>3. /\ window' \in Seq(F)
      /\ Len(window) = WindowLength => Len(window') = WindowLength
  <2>1. window \in Seq(F) /\ WindowLength \in Nat \ {0}
    BY DetectorAssumption DEF DetectorInv, DetectorTypeOK
  <2>2. PICK e \in F : e = Feature
    BY <1>2
  <2>3. window' = Pushed(window, e, WindowLength)
    BY <2>2 DEF NewSample
  <2> HIDE DEF F
  <2>4. QED
    BY <2>1, <2>3, PushedType
<1>4. QED
  BY <1>1, <1>3 DEF DetectorInv, Started, NewSample, sensors

\* The evidence for a contact that is raised, ended or kept.
Evidence ==
  /\ contact' /\ ~contact => 10 * out'.probability > Raises
  /\ ~contact' /\ contact => broken' \/ 10 * out'.probability < Lowers
  /\ contact' => ~broken' /\ out'.ready /\ out'.contact

LEMMA UnusableStep == ASSUME DetectorInv, Unusable PROVE DetectorInv' /\ Evidence
<1>1. /\ UNCHANGED <<config, states, cmds, value>> /\ window' = <<>> /\ prev' = NoSample
      /\ out' = NotReady /\ contact' = FALSE /\ due' = FALSE /\ broken' = TRUE
  BY DEF Unusable, ResetTemporalState, PublishSafeDefault, sensors
<1>2. /\ out'.ready = FALSE /\ out'.contact = FALSE /\ out'.probability = 0
      /\ window' \in Seq([value: Nat, delta: Int])
  BY <1>1 DEF NotReady
<1>3. DetectorTypeOK'
  <2>1. due' \in BOOLEAN /\ contact' \in BOOLEAN /\ broken' \in BOOLEAN
    BY <1>1
  <2>2. out'.ready \in BOOLEAN /\ out'.contact \in BOOLEAN
    BY <1>2, Zenon
  <2>3. states' = states /\ cmds' = cmds /\ value' = value /\ prev' = NoSample
        /\ out'.probability \in Nat
    BY <1>1, <1>2
  <2>4. QED
    BY <1>2, <2>1, <2>2, <2>3 DEF DetectorInv, DetectorTypeOK
<1>4. Started' /\ FreshInv' /\ ContactInv'
  BY <1>1, <1>2 DEF DetectorInv, Started, FreshInv, ContactInv
<1>5. QED
  BY <1>1, <1>3, <1>4 DEF Evidence, DetectorInv

LEMMA SameSampleStep ==
  ASSUME DetectorInv, SameSample
  PROVE  DetectorInv' /\ UNCHANGED <<contact, out, broken>>
<1>1. /\ UNCHANGED <<config, states, cmds, window, prev, contact, out, value, broken>>
      /\ due' = FALSE /\ CompleteAndFresh
  BY DEF SameSample, sensors, temporal, history
<1>2. FreshInv'
  BY <1>1, FreshWhenProcessed DEF FreshInv
<1>3. QED
  BY <1>1, <1>2 DEF DetectorInv, DetectorTypeOK, ContactInv, Started

\* A window that is not full was not full before: there is no contact to lose.
LEMMA WarmUpStep == ASSUME DetectorInv, WarmUp PROVE DetectorInv' /\ Evidence
<1>1. /\ NewSample /\ Len(window') < WindowLength /\ out' = NotReady /\ contact' = FALSE
  BY DEF WarmUp, PublishSafeDefault
<1>2. out'.ready = FALSE /\ out'.contact = FALSE /\ out'.probability = 0
  BY <1>1 DEF NotReady
<1>3. contact = FALSE
  <2>1. contact \in BOOLEAN /\ (contact => Len(window) = WindowLength)
    BY DEF DetectorInv, DetectorTypeOK, ContactInv
  <2>2. ~(Len(window') = WindowLength)
    BY <1>1, DetectorAssumption
  <2>3. QED
    BY <1>1, <2>1, <2>2, SampleStep
<1>4. DetectorTypeOK'
  <2>1. due' = FALSE /\ contact' = FALSE /\ broken' = FALSE
    BY <1>1, SampleStep
  <2>2. due' \in BOOLEAN /\ contact' \in BOOLEAN /\ broken' \in BOOLEAN
    BY <2>1
  <2>3. out'.ready \in BOOLEAN /\ out'.contact \in BOOLEAN
    BY <1>2, Zenon
  <2>4. /\ states' = states /\ cmds' = cmds /\ value' \in Nat /\ prev' \in Nat
        /\ window' \in Seq([value: Nat, delta: Int]) /\ out'.probability \in Nat
    BY <1>1, <1>2, SampleStep
  <2>5. QED
    BY <2>2, <2>3, <2>4 DEF DetectorInv, DetectorTypeOK
<1>5. Started' /\ FreshInv' /\ ContactInv'
  BY <1>1, <1>2, SampleStep DEF FreshInv, ContactInv
<1>6. QED
  BY <1>1, <1>3, <1>4, <1>5 DEF Evidence, DetectorInv

LEMMA InferStep == ASSUME DetectorInv, Infer PROVE DetectorInv' /\ Evidence
<1>1. PICK p \in Probabilities :
        /\ contact' = Decide(p)
        /\ out' = [probability |-> p, contact |-> contact', ready |-> TRUE]
  BY DEF Infer
<1>2. NewSample /\ Len(window') = WindowLength
  BY DEF Infer
<1>3. p \in Nat
  BY DetectorAssumption
<1>4. /\ out'.probability = p /\ out'.contact = contact' /\ out'.ready = TRUE
  BY <1>1
<1>5. contact' \in BOOLEAN
  <2>1. CASE config.hysteresis
    BY <1>1, <2>1 DEF Decide
  <2>2. CASE ~config.hysteresis
    BY <1>1, <2>2 DEF Decide
  <2>3. QED
    BY <2>1, <2>2
<1>6. FreshInv'
  BY <1>2, SampleStep, FreshWhenProcessed DEF FreshInv
<1>7. DetectorInv'
  BY <1>2, <1>3, <1>4, <1>5, <1>6, SampleStep DEF DetectorInv, DetectorTypeOK, ContactInv
<1>8. Evidence
  <2>1. /\ config.hysteresis \in BOOLEAN
        /\ config.decision \in Int /\ config.on \in Int /\ config.off \in Int
    BY DEF DetectorInv, Started
  <2>2. contact' /\ ~contact => 10 * p > Raises
    BY <1>1, <1>3, <2>1 DEF Decide, Raises
  <2>3. ASSUME ~contact', contact PROVE 10 * p < Lowers
    <3>1. ~Decide(p)
      BY <1>1, <2>3
    <3>2. CASE config.hysteresis
      <4>1. ~(10 * p >= config.off)
        BY <2>3, <3>1, <3>2 DEF Decide
      <4>2. QED
        BY <1>3, <2>1, <3>2, <4>1 DEF Lowers
    <3>3. CASE ~config.hysteresis
      <4>1. ~(10 * p > config.decision)
        BY <3>1, <3>3 DEF Decide
      <4>2. QED
        BY <1>3, <2>1, <3>3, <4>1 DEF Lowers
    <3>4. QED
      BY <3>2, <3>3
  <2>4. contact' => out'.contact
    BY <1>4
  <2>5. ~broken'
    BY <1>2, SampleStep
  <2>6. QED
    BY <1>4, <2>2, <2>3, <2>4, <2>5 DEF Evidence
<1>9. QED
  BY <1>7, <1>8

LEMMA DetectorStep ==
  ASSUME DetectorInv, [DetectorNext]_detectorVars
  PROVE  DetectorInv' /\ [Evidence]_<<contact, out, broken>>
<1>1. CASE Unusable
  BY <1>1, UnusableStep
<1>2. CASE SameSample
  BY <1>2, SameSampleStep
<1>3. CASE WarmUp
  BY <1>3, WarmUpStep
<1>4. CASE Infer
  BY <1>4, InferStep
<1>5. CASE Receive
  BY <1>5, ReceiveStep
<1>6. CASE Tick
  BY <1>6, TickStep
<1>7. CASE BecomesSteady \/ UNCHANGED detectorVars
  <2>1. UNCHANGED <<config, states, cmds, window, prev, contact, out, due, value, broken>>
    BY <1>7 DEF BecomesSteady, detectorVars, sensors, temporal, history
  <2>2. QED
    BY <2>1 DEF DetectorInv, DetectorTypeOK, FreshInv, ContactInv, Started, Present,
                ReadyIsFresh
<1>8. QED
  BY <1>1, <1>2, <1>3, <1>4, <1>5, <1>6, <1>7 DEF DetectorNext

LEMMA DetectorInvCorrect == DetectorSpec => []DetectorInv
<1>1. DetectorInv /\ [DetectorNext]_detectorVars => DetectorInv'
  BY DetectorStep
<1>2. QED
  BY <1>1, DetectorStarts, PTL DEF DetectorSpec

\* A ready message outlives the data it was computed from by no more than a
\* period of the timer, however messages are late, partial or missing.
THEOREM ReadyMessagesAreFresh == DetectorSpec => []ReadyIsFresh
<1>1. DetectorInv => ReadyIsFresh
  BY DEF DetectorInv, FreshInv, ReadyIsFresh
<1>2. QED
  BY <1>1, DetectorInvCorrect, PTL

\* A contact is raised, held and ended only by the evidence for it.
THEOREM ContactsFollowEvidence == DetectorSpec => ContactFollowsEvidence
<1>1. DetectorInv /\ [DetectorNext]_detectorVars => [Evidence]_<<contact, out, broken>>
  BY DetectorStep
<1>2. QED
  BY <1>1, DetectorInvCorrect, PTL DEF DetectorSpec, ContactFollowsEvidence, Evidence

-----------------------------------------------------------------------------
(* contact_detector_node against the offline pipeline *)

\* Counting back in a circle.
LEMMA BackInCircle ==
  ASSUME NEW n \in Nat \ {0}, NEW v \in 0 .. n - 1, NEW d \in 0 .. n - 1
  PROVE  (v - d) % n = IF v >= d THEN v - d ELSE v - d + n
<1>1. CASE v >= d
  <2>1. PICK x \in 0 .. n - 1 : x = v - d
    BY <1>1
  <2>2. x % n = x
    BY <2>1
  <2>3. QED
    BY <1>1, <2>1, <2>2
<1>2. CASE v < d
  <2>1. PICK x \in 0 .. n - 1 : x = v - d + n
    BY <1>2
  <2>2. (x - n) % n = x
    BY <2>1
  <2>3. QED
    BY <1>2, <2>1, <2>2
<1>3. QED
  BY <1>1, <1>2

LEMMA OnceMoreInCircle ==
  ASSUME NEW n \in Nat \ {0}, NEW v \in 0 .. n - 1, NEW d \in 0 .. n - 2
  PROVE  /\ (v + 1) % n \in 0 .. n - 1
         /\ (((v + 1) % n) - 0) % n = (v + 1) % n
         /\ (((v + 1) % n) - (d + 1)) % n = (v - d) % n
<1>1. (v + 1) % n = IF v + 1 = n THEN 0 ELSE v + 1
  <2>1. CASE v + 1 = n
    <3>1. n % n = 0
      OBVIOUS
    <3>2. QED
      BY <2>1, <3>1
  <2>2. CASE v + 1 # n
    <3>1. PICK x \in 0 .. n - 1 : x = v + 1
      BY <2>2
    <3>2. x % n = x
      BY <3>1
    <3>3. QED
      BY <2>2, <3>1, <3>2
  <2>3. QED
    BY <2>1, <2>2
<1>2. PICK w \in 0 .. n - 1 : w = (v + 1) % n
  BY <1>1
<1>3. /\ (w - 0) % n = IF w >= 0 THEN w - 0 ELSE w - 0 + n
      /\ (w - (d + 1)) % n = IF w >= d + 1 THEN w - (d + 1) ELSE w - (d + 1) + n
      /\ (v - d) % n = IF v >= d THEN v - d ELSE v - d + n
  <2>1. 0 \in 0 .. n - 1 /\ d + 1 \in 0 .. n - 1 /\ d \in 0 .. n - 1
    OBVIOUS
  <2>2. QED
    BY <2>1, BackInCircle
<1>4. QED
  BY <1>1, <1>2, <1>3

\* What is pushed is last, and everything else is one further back.
LEMMA PushedBack ==
  ASSUME NEW S, NEW s \in Seq(S), NEW e \in S, NEW n \in Nat \ {0}, Len(s) <= n,
         NEW t, t = Pushed(s, e, n)
  PROVE  /\ t \in Seq(S) /\ Len(t) = IF Len(s) < n THEN Len(s) + 1 ELSE n
         /\ t[Len(t)] = e
         /\ \A back \in 0 .. Len(t) - 2 : t[Len(t) - (back + 1)] = s[Len(s) - back]
<1>1. CASE Len(s) < n
  <2>1. Pushed(s, e, n) = Append(s, e)
    BY <1>1 DEF Pushed
  <2>2. Len(Append(s, e)) = Len(s) + 1 /\ Append(s, e) \in Seq(S) /\ Len(s) \in Nat
    OBVIOUS
  <2>3. Append(s, e)[Len(s) + 1] = e
    OBVIOUS
  <2>4. \A i \in 1 .. Len(s) : Append(s, e)[i] = s[i]
    OBVIOUS
  <2>5. QED
    BY <1>1, <2>1, <2>2, <2>3, <2>4
<1>2. CASE Len(s) = n
  <2>1. Pushed(s, e, n) = Append(Tail(s), e) /\ s # <<>>
    BY <1>2 DEF Pushed
  <2>2. Tail(s) \in Seq(S) /\ Len(Tail(s)) = n - 1
    BY <1>2, <2>1
  <2>3. \A i \in 1 .. n - 1 : Tail(s)[i] = s[i + 1]
    BY <1>2, <2>1
  <2>4. PICK u \in Seq(S) : u = Tail(s)
    BY <2>2
  <2>5. Append(u, e) \in Seq(S) /\ Len(Append(u, e)) = n /\ Append(u, e)[n] = e
    BY <2>2, <2>4
  <2>6. \A i \in 1 .. n - 1 : Append(u, e)[i] = u[i]
    BY <2>2, <2>4
  <2>7. \A back \in 0 .. n - 2 : Append(u, e)[n - (back + 1)] = s[n - back]
    <3> TAKE back \in 0 .. n - 2
    <3>1. PICK i \in 1 .. n - 1 : i = n - (back + 1)
      OBVIOUS
    <3>2. Append(u, e)[i] = u[i] /\ Tail(s)[i] = s[i + 1]
      BY <2>3, <2>6
    <3>3. i + 1 = n - back /\ i = n - (back + 1)
      BY <3>1
    <3>4. Append(u, e)[i] = s[i + 1]
      BY <2>4, <3>2
    <3>5. QED
      BY <3>3, <3>4
  <2>8. t = Append(u, e)
    BY <2>1, <2>4
  <2>9. /\ t \in Seq(S) /\ Len(t) = n /\ t[n] = e
        /\ \A back \in 0 .. n - 2 : t[n - (back + 1)] = s[n - back]
    BY <2>1, <2>4, <2>5, <2>7, <2>8
  <2>10. QED
    BY <1>2, <2>9
<1>3. QED
  BY <1>1, <1>2

LEMMA PrevIsKnown == NoSample \notin Nat
  BY SampleAssumption

\* The first feature of a window has no difference, the others that of the samples.
LEMMA SampleIsPushed ==
  ASSUME DetectorTypeOK, WindowInv, NewSample,
         out'.ready <=> Len(window') = WindowLength
  PROVE  WindowInv'
<1>1. /\ value' = (value + 1) % ValueCap /\ prev' = value' /\ broken' = FALSE
      /\ window' = Pushed(window, Feature, WindowLength) /\ log' = Pushed(log, broken, LogCap)
  BY DEF NewSample
<1>2. /\ WindowLength \in Nat \ {0} /\ LogCap \in Nat /\ ValueCap \in Nat
      /\ LogCap > WindowLength /\ ValueCap > LogCap
  BY DetectorAssumption
<1>3. /\ log \in Seq(BOOLEAN) /\ Len(log) <= LogCap /\ value \in 0 .. ValueCap - 1
      /\ broken \in BOOLEAN
  BY DEF WindowInv, DetectorTypeOK
<1>4. value' \in 0 .. ValueCap - 1 /\ \A d \in 0 .. ValueCap - 2 : Ago(d + 1)' = Ago(d)
  <2>00. PICK n \in Nat \ {0} : n = ValueCap
    BY <1>2
  <2>01. PICK v \in 0 .. n - 1 : v = value
    BY <1>3, <2>00
  <2>0. n = ValueCap /\ v = value
    BY <2>00, <2>01
  <2>1. \A d \in 0 .. ValueCap - 2 : (((value + 1) % ValueCap) - (d + 1)) % ValueCap = (value - d) % ValueCap
    <3>1. \A d \in 0 .. n - 2 : (((v + 1) % n) - (d + 1)) % n = (v - d) % n
      BY OnceMoreInCircle
    <3>2. QED
      BY <2>0, <3>1
  <2>2. 0 \in 0 .. ValueCap - 2
    BY <1>2
  <2>3. value' \in 0 .. ValueCap - 1
    BY <1>1, <1>2, <1>3, <2>2, OnceMoreInCircle
  <2>4. QED
    BY <1>1, <2>1, <2>3 DEF Ago
<1>5. Ago(0)' = value'
  <2>1. 0 \in 0 .. ValueCap - 2
    BY <1>2
  <2>2. QED
    BY <1>1, <1>2, <1>3, <2>1, OnceMoreInCircle DEF Ago
<1>6. Ago(0) = value
  <2>1. 0 \in 0 .. ValueCap - 1
    BY <1>2
  <2>2. (value - 0) % ValueCap = value
    BY <1>2, <1>3, <2>1, BackInCircle
  <2>3. QED
    BY <2>2 DEF Ago
<1>7. PICK S : S = [value: Nat, delta: Int]
  OBVIOUS
<1>8. PICK feature \in S : feature = Feature
  <2>1. prev \in Nat \cup {NoSample}
    BY DEF DetectorTypeOK
  <2>2. Feature \in [value: Nat, delta: Int]
    BY <1>4, <2>1 DEF Feature
  <2>3. QED
    BY <1>7, <2>2
<1>9. feature.value = value' /\ feature.delta = IF prev = NoSample THEN 0 ELSE value' - prev
  BY <1>8 DEF Feature
<1>10. window \in Seq(S) /\ Len(window) <= WindowLength
  <2>1. window \in Seq(S)
    BY <1>7 DEF DetectorTypeOK
  <2>2. CASE broken
    <3>1. window = <<>>
      BY <2>2 DEF WindowInv
    <3>2. QED
      BY <1>2, <2>1, <3>1
  <2>3. CASE ~broken
    <3>1. Len(window) \in 1 .. WindowLength
      BY <2>3 DEF WindowInv
    <3>2. QED
      BY <1>2, <2>1, <3>1
  <2>4. QED
    BY <2>1, <2>2, <2>3
<1>11. PICK w, l : w = Len(window) /\ l = Len(log)
  OBVIOUS
<1>12. PICK w1, l1 : w1 = Len(window') /\ l1 = Len(log')
  OBVIOUS
<1>13. /\ w1 = IF w < WindowLength THEN w + 1 ELSE WindowLength
       /\ window'[w1] = feature
       /\ \A back \in 0 .. w1 - 2 : window'[w1 - (back + 1)] = window[w - back]
  <2>1. window' = Pushed(window, feature, WindowLength)
    BY <1>1, <1>8
  <2>2. /\ Len(window') = IF Len(window) < WindowLength THEN Len(window) + 1 ELSE WindowLength
        /\ window'[Len(window')] = feature
        /\ \A back \in 0 .. Len(window') - 2 : window'[Len(window') - (back + 1)] = window[Len(window) - back]
    BY <1>2, <1>10, <2>1, PushedBack
  <2>3. QED
    BY <1>11, <1>12, <2>2
<1>14. /\ log' \in Seq(BOOLEAN) /\ l1 = IF l < LogCap THEN l + 1 ELSE LogCap
       /\ log'[l1] = broken
       /\ \A back \in 0 .. l1 - 2 : log'[l1 - (back + 1)] = log[l - back]
  <2>1. LogCap \in Nat \ {0}
    BY <1>2
  <2>0. PICK B : B = BOOLEAN
    OBVIOUS
  <2>2. PICK e \in B : e = broken
    BY <1>3, <2>0
  <2>3. log' = Pushed(log, e, LogCap)
    BY <1>1, <2>2
  <2>4. /\ log' \in Seq(B)
        /\ Len(log') = IF Len(log) < LogCap THEN Len(log) + 1 ELSE LogCap
        /\ log'[Len(log')] = e
        /\ \A back \in 0 .. Len(log') - 2 : log'[Len(log') - (back + 1)] = log[Len(log) - back]
    <3>1. log \in Seq(B) /\ Len(log) <= LogCap
      BY <1>3, <2>0
    <3>2. PICK q \in Seq(B) : q = log
      BY <3>1
    <3>3. PICK n \in Nat \ {0} : n = LogCap
      BY <2>1
    <3>4. PICK t : t = log'
      OBVIOUS
    <3>5. t = Pushed(q, e, n) /\ Len(q) <= n
      BY <2>3, <3>1, <3>2, <3>3, <3>4
    <3>6. t \in Seq(B)
      BY <3>5, PushedBack
    <3>7. Len(t) = IF Len(q) < n THEN Len(q) + 1 ELSE n
      BY <3>5, PushedBack
    <3>8. t[Len(t)] = e
      BY <3>5, PushedBack
    <3>9. \A back \in 0 .. Len(t) - 2 : t[Len(t) - (back + 1)] = q[Len(q) - back]
      BY <3>5, PushedBack
    <3>10. QED
      BY <3>2, <3>3, <3>4, <3>6, <3>7, <3>8, <3>9
  <2>5. QED
    BY <1>11, <1>12, <2>0, <2>2, <2>4
<1>15. w \in Nat /\ l \in Nat /\ w <= WindowLength /\ l <= LogCap
  BY <1>3, <1>10, <1>11
<1>16. /\ w <= l /\ (broken => w = 0 /\ prev = NoSample)
       /\ (~broken => prev = value /\ w >= 1 /\ prev # NoSample)
  <2>1. CASE broken
    BY <1>11, <1>15, <2>1 DEF WindowInv
  <2>2. CASE ~broken
    BY <1>3, <1>11, <1>15, <2>2, PrevIsKnown DEF WindowInv
  <2>3. QED
    BY <2>1, <2>2
<1>17. w1 \in 1 .. WindowLength /\ w1 <= l1 /\ l1 <= LogCap /\ w1 <= w + 1
  BY <1>2, <1>13, <1>14, <1>15, <1>16
<1>18. FeatureOK(0)'
  <2>1. w1 - 0 = w1 /\ l1 - 0 = l1
    BY <1>17, <1>15, <1>2, <1>14
  <2>2. feature.value = Ago(0)'
    BY <1>5, <1>9
  <2>3. 0 < w1 - 1 => ~log'[l1]
    BY <1>14, <1>16, <1>17
  <2>4. feature.delta = IF log'[l1] THEN 0 ELSE Ago(0)' - Ago(0 + 1)'
    <3>1. Ago(0 + 1)' = value
      BY <1>2, <1>4, <1>6
    <3>2. QED
      BY <1>5, <1>9, <1>14, <1>16, <3>1
  <2>5. QED
    BY <1>12, <1>13, <2>1, <2>2, <2>3, <2>4 DEF FeatureOK
<1>19. ASSUME NEW back \in 0 .. w1 - 2 PROVE FeatureOK(back + 1)'
  <2>1. ~broken /\ back \in 0 .. w - 1 /\ back \in 0 .. l1 - 2 /\ back + 1 \in 0 .. ValueCap - 2
        /\ back \in 0 .. ValueCap - 2
    <3>1. w >= 1
      BY <1>15, <1>17
    <3>2. ~broken
      BY <1>16, <3>1
    <3>3. back \in Nat /\ back <= w1 - 2 /\ w1 <= WindowLength /\ w1 <= l1 /\ w1 <= w + 1
      BY <1>2, <1>15, <1>17
    <3>4. l1 \in Nat /\ w1 \in Nat
      BY <1>2, <1>14, <1>15, <1>17
    <3>5. QED
      BY <1>2, <1>15, <3>2, <3>3, <3>4
  <2>2. FeatureOK(back)
    BY <1>11, <2>1 DEF WindowInv
  <2>3. /\ window[w - back].value = Ago(back)
        /\ back < w - 1 => ~log[l - back]
        /\ l - back > 1 => window[w - back].delta = IF log[l - back] THEN 0 ELSE Ago(back) - Ago(back + 1)
    BY <1>11, <2>2 DEF FeatureOK
  <2>4. window'[w1 - (back + 1)] = window[w - back] /\ log'[l1 - (back + 1)] = log[l - back]
    BY <1>13, <1>14, <2>1
  <2>5. Ago(back + 1)' = Ago(back) /\ Ago((back + 1) + 1)' = Ago(back + 1)
    BY <1>4, <2>1
  <2>6. /\ l1 - (back + 1) > 1 => l - back > 1
        /\ back + 1 < w1 - 1 => back < w - 1
    BY <1>2, <1>14, <1>15, <1>17
  <2>7. QED
    BY <1>12, <2>3, <2>4, <2>5, <2>6 DEF FeatureOK
<1>20. \A back \in 0 .. w1 - 1 : FeatureOK(back)'
  <2> TAKE back \in 0 .. w1 - 1
  <2>1. CASE back = 0
    BY <1>18, <2>1
  <2>2. CASE back # 0
    <3>1. PICK d \in 0 .. w1 - 2 : back = d + 1
      <4>1. back - 1 \in 0 .. w1 - 2 /\ back = (back - 1) + 1
        BY <1>17, <2>2
      <4>2. QED
        BY <4>1
    <3>2. FeatureOK(d + 1)'
      BY <1>19
    <3>3. QED
      BY <3>1, <3>2
  <2>3. QED
    BY <2>1, <2>2
<1>21. w1 = WindowLength \/ log'[l1 - w1 + 1]
  <2>1. SUFFICES ASSUME w1 # WindowLength PROVE log'[l1 - w1 + 1]
    OBVIOUS
  <2>2. w < WindowLength /\ w1 = w + 1
    BY <1>13, <1>15, <2>1
  <2>3. CASE broken
    <3>1. l1 - w1 + 1 = l1
      BY <1>16, <1>2, <1>14, <1>15, <2>2, <2>3
    <3>2. QED
      BY <1>14, <2>3, <3>1
  <2>4. CASE ~broken
    <3>1. log[l - w + 1]
      BY <1>11, <2>2, <2>4, <1>15 DEF WindowInv
    <3>2. PICK back \in 0 .. l1 - 2 : back = w - 1
      BY <1>2, <1>14, <1>15, <1>16, <2>2, <2>4, <1>17
    <3>3. l1 - w1 + 1 = l1 - (back + 1) /\ l - w + 1 = l - back
      BY <1>15, <1>2, <1>14, <2>2, <3>2
    <3>4. QED
      BY <1>14, <3>1, <3>3
  <2>5. QED
    BY <2>3, <2>4
<1>22. QED
  BY <1>1, <1>4, <1>12, <1>14, <1>17, <1>20, <1>21 DEF WindowInv

\* The episode of each sample of a history: a new one where samples were lost.
Episodes(s) == [i \in 1 .. Len(s) |-> Cardinality({j \in 1 .. i : s[j]})]

LEMMA SameEpisode ==
  ASSUME NEW s \in Seq(BOOLEAN), NEW a \in 1 .. Len(s), NEW b \in a .. Len(s)
  PROVE  Episodes(s)[a] = Episodes(s)[b] <=> \A j \in a + 1 .. b : ~s[j]
<1> DEFINE A == {j \in 1 .. a : s[j]}
           B == {j \in 1 .. b : s[j]}
<1>1. Len(s) \in Nat /\ a \in 1 .. Len(s) /\ b \in 1 .. Len(s) /\ a <= b
  OBVIOUS
<1>2. Episodes(s)[a] = Cardinality(A) /\ Episodes(s)[b] = Cardinality(B)
  BY <1>1 DEF Episodes
<1>3. IsFiniteSet(B)
  <2>1. IsFiniteSet(1 .. b)
    BY <1>1, FS_Interval
  <2>2. B \subseteq 1 .. b
    OBVIOUS
  <2>3. QED
    BY <2>1, <2>2, FS_Subset
<1>4. A \subseteq B
  BY <1>1
<1>5. Cardinality(A) = Cardinality(B) <=> A = B
  BY <1>3, <1>4, FS_Subset
<1>6. A = B <=> \A j \in a + 1 .. b : ~s[j]
  <2>1. ASSUME A = B, NEW j \in a + 1 .. b PROVE ~s[j]
    <3>1. j \in 1 .. b /\ j \notin 1 .. a
      BY <1>1
    <3>2. j \notin A
      BY <3>1
    <3>3. QED
      BY <2>1, <3>1, <3>2
  <2>2. ASSUME \A j \in a + 1 .. b : ~s[j] PROVE B \subseteq A
    <3>1. ASSUME NEW j \in B PROVE j \in A
      <4>1. j \in 1 .. b /\ s[j]
        OBVIOUS
      <4>2. j \notin a + 1 .. b
        BY <2>2, <4>1
      <4>3. QED
        BY <1>1, <4>1, <4>2
    <3>2. QED
      BY <3>1
  <2>3. QED
    BY <1>4, <2>1, <2>2
<1>7. QED
  BY <1>2, <1>5, <1>6

\* A window of samples that follow each other is full at the end of the history
\* exactly where the offline pipeline finds one.
LEMMA WindowAtEnd ==
  ASSUME NEW s \in Seq(BOOLEAN), NEW n \in Nat \ {0}, NEW w \in 1 .. n, w <= Len(s),
         \A back \in 0 .. w - 2 : ~s[Len(s) - back],
         w = n \/ s[Len(s) - w + 1]
  PROVE  Len(s) \in WindowEnds(Episodes(s), n, 1) <=> w = n
<1> DEFINE l == Len(s)
           e == Episodes(s)
           Run == {a \in 1 .. l : \A j \in a + 1 .. l : ~s[j]}
<1>1. l \in Nat /\ l >= w /\ w \in Nat /\ w >= 1 /\ DOMAIN e = 1 .. l
  BY DEF Episodes
<1>2. \A a \in 1 .. l : e[a] = e[l] <=> a \in Run
  <2> TAKE a \in 1 .. l
  <2>1. l \in a .. l
    BY <1>1
  <2>2. QED
    BY <2>1, SameEpisode
<1>3. \A a \in 2 .. l : a \in Run /\ ~s[a] => a - 1 \in Run
  <2> TAKE a \in 2 .. l
  <2>1. \A j \in (a - 1) + 1 .. l : j = a \/ j \in a + 1 .. l
    BY <1>1
  <2>2. a - 1 \in 1 .. l
    BY <1>1
  <2>3. QED
    BY <2>1, <2>2
<1>4. \A a \in Run, b \in 1 .. l : a <= b => b \in Run
  BY <1>1
<1>5. l - w + 1 \in Run
  <2>1. l - w + 1 \in 1 .. l
    BY <1>1
  <2>2. ASSUME NEW j \in (l - w + 1) + 1 .. l PROVE ~s[j]
    <3>0. l - j \in 0 .. w - 2 /\ j \in Int
      <4> HIDE DEF l
      <4>1. QED
        BY <1>1
    <3>1. PICK back \in 0 .. w - 2 : back = l - j
      BY <3>0
    <3>2. l - back = j
      BY <1>1, <3>0, <3>1
    <3>3. ~s[l - back]
      OBVIOUS
    <3>4. QED
      BY <3>2, <3>3
  <2>3. QED
    BY <2>1, <2>2
<1>6. ASSUME w = n PROVE l \in WindowEnds(e, n, 1)
  <2>1. PICK a \in Run : \A b \in Run : a <= b
    <3>1. Run \in SUBSET Nat
      BY <1>1
    <3>2. QED
      BY <1>5, <3>1, LeastNumber
  <2>2. a \in 1 .. l /\ l \in 1 .. l /\ l \in Run /\ a <= l
    BY <1>1, <1>4
  <2>3. a = 1 \/ (a - 1 \in 1 .. l /\ a - 1 \notin Run)
    <3>1. ~(a <= a - 1) /\ (a = 1 \/ a - 1 \in 1 .. l)
      BY <1>1, <2>2
    <3> HIDE DEF Run
    <3>2. QED
      BY <2>1, <3>1
  <2>4. \A i \in a .. l : i \in 1 .. l /\ e[i] = e[a]
    <3> TAKE i \in a .. l
    <3>1. i \in 1 .. l /\ a <= i
      BY <1>1, <2>2
    <3>2. i \in Run
      BY <1>4, <3>1
    <3>3. QED
      BY <1>2, <2>2, <3>1, <3>2
  <2>5. a - 1 \in 1 .. l => e[a - 1] # e[a]
    BY <1>2, <2>2, <2>3, <1>1
  <2>6. <<a, l>> \in EpisodeSlices(e)
    <3>1. l + 1 \notin 1 .. l
      BY <1>1
    <3>2. <<a, l>> \in (1 .. l) \X (1 .. l)
      BY <2>2
    <3>3. QED
      BY <1>1, <2>2, <2>4, <2>5, <3>1, <3>2 DEF EpisodeSlices
  <2>7. l \in a + n - 1 .. l
    <3>1. a <= l - w + 1
      BY <1>5, <2>1
    <3> HIDE DEF l
    <3>2. QED
      BY <1>1, <1>6, <2>2, <3>1
  <2>8. (l - (a + n - 1)) % 1 = 0
    <3>1. l - (a + n - 1) \in Int
      BY <1>1, <2>2
    <3>2. QED
      BY <3>1
  <2>9. QED
    BY <2>6, <2>7, <2>8 DEF WindowEnds
<1>7. ASSUME l \in WindowEnds(e, n, 1) PROVE w = n
  <2>1. PICK t \in EpisodeSlices(e) : l \in t[1] + n - 1 .. t[2]
    BY <1>7 DEF WindowEnds
  <2>2. /\ t[1] \in 1 .. l /\ t[2] \in 1 .. l /\ t[1] <= t[2]
        /\ \A i \in t[1] .. t[2] : e[i] = e[t[1]]
    BY <1>1, <2>1 DEF EpisodeSlices
  <2>3. t[2] = l /\ t[1] <= l - n + 1
    BY <1>1, <2>1, <2>2
  <2>4. e[t[1]] = e[l]
    <3>1. l \in t[1] .. t[2]
      BY <1>1, <2>2, <2>3
    <3>2. QED
      BY <2>2, <3>1
  <2>5. t[1] \in Run
    BY <1>2, <2>2, <2>4
  <2>6. SUFFICES ASSUME w # n PROVE FALSE
    OBVIOUS
  <2>7. l - w + 1 \in t[1] + 1 .. l /\ s[l - w + 1]
    BY <1>1, <2>2, <2>3, <2>6
  <2>8. QED
    BY <2>5, <2>7
<1>8. QED
  BY <1>6, <1>7

LEMMA WindowsAreOffline ==
  ASSUME DetectorTypeOK, WindowInv PROVE OnlineIsOffline
<1> DEFINE values == [i \in 1 .. Len(log) |-> (value - (Len(log) - i)) % ValueCap]
           e == Episodes(log)
           deltas == EpisodewiseDelta(values, e)
<1> SUFFICES ASSUME ~broken
             PROVE  /\ out.ready <=> Len(log) \in WindowEnds(e, WindowLength, 1)
                    /\ \A k \in DOMAIN window :
                         LET i == Len(log) - Len(window) + k
                         IN /\ window[k].value = values[i] /\ e[i] = e[Len(log)]
                            /\ i > 1 => window[k].delta = deltas[i]
  BY DEF OnlineIsOffline, Episodes
<1>1. /\ log \in Seq(BOOLEAN) /\ WindowLength \in Nat \ {0}
      /\ Len(window) \in 1 .. WindowLength /\ Len(window) <= Len(log)
      /\ out.ready <=> Len(window) = WindowLength
      /\ Len(window) = WindowLength \/ log[Len(log) - Len(window) + 1]
      /\ \A back \in 0 .. Len(window) - 1 : FeatureOK(back)
  BY DetectorAssumption DEF WindowInv
<1>2. PICK w, l : w = Len(window) /\ l = Len(log)
  OBVIOUS
<1>3. w \in 1 .. WindowLength /\ w <= l /\ l \in Nat /\ w \in Nat
  BY <1>1, <1>2
<1>4. \A back \in 0 .. w - 1 :
        /\ window[w - back].value = Ago(back)
        /\ back < w - 1 => ~log[l - back]
        /\ l - back > 1 => window[w - back].delta = IF log[l - back] THEN 0 ELSE Ago(back) - Ago(back + 1)
  BY <1>1, <1>2 DEF FeatureOK
<1>5. \A back \in 0 .. w - 2 : ~log[l - back]
  <2> TAKE back \in 0 .. w - 2
  <2>1. back \in 0 .. w - 1 /\ back < w - 1
    BY <1>3
  <2>2. QED
    BY <1>4, <2>1
<1>6. out.ready <=> l \in WindowEnds(e, WindowLength, 1)
  <2>1. w = WindowLength \/ log[l - w + 1]
    BY <1>1, <1>2
  <2>2. l \in WindowEnds(e, WindowLength, 1) <=> w = WindowLength
    BY <1>1, <1>2, <1>3, <1>5, <2>1, WindowAtEnd
  <2>3. QED
    BY <1>1, <1>2, <2>2
<1>7. \A i \in 1 .. l : values[i] = Ago(l - i)
  BY <1>2 DEF Ago
<1>8. ASSUME NEW k \in 1 .. w
      PROVE  /\ window[k].value = values[l - w + k] /\ e[l - w + k] = e[l]
             /\ l - w + k > 1 => window[k].delta = deltas[l - w + k]
  <2>1. PICK back \in 0 .. w - 1 : back = w - k
    <3>1. w - k \in 0 .. w - 1
      BY <1>3
    <3>2. QED
      BY <3>1
  <2>2. PICK i \in 1 .. l : i = l - w + k
    <3>1. l - w + k \in 1 .. l
      BY <1>3
    <3>2. QED
      BY <3>1
  <2>3. k = w - back /\ i = l - back /\ back = l - i
    BY <1>3, <2>1, <2>2
  <2>4. /\ window[k].value = Ago(back)
        /\ i > 1 => window[k].delta = IF log[i] THEN 0 ELSE Ago(back) - Ago(back + 1)
    BY <1>4, <2>3
  <2>5. window[k].value = values[i]
    BY <1>7, <2>3, <2>4
  <2>6. e[i] = e[l]
    <3>1. \A j \in i + 1 .. l : ~log[j]
      <4> TAKE j \in i + 1 .. l
      <4>1. l - j \in 0 .. w - 2 /\ l - (l - j) = j
        BY <1>3, <2>1, <2>3
      <4>2. QED
        BY <1>5, <4>1
    <3>2. l \in i .. l
      BY <1>3
    <3>3. QED
      BY <1>1, <1>2, <3>1, <3>2, SameEpisode
  <2>7. ASSUME i > 1 PROVE window[k].delta = deltas[i]
    <3>1. i - 1 \in 1 .. Len(log) /\ i \in i - 1 .. Len(log) /\ i \in 1 .. Len(log)
      BY <1>2, <1>3, <2>7
    <3>2. e[i - 1] = e[i] <=> \A j \in (i - 1) + 1 .. i : ~log[j]
      BY <1>1, <3>1, SameEpisode
    <3>3. \A j : j \in (i - 1) + 1 .. i <=> j = i
      BY <1>3
    <3>4. e[i] = e[i - 1] <=> ~log[i]
      BY <3>2, <3>3
    <3>5. values[i] = Ago(back) /\ values[i - 1] = Ago(back + 1)
      <4>1. l - (i - 1) = back + 1 /\ i - 1 \in 1 .. l
        BY <1>2, <1>3, <2>3, <3>1
      <4>2. QED
        BY <1>7, <2>3, <4>1
    <3>6. deltas[i] = IF e[i] = e[i - 1] THEN values[i] - values[i - 1] ELSE 0
      <4>1. i \in DOMAIN values
        BY <3>1
      <4> HIDE DEF values, e
      <4>2. QED
        BY <2>7, <4>1 DEF EpisodewiseDelta
    <3> HIDE DEF values, e, deltas
    <3>7. QED
      BY <2>4, <2>7, <3>4, <3>5, <3>6
  <2>8. QED
    BY <2>2, <2>5, <2>6, <2>7
<1>9. DOMAIN window = 1 .. w
  BY <1>2 DEF DetectorTypeOK
<1>10. QED
  <2> HIDE DEF values, e, deltas
  <2>1. QED
    BY <1>2, <1>6, <1>8, <1>9

LEMMA WindowStarts == DetectorInit => WindowInv
<1> SUFFICES ASSUME DetectorInit PROVE WindowInv
  OBVIOUS
<1>1. log = <<>> /\ value = 0 /\ broken = TRUE /\ window = <<>> /\ prev = NoSample
  BY DEF DetectorInit, NothingHeard
<1>2. Len(log) = 0 /\ log \in Seq(BOOLEAN)
  BY <1>1
<1>3. 0 <= LogCap /\ 0 \in 0 .. ValueCap - 1
  BY DetectorAssumption
<1>4. QED
  BY <1>1, <1>2, <1>3 DEF WindowInv

LEMMA WindowStep ==
  ASSUME DetectorTypeOK, WindowInv, [DetectorNext]_detectorVars PROVE WindowInv'
<1>1. CASE Unusable
  BY <1>1 DEF Unusable, ResetTemporalState, WindowInv
<1>2. CASE WarmUp
  <2>1. NewSample /\ Len(window') < WindowLength /\ out' = NotReady
    BY <1>2 DEF WarmUp, PublishSafeDefault
  <2>2. out'.ready = FALSE /\ ~(Len(window') = WindowLength)
    BY <2>1, DetectorAssumption DEF NotReady
  <2>3. QED
    BY <2>1, <2>2, SampleIsPushed
<1>3. CASE Infer
  <2>1. NewSample /\ Len(window') = WindowLength /\ out'.ready = TRUE
    BY <1>3 DEF Infer
  <2>2. QED
    BY <2>1, SampleIsPushed
<1>4. CASE SameSample \/ Receive \/ Tick \/ BecomesSteady \/ UNCHANGED detectorVars
  <2>1. UNCHANGED <<window, prev, out, log, value, broken>>
    <3>1. CASE SameSample
      BY <3>1 DEF SameSample, temporal, history
    <3>2. CASE Receive
      BY <3>2 DEF Receive, OnStateArray, OnCmdArray, temporal, history
    <3>3. CASE Tick
      BY <3>3 DEF Tick, history
    <3>4. CASE BecomesSteady
      BY <3>4 DEF BecomesSteady, temporal, history
    <3>5. CASE UNCHANGED detectorVars
      BY <3>5 DEF detectorVars, temporal, history
    <3>6. QED
      BY <1>4, <3>1, <3>2, <3>3, <3>4, <3>5
  <2>2. \A back \in 0 .. Len(window) - 1 : FeatureOK(back) => FeatureOK(back)'
    BY <2>1 DEF FeatureOK, Ago
  <2>3. QED
    BY <2>1, <2>2 DEF WindowInv
<1>5. QED
  BY <1>1, <1>2, <1>3, <1>4 DEF DetectorNext

\* The node computes the windows and features of the offline pipeline, for any
\* messages, losses, restarts of the features and lengths of window and history.
THEOREM OnlineAgreesWithOffline == DetectorSpec => []OnlineIsOffline
<1>1. DetectorInv /\ WindowInv /\ [DetectorNext]_detectorVars => WindowInv'
  <2>1. DetectorInv => DetectorTypeOK
    BY DEF DetectorInv
  <2>2. QED
    BY <2>1, WindowStep
<1>2. DetectorInv /\ WindowInv => OnlineIsOffline
  <2>1. DetectorInv => DetectorTypeOK
    BY DEF DetectorInv
  <2>2. QED
    BY <2>1, WindowsAreOffline
<1>3. QED
  BY <1>1, <1>2, WindowStarts, DetectorInvCorrect, PTL DEF DetectorSpec

-----------------------------------------------------------------------------
(* object_depth_node *)

\* A miss is told on every topic.
LEMMA MissIsTold ==
  ASSUME NEW reason, PublishMiss(reason), tap' = tap
  PROVE  TopicsAgree'
<1>1. /\ bbox' = status' /\ status'.found = FALSE
      /\ distance' = IF tap.nanOnMiss THEN NaN ELSE distance
  BY DEF PublishMiss
<1>2. QED
  BY <1>1 DEF TopicsAgree

LEMMA ObjectStep ==
  ASSUME NEW image, NEW age, ObjectOnColor(image, age)
  PROVE  TopicsAgree'
<1> DEFINE largest == Largest(image, tap.useMask /\ TapMatches(age))
<1>1. \/ PublishMiss("no_object")
      \/ PublishMiss("no_valid_depth")
      \/ \E i \in largest :
           /\ distance' = image[i].z
           /\ bbox' = [found |-> TRUE, depth |-> image[i].z]
           /\ status' = [found |-> TRUE, depth |-> image[i].z]
  BY DEF ObjectOnColor
<1>2. tap' = tap
  BY DEF ObjectOnColor
<1>3. ASSUME NEW i \in largest,
             distance' = image[i].z,
             bbox' = [found |-> TRUE, depth |-> image[i].z],
             status' = [found |-> TRUE, depth |-> image[i].z]
      PROVE  TopicsAgree'
  <2>1. bbox' = status' /\ status'.found = TRUE /\ distance' = status'.depth
    BY <1>3
  <2>2. QED
    BY <2>1 DEF TopicsAgree
<1>4. QED
  BY <1>1, <1>2, <1>3, MissIsTold

-----------------------------------------------------------------------------
(* image_learning_node *)

\* The files, and how far the sample is that is being saved.
FilesInv ==
  /\ manifest \in Seq([stamp: Nat, depth: BOOLEAN]) /\ colors \subseteq Nat
  /\ saving.stamp \in Nat /\ (saving.step = "row" => saving.depth \in BOOLEAN)
  /\ RowsHaveFiles /\ SavingInv

\* Where nothing is being saved the files are as they were.
LEMMA IdleFiles ==
  ASSUME FilesInv, UNCHANGED <<colors, depths, manifest>>, saving' = NotSaving
  PROVE  FilesInv'
<1>1. saving'.stamp = 0 /\ saving'.step = "no"
  BY DEF NotSaving
<1>2. NotSaving' = NotSaving
  BY DEF NotSaving
<1>3. SavingInv'
  BY <1>1, <1>2 DEF SavingInv
<1>4. QED
  BY <1>1, <1>3 DEF FilesInv, RowsHaveFiles

\* A new sample has no file and no row yet.
LEMMA LearningOnColorFiles ==
  ASSUME FilesInv, NEW stamp \in 1 .. MaxStamp, NEW converted \in BOOLEAN,
         LearningOnColor(stamp, converted)
  PROVE  FilesInv'
<1>1. /\ UNCHANGED <<colors, depths, manifest>> /\ \A s \in colors : s < stamp
      /\ saving' = NotSaving \/ saving' = [stamp |-> stamp, step |-> "color"]
  BY DEF LearningOnColor
<1>2. CASE saving' = NotSaving
  BY <1>1, <1>2, IdleFiles
<1>3. CASE saving' = [stamp |-> stamp, step |-> "color"]
  <2>1. saving'.stamp = stamp /\ saving'.step = "color" /\ stamp \in Nat
    BY <1>3, TapsAssumption
  <2>2. stamp \notin colors
    BY <1>1, <2>1 DEF FilesInv
  <2>3. stamp \notin depths /\ \A i \in DOMAIN manifest : manifest[i].stamp # stamp
    BY <2>2 DEF FilesInv, RowsHaveFiles
  <2>4. SavingInv'
    BY <1>1, <2>1, <2>2, <2>3 DEF SavingInv
  <2>5. QED
    BY <1>1, <2>1, <2>4 DEF FilesInv, RowsHaveFiles
<1>4. QED
  BY <1>1, <1>2, <1>3

LEMMA SaveColorFiles ==
  ASSUME FilesInv, NEW written \in BOOLEAN, SaveColor(written)
  PROVE  FilesInv'
<1>1. saving.step = "color" /\ UNCHANGED <<depths, manifest>>
  BY DEF SaveColor
<1>2. CASE written
  <2>1. colors' = colors \cup {saving.stamp} /\ saving' = [saving EXCEPT !.step = "depth"]
    BY <1>2 DEF SaveColor
  <2>2. saving # NotSaving
    BY <1>1 DEF NotSaving
  <2>3. saving.step \in {"color", "depth", "row"} /\ saving.stamp \notin depths
        /\ \A i \in DOMAIN manifest : manifest[i].stamp # saving.stamp
    BY <1>1, <2>2 DEF FilesInv, SavingInv
  <2>4. saving'.stamp = saving.stamp /\ saving'.step = "depth"
    BY <2>1 DEF FilesInv
  <2>5. SavingInv' /\ RowsHaveFiles'
    BY <1>1, <2>1, <2>3, <2>4 DEF FilesInv, SavingInv, RowsHaveFiles
  <2>6. QED
    BY <1>1, <2>1, <2>4, <2>5 DEF FilesInv
<1>3. CASE ~written
  <2>1. colors' = colors /\ saving' = NotSaving
    BY <1>3 DEF SaveColor
  <2>2. QED
    BY <1>1, <2>1, IdleFiles
<1>4. QED
  BY <1>2, <1>3

LEMMA SaveDepthFiles ==
  ASSUME FilesInv, NEW age, NEW written \in BOOLEAN, SaveDepth(age, written)
  PROVE  FilesInv'
<1>1. /\ saving.step = "depth" /\ UNCHANGED <<colors, manifest>>
      /\ depths' = IF TapMatches(age) /\ written THEN depths \cup {saving.stamp} ELSE depths
      /\ saving' = [stamp |-> saving.stamp, step |-> "row", depth |-> TapMatches(age) /\ written]
  BY DEF SaveDepth
<1>2. saving # NotSaving
  BY <1>1 DEF NotSaving
<1>3. /\ saving.stamp \in colors /\ saving.stamp \notin depths
      /\ \A i \in DOMAIN manifest : manifest[i].stamp # saving.stamp
  BY <1>1, <1>2 DEF FilesInv, SavingInv
<1>4. /\ saving'.stamp = saving.stamp /\ saving'.step = "row"
      /\ saving'.depth = (TapMatches(age) /\ written)
  BY <1>1
<1>5. saving'.depth \in BOOLEAN
  BY <1>4
<1>6. saving.stamp \in depths' <=> saving'.depth
  BY <1>1, <1>3, <1>4
<1>7. /\ depths' \subseteq colors
      /\ \A i \in DOMAIN manifest : manifest[i].stamp \in depths' <=> manifest[i].stamp \in depths
  BY <1>1, <1>3 DEF FilesInv, RowsHaveFiles
<1>8. RowsHaveFiles'
  BY <1>1, <1>7 DEF FilesInv, RowsHaveFiles
<1>9. SavingInv'
  BY <1>1, <1>3, <1>4, <1>6 DEF SavingInv
<1>10. QED
  BY <1>1, <1>4, <1>5, <1>8, <1>9 DEF FilesInv

\* The row is written last, beside the files it names.
LEMMA SaveRowFiles == ASSUME FilesInv, SaveRow PROVE FilesInv'
<1> DEFINE row == [stamp |-> saving.stamp, depth |-> saving.depth]
           Row == [stamp: Nat, depth: BOOLEAN]
<1>1. /\ saving.step = "row" /\ manifest' = Append(manifest, row) /\ saving' = NotSaving
      /\ UNCHANGED <<colors, depths>>
  BY DEF SaveRow
<1>2. saving # NotSaving
  BY <1>1 DEF NotSaving
<1>3. /\ saving.stamp \in colors /\ (saving.stamp \in depths <=> saving.depth)
      /\ \A i \in DOMAIN manifest : manifest[i].stamp # saving.stamp
  BY <1>1, <1>2 DEF FilesInv, SavingInv
<1>4. row \in Row /\ row.stamp = saving.stamp /\ row.depth = saving.depth
  BY <1>1 DEF FilesInv
<1>5. manifest \in Seq(Row)
  BY DEF FilesInv
<1> HIDE DEF row, Row
<1>6. /\ manifest' \in Seq(Row) /\ DOMAIN manifest' = DOMAIN manifest \cup {Len(manifest) + 1}
      /\ manifest'[Len(manifest) + 1] = row
      /\ \A i \in DOMAIN manifest : manifest'[i] = manifest[i]
  BY <1>1, <1>4, <1>5
<1>7. RowsHaveFiles'
  <2>1. ASSUME NEW i \in DOMAIN manifest'
        PROVE  /\ manifest'[i].stamp \in colors
               /\ manifest'[i].depth <=> manifest'[i].stamp \in depths
               /\ \A j \in DOMAIN manifest' : manifest'[i].stamp = manifest'[j].stamp => i = j
    <3>1. CASE i \in DOMAIN manifest
      BY <1>3, <1>4, <1>6, <3>1 DEF FilesInv, RowsHaveFiles
    <3>2. CASE i = Len(manifest) + 1
      BY <1>3, <1>4, <1>6, <3>2
    <3>3. QED
      BY <1>6, <2>1, <3>1, <3>2
  <2>2. QED
    BY <1>1, <2>1 DEF FilesInv, RowsHaveFiles
<1>8. saving'.stamp = 0 /\ saving'.step = "no" /\ NotSaving' = NotSaving
  BY <1>1 DEF NotSaving
<1>9. SavingInv'
  BY <1>1, <1>8 DEF SavingInv
<1>10. QED
  BY <1>1, <1>6, <1>7, <1>8, <1>9 DEF FilesInv, Row

-----------------------------------------------------------------------------
(* Both *)

TapsInv == TopicsAgree /\ FilesInv

LEMMA TapsStart == TapsInit => TapsInv
<1> SUFFICES ASSUME TapsInit PROVE TapsInv
  OBVIOUS
<1>1. /\ status = None /\ saving = NotSaving /\ colors = {} /\ depths = {} /\ manifest = <<>>
  BY DEF TapsInit
<1>2. saving.stamp = 0 /\ saving.step = "no"
  BY <1>1 DEF NotSaving
<1>3. DOMAIN manifest = {} /\ manifest \in Seq([stamp: Nat, depth: BOOLEAN])
  BY <1>1
<1>4. QED
  BY <1>1, <1>2, <1>3 DEF TapsInv, TopicsAgree, FilesInv, RowsHaveFiles, SavingInv

LEMMA TapsStep == ASSUME TapsInv, [TapsNext]_tapVars PROVE TapsInv'
<1> USE DEF TapsInv
<1>1. CASE ObjectSees
  <2>1. TopicsAgree' /\ UNCHANGED <<saving, colors, depths, manifest>>
    BY <1>1, ObjectStep DEF ObjectSees, ObjectOnColor, learningVars
  <2>2. FilesInv'
    BY <2>1 DEF FilesInv, RowsHaveFiles, SavingInv, NotSaving
  <2>3. QED
    BY <2>1, <2>2
<1>2. CASE Learn
  <2>1. UNCHANGED <<tap, distance, bbox, status>>
    BY <1>2 DEF Learn, LearningOnColor, SaveColor, SaveDepth, SaveRow, LearningRestarts,
                objectVars
  <2>2. FilesInv'
    <3>1. ASSUME LearningRestarts PROVE FilesInv'
      BY <3>1, IdleFiles DEF LearningRestarts
    <3>2. QED
      BY <1>2, <3>1, LearningOnColorFiles, SaveColorFiles, SaveDepthFiles, SaveRowFiles
      DEF Learn
  <2>3. QED
    BY <2>1, <2>2 DEF TopicsAgree
<1>3. CASE (\E age \in 0 .. TapLate : TapOnDepth(age)) \/ TapDepthAges \/ UNCHANGED tapVars
  <2>1. UNCHANGED <<tap, distance, bbox, status, saving, colors, depths, manifest>>
    BY <1>3 DEF TapOnDepth, TapDepthAges, tapVars, objectVars, learningVars
  <2>2. QED
    BY <2>1 DEF TopicsAgree, FilesInv, RowsHaveFiles, SavingInv, NotSaving
<1>4. QED
  BY <1>1, <1>2, <1>3 DEF TapsNext

\* The topics agree about the object after every image, and the manifest names
\* each saved image once and only files that exist, wherever the process ends.
THEOREM TapsTellTheTruth == TapsSpec => []TapsAreTrue
<1>1. TapsInv => TapsAreTrue
  BY DEF TapsInv, FilesInv, TapsAreTrue
<1>2. TapsInv /\ [TapsNext]_tapVars => TapsInv'
  BY TapsStep
<1>3. QED
  BY <1>1, <1>2, TapsStart, PTL DEF TapsSpec

-----------------------------------------------------------------------------
(* Learning to feel a contact: fractions and the order of keys *)

Fraction == Int \X (Nat \ {0})

LEMMA Scale ==
  ASSUME NEW a \in Int, NEW b \in Int, NEW c \in Nat \ {0}
  PROVE  /\ a < b <=> a * c < b * c
         /\ a <= b <=> a * c <= b * c
         /\ a = b <=> a * c = b * c
OBVIOUS

LEMMA AboveIsTransitive ==
  ASSUME NEW x \in Fraction, NEW y \in Fraction, NEW z \in Fraction
  PROVE  /\ Above(x, y) /\ ~Above(z, y) => Above(x, z)
         /\ ~Above(y, x) /\ Above(y, z) => Above(x, z)
         /\ Same(x, y) /\ Same(y, z) => Same(x, z)
<1>1. PICK a \in Int, b \in Nat \ {0} : x[1] = a /\ x[2] = b
  BY DEF Fraction
<1>2. PICK c \in Int, d \in Nat \ {0} : y[1] = c /\ y[2] = d
  BY DEF Fraction
<1>3. PICK e \in Int, f \in Nat \ {0} : z[1] = e /\ z[2] = f
  BY DEF Fraction
<1>4. ASSUME a * d > c * b, c * f >= e * d PROVE a * f > e * b
  <2>1. (a * d) * f > (c * b) * f
    BY <1>4, Scale
  <2>2. (c * f) * b >= (e * d) * b
    BY <1>4, Scale
  <2>3. (a * f) * d > (e * b) * d
    <3>1. (a * d) * f = (a * f) * d /\ (c * b) * f = (c * f) * b /\ (e * d) * b = (e * b) * d
      OBVIOUS
    <3>2. /\ a * d \in Int /\ (a * d) * f \in Int /\ (c * b) * f \in Int /\ (c * f) * b \in Int
          /\ (e * d) * b \in Int /\ (a * f) * d \in Int /\ (e * b) * d \in Int
      OBVIOUS
    <3>3. QED
      BY <2>1, <2>2, <3>1, <3>2
  <2>4. a * f \in Int /\ e * b \in Int
    OBVIOUS
  <2>5. QED
    BY <2>3, <2>4, Scale
<1>5. ASSUME a * d >= c * b, c * f > e * d PROVE a * f > e * b
  <2>1. (a * d) * f >= (c * b) * f
    BY <1>5, Scale
  <2>2. (c * f) * b > (e * d) * b
    BY <1>5, Scale
  <2>3. (a * f) * d > (e * b) * d
    <3>1. (a * d) * f = (a * f) * d /\ (c * b) * f = (c * f) * b /\ (e * d) * b = (e * b) * d
      OBVIOUS
    <3>2. /\ a * d \in Int /\ (a * d) * f \in Int /\ (c * b) * f \in Int /\ (c * f) * b \in Int
          /\ (e * d) * b \in Int /\ (a * f) * d \in Int /\ (e * b) * d \in Int
      OBVIOUS
    <3>3. QED
      BY <2>1, <2>2, <3>1, <3>2
  <2>4. a * f \in Int /\ e * b \in Int
    OBVIOUS
  <2>5. QED
    BY <2>3, <2>4, Scale
<1>6. ASSUME a * d = c * b, c * f = e * d PROVE a * f = e * b
  <2>1. (a * d) * f = (c * b) * f /\ (c * f) * b = (e * d) * b
    BY <1>6
  <2>2. (a * f) * d = (e * b) * d
    BY <2>1
  <2>3. a * f \in Int /\ e * b \in Int
    OBVIOUS
  <2>4. QED
    BY <2>2, <2>3, Scale
<1>7. a * d \in Int /\ c * b \in Int /\ c * f \in Int /\ e * d \in Int /\ a * f \in Int /\ e * b \in Int
  OBVIOUS
<1>8. QED
  BY <1>1, <1>2, <1>3, <1>4, <1>5, <1>6, <1>7 DEF Above, Same

LEMMA AboveIsOrder ==
  ASSUME NEW x \in Fraction, NEW y \in Fraction
  PROVE  /\ ~Above(x, x) /\ Same(x, x)
         /\ Above(x, y) => ~Above(y, x) /\ ~Same(x, y)
         /\ Same(x, y) <=> Same(y, x)
         /\ Same(x, y) <=> ~Above(x, y) /\ ~Above(y, x)
<1>1. PICK a \in Int, b \in Nat \ {0} : x[1] = a /\ x[2] = b
  BY DEF Fraction
<1>2. PICK c \in Int, d \in Nat \ {0} : y[1] = c /\ y[2] = d
  BY DEF Fraction
<1>3. a * d \in Int /\ c * b \in Int /\ a * b \in Int
  OBVIOUS
<1>4. QED
  BY <1>1, <1>2, <1>3 DEF Above, Same

\* Python's order on tuples of fractions.
Keys(n) == [1 .. n -> Fraction]

LEMMA LexIsOrder ==
  ASSUME NEW n \in Nat, NEW x \in Keys(n), NEW y \in Keys(n), NEW z \in Keys(n)
  PROVE  /\ ~LexAbove(x, x)
         /\ LexAbove(x, y) /\ LexAbove(y, z) => LexAbove(x, z)
<1>1. \A i \in 1 .. n : x[i] \in Fraction /\ y[i] \in Fraction /\ z[i] \in Fraction
  BY DEF Keys
<1>2. DOMAIN x = 1 .. n /\ DOMAIN y = 1 .. n
  BY DEF Keys
<1>3. ~LexAbove(x, x)
  BY <1>1, <1>2, AboveIsOrder DEF LexAbove
<1>4. ASSUME LexAbove(x, y), LexAbove(y, z) PROVE LexAbove(x, z)
  <2>1. PICK i \in 1 .. n : Above(x[i], y[i]) /\ \A k \in 1 .. i - 1 : Same(x[k], y[k])
    BY <1>2, <1>4 DEF LexAbove
  <2>2. PICK j \in 1 .. n : Above(y[j], z[j]) /\ \A k \in 1 .. j - 1 : Same(y[k], z[k])
    BY <1>2, <1>4 DEF LexAbove
  <2>3. CASE i <= j
    <3>1. \A k \in 1 .. i - 1 : Same(x[k], z[k])
      <4>1. ASSUME NEW k \in 1 .. i - 1 PROVE Same(x[k], z[k])
        <5>1. k \in 1 .. n /\ k \in 1 .. j - 1
          BY <2>1, <2>2, <2>3
        <5>2. Same(x[k], y[k]) /\ Same(y[k], z[k])
          BY <2>1, <2>2, <5>1
        <5>3. QED
          BY <1>1, <5>1, <5>2, AboveIsTransitive
      <4>2. QED
        BY <4>1
    <3>2. ~Above(z[i], y[i])
      <4>1. CASE i = j
        BY <1>1, <2>2, <4>1, AboveIsOrder
      <4>2. CASE i # j
        <5>1. i \in 1 .. j - 1
          BY <2>1, <2>2, <2>3, <4>2
        <5>2. QED
          BY <1>1, <2>1, <2>2, <5>1, AboveIsOrder
      <4>3. QED
        BY <4>1, <4>2
    <3>3. Above(x[i], z[i])
      BY <1>1, <2>1, <3>2, AboveIsTransitive
    <3>4. QED
      BY <1>2, <2>1, <3>1, <3>3 DEF LexAbove
  <2>4. CASE ~(i <= j)
    <3>1. \A k \in 1 .. j - 1 : Same(x[k], z[k])
      <4>1. ASSUME NEW k \in 1 .. j - 1 PROVE Same(x[k], z[k])
        <5>1. k \in 1 .. n /\ k \in 1 .. i - 1
          BY <2>1, <2>2, <2>4
        <5>2. Same(x[k], y[k]) /\ Same(y[k], z[k])
          BY <2>1, <2>2, <5>1
        <5>3. QED
          BY <1>1, <5>1, <5>2, AboveIsTransitive
      <4>2. QED
        BY <4>1
    <3>2. j \in 1 .. i - 1
      BY <2>1, <2>2, <2>4
    <3>3. ~Above(y[j], x[j])
      BY <1>1, <2>1, <2>2, <3>2, AboveIsOrder
    <3>4. Above(x[j], z[j])
      BY <1>1, <2>2, <3>3, AboveIsTransitive
    <3>5. QED
      BY <1>2, <2>2, <3>1, <3>4 DEF LexAbove
  <2>5. QED
    BY <2>3, <2>4
<1>5. QED
  BY <1>3, <1>4

\* Of finitely many that are compared by a key there is one that none is above.
LEMMA BestExists ==
  ASSUME NEW S, IsFiniteSet(S), S # {}, NEW n \in Nat, NEW key \in [S -> Keys(n)]
  PROVE  \E t \in S : \A u \in S : ~LexAbove(key[u], key[t])
<1> DEFINE R == {ut \in S \X S : LexAbove(key[ut[1]], key[ut[2]])}
<1>1. \A u, t \in S : <<u, t>> \in R <=> LexAbove(key[u], key[t])
  OBVIOUS
<1> HIDE DEF R
<1>2. \A u \in S : <<u, u>> \notin R
  BY <1>1, LexIsOrder
<1>3. \A u, v, w \in S : <<u, v>> \in R /\ <<v, w>> \in R => <<u, w>> \in R
  BY <1>1, LexIsOrder
<1>4. PICK t \in S : \A u \in S : <<u, t>> \notin R
  BY <1>2, <1>3, FirstExists
<1>5. QED
  BY <1>1, <1>4

-----------------------------------------------------------------------------
(* The metrics, the thresholds and the windows *)

\* A part of a finite set has a number of elements.
LEMMA CountType ==
  ASSUME NEW D, IsFiniteSet(D), NEW P \in SUBSET D
  PROVE  IsFiniteSet(P) /\ Cardinality(P) \in Nat /\ Cardinality(P) <= Cardinality(D)
BY FS_Subset, FS_CardinalityType

\* The samples of a label that are predicted positive at a threshold, or negative.
Positives(scores, labels, t, label) == {i \in DOMAIN labels : labels[i] = label /\ scores[i] >= t}
Negatives(scores, labels, t, label) == {i \in DOMAIN labels : labels[i] = label /\ ~(scores[i] >= t)}

\* The positives as a share of the samples.
Share(positives, negatives) == <<positives, MaxInt(positives + negatives, 1)>>

\* The metrics are fractions; recall and the false-positive rate are the shares of
\* the samples of one label that are predicted positive.
LEMMA MetricsType ==
  ASSUME NEW scores, NEW labels, IsFiniteSet(DOMAIN labels), NEW t
  PROVE  /\ Metrics(scores, labels, t).f1 \in Fraction
         /\ Metrics(scores, labels, t).f2 \in Fraction
         /\ Metrics(scores, labels, t).precision \in Fraction
         /\ Metrics(scores, labels, t).recall \in Fraction
         /\ Metrics(scores, labels, t).fpr \in Fraction
         /\ Cardinality(Positives(scores, labels, t, 1)) \in Nat
         /\ Cardinality(Negatives(scores, labels, t, 1)) \in Nat
         /\ Cardinality(Positives(scores, labels, t, 0)) \in Nat
         /\ Cardinality(Negatives(scores, labels, t, 0)) \in Nat
         /\ Metrics(scores, labels, t).recall = Share(Cardinality(Positives(scores, labels, t, 1)),
                                                      Cardinality(Negatives(scores, labels, t, 1)))
         /\ Metrics(scores, labels, t).fpr = Share(Cardinality(Positives(scores, labels, t, 0)),
                                                   Cardinality(Negatives(scores, labels, t, 0)))
<1>1. PICK tp, fp, fn, tn :
        /\ tp = Cardinality(Positives(scores, labels, t, 1))
        /\ fp = Cardinality(Positives(scores, labels, t, 0))
        /\ fn = Cardinality(Negatives(scores, labels, t, 1))
        /\ tn = Cardinality(Negatives(scores, labels, t, 0))
  OBVIOUS
<1>2. \A label : /\ Positives(scores, labels, t, label) \in SUBSET DOMAIN labels
                 /\ Negatives(scores, labels, t, label) \in SUBSET DOMAIN labels
  BY DEF Positives, Negatives
<1>3. \A label : /\ Cardinality(Positives(scores, labels, t, label)) \in Nat
                 /\ Cardinality(Negatives(scores, labels, t, label)) \in Nat
  BY <1>2, CountType
<1>4. tp \in Nat /\ fp \in Nat /\ fn \in Nat /\ tn \in Nat
  BY <1>1, <1>3
<1>5. /\ Metrics(scores, labels, t).f1 = <<(1 + 1 * 1) * tp, MaxInt((1 + 1 * 1) * tp + 1 * 1 * fn + fp, 1)>>
      /\ Metrics(scores, labels, t).f2 = <<(1 + 2 * 2) * tp, MaxInt((1 + 2 * 2) * tp + 2 * 2 * fn + fp, 1)>>
      /\ Metrics(scores, labels, t).precision = <<tp, MaxInt(tp + fp, 1)>>
      /\ Metrics(scores, labels, t).recall = <<tp, MaxInt(tp + fn, 1)>>
      /\ Metrics(scores, labels, t).fpr = <<fp, MaxInt(fp + tn, 1)>>
  BY <1>1 DEF Metrics, Positives, Negatives
<1>6. \A a, b \in Nat : <<a, MaxInt(b, 1)>> \in Fraction
  <2> TAKE a, b \in Nat
  <2>1. MaxInt(b, 1) \in Nat \ {0}
    BY DEF MaxInt
  <2>2. QED
    BY <2>1 DEF Fraction
<1>7. /\ (1 + 1 * 1) * tp \in Nat /\ (1 + 2 * 2) * tp \in Nat
      /\ (1 + 1 * 1) * tp + 1 * 1 * fn + fp \in Nat /\ (1 + 2 * 2) * tp + 2 * 2 * fn + fp \in Nat
      /\ tp + fp \in Nat /\ tp + fn \in Nat /\ fp + tn \in Nat
  BY <1>4
<1>8. /\ Metrics(scores, labels, t).f1 \in Fraction
      /\ Metrics(scores, labels, t).f2 \in Fraction
      /\ Metrics(scores, labels, t).precision \in Fraction
      /\ Metrics(scores, labels, t).recall \in Fraction
      /\ Metrics(scores, labels, t).fpr \in Fraction
  BY <1>4, <1>5, <1>6, <1>7
<1>9. /\ Metrics(scores, labels, t).recall = Share(tp, fn)
      /\ Metrics(scores, labels, t).fpr = Share(fp, tn)
  BY <1>5 DEF Share
<1>10. QED
  BY <1>1, <1>4, <1>8, <1>9

\* The thresholds that are tried lie in the range of the scores, whose ends are
\* among them; they are the scores when there are few.
LEMMA CandidatesType ==
  ASSUME NEW ends, IsFiniteSet(ends), ends # {}, NEW scores \in [ends -> Nat],
         NEW points \in Nat \ {0, 1}
  PROVE  /\ IsFiniteSet(Candidates(scores, points)) /\ Candidates(scores, points) \subseteq Int
         /\ \E low \in Candidates(scores, points) : \A e \in ends : low <= scores[e]
         /\ \E high \in Candidates(scores, points) : \A e \in ends : scores[e] <= high
         /\ Cardinality({scores[e] : e \in ends}) <= points =>
              Candidates(scores, points) = {scores[e] : e \in ends}
<1> DEFINE unique == {scores[e] : e \in ends}
           low == CHOOSE x \in unique : \A y \in unique : x <= y
           high == CHOOSE x \in unique : \A y \in unique : x >= y
           cut == [i \in 0 .. points - 1 |-> low + (i * (high - low)) \div (points - 1)]
           even == {cut[i] : i \in 0 .. points - 1}
<1>1. Candidates(scores, points) = IF Cardinality(unique) <= points THEN unique ELSE even
  BY DEF Candidates, Maps!Range, Sets!Min, Sets!Max
<1>2. unique \in SUBSET Nat /\ unique # {} /\ IsFiniteSet(unique)
  <2>1. IsFiniteSet(unique)
    BY ImageIsFinite
  <2>2. QED
    BY <2>1
<1>3. \A e \in ends : scores[e] \in unique
  OBVIOUS
<1> HIDE DEF unique
<1>4. unique \in SUBSET Int
  BY <1>2
<1>5. low \in unique /\ \A y \in unique : low <= y
  <2>1. \E x \in unique : \A y \in unique : x <= y
    BY <1>2, <1>4, EndsExist
  <2>2. QED
    BY <2>1
<1>6. high \in unique /\ \A y \in unique : high >= y
  <2>1. \E x \in unique : \A y \in unique : x >= y
    <3>1. PICK x \in unique : \A y \in unique : y <= x
      BY <1>2, <1>4, EndsExist
    <3>2. \A y \in unique : x >= y
      BY <1>4, <3>1
    <3>3. QED
      BY <3>2
  <2>2. QED
    BY <2>1
<1> HIDE DEF low, high
<1>7. low \in Nat /\ high \in Nat
  BY <1>2, <1>5, <1>6
<1>8. low <= high
  BY <1>5, <1>6
<1>9. PICK d \in Nat : d = high - low
  BY <1>7, <1>8
<1>10. PICK k \in Nat \ {0} : k = points - 1
  OBVIOUS
<1>11. \A i \in 0 .. k : cut[i] = low + (i * d) \div k /\ cut[i] \in Int
  BY <1>7, <1>9, <1>10
<1>12. IsFiniteSet(even)
  <2>1. IsFiniteSet(0 .. k)
    BY <1>10, FS_Interval
  <2>2. QED
    BY <1>10, <2>1, ImageIsFinite
<1>13. cut[0] = low /\ cut[k] = high
  <2>1. (0 * d) \div k = 0 /\ (k * d) \div k = d
    BY <1>9, <1>10
  <2>2. 0 \in 0 .. k /\ k \in 0 .. k
    BY <1>10
  <2>3. QED
    <3>1. cut[0] = low + (0 * d) \div k /\ cut[k] = low + (k * d) \div k
      BY <1>11, <2>2
    <3> HIDE DEF cut
    <3>2. cut[0] = low + 0 /\ cut[k] = low + d
      BY <2>1, <3>1
    <3>3. QED
      BY <1>7, <1>9, <3>2
<1> HIDE DEF cut
<1>14. low \in even /\ high \in even /\ even \subseteq Int
  BY <1>10, <1>11, <1>13
<1> HIDE DEF even
<1>15. low \in Candidates(scores, points) /\ high \in Candidates(scores, points)
  BY <1>1, <1>5, <1>6, <1>14
<1>16. IsFiniteSet(Candidates(scores, points)) /\ Candidates(scores, points) \subseteq Int
  BY <1>1, <1>2, <1>4, <1>12, <1>14
<1>17. \A e \in ends : low <= scores[e] /\ scores[e] <= high
  BY <1>3, <1>4, <1>5, <1>6
<1>18. QED
  BY <1>1, <1>15, <1>16, <1>17 DEF unique

\* So do those that a policy tries, where scores that are all alike are tried by their
\* lowest alone.
LEMMA TriedType ==
  ASSUME NEW p, NEW ends, IsFiniteSet(ends), ends # {}, NEW scores \in [ends -> Nat],
         p.points \in Nat \ {0, 1}
  PROVE  /\ IsFiniteSet(Tried(scores, p)) /\ Tried(scores, p) \subseteq Int
         /\ \E low \in Tried(scores, p) : \A e \in ends : low <= scores[e]
         /\ p.policy = "fpr_constrained_f1" =>
              \E high \in Tried(scores, p) : \A e \in ends : scores[e] <= high
         /\ /\ Cardinality({scores[e] : e \in ends}) <= p.points
            /\ p.policy = "fpr_constrained_f1" \/ ~AllClose(scores, p.close)
            => Tried(scores, p) = {scores[e] : e \in ends}
<1>1. PICK points \in Nat \ {0, 1} : points = p.points
  OBVIOUS
<1>2. CASE p.policy # "fpr_constrained_f1" /\ AllClose(scores, p.close)
  <2> DEFINE unique == {scores[e] : e \in ends}
             low == CHOOSE x \in unique : \A y \in unique : x <= y
  <2>1. Tried(scores, p) = {low}
    BY <1>2 DEF Tried, Maps!Range, Sets!Min
  <2>2. unique \in SUBSET Int /\ unique # {} /\ IsFiniteSet(unique)
    <3>1. IsFiniteSet(unique)
      BY ImageIsFinite
    <3>2. QED
      BY <3>1
  <2>3. \A e \in ends : scores[e] \in unique
    OBVIOUS
  <2> HIDE DEF unique
  <2>4. low \in unique /\ \A y \in unique : low <= y
    <3>1. \E x \in unique : \A y \in unique : x <= y
      BY <2>2, EndsExist
    <3>2. QED
      BY <3>1
  <2> HIDE DEF low
  <2>5. low \in Int /\ \A e \in ends : low <= scores[e]
    BY <2>2, <2>3, <2>4
  <2>6. IsFiniteSet({low})
    BY FS_Singleton
  <2>7. QED
    BY <1>2, <2>1, <2>5, <2>6
<1>3. CASE ~(p.policy # "fpr_constrained_f1" /\ AllClose(scores, p.close))
  <2>1. Tried(scores, p) = Candidates(scores, points)
    BY <1>1, <1>3 DEF Tried
  <2>2. QED
    BY <1>1, <2>1, CandidatesType
<1>4. QED
  BY <1>2, <1>3

\* A threshold that no score is below finds every contact.
LEMMA LowestFindsAll ==
  ASSUME NEW scores, NEW labels, IsFiniteSet(DOMAIN labels), NEW t,
         \A e \in DOMAIN labels : scores[e] >= t,
         NEW e \in DOMAIN labels, labels[e] = 1,
         NEW asked \in Nat \X (Nat \ {0}), asked[1] <= asked[2]
  PROVE  AtLeast(Metrics(scores, labels, t).recall, asked)
<1>1. PICK tp, fn \in Nat :
        /\ tp = Cardinality(Positives(scores, labels, t, 1))
        /\ fn = Cardinality(Negatives(scores, labels, t, 1))
        /\ Metrics(scores, labels, t).recall = Share(tp, fn)
  BY MetricsType
<1>2. fn = 0
  <2>1. Negatives(scores, labels, t, 1) = {}
    BY DEF Negatives
  <2>2. QED
    BY <1>1, <2>1, FS_EmptySet
<1>3. tp # 0
  <2>1. e \in Positives(scores, labels, t, 1)
    BY DEF Positives
  <2>2. IsFiniteSet(Positives(scores, labels, t, 1))
    <3>1. Positives(scores, labels, t, 1) \in SUBSET DOMAIN labels
      BY DEF Positives
    <3>2. QED
      BY <3>1, CountType
  <2>3. QED
    BY <1>1, <2>1, <2>2, FS_EmptySet
<1>4. Metrics(scores, labels, t).recall = <<tp, tp>>
  BY <1>1, <1>2, <1>3 DEF MaxInt, Share
<1>5. PICK a \in Nat, b \in Nat \ {0} : asked[1] = a /\ asked[2] = b
  OBVIOUS
<1>6. a * tp <= b * tp
  BY <1>3, <1>5, Scale
<1>7. tp * b = b * tp
  BY <1>5
<1>8. QED
  BY <1>4, <1>5, <1>6, <1>7 DEF AtLeast

\* A higher threshold has no higher false-positive rate.
LEMMA HigherFindsLess ==
  ASSUME NEW labels, IsFiniteSet(DOMAIN labels), NEW scores \in [DOMAIN labels -> Int],
         NEW t \in Int, NEW u \in Int, t <= u
  PROVE  ~Above(Metrics(scores, labels, u).fpr, Metrics(scores, labels, t).fpr)
<1>1. PICK fp, tn \in Nat :
        /\ fp = Cardinality(Positives(scores, labels, t, 0))
        /\ tn = Cardinality(Negatives(scores, labels, t, 0))
        /\ Metrics(scores, labels, t).fpr = Share(fp, tn)
  BY MetricsType
<1>2. PICK gp, sn \in Nat :
        /\ gp = Cardinality(Positives(scores, labels, u, 0))
        /\ sn = Cardinality(Negatives(scores, labels, u, 0))
        /\ Metrics(scores, labels, u).fpr = Share(gp, sn)
  BY MetricsType
<1>3. \A x : Positives(scores, labels, x, 0) \in SUBSET DOMAIN labels
             /\ Negatives(scores, labels, x, 0) \in SUBSET DOMAIN labels
  BY DEF Positives, Negatives
<1>4. gp <= fp
  <2>1. Positives(scores, labels, u, 0) \in SUBSET Positives(scores, labels, t, 0)
    BY DEF Positives
  <2>2. IsFiniteSet(Positives(scores, labels, t, 0))
    BY <1>3, CountType
  <2>3. QED
    BY <1>1, <1>2, <2>1, <2>2, CountType
<1>5. \A x : Cardinality(Positives(scores, labels, x, 0)) + Cardinality(Negatives(scores, labels, x, 0))
               = Cardinality({i \in DOMAIN labels : labels[i] = 0})
  <2> TAKE x
  <2>1. IsFiniteSet(Positives(scores, labels, x, 0)) /\ IsFiniteSet(Negatives(scores, labels, x, 0))
    BY <1>3, CountType
  <2>2. Positives(scores, labels, x, 0) \cap Negatives(scores, labels, x, 0) = {}
    BY DEF Positives, Negatives
  <2>3. Positives(scores, labels, x, 0) \cup Negatives(scores, labels, x, 0)
          = {i \in DOMAIN labels : labels[i] = 0}
    BY DEF Positives, Negatives
  <2>4. /\ Cardinality(Positives(scores, labels, x, 0)) \in Nat
        /\ Cardinality(Negatives(scores, labels, x, 0)) \in Nat
    BY <1>3, CountType
  <2>5. Cardinality({}) = 0
    BY FS_EmptySet
  <2>6. Cardinality(Positives(scores, labels, x, 0) \cup Negatives(scores, labels, x, 0))
          = Cardinality(Positives(scores, labels, x, 0)) + Cardinality(Negatives(scores, labels, x, 0))
            - Cardinality(Positives(scores, labels, x, 0) \cap Negatives(scores, labels, x, 0))
    BY <2>1, FS_Union
  <2>7. Cardinality(Positives(scores, labels, x, 0) \cap Negatives(scores, labels, x, 0)) = 0
    BY <2>2, <2>5
  <2>8. Cardinality(Positives(scores, labels, x, 0) \cup Negatives(scores, labels, x, 0))
          = Cardinality(Positives(scores, labels, x, 0)) + Cardinality(Negatives(scores, labels, x, 0))
    BY <2>4, <2>6, <2>7
  <2>9. QED
    BY <2>3, <2>8
<1>6. fp + tn = gp + sn
  BY <1>1, <1>2, <1>5
<1>7. PICK n \in Nat \ {0} : n = MaxInt(fp + tn, 1)
  BY DEF MaxInt
<1>8. gp * n <= fp * n
  BY <1>4, Scale
<1>9. QED
  BY <1>1, <1>2, <1>6, <1>7, <1>8 DEF Above, Share

\* What is not above in Python's order is not above in the first component.
LEMMA LexByFirst ==
  ASSUME NEW n \in Nat \ {0}, NEW x \in Keys(n), NEW y \in Keys(n), ~LexAbove(x, y)
  PROVE  ~Above(x[1], y[1])
<1>1. DOMAIN x = 1 .. n /\ 1 \in 1 .. n /\ 1 .. 1 - 1 = {}
  BY DEF Keys
<1>2. QED
  BY <1>1 DEF LexAbove

\* A key with one more component.
LEMMA LongerKey ==
  ASSUME NEW n \in Nat \ {0}, NEW x \in Keys(n), NEW d \in Fraction
  PROVE  x \o <<d>> \in Keys(n + 1) /\ (x \o <<d>>)[1] = x[1]
<1>1. x \in Seq(Fraction) /\ Len(x) = n /\ <<d>> \in Seq(Fraction) /\ Len(<<d>>) = 1
  BY DEF Keys
<1>2. x \o <<d>> \in Seq(Fraction) /\ Len(x \o <<d>>) = n + 1
  BY <1>1
<1>3. x \o <<d>> \in [1 .. n + 1 -> Fraction]
  <2>1. PICK s : s = x \o <<d>>
    OBVIOUS
  <2>2. s \in Seq(Fraction) /\ Len(s) = n + 1
    BY <1>2, <2>1
  <2>3. s \in [1 .. n + 1 -> Fraction]
    BY <2>2
  <2>4. QED
    BY <2>1, <2>3
<1>4. (x \o <<d>>)[1] = x[1]
  BY <1>1
<1>5. QED
  BY <1>3, <1>4 DEF Keys

\* The keys of thresholds are made of fractions, and begin with what the policy
\* looks at first.
LEMMA KeysOfThresholds ==
  ASSUME NEW policy, NEW m, NEW t \in Int,
         m.f1 \in Fraction, m.f2 \in Fraction, m.precision \in Fraction,
         m.recall \in Fraction, m.fpr \in Fraction
  PROVE  /\ PolicyKey(policy, m) \o <<<<-t, 1>>>> \in Keys(4)
         /\ (PolicyKey(policy, m) \o <<<<-t, 1>>>>)[1] = PolicyKey(policy, m)[1]
         /\ FallbackKey(policy, m) \o <<<<-t, 1>>>> \in
              Keys(IF policy = "recall_constrained_f1" THEN 4 ELSE 5)
         /\ (FallbackKey(policy, m) \o <<<<-t, 1>>>>)[1] = FallbackKey(policy, m)[1]
<1>1. <<-t, 1>> \in Fraction
  BY DEF Fraction
<1>2. <<-m.fpr[1], m.fpr[2]>> \in Fraction
  BY DEF Fraction
<1>3. \A a, b, c \in Fraction : <<a, b, c>> \in Keys(3) /\ <<a, b, c>>[1] = a
  BY DEF Keys
<1>4. \A a, b, c, d \in Fraction : <<a, b, c, d>> \in Keys(4) /\ <<a, b, c, d>>[1] = a
  BY DEF Keys
<1>5. PolicyKey(policy, m) \in Keys(3)
  BY <1>3 DEF PolicyKey
<1>6. FallbackKey(policy, m) \in Keys(IF policy = "recall_constrained_f1" THEN 3 ELSE 4)
  BY <1>2, <1>3, <1>4 DEF FallbackKey
<1>7. PICK k \in {3, 4} : k = IF policy = "recall_constrained_f1" THEN 3 ELSE 4
  OBVIOUS
<1>8. QED
  BY <1>1, <1>5, <1>6, <1>7, LongerKey

\* What a search finds: a threshold it tried, one that does what the policy asks if
\* there is one, and none that the policy would have liked less than another.
Sought(p, scores, labels, r) ==
  /\ r.threshold \in Tried(scores, p)
  /\ r.metrics = Metrics(scores, labels, r.threshold)
  /\ r.met = \E t \in Tried(scores, p) : Meets(p, Metrics(scores, labels, t))
  /\ r.met => Meets(p, r.metrics)
  /\ r.met => \A u \in Tried(scores, p) :
       Meets(p, Metrics(scores, labels, u)) =>
         ~Above(PolicyKey(p.policy, Metrics(scores, labels, u))[1],
                PolicyKey(p.policy, r.metrics)[1])
  /\ ~r.met => \A u \in Tried(scores, p) :
       ~Above(FallbackKey(p.policy, Metrics(scores, labels, u))[1],
              FallbackKey(p.policy, r.metrics)[1])

LEMMA SearchFinds ==
  ASSUME NEW p, NEW ends, IsFiniteSet(ends), ends # {}, NEW scores \in [ends -> Nat],
         NEW labels, DOMAIN labels = ends, p.points \in Nat \ {0, 1}
  PROVE  Sought(p, scores, labels, SearchThreshold(scores, labels, p))
<1>0. PICK r : r = SearchThreshold(scores, labels, p)
  OBVIOUS
<1> DEFINE C == Tried(scores, p)
           at == [t \in C |-> Metrics(scores, labels, t)]
           valid == {t \in C : Meets(p, at[t])}
           met == valid # {}
           raw(t) == IF met THEN PolicyKey(p.policy, at[t]) ELSE FallbackKey(p.policy, at[t])
           pool == IF met THEN valid ELSE C
           chosen == CHOOSE t \in pool : \A u \in pool :
                     ~LexAbove(raw(u) \o <<<<-u, 1>>>>, raw(t) \o <<<<-t, 1>>>>)
           n == IF met \/ p.policy = "recall_constrained_f1" THEN 4 ELSE 5
           key == [t \in pool |-> raw(t) \o <<<<-t, 1>>>>]
<1>1. r = [threshold |-> chosen, met |-> met, metrics |-> at[chosen]]
  BY <1>0 DEF SearchThreshold
<1>2. IsFiniteSet(C) /\ C \in SUBSET Int /\ C # {}
  BY TriedType
<1>3. pool \in SUBSET C /\ pool # {} /\ IsFiniteSet(pool)
  <2>1. pool \in SUBSET C /\ pool # {}
    BY <1>2
  <2>2. QED
    BY <1>2, <2>1, FS_Subset
<1>4. \A t \in pool : key[t] \in Keys(n) /\ key[t][1] = raw(t)[1] /\ key[t] = raw(t) \o <<<<-t, 1>>>>
  <2> TAKE t \in pool
  <2>1. t \in Int /\ t \in C /\ at[t] = Metrics(scores, labels, t)
    BY <1>2, <1>3
  <2>2. /\ at[t].f1 \in Fraction /\ at[t].f2 \in Fraction /\ at[t].precision \in Fraction
        /\ at[t].recall \in Fraction /\ at[t].fpr \in Fraction
    BY <2>1, MetricsType
  <2>3. key[t] = raw(t) \o <<<<-t, 1>>>>
    OBVIOUS
  <2> HIDE DEF at, key, met
  <2>7. PICK m : m = at[t]
    OBVIOUS
  <2>9. /\ m.f1 \in Fraction /\ m.f2 \in Fraction /\ m.precision \in Fraction
        /\ m.recall \in Fraction /\ m.fpr \in Fraction
    BY <2>2, <2>7
  <2>10. t \in Int
    BY <2>1
  <2>8. /\ PolicyKey(p.policy, m) \o <<<<-t, 1>>>> \in Keys(4)
        /\ (PolicyKey(p.policy, m) \o <<<<-t, 1>>>>)[1] = PolicyKey(p.policy, m)[1]
        /\ FallbackKey(p.policy, m) \o <<<<-t, 1>>>> \in
             Keys(IF p.policy = "recall_constrained_f1" THEN 4 ELSE 5)
        /\ (FallbackKey(p.policy, m) \o <<<<-t, 1>>>>)[1] = FallbackKey(p.policy, m)[1]
    BY <2>9, <2>10, KeysOfThresholds
  <2>4. CASE met
    BY <2>3, <2>4, <2>7, <2>8
  <2>5. CASE ~met
    BY <2>3, <2>5, <2>7, <2>8
  <2>6. QED
    BY <2>4, <2>5
<1>5. chosen \in pool /\ \A u \in pool : ~LexAbove(key[u], key[chosen])
  <2>1. key \in [pool -> Keys(n)] /\ n \in Nat
    <3>1. \A t \in pool : key[t] \in Keys(n)
      BY <1>4
    <3>2. QED
      BY <3>1
  <2> HIDE DEF n
  <2>2. PICK t \in pool : \A u \in pool : ~LexAbove(key[u], key[t])
    <3> HIDE DEF pool, key
    <3>1. QED
      BY <1>3, <2>1, BestExists
  <2>3. \A u \in pool : ~LexAbove(raw(u) \o <<<<-u, 1>>>>, raw(t) \o <<<<-t, 1>>>>)
    BY <1>4, <2>2
  <2> HIDE DEF key, pool, raw
  <2>4. chosen \in pool /\ \A u \in pool :
          ~LexAbove(raw(u) \o <<<<-u, 1>>>>, raw(chosen) \o <<<<-chosen, 1>>>>)
    BY <2>2, <2>3
  <2> HIDE DEF chosen
  <2>5. QED
    BY <1>4, <2>4
<1> HIDE DEF chosen
<1>6. \A u \in pool : ~Above(raw(u)[1], raw(chosen)[1])
  <2> TAKE u \in pool
  <2>1. key[u] \in Keys(n) /\ key[chosen] \in Keys(n)
    BY <1>4, <1>5
  <2>0. n \in Nat \ {0}
    OBVIOUS
  <2>2. ~LexAbove(key[u], key[chosen])
    BY <1>5
  <2>3. key[u][1] = raw(u)[1] /\ key[chosen][1] = raw(chosen)[1]
    BY <1>4, <1>5
  <2> HIDE DEF n, key, raw
  <2>4. QED
    BY <2>0, <2>1, <2>2, <2>3, LexByFirst
<1>7. /\ r.threshold = chosen /\ r.met = met /\ r.metrics = at[chosen]
      /\ chosen \in C /\ at[chosen] = Metrics(scores, labels, chosen)
  BY <1>1, <1>3, <1>5
<1>8. met = \E t \in C : Meets(p, Metrics(scores, labels, t))
  OBVIOUS
<1>9. met => /\ Meets(p, at[chosen])
             /\ \A u \in C : Meets(p, Metrics(scores, labels, u)) =>
                  ~Above(PolicyKey(p.policy, Metrics(scores, labels, u))[1], PolicyKey(p.policy, at[chosen])[1])
  BY <1>5, <1>6
<1>10. ~met => \A u \in C :
         ~Above(FallbackKey(p.policy, Metrics(scores, labels, u))[1], FallbackKey(p.policy, at[chosen])[1])
  BY <1>6
<1>11. QED
  <2> HIDE DEF at, met
  <2>1. Sought(p, scores, labels, r)
    BY <1>7, <1>8, <1>9, <1>10 DEF Sought
  <2>2. QED
    BY <1>0, <2>1

\* A window ends in the episode it begins in, at a sample that there is.
LEMMA WindowsInEpisodes ==
  ASSUME NEW episode \in Seq(Nat), NEW length \in Nat \ {0}, NEW stride,
         NEW e \in WindowEnds(episode, length, stride)
  PROVE  /\ e \in DOMAIN episode
         /\ \A i \in WindowOf(e, length) : i \in DOMAIN episode /\ episode[i] = episode[e]
<1>1. PICK s \in EpisodeSlices(episode) : e \in s[1] + length - 1 .. s[2]
  BY DEF WindowEnds
<1>2. /\ s[1] \in DOMAIN episode /\ s[2] \in DOMAIN episode
      /\ \A i \in s[1] .. s[2] : episode[i] = episode[s[1]]
  BY <1>1 DEF EpisodeSlices
<1>3. DOMAIN episode = 1 .. Len(episode) /\ Len(episode) \in Nat
  OBVIOUS
<1>4. s[1] \in Nat \ {0} /\ s[2] \in Nat /\ s[2] <= Len(episode)
  BY <1>2, <1>3
<1>5. e \in s[1] .. s[2]
  BY <1>1, <1>4
<1>6. \A i \in e - length + 1 .. e : i \in s[1] .. s[2]
  BY <1>1, <1>4, <1>5
<1>7. \A i \in s[1] .. s[2] : i \in DOMAIN episode
  BY <1>3, <1>4
<1>8. QED
  BY <1>2, <1>5, <1>6, <1>7 DEF WindowOf

\* The windows of a plan are finitely many, and each validation gives all of them a
\* probability and has the threshold that was found for these.
LEMMA ValidationType ==
  ASSUME NEW p \in Plans, NEW v \in Validations[p]
  PROVE  /\ IsFiniteSet(ValidationEnds(p))
         /\ ValidationEnds(p) \subseteq WindowEnds(p.episode, p.window, p.stride)
         /\ v.scores \in [ValidationEnds(p) -> Nat]
         /\ v.found = SearchThreshold(v.scores, [e \in ValidationEnds(p) |-> Labels(p)[e]], p)
<1>1. ValidationEnds(p) \subseteq WindowEnds(p.episode, p.window, p.stride)
  BY DEF ValidationEnds
<1>2. p.episode \in Seq(Nat) /\ p.window \in Nat \ {0} /\ Scores \subseteq Nat
  BY PlanAssumption
<1>3. ValidationEnds(p) \in SUBSET (1 .. Len(p.episode))
  <2>1. DOMAIN p.episode = 1 .. Len(p.episode)
    BY <1>2
  <2>2. QED
    BY <1>1, <1>2, <2>1, WindowsInEpisodes
<1>4. IsFiniteSet(ValidationEnds(p))
  <2>1. Len(p.episode) \in Int
    BY <1>2
  <2>2. IsFiniteSet(1 .. Len(p.episode))
    BY <2>1, FS_Interval
  <2>3. QED
    BY <1>3, <2>2, FS_Subset
<1>5. PICK scores \in [ValidationEnds(p) -> Scores] :
        v = [scores |-> scores,
             found |-> SearchThreshold(scores, [e \in ValidationEnds(p) |-> Labels(p)[e]], p)]
  BY DEF Validations
<1>6. scores \in [ValidationEnds(p) -> Nat]
  BY <1>2
<1>7. QED
  BY <1>1, <1>4, <1>5, <1>6

\* Training sees no sample of a window it is validated on, unless it trains and
\* validates on one episode.
LEMMA WindowsAreApart ==
  ASSUME NEW p \in Plans, p.trainer = "real", NEW e \in ValidationEnds(p), NEW used \in TrainingEnds(p)
  PROVE  \/ WindowOf(e, p.window) \cap WindowOf(used, p.window) = {}
         \/ IsShared(p, p.episode[e]) /\ p.episode[used] = p.episode[e]
<1>1. /\ e \in WindowEnds(p.episode, p.window, p.stride)
      /\ p.episode[e] \in ValidationEpisodes(p)
  BY DEF ValidationEnds
<1>2. /\ used \in WindowEnds(p.episode, p.window, p.stride)
      /\ p.episode[used] \in ValidationEpisodes(p) => IsShared(p, p.episode[used])
  BY DEF TrainingEnds, TrainingEpisodes
<1>3. p.episode \in Seq(Nat) /\ p.window \in Nat \ {0}
  BY PlanAssumption
<1>4. \A i \in WindowOf(e, p.window) : p.episode[i] = p.episode[e]
  BY <1>1, <1>3, WindowsInEpisodes
<1>5. \A i \in WindowOf(used, p.window) : p.episode[i] = p.episode[used]
  BY <1>2, <1>3, WindowsInEpisodes
<1>6. QED
  BY <1>1, <1>2, <1>4, <1>5

\* What a policy promises of the threshold that is found for these scores.
Promised(p, scores, labels, cuts, thr) ==
  /\ p.policy = "recall_constrained_f1" /\ (\E e \in DOMAIN labels : labels[e] = 1) =>
       AtLeast(Metrics(scores, labels, thr).recall, p.recall)
  /\ p.policy = "fpr_constrained_f1" =>
       \/ AtLeast(p.fpr, Metrics(scores, labels, thr).fpr)
       \/ \A t \in cuts : ~Above(Metrics(scores, labels, thr).fpr, Metrics(scores, labels, t).fpr)
  /\ /\ Cardinality(cuts) <= p.points
     /\ p.policy = "fpr_constrained_f1" \/ ~AllClose(scores, p.close)
     => \A t \in cuts :
       Meets(p, Metrics(scores, labels, t)) =>
         IF p.policy = "f2"
         THEN ~Above(Metrics(scores, labels, t).f2, Metrics(scores, labels, thr).f2)
         ELSE ~Above(Metrics(scores, labels, t).f1, Metrics(scores, labels, thr).f1)

LEMMA FoundKeepsPromise ==
  ASSUME NEW p \in Plans, ValidationEnds(p) # {}, NEW v \in Validations[p],
         NEW labels, labels = [e \in ValidationEnds(p) |-> Labels(p)[e]],
         NEW cuts, cuts = {v.scores[e] : e \in ValidationEnds(p)}
  PROVE  Promised(p, v.scores, labels, cuts, v.found.threshold)
<1> DEFINE ends == ValidationEnds(p)
           scores == v.scores
           C == Tried(scores, p)
           thr == v.found.threshold
           at(t) == Metrics(scores, labels, t)
<1>1. /\ IsFiniteSet(ends) /\ ends # {} /\ scores \in [ends -> Nat]
      /\ v.found = SearchThreshold(scores, labels, p)
  BY ValidationType
<1>2. /\ p.points \in Nat \ {0, 1} /\ p.recall \in Nat \X (Nat \ {0}) /\ p.recall[1] <= p.recall[2]
      /\ p.fpr \in Nat \X (Nat \ {0})
  BY PlanAssumption
<1>3. DOMAIN labels = ends
  OBVIOUS
<1>4. /\ thr \in C
      /\ v.found.metrics = at(thr)
      /\ v.found.met = \E t \in C : Meets(p, at(t))
      /\ v.found.met => Meets(p, at(thr))
      /\ v.found.met => \A u \in C : Meets(p, at(u)) =>
           ~Above(PolicyKey(p.policy, at(u))[1], PolicyKey(p.policy, at(thr))[1])
      /\ ~v.found.met => \A u \in C :
           ~Above(FallbackKey(p.policy, at(u))[1], FallbackKey(p.policy, at(thr))[1])
  <2> HIDE DEF ends, scores
  <2>1. Sought(p, scores, labels, v.found)
    BY <1>1, <1>2, <1>3, SearchFinds
  <2>2. QED
    BY <2>1 DEF Sought
<1>5. /\ C \subseteq Int
      /\ \E low \in C : \A e \in ends : low <= scores[e]
      /\ p.policy = "fpr_constrained_f1" => \E high \in C : \A e \in ends : scores[e] <= high
      /\ /\ Cardinality(cuts) <= p.points
         /\ p.policy = "fpr_constrained_f1" \/ ~AllClose(scores, p.close)
         => C = cuts
  <2>1. cuts = {scores[e] : e \in ends}
    OBVIOUS
  <2> HIDE DEF ends, scores
  <2>2. QED
    BY <1>1, <1>2, <2>1, TriedType
<1>6. cuts \subseteq Nat /\ \A t \in cuts : \E e \in ends : t = scores[e]
  BY <1>1
<1> HIDE DEF ends, scores, C, thr
<1>7. \A t : /\ at(t).f1 \in Fraction /\ at(t).f2 \in Fraction /\ at(t).recall \in Fraction
             /\ at(t).fpr \in Fraction
  BY <1>1, <1>3, MetricsType
<1>8. ASSUME p.policy = "recall_constrained_f1", NEW e \in ends, labels[e] = 1
      PROVE  AtLeast(at(thr).recall, p.recall)
  <2>1. PICK low \in C : \A x \in ends : low <= scores[x]
    BY <1>5
  <2>2. \A x \in DOMAIN labels : scores[x] >= low
    BY <1>1, <1>3, <1>5, <2>1
  <2>3. AtLeast(at(low).recall, p.recall)
    BY <1>1, <1>2, <1>3, <1>8, <2>2, LowestFindsAll
  <2>4. Meets(p, at(low))
    BY <1>8, <2>3 DEF Meets
  <2>5. Meets(p, at(thr))
    BY <1>4, <2>4
  <2>6. QED
    BY <1>8, <2>5 DEF Meets
<1>9. ASSUME p.policy = "fpr_constrained_f1", ~AtLeast(p.fpr, at(thr).fpr), NEW t \in cuts
      PROVE  ~Above(at(thr).fpr, at(t).fpr)
  <2>1. \A x \in Fraction : AtLeast(p.fpr, x) <=> ~Above(x, p.fpr)
    BY <1>2 DEF AtLeast, Above, Fraction
  <2>2. ~Meets(p, at(thr))
    BY <1>7, <1>9, <2>1 DEF Meets
  <2>3. ~v.found.met
    BY <1>4, <2>2
  <2>4. PICK high \in C : \A x \in ends : scores[x] <= high
    BY <1>5, <1>9
  <2>5. t \in Int /\ high \in Int /\ t <= high /\ scores \in [DOMAIN labels -> Int]
    <3>1. PICK x \in ends : t = scores[x]
      BY <1>6
    <3>2. t \in Int /\ high \in Int /\ t <= high
      BY <1>5, <1>6, <2>4, <3>1
    <3>3. scores \in [ends -> Int]
      BY <1>1
    <3>4. QED
      BY <1>3, <3>2, <3>3
  <2>6. ~Above(at(high).fpr, at(t).fpr)
    BY <1>1, <1>3, <2>5, HigherFindsLess
  <2>7. ~Above(<<-at(high).fpr[1], at(high).fpr[2]>>, <<-at(thr).fpr[1], at(thr).fpr[2]>>)
    <3>1. ~Above(FallbackKey(p.policy, at(high))[1], FallbackKey(p.policy, at(thr))[1])
      BY <1>4, <2>3
    <3>2. QED
      BY <1>9, <3>1 DEF FallbackKey
  <2>8. ~Above(at(thr).fpr, at(high).fpr)
    <3>1. PICK a \in Int, b \in Nat \ {0} : at(high).fpr[1] = a /\ at(high).fpr[2] = b
      BY <1>7 DEF Fraction
    <3>2. PICK c \in Int, d \in Nat \ {0} : at(thr).fpr[1] = c /\ at(thr).fpr[2] = d
      BY <1>7 DEF Fraction
    <3>3. ~((-a) * d > (-c) * b)
      BY <2>7, <3>1, <3>2 DEF Above
    <3>4. (-a) * d = -(a * d) /\ (-c) * b = -(c * b) /\ a * d \in Int /\ c * b \in Int
      OBVIOUS
    <3>5. ~(c * b > a * d)
      BY <3>3, <3>4
    <3>6. QED
      BY <3>1, <3>2, <3>5 DEF Above
  <2>9. QED
    BY <1>7, <2>6, <2>8, AboveIsTransitive, AboveIsOrder
<1>10. ASSUME Cardinality(cuts) <= p.points,
              p.policy = "fpr_constrained_f1" \/ ~AllClose(scores, p.close),
              NEW t \in cuts, Meets(p, at(t))
       PROVE  IF p.policy = "f2" THEN ~Above(at(t).f2, at(thr).f2) ELSE ~Above(at(t).f1, at(thr).f1)
  <2>1. t \in C
    BY <1>5, <1>10
  <2>2. v.found.met
    BY <1>4, <1>10, <2>1
  <2>3. ~Above(PolicyKey(p.policy, at(t))[1], PolicyKey(p.policy, at(thr))[1])
    BY <1>4, <1>10, <2>1, <2>2
  <2>4. QED
    BY <2>3 DEF PolicyKey
<1>11. QED
  BY <1>3, <1>8, <1>9, <1>10 DEF Promised, scores, thr

-----------------------------------------------------------------------------
(* The epoch that is kept *)

\* How the difference to one rank says which is above another.
LEMMA MinusAgrees ==
  ASSUME NEW x \in Fraction, NEW y \in Fraction, NEW z \in Fraction,
         NEW d \in Nat \X (Nat \ {0})
  PROVE  /\ ~Above(Minus(x, x), d)
         /\ Above(Minus(x, y), d) /\ ~Above(Minus(z, y), d) => Above(x, z)
         /\ Same(y, z) /\ Above(Minus(x, z), d) => Above(Minus(x, y), d)
<1>1. PICK a \in Int, b \in Nat \ {0} : x[1] = a /\ x[2] = b
  BY DEF Fraction
<1>2. PICK c \in Int, e \in Nat \ {0} : y[1] = c /\ y[2] = e
  BY DEF Fraction
<1>3. PICK f \in Int, g \in Nat \ {0} : z[1] = f /\ z[2] = g
  BY DEF Fraction
<1>4. PICK m \in Nat, n \in Nat \ {0} : d[1] = m /\ d[2] = n
  OBVIOUS
<1>5. ~Above(Minus(x, x), d)
  <2>1. a * b - a * b = 0 /\ b * b \in Nat /\ m * (b * b) >= 0 /\ 0 * n = 0
    OBVIOUS
  <2>2. QED
    BY <1>1, <1>4, <2>1 DEF Above, Minus
<1>6. ASSUME (a * e - c * b) * n > m * (b * e), ~((f * e - c * g) * n > m * (g * e))
      PROVE  a * g > f * b
  <2>1. /\ (a * e - c * b) * n \in Int /\ m * (b * e) \in Int
        /\ (f * e - c * g) * n \in Int /\ m * (g * e) \in Int
    OBVIOUS
  <2>2. ((a * e - c * b) * n) * g > (m * (b * e)) * g
    BY <1>6, <2>1, Scale
  <2>3. ((f * e - c * g) * n) * b <= (m * (g * e)) * b
    BY <1>6, <2>1, Scale
  <2>4. (m * (b * e)) * g = (m * (g * e)) * b
    OBVIOUS
  <2>5. ((a * e - c * b) * n) * g - ((f * e - c * g) * n) * b = (a * g - f * b) * (e * n)
    OBVIOUS
  <2>6. /\ ((a * e - c * b) * n) * g \in Int /\ ((f * e - c * g) * n) * b \in Int
        /\ (m * (b * e)) * g \in Int /\ (m * (g * e)) * b \in Int
    BY <2>1
  <2>7. PICK k \in Int : k = a * g - f * b
    OBVIOUS
  <2>8. PICK h \in Nat : h = e * n
    OBVIOUS
  <2>9. k * h > 0
    BY <2>2, <2>3, <2>4, <2>5, <2>6, <2>7, <2>8
  <2>10. k > 0
    BY <2>9
  <2>11. a * g \in Int /\ f * b \in Int
    OBVIOUS
  <2>12. QED
    BY <2>7, <2>10, <2>11
<1>7. ASSUME c * g = f * e, (a * g - f * b) * n > m * (b * g)
      PROVE  (a * e - c * b) * n > m * (b * e)
  <2>1. /\ (a * e - c * b) * n \in Int /\ m * (b * e) \in Int
        /\ (a * g - f * b) * n \in Int /\ m * (b * g) \in Int
    OBVIOUS
  <2>2. ((a * g - f * b) * n) * e > (m * (b * g)) * e
    BY <1>7, <2>1, Scale
  <2>3. (m * (b * g)) * e = (m * (b * e)) * g
    OBVIOUS
  <2>4. ((a * g - f * b) * n) * e = ((a * e - c * b) * n) * g
    <3>1. (a * g - f * b) * e = (a * e - c * b) * g
      <4>1. (a * g - f * b) * e = (a * e) * g - (f * e) * b
        OBVIOUS
      <4>2. (a * e - c * b) * g = (a * e) * g - (c * g) * b
        OBVIOUS
      <4>3. QED
        BY <1>7, <4>1, <4>2
    <3>2. ((a * g - f * b) * n) * e = ((a * g - f * b) * e) * n
      OBVIOUS
    <3>3. ((a * e - c * b) * n) * g = ((a * e - c * b) * g) * n
      OBVIOUS
    <3>4. QED
      BY <3>1, <3>2, <3>3
  <2>5. QED
    BY <2>1, <2>2, <2>3, <2>4, Scale
<1>8. QED
  BY <1>1, <1>2, <1>3, <1>4, <1>5, <1>6, <1>7 DEF Above, Same, Minus

\* How many components the ranks of a plan have.
RankLength(p) == IF p.metric = "val_f1" THEN 2 ELSE 1

LEMMA RankType ==
  ASSUME NEW p \in Plans, ValidationEnds(p) # {}, NEW v \in Validations[p], NEW loss \in Losses,
         NEW w, w.found = v.found, w.loss = loss
  PROVE  Rank(p, w) \in Keys(RankLength(p))
<1> DEFINE labels == [e \in ValidationEnds(p) |-> Labels(p)[e]]
<1>1. /\ IsFiniteSet(ValidationEnds(p)) /\ v.scores \in [ValidationEnds(p) -> Nat]
      /\ v.found = SearchThreshold(v.scores, labels, p) /\ p.points \in Nat \ {0, 1}
  BY ValidationType, PlanAssumption
<1>2. DOMAIN labels = ValidationEnds(p)
  OBVIOUS
<1> HIDE DEF labels
<1>3. v.found.metrics = Metrics(v.scores, labels, v.found.threshold)
  <2>1. Sought(p, v.scores, labels, v.found)
    BY <1>1, <1>2, SearchFinds
  <2>2. QED
    BY <2>1 DEF Sought
<1>4. /\ w.found.metrics.f1 \in Fraction /\ w.found.metrics.f2 \in Fraction
      /\ w.found.metrics.recall \in Fraction
  BY <1>1, <1>2, <1>3, MetricsType
<1>5. <<-w.loss, 1>> \in Fraction
  <2>1. loss \in Nat
    BY PlanAssumption
  <2>2. QED
    BY <2>1 DEF Fraction
<1>6. \A x, y \in Fraction : <<x, y>> \in Keys(2) /\ <<x>> \in Keys(1)
  BY DEF Keys
<1>7. QED
  BY <1>4, <1>5, <1>6 DEF Rank, RankLength

\* Ranks that agree in the metric are compared by the rest.
LEMMA LexByTail ==
  ASSUME NEW n \in {1, 2}, NEW x \in Keys(n), NEW y \in Keys(n)
  PROVE  LexAbove(x, y) <=> \/ Above(x[1], y[1])
                            \/ Same(x[1], y[1]) /\ LexAbove(Tail(x), Tail(y))
<1>1. CASE n = 1
  <2>1. PICK a \in Fraction, b \in Fraction : x = <<a>> /\ y = <<b>>
    <3>1. x = <<x[1]>> /\ y = <<y[1]>> /\ x[1] \in Fraction /\ y[1] \in Fraction
      BY <1>1 DEF Keys
    <3>2. QED
      BY <3>1
  <2>2. Tail(x) = <<>> /\ DOMAIN x = {1}
    BY <2>1
  <2>3. ~LexAbove(Tail(x), Tail(y))
    BY <2>2 DEF LexAbove
  <2>4. LexAbove(x, y) <=> Above(x[1], y[1])
    BY <2>2 DEF LexAbove
  <2>5. QED
    BY <2>3, <2>4
<1>2. CASE n = 2
  <2>1. PICK a \in Fraction, b \in Fraction, c \in Fraction, d \in Fraction :
          x = <<a, b>> /\ y = <<c, d>>
    <3>1. /\ x = <<x[1], x[2]>> /\ y = <<y[1], y[2]>> /\ x[1] \in Fraction /\ y[1] \in Fraction
          /\ x[2] \in Fraction /\ y[2] \in Fraction
      BY <1>2 DEF Keys
    <3>2. QED
      BY <3>1
  <2>2. /\ Tail(x) = <<b>> /\ Tail(y) = <<d>> /\ DOMAIN Tail(x) = {1} /\ DOMAIN x = {1, 2}
        /\ x[1] = a /\ x[2] = b /\ y[1] = c /\ y[2] = d /\ Tail(x)[1] = b /\ Tail(y)[1] = d
    BY <2>1
  <2>3. LexAbove(Tail(x), Tail(y)) <=> Above(b, d)
    <3>1. 1 .. 1 - 1 = {}
      OBVIOUS
    <3>2. QED
      BY <2>2, <3>1 DEF LexAbove
  <2>4. LexAbove(x, y) <=> Above(a, c) \/ (Same(a, c) /\ Above(b, d))
    <3>1. 1 .. 1 - 1 = {} /\ 1 .. 2 - 1 = {1}
      OBVIOUS
    <3>2. QED
      BY <2>2, <3>1 DEF LexAbove
  <2>5. QED
    BY <2>2, <2>3, <2>4
<1>3. QED
  BY <1>1, <1>2

\* No epoch so far is to be kept rather than the best one.
Unbeaten(rank, other, minDelta) ==
  /\ ~Above(Minus(other[1], rank[1]), minDelta)
  /\ Same(other[1], rank[1]) => ~LexAbove(other, rank)

LEMMA BestIsUnbeaten ==
  ASSUME NEW n \in {1, 2}, NEW b \in Keys(n), NEW r \in Keys(n), NEW h \in Keys(n),
         NEW d \in Nat \X (Nat \ {0}), Unbeaten(b, h, d)
  PROVE  /\ Unbeaten(r, r, d)
         /\ ~RankIsBetter(r, b, d) => Unbeaten(b, r, d)
         /\ RankIsBetter(r, b, d) /\ ~LexAbove(r, h) => Unbeaten(r, h, d)
<1>1. b[1] \in Fraction /\ r[1] \in Fraction /\ h[1] \in Fraction
  BY DEF Keys
<1>2. n \in Nat
  OBVIOUS
<1>3. Unbeaten(r, r, d)
  BY <1>1, <1>2, MinusAgrees, LexIsOrder DEF Unbeaten
<1>4. ASSUME ~RankIsBetter(r, b, d) PROVE Unbeaten(b, r, d)
  <2>1. ~Above(Minus(r[1], b[1]), d) /\ (Same(r[1], b[1]) => ~LexAbove(Tail(r), Tail(b)))
    BY <1>4 DEF RankIsBetter
  <2>2. Same(r[1], b[1]) => ~Above(r[1], b[1])
    BY <1>1, AboveIsOrder
  <2>3. Same(r[1], b[1]) => ~LexAbove(r, b)
    BY <2>1, <2>2, LexByTail
  <2>4. QED
    BY <2>1, <2>3 DEF Unbeaten
<1>5. ASSUME RankIsBetter(r, b, d), ~LexAbove(r, h) PROVE Unbeaten(r, h, d)
  <2>1. ~Above(r[1], h[1])
    BY <1>5, LexByTail
  <2>2. ~Above(Minus(r[1], b[1]), d)
    BY <1>1, <2>1, MinusAgrees DEF Unbeaten
  <2>3. Same(r[1], b[1]) /\ LexAbove(Tail(r), Tail(b))
    BY <1>5, <2>2 DEF RankIsBetter
  <2>4. Same(b[1], r[1])
    BY <1>1, <2>3, AboveIsOrder
  <2>5. ~Above(Minus(h[1], r[1]), d)
    BY <1>1, <2>4, MinusAgrees DEF Unbeaten
  <2>6. LexAbove(r, b)
    BY <2>3, LexByTail
  <2>7. ASSUME Same(h[1], r[1]), LexAbove(h, r) PROVE FALSE
    <3>1. Same(h[1], b[1])
      BY <1>1, <2>3, <2>7, AboveIsTransitive
    <3>2. LexAbove(h, b)
      BY <1>2, <2>6, <2>7, LexIsOrder
    <3>3. QED
      BY <3>1, <3>2 DEF Unbeaten
  <2>8. QED
    BY <2>5, <2>7 DEF Unbeaten
<1>6. QED
  BY <1>3, <1>4, <1>5

LEMMA TrainingInitInv == TrainingInit => TrainingInv
<1> SUFFICES ASSUME TrainingInit PROVE TrainingInv
  OBVIOUS
<1> USE DEF TrainingInit
<1>1. TrainingTypeOK
  BY DEF TrainingTypeOK
<1>2. RanksAreKept /\ CheckpointIsBest
  BY DEF RanksAreKept, CheckpointIsBest
<1>3. QED
  BY <1>1, <1>2 DEF TrainingInv

\* A validation that there is has scores, what was found, and a loss.
LEMMA SomeVal ==
  ASSUME NEW scores, NEW found, NEW loss
  PROVE  [scores |-> scores, found |-> found, loss |-> loss] # NoVal
<1>1. DOMAIN [scores |-> scores, found |-> found, loss |-> loss] # DOMAIN NoVal
  <2>1. /\ "loss" \in DOMAIN [scores |-> scores, found |-> found, loss |-> loss]
        /\ "loss" \notin DOMAIN NoVal
    BY DEF NoVal
  <2>2. QED
    BY <2>1
<1>2. QED
  BY <1>1

\* A checkpoint is there from the first epoch on.
LEMMA SomeBest ==
  ASSUME NEW e, NEW rank, NEW t
  PROVE  [epoch |-> e, rank |-> rank, threshold |-> t] # NoBest
<1>1. /\ "rank" \in DOMAIN [epoch |-> e, rank |-> rank, threshold |-> t]
      /\ "rank" \notin DOMAIN NoBest
  BY DEF NoBest
<1>2. QED
  BY <1>1

LEMMA ValidateInv == TrainingInv /\ Validate => TrainingInv'
<1> SUFFICES ASSUME TrainingInv, Validate PROVE TrainingInv'
  OBVIOUS
<1> USE DEF TrainingInv, Validate
<1>1. PICK v \in Validations[plan], loss \in Losses :
        val' = [scores |-> v.scores, found |-> v.found, loss |-> loss]
  OBVIOUS
<1>2. val' # NoVal
  BY <1>1, SomeVal
<1>3. TrainingTypeOK'
  <2>1. plan' \in Plans /\ ValidationEnds(plan') # {} /\ {epoch', stale'} \subseteq Nat
    BY DEF TrainingTypeOK
  <2>2. QED
    BY <1>1, <2>1 DEF TrainingTypeOK
<1>4. RanksAreKept'
  <2>1. CASE best = NoBest
    BY <1>2, <2>1 DEF RanksAreKept
  <2>2. CASE best # NoBest
    BY <2>2 DEF RanksAreKept
  <2>3. QED
    BY <2>1, <2>2
<1>5. CheckpointIsBest'
  <2> SUFFICES ASSUME best # NoBest PROVE CheckpointIsBest'
    BY DEF CheckpointIsBest
  <2>1. epoch \in Nat /\ epoch' = epoch + 1 /\ epoch' - 1 = epoch
    BY DEF TrainingTypeOK
  <2>2. stale' = epoch' - 1 - best'.epoch
    BY <2>1 DEF CheckpointIsBest
  <2>3. ~KeepsLiveTensors' => best_state' = best'.epoch
    BY DEF CheckpointIsBest, KeepsLiveTensors
  <2>4. QED
    BY <1>2, <2>2, <2>3 DEF CheckpointIsBest
<1>6. QED
  BY <1>3, <1>4, <1>5

LEMMA SelectInv == TrainingInv /\ Select => TrainingInv'
<1> SUFFICES ASSUME TrainingInv, Select PROVE TrainingInv'
  OBVIOUS
<1> USE DEF TrainingInv
<1>1. PICK v \in Validations[plan], loss \in Losses :
        val = [scores |-> v.scores, found |-> v.found, loss |-> loss]
  BY DEF Select, TrainingTypeOK
<1>2. PICK rank : rank = Rank(plan, val)
  OBVIOUS
<1>3. PICK n \in {1, 2} : n = RankLength(plan)
  BY DEF RankLength
<1>4. /\ plan \in Plans /\ ValidationEnds(plan) # {} /\ epoch \in Nat /\ stale \in Nat
      /\ plan.minDelta \in Nat \X (Nat \ {0}) /\ plan.patience \in Nat \ {0}
  BY PlanAssumption DEF TrainingTypeOK
<1>5. rank = Rank(plan, [found |-> v.found, loss |-> loss]) /\ rank \in Keys(n)
  <2>1. rank = Rank(plan, [found |-> v.found, loss |-> loss])
    BY <1>1, <1>2 DEF Rank
  <2>2. QED
    BY <1>3, <1>4, <2>1, RankType
<1>6. best # NoBest => best.rank \in Keys(n) /\ top \in Keys(n) /\ best.epoch \in Nat
  <2> SUFFICES ASSUME best # NoBest PROVE best.rank \in Keys(n) /\ top \in Keys(n) /\ best.epoch \in Nat
    OBVIOUS
  <2>1. \A r \in {best.rank, top} : r \in Keys(n)
    BY <1>3, <1>4, RankType DEF RanksAreKept
  <2>2. QED
    BY <2>1 DEF RanksAreKept
<1>7. PICK better \in BOOLEAN : better = (best = NoBest \/ RankIsBetter(rank, best.rank, plan.minDelta))
  OBVIOUS
<1>8. /\ best' = IF better THEN Checkpoint(rank) ELSE best
      /\ best_state' = IF better THEN epoch ELSE best_state
      /\ stale' = IF better THEN 0 ELSE stale + 1
      /\ training' = Ended(stale')
      /\ top' = IF top = <<>> \/ LexAbove(rank, top) THEN rank ELSE top
      /\ val' = NoVal /\ plan' = plan /\ epoch' = epoch /\ val # NoVal
  BY <1>2, <1>7 DEF Select
<1>9. best' # NoBest
  BY <1>7, <1>8, SomeBest DEF Checkpoint
<1>10. TrainingTypeOK'
  BY <1>4, <1>8 DEF TrainingTypeOK
<1>11. best'.epoch = (IF better THEN epoch ELSE best.epoch)
       /\ best'.rank = (IF better THEN rank ELSE best.rank)
  BY <1>8 DEF Checkpoint
<1>12. top' \in {rank, top} /\ (top = <<>> => top' = rank)
  BY <1>8
<1>13. RanksAreKept'
  <2>1. best'.epoch \in Nat
    BY <1>4, <1>6, <1>7, <1>11
  <2>2. \A r \in {best'.rank, top'} : \E w \in Validations[plan], l \in Losses :
          r = Rank(plan, [found |-> w.found, loss |-> l])
    <3>1. \E w \in Validations[plan], l \in Losses : rank = Rank(plan, [found |-> w.found, loss |-> l])
      BY <1>5
    <3>2. CASE best = NoBest
      <4>1. best'.rank = rank /\ top' = rank
        BY <1>7, <1>11, <1>12, <3>2 DEF RanksAreKept
      <4>2. QED
        BY <3>1, <4>1
    <3>3. CASE best # NoBest
      <4>1. best'.rank \in {rank, best.rank} /\ top' \in {rank, top}
        BY <1>11, <1>12
      <4>2. \A r \in {best.rank, top} : \E w \in Validations[plan], l \in Losses :
              r = Rank(plan, [found |-> w.found, loss |-> l])
        BY <3>3 DEF RanksAreKept
      <4>3. QED
        BY <3>1, <4>1, <4>2
    <3>4. QED
      BY <3>2, <3>3
  <2>3. QED
    BY <1>8, <1>9, <2>1, <2>2 DEF RanksAreKept
<1>14. Unbeaten(best'.rank, top', plan.minDelta)
  <2>1. CASE best = NoBest
    <3>1. best'.rank = rank /\ top' = rank
      BY <1>7, <1>11, <1>12, <2>1 DEF RanksAreKept
    <3>2. Unbeaten(rank, rank, plan.minDelta)
      <4>1. rank[1] \in Fraction /\ n \in Nat
        BY <1>5 DEF Keys
      <4>2. QED
        BY <1>4, <1>5, <4>1, MinusAgrees, LexIsOrder DEF Unbeaten
    <3>3. QED
      BY <3>1, <3>2
  <2>2. CASE best # NoBest
    <3>1. Unbeaten(best.rank, top, plan.minDelta)
      BY <2>2 DEF CheckpointIsBest, Unbeaten
    <3>2. /\ Unbeaten(rank, rank, plan.minDelta)
          /\ ~RankIsBetter(rank, best.rank, plan.minDelta) => Unbeaten(best.rank, rank, plan.minDelta)
          /\ RankIsBetter(rank, best.rank, plan.minDelta) /\ ~LexAbove(rank, top) =>
               Unbeaten(rank, top, plan.minDelta)
      BY <1>4, <1>5, <1>6, <2>2, <3>1, BestIsUnbeaten
    <3>3. top # <<>>
      <4>1. DOMAIN top = 1 .. n /\ 1 \in 1 .. n
        BY <1>6, <2>2 DEF Keys
      <4>2. QED
        BY <4>1
    <3>4. QED
      BY <1>7, <1>8, <1>11, <2>2, <3>1, <3>2, <3>3
  <2>3. QED
    BY <2>1, <2>2
<1>15. stale' = epoch' - best'.epoch
  <2>1. CASE better
    BY <1>4, <1>8, <1>11, <2>1
  <2>2. CASE ~better
    <3>1. best # NoBest
      BY <1>7, <2>2
    <3>2. stale = epoch - 1 - best.epoch /\ best.epoch \in Nat
      BY <1>6, <1>8, <3>1 DEF CheckpointIsBest
    <3>3. QED
      BY <1>4, <1>8, <1>11, <2>2, <3>2
  <2>3. QED
    BY <2>1, <2>2
<1>16. training' = "ended" =>
         epoch' = plan'.epochs \/ (epoch' >= plan'.warmup /\ epoch' - best'.epoch >= plan'.patience)
  BY <1>8, <1>15 DEF Ended, EndsEarly
<1>17. CheckpointIsBest'
  <2>1. ~KeepsLiveTensors' => best_state' = best'.epoch
    <3>1. KeepsLiveTensors' <=> KeepsLiveTensors
      BY <1>8 DEF KeepsLiveTensors
    <3>2. CASE better
      BY <1>8, <1>11, <3>2
    <3>3. CASE ~better
      BY <1>7, <1>8, <1>11, <3>1, <3>3 DEF CheckpointIsBest
    <3>4. QED
      BY <3>2, <3>3
  <2>2. QED
    BY <1>8, <1>14, <1>15, <1>16, <2>1 DEF CheckpointIsBest, Unbeaten
<1>18. QED
  BY <1>10, <1>13, <1>17

LEMMA TrainingInvCorrect == TrainingSpec => []TrainingInv
<1>1. TrainingInit => TrainingInv
  BY TrainingInitInv
<1>2. TrainingInv /\ [TrainingNext]_trainingVars => TrainingInv'
  <2>1. CASE UNCHANGED trainingVars
    BY <2>1 DEF trainingVars, TrainingInv, TrainingTypeOK, RanksAreKept, CheckpointIsBest,
           KeepsLiveTensors
  <2>2. QED
    BY <2>1, ValidateInv, SelectInv DEF TrainingNext
<1>3. QED
  BY <1>1, <1>2, PTL DEF TrainingSpec

\* The epoch that is kept is the best one, up to min_delta, and training ends early
\* only after the whole patience: for any data, any losses and any length.  What is
\* kept of it are its own weights wherever they are copied.
THEOREM CheckpointsAreBest == TrainingSpec => []CheckpointIsBest
<1>1. TrainingInv => CheckpointIsBest
  BY DEF TrainingInv
<1>2. QED
  BY <1>1, TrainingInvCorrect, PTL

\* The threshold that is found keeps what its policy promises on the windows of the
\* validation, and training on recorded episodes sees no sample of these but for the
\* only episode of its kind under the tail split: for either split.
THEOREM ThresholdsKeepTheirPromise == TrainingSpec => []ThresholdKeepsPromise
<1>1. TrainingInv => ThresholdKeepsPromise
  <2> SUFFICES ASSUME TrainingTypeOK, val # NoVal PROVE ThresholdKeepsPromise
    BY DEF TrainingInv, ThresholdKeepsPromise
  <2>1. PICK v \in Validations[plan] : val.scores = v.scores /\ val.found = v.found
    BY DEF TrainingTypeOK
  <2>2. plan \in Plans /\ ValidationEnds(plan) # {}
    BY DEF TrainingTypeOK
  <2> DEFINE ends == ValidationEnds(plan)
             labels == [e \in ends |-> Labels(plan)[e]]
             cuts == {val.scores[e] : e \in ends}
             thr == val.found.threshold
             at == [t \in cuts \cup {thr} |-> Metrics(val.scores, labels, t)]
             allowed(t) ==
               /\ plan.policy = "recall_constrained_f1" => AtLeast(at[t].recall, plan.recall)
               /\ plan.policy = "fpr_constrained_f1" => AtLeast(plan.fpr, at[t].fpr)
             score(t) == IF plan.policy = "f2" THEN at[t].f2 ELSE at[t].f1
  <2>3. Promised(plan, val.scores, labels, cuts, thr)
    <3>1. cuts = {v.scores[e] : e \in ends} /\ thr = v.found.threshold
      BY <2>1
    <3> HIDE DEF cuts, thr
    <3>2. Promised(plan, v.scores, labels, cuts, v.found.threshold)
      BY <2>2, <3>1, FoundKeepsPromise
    <3>3. QED
      BY <2>1, <3>1, <3>2
  <2>4. \A t \in cuts \cup {thr} : at[t] = Metrics(val.scores, labels, t)
    OBVIOUS
  <2>5. \A t \in cuts : allowed(t) => Meets(plan, at[t])
    <3> SUFFICES ASSUME NEW t \in cuts, allowed(t) PROVE Meets(plan, at[t])
      OBVIOUS
    <3>1. at[t] = Metrics(val.scores, labels, t)
      BY <2>4
    <3>2. IsFiniteSet(DOMAIN labels)
      BY <2>1, <2>2, ValidationType
    <3>3. at[t].fpr \in Fraction
      BY <3>1, <3>2, MetricsType
    <3>4. plan.fpr \in Nat \X (Nat \ {0})
      BY <2>2, PlanAssumption
    <3>5. AtLeast(plan.fpr, at[t].fpr) => ~Above(at[t].fpr, plan.fpr)
      BY <3>3, <3>4 DEF AtLeast, Above, Fraction
    <3>6. QED
      BY <3>5 DEF Meets
  <2>6. plan.trainer = "real" => \A e \in ends, used \in TrainingEnds(plan) :
          \/ WindowOf(e, plan.window) \cap WindowOf(used, plan.window) = {}
          \/ IsShared(plan, plan.episode[e]) /\ plan.episode[used] = plan.episode[e]
    BY <2>2, WindowsAreApart
  <2> HIDE DEF at
  <2>7. /\ plan.policy = "recall_constrained_f1" /\ (\E e \in ends : labels[e] = 1) => allowed(thr)
        /\ plan.policy = "fpr_constrained_f1" =>
             allowed(thr) \/ \A t \in cuts : ~Above(at[thr].fpr, at[t].fpr)
        /\ Cardinality(cuts) <= plan.points
           /\ (plan.policy = "fpr_constrained_f1" \/ ~AllClose(val.scores, plan.close)) =>
             \A t \in cuts : allowed(t) => ~Above(score(t), score(thr))
    <3>0. DOMAIN labels = ends
      OBVIOUS
    <3> HIDE DEF cuts, labels, thr
    <3>1. thr \in cuts \cup {thr}
      OBVIOUS
    <3>2. QED
      BY <2>3, <2>4, <2>5, <3>0, <3>1 DEF Promised
  <2>8. QED
    BY <2>6, <2>7 DEF ThresholdKeepsPromise, at
<1>2. QED
  BY <1>1, TrainingInvCorrect, PTL

-----------------------------------------------------------------------------
(* qwen_box_selector_node: the box that is selected *)

\* A topic that is full forgets its oldest message.
LEMMA QueuedType ==
  ASSUME NEW S, NEW s \in Seq(S), NEW e \in S
  PROVE  Queued(s, e) \in Seq(S)
<1>1. CASE Len(s) < QueueDepth
  BY <1>1 DEF Queued
<1>2. CASE ~(Len(s) < QueueDepth)
  <2>1. s # <<>>
    BY <1>2, SelectorAssumption
  <2>2. Tail(s) \in Seq(S)
    BY <2>1
  <2>3. QED
    BY <1>2, <2>2 DEF Queued
<1>3. QED
  BY <1>1, <1>2

\* The key of a box is a number, and the one that beats another has the smaller one.
LEMMA KeyAgrees ==
  ASSUME NEW command, NEW a \in Box, NEW b \in Box
  PROVE  /\ Key(command.spatial, a) \in Int
         /\ Beats(command, a, b) => Key(command.spatial, a) < Key(command.spatial, b)
<1>1. Middle \in Int /\ Infinity \in Nat
  BY SelectorAssumption
<1>2. PICK x \in Int : x = a.at - Middle
  BY <1>1 DEF Box
<1>3. PICK y \in Int : y = b.at - Middle
  BY <1>1 DEF Box
<1>4. /\ a.at \in Int /\ b.at \in Int /\ a.area \in Int /\ b.area \in Int
      /\ a.z \in Nat /\ b.z \in Nat /\ a.z < Infinity /\ b.z < Infinity
  BY <1>1 DEF Box
<1>5. PICK c : c = command.spatial
  OBVIOUS
<1>6. CASE c = "nearest"
  <2>1. Key(c, a) = Or(a.z, Infinity) /\ Key(c, b) = Or(b.z, Infinity)
    BY <1>6 DEF Key
  <2>2. Or(a.z, Infinity) \in Int /\ (a.z # 0 => Or(a.z, Infinity) = a.z)
    BY <1>1, <1>4 DEF Or
  <2>3. Or(b.z, Infinity) = IF b.z = 0 THEN Infinity ELSE b.z
    BY DEF Or
  <2>4. Beats(command, a, b) => a.z # 0 /\ (b.z = 0 \/ a.z < b.z)
    BY <1>5, <1>6 DEF Beats
  <2>5. QED
    BY <1>4, <1>5, <2>1, <2>2, <2>3, <2>4
<1>7. CASE c = "farthest"
  <2>1. Key(c, a) = -Or(a.z, -Infinity) /\ Key(c, b) = -Or(b.z, -Infinity)
    BY <1>7 DEF Key
  <2>2. PICK m \in Int : m = -Infinity /\ -m = Infinity
    BY <1>1
  <2>3. Or(a.z, m) \in Int /\ (a.z # 0 => Or(a.z, m) = a.z)
    BY <1>4, <2>2 DEF Or
  <2>4. Or(b.z, m) = (IF b.z = 0 THEN m ELSE b.z) /\ Or(b.z, m) \in Int
    BY <1>4, <2>2 DEF Or
  <2>5. Beats(command, a, b) => a.z # 0 /\ (b.z = 0 \/ a.z > b.z)
    BY <1>5, <1>7 DEF Beats
  <2>6. Beats(command, a, b) => -Or(a.z, m) < -Or(b.z, m)
    BY <1>4, <2>2, <2>3, <2>4, <2>5
  <2>7. QED
    BY <1>5, <2>1, <2>2, <2>3, <2>6
<1>8. CASE c = "center"
  <2>1. /\ Key(c, a) = IF x < 0 THEN -x ELSE x
        /\ Key(c, b) = IF y < 0 THEN -y ELSE y
    BY <1>2, <1>3, <1>8 DEF Key
  <2>2. PICK p \in Nat : p = Key(c, a) /\ p * p = x * x
    <3>1. (-x) * (-x) = x * x
      OBVIOUS
    <3>2. QED
      BY <2>1, <3>1
  <2>3. PICK q \in Nat : q = Key(c, b) /\ q * q = y * y
    <3>1. (-y) * (-y) = y * y
      OBVIOUS
    <3>2. QED
      BY <2>1, <3>1
  <2>4. q <= p => q * q <= p * p
    OBVIOUS
  <2>5. Beats(command, a, b) => x * x < y * y
    BY <1>2, <1>3, <1>5, <1>8 DEF Beats
  <2>6. x * x \in Int /\ y * y \in Int
    OBVIOUS
  <2>7. QED
    BY <1>5, <2>2, <2>3, <2>4, <2>5, <2>6
<1>9. CASE c \notin {"nearest", "farthest", "center"}
  <2>1. /\ Key(c, a) = IF c = "left" THEN a.at ELSE IF c = "right" THEN -a.at ELSE -a.area
        /\ Key(c, b) = IF c = "left" THEN b.at ELSE IF c = "right" THEN -b.at ELSE -b.area
    BY <1>9 DEF Key
  <2>2. Beats(command, a, b) =>
          IF c = "left" THEN a.at < b.at ELSE IF c = "right" THEN a.at > b.at ELSE a.area > b.area
    BY <1>5, <1>9 DEF Beats
  <2>3. QED
    BY <1>4, <1>5, <2>1, <2>2
<1>10. QED
  BY <1>6, <1>7, <1>8, <1>9

\* The box that is selected is one of the candidates, and no candidate has a smaller key.
LEMMA SelectedIsBest ==
  ASSUME NEW found \in Seq(Box), NEW among \in SUBSET DOMAIN found, among # {}, NEW command
  PROVE  \E i \in among :
           /\ Selected(command.spatial, found, among) = found[i]
           /\ \A j \in among : ~Beats(command, found[j], found[i])
<1> DEFINE key == [k \in among |-> Key(command.spatial, found[k])]
           first == CHOOSE i \in among : \A j \in among :
                      key[i] < key[j] \/ (key[i] = key[j] /\ i <= j)
<1>1. Selected(command.spatial, found, among) = found[first]
  BY DEF Selected
<1>2. \A k \in among : found[k] \in Box
  BY ElementOf
<1>3. among \in SUBSET Int /\ IsFiniteSet(among)
  <2>1. DOMAIN found = 1 .. Len(found) /\ Len(found) \in Int
    OBVIOUS
  <2>2. IsFiniteSet(1 .. Len(found))
    BY <2>1, FS_Interval
  <2>3. QED
    BY <2>1, <2>2, FS_Subset
<1>4. key \in [among -> Int]
  BY <1>2, KeyAgrees
<1>5. \A k \in among : key[k] = Key(command.spatial, found[k])
  OBVIOUS
<1> HIDE DEF key
<1>6. PICK i \in among : \A j \in among \ {i} : Before(key, i, j)
  BY <1>3, <1>4, LeastExists
<1>7. \A j \in among : key[i] < key[j] \/ (key[i] = key[j] /\ i <= j)
  <2> TAKE j \in among
  <2>1. CASE j = i
    BY <1>3, <2>1
  <2>2. CASE j # i
    <3>1. Before(key, i, j)
      BY <1>6, <2>2
    <3>2. i \in Int /\ j \in Int
      BY <1>3
    <3>3. QED
      BY <3>1, <3>2 DEF Before
  <2>3. QED
    BY <2>1, <2>2
<1>8. first \in among /\ \A j \in among : key[first] < key[j] \/ (key[first] = key[j] /\ first <= j)
  BY <1>7
<1> HIDE DEF first
<1>9. ASSUME NEW j \in among, Beats(command, found[j], found[first]) PROVE FALSE
  <2>1. key[j] < key[first]
    BY <1>2, <1>5, <1>8, <1>9, KeyAgrees
  <2>2. key[j] \in Int /\ key[first] \in Int
    BY <1>4, <1>8
  <2>3. QED
    BY <1>8, <2>1, <2>2
<1>10. QED
  BY <1>1, <1>8, <1>9

\* What is published answers the command that was parsed last.
LEMMA PublishedAnswers ==
  ASSUME PublishSelection, seen' \in Sightings \cup {Nothing}
  PROVE  SelectionAnswersCommand'
<1>1. CASE seen' = Nothing
  <2>1. selected' = [found |-> FALSE, of |-> parsed']
    BY <1>1 DEF PublishSelection
  <2>2. selected'.of = parsed' /\ ~selected'.found
    BY <2>1
  <2>3. QED
    BY <1>1, <2>2 DEF SelectionAnswersCommand
<1>2. CASE seen' # Nothing
  <2>1. PICK found \in Seq(Box) : found = seen'.boxes
    BY <1>2 DEF Sightings
  <2>2. PICK among \in SUBSET DOMAIN found : among = Matching(parsed', found)
    BY DEF Matching
  <2>3. \A k \in DOMAIN found : k \in among <=> Fits(parsed', found[k])
    BY <2>2 DEF Matching, Fits
  <2>4. CASE among = {}
    <3>1. selected' = [found |-> FALSE, of |-> parsed']
      BY <2>1, <2>2, <2>4 DEF PublishSelection
    <3>2. selected'.of = parsed' /\ ~selected'.found
      BY <3>1
    <3>3. \A k \in DOMAIN seen'.boxes : ~Fits(parsed', seen'.boxes[k])
      BY <2>1, <2>3, <2>4
    <3>4. QED
      BY <3>2, <3>3 DEF SelectionAnswersCommand
  <2>5. CASE among # {}
    <3>1. PICK i \in among :
            /\ Selected(parsed'.spatial, found, among) = found[i]
            /\ \A j \in among : ~Beats(parsed', found[j], found[i])
      BY <2>5, SelectedIsBest
    <3>2. selected' = [found |-> TRUE, of |-> parsed', box |-> found[i]]
      BY <1>2, <2>1, <2>2, <2>5, <3>1 DEF PublishSelection
    <3>3. selected'.of = parsed' /\ selected'.found /\ selected'.box = found[i]
      BY <3>2
    <3>4. i \in DOMAIN found /\ Fits(parsed', found[i])
      BY <2>3
    <3>5. \A k \in DOMAIN found : Fits(parsed', found[k]) => ~Beats(parsed', found[k], found[i])
      BY <2>3, <3>1
    <3>6. QED
      BY <1>2, <2>1, <3>3, <3>4, <3>5 DEF SelectionAnswersCommand
  <2>6. QED
    BY <2>4, <2>5
<1>3. QED
  BY <1>1, <1>2

LEMMA SelectorStep ==
  ASSUME SelectorInv, [SelectorNext \/ Arrives]_selectorVars
  PROVE  SelectorInv'
<1> USE DEF SelectorInv
<1>1. CASE OnBoxes
  <2>1. Head(boxes) \in Sightings /\ Tail(boxes) \in Seq(Sightings)
    BY <1>1 DEF OnBoxes, SelectorTypeOK
  <2>2. SelectorTypeOK'
    BY <1>1, <2>1 DEF OnBoxes, SelectorTypeOK
  <2>3. CASE parsed # Nothing
    BY <1>1, <2>2, <2>3, PublishedAnswers DEF OnBoxes, SelectorTypeOK
  <2>4. CASE parsed = Nothing
    <3>1. parsed' = Nothing
      BY <1>1, <2>4 DEF OnBoxes
    <3>2. SelectionAnswersCommand'
      BY <3>1 DEF SelectionAnswersCommand
    <3>3. QED
      BY <2>2, <3>2
  <2>5. QED
    BY <2>2, <2>3, <2>4
<1>2. CASE Ask
  <2>1. Head(commands) \in Readings /\ Tail(commands) \in Seq(Readings)
    BY <1>2 DEF Ask, SelectorTypeOK
  <2>2. QED
    BY <1>2, <2>1 DEF Ask, SelectorTypeOK, SelectionAnswersCommand
<1>3. ASSUME NEW reading \in Readings, Parse(reading) PROVE SelectorInv'
  <2>1. parsed' = NormalizeParsed(reading, asking) /\ asking' = Nothing /\ seen' = seen
        /\ commands' = commands /\ boxes' = boxes /\ PublishSelection
    BY <1>3 DEF Parse
  <2>2. parsed'.color \in Colors \cup {Nothing} /\ parsed'.spatial \in Spatials
    <3>1. reading.color \in Colors \cup {Nothing} /\ reading.spatial \in Spatials \cup {Nothing}
      BY DEF Readings
    <3>2. QED
      BY <2>1, <3>1, SelectorAssumption DEF NormalizeParsed
  <2>3. SelectorTypeOK'
    BY <2>1, <2>2 DEF SelectorTypeOK
  <2>4. SelectionAnswersCommand'
    BY <2>1, <2>3, PublishedAnswers DEF SelectorTypeOK
  <2>5. QED
    BY <2>3, <2>4
<1>4. CASE AnswerComes
  BY <1>3, <1>4, SelectorAssumption DEF AnswerComes
<1>5. CASE FallBack
  <2>1. asking \in Readings
    BY <1>5 DEF FallBack, Parse, SelectorTypeOK
  <2>2. QED
    BY <1>3, <1>5, <2>1 DEF FallBack
<1>6. CASE ConnectionBreaks
  BY <1>6 DEF ConnectionBreaks, SelectorTypeOK, SelectionAnswersCommand
<1>7. CASE Arrives
  <2>1. boxes' \in Seq(Sightings) /\ commands' \in Seq(Readings)
    BY <1>7, QueuedType DEF Arrives, SelectorTypeOK
  <2>2. QED
    BY <1>7, <2>1 DEF Arrives, SelectorTypeOK, SelectionAnswersCommand
<1>8. CASE UNCHANGED selectorVars
  BY <1>8 DEF selectorVars, SelectorTypeOK, SelectionAnswersCommand
<1>9. QED
  BY <1>1, <1>2, <1>4, <1>5, <1>6, <1>7, <1>8 DEF SelectorNext

\* A selection answers the command that was parsed last with the best of the boxes
\* received last: for any commands, boxes and answers of the language model.
THEOREM SelectionsAnswer == SelectorSpec => []SelectionAnswersCommand
<1>1. SelectorInit => SelectorInv
  BY DEF SelectorInit, SelectorInv, SelectorTypeOK, SelectionAnswersCommand
<1>2. SelectorInv => SelectionAnswersCommand
  BY DEF SelectorInv
<1>3. QED
  BY <1>1, <1>2, SelectorStep, PTL DEF SelectorSpec

-----------------------------------------------------------------------------
(* box_pose_node: what is detected, in the order in which it is wanted *)

\* What is sorted by size is what was to be sorted.
LEMMA SortedBySize ==
  ASSUME NEW items, DOMAIN items \in SUBSET Int, IsFiniteSet(DOMAIN items),
         \A i \in DOMAIN items : items[i] \in Contours
  PROVE  Sorted(items, LAMBDA one, two : one.area > two.area) \in Seq(Contours)
<1> DEFINE D == DOMAIN items
           n == Cardinality(D)
           first(i, j) == \/ items[i].area > items[j].area
                          \/ ~(items[j].area > items[i].area) /\ i < j
           R == {ij \in D \X D : first(ij[1], ij[2])}
           at(k) == CHOOSE i \in D : Cardinality({j \in D : first(j, i)}) + 1 = k
           sorted == [k \in 1 .. n |-> items[at(k)]]
<1>1. Sorted(items, LAMBDA one, two : one.area > two.area) = sorted
  BY DEF Sorted
<1>2. \A i \in D : i \in Int /\ items[i].area \in Int
  BY DEF Contours
<1>3. Orders(R, D)
  BY <1>2 DEF Orders
<1>4. \A i \in D : {j \in D : first(j, i)} = {j \in D : <<j, i>> \in R}
  OBVIOUS
<1>5. ASSUME NEW k \in 1 .. n PROVE at(k) \in D
  <2>1. at(k) = Nth(R, D, k)
    BY <1>4 DEF Nth
  <2> HIDE DEF R, at
  <2>2. QED
    BY <1>3, <2>1, PlaceIsTaken
<1>6. n \in Nat
  BY FS_CardinalityType
<1> HIDE DEF n, at, R
<1>7. sorted \in Seq(Contours)
  BY <1>5, <1>6
<1>8. QED
  BY <1>1, <1>7

\* Every box that is published is one that was to be sorted.
LEMMA SortedBoxes ==
  ASSUME NEW items, DOMAIN items \in SUBSET Int, IsFiniteSet(DOMAIN items),
         \A i \in DOMAIN items : /\ items[i].color \in {"red", "green", "blue"}
                                 /\ items[i].at \in Int /\ items[i].area \in Int,
         NEW k \in DOMAIN Sorted(items, SortsBefore)
  PROVE  \E i \in DOMAIN items : Sorted(items, SortsBefore)[k] = items[i]
<1> DEFINE D == DOMAIN items
           n == Cardinality(D)
           first(i, j) == \/ SortsBefore(items[i], items[j])
                          \/ ~SortsBefore(items[j], items[i]) /\ i < j
           R == {ij \in D \X D : first(ij[1], ij[2])}
           at(m) == CHOOSE i \in D : Cardinality({j \in D : first(j, i)}) + 1 = m
           sorted == [m \in 1 .. n |-> items[at(m)]]
           hue == [i \in D |-> ColorOrder[items[i].color]]
           place == [i \in D |-> items[i].at]
           size == [i \in D |-> items[i].area]
<1>1. Sorted(items, SortsBefore) = sorted
  BY DEF Sorted
<1>2. ASSUME NEW i \in D PROVE i \in Int /\ hue[i] \in Int /\ place[i] \in Int /\ size[i] \in Int
  BY DEF ColorOrder
<1>3. ASSUME NEW i \in D, NEW j \in D
      PROVE  items[i].color = items[j].color <=> hue[i] = hue[j]
  BY DEF ColorOrder
<1>4. ASSUME NEW i \in D, NEW j \in D
      PROVE  SortsBefore(items[i], items[j]) <=>
               IF camera.sortBy = "area" THEN size[i] > size[j]
               ELSE IF camera.sortBy = "color" /\ hue[i] # hue[j] THEN hue[i] < hue[j]
                    ELSE place[i] < place[j]
  BY <1>3 DEF SortsBefore
<1> DEFINE before(i, j) == IF camera.sortBy = "area" THEN size[i] > size[j]
                         ELSE IF camera.sortBy = "color" /\ hue[i] # hue[j] THEN hue[i] < hue[j]
                              ELSE place[i] < place[j]
<1>5. \A i, j \in D : <<i, j>> \in R <=> before(i, j) \/ (~before(j, i) /\ i < j)
  <2> HIDE DEF hue, place, size
  <2>1. QED
    BY <1>4
<1>6. \A i \in D : {j \in D : first(j, i)} = {j \in D : <<j, i>> \in R}
  OBVIOUS
<1> HIDE DEF R, first, hue, place, size
<1>7. Orders(R, D)
  <2>1. CASE camera.sortBy = "area"
    BY <1>2, <1>5, <2>1 DEF Orders
  <2>2. CASE camera.sortBy = "color"
    BY <1>2, <1>5, <2>2 DEF Orders
  <2>3. CASE camera.sortBy # "area" /\ camera.sortBy # "color"
    BY <1>2, <1>5, <2>3 DEF Orders
  <2>4. QED
    BY <2>1, <2>2, <2>3
<1>8. ASSUME NEW m \in 1 .. n PROVE at(m) \in D
  <2>1. at(m) = Nth(R, D, m)
    BY <1>6 DEF Nth
  <2> HIDE DEF at
  <2>2. QED
    BY <1>7, <2>1, PlaceIsTaken
<1> HIDE DEF at, n
<1>9. k \in 1 .. n /\ Sorted(items, SortsBefore)[k] = items[at(k)]
  BY <1>1
<1>10. QED
  BY <1>8, <1>9

-----------------------------------------------------------------------------
\* The greatest of the first k numbers is the last of them.
LEMMA LastIsGreatest ==
  ASSUME NEW k \in Nat \ {0}
  PROVE  Max(1 .. k) = k /\ (1 .. k) \ {Max(1 .. k)} = 1 .. k - 1
<1>1. \A x \in 1 .. k : (\A y \in 1 .. k : x >= y) => x = k
  <2> TAKE x \in 1 .. k
  <2>1. k \in 1 .. k
    OBVIOUS
  <2>2. QED
    BY <2>1
<1>2. k \in 1 .. k /\ \A y \in 1 .. k : k >= y
  OBVIOUS
<1>3. Max(1 .. k) = k
  BY <1>1, <1>2 DEF Max
<1>4. QED
  BY <1>3

LEMMA UpToIsPart ==
  ASSUME NEW n \in Nat, NEW k \in 1 .. n
  PROVE  1 .. k \in SUBSET (1 .. n) /\ 1 .. k # {}
<1>1. k \in 1 .. k
  OBVIOUS
<1>2. \A x \in 1 .. k : x \in 1 .. n
  OBVIOUS
<1>3. QED
  BY <1>1, <1>2

LEMMA GreatestIsIn ==
  ASSUME NEW n \in Nat, NEW U \in SUBSET (1 .. n), U # {}
  PROVE  Max(U) \in U
<1>1. U \in SUBSET Int
  OBVIOUS
<1>2. IsFiniteSet(U)
  <2>1. PICK S : S = 1 .. n
    OBVIOUS
  <2>2. IsFiniteSet(S) /\ U \in SUBSET S
    BY <2>1, UpToIsFinite
  <2>3. QED
    BY <2>2, FS_Subset
<1>3. PICK high \in U : \A y \in U : y <= high
  BY <1>1, <1>2, EndsExist
<1>4. \A y \in U : high >= y
  BY <1>1, <1>3
<1>5. QED
  BY <1>4 DEF Max

\* A fold over the first n numbers that takes the greatest first.
FoldsLeft(n, V, base, op, f) ==
  /\ f \in [SUBSET (1 .. n) -> V]
  /\ \A U \in SUBSET (1 .. n) :
       f[U] = IF U = {} THEN base ELSE op[<<Max(U), f[U \ {Max(U)}]>>]

LEMMA LeftFoldExists ==
  ASSUME NEW n \in Nat, NEW V, NEW base \in V, NEW op \in [(1 .. n) \X V -> V]
  PROVE  \E f : FoldsLeft(n, V, base, op, f)
<1> DEFINE pick == [U \in SUBSET (1 .. n) |-> Max(U)]
<1>1. Picks(1 .. n, pick)
  BY GreatestIsIn DEF Picks
<1>2. IsFiniteSet(1 .. n)
  BY UpToIsFinite
<1>3. \A U \in SUBSET (1 .. n) : pick[U] = Max(U)
  OBVIOUS
<1> HIDE DEF pick
<1>4. PICK f : Folds(1 .. n, V, base, op, pick, f)
  BY <1>1, <1>2, FoldExists
<1>5. QED
  BY <1>3, <1>4 DEF Folds, FoldsLeft

\* What is detected is what was accepted.
LEMMA DetectedType ==
  ASSUME NEW image \in Seq(Contours), NEW masked
  PROVE  Detected(image, masked) \in Seq(Contours)
<1> DEFINE accepted == [i \in {i \in DOMAIN image : Accepted(image[i], masked)} |-> image[i]]
           seq == Sorted(accepted, LAMBDA one, two : one.area > two.area)
           n == Len(seq)
           V == Seq(Contours)
           Go(found, contour) ==
             IF \/ Len(found) >= camera.maxBoxes
                \/ \E k \in DOMAIN found : Overlap(contour, found[k])
             THEN found ELSE Append(found, contour)
           op == [kv \in (1 .. n) \X V |-> Go(kv[2], seq[kv[1]])]
           Iter(g) == g = [U \in SUBSET (1 .. n) |->
                             IF U = {} THEN <<>> ELSE Go(g[U \ {Max(U)}], seq[Max(U)])]
<1>1. seq \in Seq(Contours)
  <2>1. IsFiniteSet(DOMAIN image) /\ DOMAIN image \in SUBSET Int
    BY UpToIsFinite
  <2>2. DOMAIN accepted \in SUBSET DOMAIN image /\ IsFiniteSet(DOMAIN accepted)
    BY <2>1, FS_Subset
  <2>3. \A i \in DOMAIN accepted : accepted[i] \in Contours
    BY ElementOf
  <2> HIDE DEF accepted
  <2>4. QED
    BY <2>1, <2>2, <2>3, SortedBySize
<1>2. Detected(image, masked) = FoldLeft(Go, <<>>, seq)
  BY DEF Detected
<1> HIDE DEF seq
<1>3. n \in Nat /\ DOMAIN seq = 1 .. n /\ \A k \in 1 .. n : seq[k] \in Contours
  BY <1>1
<1>4. FoldLeft(Go, <<>>, seq) = (CHOOSE g : Iter(g))[1 .. n]
  BY <1>3 DEF FoldLeft, MapThenFoldSet
<1> HIDE DEF n
<1>5. op \in [(1 .. n) \X V -> V] /\ <<>> \in V
  BY <1>3
<1>6. PICK f : FoldsLeft(n, V, <<>>, op, f)
  <2> HIDE DEF op, V
  <2>1. QED
    BY <1>3, <1>5, LeftFoldExists
<1>7. ASSUME NEW U \in SUBSET (1 .. n), U # {}
      PROVE  op[<<Max(U), f[U \ {Max(U)}]>>] = Go(f[U \ {Max(U)}], seq[Max(U)])
  <2>1. Max(U) \in 1 .. n /\ U \ {Max(U)} \in SUBSET (1 .. n)
    BY <1>3, <1>7, GreatestIsIn
  <2>2. f[U \ {Max(U)}] \in V
    BY <1>6, <2>1 DEF FoldsLeft
  <2> HIDE DEF Go, V
  <2>3. QED
    BY <2>1, <2>2
<1>8. Iter(f)
  <2>1. f = [U \in SUBSET (1 .. n) |-> f[U]]
    BY <1>6 DEF FoldsLeft
  <2> HIDE DEF Go, op, V
  <2>2. QED
    BY <1>6, <1>7, <2>1 DEF FoldsLeft
<1>9. PICK g : Iter(g) /\ g = CHOOSE h : Iter(h)
  <2> HIDE DEF Iter
  <2>1. QED
    BY <1>8
<1>10. g[{}] = <<>> /\ \A k \in 1 .. n : g[1 .. k] = Go(g[1 .. k - 1], seq[k])
  <2> HIDE DEF Go
  <2>1. g[{}] = <<>>
    BY <1>9
  <2>2. ASSUME NEW k \in 1 .. n PROVE g[1 .. k] = Go(g[1 .. k - 1], seq[k])
    <3>1. Max(1 .. k) = k /\ (1 .. k) \ {Max(1 .. k)} = 1 .. k - 1
      BY <1>3, LastIsGreatest
    <3>2. 1 .. k \in SUBSET (1 .. n) /\ 1 .. k # {}
      BY <1>3, UpToIsPart
    <3>3. g[1 .. k] = Go(g[(1 .. k) \ {Max(1 .. k)}], seq[Max(1 .. k)])
      BY <1>9, <3>2
    <3>4. QED
      BY <3>1, <3>3
  <2>3. QED
    BY <2>1, <2>2
<1> DEFINE Good == {k \in 0 .. n : g[1 .. k] \in V}
<1>11. Climbs(Good, n)
  <2>1. 0 \in Good
    <3>1. 1 .. 0 = {}
      OBVIOUS
    <3>2. g[1 .. 0] = <<>>
      BY <1>10, <3>1
    <3>3. g[1 .. 0] \in V /\ 0 \in 0 .. n
      BY <1>3, <1>5, <3>2
    <3> HIDE DEF V
    <3>4. QED
      BY <3>3
  <2>2. ASSUME NEW k \in 1 .. n, k - 1 \in Good PROVE k \in Good
    <3>1. Go(g[1 .. k - 1], seq[k]) \in V
      BY <1>3, <2>2
    <3> HIDE DEF V, Go
    <3>2. g[1 .. k] \in V
      BY <1>10, <3>1
    <3>3. k \in 0 .. n
      BY <1>3
    <3>4. QED
      BY <3>2, <3>3
  <2>3. QED
    BY <2>1, <2>2 DEF Climbs
<1>12. n \in Good
  <2> HIDE DEF Good
  <2>1. QED
    BY <1>3, <1>11, CountUp
<1>13. QED
  <2> HIDE DEF Iter
  <2>1. QED
    BY <1>2, <1>4, <1>9, <1>12

-----------------------------------------------------------------------------
(* Tracks *)

Tracks == [color : {"red", "green", "blue"}, at : Int, yaw : Int]
TracksKnown == camera.trackMax \in Nat /\ tracks \in Seq(Tracks)

\* The track that is nearest to a candidate exists, and is taken if it is near enough.
LEMMA TrackIsNearest ==
  ASSUME TracksKnown, NEW c \in Contours, NEW used, NEW i, i = TrackOf(c, used)
  PROVE  /\ i # 0 => /\ i \in DOMAIN tracks \ used
                     /\ tracks[i].color = c.color
         /\ \A j \in DOMAIN tracks \ used :
              tracks[j].color = c.color /\ tracks[j].at = c.at =>
                i # 0 /\ tracks[i].at = c.at
<1> DEFINE free == {k \in DOMAIN tracks \ used : tracks[k].color = c.color}
           far == [k \in free |-> Distance(c, tracks[k])]
           Nearer(k, j) == LET dk == Distance(c, tracks[k])
                               dj == Distance(c, tracks[j])
                           IN dk < dj \/ (dk = dj /\ k <= j)
           nearest == CHOOSE k \in free : \A j \in free : Nearer(k, j)
<1>1. /\ IsFiniteSet(free) /\ free \in SUBSET Int
      /\ \A k \in free : tracks[k].at \in Int /\ c.at \in Int
  <2>1. DOMAIN tracks = 1 .. Len(tracks) /\ Len(tracks) \in Nat
    BY DEF TracksKnown
  <2>2. IsFiniteSet(DOMAIN tracks)
    BY <2>1, UpToIsFinite
  <2>3. free \in SUBSET DOMAIN tracks
    OBVIOUS
  <2>4. IsFiniteSet(free)
    BY <2>2, <2>3, FS_Subset
  <2>5. \A k \in free : tracks[k] \in Tracks
    BY ElementOf DEF TracksKnown
  <2>6. QED
    BY <2>1, <2>3, <2>4, <2>5 DEF Tracks, Contours
<1>2. \A k \in free : far[k] \in Nat /\ (far[k] = 0 <=> tracks[k].at = c.at)
  BY <1>1 DEF Distance, Abs
<1>3. \A k, j \in free : Nearer(k, j) <=> far[k] < far[j] \/ (far[k] = far[j] /\ k <= j)
  OBVIOUS
<1>4. i = IF free = {} THEN 0 ELSE IF Distance(c, tracks[nearest]) <= camera.trackMax THEN nearest ELSE 0
  BY DEF TrackOf
<1>5. ASSUME free # {} PROVE nearest \in free /\ \A j \in free : Nearer(nearest, j)
  <2>1. far \in [free -> Int]
    BY <1>2
  <2> HIDE DEF free, far
  <2>2. PICK k \in free : \A j \in free \ {k} : Before(far, k, j)
    BY <1>1, <1>5, <2>1, LeastExists
  <2>3. \A j \in free : far[k] < far[j] \/ (far[k] = far[j] /\ k <= j)
    BY <1>1, <1>2, <2>2 DEF Before
  <2>4. \A j \in free : Nearer(k, j)
    BY <1>3, <2>3
  <2> HIDE DEF Nearer
  <2>5. QED
    BY <2>4
<1>6. free # {} => Distance(c, tracks[nearest]) = far[nearest]
  BY <1>5
<1> HIDE DEF nearest, Nearer, far, free
<1>7. i # 0 => i \in free
  BY <1>4, <1>5
<1>8. ASSUME NEW j \in free, tracks[j].at = c.at PROVE i # 0 /\ tracks[i].at = c.at
  <2>1. far[nearest] = 0
    BY <1>2, <1>3, <1>5, <1>8
  <2>2. 0 <= camera.trackMax /\ 0 \notin free
    BY DEF TracksKnown, free
  <2>3. i = nearest
    BY <1>4, <1>6, <1>8, <2>1, <2>2
  <2>4. QED
    BY <1>2, <1>5, <1>8, <2>1, <2>2, <2>3
<1>9. QED
  BY <1>7, <1>8 DEF free

\* A square box is not turned by more than an eighth of a turn.
LEMMA SteadyIsSteady ==
  ASSUME NEW c \in Contours, NEW previous \in Int
  PROVE  /\ SteadyYaw(c, previous) \in Int
         /\ c.square => Abs(AngleDelta(SteadyYaw(c, previous), previous)) <= 45
<1>1. PICK yaw \in Int : yaw = c.yaw
  BY DEF Contours
<1>2. PICK turned : turned = NormalizeYaw(yaw + 90)
  OBVIOUS
<1>3. turned \in Int
  BY <1>2 DEF NormalizeYaw
<1> DEFINE near == Abs(AngleDelta(yaw, previous))
           quarter == Abs(AngleDelta(turned, previous))
<1>4. near \in Nat /\ quarter \in Nat /\ near + quarter <= 90
  BY <1>1, <1>2, <1>3 DEF NormalizeYaw, AngleDelta, Abs
<1>5. SteadyYaw(c, previous) = IF c.square /\ quarter < near THEN turned ELSE yaw
  BY <1>1, <1>2 DEF SteadyYaw
<1> HIDE DEF near, quarter
<1>6. c.square => IF quarter < near THEN quarter <= 45 ELSE near <= 45
  BY <1>4
<1>7. QED
  BY <1>3, <1>5, <1>6 DEF near, quarter

-----------------------------------------------------------------------------
(* The candidates one after the other *)

\* What _stabilize_yaws has done after one candidate more.
After(done, c) ==
  LET i == TrackOf(c, done.used)
  IN IF i = 0 THEN [done EXCEPT !.boxes = Append(@, c)]
     ELSE [used |-> done.used \cup {i},
           boxes |-> Append(done.boxes, [c EXCEPT !.yaw = SteadyYaw(c, tracks[i].yaw)])]

Stabilizes(candidates, acc) ==
  /\ acc[0] = [used |-> {}, boxes |-> <<>>]
  /\ \A k \in 1 .. Len(candidates) : acc[k] = After(acc[k - 1], candidates[k])

Dones == [used : SUBSET Int, boxes : Seq(Contours)]

\* The candidate c becomes the box b, with the track i if it has one.
BoxOf(c, i, b) ==
  /\ b \in Contours
  /\ b.color = c.color /\ b.at = c.at /\ b.square = c.square
  /\ i # 0 => b.yaw = SteadyYaw(c, tracks[i].yaw)

\* The candidate c is done, and has the track i if it has one.
DoneWith(done, c, i, next) ==
  /\ next \in Dones
  /\ next.used = IF i = 0 THEN done.used ELSE done.used \cup {i}
  /\ \E b : BoxOf(c, i, b) /\ next.boxes = Append(done.boxes, b)

LEMMA AfterOne ==
  ASSUME TracksKnown, NEW done \in Dones, NEW c \in Contours,
         NEW i, i = TrackOf(c, done.used)
  PROVE  DoneWith(done, c, i, After(done, c))
<1>1. After(done, c) =
        IF i = 0 THEN [done EXCEPT !.boxes = Append(@, c)]
        ELSE [used |-> done.used \cup {i},
              boxes |-> Append(done.boxes, [c EXCEPT !.yaw = SteadyYaw(c, tracks[i].yaw)])]
  BY DEF After
<1>2. \A b \in Contours : Append(done.boxes, b) \in Seq(Contours) /\ done.used \in SUBSET Int
  BY DEF Dones
<1>3. CASE i = 0
  <2>1. After(done, c) = [used |-> done.used, boxes |-> Append(done.boxes, c)]
    BY <1>1, <1>3 DEF Dones
  <2>2. BoxOf(c, i, c)
    BY <1>3 DEF BoxOf
  <2>3. After(done, c) \in Dones
    BY <1>2, <2>1 DEF Dones
  <2>4. QED
    BY <1>3, <2>1, <2>2, <2>3 DEF DoneWith
<1>4. CASE i # 0
  <2>1. i \in DOMAIN tracks
    BY <1>4, TrackIsNearest
  <2>2. tracks[i] \in Tracks
    BY <2>1, ElementOf DEF TracksKnown
  <2>3. i \in Int /\ tracks[i].yaw \in Int
    BY <2>1, <2>2 DEF TracksKnown, Tracks
  <2>4. PICK yaw \in Int : yaw = SteadyYaw(c, tracks[i].yaw)
    BY <2>3, SteadyIsSteady
  <2>5. PICK b : b = [c EXCEPT !.yaw = yaw]
    OBVIOUS
  <2>6. BoxOf(c, i, b)
    BY <2>4, <2>5 DEF Contours, BoxOf
  <2>7. After(done, c) = [used |-> done.used \cup {i}, boxes |-> Append(done.boxes, b)]
    BY <1>1, <1>4, <2>4, <2>5
  <2>8. After(done, c) \in Dones
    BY <1>2, <2>3, <2>6, <2>7 DEF Dones, BoxOf
  <2>9. QED
    BY <1>4, <2>6, <2>7, <2>8 DEF DoneWith
<1>5. QED
  BY <1>3, <1>4

LEMMA AfterType ==
  ASSUME TracksKnown, NEW done \in Dones, NEW c \in Contours
  PROVE  After(done, c) \in Dones
BY AfterOne DEF DoneWith

LEMMA StabilizedStepByStep ==
  ASSUME TracksKnown, NEW candidates \in Seq(Contours)
  PROVE  \E acc : /\ Stabilizes(candidates, acc)
                  /\ Stabilized(candidates) = acc[Len(candidates)].boxes
<1> DEFINE n == Len(candidates)
           base == [used |-> {}, boxes |-> <<>>]
           Go(done, candidate) ==
             LET i == TrackOf(candidate, done.used)
             IN IF i = 0 THEN [done EXCEPT !.boxes = Append(@, candidate)]
                ELSE [used |-> done.used \cup {i},
                      boxes |-> Append(done.boxes, [candidate EXCEPT
                                  !.yaw = SteadyYaw(candidate, tracks[i].yaw)])]
           op == [kv \in (1 .. n) \X Dones |-> After(kv[2], candidates[kv[1]])]
           Iter(g) == g = [U \in SUBSET (1 .. n) |->
                             IF U = {} THEN base
                             ELSE Go(g[U \ {Max(U)}], candidates[Max(U)])]
<1>1. Stabilized(candidates) = FoldLeft(Go, base, candidates).boxes
  BY DEF Stabilized
<1>2. \A done, c : Go(done, c) = After(done, c)
  BY DEF After
<1>3. n \in Nat /\ DOMAIN candidates = 1 .. n /\ \A k \in 1 .. n : candidates[k] \in Contours
  OBVIOUS
<1>4. FoldLeft(Go, base, candidates) = (CHOOSE g : Iter(g))[1 .. n]
  BY <1>3 DEF FoldLeft, MapThenFoldSet
<1> HIDE DEF n, Go
<1>5. op \in [(1 .. n) \X Dones -> Dones] /\ base \in Dones
  BY <1>3, AfterType DEF Dones
<1>6. PICK f : FoldsLeft(n, Dones, base, op, f)
  <2> HIDE DEF op, base
  <2>1. QED
    BY <1>3, <1>5, LeftFoldExists
<1>7. ASSUME NEW U \in SUBSET (1 .. n), U # {}
      PROVE  op[<<Max(U), f[U \ {Max(U)}]>>] = Go(f[U \ {Max(U)}], candidates[Max(U)])
  <2>1. Max(U) \in 1 .. n /\ U \ {Max(U)} \in SUBSET (1 .. n)
    BY <1>3, <1>7, GreatestIsIn
  <2>2. f[U \ {Max(U)}] \in Dones
    BY <1>6, <2>1 DEF FoldsLeft
  <2>3. QED
    BY <1>2, <2>1, <2>2
<1>8. Iter(f)
  <2>1. f = [U \in SUBSET (1 .. n) |-> f[U]]
    BY <1>6 DEF FoldsLeft
  <2> HIDE DEF op, base
  <2>2. QED
    BY <1>6, <1>7, <2>1 DEF FoldsLeft
<1>9. PICK g : Iter(g) /\ g = CHOOSE h : Iter(h)
  <2> HIDE DEF Iter
  <2>1. QED
    BY <1>8
<1> DEFINE acc == [k \in 0 .. n |-> g[1 .. k]]
<1>10. acc[0] = base
  <2>1. 1 .. 0 = {} /\ 0 \in 0 .. n
    BY <1>3
  <2>2. g[{}] = base
    BY <1>9
  <2> HIDE DEF base
  <2>3. QED
    BY <2>1, <2>2
<1>11. ASSUME NEW k \in 1 .. n PROVE acc[k] = After(acc[k - 1], candidates[k])
  <2> HIDE DEF base
  <2>1. Max(1 .. k) = k /\ (1 .. k) \ {Max(1 .. k)} = 1 .. k - 1
    BY <1>3, LastIsGreatest
  <2>2. 1 .. k \in SUBSET (1 .. n) /\ 1 .. k # {}
    BY <1>3, UpToIsPart
  <2>3. g[1 .. k] = Go(g[(1 .. k) \ {Max(1 .. k)}], candidates[Max(1 .. k)])
    BY <1>9, <2>2
  <2>4. acc[k] = g[1 .. k] /\ acc[k - 1] = g[1 .. k - 1]
    BY <1>3
  <2>5. QED
    BY <1>2, <2>1, <2>3, <2>4
<1>12. Stabilizes(candidates, acc)
  <2> HIDE DEF acc
  <2>1. QED
    BY <1>10, <1>11 DEF Stabilizes, n
<1>13. Stabilized(candidates) = acc[n].boxes
  <2> HIDE DEF Iter
  <2>1. FoldLeft(Go, base, candidates) = g[1 .. n]
    BY <1>4, <1>9
  <2>2. acc[n] = g[1 .. n]
    BY <1>3
  <2> HIDE DEF acc, base
  <2>3. QED
    BY <1>1, <2>1, <2>2
<1>14. QED
  <2> HIDE DEF acc
  <2>1. QED
    BY <1>12, <1>13 DEF n

LEMMA StabilizedType ==
  ASSUME TracksKnown, NEW candidates \in Seq(Contours)
  PROVE  Stabilized(candidates) \in Seq(Contours)
<1>1. PICK acc : Stabilizes(candidates, acc) /\ Stabilized(candidates) = acc[Len(candidates)].boxes
  BY StabilizedStepByStep
<1>2. PICK n \in Nat : n = Len(candidates)
  OBVIOUS
<1> DEFINE Good == {k \in 0 .. n : acc[k] \in Dones}
<1>3. Climbs(Good, n)
  <2>1. 0 \in Good
    <3>1. [used |-> {}, boxes |-> <<>>] \in Dones
      BY DEF Dones
    <3>2. acc[0] \in Dones /\ 0 \in 0 .. n
      BY <1>1, <1>2, <3>1 DEF Stabilizes
    <3>3. QED
      BY <3>2
  <2>2. ASSUME NEW k \in 1 .. n, k - 1 \in Good PROVE k \in Good
    <3>1. candidates[k] \in Contours
      BY <1>2
    <3>2. acc[k] = After(acc[k - 1], candidates[k])
      BY <1>1, <1>2 DEF Stabilizes
    <3>3. acc[k] \in Dones
      BY <2>2, <3>1, <3>2, AfterType
    <3>4. QED
      BY <1>2, <3>3
  <2>3. QED
    BY <2>1, <2>2 DEF Climbs
<1>4. n \in Good
  <2> HIDE DEF Good
  <2>1. QED
    BY <1>2, <1>3, CountUp
<1>5. QED
  BY <1>1, <1>2, <1>4 DEF Dones

\* Every candidate stays what and where it is.
Follows(candidates, done, k) ==
  /\ done \in Dones /\ Len(done.boxes) = k
  /\ \A m \in 1 .. k : /\ done.boxes[m].color = candidates[m].color
                       /\ done.boxes[m].at = candidates[m].at
                       /\ done.boxes[m].square = candidates[m].square

LEMMA AllFollow ==
  ASSUME TracksKnown, NEW candidates \in Seq(Contours), NEW acc, Stabilizes(candidates, acc)
  PROVE  \A k \in 0 .. Len(candidates) : Follows(candidates, acc[k], k)
<1>1. PICK n \in Nat : n = Len(candidates)
  OBVIOUS
<1> DEFINE Good == {k \in 0 .. n : Follows(candidates, acc[k], k)}
<1>2. Climbs(Good, n)
  <2>1. 0 \in Good
    <3>1. [used |-> {}, boxes |-> <<>>] \in Dones
      BY DEF Dones
    <3>2. acc[0] \in Dones /\ Len(acc[0].boxes) = 0 /\ 1 .. 0 = {}
      BY <3>1 DEF Stabilizes
    <3>3. Follows(candidates, acc[0], 0)
      BY <3>2 DEF Follows
    <3>4. QED
      BY <1>1, <3>3
  <2>2. ASSUME NEW k \in 1 .. n, k - 1 \in Good PROVE k \in Good
    <3>1. PICK past : past = k - 1 /\ past \in Nat
      OBVIOUS
    <3>2. PICK c \in Contours : c = candidates[k]
      BY <1>1
    <3>3. PICK i : i = TrackOf(c, acc[past].used)
      OBVIOUS
    <3>4. acc[k] = After(acc[past], c)
      BY <1>1, <3>1, <3>2 DEF Stabilizes
    <3>5. /\ acc[past] \in Dones /\ Len(acc[past].boxes) = past
          /\ acc[past].boxes \in Seq(Contours)
          /\ \A m \in 1 .. past : /\ acc[past].boxes[m].color = candidates[m].color
                                  /\ acc[past].boxes[m].at = candidates[m].at
                                  /\ acc[past].boxes[m].square = candidates[m].square
      BY <2>2, <3>1 DEF Follows, Dones
    <3>6. DoneWith(acc[past], c, i, acc[k])
      BY <3>3, <3>4, <3>5, AfterOne
    <3>7. PICK b : BoxOf(c, i, b) /\ acc[k].boxes = Append(acc[past].boxes, b)
      BY <3>6 DEF DoneWith
    <3>8. /\ Len(acc[k].boxes) = k /\ acc[k].boxes[k] = b
          /\ \A m \in 1 .. past : acc[k].boxes[m] = acc[past].boxes[m]
      BY <3>1, <3>5, <3>7 DEF BoxOf
    <3>9. \A m \in 1 .. k : m = k \/ m \in 1 .. past
      BY <3>1
    <3>10. Follows(candidates, acc[k], k)
      BY <3>2, <3>5, <3>6, <3>7, <3>8, <3>9 DEF Follows, BoxOf, DoneWith
    <3>11. QED
      BY <1>1, <3>10
  <2>3. QED
    BY <2>1, <2>2 DEF Climbs
<1>3. \A k \in 0 .. n : k \in Good
  <2> HIDE DEF Good
  <2>1. QED
    BY <1>2, CountUp
<1>4. QED
  BY <1>1, <1>3

\* As many places as boxes: no two are at the same place.
LEMMA PlacesApart ==
  ASSUME NEW s, NEW n \in Nat, DOMAIN s = 1 .. n, NEW color,
         CountOf(s, color) = Cardinality(PlacesOf(s, color)),
         NEW i \in DOMAIN s, NEW k \in DOMAIN s,
         s[i].color = color, s[k].color = color, s[i].at = s[k].at
  PROVE  i = k
<1> DEFINE I == {j \in DOMAIN s : s[j].color = color}
           P == {s[j].at : j \in I}
           f == [j \in I |-> s[j].at]
<1>1. IsFiniteSet(I)
  <2>1. IsFiniteSet(DOMAIN s)
    BY UpToIsFinite
  <2>2. QED
    BY <2>1, FS_Subset
<1>2. f \in Surjection(I, P)
  BY DEF Surjection
<1>3. Cardinality(I) = Cardinality(P)
  BY DEF CountOf, PlacesOf
<1>4. i \in I /\ k \in I /\ f[i] = f[k]
  OBVIOUS
<1> HIDE DEF I, P, f
<1>5. f \in Injection(I, P)
  BY <1>1, <1>2, <1>3, FS_Surjection
<1>6. QED
  BY <1>4, <1>5 DEF Injection, IsInjective

\* Of the first k candidates, those of this colour have the tracks at their places, and
\* these tracks were taken for no other.
HasTrack(c, color, box, u) ==
  /\ tracks[u].color = color /\ tracks[u].at = c.at
  /\ box.yaw = SteadyYaw(c, tracks[u].yaw)
OnTracks(candidates, color, done, k) ==
  /\ \A u \in done.used : tracks[u].color = color =>
       \E m \in 1 .. k : candidates[m].color = color /\ candidates[m].at = tracks[u].at
  /\ \A m \in 1 .. k : candidates[m].color = color =>
       \E u \in DOMAIN tracks : HasTrack(candidates[m], color, done.boxes[m], u)

\* No two candidates of the colour are at one place, and a track is wherever one is.
Placed(candidates, color) ==
  /\ \A m, l \in DOMAIN candidates :
       /\ candidates[m].color = color /\ candidates[l].color = color
       /\ candidates[m].at = candidates[l].at
       => m = l
  /\ \A m \in DOMAIN candidates : candidates[m].color = color =>
       \E u \in DOMAIN tracks : tracks[u].color = color /\ tracks[u].at = candidates[m].at

LEMMA OneMoreOnTrack ==
  ASSUME TracksKnown, NEW candidates \in Seq(Contours), NEW color, Placed(candidates, color),
         NEW k \in DOMAIN candidates, NEW past \in Nat, past = k - 1,
         NEW done, Follows(candidates, done, past), OnTracks(candidates, color, done, past),
         NEW next, next = After(done, candidates[k])
  PROVE  OnTracks(candidates, color, next, k)
<1>1. PICK c \in Contours : c = candidates[k]
  BY ElementOf
<1>2. PICK i : i = TrackOf(c, done.used)
  OBVIOUS
<1>3. done \in Dones /\ done.boxes \in Seq(Contours) /\ Len(done.boxes) = past
  BY DEF Follows, Dones
<1>4. DoneWith(done, c, i, next)
  BY <1>1, <1>2, <1>3, AfterOne
<1>5. PICK b : BoxOf(c, i, b) /\ next.boxes = Append(done.boxes, b)
  BY <1>4 DEF DoneWith
<1>6. next.boxes[k] = b /\ \A m \in 1 .. past : next.boxes[m] = done.boxes[m]
  BY <1>3, <1>5 DEF BoxOf
<1>7. /\ k \in 1 .. k /\ \A m \in 1 .. past : m \in 1 .. k /\ m # k /\ m \in DOMAIN candidates
      /\ \A m \in 1 .. k : m = k \/ m \in 1 .. past
  OBVIOUS
<1>8. /\ i # 0 => i \in DOMAIN tracks \ done.used /\ tracks[i].color = c.color
      /\ \A j \in DOMAIN tracks \ done.used :
           tracks[j].color = c.color /\ tracks[j].at = c.at => i # 0 /\ tracks[i].at = c.at
  BY <1>2, TrackIsNearest
<1>9. ASSUME c.color = color PROVE i # 0 /\ tracks[i].at = c.at
  <2>1. PICK u \in DOMAIN tracks : tracks[u].color = color /\ tracks[u].at = c.at
    BY <1>1, <1>9 DEF Placed
  <2>2. u \notin done.used
    <3>1. ASSUME u \in done.used PROVE FALSE
      <4>1. PICK m \in 1 .. past : candidates[m].color = color /\ candidates[m].at = c.at
        BY <2>1, <3>1 DEF OnTracks
      <4>2. m = k
        BY <1>1, <1>7, <1>9, <4>1 DEF Placed
      <4>3. QED
        BY <1>7, <4>1, <4>2
    <3>2. QED
      BY <3>1
  <2>3. QED
    BY <1>8, <1>9, <2>1, <2>2
<1>10. ASSUME NEW u \in next.used, tracks[u].color = color
       PROVE  \E m \in 1 .. k : candidates[m].color = color /\ candidates[m].at = tracks[u].at
  <2>1. CASE u \in done.used
    BY <1>7, <1>10, <2>1 DEF OnTracks
  <2>2. CASE u \notin done.used
    <3>1. i # 0 /\ u = i
      BY <1>4, <1>10, <2>2 DEF DoneWith
    <3>2. c.color = color
      BY <1>8, <1>10, <3>1
    <3>3. QED
      BY <1>1, <1>7, <1>9, <3>1, <3>2
  <2>3. QED
    BY <2>1, <2>2
<1>11. ASSUME NEW m \in 1 .. k, candidates[m].color = color
       PROVE  \E u \in DOMAIN tracks : HasTrack(candidates[m], color, next.boxes[m], u)
  <2>1. CASE m \in 1 .. past
    BY <1>6, <1>11, <2>1 DEF OnTracks
  <2>2. CASE m = k
    <3>1. i # 0 /\ tracks[i].at = c.at /\ i \in DOMAIN tracks /\ tracks[i].color = color
      BY <1>1, <1>8, <1>9, <1>11, <2>2
    <3>2. HasTrack(c, color, b, i)
      BY <1>5, <3>1 DEF HasTrack, BoxOf
    <3>3. QED
      BY <1>1, <1>6, <2>2, <3>1, <3>2
  <2>3. QED
    BY <1>7, <2>1, <2>2
<1>12. QED
  BY <1>10, <1>11 DEF OnTracks

LEMMA AllOnTracks ==
  ASSUME TracksKnown, NEW candidates \in Seq(Contours), NEW acc, Stabilizes(candidates, acc),
         NEW color, Placed(candidates, color)
  PROVE  OnTracks(candidates, color, acc[Len(candidates)], Len(candidates))
<1>1. PICK n \in Nat : n = Len(candidates) /\ DOMAIN candidates = 1 .. n
  OBVIOUS
<1> DEFINE Good == {k \in 0 .. n : OnTracks(candidates, color, acc[k], k)}
<1>2. Climbs(Good, n)
  <2>1. 0 \in Good
    <3>1. acc[0].used = {} /\ 1 .. 0 = {}
      BY DEF Stabilizes
    <3>2. OnTracks(candidates, color, acc[0], 0)
      BY <3>1 DEF OnTracks
    <3>3. QED
      BY <1>1, <3>2
  <2>2. ASSUME NEW k \in 1 .. n, k - 1 \in Good PROVE k \in Good
    <3>1. PICK past : past = k - 1 /\ past \in Nat /\ past \in 0 .. n
      OBVIOUS
    <3>2. Follows(candidates, acc[past], past)
      BY <1>1, <3>1, AllFollow
    <3>3. OnTracks(candidates, color, acc[past], past)
      BY <2>2, <3>1
    <3>4. acc[k] = After(acc[past], candidates[k]) /\ k \in DOMAIN candidates
      BY <1>1, <3>1 DEF Stabilizes
    <3>5. OnTracks(candidates, color, acc[k], k)
      BY <3>1, <3>2, <3>3, <3>4, OneMoreOnTrack
    <3>6. QED
      BY <3>5
  <2>3. QED
    BY <2>1, <2>2 DEF Climbs
<1>3. n \in Good
  <2> HIDE DEF Good
  <2>1. QED
    BY <1>2, CountUp
<1>4. QED
  BY <1>1, <1>3

\* A box that stays where it is goes on with its own track.
LEMMA TracksGoOn ==
  ASSUME TracksKnown, NEW candidates \in Seq(Contours),
         NEW after, after = Stabilized(candidates),
         NEW i \in DOMAIN tracks, NEW j \in DOMAIN after, NEW color, color = tracks[i].color,
         after[j].color = color, after[j].at = tracks[i].at, after[j].square,
         Standing(tracks, after, color)
  PROVE  Abs(AngleDelta(after[j].yaw, tracks[i].yaw)) <= 45
<1>1. PICK n \in Nat : n = Len(candidates) /\ DOMAIN candidates = 1 .. n
  OBVIOUS
<1>2. PICK acc : Stabilizes(candidates, acc) /\ after = acc[n].boxes
  BY <1>1, StabilizedStepByStep
<1>3. Follows(candidates, acc[n], n)
  BY <1>1, <1>2, AllFollow
<1>4. /\ DOMAIN after = 1 .. n
      /\ \A m \in 1 .. n : /\ after[m].color = candidates[m].color
                           /\ after[m].at = candidates[m].at
                           /\ after[m].square = candidates[m].square
  BY <1>2, <1>3 DEF Follows, Dones
<1>5. Placed(candidates, color)
  <2>1. CountOf(after, color) = Cardinality(PlacesOf(after, color))
    BY DEF Standing
  <2>2. ASSUME NEW m \in 1 .. n, NEW l \in 1 .. n,
               candidates[m].color = color, candidates[l].color = color,
               candidates[m].at = candidates[l].at
        PROVE  m = l
    <3>1. /\ m \in DOMAIN after /\ l \in DOMAIN after
          /\ after[m].color = color /\ after[l].color = color /\ after[m].at = after[l].at
      BY <1>4, <2>2
    <3>2. QED
      BY <1>4, <2>1, <3>1, PlacesApart
  <2>3. ASSUME NEW m \in 1 .. n, candidates[m].color = color
        PROVE  \E u \in DOMAIN tracks :
                 tracks[u].color = color /\ tracks[u].at = candidates[m].at
    <3>1. candidates[m].at \in PlacesOf(after, color)
      BY <1>4, <2>3 DEF PlacesOf
    <3>2. candidates[m].at \in PlacesOf(tracks, color)
      BY <3>1 DEF Standing
    <3>3. QED
      BY <3>2 DEF PlacesOf
  <2>4. QED
    BY <1>1, <2>2, <2>3 DEF Placed
<1>6. OnTracks(candidates, color, acc[n], n)
  BY <1>1, <1>2, <1>5, AllOnTracks
<1>7. PICK c \in Contours : c = candidates[j]
  BY <1>1, <1>4, ElementOf
<1>8. PICK u \in DOMAIN tracks : HasTrack(c, color, after[j], u)
  BY <1>2, <1>4, <1>6, <1>7 DEF OnTracks
<1>9. u = i
  <2>1. PICK k \in Nat : DOMAIN tracks = 1 .. k
    BY DEF TracksKnown
  <2>2. CountOf(tracks, color) = Cardinality(PlacesOf(tracks, color))
    BY DEF Standing
  <2>3. tracks[u].color = color /\ tracks[u].at = tracks[i].at
    BY <1>4, <1>7, <1>8 DEF HasTrack
  <2>4. QED
    BY <2>1, <2>2, <2>3, PlacesApart
<1>10. tracks[i].yaw \in Int
  <2>1. tracks[i] \in Tracks
    BY ElementOf DEF TracksKnown
  <2>2. QED
    BY <2>1 DEF Tracks
<1>11. c.square /\ after[j].yaw = SteadyYaw(c, tracks[i].yaw)
  BY <1>4, <1>7, <1>8, <1>9 DEF HasTrack
<1>12. QED
  BY <1>10, <1>11, SteadyIsSteady

-----------------------------------------------------------------------------
(* box_pose_node: what it publishes *)

BoxInv == camera \in Cameras /\ tracks \in Seq(Tracks) /\ PoseIsInItsFrame

\* The node starts without a message.
LEMMA BoxInit == BoxPoseInit => BoxInv
  BY DEF BoxPoseInit, BoxInv, PoseIsInItsFrame

LEMMA CameraKnown ==
  ASSUME BoxInv
  PROVE  TracksKnown /\ camera.images \subseteq Seq(Contours)
BY BoxPoseAssumption DEF BoxInv, TracksKnown

\* Whatever is there of depth, transform, camera info and homography.
LEMMA PosesInFrame ==
  ASSUME NEW candidates \in Seq(Contours), NEW age, NEW tf,
         NEW k \in DOMAIN Boxes(candidates, age, tf),
         NEW pose, pose = Boxes(candidates, age, tf)[k].pose
  PROVE  /\ pose \in {Labelled(tf), NoPose} \/ camera.homography
         /\ camera.requireDepth => pose # NoPose
<1> DEFINE box(c) == [color |-> c.color, at |-> c.at, area |-> c.area, yaw |-> c.yaw,
                 measured |-> Measured(c, age), z |-> IF Measured(c, age) THEN c.z ELSE 0,
                 pose |-> Expressed(c, age, tf)]
           posed == {i \in DOMAIN candidates :
                  camera.requireDepth => /\ Measured(candidates[i], age)
                                         /\ Expressed(candidates[i], age, tf) # NoPose}
           items == [i \in posed |-> box(candidates[i])]
<1>1. Boxes(candidates, age, tf) = Sorted(items, SortsBefore)
  BY DEF Boxes
<1>2. DOMAIN items \in SUBSET Int /\ IsFiniteSet(DOMAIN items)
  <2>1. DOMAIN candidates \in SUBSET Int /\ IsFiniteSet(DOMAIN candidates)
    BY UpToIsFinite
  <2>2. DOMAIN items \in SUBSET DOMAIN candidates
    OBVIOUS
  <2> HIDE DEF items
  <2>3. QED
    BY <2>1, <2>2, FS_Subset
<1>3. ASSUME NEW i \in DOMAIN items
      PROVE  /\ items[i].color \in {"red", "green", "blue"}
             /\ items[i].at \in Int /\ items[i].area \in Int
  <2>1. candidates[i] \in Contours
    BY ElementOf
  <2>2. QED
    BY <2>1 DEF Contours
<1>4. ASSUME NEW i \in DOMAIN items
      PROVE  /\ items[i].pose = Expressed(candidates[i], age, tf)
             /\ camera.requireDepth => items[i].pose # NoPose
  OBVIOUS
<1>5. PICK i \in DOMAIN items : pose = items[i].pose
  <2> HIDE DEF items
  <2>1. QED
    BY <1>1, <1>2, <1>3, SortedBoxes
<1>6. QED
  BY <1>4, <1>5 DEF Expressed, Labelled

LEMMA SeeInv == ASSUME BoxInv, See PROVE BoxInv'
<1>1. PICK image \in camera.images, age \in 0 .. camera.late, tf \in BOOLEAN :
        OnColor(image, age, tf)
  BY DEF See
<1>2. PICK candidates : /\ candidates = Stabilized(Detected(image, camera.useMask /\ Matches(age)))
                        /\ tracks' = [i \in DOMAIN candidates |->
                             [color |-> candidates[i].color,
                              at |-> candidates[i].at, yaw |-> candidates[i].yaw]]
                        /\ payload' = [frame |-> Labelled(tf),
                                       boxes |-> Boxes(candidates, age, tf)]
                        /\ camera' = camera
  BY <1>1 DEF OnColor
<1>3. candidates \in Seq(Contours)
  <2>1. TracksKnown /\ image \in Seq(Contours)
    BY CameraKnown
  <2>2. Detected(image, camera.useMask /\ Matches(age)) \in Seq(Contours)
    BY <2>1, DetectedType
  <2>3. QED
    BY <1>2, <2>1, <2>2, StabilizedType
<1>4. tracks' \in Seq(Tracks)
  <2>1. PICK n \in Nat : DOMAIN candidates = 1 .. n
    BY <1>3
  <2>2. ASSUME NEW i \in 1 .. n
        PROVE  [color |-> candidates[i].color, at |-> candidates[i].at,
                yaw |-> candidates[i].yaw] \in Tracks
    <3>1. candidates[i] \in Contours
      BY <1>3, <2>1, ElementOf
    <3>2. QED
      BY <3>1 DEF Contours, Tracks
  <2>3. QED
    BY <1>2, <2>1, <2>2
<1>5. PoseIsInItsFrame'
  <2>1. ASSUME NEW k \in DOMAIN payload'.boxes
        PROVE  /\ payload'.boxes[k].pose \in {payload'.frame, NoPose} \/ camera'.homography
               /\ camera'.requireDepth => payload'.boxes[k].pose # NoPose
    <3>1. payload'.boxes = Boxes(candidates, age, tf) /\ payload'.frame = Labelled(tf)
      BY <1>2
    <3>2. QED
      BY <1>2, <1>3, <3>1, PosesInFrame
  <2>2. QED
    BY <2>1 DEF PoseIsInItsFrame
<1>6. QED
  BY <1>2, <1>4, <1>5 DEF BoxInv

LEMMA BoxUnmoved ==
  ASSUME BoxInv, camera' = camera, tracks' = tracks, payload' = payload
  PROVE  BoxInv'
BY DEF BoxInv, PoseIsInItsFrame

\* Of the steps of the vision nodes, those of box_pose_node.
LEMMA BoxSteps ==
  ASSUME [PerceptionNext]_perceptionVars
  PROVE  See \/ Measure \/ OnCameraInfo \/ DepthAges \/ UNCHANGED boxPoseVars
BY DEF PerceptionNext, VisionNext, Detect, CameraChanges, Speak, Type, Selects, Tap,
       perceptionVars, visionVars

LEMMA BoxInvStep ==
  ASSUME BoxInv, [PerceptionNext]_perceptionVars PROVE BoxInv'
<1>1. CASE See
  BY <1>1, SeeInv
<1>2. CASE Measure \/ OnCameraInfo \/ DepthAges \/ UNCHANGED boxPoseVars
  <2>1. camera' = camera /\ tracks' = tracks /\ payload' = payload
    BY <1>2 DEF Measure, OnDepth, OnCameraInfo, DepthAges, boxPoseVars
  <2>2. QED
    BY <2>1, BoxUnmoved
<1>3. QED
  BY <1>1, <1>2, BoxSteps

LEMMA BoxInvCorrect == PerceptionSpec => []BoxInv
<1>1. PerceptionInit => BoxInv
  BY BoxInit DEF PerceptionInit, VisionInit
<1>2. BoxInv /\ [PerceptionNext]_perceptionVars => BoxInv'
  BY BoxInvStep
<1>3. QED
  BY <1>1, <1>2, PTL DEF PerceptionSpec

\* The coordinates of a box are expressed in the frame that the message of box_pose_node
\* names, whatever is there of depth, transform and camera info when the image comes; and
\* a box without coordinates is not published where depth is required.
THEOREM PosesAreInTheirFrame == PerceptionSpec => []PoseIsInItsFrame
<1>1. BoxInv => PoseIsInItsFrame
  BY DEF BoxInv
<1>2. QED
  BY <1>1, BoxInvCorrect, PTL

YawKept ==
  \A i \in DOMAIN tracks, j \in DOMAIN kept' :
    /\ kept'[j].color = tracks[i].color /\ kept'[j].at = tracks[i].at
    /\ Standing(tracks, kept', tracks[i].color) /\ kept'[j].square
    => Abs(AngleDelta(kept'[j].yaw, tracks[i].yaw)) <= 45

LEMMA SeeKeepsYaw == ASSUME BoxInv, See PROVE YawKept
<1>1. PICK image \in camera.images, age \in 0 .. camera.late, tf \in BOOLEAN :
        OnColor(image, age, tf)
  BY DEF See
<1>2. PICK candidates : candidates = Detected(image, camera.useMask /\ Matches(age))
  OBVIOUS
<1>3. kept' = Stabilized(candidates)
  BY <1>1, <1>2 DEF OnColor
<1>4. TracksKnown /\ candidates \in Seq(Contours)
  BY <1>2, CameraKnown, DetectedType
<1>5. PICK after : after = kept'
  OBVIOUS
<1>6. ASSUME NEW i \in DOMAIN tracks, NEW j \in DOMAIN after,
             after[j].color = tracks[i].color, after[j].at = tracks[i].at,
             Standing(tracks, after, tracks[i].color), after[j].square
      PROVE  Abs(AngleDelta(after[j].yaw, tracks[i].yaw)) <= 45
  BY <1>3, <1>4, <1>5, <1>6, TracksGoOn
<1>7. QED
  BY <1>5, <1>6 DEF YawKept

\* While the boxes of a colour stay where they are, a square one never seems to turn by
\* more than an eighth of a turn: _stabilize_yaws gives each its own track, although it
\* takes them greedily by nearness.
THEOREM YawsKeepTheirSense == PerceptionSpec => YawKeepsItsSense
<1>1. BoxInv /\ [PerceptionNext]_perceptionVars => [YawKept]_<<tracks, kept>>
  <2> SUFFICES ASSUME BoxInv, [PerceptionNext]_perceptionVars
               PROVE  YawKept \/ UNCHANGED <<tracks, kept>>
    OBVIOUS
  <2>1. CASE See
    BY <2>1, SeeKeepsYaw
  <2>2. CASE Measure \/ OnCameraInfo \/ DepthAges \/ UNCHANGED boxPoseVars
    BY <2>2 DEF Measure, OnDepth, OnCameraInfo, DepthAges, boxPoseVars
  <2>3. QED
    BY <2>1, <2>2, BoxSteps
<1>2. QED
  BY <1>1, BoxInvCorrect, PTL DEF PerceptionSpec, YawKeepsItsSense, YawKept

=============================================================================
