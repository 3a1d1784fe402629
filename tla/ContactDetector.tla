--------------------------- MODULE ContactDetector ---------------------------
(***************************************************************************)
(* contact_detector_node: rebuilds the features of the trained model from  *)
(* the motor states and the applied commands, keeps the last window of     *)
(* them, and publishes a probability, a contact state and whether it is    *)
(* ready.                                                                  *)
(*                                                                         *)
(* One thread runs two subscriptions and a timer, each to completion.      *)
(* Time is counted in periods of the timer; stamps are kept as ages, which *)
(* stop counting where the code can no longer tell the difference.  A      *)
(* sample of all motors stands for its features; a feature is kept as its  *)
(* value and its difference to the sample before.                          *)
(***************************************************************************)
EXTENDS ContactData, SequencesExt

CONSTANTS
  MotorIds,      \* motor_ids
  Arrays,        \* the motors an array of states or of commands may carry
  StateTimeout,  \* state_timeout_s
  CmdTimeout,    \* cmd_timeout_s
  SyncTolerance, \* sync_tolerance_s
  Late,          \* how old a message may be when it is received
  WindowLength,  \* window_length of the checkpoint
  Probabilities, \* what the model may answer
  Checkpoints,   \* decision thresholds of checkpoints
  Parameters,    \* parameters the node may be started with; -1: not given
  ValueCap,      \* values of samples, counted in a circle
  LogCap,        \* samples the history holds
  NoSample

ASSUME DetectorAssumption ==
  /\ MotorIds # {} /\ IsFiniteSet(MotorIds) /\ Arrays \subseteq SUBSET MotorIds
  /\ StateTimeout \in Nat /\ CmdTimeout \in Nat /\ SyncTolerance \in Nat /\ Late \in Nat
  /\ WindowLength \in Nat \ {0} /\ {LogCap, ValueCap} \subseteq Nat
  /\ LogCap > WindowLength /\ ValueCap > LogCap
  /\ Probabilities \subseteq Nat /\ Checkpoints \subseteq Nat
  /\ \A p \in Parameters : /\ p.hysteresis \in BOOLEAN
                           /\ {p.decision, p.on, p.off} \subseteq Nat \cup {-1}

\* What is kept of a message of a motor: stamp and receipt as ages.
Sample == [stamp: Nat, recv: Nat, finite: BOOLEAN]

ASSUME SampleAssumption == NoSample \notin Sample /\ NoSample \notin Nat

VARIABLES
  config,    \* the thresholds of this run, in tenths of those of a checkpoint
  states,    \* state_by_motor: stamp and receipt as ages, and whether it is finite
  cmds,      \* cmd_by_motor
  window,    \* feature_window
  prev,      \* prev_e_q, prev_qdot and prev_tau_cmd
  lastPair,  \* last_processed_stamp_pair
  contact,   \* contact_state
  out,       \* what was published last
  due,       \* the timer has to run before time goes on
  steady,    \* the world: from now on all topics bring finite data in time
  log,       \* history: of the samples used last, whether data was lost before them
  value,     \* history: what the last sample held; the values go round
  broken     \* history: data was lost since the last sample

sensors == <<states, cmds, steady>>
temporal == <<window, prev, lastPair>>
history == <<log, value, broken>>
detectorVars == <<config, sensors, temporal, contact, out, due, history>>

\* Ages beyond these are alike: data that old is never used.
RecvCap == (IF StateTimeout > CmdTimeout THEN StateTimeout ELSE CmdTimeout) + 2
StampCap == RecvCap + Late

NotReady == [probability |-> 0, contact |-> FALSE, ready |-> FALSE]

\* _resolve_decision_threshold and the two thresholds of the hysteresis.
Resolved(p, checkpoint) ==
  LET decision == IF p.decision >= 0 THEN p.decision ELSE checkpoint
  IN [hysteresis |-> p.hysteresis, decision |-> 10 * decision,
      on |-> 10 * (IF p.on < 0 THEN decision ELSE p.on),
      off |-> IF p.off < 0 THEN 7 * decision ELSE 10 * p.off]

\* The constructor refuses an off-threshold above the on-threshold.
Startable(checkpoint) ==
  {c \in {Resolved(p, checkpoint) : p \in Parameters} : c.off <= c.on}

\* Everything but the thresholds.
NothingHeard ==
  /\ states = [m \in MotorIds |-> NoSample] /\ cmds = [m \in MotorIds |-> NoSample]
  /\ steady = FALSE
  /\ window = <<>> /\ prev = NoSample /\ lastPair = NoSample
  /\ contact = FALSE /\ out = NotReady /\ due = TRUE
  /\ log = <<>> /\ value = 0 /\ broken = TRUE

DetectorInit == NothingHeard /\ config \in UNION {Startable(c) : c \in Checkpoints}

-----------------------------------------------------------------------------
(* Subscriptions *)

Present(by) == \A m \in MotorIds : by[m] # NoSample
Stamp(by) == CHOOSE age \in {by[m].stamp : m \in MotorIds} :
               \A m \in MotorIds : age <= by[m].stamp

\* Each topic brings its messages in the order of their stamps.
IsNewer(by, late) == \A m \in MotorIds : by[m] # NoSample => late < by[m].stamp

With(by, motors, sample) == [m \in MotorIds |-> IF m \in motors THEN sample ELSE by[m]]

OnStateArray(motors, late, finite) ==
  /\ IsNewer(states, late)
  /\ states' = With(states, motors, [stamp |-> late, recv |-> 0, finite |-> finite])
  /\ UNCHANGED <<config, cmds, steady, temporal, contact, out, due, history>>

\* The bridge publishes the commands it wrote to the motors in one tick.
OnCmdArray(motors, late, finite) ==
  /\ IsNewer(cmds, late)
  /\ cmds' = With(cmds, motors, [stamp |-> late, recv |-> 0, finite |-> finite])
  /\ UNCHANGED <<config, states, steady, temporal, contact, out, due, history>>

-----------------------------------------------------------------------------
(* Timer *)

\* Mutant: data that is as old as the timeout is stale.
CompleteAndFresh_Strict ==
  /\ Present(states) /\ Present(cmds)
  /\ \A m \in MotorIds : states[m].recv < StateTimeout /\ cmds[m].recv < CmdTimeout
  /\ Stamp(states) - Stamp(cmds) \in -SyncTolerance .. SyncTolerance

CompleteAndFresh ==
  /\ Present(states) /\ Present(cmds)
  /\ \A m \in MotorIds : states[m].recv <= StateTimeout /\ cmds[m].recv <= CmdTimeout
  /\ Stamp(states) - Stamp(cmds) \in -SyncTolerance .. SyncTolerance

StampPair == <<Stamp(states), Stamp(cmds)>>

\* np.isfinite(feature).all()
FeatureIsFinite == \A m \in MotorIds : states[m].finite /\ cmds[m].finite

\* Mutant: the last values outlive the reset.
ResetTemporalState_KeepsPrev ==
  window' = <<>> /\ lastPair' = NoSample /\ UNCHANGED prev

\* _reset_temporal_state
ResetTemporalState == window' = <<>> /\ prev' = NoSample /\ lastPair' = NoSample

\* Mutant: a contact outlives the data it was found in.
PublishSafeDefault_KeepsContact == out' = NotReady /\ UNCHANGED contact

\* _publish_safe_default(False)
PublishSafeDefault == out' = NotReady /\ contact' = FALSE

\* _complete_and_fresh or the features say no.
Unusable ==
  /\ due
  /\ CompleteAndFresh => StampPair # lastPair /\ ~FeatureIsFinite
  /\ ResetTemporalState /\ PublishSafeDefault
  /\ due' = FALSE /\ broken' = TRUE
  /\ UNCHANGED <<config, sensors, log, value>>

\* Mutant: the stamps are looked at before the ages.
SameSample_First ==
  /\ due
  /\ Present(states) /\ Present(cmds) /\ StampPair = lastPair
  /\ due' = FALSE
  /\ UNCHANGED <<config, sensors, temporal, contact, out, history>>

\* Nothing new since the last callback: what was published stays.
SameSample ==
  /\ due
  /\ CompleteAndFresh /\ StampPair = lastPair
  /\ due' = FALSE
  /\ UNCHANGED <<config, sensors, temporal, contact, out, history>>

\* _build_raw_feature: differences to the sample before, or none.
Feature == [value |-> value', delta |-> IF prev = NoSample THEN 0 ELSE value' - prev]

Pushed(queue, element, length) ==
  IF Len(queue) < length THEN Append(queue, element) ELSE Append(Tail(queue), element)

NewSample ==
  /\ due
  /\ CompleteAndFresh /\ StampPair # lastPair /\ FeatureIsFinite
  /\ value' = (value + 1) % ValueCap
  /\ window' = Pushed(window, Feature, WindowLength)
  /\ prev' = value' /\ lastPair' = StampPair
  /\ log' = Pushed(log, broken, LogCap) /\ broken' = FALSE
  /\ due' = FALSE
  /\ UNCHANGED <<config, sensors>>

WarmUp ==
  /\ NewSample
  /\ Len(window') < WindowLength
  /\ PublishSafeDefault

\* The hysteresis, or one threshold.
Decide(probability) ==
  IF config.hysteresis
  THEN 10 * probability > config.on \/ (contact /\ 10 * probability >= config.off)
  ELSE 10 * probability > config.decision

Infer ==
  /\ NewSample
  /\ Len(window') = WindowLength
  /\ \E p \in Probabilities :
       /\ contact' = Decide(p)
       /\ out' = [probability |-> p, contact |-> contact', ready |-> TRUE]

OnTimer == Unusable \/ SameSample \/ WarmUp \/ Infer

-----------------------------------------------------------------------------
(* Time and the world *)

Aged(by) == [m \in MotorIds |->
  IF by[m] = NoSample THEN NoSample
  ELSE [by[m] EXCEPT !.stamp = IF @ < StampCap THEN @ + 1 ELSE @,
                     !.recv = IF @ < RecvCap THEN @ + 1 ELSE @]]

IsNow(sample) == sample # NoSample /\ sample.stamp = 0
InTime(by) == \A m \in MotorIds : IsNow(by[m])

\* A period of the timer passes.
Tick ==
  /\ ~due
  /\ steady => InTime(states) /\ InTime(cmds)
  /\ states' = Aged(states) /\ cmds' = Aged(cmds)
  /\ lastPair' = IF lastPair = NoSample THEN NoSample
                 ELSE [i \in 1 .. 2 |-> IF lastPair[i] <= StampCap THEN lastPair[i] + 1
                                        ELSE lastPair[i]]
  /\ due' = TRUE
  /\ UNCHANGED <<config, steady, window, prev, contact, out, history>>

BecomesSteady ==
  /\ ~steady
  /\ \A m \in MotorIds : ~IsNow(states[m]) /\ ~IsNow(cmds[m])
  /\ steady' = TRUE
  /\ UNCHANGED <<config, states, cmds, temporal, contact, out, due, history>>

Receive ==
  \E motors \in Arrays, late \in 0 .. Late, finite \in BOOLEAN :
    /\ steady => motors = MotorIds /\ late = 0 /\ finite
    /\ OnStateArray(motors, late, finite) \/ OnCmdArray(motors, late, finite)

DetectorNext ==
  \/ Unusable \/ SameSample \/ WarmUp \/ Infer
  \/ Receive \/ Tick \/ BecomesSteady

DetectorSpec == DetectorInit /\ [][DetectorNext]_detectorVars

\* The timer runs, time passes, and once the topics are steady they bring data.
DetectorFair ==
  /\ DetectorSpec
  /\ WF_detectorVars(OnTimer) /\ WF_detectorVars(Tick)
  /\ WF_detectorVars(steady /\ OnStateArray(MotorIds, 0, TRUE))
  /\ WF_detectorVars(steady /\ OnCmdArray(MotorIds, 0, TRUE))

-----------------------------------------------------------------------------
(* Properties *)

\* The features the node has are those of the offline pipeline: where there was
\* no usable data a new episode begins, a probability is given exactly at the
\* ends of the windows that build_window_end_indices finds, it is given for
\* the window ContactWindowDataset has there, and the differences are those of
\* compute_episodewise_delta.
OnlineIsOffline ==
  LET length == Len(log)
      values == [i \in 1 .. length |-> (value - (length - i)) % ValueCap]
      episodes == [i \in 1 .. length |-> Cardinality({j \in 1 .. i : log[j]})]
      deltas == EpisodewiseDelta(values, episodes)
  IN ~broken =>
       /\ out.ready <=> length \in WindowEnds(episodes, WindowLength, 1)
       /\ \A k \in DOMAIN window :
            LET i == length - Len(window) + k
            IN /\ window[k].value = values[i] /\ episodes[i] = episodes[length]
               /\ i > 1 => window[k].delta = deltas[i]

\* Whatever was published last, a ready message never outlives the data it was
\* computed from by more than a period of the timer.
ReadyIsFresh ==
  out.ready => \A m \in MotorIds :
    /\ states[m].recv <= StateTimeout + (IF due THEN 1 ELSE 0)
    /\ cmds[m].recv <= CmdTimeout + (IF due THEN 1 ELSE 0)

\* A contact is raised only by a probability above the on-threshold, held only
\* through samples that follow each other, and ended by nothing but a
\* probability below the off-threshold or a loss of usable data.
Raises == IF config.hysteresis THEN config.on ELSE config.decision
Lowers == IF config.hysteresis THEN config.off ELSE config.decision + 1
ContactFollowsEvidence ==
  [][/\ contact' /\ ~contact => 10 * out'.probability > Raises
     /\ ~contact' /\ contact => broken' \/ 10 * out'.probability < Lowers
     /\ contact' => ~broken' /\ out'.ready /\ out'.contact]_<<contact, out, broken>>

\* When the topics bring finite data in time the node becomes, and stays, ready.
DetectorGetsReady == <>[]steady => <>[]out.ready

\* What the proofs need of the types.
DetectorTypeOK ==
  /\ states \in [MotorIds -> Sample \cup {NoSample}]
  /\ cmds \in [MotorIds -> Sample \cup {NoSample}]
  /\ due \in BOOLEAN /\ contact \in BOOLEAN /\ broken \in BOOLEAN
  /\ window \in Seq([value: Nat, delta: Int]) /\ value \in Nat
  /\ prev \in Nat \cup {NoSample}
  /\ out.ready \in BOOLEAN /\ out.contact \in BOOLEAN /\ out.probability \in Nat

Started == config.hysteresis \in BOOLEAN /\ {config.decision, config.on, config.off} \subseteq Int

\* The inductive strengthening of ReadyIsFresh: what was never heard of a motor
\* is never the base of a ready message.
FreshInv == out.ready => Present(states) /\ Present(cmds) /\ ReadyIsFresh

\* That of ContactFollowsEvidence: a contact stands only beside a full window of
\* samples that follow each other, and is the one that was published.
ContactInv ==
  contact => Len(window) = WindowLength /\ ~broken /\ out.ready /\ out.contact

\* That of OnlineIsOffline: the window ends where the log ends, and begins after
\* samples were lost unless it is full.
Ago(back) == (value - back) % ValueCap
FeatureOK(back) ==
  LET feature == window[Len(window) - back]
      i == Len(log) - back
  IN /\ feature.value = Ago(back)
     /\ back < Len(window) - 1 => ~log[i]
     /\ i > 1 => feature.delta = IF log[i] THEN 0 ELSE Ago(back) - Ago(back + 1)
WindowInv ==
  /\ log \in Seq(BOOLEAN) /\ Len(log) <= LogCap /\ value \in 0 .. ValueCap - 1
  /\ broken => window = <<>> /\ prev = NoSample
  /\ ~broken =>
       /\ prev = value /\ Len(window) \in 1 .. WindowLength /\ Len(window) <= Len(log)
       /\ out.ready <=> Len(window) = WindowLength
       /\ Len(window) = WindowLength \/ log[Len(log) - Len(window) + 1]
       /\ \A back \in 0 .. Len(window) - 1 : FeatureOK(back)

DetectorInv == Started /\ DetectorTypeOK /\ FreshInv /\ ContactInv

=============================================================================
