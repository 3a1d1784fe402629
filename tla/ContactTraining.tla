--------------------------- MODULE ContactTraining ---------------------------
(***************************************************************************)
(* Training a contact detector: train_detectors (simulated data, its own   *)
(* validation set, early stopping) and train_real_detector (recorded       *)
(* episodes, split here).  After every epoch the model is validated, a     *)
(* threshold is searched, and the epoch may become the best so far; the    *)
(* best one is saved with its threshold.                                   *)
(*                                                                         *)
(* What an epoch learns is abstracted to the probabilities and the loss it *)
(* has on the validation windows, which may be any, and weights to the     *)
(* epoch they are of.  train_detectors keeps value.detach().cpu() of each  *)
(* tensor: a copy if the model is on a GPU, the live tensor on the CPU.    *)
(***************************************************************************)
EXTENDS ContactData

CONSTANTS
  Plans,     \* the ways to train: see PlanAssumption
  Scores,    \* probabilities a model may give
  Losses     \* validation losses

\* label, episode: the samples; group: kind and condition of each episode;
\* window, stride, delay, radius, clearValidation: how windows are made and
\* which are left out; split, requested: which episodes validate; policy, recall,
\* fpr, points: how a threshold is chosen, close: the scores np.isclose takes for one;
\* metric, minDelta, patience, warmup, epochs: which epoch is saved and how many
\* there are; configured: the threshold the configuration gives, or -1; device:
\* where the model is; trainer: train_detectors (sim) or train_real_detector (real).
ASSUME PlanAssumption ==
  /\ Scores \subseteq Nat /\ Losses \subseteq Nat
  /\ \A p \in Plans :
       /\ p.label \in Seq({0, 1}) /\ p.episode \in Seq(Nat) /\ Len(p.label) = Len(p.episode)
       /\ p.window \in Nat \ {0} /\ p.points \in Nat \ {0, 1}
       /\ p.policy \in {"f1", "f2", "recall_constrained_f1", "fpr_constrained_f1"}
       /\ p.policy = "fpr_constrained_f1" => p.trainer = "real"
       /\ p.close \in Nat /\ p.device \in {"cpu", "gpu"}
       /\ p.metric \in {"val_f1", "val_f2", "val_recall", "val_loss", "selection_score"}
       /\ {p.recall, p.fpr, p.minDelta} \subseteq Nat \X (Nat \ {0}) /\ p.recall[1] <= p.recall[2]
       /\ p.trainer \in {"sim", "real"} /\ {p.epochs, p.patience} \subseteq Nat \ {0}
       /\ p.trainer = "real" => p.minDelta = <<0, 1>> /\ p.patience > p.epochs /\ p.metric = "val_f1"
                                 /\ p.configured = -1
                                 /\ p.split \in {"stratified_by_condition", "tail"}

VARIABLES
  plan,     \* what was chosen for this training
  training, \* running, ended or over
  epoch,    \* epochs completed
  val,      \* the last validation: scores, loss and the threshold found
  best,     \* best_checkpoint_rank, best_epoch and best_threshold
  best_state, \* the epoch the weights kept with them are of
  stale,    \* stale_epochs
  top       \* history: the highest rank of an epoch so far

trainingVars == <<plan, training, epoch, val, best, best_state, stale, top>>

-----------------------------------------------------------------------------
(* The data of a plan *)

\* load_episode keeps the labels; train_detectors shifts them.
Labels(p) ==
  IF p.trainer = "sim" THEN ShiftedLabels(p.label, p.episode, p.delay) ELSE p.label

\* The windows a model is validated on.  Simulated data has a validation set of
\* its own, of which the plan gives the samples.
ValidationEnds(p) ==
  LET all == WindowEnds(p.episode, p.window, p.stride)
      clear == AwayFromChanges(p.label, p.episode, p.radius)
      mine == IF p.trainer = "sim" THEN all
              ELSE {e \in all : p.episode[e] \in ValidationEpisodes(p)}
  IN {e \in mine : p.clearValidation => e \in clear}

\* The windows train_real_detector trains on.
TrainingEnds(p) ==
  {e \in WindowEnds(p.episode, p.window, p.stride) :
     /\ p.episode[e] \in TrainingEpisodes(p)
     /\ e \in AwayFromChanges(p.label, p.episode, p.radius)}

\* Every validation a plan can see: it gives each window a probability.
Validations == [p \in Plans |->
  LET ends == ValidationEnds(p)
      labels == [e \in ends |-> Labels(p)[e]]
  IN {[scores |-> scores, found |-> SearchThreshold(scores, labels, p)] :
        scores \in [ends -> Scores]}]

-----------------------------------------------------------------------------
(* The rank of an epoch *)

\* checkpoint_rank_from_epoch
Rank(p, v) ==
  IF p.metric = "val_f1" THEN <<v.found.metrics.f1, <<-v.loss, 1>>>>
  ELSE IF p.metric = "val_loss" THEN <<<<-v.loss, 1>>>>
  ELSE IF p.metric = "val_recall" THEN <<v.found.metrics.recall>>
  ELSE IF p.metric = "val_f2" \/ p.policy = "f2" THEN <<v.found.metrics.f2>>
  ELSE <<v.found.metrics.f1>>

Minus(x, y) == <<x[1] * y[2] - y[1] * x[2], x[2] * y[2]>>

\* Mutant: a tie goes to the later epoch.
RankIsBetter_OnTies(rank, other, minDelta) ==
  \/ Above(Minus(rank[1], other[1]), minDelta)
  \/ Same(rank[1], other[1])

\* checkpoint_rank_is_better
RankIsBetter(rank, other, minDelta) ==
  \/ Above(Minus(rank[1], other[1]), minDelta)
  \/ Same(rank[1], other[1]) /\ LexAbove(Tail(rank), Tail(other))

-----------------------------------------------------------------------------
(* Training *)

NoVal == [scores |-> <<>>]
NoBest == [epoch |-> 0]

TrainingInit ==
  /\ plan \in {p \in Plans : ValidationEnds(p) # {}}
  /\ training = "running" /\ epoch = 0
  /\ val = NoVal /\ best = NoBest /\ best_state = 0 /\ stale = 0 /\ top = <<>>

\* What train_detectors keeps of a model on the CPU goes on being trained;
\* train_real_detector makes a deep copy.
KeepsLiveTensors == plan.trainer = "sim" /\ plan.device = "cpu"

\* One epoch: train, evaluate_model and the search for a threshold.
Validate ==
  /\ training = "running" /\ val = NoVal
  /\ epoch' = epoch + 1
  /\ \E v \in Validations[plan], loss \in Losses :
       val' = [scores |-> v.scores, found |-> v.found, loss |-> loss]
  /\ best_state' = IF best # NoBest /\ KeepsLiveTensors THEN epoch' ELSE best_state
  /\ UNCHANGED <<plan, training, best, stale, top>>

EndsEarly(staleNow) == epoch >= plan.warmup /\ staleNow >= plan.patience

Checkpoint(rank) == [epoch |-> epoch, rank |-> rank, threshold |-> val.found.threshold]

Ended(staleNow) == IF epoch = plan.epochs \/ EndsEarly(staleNow) THEN "ended" ELSE "running"

\* Is the epoch the best one, or another one without progress?
Select ==
  /\ training = "running" /\ val # NoVal
  /\ LET rank == Rank(plan, val)
         better == best = NoBest \/ RankIsBetter(rank, best.rank, plan.minDelta)
     IN /\ best' = IF better THEN Checkpoint(rank) ELSE best
        /\ best_state' = IF better THEN epoch ELSE best_state
        /\ stale' = IF better THEN 0 ELSE stale + 1
        /\ training' = Ended(stale')
        /\ top' = IF top = <<>> \/ LexAbove(rank, top) THEN rank ELSE top
  /\ val' = NoVal
  /\ UNCHANGED <<plan, epoch>>

TrainingNext == Validate \/ Select

TrainingSpec == TrainingInit /\ [][TrainingNext]_trainingVars

\* The threshold that is saved: the configured one, or the one of the best epoch.
DecisionThreshold == IF plan.configured >= 0 THEN plan.configured ELSE best.threshold

-----------------------------------------------------------------------------
(* Properties *)

\* Selecting by min_delta and by ties, epoch after epoch, never loses the best
\* one: no epoch so far was better than the checkpoint by more than min_delta in
\* the metric and none with the same metric had a lower loss; and training ends
\* early only when the checkpoint has gone unchallenged for the whole patience.  The
\* weights that are kept are those of that epoch where they are a copy.  (Of a model
\* that train_detectors trains on the CPU they are those of the last epoch, saved
\* under the number, the metrics and the threshold of the best one.)
CheckpointIsBest ==
  best # NoBest =>
    /\ ~KeepsLiveTensors => best_state = best.epoch
    /\ ~Above(Minus(top[1], best.rank[1]), plan.minDelta)
    /\ Same(top[1], best.rank[1]) => ~LexAbove(top, best.rank)
    /\ stale = (IF val = NoVal THEN epoch ELSE epoch - 1) - best.epoch
    /\ training = "ended" =>
         \/ epoch = plan.epochs
         \/ epoch >= plan.warmup /\ epoch - best.epoch >= plan.patience

\* The threshold keeps what its policy promises on the validation windows: the
\* recall asked for whenever there is a contact at all; the false-positive rate
\* allowed, or the least one any cut through the scores has; and while all scores
\* are tried (there are few, and np.isclose does not take them for one), no cut that
\* does so has a better F1 (F2 for that policy).  Training on recorded episodes has
\* seen no sample of those windows, but for those of an episode that is the only one
\* of its kind under the tail split, on which it trains and validates.
ThresholdKeepsPromise ==
  val # NoVal =>
    LET ends == ValidationEnds(plan)
        labels == [e \in ends |-> Labels(plan)[e]]
        cuts == {val.scores[e] : e \in ends}
        at == [t \in cuts \cup {val.found.threshold} |-> Metrics(val.scores, labels, t)]
        mine == at[val.found.threshold]
        allowed(t) ==
          /\ plan.policy = "recall_constrained_f1" => AtLeast(at[t].recall, plan.recall)
          /\ plan.policy = "fpr_constrained_f1" => AtLeast(plan.fpr, at[t].fpr)
        score(t) == IF plan.policy = "f2" THEN at[t].f2 ELSE at[t].f1
        anyContact == \E e \in ends : labels[e] = 1
    IN /\ plan.policy = "recall_constrained_f1" /\ anyContact => allowed(val.found.threshold)
       /\ plan.policy = "fpr_constrained_f1" =>
            allowed(val.found.threshold) \/ \A t \in cuts : ~Above(mine.fpr, at[t].fpr)
       /\ Cardinality(cuts) <= plan.points
          /\ (plan.policy = "fpr_constrained_f1" \/ ~AllClose(val.scores, plan.close)) =>
            \A t \in cuts : allowed(t) => ~Above(score(t), score(val.found.threshold))
       /\ plan.trainer = "real" => \A e \in ends, seen \in TrainingEnds(plan) :
            \/ WindowOf(e, plan.window) \cap WindowOf(seen, plan.window) = {}
            \/ IsShared(plan, plan.episode[e]) /\ plan.episode[seen] = plan.episode[e]

\* The inductive strengthening: a validation is one the plan can see, and the best
\* rank and the highest one are there from the first epoch on.
TrainingTypeOK ==
  /\ plan \in Plans /\ ValidationEnds(plan) # {}
  /\ {epoch, stale} \subseteq Nat
  /\ val # NoVal => \E v \in Validations[plan], loss \in Losses :
                      val = [scores |-> v.scores, found |-> v.found, loss |-> loss]

RanksAreKept ==
  IF best = NoBest
  THEN top = <<>> /\ training = "running" /\ epoch = IF val = NoVal THEN 0 ELSE 1
  ELSE /\ best.epoch \in Nat
       /\ \A rank \in {best.rank, top} : \E v \in Validations[plan], loss \in Losses :
            rank = Rank(plan, [found |-> v.found, loss |-> loss])

TrainingInv == TrainingTypeOK /\ RanksAreKept /\ CheckpointIsBest

=============================================================================
