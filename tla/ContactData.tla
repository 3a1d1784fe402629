----------------------------- MODULE ContactData -----------------------------
(***************************************************************************)
(* The algorithms of contact_detection on recorded samples: episodes,      *)
(* windows, delta features, labels, the split into training and validation *)
(* and the search for a decision threshold.                                *)
(*                                                                         *)
(* A log is a sequence of samples; labels are 0 or 1, probabilities are    *)
(* integers, rates are fractions <<numerator, denominator>>.               *)
(***************************************************************************)
EXTENDS Integers, Sequences, FiniteSets

Sets == INSTANCE FiniteSetsExt
Maps == INSTANCE Functions

-----------------------------------------------------------------------------
(* Episodes and windows *)

\* iter_episode_slices: the first and the last sample of each run of one id.
EpisodeSlices(episode) ==
  LET samples == DOMAIN episode
      alike(i, j) == episode[i] = episode[j]
  IN {s \in samples \X samples :
        /\ s[1] <= s[2] /\ \A i \in s[1] .. s[2] : alike(i, s[1])
        /\ s[1] - 1 \notin samples \/ ~alike(s[1] - 1, s[1])
        /\ s[2] + 1 \notin samples \/ ~alike(s[2] + 1, s[2])}

\* build_window_end_indices
WindowEnds(episode, length, stride) ==
  UNION {{e \in s[1] + length - 1 .. s[2] : (e - (s[1] + length - 1)) % stride = 0} :
           s \in EpisodeSlices(episode)}

WindowOf(end, length) == end - length + 1 .. end

\* compute_episodewise_delta
EpisodewiseDelta(values, episode) ==
  [i \in DOMAIN values |->
     IF i > 1 /\ episode[i] = episode[i - 1] THEN values[i] - values[i - 1] ELSE 0]

\* shift_labels_episodewise
ShiftedLabels(labels, episode, delay) ==
  [i \in DOMAIN labels |->
     IF \E s \in EpisodeSlices(episode) : s[1] <= i - delay /\ i <= s[2]
     THEN labels[i - delay] ELSE 0]

\* transition_exclusion_sample_mask and transition_keep_mask: the samples that
\* are not within radius of a change of the label in their episode.
AwayFromChanges(labels, episode, radius) ==
  {i \in DOMAIN labels :
     radius > 0 => \A s \in EpisodeSlices(episode) : \A change \in s[1] + 1 .. s[2] :
       labels[change] # labels[change - 1] =>
         ~(i \in s[1] .. s[2] /\ i \in change - radius .. change + radius)}

-----------------------------------------------------------------------------
(* Metrics: counts of the samples, and fractions of them *)

MaxInt(a, b) == IF a < b THEN b ELSE a
AtLeast(x, y) == x[1] * y[2] >= y[1] * x[2]
Above(x, y) == x[1] * y[2] > y[1] * x[2]
Same(x, y) == x[1] * y[2] = y[1] * x[2]

\* binary_classification_metrics and fbeta_from_metrics, for what is predicted
\* at a threshold.
Metrics(scores, labels, threshold) ==
  LET count(label, positive) ==
        Cardinality({i \in DOMAIN labels :
                       labels[i] = label /\ (scores[i] >= threshold <=> positive)})
      tp == count(1, TRUE)   fp == count(0, TRUE)
      fn == count(1, FALSE)  tn == count(0, FALSE)
      fbeta(beta) == <<(1 + beta * beta) * tp,
                       MaxInt((1 + beta * beta) * tp + beta * beta * fn + fp, 1)>>
  IN [f1 |-> fbeta(1), f2 |-> fbeta(2),
      precision |-> <<tp, MaxInt(tp + fp, 1)>>, recall |-> <<tp, MaxInt(tp + fn, 1)>>,
      fpr |-> <<fp, MaxInt(fp + tn, 1)>>]

\* Python's order on tuples.
LexAbove(key, other) ==
  \E i \in DOMAIN key : Above(key[i], other[i]) /\ \A j \in 1 .. i - 1 : Same(key[j], other[j])

-----------------------------------------------------------------------------
(* The threshold *)

\* The scores themselves, or linspace over their range when there are too many.
Candidates(scores, points) ==
  LET unique == Maps!Range(scores)
      low == Sets!Min(unique)  high == Sets!Max(unique)
  IN IF Cardinality(unique) <= points THEN unique
     ELSE {low + (i * (high - low)) \div (points - 1) : i \in 0 .. points - 1}

\* np.isclose takes the lowest and the highest score for one.
AllClose(scores, close) ==
  Sets!Max(Maps!Range(scores)) - Sets!Min(Maps!Range(scores)) <= close

\* The thresholds a search tries: search_threshold_with_policy only the lowest score
\* where all are alike, search_real_threshold has no such exception.
Tried(scores, plan) ==
  IF plan.policy # "fpr_constrained_f1" /\ AllClose(scores, plan.close)
  THEN {Sets!Min(Maps!Range(scores))}
  ELSE Candidates(scores, plan.points)

\* What a policy compares two thresholds by.
PolicyKey(policy, m) ==
  IF policy = "f2" THEN <<m.f2, m.f1, m.recall>> ELSE <<m.f1, m.recall, m.precision>>

\* What a policy asks of a threshold.
Meets(plan, m) ==
  /\ plan.policy = "recall_constrained_f1" => AtLeast(m.recall, plan.recall)
  /\ plan.policy = "fpr_constrained_f1" => ~Above(m.fpr, plan.fpr)

\* What it compares by when no threshold does what it asks.
FallbackKey(policy, m) ==
  IF policy = "recall_constrained_f1" THEN <<m.recall, m.f1, m.precision>>
  ELSE <<<<-m.fpr[1], m.fpr[2]>>, m.f1, m.recall, m.precision>>

\* Mutant: the constraint on the threshold is not looked at.
SearchThreshold_Unconstrained(scores, labels, plan) ==
  LET at == [t \in Tried(scores, plan) |-> Metrics(scores, labels, t)]
      key(t) == PolicyKey(plan.policy, at[t]) \o <<<<-t, 1>>>>
      best == CHOOSE t \in DOMAIN at : \A u \in DOMAIN at : ~LexAbove(key(u), key(t))
  IN [threshold |-> best, met |-> TRUE, metrics |-> at[best]]

\* search_threshold_with_policy and search_real_threshold
SearchThreshold(scores, labels, plan) ==
  LET at == [t \in Tried(scores, plan) |-> Metrics(scores, labels, t)]
      valid == {t \in DOMAIN at : Meets(plan, at[t])}
      met == valid # {}
      key(t) == (IF met THEN PolicyKey(plan.policy, at[t]) ELSE FallbackKey(plan.policy, at[t]))
                  \o <<<<-t, 1>>>>
      pool == IF met THEN valid ELSE DOMAIN at
      best == CHOOSE t \in pool : \A u \in pool : ~LexAbove(key(u), key(t))
  IN [threshold |-> best, met |-> met, metrics |-> at[best]]

-----------------------------------------------------------------------------
(* The split *)

\* Python's round of a fifth.
RoundFifth(n) == (2 * n + 5) \div 10

\* stratified_by_condition: how many of the n episodes of one condition are for
\* validation; a condition with one episode only trains.
ValidationCount(n) == IF n = 1 THEN 0 ELSE LET fifth == RoundFifth(n)
                                               least == MaxInt(1, fifth)
                                           IN IF least > n - 1 THEN n - 1 ELSE least

\* tail, split_group: how many of the n episodes of one kind are; the only one of
\* its kind is for validation and for training.
TailCount(n, requested) ==
  IF n = 1 THEN 1 ELSE MaxInt(1, IF requested < n - 1 THEN requested ELSE n - 1)

\* Episodes are numbered in the order of their names; group is the kind and the
\* condition of each, or for tail its kind.
LikeEpisodes(plan, e) == {f \in DOMAIN plan.group : plan.group[f] = plan.group[e]}

\* split_episodes: the later ones of each group.
ValidationEpisodes(plan) ==
  LET count(e) == LET n == Cardinality(LikeEpisodes(plan, e))
                  IN IF plan.split = "tail" THEN TailCount(n, plan.requested[plan.group[e]])
                     ELSE ValidationCount(n)
  IN {e \in DOMAIN plan.group :
        Cardinality({f \in LikeEpisodes(plan, e) : f > e}) < count(e)}

IsShared(plan, e) == plan.split = "tail" /\ LikeEpisodes(plan, e) = {e}

TrainingEpisodes(plan) ==
  {e \in DOMAIN plan.group : e \in ValidationEpisodes(plan) => IsShared(plan, e)}

=============================================================================
