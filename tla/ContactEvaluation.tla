--------------------------- MODULE ContactEvaluation ---------------------------
(***************************************************************************)
(* evaluate_detectors: how good a detector is on a split, by samples, by   *)
(* contact events, by modes of the trajectory and by strengths of contact. *)
(*                                                                         *)
(* A detector is the probabilities it gives to the windows, which may be   *)
(* any.  Sums stand for means and rates.                                   *)
(***************************************************************************)
EXTENDS SimDataset

CONSTANTS
  Likelihoods,  \* probabilities of a window
  Thresholds,   \* of the sweep
  Settings      \* ways to evaluate: window, stride, consecutive, margin, radius and bins

ASSUME EvaluationAssumption ==
  /\ Likelihoods \subseteq Nat /\ Thresholds \subseteq Nat
  /\ \A s \in Settings : /\ {s.window, s.stride, s.consecutive} \subseteq Nat \ {0}
                         /\ {s.margin, s.radius} \subseteq Nat
                         /\ s.bins \in Seq(Nat \X Nat)

VARIABLES
  setting,    \* the chosen way; evaluation has not begun when it is NoSetting
  likelihood  \* probability of each window

evaluationVars == <<setting, likelihood>>

NoSetting == [window |-> 0]

EvaluationStart == setting = NoSetting /\ likelihood = <<>>

-----------------------------------------------------------------------------
(* The windows of the test split *)

Split == saved[Len(saved)]
Labels == [i \in DOMAIN Split.samples |-> Split.samples[i].label]
EpisodeIds == [i \in DOMAIN Split.samples |-> Split.samples[i].episode]

\* The windows in their order: where each of them ends.
EndIndices(chosen) ==
  LET ends == WindowEnds(EpisodeIds, chosen.window, chosen.stride)
      isEnd(i, w) == Cardinality({j \in ends : j < i}) = w - 1
  IN [w \in 1 .. Cardinality(ends) |-> CHOOSE i \in ends : isEnd(i, w)]

\* What is looked up at the ends of the windows.
AtWindows(chosen) == LET ends == EndIndices(chosen)
                     IN [w \in DOMAIN ends |-> Split.samples[ends[w]]]

\* run_model_inference
Begin ==
  /\ setting = NoSetting /\ Len(saved) = Len(Splits)
  /\ setting' \in Settings
  /\ likelihood' \in [DOMAIN EndIndices(setting') -> Likelihoods]

EvaluationNext == Begin /\ UNCHANGED datasetVars

\* A dataset is made and evaluated.
EvaluationSpec ==
  /\ DatasetInit /\ EvaluationStart
  /\ [][(DatasetNext /\ UNCHANGED evaluationVars) \/ EvaluationNext]_<<datasetVars, evaluationVars>>

Positive(w, threshold) == likelihood[w] >= threshold

-----------------------------------------------------------------------------
(* By events *)

NotDetected == 0

Stable(good, until) ==
  LET first == until - setting.consecutive + 1
  IN first >= 1 /\ \A w \in first .. until : w \in good

\* Mutant: a run of positive windows has to be exactly so long.
FirstStableDetection_ExactRun(search, threshold) ==
  LET good == {w \in search : Positive(w, threshold)}
      stable == {w \in good : /\ Stable(good, w + setting.consecutive - 1)
                              /\ w - 1 \notin good /\ w + setting.consecutive \notin good}
  IN IF stable = {} THEN NotDetected ELSE CHOOSE w \in stable : \A v \in stable : w <= v

\* The first of consecutive positive windows in the search, or none.
FirstStableDetection(search, threshold) ==
  LET good == {w \in search : Positive(w, threshold)}
      stable == {w \in good : Stable(good, w + setting.consecutive - 1)}
  IN IF stable = {} THEN NotDetected ELSE CHOOSE w \in stable : \A v \in stable : w <= v

\* Runs of positive windows that are away from every event, counted where they
\* become long enough.
StableFalseAlarms(pure, threshold) ==
  LET good == {w \in pure : Positive(w, threshold)}
  IN Cardinality({w \in good : Stable(good, w) /\ ~Stable(good, w - 1)})

\* Mutant: the margin is on both sides of the event.
Search_BothSides(event, windows) ==
  {w \in DOMAIN windows : /\ event.first - setting.margin <= windows[w]
                          /\ windows[w] <= event.last + setting.margin}

\* The windows that end in an event, or soon after it.
Search(event, windows) ==
  {w \in DOMAIN windows : event.first <= windows[w] /\ windows[w] <= event.last + setting.margin}

\* event_latency_metrics
EventMetrics(threshold) ==
  LET ends == EndIndices(setting)
      table == Split.events
      near(e) == {w \in DOMAIN ends : /\ table[e].first - setting.margin <= ends[w]
                                      /\ ends[w] <= table[e].last + setting.margin}
      detected == [e \in DOMAIN table |-> FirstStableDetection(Search(table[e], ends), threshold)]
      time(i) == Split.samples[i].time
  IN [detected |-> detected,
      latency |-> [e \in {e \in DOMAIN table : detected[e] # NotDetected} |->
                     time(ends[detected[e]]) - time(table[e].first)],
      alarms |-> StableFalseAlarms(DOMAIN ends \ UNION {near(e) : e \in DOMAIN table}, threshold)]

-----------------------------------------------------------------------------
(* By samples *)

\* positive_segments of each episode: first and last window.
Segments(windows) ==
  LET contact(w) == w \in DOMAIN windows /\ windows[w].label = 1
      with(w, v) == contact(w) /\ contact(v) /\ windows[w].episode = windows[v].episode
  IN {s \in (DOMAIN windows) \X (DOMAIN windows) :
        /\ s[1] <= s[2] /\ \A w \in s[1] .. s[2] : with(s[1], w)
        /\ ~with(s[1] - 1, s[1]) /\ ~with(s[2], s[2] + 1)}

\* compute_detection_delay: of each segment, its delay when it is detected.
DetectionDelay(windows, threshold) ==
  LET hits(s) == {w \in s[1] .. s[2] : Positive(w, threshold)}
      delay(s) == windows[CHOOSE w \in hits(s) : \A v \in hits(s) : w <= v].time
                    - windows[s[1]].time
  IN [s \in {s \in Segments(windows) : hits(s) # {}} |-> delay(s)]

\* threshold_sweep: the delays for each threshold.
ThresholdSweep(windows) == [threshold \in Thresholds |-> DetectionDelay(windows, threshold)]

\* binary_classification_metrics on some of the windows.
Counts(chosen, windows, threshold) ==
  LET count(label, positive) ==
        Cardinality({w \in chosen : windows[w].label = label /\ (Positive(w, threshold) <=> positive)})
  IN [tp |-> count(1, TRUE), fp |-> count(0, TRUE), fn |-> count(1, FALSE), tn |-> count(0, FALSE)]

\* build_mode_split_payload
ModeMetrics(windows, threshold) ==
  [mode \in {windows[w].mode : w \in DOMAIN windows} |->
     Counts({w \in DOMAIN windows : windows[w].mode = mode}, windows, threshold)]

\* Mutant: the upper bound belongs to every bin.
InBin_Closed(magnitude, bins, b) == bins[b][1] <= magnitude /\ magnitude <= bins[b][2]

\* value_in_bin
InBin(magnitude, bins, b) ==
  /\ bins[b][1] <= magnitude
  /\ magnitude < bins[b][2] \/ (b = Len(bins) /\ magnitude = bins[b][2])

\* build_torque_bin_metrics: windows of the events of a bin, and windows without
\* contact of their episodes.
TorqueBinMetrics(windows, threshold) ==
  LET table == Split.events
      inBin(b) == {e \in DOMAIN table : InBin(table[e].magnitude, setting.bins, b)}
      positive(b) == {w \in DOMAIN windows : \E e \in inBin(b) : table[e].id = windows[w].active}
      negative(b) == {w \in DOMAIN windows :
                        windows[w].label = 0 /\ \E e \in inBin(b) : table[e].episode = windows[w].episode}
  IN [b \in DOMAIN setting.bins |-> Counts(positive(b) \cup negative(b), windows, threshold)]

\* transition_excluded_sample_metrics
TransitionExcluded(windows, threshold) ==
  LET ends == EndIndices(setting)
      kept == AwayFromChanges(Labels, EpisodeIds, setting.radius)
  IN Counts({w \in DOMAIN windows : ends[w] \in kept}, windows, threshold)

-----------------------------------------------------------------------------
(* Properties *)

\* A higher threshold of the sweep finds no event that a lower one does not, and
\* none in an earlier window: by events as by samples, whatever runs of positives it
\* breaks up.
HigherThresholdFindsLess ==
  setting # NoSetting =>
    \E sweep \in {ThresholdSweep(AtWindows(setting))} :
    \A low, high \in Thresholds : low < high =>
      \E loose \in {EventMetrics(low).detected}, strict \in {EventMetrics(high).detected} :
        /\ \A e \in DOMAIN strict : strict[e] # NotDetected =>
             loose[e] # NotDetected /\ loose[e] <= strict[e]
        /\ \A s \in DOMAIN sweep[high] :
             s \in DOMAIN sweep[low] /\ sweep[low][s] <= sweep[high][s]

\* The two ways to count detections do not contradict each other.  A detection of
\* an event while it lasts is a detection of the segment its label makes, and the
\* event is not found before the segment; where one positive window is enough, a
\* segment is found only if one of its events is.  No latency is negative, unless
\* the margin reaches into the next episode, where time begins again.
EventsAgreeWithSamples ==
  setting # NoSetting => \A threshold \in Thresholds :
    \E windows \in {AtWindows(setting)}, ends \in {EndIndices(setting)},
       found \in {EventMetrics(threshold)}, segments \in {Segments(AtWindows(setting))} :
    \E delays \in {DetectionDelay(windows, threshold)} :
      LET table == Split.events
          of(w) == {s \in segments : s[1] <= w /\ w <= s[2]}
      IN /\ \A e \in DOMAIN found.latency :
              LET w == found.detected[e]
              IN /\ ends[w] <= table[e].last => \A s \in of(w) :
                      /\ s \in DOMAIN delays
                      /\ windows[s[1]].time + delays[s] <= windows[w].time
                 /\ windows[w].episode = table[e].episode => found.latency[e] >= 0
         /\ setting.consecutive = 1 => \A s \in DOMAIN delays :
              \E e \in DOMAIN found.latency :
                /\ table[e].first <= ends[s[2]] /\ ends[s[1]] <= table[e].last
                /\ ends[found.detected[e]] <= table[e].last + setting.margin

TotalOf(part, figure) == FoldSet(LAMBDA p, n : n + part[p][figure], 0, DOMAIN part)

\* Nothing is counted twice or lost when the windows are taken apart: the modes add
\* up to the whole; so do the contacts in the bins, when the bins hold every
\* magnitude and do not overlap; and what is away from changes is a part of the whole.
PartsAddUp ==
  setting # NoSetting => \A threshold \in Thresholds :
    \E windows \in {AtWindows(setting)} :
    \E whole \in {Counts(DOMAIN windows, windows, threshold)},
       modes \in {ModeMetrics(windows, threshold)}, bins \in {TorqueBinMetrics(windows, threshold)},
       clear \in {TransitionExcluded(windows, threshold)} :
      LET isHeld(magnitude) == \E b \in DOMAIN setting.bins : InBin(magnitude, setting.bins, b)
          isApart == \A a, b \in DOMAIN setting.bins :
                       a < b => setting.bins[a][2] <= setting.bins[b][1]
      IN /\ \A figure \in DOMAIN whole : /\ TotalOf(modes, figure) = whole[figure]
                                         /\ clear[figure] <= whole[figure]
         /\ isApart /\ (\A e \in DOMAIN Split.events : isHeld(Split.events[e].magnitude)) =>
              TotalOf(bins, "tp") = whole.tp /\ TotalOf(bins, "fn") = whole.fn

-----------------------------------------------------------------------------
(* Why they hold *)

\* An evaluation has a probability for each window of a dataset that no longer changes.
EvaluationInv ==
  /\ DatasetInv
  /\ setting # NoSetting =>
       /\ setting \in Settings /\ Len(saved) = Len(Splits)
       /\ likelihood \in [DOMAIN EndIndices(setting) -> Likelihoods]

=============================================================================
