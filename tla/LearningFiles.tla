----------------------------- MODULE LearningFiles -----------------------------
(***************************************************************************)
(* train_detectors and evaluate_detectors: programs that are started by    *)
(* hand, one after the other or side by side, and share the files of a     *)
(* stage.  An ablation has a directory of its own under that of the stage; *)
(* the table of ablations is rebuilt from what is found there.             *)
(*                                                                         *)
(* Of a file is kept which training made it from which data, of metrics    *)
(* also which files they were made from.  The data do not change.  A       *)
(* program that is killed may leave the file it was writing broken, and    *)
(* beside what it has written the files of the training before it.         *)
(***************************************************************************)
EXTENDS Integers, Sequences, FiniteSets

CONSTANTS
  Trainers,    \* invocations of train_detectors
  Evaluators,  \* invocations of evaluate_detectors
  Stage,       \* the directory of the stage
  Tags,        \* those of the ablations, sorted
  Commands,    \* the ways to train: in which directory, with which GRU, and models at the end
  Options,     \* the ways to evaluate: files that are given, and whether results have a suffix
  Nobody       \* no training

Programs == Trainers \cup Evaluators
Ablations == {Tags[i] : i \in DOMAIN Tags}
Directories == {Stage} \cup Ablations

Models == {"scaler", "threshold", "mlp", "gru", "mlp_final", "gru_final"}
Roles == {"threshold", "scaler", "mlp", "gru"}

ASSUME FilesAssumption ==
  /\ Trainers \cap Evaluators = {} /\ Nobody \notin Trainers
  /\ Tags \in Seq(Ablations) /\ Stage \notin Ablations
  /\ \A c \in Commands : /\ c.in \in Directories /\ c.final \in BOOLEAN
                         /\ c.reuse \subseteq Directories /\ Cardinality(c.reuse) <= 1
  /\ \A o \in Options : /\ o.suffix \in BOOLEAN /\ DOMAIN o.given \subseteq Roles
                        /\ \A role \in DOMAIN o.given : o.given[role] \in [in : Directories, file : Models]

VARIABLES
  disk,        \* per directory: its files
  ablations,   \* rows of ablation_summary
  program,     \* what each process does, and what it still has to do
  lately       \* history, per directory: the training that was started last

learningVars == <<disk, ablations, program, lately>>

-----------------------------------------------------------------------------
(* Files *)

NoFile == [is |-> "missing"]
Broken == [is |-> "broken"]
Made(training, data) == [training |-> training, data |-> data]

\* train_fixed_epoch_model: its epochs and its threshold are those of another one.
FixedEpochs(training, source) ==
  [training |-> training, data |-> "trainval", threshold |-> source.training]

Variants == {"best", "trainval_final"}
FileOf(role, variant) ==
  IF variant = "best" \/ role \in {"threshold", "scaler"} THEN role
  ELSE IF role = "mlp" THEN "mlp_final" ELSE "gru_final"

\* What is evaluated is in the models of the directory, unless a path is given.
OwnPlaces(d, variant) == [role \in Roles |-> [in |-> d, file |-> FileOf(role, variant)]]
PathsOf(d, variant, given) ==
  [role \in Roles |-> IF role \in DOMAIN given THEN given[role] ELSE OwnPlaces(d, variant)[role]]

\* The metrics of a split, with the suffix of the variant.  No program reads those
\* with a suffix of their own: one name stands for all of them.
EvaluatedSplits == {"validation", "test"}
Output(split, variant, suffix) ==
  IF suffix THEN IF split = "validation" THEN "validation_named" ELSE "test_named"
  ELSE IF variant = "best" THEN split
  ELSE IF split = "validation" THEN "validation_final" ELSE "test_final"

MetricsFiles ==
  {Output(split, variant, suffix) : split \in EvaluatedSplits, variant \in Variants, suffix \in BOOLEAN}
Files == Models \cup {"checkpoints"} \cup MetricsFiles

Ready == [does |-> "starts"]
Ended == [does |-> "nothing"]
Killed == [does |-> "was killed"]
Untrained == [by |-> Nobody, alone |-> FALSE, ended |-> FALSE]

LearningInit ==
  /\ disk = [d \in Directories |-> [f \in Files |-> NoFile]]
  /\ ablations = {} /\ program = [p \in Programs |-> Ready]
  /\ lately = [d \in Directories |-> Untrained]

Does(p, what) == program[p].does = what
Remains(p, todo) == program' = [program EXCEPT ![p].todo = todo]
Ends(p) == program' = [program EXCEPT ![p] = Ended]
Saves(d, f, made) == disk' = [disk EXCEPT ![d][f] = made]

-----------------------------------------------------------------------------
(* train_detectors *)

StartTraining(p) ==
  /\ p \in Trainers /\ program[p] = Ready
  /\ \E c \in Commands :
       /\ program' = [program EXCEPT ![p] =
            [does |-> "trains", in |-> c.in, reuse |-> c.reuse, gru |-> NoFile,
             todo |-> IF c.final
                      THEN <<"scaler", "threshold", "mlp", "gru", "checkpoints", "mlp_final", "gru_final">>
                      ELSE <<"scaler", "threshold", "mlp", "gru", "checkpoints">>]]
       /\ lately' = [lately EXCEPT ![c.in] =
            [by |-> p, command |-> c, ended |-> FALSE,
             alone |-> ~\E other \in Trainers : Does(other, "trains") /\ program[other].in = c.in]]
  /\ UNCHANGED <<disk, ablations>>

Continues(p, file) == Does(p, "trains") /\ program[p].todo # <<>> /\ Head(program[p].todo) = file

SavesNext(p, made) ==
  /\ Saves(program[p].in, Head(program[p].todo), made)
  /\ UNCHANGED <<ablations, lately>>

FitScaler(p) ==
  Continues(p, "scaler") /\ SavesNext(p, Made(p, "train")) /\ Remains(p, Tail(program[p].todo))

ChooseThreshold(p) ==
  Continues(p, "threshold") /\ SavesNext(p, Made(p, "train")) /\ Remains(p, Tail(program[p].todo))

TrainMlp(p) ==
  Continues(p, "mlp") /\ SavesNext(p, Made(p, "train")) /\ Remains(p, Tail(program[p].todo))

\* gru_checkpoint is kept to the end.
KeepsGru(p, checkpoint) ==
  program' = [program EXCEPT ![p] = [program[p] EXCEPT !.todo = Tail(@), !.gru = checkpoint]]

TrainGru(p) ==
  /\ Continues(p, "gru") /\ program[p].reuse = {}
  /\ SavesNext(p, Made(p, "train")) /\ KeepsGru(p, Made(p, "train"))

\* A GRU that is not there, that cannot be loaded, or that would be copied onto
\* itself ends the program, when the other models are saved already.
ReuseGru(p) ==
  /\ Continues(p, "gru")
  /\ \E d \in program[p].reuse :
       IF disk[d]["gru"] = NoFile \/ d = program[p].in
       THEN Ends(p) /\ UNCHANGED disk
       ELSE /\ Saves(program[p].in, "gru", disk[d]["gru"])
            /\ IF disk[d]["gru"] = Broken THEN Ends(p) ELSE KeepsGru(p, disk[d]["gru"])
  /\ UNCHANGED <<ablations, lately>>

SummarizeCheckpoints(p) ==
  Continues(p, "checkpoints") /\ SavesNext(p, Made(p, "train")) /\ Remains(p, Tail(program[p].todo))

\* --train-final-trainval: both models learn again, from both splits.
TrainFinal(p) ==
  /\ \/ Continues(p, "mlp_final") /\ SavesNext(p, FixedEpochs(p, Made(p, "train")))
     \/ Continues(p, "gru_final") /\ SavesNext(p, FixedEpochs(p, program[p].gru))
  /\ Remains(p, Tail(program[p].todo))

EndTraining(p) ==
  /\ Does(p, "trains") /\ program[p].todo = <<>>
  /\ Ends(p)
  /\ lately' = [lately EXCEPT ![program[p].in].ended = @ \/ lately[program[p].in].by = p]
  /\ UNCHANGED <<disk, ablations>>

-----------------------------------------------------------------------------
(* evaluate_detectors *)

\* Whether nothing is trained in a directory.
Quiet(d) == \A t \in Trainers : ~(Does(t, "trains") /\ program[t].in = d)

\* Everything that is evaluated has to be there, whoever made it.
StartEvaluation(p) ==
  /\ p \in Evaluators /\ program[p] = Ready
  /\ \E d \in Directories, variant \in Variants, option \in Options :
       LET places == PathsOf(d, variant, option.given)
       IN /\ \A role \in Roles : disk[places[role].in][places[role].file] # NoFile
          /\ program' = [program EXCEPT ![p] =
               [does |-> "evaluates", in |-> d, variant |-> variant, suffix |-> option.suffix,
                places |-> places, todo |-> <<"threshold", "scaler", "mlp", "gru">>,
                loaded |-> <<>>, since |-> lately[d], quiet |-> Quiet(d)]]
  /\ UNCHANGED <<disk, ablations, lately>>

With(found, file, content) ==
  [f \in DOMAIN found \cup {file} |-> IF f = file THEN content ELSE found[f]]

LoadsFrom(p, place) ==
  LET content == disk[place.in][place.file]
      last == Len(program[p].todo) = 1
  IN IF content = Broken THEN Ends(p)
     ELSE program' = [program EXCEPT
            ![p].loaded = With(@, Head(program[p].todo), content),
            ![p].todo = IF last THEN <<"validation", "test">> ELSE Tail(@)]

\* Mutant: the scaler is that of the stage.
LoadModel_StageScaler(p) ==
  /\ Does(p, "evaluates") /\ program[p].todo # <<>> /\ Head(program[p].todo) \in Roles
  /\ LET role == Head(program[p].todo)
     IN LoadsFrom(p, [program[p].places[role] EXCEPT !.in = IF role = "scaler" THEN Stage ELSE @])
  /\ UNCHANGED <<disk, ablations, lately>>

LoadModel(p) ==
  /\ Does(p, "evaluates") /\ program[p].todo # <<>> /\ Head(program[p].todo) \in Roles
  /\ LoadsFrom(p, program[p].places[Head(program[p].todo)])
  /\ UNCHANGED <<disk, ablations, lately>>

\* Whether an evaluation is of the models of its directory.
OfItsOwn(evaluation) == evaluation.places = OwnPlaces(evaluation.in, evaluation.variant)

\* What the metrics tell of the models they are of.  For the properties: own is
\* whether no path was given, and settled whether, besides, the training that was
\* begun last in the directory was alone and over, ended, failed or killed, before
\* the evaluation began, and none was begun since.
Metadata(p) ==
  [since |-> program[p].since, from |-> program[p].loaded, variant |-> program[p].variant,
   own |-> OfItsOwn(program[p]),
   settled |-> /\ OfItsOwn(program[p]) /\ program[p].quiet /\ program[p].since.alone
               /\ lately[program[p].in] = program[p].since]

SavesMetrics(p, split) ==
  /\ Does(p, "evaluates") /\ program[p].todo # <<>> /\ Head(program[p].todo) = split
  /\ Saves(program[p].in, Output(split, program[p].variant, program[p].suffix), Metadata(p))
  /\ Remains(p, Tail(program[p].todo))
  /\ UNCHANGED <<ablations, lately>>

EvaluateValidation(p) == SavesMetrics(p, "validation")
EvaluateTest(p) == SavesMetrics(p, "test")

\* update_ablation_summary: for an ablation; or --scan-ablations.
StartScan(p) ==
  /\ \/ Does(p, "evaluates") /\ program[p].todo = <<>> /\ program[p].in \in Ablations
     \/ p \in Evaluators /\ program[p] = Ready
  /\ program' = [program EXCEPT ![p] =
       [does |-> "scans", todo |-> Tags, next |-> <<>>, found |-> <<>>, rows |-> {},
        since |-> Untrained, quiet |-> FALSE]]
  /\ UNCHANGED <<disk, ablations, lately>>

EndEvaluation(p) ==
  /\ Does(p, "evaluates") /\ program[p].todo = <<>> /\ program[p].in = Stage
  /\ Ends(p)
  /\ UNCHANGED <<disk, ablations, lately>>

\* rebuild_ablation_summary: a directory with all three files is read, one file
\* after the other.  No program removes a file: the three are looked up at once.
RunFiles == {"checkpoints", "validation", "test"}

FindRun(p) ==
  /\ Does(p, "scans") /\ program[p].todo # <<>>
  /\ program[p].next = <<>> /\ DOMAIN program[p].found = {}
  /\ LET d == Head(program[p].todo)
     IN IF \E f \in RunFiles : disk[d][f] = NoFile
        THEN Remains(p, Tail(program[p].todo))
        ELSE program' = [program EXCEPT ![p] =
               [program[p] EXCEPT !.next = <<"checkpoints", "validation", "test">>,
                                  !.since = lately[d], !.quiet = Quiet(d)]]
  /\ UNCHANGED <<disk, ablations, lately>>

ReadRun(p) ==
  /\ Does(p, "scans") /\ program[p].next # <<>>
  /\ LET file == Head(program[p].next)
         content == disk[Head(program[p].todo)][file]
     IN IF content = Broken THEN Ends(p)
        ELSE program' = [program EXCEPT ![p] =
               [program[p] EXCEPT !.next = Tail(@), !.found = With(@, file, content)]]
  /\ UNCHANGED <<disk, ablations, lately>>

\* ablation_rows_from_metrics; settled is as for metrics.
Row(p) ==
  LET d == Head(program[p].todo)
  IN [of |-> d, found |-> program[p].found, since |-> program[p].since,
      settled |-> program[p].quiet /\ program[p].since.alone /\ lately[d] = program[p].since]

AddRun(p) ==
  /\ Does(p, "scans") /\ program[p].next = <<>> /\ DOMAIN program[p].found # {}
  /\ program' = [program EXCEPT ![p] =
       [program[p] EXCEPT !.todo = Tail(@), !.found = <<>>, !.rows = @ \cup {Row(p)}]]
  /\ UNCHANGED <<disk, ablations, lately>>

SaveAblations(p) ==
  /\ Does(p, "scans") /\ program[p].todo = <<>>
  /\ ablations' = program[p].rows
  /\ Ends(p)
  /\ UNCHANGED <<disk, lately>>

\* One program is killed at most, a bound.
KillProgram(p) ==
  /\ program[p] \notin {Ready, Ended} /\ \A other \in Programs : program[other] # Killed
  /\ program' = [program EXCEPT ![p] = Killed]
  /\ \/ UNCHANGED disk
     \/ /\ program[p].does \in {"trains", "evaluates"} /\ program[p].todo # <<>>
        /\ LET file == Head(program[p].todo)
           IN IF Does(p, "trains") THEN Saves(program[p].in, file, Broken)
              ELSE /\ file \notin Roles
                   /\ Saves(program[p].in, Output(file, program[p].variant, program[p].suffix), Broken)
  /\ UNCHANGED <<ablations, lately>>

LearningNext ==
  \E p \in Programs :
    \/ StartTraining(p) \/ FitScaler(p) \/ ChooseThreshold(p) \/ TrainMlp(p) \/ TrainGru(p)
    \/ ReuseGru(p) \/ SummarizeCheckpoints(p) \/ TrainFinal(p) \/ EndTraining(p)
    \/ StartEvaluation(p) \/ LoadModel(p) \/ EvaluateValidation(p) \/ EvaluateTest(p)
    \/ EndEvaluation(p) \/ StartScan(p) \/ FindRun(p) \/ ReadRun(p) \/ AddRun(p)
    \/ SaveAblations(p) \/ KillProgram(p)

LearningSpec == LearningInit /\ [][LearningNext]_learningVars

-----------------------------------------------------------------------------
(* Properties *)

\* Metrics that are settled.  However the last training came to its end: its models
\* are judged with its own scaler and threshold, so that what one that failed or was
\* killed leaves is new scaling beside older models, never new models beside older
\* scaling.  When it ended as it should all is of it: scaled as for training and
\* not as for the models that also learn from the validation split; only a GRU that is
\* reused is of another.
JudgedTogether(m) ==
  LET by == m.since.by
      command == m.since.command
      scaled == m.from["scaler"] = Made(by, "train") /\ m.from["threshold"] = Made(by, "train")
  IN /\ m.from["mlp"].training = by \/ m.from["gru"].training = by => scaled
     /\ m.variant = "best" /\ m.from["gru"].training = by => m.from["mlp"] = Made(by, "train")
     /\ m.since.ended =>
          /\ scaled
          /\ m.variant = "best" =>
               /\ m.from["mlp"] = Made(by, "train")
               /\ m.from["gru"] = Made(by, "train") \/ command.reuse # {}
          /\ m.variant = "trainval_final" /\ command.final =>
               m.from["mlp"] = FixedEpochs(by, Made(by, "train"))

\* The threshold of a GRU that learned from both splits is that of the one beside it.
EvaluationIsOfOneTraining ==
  \A d \in Directories, f \in MetricsFiles :
    LET m == disk[d][f]
    IN m \notin {NoFile, Broken} /\ m.settled =>
         /\ JudgedTogether(m)
         /\ m.since.ended /\ m.variant = "trainval_final" /\ m.since.command.final /\ lately[d] = m.since =>
              m.from["gru"] = FixedEpochs(m.since.by, disk[d]["gru"])

\* A row of the table: without a path that was given it is never of models that also
\* learned from the validation split, on which rows are compared.  When nothing was
\* trained while the directory was evaluated and read, the checkpoint summary is of
\* the last training if that ended as it should; and if it is, the models are too:
\* what a kill leaves is an older summary beside newer models, never the reverse.
IsOfItsCheckpoints(row) ==
  \A split \in EvaluatedSplits :
    LET m == row.found[split]
    IN /\ m.variant = "best" /\ (m.own => m.from["mlp"].data = "train")
       /\ row.settled /\ m.settled /\ m.since = row.since =>
            /\ row.since.ended => row.found["checkpoints"].training = row.since.by
            /\ row.found["checkpoints"].training = row.since.by =>
                 m.from["mlp"].training = row.since.by
RowsAreOfTheirCheckpoints == \A row \in ablations : IsOfItsCheckpoints(row)

\* What was trained together is judged together, and what is left of a training that
\* was not is mixed in one way only.
MetricsBelongTogether == EvaluationIsOfOneTraining /\ RowsAreOfTheirCheckpoints

-----------------------------------------------------------------------------
(* The inductive strengthening of MetricsBelongTogether *)

Trained == Models \cup {"checkpoints"}
Rank == [scaler |-> 1, threshold |-> 2, mlp |-> 3, gru |-> 4, checkpoints |-> 5,
         mlp_final |-> 6, gru_final |-> 7]

Members(todo) == {todo[i] : i \in DOMAIN todo}
Remaining(p) == Members(program[p].todo)

Start == [by : Trainers, command : Commands, ended : BOOLEAN, alone : BOOLEAN]

LearningTypeOK ==
  /\ DOMAIN program = Programs
  /\ DOMAIN disk = Directories /\ \A d \in Directories : DOMAIN disk[d] = Files
  /\ lately \in [Directories -> Start \cup {Untrained}]

\* A trainer writes its files in the order of their ranks.
TrainerOK(p) ==
  Does(p, "trains") =>
    /\ p \in Trainers
    /\ DOMAIN program[p] = {"does", "in", "reuse", "gru", "todo"}
    /\ program[p].in \in Directories /\ program[p].reuse \in SUBSET Directories
    /\ program[p].todo \in Seq(Trained)
    /\ \A i, j \in DOMAIN program[p].todo :
         i < j => Rank[program[p].todo[i]] < Rank[program[p].todo[j]]

\* What is at the place of a file comes from a training with that command; gru is
\* what is at the place of the GRU.
IsOf(start, file, content, gru) ==
  IF file \in {"scaler", "threshold", "mlp", "checkpoints"}
  THEN content = Made(start.by, "train")
  ELSE IF file = "gru" THEN content = Made(start.by, "train") \/ start.command.reuse # {}
  ELSE start.command.final =>
         content = FixedEpochs(start.by, IF file = "mlp_final" THEN Made(start.by, "train") ELSE gru)

\* What a training made is the work of one that was begun.
Is(content, by) == content \notin {NoFile, Broken} /\ content.training = by
Begun(content) ==
  content \notin {NoFile, Broken} => content.training \in Trainers /\ program[content.training] # Ready

\* While the training that was started last in a directory is alone there, and after
\* it has ended, what it has written is still there; and whatever became of it, what
\* is of it stands beside all of it that was to be written before.
Early == {"scaler", "threshold", "mlp"}
IsWritten(d, file) == Does(lately[d].by, "trains") => file \notin Remaining(lately[d].by)
InOrder(d, by) ==
  \A early \in Early, file \in Trained :
    Rank[early] < Rank[file] /\ Is(disk[d][file], by) => disk[d][early] = Made(by, "train")
TrainingOK(d) ==
  LET last == lately[d].by
  IN lately[d] # Untrained =>
       /\ program[last] # Ready /\ (lately[d].ended => program[last] = Ended)
       /\ Does(last, "trains") =>
            /\ program[last].in = d /\ program[last].reuse = lately[d].command.reuse
            /\ lately[d].command.final /\ "gru" \in Remaining(last) => "gru_final" \in Remaining(last)
            /\ lately[d].alone /\ "gru" \notin Remaining(last) => program[last].gru = disk[d]["gru"]
       /\ lately[d].alone =>
            /\ \A p \in Trainers : Does(p, "trains") /\ program[p].in = d => p = last
            /\ Does(last, "trains") \/ lately[d].ended =>
                 \A file \in Trained :
                   IsWritten(d, file) => IsOf(lately[d], file, disk[d][file], disk[d]["gru"])
            /\ Does(last, "trains") => \A file \in Remaining(last) : ~Is(disk[d][file], last)
            /\ InOrder(d, last)

\* Metrics: those that settled are of the files that are still there, as long as the
\* training they tell of is the last.
MetricsAre(d, file, m) ==
  /\ m.variant \in Variants
  /\ file \in EvaluatedSplits => m.variant = "best" /\ (m.own => m.from["mlp"].data = "train")
  /\ m.settled =>
       /\ m.since \in Start /\ m.since.alone /\ program[m.since.by] # Ready
       /\ JudgedTogether(m)
       /\ lately[d].by = m.since.by =>
            /\ lately[d] = m.since /\ ~Does(m.since.by, "trains")
            /\ \A role \in Roles : m.from[role] = disk[d][FileOf(role, m.variant)]
MetricsOK(d, file) == disk[d][file] \notin {NoFile, Broken} => MetricsAre(d, file, disk[d][file])

\* A training that was begun once is not begun again.
Recalls(since, quiet) ==
  /\ since \in Start \cup {Untrained}
  /\ since # Untrained => program[since.by] # Ready /\ (quiet => ~Does(since.by, "trains"))

\* What was begun is loaded, or still to be loaded and there; what was loaded is what
\* is still there, unless something was or is trained.
EvaluatorOK(p) ==
  Does(p, "evaluates") =>
    LET e == program[p]
    IN /\ p \in Evaluators
       /\ DOMAIN e = {"does", "in", "variant", "suffix", "places", "todo", "loaded", "since", "quiet"}
       /\ e.in \in Directories /\ e.variant \in Variants /\ e.suffix \in BOOLEAN
       /\ e.places \in [Roles -> [in : Directories, file : Models]]
       /\ \/ e.todo \in Seq(Roles) /\ e.todo # <<>>
          \/ e.todo \in Seq(EvaluatedSplits) /\ Remaining(p) \cap Roles = {}
       /\ Roles \subseteq Remaining(p) \cup DOMAIN e.loaded /\ DOMAIN e.loaded \subseteq Roles
       /\ \A role \in Remaining(p) \cap Roles : disk[e.places[role].in][e.places[role].file] # NoFile
       /\ \A role \in DOMAIN e.loaded : e.loaded[role] \notin {NoFile, Broken}
       /\ OfItsOwn(e) /\ e.variant = "best" /\ "mlp" \in DOMAIN e.loaded => e.loaded["mlp"].data = "train"
       /\ Recalls(e.since, e.quiet)
       /\ OfItsOwn(e) /\ e.quiet /\ e.since.alone /\ lately[e.in] = e.since =>
            \A role \in DOMAIN e.loaded : e.loaded[role] = disk[e.in][FileOf(role, e.variant)]

ScannerOK(p) ==
  Does(p, "scans") =>
    LET s == program[p]
        d == Head(s.todo)
    IN /\ p \in Evaluators
       /\ DOMAIN s = {"does", "todo", "next", "found", "rows", "since", "quiet"}
       /\ s.todo \in Seq(Ablations) /\ s.next \in Seq(RunFiles) /\ Recalls(s.since, s.quiet)
       /\ s.next # <<>> \/ DOMAIN s.found # {} =>
            /\ s.todo # <<>> /\ RunFiles \subseteq Members(s.next) \cup DOMAIN s.found
            /\ \A f \in Members(s.next) : disk[d][f] # NoFile
            /\ \A split \in EvaluatedSplits \cap DOMAIN s.found : MetricsAre(d, split, s.found[split])
            /\ s.quiet /\ s.since.alone /\ lately[d] = s.since /\ "checkpoints" \in DOMAIN s.found =>
                 s.found["checkpoints"] = disk[d]["checkpoints"]
            /\ \A f \in DOMAIN s.found : s.found[f] \notin {NoFile, Broken}
       /\ \A row \in s.rows : IsOfItsCheckpoints(row)

LearningInv ==
  /\ LearningTypeOK
  /\ \A p \in Programs : TrainerOK(p) /\ EvaluatorOK(p) /\ ScannerOK(p)
  /\ \A d \in Directories :
       /\ TrainingOK(d)
       /\ disk[d]["mlp"] \in {NoFile, Broken} \/ disk[d]["mlp"].data = "train"
       /\ \A file \in Trained : Begun(disk[d][file])
       /\ \A file \in MetricsFiles : MetricsOK(d, file)
  /\ RowsAreOfTheirCheckpoints

=============================================================================
