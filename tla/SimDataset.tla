------------------------------ MODULE SimDataset ------------------------------
(***************************************************************************)
(* generate_sim_dataset: simulated episodes with disturbances, labelled    *)
(* step by step, for training, validation and testing.                     *)
(*                                                                         *)
(* The dynamics are left out: of a step is kept its time, its label and    *)
(* the event its disturbance comes from.  What an event does to the joints *)
(* is one signed torque; the force of a contact with the body differs from *)
(* the torque it makes, so that an event has a magnitude of its own.       *)
(***************************************************************************)
EXTENDS ContactData, SequencesExt

CONSTANTS
  Splits,    \* the splits in their order: episodes, and the disturbances one may have
  Steps,     \* num_steps of an episode
  Durations, \* duration_range, in steps
  LabelEps,  \* disturbance_label_eps
  TrajectoryModes

Norm(tau) == IF tau < 0 THEN -tau ELSE tau

\* sample_joint_torque_event and sample_body_force_event: the magnitude of an event
\* is that of its torque, or that of a force which the joints feel or not.
TorqueEvent(event) == event.kind = "joint_torque" => event.magnitude = Norm(event.tau)
ForceEvent(event) == event.kind = "body_force" => event.magnitude > 0

Disturbance ==
  [kind : {"joint_torque", "body_force"}, start : Nat, end : Nat, tau : Int, magnitude : Nat]

\* sample_disturbance_plan: an event that does not fit begins with the episode and
\* ends with it.
Duration(event) ==
  \E duration \in Durations :
    /\ event.start \in 0 .. MaxInt(0, Steps - duration)
    /\ event.end = IF event.start + duration <= Steps THEN event.start + duration ELSE Steps

ASSUME DatasetAssumption ==
  /\ Steps \in Nat \ {0} /\ LabelEps \in Nat /\ Durations \subseteq Nat \ {0}
  /\ Splits # <<>> /\ Splits \in Seq([episodes : Nat, disturbances : SUBSET Seq(Disturbance)])
  /\ \A s \in DOMAIN Splits : \A plan \in Splits[s].disturbances : \A i \in DOMAIN plan :
       Duration(plan[i]) /\ TorqueEvent(plan[i]) /\ ForceEvent(plan[i])

VARIABLES
  episodes,  \* how many episodes of this split there are
  samples,   \* its samples: episode_id, time, label, active_event_id and trajectory_mode
  events,    \* its event table
  saved      \* the splits that are saved

datasetVars == <<episodes, samples, events, saved>>

DatasetInit == episodes = 0 /\ samples = <<>> /\ events = <<>> /\ saved = <<>>

NoEvent == -1

Active(plan, k) == {i \in DOMAIN plan : plan[i].start <= k /\ k < plan[i].end}

\* disturbance_tau_at_step: the sum of what is active, and the strongest of it.
TauAtStep(plan, k) == FoldSet(LAMBDA i, sum : sum + plan[i].tau, 0, Active(plan, k))

Strongest(plan, k) ==
  {i \in Active(plan, k) : /\ plan[i].tau # 0
                              /\ \A j \in Active(plan, k) :
                                   \/ Norm(plan[j].tau) < Norm(plan[i].tau)
                                   \/ Norm(plan[j].tau) = Norm(plan[i].tau) /\ i <= j}

\* Mutant: a contact needs an active event only.
Label_AnyEvent(plan, k) == IF Active(plan, k) # {} THEN 1 ELSE 0

\* A contact: something is active and it is felt.
Label(plan, k) ==
  IF Active(plan, k) # {} /\ Norm(TauAtStep(plan, k)) > LabelEps THEN 1 ELSE 0

\* Episodes are numbered on through the splits.
EpisodeOffset == FoldSeq(LAMBDA split, sum : sum + split.episodes, 0, SubSeq(Splits, 1, Len(saved)))

\* A row of the event table: which samples of the split the event is in.
TableRow(plan, i, mode) ==
  [id |-> Len(events) + i - 1, episode |-> EpisodeOffset + episodes, mode |-> mode,
   first |-> Len(samples) + plan[i].start + 1, last |-> Len(samples) + plan[i].end,
   magnitude |-> plan[i].magnitude]

Sample(plan, k, mode) ==
  [episode |-> EpisodeOffset + episodes, time |-> k, mode |-> mode,
   label |-> Label(plan, k), tau |-> TauAtStep(plan, k),
   active |-> IF Strongest(plan, k) = {} THEN NoEvent
              ELSE Len(events) + (CHOOSE i \in Strongest(plan, k) : TRUE) - 1]

\* generate_split, one episode.
GenerateEpisode ==
  /\ Len(saved) < Len(Splits) /\ episodes < Splits[Len(saved) + 1].episodes
  /\ \E mode \in TrajectoryModes, plan \in Splits[Len(saved) + 1].disturbances :
       /\ samples' = samples \o [k \in 1 .. Steps |-> Sample(plan, k - 1, mode)]
       /\ events' = events \o [i \in DOMAIN plan |-> TableRow(plan, i, mode)]
  /\ episodes' = episodes + 1
  /\ UNCHANGED saved

EpisodesOf(split) == {split.samples[i].episode : i \in DOMAIN split.samples}

\* An episode of two splits ends the program.
SaveSplit ==
  /\ Len(saved) < Len(Splits) /\ episodes = Splits[Len(saved) + 1].episodes
  /\ LET split == [samples |-> samples, events |-> events]
     IN /\ \A i \in DOMAIN saved : EpisodesOf(saved[i]) \cap EpisodesOf(split) = {}
        /\ saved' = Append(saved, split)
  /\ episodes' = 0 /\ samples' = <<>> /\ events' = <<>>

DatasetNext == GenerateEpisode \/ SaveSplit

DatasetSpec == DatasetInit /\ [][DatasetNext]_datasetVars

-----------------------------------------------------------------------------
(* Properties *)

\* The events of a table that are in a sample.
There(table, i) == {e \in DOMAIN table : table[e].first <= i /\ i <= table[e].last}

\* The two accounts of the contacts agree, in every split, however events
\* overlap and cancel: an event of the table is in samples of its own episode
\* and mode; a sample is labelled exactly when the torques of the events there
\* do not add up to nothing; it names an event that is there, if any is felt; and
\* no episode is in two splits.
DatasetIsSound ==
  \A s \in DOMAIN saved :
    LET rows == saved[s].samples
        table == saved[s].events
    IN /\ \A e \in DOMAIN table : \A i \in table[e].first .. table[e].last :
            /\ i \in DOMAIN rows
            /\ rows[i].episode = table[e].episode /\ rows[i].mode = table[e].mode
       /\ \A i \in DOMAIN rows :
            /\ rows[i].label = 1 <=> There(table, i) # {} /\ Norm(rows[i].tau) > LabelEps
            /\ rows[i].label = 1 => \E e \in There(table, i) : table[e].id = rows[i].active
            /\ There(table, i) = {} => rows[i].tau = 0 /\ rows[i].active = NoEvent
       /\ \A e, f \in DOMAIN table : table[e].id = table[f].id => e = f
       /\ \A t \in DOMAIN saved : s # t => EpisodesOf(saved[s]) \cap EpisodesOf(saved[t]) = {}

-----------------------------------------------------------------------------
(* Why they hold *)

EventRow == [id : Nat, episode : Int, mode : TrajectoryModes, first : Int, last : Int, magnitude : Nat]
SampleRecord == [episode : Int, time : Int, mode : TrajectoryModes, label : {0, 1}, tau : Int,
                 active : Int]

\* What a split keeps of its episodes: rows that say where their event is, and
\* samples that agree with the rows.  In an episode samples are as far apart as
\* their times.
SplitOK(rows, table) ==
  /\ rows \in Seq(SampleRecord) /\ table \in Seq(EventRow)
  /\ \A e \in DOMAIN table :
       /\ table[e].id = e - 1
       /\ 1 <= table[e].first /\ table[e].first <= table[e].last /\ table[e].last <= Len(rows)
       /\ \A i \in table[e].first .. table[e].last :
            rows[i].episode = table[e].episode /\ rows[i].mode = table[e].mode
  /\ \A i \in DOMAIN rows :
       /\ rows[i].label = 1 <=> There(table, i) # {} /\ Norm(rows[i].tau) > LabelEps
       /\ rows[i].label = 1 => \E e \in There(table, i) : table[e].id = rows[i].active
       /\ There(table, i) = {} => rows[i].tau = 0 /\ rows[i].active = NoEvent
  /\ \A i, j \in DOMAIN rows :
       /\ rows[i].episode = rows[j].episode => rows[j].time - rows[i].time = j - i

DatasetInv ==
  /\ episodes \in Nat /\ Len(saved) <= Len(Splits)
  /\ saved \in Seq([samples : Seq(SampleRecord), events : Seq(EventRow)])
  /\ SplitOK(samples, events)
  /\ \A i \in DOMAIN samples : samples[i].episode - EpisodeOffset \in 0 .. episodes - 1
  /\ \A s \in DOMAIN saved : SplitOK(saved[s].samples, saved[s].events)
  /\ \A s, t \in DOMAIN saved : s # t => EpisodesOf(saved[s]) \cap EpisodesOf(saved[t]) = {}

=============================================================================
