# A TLA+ verification project for idle_ws

idle_ws is a ROS 2 workspace that drives a six-joint arm with a gripper over
CAN, picks coloured boxes that a camera finds and a person names, and detects
contact with a network that is trained beside it. What it does is decided by
state machines and algorithms of moderate size: the bridge that owns the CAN
socket, the nodes that plan, execute and play motions, the gripper node and the
task that joins them, the nodes that see, listen and feel, and programs that
share files. This directory models those in TLA+, checks them with TLC on small
instances, and proves the most important facts with TLAPS for every value of the
constants. Paths are relative to the repository (`src/src/...` is the ROS
workspace, `src/motor` the command-line tools, `src/contact_detection` the
learning of detectors).

## 1. Inventory

What each component keeps, what it does, with whom it talks, and what makes it
correct.

| component | state | operations | talks to | hard part | correct when | modelled in |
|---|---|---|---|---|---|---|
| `can_bridge_node.cpp` | per motor: `MotorRuntime`, `CachedCommand`; last fault words | start-up scan and enable, 1 ms tick (receive, then dispatch), `/motor_cmd_array`, shutdown | motors over CAN; every commander | order of enable, feedback and commands; time-outs; writes that fail; fault shutdown; slew limits across sources | nothing is sent before a motor is ready; frames never jump; silence or a fault ends at home | `CanBridge` |
| `plan_node.py` | pending plan, queued second leg, active plan, its time, stall clock, hold pose | feedback, `/computed_plan`, 250 Hz timer | `plan_compute_node`, bridge, task | plans that replace others mid-way, two legs, an arm that lags, feedback gaps | no jump; legs belong together; every execution ends | `PlanNode` |
| `plan_compute_node.py` | serial of the newest target, a thread per target | two target topics, background planning | task, `plan_node` | threads finish in any order; check and publication are not atomic | a target's plan runs at most once; everything ends | `PlanCompute`, `PlanPipeline`, `PlanService` |
| `plan.py` | none | ranking of solutions, the fold over a tucked pose, the comparison of energy, the order of the ways | `plan_compute_node`, the checker of collisions | several fall-backs, each of which can fail or collide | a plan that is said to be safe was checked, joins up and reaches the target | `Planner` |
| `ik.py` | none | `solve_with_policy` | the motion nodes | non-convergence, turns of a joint, several reasons to refuse | the nearest accepted pose, within limits; refused only with reason | `InverseKinematics` |
| `joint_sweep_node.py`, `random_motion_gc_node.py`, `dataset_ik_motion_node.py` | segment list, index, clock, repetition | state topic, timer | bridge | lead-ins, zero crossings, splitting, repetition, late feedback | commands are continuous, within limits, pass through zero; a motion that is played once ends | `MotionSegments`, `MotionNode`, `JointSweep`, `RandomMotion`, `DatasetIk` |
| `ee_xyz_trajectory_node.py` | one-place goal queue, what counts as a duplicate, segment | terminal thread, two topics, timer | bridge | two producers, de-duplication, reset on disconnect | the command is continuous whatever goals come | `EeXyz` |
| `gripper_node.py` | grip state, settle count, last feedback | two services, 100 Hz timer, feedback | task, bridge | calls that overlap a verdict; stale feedback; thresholds | a close call is judged once, a drop reported once, an open call silences the node | `Gripper`, `GraspService` |
| `task_fsm_node.py` | state, ticks, retries, last plan status, last verdict, drop flag | task command, 10 Hz timer, three subscriptions | plan pair, gripper | answers of earlier states, drops, retries, failures | it never goes on without the answer it waits for, and it ends | `TaskFsm`, `PickPlace` |
| `control_tuning.py`, `param_store.py` | tuned files, lock file, gate file, mtime cache | guarded saves, initialisation, cached loads, sessions | every process that tunes or controls | read-modify-write by several processes, cache against writer | no save is lost; a cache is current | `ParamStore`, `ControlGate` |
| `mit_stream.py`, `stream_state.py` | announcement file, gate | open, announce, close; expected motors | motor tools, monitor | a file that is changed without a lock, kills | an entry was published by a stream | `MitStream`, `MotorTools` |
| `contact_detector_node.py` | samples, window of features, contact state, stamps | two topics, timer | listeners of the contact topics | partial resets, freshness, hysteresis | it computes what the offline pipeline computes; ready is fresh | `ContactDetector` |
| `train_detectors.py`, `train_real_detector.py`, `contact_dataset.py`, `utils.py` | best epoch, patience | windows, labels, split, threshold search, checkpoints | files | constraints, ties, boundaries | the checkpoint is the best, its threshold keeps its policy's promise | `ContactData`, `ContactTraining`, `Perception` |
| `generate_sim_dataset.py`, `evaluate_detectors.py` | none | episodes with disturbances, metrics by sample, event, mode and strength | files | two accounts of the same events, boundaries | the accounts agree | `SimDataset`, `ContactEvaluation` |
| the files of a stage | checkpoints, scaler, threshold, metrics, summaries | training and evaluation by several programs | each other | programs that overlap, are killed, re-use a model | metrics are of files that were trained together | `LearningFiles` |
| `box_pose_node.py` | last depth image, tracks of angles, intrinsics | three subscriptions | selector | suppression, association, symmetry of a box, stale depth | a position is in the frame that is named; an angle does not jump | `BoxPose` |
| `qwen_box_selector_node.py` | command, last boxes | two subscriptions, a request that blocks | voice node, box node | messages that wait or are dropped, answers of any kind | what is selected fits the command and the boxes | `BoxSelector` |
| `voice_command_node.py` | noise level, recording | worker thread, main thread | selector | end of recordings, end of the process | a recording ends; the process ends | `VoiceCommand` |
| `object_depth_node.py`, `image_learning_node.py` | last depth image, counters, files | subscriptions | listeners, disk | an end between two writes | what is published and saved is what was seen | `CameraTaps` |
| `hold_node.py`, `sim`, motor tools, offline scripts, `hsv_tuner_node`, geometry, launch files | see section 6 | | | | | not modelled |

PROJECT.json lists the components with their sources, and the hazards at the
line where each bites. The hazards are what the properties are for.

## 2. The modules and the code

Four modules put parts beside each other that the system starts one at a time,
or that share nothing: `ArmDrivers` (what commands the arm), `MCPlanning` (what
finds and executes plans), `MCMachine` (programs that share files) and
`Perception` (what feels, sees and listens). A constant or a variable chosen in
Init (`config`, `part`, `crew`, `camera`, `tap`, `plan`) says which part and
with which parameters is looked at, so that the graph of a run is the sum of the
graphs of the parts. What is lost by that is only the interleaving of processes
that do not touch the same state.

### CanBridge (MCCanBridge, CanBridgeProofs)

One ROS executor thread runs the node, so a callback is atomic but for the
dispatch loop, which is split per motor: `StartDispatch` ends the receive part of
a tick, then each motor takes exactly one of `Skip`, `SendPreHome`, `SendHome`,
`SendExternal`. `Startup` is the constructor's scan and Type03 writes,
`RxFeedback` one decoded Type02 frame with everything it triggers, `OnCmdArray`
the subscription with its four rejections, `Shutdown` the destructor, after which
the process may start again with motors that are still energised. `runtime` and
`cached` are the maps of `MotorRuntime` and `CachedCommand`; `wire` is a history
of the last Type01 frame of every motor. Every write may fail.

Positions, torques and times are integers; the clock moves in `Tick`, between
callbacks only, as the code reads it once per tick. Byte layout, socket set-up
and scan retries are left out, `slew_initialized` because the first frame
overwrites what it guards, the j2/j3 initial sequence because nothing calls it.

### Planning: PlanNode, PlanCompute, PlanPipeline, PlanService, Planner, InverseKinematics (MCPlanning, PlanNodeProofs, PlanningProofs)

`PlanNode` has one action per callback and one per way through `on_timer`:
`CommitPending`, `Follow`, `Stall`, `StartLeg2`, `Finish`, `Hold`. One joint
stands for the arm: the code takes the largest error and the longest duration
over the joints. A quintic is a straight line with the same ends and duration;
trajectory time is counted in parts of the warp. The keyboard goal mode, messages
of the wrong length, gravity torques and `_hold_target_q`, which is only logged,
are left out. Two timer callbacks are at least a clock step apart.

`PlanCompute` is the serial, the thread per target and the two steps of a thread:
up to the release of `_plan_lock`, and `Publish` after it. `PlanPipeline` joins
the two nodes by `/computed_plan`. `PlanService` says what they promise: a target
becomes a job that is planned, ready and run, each at most once, one at a time.

`Planner` is one call of `plan_motion`, of which `PlanCompute` sees the outcome.
A pose is three joints (base, reach, wrist), which is what ranking, tuck and
retract tell apart. A collision is an answer of the checker, chosen when it is
asked and the same when it is asked again; what lies between the samples of a
path, and the switch that turns the cage on, are left out.

`InverseKinematics` is one call of `solve_with_policy`: the seeds, a search from
each, the turns of a joint, the choice, the reasons to refuse. One joint in
steps; how far a pose is from the goal is any function of the pose, and an update
moves by one step in any direction, so that a search may converge, run out of
iterations, or end just beside a solution.

### ArmDrivers: PlanNode, MotionSegments, MotionNode, JointSweep, RandomMotion, DatasetIk, EeXyz, Gripper, GraspService (MCArmDrivers, ArmDriversProofs)

`MotionSegments` are the functions that build and check segments, `MotionNode`
what the nodes that play a motion share: feedback that comes late and in part
(`samples`), the segment they are in, its clock, and what they publish. A module
for each node builds its own list of segments and adds its own ways through the
timer. `command` and `sinceCmd` keep the last command and its age for the
properties. `config` has the ways a node can be started, with the poses at which
the arm may be found.

`EeXyz` splits what the terminal's thread does where a callback can run between:
`Sources` are the terminal and the topics, `asking` how far each has come.

Positions are integers, a quintic is a straight line (its start velocity, which
is zero but when a motion is replaced, is not used). The parameters
`enforce_zero_crossing` and `start_from_current_state` have their default, TRUE;
random motions have two waypoints; `Unsafe` poses stand for what the collision
checks refuse; the inverse kinematics gives any pose that passes the checks
(`InverseKinematics` looks inside). A position is kept only until the motion
begins, because nothing reads it afterwards. Motors that are commanded but not
moved are at home at 0. The open-loop preview, gravity torques and printed poses
are left out.

`Gripper` has both services, the four outcomes of the timer, the feedback, and
the world it looks at: a jaw on its way to where it ends, and a block that comes
and goes. `GraspService` is the promise (judged once, dropped once, silent after
open).

### TaskFsm, PickPlace (PickPlaceProofs)

`TaskFsm` has the sixteen states of the task, grouped by what they do: `Pass`,
`SendMove`/`AwaitMove`, `StartGrasp`/`AwaitGrasp`, `Verify`, `Release`,
`StartRecovery`/`Recover`, and the four subscriptions. Targets are reduced to what
they are for; the height of a stack is left out because `_stack_count` is 0
whenever a place target is sent. `PickPlace` composes the task with the two
services, `PlanService` and `GraspService`, not with the detailed nodes: that the
nodes implement the services is checked (and for the gripper proved) on its own.
Each topic is a queue in order of publication; `/plan/status` is one queue for its
two publishers. A DONE of the plan that READY sent and did not wait for may reach
PRE_GRASP: the model has this behaviour, as the code does.

### Machine: ControlGate, ParamStore, MitStream, MotorTools, SimDataset, ContactEvaluation, LearningFiles (MCMachine, MachineProofs)

`ParamStore` is one process per tool, which looks at the gate, creates the tuned
file if it is missing, and reads, changes and replaces it under `flock`, one
action per system call that others can come between; `GiveUp` is a value that
does not validate, a write that fails, or a kill. A reader is a thread in
`_get_cached_effective`; the threads of a node (each target has a planning thread
of its own in `plan_compute_node`) share a cache, and look, compare, load, keep the
document (`Store`) and keep its time (`Remember`) in separate steps, as the code
holds no lock. A document is a function from entries to the tool that set them last.
Modification times are coarse: a write may carry the one of the write before, which
`rewritten` remembers; `crossed` remembers that the document came into the cache
between the two assignments of another thread. `MitStream` is one process per
stream; every change of the announcement file is a load and a replacement with
others in between; ages stand for times. `MotorTools` puts a crew of them beside
each other.

`SimDataset` makes the samples, labels and tables of simulated episodes from any
choice of disturbances; the dynamics are left out, and what an event does to the
joints is one signed torque, with a magnitude of its own where it is a force on
the body. `ContactEvaluation` computes the metrics of any detector on such a
split: it chooses any probability for each window and then evaluates `Counts`,
`EventMetrics`, `ModeMetrics`, `TorqueBinMetrics` and the sweep of thresholds.
Sums stand for means and rates.

`LearningFiles` has one process per program that is started: a training and an
evaluation, in the stage itself or in an ablation under it, one action per file
that is written or read. An evaluation may be given the path of any of its inputs
(`Options`), tests only that they are there, as the code does, and reads them one
after the other; so does the program that gathers the rows of ablations. Of a file is kept which training made it from which data (the
data do not change), of metrics which files they were made from. A program may be
killed, one in a behaviour, or fail when it is to reuse a GRU, and leaves the file
it was writing broken and beside what it has written the files of the training
before. `experiment_config_used.yaml`, logs and figures are left out.

### Perception: ContactData, ContactTraining, ContactDetector, BoxPose, BoxSelector, VoiceCommand, CameraTaps (MCPerception, PerceptionProofs)

`ContactData` has the algorithms as functions: episodes, windows, differences,
delayed labels, what lies near a change, the split, rates as fractions, the
candidates of a threshold and the policies among them. `ContactTraining` is the
loop over the epochs: what an epoch learns is any probability for each validation
window and any loss. The 1e-12 tolerances of comparisons are dropped (fractions
are exact), scores are integers and `linspace` divides integers. A plan whose
validation set has no windows is refused by the code and is not a plan here. The
split is `stratified_by_condition` or `tail`. Weights stand for the epoch they are
of: `best_state` keeps them, as a copy or, where `train_detectors` trains on a CPU,
as the live tensors (`KeepsLiveTensors`, section 5). `np.isclose` is a distance,
`close`.

`ContactDetector` has both subscriptions, with arrays of any of the motors and
numbers that are not finite, and every way through the timer; time is counted in
periods and a stamp is an age. `history` keeps what the samples were
and what was decided, for `OnlineIsOffline`. `Perception` starts the
detector with the checkpoint of the training, which is another process. Online the
contact begins above the threshold, offline at it; both are modelled as they are.

`BoxPose` sees an image as the sequence of its contours, one line of pixels wide;
angles are degrees; of a position only its frame is kept; a homography is taken as
one that maps its points. Time passes only where a camera's images may come late.
`BoxSelector` waits while the language model answers - a parsed command, one that
names nothing, nothing, or a closed connection - with topics that messages (ten in the code), of which the oldest is dropped. What the rules read in
a text is a constant; the order of boxes is that of the default
`spatial_reference`, `image`, and not `pose`. `VoiceCommand` is the worker, from the
loading of its model, and the main thread, frame by frame of the microphone.
`CameraTaps` are two nodes that look at the same images; `image_learning_node` may
end between any two of its writes. That the stamps of its images grow, also over a
restart, is what a camera does, and nothing the node looks at: a recording that is
played twice would be saved and listed twice. An image that `object_depth_node`
cannot convert changes nothing that is modelled: what was told before stands. (ten in the code), of which the oldest is dropped. What the rules read in
a text is a constant. `VoiceCommand` is the worker and the main thread, frame by
frame of the microphone. `CameraTaps` are two nodes that look at the same images;
`image_learning_node` may end between any two of its writes.

## 3. Runs

| run | shows |
|---|---|
| `bridge_motion` | one joint, feedback beyond and at a limit, commands at the other limit and beyond: `WireSlewBounded`, `HomeStartsWhereTheArmIs`; with fairness `EventuallyHome`, `EventuallyFollows` |
| `bridge_gripper` | the gripper's motor, two fault words, torques of both signs: `WireTorqueSlewBounded`, `GripperHoldsUntilCommanded` |
| `bridge_first_frame` | violation: the first frame of a motor is not limited from where the motor is |
| `arm_drivers` | `plan_node` with any plans at any time and feedback that lags, jumps or stops: `CommandNeverJumps`, `LegsBelongTogether`, `ExecutionEnds`; the players of motions with every way they build one: `FirstPassThroughZero`, `CommandIsContinuous`, `MotionEnds`; the gripper: `ImplementsGraspService`, `CloseIsAnswered` |
| `pipeline_plans` | three targets, threads that end in any order: `ImplementsService`, `PipelineDrains`; `plan_motion` with any combination of ways that collide: `PlanIsUsable`; the inverse kinematics with any searches: `AcceptedGoalIsNearest` |
| `pipeline_newest` | violation: the older plan can be published last and is then executed last |
| `gripper_empty` | violation: with the default parameters an empty grasp is a success |
| `pick_task` | plans that fail, ignored targets, missing services, failed grasps, drops, new tasks: `JudgedBeforeGoingOn`, `MovesAwaitTheirDone`, and with fairness `TaskEnds` |
| `pick_plan_fails` | violation: a failed plan leaves the task in its move for ever |
| `tools` | tools with a node, streams, a tool with a stream: `SavesAddUp`, `CacheIsCurrent`, `ToolsEnd`; overlapping and killed trainings and evaluations: `MetricsBelongTogether`; every detector on simulated data: `DatasetIsSound`, `HigherThresholdFindsLess`, `EventsAgreeWithSamples`, `PartsAddUp` |
| `tools_gate` | violation: a tool passes the gate while a stream runs, after another one has ended |
| `perception` | training: `CheckpointIsBest`, `ThresholdKeepsPromise`; detecting: `OnlineIsOffline`, `ReadyIsFresh`, `ContactFollowsEvidence`, `DetectorGetsReady`; vision and voice: `PoseIsInItsFrame`, `YawKeepsItsSense`, `SelectionAnswersCommand`, `TapsAreTrue`, `VoiceNeverHangs` |

Every property of a passing run has a mutant in PROJECT.json: a plausible mistake
in one mapped definition with which TLC finds the property violated.

The passing runs that compose parts let each of them stop (a motion that is held,
a training that is over, a process that has ended), hence `CHECK_DEADLOCK FALSE`
there; that nothing stops too early is what the liveness properties say.

### Bounds, and why they are enough

- `bridge_*`: one motor, because the code shares nothing between motors but the
  tick, and the proofs are for any set of motors. `Reach = 2`, `TauMax` 2 or 1
  leave room for a value inside, at and beyond each limit. `DtCap = 2` against
  `TxPeriod = 1` makes the 50 ms cap bite. `WireCap` is the age at which the last
  frame stops ageing: the time in which both limiters cross their whole range
  (`WireCapAssumption`), so that the saturated age forbids nothing.
- `arm_drivers`: two motors, so that one moves and one is held, or one is heard and
  one is not; limits -4 and 4 and a pose -2 that is unsafe, so that waypoints are
  refused for each reason; speeds with which a segment takes one to four steps;
  motions of up to two waypoints, with lead-in, crossing and repetition. `SinceCap = 4`
  at `MaxSpeed = 4` crosses twice `MaxReach = 8`, so that the time since a command
  forbids nothing once it is no longer counted; one position that is reported lies
  beyond what a sweep believes (`MaxAbsQ`). For
  `plan_node`, a joint of four positions, a plan with one leg and one with two
  under two serials; `GapCap = 3` crosses the joint in one step. For the gripper,
  angles in hundredths of a radian, the jaw seen open, on the block, beside those
  and at the command. It closes with a negative `delta_overclose`, so that the jaw
  over-closes as the module documentation says and both verdicts occur;
  `gripper_empty` uses the default.
- `pipeline_plans`: three targets are needed for a plan that runs, one that waits
  and one that is planned at once; two positions, because what is asked is about
  jobs. Up to three solutions per call with `MaxChecks = 2`, so that more collide
  than may be checked. Seven poses and a turn of four, so that a joint has another
  turn within its limits or none; two updates per search.
- `pick_*`: two jobs, so that an old plan can still run while a new one is planned;
  two plan statuses on their way, because two nodes publish them, and one message
  on every other topic (`StatusCap`, `QueueCap`); two retries, so that one is made
  and one is refused.
- `tools`: two tools contend for a lock as any number does, and the proofs are for
  any number; two set entries that overlap, or one of them sets none. Two threads
  of one node are what it takes for their assignments to cross. Three ages
  that count and one that does not (`MaxAge = 2`). Two trainings, in the stage or in
  one ablation, with and without a GRU of the stage and models at the end, and an
  evaluation or a scan, are what it takes for one to overtake or outlive another;
  it is given
  no path, those of the stage with a suffix, or a final model in place of the other. Splits
  of one or two episodes of three steps with events that overlap and cancel, touch
  the ends, or are apart; three settings that differ in window, stride, length of a
  run and margin, and three probabilities around two thresholds.
- `perception`: seven plans, four to six windows, three scores and two losses, one to
  four epochs, both splits, both devices, scores that are close and not: ties in one or both parts of a rank, a stale epoch more and less
  than the patience, and each policy satisfied and not. One motor, so that an array is complete or
  does not come (arrays of a part of the motors are in the model and in the proofs,
  not in this run), finite or not, ages up to one more than each limit, windows of two,
  histories of three samples. Eleven images with up to two boxes: alone, jumping by
  a quarter and half a turn, overlapping, without depth, too small; six cameras.

### Fairness, and why the code justifies it

- `CanBridge!Fairness`: the 1 ms timer fires again and again; its receive loop is
  bounded (`kRxMaxFramesPerTick`), so dispatch starts, and it visits every motor; a
  full socket buffer drains, so writes succeed again and again (strong fairness).
- `DriversFair`: `plan_node` gets feedback and time passes; its timer is enabled
  again and again but not always, hence strong fairness. The timers of the players
  and of the gripper fire, and time passes for them.
- `PlanningFairSpec`: planning terminates (iterations and candidates are bounded in
  `plan.py`), threads are scheduled, reliable topics deliver; the rest as above.
- `PickPlace`: timers, deliveries and jobs go on.
- `MachineFairSpec`: a process goes on with what it has begun, and seconds pass;
  when streams begin, are interrupted or are killed is left open.
- `PerceptionFair`: the detector's timer fires and time passes; where a behaviour
  has become `steady`, which it need not, topics arrive in time. The worker and the
  main thread of the voice node run, and the microphone brings frames.

No run assumes that a motor follows, that a plan succeeds or that new input stops;
where a property needs that, it is its premise.

## 4. Proofs

TLAPS checks these for every value of the constants that the named assumptions
allow (limits ordered and integers, periods positive, messages that respect
`VMax`).

- `CanBridgeProofs`: `TypeCorrect`; `ReadyBeforeFrames` (`NothingBeforeReady`),
  `FaultShutdownCorrect` (`FaultShutdownMirrorsBits`), `AppliedCorrect`
  (`AppliedIsWhatWasSent`); `FramesAreSlewLimited` (`WireSlewBounded`),
  `TorquesAreSlewLimited` (`WireTorqueSlewBounded`), `HomeStartIsCorrect`
  (`HomeStartsWhereTheArmIs`), `GripperStaysUntilCommanded`
  (`GripperHoldsUntilCommanded`). None of the invariants is inductive alone. `BridgeInv`
  adds what the cache may hold before a motor is ready (`ReadyInv`: a valid entry
  without an external command exists only for a motor that is ready and not
  blocked), that the flag follows the bits (`FaultInv`), and that every position a
  later frame can be built from - the cached command, both ends of the home
  trajectory, the last one sent - lies within the limits (`LimitsInv`). The
  four action properties rest on `WiresInv` besides. The code limits a frame against
  what it last handed to the socket, the property against what was last written:
  `SlewInv` bounds the distance between the two by the rate times the difference of
  their ages, so that a run of failed writes adds up to no more than one long step;
  once the age is saturated, the limits (`LimitsInv`, `TorqueInv`) and
  `WireCapAssumption` bound it instead. `EpisodeInv` says that a motor whose last
  frame was a command is in no home episode and has reported where it is, `HeldInv`
  that a gripper without a command has one position to send. The arithmetic it all
  rests on is stated as lemmas: clamping, choosing a home among the
  turns of a joint, interpolating, limiting.
- `PlanNodeProofs`: `PlanTypeCorrect`; `CommandsAreContinuous` (`CommandNeverJumps`),
  `SecondLegsFollow` (`LegsBelongTogether`), `EndsAnswerExecutions`
  (`EndsOncePerExecution`), `EndsWhileTracking` (`DoneOnlyWhileTracking`). `LegsInv`
  says that a queued second leg is that of the pending plan or, when none is
  pending, of the active first leg; `ProgressInv` that the trajectory time of an
  active plan is short of its end; `CommandInv` that every plan in a slot respects
  `VMax` and that the last command is where the plan or the hold was last sampled.
  The continuity rests on `SampleMoves` (a line rounded down moves by at most
  `VMax * g` in `g` units of time) and on `CommittedIsSlow` (a plan that is rebuilt
  from where the arm is keeps the limit).
- `PlanningProofs`: `PipelineIsPlanService` (`ImplementsService`): the two nodes
  are the plan service the task is composed with, for any number of targets and any
  planner that returns what `plan_motion` can return. `ThreadsInv` says that a thread
  carries the serial it was started for, `MessagesInv` that a message on its way is
  the only one of a thread that has ended, `SlotsInv` that the plans in the slots
  have arrived and are of different targets, and that a queued second leg is of the
  plan before it: so each serial is at one stage at a time, and a step moves it to
  the next. It is stated for the pipeline by itself (`PipelineSpec`); the runs look
  at it as a part of `MCPlanning`. The same module proves `PlansAreUsable`
  (`PlanIsUsable`), for any poses and any answers of the checker, and
  `AcceptedGoalsAreNearest` (`AcceptedGoalIsNearest`), for any seeds, tolerances and
  distances. `PlannerInv` keeps what has been asked: the candidates before the one
  that is looked at collide, a way that is behind found nothing, and the pose that
  the retreat avoids is that of the first candidate, which is there because a
  ranking of a non-empty set is a listing of all of it (`SortIsOnto`). `IkInv` says
  that every result kept is one of a search that ended, within the tolerance it
  claims, so that the smallest of them is a solution and none of those before it
  was nearer.
- `OrderLemmas`: what these need of orders and recursion. A finite set that is
  strictly ordered has a first element (`FirstExists`) and can be listed in order
  (`SortExists`), the listing leaves nothing out (`SortIsOnto`), and a function can
  be defined step by step (`RecursionExists`); what is listed by rank ascends
  (`AscendingFacts`), and every rank is taken (`RankExists`); a fold over a finite set
  has a value (`FoldExists`), in particular a sum, which may be taken apart
  (`SumExists`, `SumOf`, `SizesAddUp`). The library's induction rules take an
  operator and cannot be used; these follow from its theorem that the order of the
  naturals is well founded, which takes a set: the induction is by the smallest
  counterexample.
- `ArmDriversProofs`: of the gripper, `GripperTypeCorrect`, `OpenIsSilent`
  (`NoReportWhenOpening`), and `GripperIsGraspService`, the refinement of
  `GraspService`. `SettleInv` bounds the count while the jaw closes, `WatchInv` says
  that the node watches the jaw only while it commands it closed. Of the players of
  motions, `MotionsStopAtZero` (`FirstPassThroughZero`), for any motors, limits,
  waypoints, start positions, speeds and durations. `MotionInv` adds that what was
  heard of a motor is a position. `joint_sweep_node` looks for crossings before it
  moves and `dataset_ik_motion_node` inserts waypoints into all segments
  (`CompletedKeepsSides`); `random_motion_gc_node` does not look at the end, but goes
  through zero and splits every step (`ExpandIsPath`, `SplitIsPath`): that a point of a line, rounded down, is on
  the side of one of its ends is `SidesStay`. The random node looks at its random
  motors only, so `ConfigsAssumption` says of a motor that is commanded besides that
  its home is at zero, which is the default of that node.
  `CommandsAreContinuous` (`CommandIsContinuous`) is the longest argument. `ContInv`
  says that what was last commanded to a motor is no further from where its motion
  is now (`Now`) than `MaxSpeed` allows in the time since, and that the motion has
  no gap between segments and none that is too fast (`Built`); a step of time moves
  `Now` by `MaxSpeed` at most, into the next segment too (`NowIsSlow`, on the line
  rounded down: `LineIsSlow`), and a tick sends the motors to `Now`, whichever
  segments it skips. What remains is that each motion is built without a gap and
  begins where its motors are: `BuildRuns` and `SweepPlanRuns` for the ways of
  `joint_sweep_node`, `IkPlanRuns`, `ChainRuns` for the random waypoints, `CarriesOn`
  for the controller of `ee_xyz_trajectory_node`, whose goals replace each other in
  the middle of a motion. The durations are parameters of the nodes, so
  `SweepAssumption` relates them to `MaxSpeed`; that positions lie within `SweepReach`
  or `MaxReach` of zero (`ReachAssumption`) bounds what is reported and asked for, and
  `MotionAssumption` that after `SinceCap` a motor may be anywhere within them.
- `MachineProofs`: `StoreTypeCorrect`, `SavesAreKept` (`SavesAddUp`),
  `CacheCorrect` (`CacheIsCurrent`), `ExpectedCorrect` (`ExpectedHasPublished`),
  `GateCorrect` (`GateClosesWithTheLast`), for any tools, nodes, streams and crews.
  `SavesInv` says that the draft of a tool that has read is what the file holds
  (only the holder of the lock writes, and nobody creates a file that is there);
  `CacheInv` that a thread has looked at no later time than the file's, that what
  it has loaded under the file's own time is what the file holds, and that, unless
  assignments have crossed, the one thread between its two assignments is the one
  whose document the cache holds; `CopiesAreOld`
  that no copy of an announcement, in the file or in a process, is younger than its
  owner's last write. `MetricsStayTogether` (`MetricsBelongTogether`) is of
  `LearningFiles`, for any trainings and evaluations, ablations and commands. What
  is judged is settled when no path was given and the last training in the directory
  was alone and had ended, failed or been killed before. `InOrder` is why what is
  left of one that did not end is mixed in one way only: it writes in the order of
  `Rank`, and what is of it stands beside all of it that is written before, because
  nobody else writes there and what it makes is marked as its own. An
  evaluation learns only at its end whether nothing was begun all the time, so
  `LearningInv` has to say it earlier: of a training that is alone in its directory,
  what it has written is still there (`TrainingOK`); of an evaluation and of a scan,
  what they have loaded is still there, unless a training was or is going on
  (`EvaluatorOK`, `ScannerOK`); of metrics, that what they were made from is what is
  there as long as their training is the last (`MetricsOK`). That none of this is
  disturbed by a step of a training that the rest does not speak of is `StepLeaves`.
  A training in a directory starts a new `lately`, which settles nothing, and a
  copied GRU is why `IsOf` takes what is at its place for the final model.
  `DatasetsAreSound` (`DatasetIsSound`) is of `SimDataset`, for any splits and any
  disturbances a plan can hold. `DatasetInv` says of the split that is being made and
  of those that are saved that the rows of their tables number the events and lie
  inside their episode (`SplitOK`), and that episodes are numbered on from split to
  split; a sample is compared with all the rows of its split, so an episode that is
  added must be shown to leave the rows before it alone. `ThresholdsAreMonotone`
  (`HigherThresholdFindsLess`), `TheCountsAgree` (`EventsAgreeWithSamples`) and
  `ThePartsAddUp` (`PartsAddUp`) are of `ContactEvaluation` on such a dataset, for any
  probabilities, windows, margins, thresholds and bins; `EvaluationInv` adds that
  there is one probability per window. The windows are those that end in
  ascending samples (`AscendingFacts`), which is what ties the order of windows to
  that of times. The sums in `PartsAddUp` are folds: `AddsUp` says what a fold
  over any finite set returns, by the smallest set for which it would not, and
  `SizesAddUp` that the sizes of disjoint sets add up to that of their union.
- `PickPlaceProofs`: `PickTypeCorrect`, `GraspsAreJudged` (`JudgedBeforeGoingOn`),
  `MovesAreDone` (`MovesAwaitTheirDone`), for any number of retries and of planning
  jobs, and topics of any length. `DoneInv` says that a status DONE was heard in the
  state the task is in, because every transition resets it. `GraspInv` follows a
  close from the call to the verdict: it is on its way, being done, judged or heard,
  at one of these at a time, and only after the first tick of GRASP_CLOSE. Without
  it a verdict on its way when the state is entered could not be told from the one
  about the close just called; with it, no verdict is on its way then.
- `PerceptionProofs`: `ReadyMessagesAreFresh` (`ReadyIsFresh`) and
  `ContactsFollowEvidence` (`ContactFollowsEvidence`) of `contact_detector_node`, for
  any motors, arrays, time-outs, thresholds and answers of the model, and
  `TapsTellTheTruth` (`TapsAreTrue`) of the two camera nodes. `FreshInv` adds to
  `ReadyIsFresh` that every motor was heard, because a receipt is compared only
  where there is one. `ContactInv` says that a contact stands only beside a full
  window of samples that follow each other: a window of which a part is missing was
  therefore emptied, and its contact with it. `OnlineAgreesWithOffline`
  (`OnlineIsOffline`) rests on `WindowInv`, which counts back from the last sample,
  because window and history both lose their first element when they are full: the
  feature that is `back` from the end is that of the sample `back` from the end of
  the history, no data was lost between two samples of a window, and a window that
  is not full begins where data was lost. That a window of the offline pipeline
  ends there follows from `SameEpisode` (samples are of one episode when nothing was
  lost between them) and `WindowAtEnd` (the last episode is at least as long as a
  full window and no longer than one that is not). `SavingInv` says that a sample which
  is being saved has its colour file after the first write, its depth file only
  when the row will say so, and no row; a restart leaves a file without a row, and
  the next stamp is newer than that file. Of the training of the detector,
  `CheckpointsAreBest` (`CheckpointIsBest`) and `ThresholdsKeepTheirPromise`
  (`ThresholdKeepsPromise`), for any recordings, policies, scores and losses.
  "Better by more than `min_delta`" is not transitive; the induction holds because
  the highest rank is never above the best one by more than that (`Unbeaten`,
  `BestIsUnbeaten`, on the order of fractions and of tuples: `AboveIsTransitive`,
  `MinusAgrees`, `LexIsOrder`). Of the search, that it ends at a candidate no other
  one precedes (`SearchFinds`), that the lowest candidate finds every contact
  (`LowestFindsAll`) and that a higher one has no higher false-positive rate
  (`HigherFindsLess`), which is what the fallback keys rely on; that the windows of
  two episodes are apart follows from `WindowsInEpisodes`. Of the choice of a box,
  `SelectionsAnswer` (`SelectionAnswersCommand`), for any commands and sightings
  whatever the topics drop: what is kept is a reading the node has normalised and a
  sighting it has received (`SelectorTypeOK`), and the first of the smallest keys is
  no box that another one beats, whether or not it has a distance. It is stated for
  the node by itself (`SelectorSpec`); in `Perception` the messages come from
  `Detect`, `Type` and `Speak`, each of which is a step `Arrives` allows. Of the
  boxes themselves, `PosesAreInTheirFrame` (`PoseIsInItsFrame`) and
  `YawsKeepTheirSense` (`YawKeepsItsSense`), for any cameras and images. What is
  published is what was detected, in another order (`SortedBoxes`: every place of a
  sorted sequence is taken by one item, `PlaceIsTaken`). Tracks are taken in the order of the
  candidates, each the nearest that is left, so that the argument is by the number of
  candidates that are done (`OneMoreOnTrack`, `CountUp`): as long as no two boxes of
  a colour are at one place, the track at a candidate's place is still there when its
  turn comes, because it could only have been taken by a candidate at that place, and
  nothing is nearer (`TrackIsNearest`). Then `SteadyIsSteady`: of an angle and the one
  a quarter further, one is within an eighth of a turn of any other.

TLC was run on every inductive invariant before it was proved. Several of the
proved invariants are in no run, since the proof covers more; the actions they
speak of are fired by the runs above.

Model-checked only: all liveness, because fairness and ENABLED are out of the
prover's reach. Every safety invariant and every action property of a passing run
is stated by a theorem.

## 5. Disagreements met while modelling

Shown by a run:

- `can_bridge_node.cpp`: the comment at the slew limiter says the first frame
  starts at the motor's position; the limiter is skipped for that frame
  (`bridge_first_frame`).
- `plan_compute_node.py`: "Discard stale (newer target arrived)" is decided under
  the lock and acted on after it (`pipeline_newest`).
- `gripper_node.py`: the sign of `delta_overclose` puts the command short of the
  threshold that would tell an empty grasp (`gripper_empty`). For the same reason a
  jaw that a block holds open satisfies the drop test.
- `control_tuning.py`: a test and the message of `assert_control_inactive` say that
  parameters are not edited in a control session; the first of two sessions that
  ends opens the gate under the other one (`tools_gate`).
- `task_fsm_node.py`: "Any state -> RECOVERY" does not hold for a plan that failed
  (`pick_plan_fails`).

Read in the code, modelled as it is, without a run:

- `control_tuning.py:209` and `210` assign the cached document and its time one after
  the other, under no lock, and each target has a planning thread of its own in
  `plan_compute_node` (198-205). When the document of a slow thread comes into the
  cache after that of a fast one and its time before, or when two writes carry one
  modification time, the older document stands under the current time until the
  next save. `src/src/phy/README.md:160` and `src/src/idle_common/README.md:35` and
  `:89` say that what is saved is used from the next call or tick. `CacheIsCurrent`
  leaves both cases out by its premises.
- `train_detectors.py:677` keeps `value.detach().cpu()` of the best epoch. On the
  CPU that is no copy, and the weights that are saved are those of the last epoch,
  under the number and the threshold of the best one, while `README.md:1087` of
  `contact_detection` says that not the last epoch is evaluated. The model has this
  behaviour, and `CheckpointIsBest` says of the weights only what holds of a copy.
- `train_real_detector.py:156`: under the `tail` split an episode that is the only one
  of its kind is trained on and validated. `ThresholdKeepsPromise` excepts it.
- `evaluate_detectors.py:1408`: an evaluation asks only whether its inputs are there.
  After a training that failed or was killed it judges older models with a newer
  scaler and threshold; after one that made no final models, `trainval_final` judges
  those of an earlier one with the newer scaler; and neither is told. That it is
  never the reverse is what `MetricsBelongTogether` says. Paths that are given may mix
  anything, which `README.md:895` of `contact_detection` does on purpose.
- `box_pose_node.py`: with a homography the plane's frame is named also for the boxes
  that have a depth, whose position is expressed in the base or the camera;
  `PoseIsInItsFrame` leaves these out.
- `plan.py`: the docstring of `_plan_from_candidates` knows no cut-off, the code
  checks `cands[:ik_max_traj_checks]`; near-singular results are documented as
  rejected, but the closest result is returned when nothing else is feasible;
  `plan_to_q` returns a colliding plan where its docstring says None.
- `evaluate_detectors.py:1192`: `recommendation_key` ranks a count of zero false
  alarms or misses as the worst. The rows of other ablations in a summary
  are those found on disk, and stay when a training has replaced its files since
  (the comment at 1271 says they remain consistent when one is run again).
- `joint_sweep_node.py:1126`: the sweep through zero leads from where the arm is only
  when a motor of the sweep is away from zero. A fixed motor that is away from its
  target is then set to it in one tick. `CommandIsContinuous` leaves these motors
  out (`SetAtOnce`); the proof of the absence of gaps does not go through with them.
- `stream_state.py` changes the announcement file without a lock: an announcement
  can be lost until the next second, or come back after its stream has ended.
- `qwen_box_selector_node.py:260`: a connection that is closed without an answer
  raises an exception that is not in the list, and ends the node.

## 6. Not modelled, and why

- `hold_node.py`: two services set a flag and the timer publishes the measured
  position with the gravity torque, or nothing; what could go wrong is numerical.
- `sim`: `sim_driver_node` keeps the last command of each motor and integrates the
  dynamics; viewers and previews only show.
- `src/motor` tools other than those above: they send one frame, print what they
  receive, or pack bytes.
- `contact_detection`: the programs that tune, compare, record, replay and draw call
  the modelled ones again with other settings, or only read files; the simulation
  of the arm, the networks and the figures are numerical.
- `collision.py`, `robot_model.py`, `gravity.py`: functions of a pose; their answers
  are free choices of the modules that ask.
- `hsv_tuner_node`, launch files, message types, configuration: no behaviour of
  their own.

Partly modelled: `plan_node` (without the keyboard goals), the players of motions
(without the switches and previews named in section 2), `ik.py` (the numerical
update is any step), `qwen_box_selector_node` (without `spatial_reference: pose`).

## 7. What could follow

A player of motions beside the bridge, so that the time-outs of one meet the end of
the other.
