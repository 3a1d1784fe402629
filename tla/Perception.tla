------------------------------ MODULE Perception ------------------------------
(* What tells the robot about the world: the contact detector, which feels, and *)
(* the vision nodes, which see and listen.  They share no state and are not     *)
(* started together, so that one of them at a time is looked at.                *)
EXTENDS ContactTraining, ContactDetector, BoxPose, BoxSelector, VoiceCommand, CameraTaps

(*                                    Vision                                    *)
(* The vision nodes and the topics between them: box_pose_node publishes what   *)
(* qwen_box_selector_node selects from, and commands come from                  *)
(* voice_command_node, or are typed.  The nodes are processes of their own.     *)
CONSTANTS
  Meaning   \* what the rules read in a text that is typed or spoken

visionVars == <<boxPoseVars, selectorVars, voiceVars, tapVars>>

VisionInit ==
  /\ BoxPoseInit /\ SelectorInit /\ TapsInit /\ VoiceInit
  /\ tap.node # "off" => camera.images = {} /\ ~camera.speaks

\* Which of the nodes a launch file starts beside the camera, and what is typed,
\* is part of the configuration of the camera.
SelectorUnmoved == UNCHANGED <<asking, parsed, seen, selected, target, running>>

Detect ==
  /\ See
  /\ boxes' = IF ~camera.selects THEN boxes
              ELSE Queued(boxes, [frame |-> payload'.frame,
                     boxes |-> [i \in DOMAIN payload'.boxes |->
                       [color |-> payload'.boxes[i].color, at |-> payload'.boxes[i].at,
                        area |-> payload'.boxes[i].area, z |-> payload'.boxes[i].z,
                        posed |-> payload'.boxes[i].pose # NoPose]]])
  /\ SelectorUnmoved /\ UNCHANGED <<commands, voiceVars, tapVars>>

CameraChanges ==
  /\ Measure \/ OnCameraInfo \/ DepthAges
  /\ camera.images # {}
  /\ UNCHANGED <<selectorVars, voiceVars, tapVars>>

\* What the worker publishes goes to the command topic.
Speak(Step) ==
  /\ camera.speaks
  /\ Step
  /\ commands' = IF spoken' = NoText THEN commands ELSE Queued(commands, Meaning[spoken'])
  /\ SelectorUnmoved /\ UNCHANGED <<boxes, boxPoseVars, tapVars>>

Type ==
  /\ \E text \in camera.typed : commands' = Queued(commands, Meaning[text])
  /\ SelectorUnmoved /\ UNCHANGED <<boxes, boxPoseVars, voiceVars, tapVars>>

Selects(Step) == camera.selects /\ Step /\ UNCHANGED <<boxPoseVars, voiceVars, tapVars>>
Tap == TapsNext /\ UNCHANGED <<boxPoseVars, selectorVars, voiceVars>>

VisionNext ==
  Detect \/ CameraChanges \/ Speak(VoiceNext) \/ Type \/ Selects(SelectorNext) \/ Tap

VisionSpec == VisionInit /\ [][VisionNext]_visionVars

\* The worker runs and the microphone brings frames; the main thread runs.
VisionFairness == WF_visionVars(Speak(WorkerSteps)) /\ WF_visionVars(Speak(MainSteps))

(*                              Contact detection                               *)
(* A detector from its training to its use: train_detectors or                 *)
(* train_real_detector saves a checkpoint, and contact_detector_node starts    *)
(* with it and with the parameters of its launch.                              *)
CONSTANTS NotStarted

detectionVars == <<trainingVars, detectorVars>>

DetectionInit == TrainingInit /\ NothingHeard /\ config = NotStarted

Train == TrainingNext /\ UNCHANGED detectorVars

\* The node reads the checkpoint; the process that trained it is gone.
Start ==
  /\ training = "ended"
  /\ config' \in Startable(DecisionThreshold)
  /\ training' = "gone" /\ plan' = NotStarted
  /\ epoch' = 0 /\ val' = NoVal /\ best' = NoBest /\ best_state' = 0 /\ stale' = 0 /\ top' = <<>>
  /\ UNCHANGED <<sensors, temporal, contact, out, due, history>>

Detects(Step) == config # NotStarted /\ Step /\ UNCHANGED trainingVars

DetectionNext == Train \/ Start \/ Detects(DetectorNext)

DetectionSpec == DetectionInit /\ [][DetectionNext]_detectionVars

\* What DetectorFair assumes, once the node runs.
DetectionFairness ==
  /\ WF_detectionVars(Detects(OnTimer)) /\ WF_detectionVars(Detects(Tick))
  /\ WF_detectionVars(Detects(steady /\ OnStateArray(MotorIds, 0, TRUE)))
  /\ WF_detectionVars(Detects(steady /\ OnCmdArray(MotorIds, 0, TRUE)))

(*                         Detection beside the vision                          *)
perceptionVars == <<detectionVars, visionVars>>

NothingIsTrained ==
  /\ plan = NotStarted /\ config = NotStarted /\ training = "gone"
  /\ epoch = 0 /\ val = NoVal /\ best = NoBest /\ best_state = 0 /\ stale = 0 /\ top = <<>>
  /\ NothingHeard

NothingIsSeen == camera.images = {} /\ ~camera.speaks /\ tap.node = "off"

PerceptionInit ==
  \/ DetectionInit /\ VisionInit /\ NothingIsSeen
  \/ NothingIsTrained /\ VisionInit /\ ~NothingIsSeen

PerceptionNext ==
  \/ DetectionNext /\ UNCHANGED visionVars
  \/ VisionNext /\ UNCHANGED detectionVars

PerceptionSpec == PerceptionInit /\ [][PerceptionNext]_perceptionVars

PerceptionFair == PerceptionSpec /\ DetectionFairness /\ VisionFairness

=============================================================================
