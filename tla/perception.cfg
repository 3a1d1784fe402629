CONSTANTS
  a = a
  NotStarted = NotStarted
  Plans <- MCPlans
  Scores = {2, 4, 6}
  Losses = {1, 2}
  MotorIds = {a}
  Arrays <- AnyArray
  StateTimeout = 1
  CmdTimeout = 1
  SyncTolerance = 1
  Late = 1
  WindowLength = 2
  Probabilities = {2, 3, 6}
  Checkpoints = {4}
  Parameters <- MCParameters
  ValueCap = 4
  LogCap = 3
  NoSample = NoSample
  Cameras <- MCCameras
  MatchTimeout = 1
  ImageLate = 1
  NoImage = NoImage
  NoPose = NoPose
  Answers <- MCAnswers
  QueueDepth = 2
  DefaultSpatial = "largest"
  Middle = 6
  Infinity = 100
  Nothing = NoImage
  Texts = {"", "exit", "green"}
  StartFrames = 2
  PreRoll = 2
  EndSilence = 2
  MinRecord = 2
  MaxRecord = 3
  ExitShutsDown = TRUE
  Taps <- MCTaps
  TapTimeout = 1
  TapLate = 1
  MaxStamp = 3
  NaN = NaN
  None = NoImage
  Meaning <- MCMeaning
SPECIFICATION PerceptionFair
INVARIANTS CheckpointIsBest ThresholdKeepsPromise OnlineIsOffline ReadyIsFresh PoseIsInItsFrame SelectionAnswersCommand TapsAreTrue
PROPERTIES ContactFollowsEvidence DetectorGetsReady YawKeepsItsSense VoiceNeverHangs
CHECK_DEADLOCK FALSE
