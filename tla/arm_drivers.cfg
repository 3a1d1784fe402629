CONSTANTS
  a = a
  b = b
  MotorIds = {a, b}
  QLower <- MCLower
  QUpper = 4
  StartTolerance = 1
  ZeroEps = 0
  Unsafe <- MCUnsafe
  MaxStateAge = 1
  MaxSpeed = 4
  MaxReach = 8
  SinceCap = 4
  NoCommand = NoCommand
  InitialDuration = 2
  SegmentDuration = 2
  HalfAtLeast = 1
  MaxAbsQ = 7
  SweepReach = 4
  CheckSamples = 3
  MinNorm = 3
  MaxNorm = 6
  RandomDuration = 1
  HomeDuration = 2
  MaxStep = 4
  MinStep = 2
  SafeSamples = 3
  IkDuration = 1
  ZeroDuration = 2
  LeastDuration = 1
  NoGoal = NoGoal
  Configs <- MCConfigs
  QLo = 0
  QHi = 3
  Positions <- MCPositions
  Messages <- MCMessages
  Serials = {1, 2}
  None = None
  VMax = 1
  WarpLo = 1
  WarpHi = 3
  StallTimeout = 2
  StateTimeout = 1
  GapCap = 3
  QOpen = 0
  QClosedMin = 50
  Delta <- OverClose
  Margin = 1
  SettleTicks = 3
  BlockAt = 30
  JawStops <- MCJawStops
SPECIFICATION DriversFair
INVARIANTS FirstPassThroughZero
PROPERTIES CommandNeverJumps LegsBelongTogether ExecutionEnds CommandIsContinuous MotionEnds ImplementsGraspService CloseIsAnswered
CHECK_DEADLOCK FALSE
