CONSTANTS
  Motors = {j}
  Gripper = {}
  Reach = 2
  Rate = 1
  TauRate = 1
  TauMax = 2
  QMin <- MCQMin
  QMax <- MCQMax
  HomeQ <- MCHomeQ
  MaxQdot <- MCMaxQdot
  MaxTauRate <- MCMaxTauRate
  TauLimit <- MCTauLimit
  Period = 20
  NearHome = 0
  TxPeriod = 1
  CmdTimeout = 2
  HomeDuration = 2
  DtCap = 2
  StateQ <- FarStateQ
  CmdQ <- FarCmdQ
  CmdTau = {0}
  FaultBits = {1}
  WireCap = 4
SPECIFICATION Spec
PROPERTIES FirstFrameStartsAtTheMotor
