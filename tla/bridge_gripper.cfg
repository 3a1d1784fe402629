CONSTANTS
  Motors = {g}
  Gripper = {g}
  Reach = 2
  Rate = 1
  TauRate = 1
  TauMax = 1
  QMin <- MCQMin
  QMax <- MCQMax
  HomeQ <- MCHomeQ
  MaxQdot <- MCMaxQdot
  MaxTauRate <- MCMaxTauRate
  TauLimit <- MCTauLimit
  Period = 20
  NearHome = 0
  TxPeriod = 1
  CmdTimeout = 2
  HomeDuration = 2
  DtCap = 2
  StateQ = {0, 2}
  CmdQ = {1}
  CmdTau <- WideCmdTau
  FaultBits = {1, 2}
  WireCap = 4
SPECIFICATION Spec
PROPERTIES GripperHoldsUntilCommanded WireTorqueSlewBounded
