CONSTANTS
  QLo = 0
  QHi = 1
  Positions <- MCPositions
  Messages = {}
  None = None
  VMax = 1
  WarpLo = 0
  WarpHi = 1
  StallTimeout = 1
  StateTimeout = 1
  GapCap = 1
  MaxTargets = 2
  Outcomes <- MCOutcomes
  Starts <- MCStarts
  Solutions <- MCSolutions
  ResidualAccept = 1
  MaxChecks = 2
  MinDuration = 1
  FullReach = 2
  Goals <- MCGoals
  Policies <- MCPolicies
  Lower <- MCLower
  Upper = 2
  Period = 4
  Tolerance = 0
  Iterations = 2
SPECIFICATION PlanningSpec
PROPERTIES NewestPlanWins
CHECK_DEADLOCK FALSE
