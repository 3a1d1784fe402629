CONSTANTS
  MaxRetries = 2
  VerifyTicks = 2
  ServiceReady = {TRUE, FALSE}
  Unknown = Unknown
  Jobs = {j1, j2}
  NoJob = NoJob
  QueueCap = 1
  StatusCap = 2
SPECIFICATION PickFairSpec
PROPERTIES JudgedBeforeGoingOn MovesAwaitTheirDone TaskEnds
