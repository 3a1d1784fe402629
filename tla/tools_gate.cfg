CONSTANTS
  t1 = t1
  t2 = t2
  t3 = t3
  r1 = r1
  r2 = r2
  n1 = n1
  s1 = s1
  s2 = s2
  e1 = e1
  e2 = e2
  Tuners = {t1, t2, t3}
  Readers = {r1, r2}
  Nodes = {n1}
  NodeOf <- MCNodeOf
  Entries = {e1, e2}
  Updates <- MCUpdates
  Original = Original
  Missing = Missing
  NoOne = NoOne
  Streams = {s1, s2}
  MaxAge = 1
  Crews <- GateCrews
  Trainers = {train1, train2}
  Evaluators = {evaluate1}
  Nobody = Nobody
  Stage = "stage"
  Tags <- MCTags
  Commands <- MCCommands
  Options <- MCOptions
  Splits <- MCSplits
  Steps = 3
  Durations = {1, 2}
  LabelEps = 0
  TrajectoryModes = {"hold", "sine"}
  Likelihoods = {1, 2, 3}
  Thresholds = {2, 3}
  Settings <- MCSettings
SPECIFICATION MachineSpec
PROPERTIES NoToolPassesASession
CHECK_DEADLOCK FALSE
