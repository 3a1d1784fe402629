CONSTANTS
  QOpen = 0
  QClosedMin = 50
  Delta = 5
  Margin = 1
  SettleTicks = 3
  BlockAt = 30
  JawStops = {0, 29, 30, 44, 45}
SPECIFICATION GripperSpec
PROPERTIES EmptyGraspIsSeen
