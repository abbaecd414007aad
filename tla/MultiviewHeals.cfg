SPECIFICATION Spec
CONSTANTS
  Consumers = {c1, c2}
  SlotCount = 2
  ControlCells = 1
  RingCells = 2
  kDefaultSize = 2
  kMaxSize = 2
  WindowSizes = {0, 1, 3}
  Colors = {green, red}
  Urls = {green, red}
  Green = green
  MaxLaunches = 3
  MaxEvents = 0
CHECK_DEADLOCK FALSE
INVARIANT AssignedIsThere
