SPECIFICATION FairSpec
CONSTANTS
  Consumers = {c1, c2}
  SlotCount = 1
  ControlCells = 1
  RingCells = 1
  kDefaultSize = 2
  kMaxSize = 2
  WindowSizes = {1, 3}
  Colors = {green, red}
  Urls = {red}
  Green = green
  MaxLaunches = 2
  MaxEvents = 1
CHECK_DEADLOCK FALSE
INVARIANT TypeOK
INVARIANT OwnViewKept
INVARIANT FramesAreDrawn
INVARIANT UrlKept
INVARIANT DrawnFits
PROPERTY ReturnsToPool
PROPERTY WindowIsFilled
