SPECIFICATION Spec
CONSTANTS
  WordBits = 8
  kLine = 4
  HeaderBytes = 10
  SlotHeaderBytes = 3
  RingHeaderBytes = 8
  CmdHeaderBytes = 2
  kMaxDimension = 4
  kMaxSegment = 200
  kMinSlots = 3
  kMaxSlots = 4
  MaxBpp = 4
  MaxCommandBytes = 5
  Dims = {0, 1, 2, 4, 5}
  Bpps = {0, 1, 4, 5}
  SlotCounts = {2, 3, 4, 5}
  CommandSlots = {0, 1, 2, 3, 4}
  CommandBytes = {0, 1, 5, 6}
  Sizes = {0, 1, 2, 4, 8, 9, 128}
  Garbage = {0, 1, 2, 3, 12, 40, 100}
CHECK_DEADLOCK FALSE
INVARIANT TypeOK
INVARIANT AdoptedIsSafe
INVARIANT OwnSegmentAccepted
INVARIANT AcceptedFits
