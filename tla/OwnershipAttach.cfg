SPECIFICATION FairSpec
CONSTANTS
  Subs = {s1, s2}
  Stale = 2
  Word = 32
  MaxStall = 1
  MaxQuiet = 1
  Faults = {"overlap", "wrap", "stall", "quiet"}
  Watching = FALSE
  MaxClock = 4
  MaxAttaches = 3
CHECK_DEADLOCK FALSE
PROPERTY AttachEnds
PROPERTY DeadOwnerReplaced
