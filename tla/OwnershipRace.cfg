SPECIFICATION Spec
CONSTANTS
  Subs = {s1, s2}
  Stale = 4
  Word = 32
  MaxStall = 1
  MaxQuiet = 1
  Faults = {"overlap", "wrap"}
  Watching = TRUE
  MaxClock = 9
  MaxAttaches = 3
INVARIANT OneInRings
