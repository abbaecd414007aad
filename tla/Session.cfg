SPECIFICATION FairSpec
CONSTANTS
  Pubs = {p1, p2}
  Subs = {s1}
  ProducerStale = 3
  SubStale = 3
  Retry = 1
  MinRead = 1
  MaxStall = 1
  MaxQuiet = 1
  Overlap = FALSE
  MaxSegs = 2
  MaxFrames = 1
INVARIANT TypeOK
INVARIANT LiveNameKept
INVARIANT HeaderComplete
INVARIANT ShutdownIsTrue
PROPERTY RefusedOnlyIfRecent
PROPERTY Recovers
