SPECIFICATION Spec
CONSTANTS
  Subs = {s1, s2}
  Stale = 4
  Word = 32
  MaxStall = 1
  MaxQuiet = 1
  Faults = {"wrap", "quiet"}
  Watching = TRUE
  MaxClock = 8
  MaxAttaches = 3
INVARIANT TypeOK
INVARIANT RingExclusive
INVARIANT QuietMeansDead
PROPERTY ClaimKept
INVARIANT StolenNeverEnters
PROPERTY NeverCleared
