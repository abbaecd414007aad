SPECIFICATION FairSpec
CONSTANTS
  SlotCount = 3
  MaxPayload = 1
  Readers = {r1}
  Capacities = {0, 1}
  Retries = 2
  Word = 64
  MaxAttempts = 5
  MaxCancels = 2
INVARIANT TypeOK
INVARIANT OkIsPublished
INVARIANT DropCountSane
PROPERTY NotOlderThanNamed
PROPERTY RegressAtMostOne
PROPERTY ReadTerminates
PROPERTY NewestIsRead
