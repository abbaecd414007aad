SPECIFICATION Spec
CONSTANTS
  SlotCount = 3
  MaxPayload = 2
  Readers = {r1}
  Capacities = {2}
  Retries = 4
  Word = 64
  MaxAttempts = 4
  MaxCancels = 0
PROPERTY OkIsNewFrame
