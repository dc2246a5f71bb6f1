SPECIFICATION Spec
CONSTANTS
  d1 = d1
  i1 = i1
  i2 = i2
  NoItem = NoItem
  Daemons <- OneDaemon
  Home <- HomeOfOne
  Sessions = {1}
  Items = {i1, i2}
  CASAttempts = 4
  MaxQueueItems = 2
  ClientOps = {"update", "remove", "reorder", "retry", "pause", "resume", "guide"}
  Outcomes = {"completed", "stopped", "suspended"}
  Faults = {"crash", "start", "store"}
  MaxMutations = 3
  MaxTurns = 1
  MaxCrashes = 2
INVARIANT AtMostOneTurn
INVARIANT NoPromptLost
INVARIANT OneFate
PROPERTY ClaimRespectsPause
CHECK_DEADLOCK FALSE
