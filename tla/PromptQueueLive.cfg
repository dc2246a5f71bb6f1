SPECIFICATION FairSpec
CONSTANTS
  d1 = d1
  i1 = i1
  i2 = i2
  NoItem = NoItem
  Daemons <- OneDaemon
  Home <- HomeOfOne
  Sessions = {1, 2}
  Items = {i1, i2}
  CASAttempts = 4
  MaxQueueItems = 2
  ClientOps = {"retry", "resume"}
  Outcomes = {"completed"}
  Faults = {"crash", "start"}
  MaxMutations = 4
  MaxTurns = 0
  MaxCrashes = 1
PROPERTY DispatchedWhenAvailable
CHECK_DEADLOCK FALSE
