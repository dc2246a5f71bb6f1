SPECIFICATION FairSpec
CONSTANTS
  ReplayCap = 2
  ClientCap = 2
  ChannelCap = 1
  BatchCap = 1
  QueueCaps = {2, 3}
  MaxEvents = 3
  MaxEpochs = 2
  MaxFaults = 1
  MaxSelects = 1
INVARIANTS NoGap NothingStranded
PROPERTIES NoRewind Converges
CHECK_DEADLOCK FALSE
