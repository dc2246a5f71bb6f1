SPECIFICATION Spec
CONSTANTS
  r1 = r1
  a1 = a1
  s1 = s1
  s2 = s2
  Runs = {r1}
  Agents = {a1}
  Streams = {s1, s2}
  RunOf <- MainAndChild
  Sessionless = {}
  LiveStates = {"queued", "running"}
  Consumers = {c1}
  MaxEvents = 2
  MaxBytes = 3
  CompactAt = 1
  MaxPublish = 5
INVARIANTS LifecycleLossless BarriersSeparate DeltasExactlyOnce
  AgentTransitionsKept DropsAnnounced BacklogBounded NoLostWakeUp
CHECK_DEADLOCK FALSE
