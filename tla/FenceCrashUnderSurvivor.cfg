\* unix, two live processes, one of which crashes.
CONSTANTS
  Procs = {p1, p2}
  Readers = {}
SPECIFICATION FenceSpec
INVARIANT CrashLeavesRecoveryMarker
