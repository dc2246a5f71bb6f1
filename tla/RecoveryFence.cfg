\* Both platforms, chosen in the initial state. Under weak fairness of the
\* acquisition loop.
CONSTANTS
  Procs = {p1, p2, p3}
  Readers = {r1}
SPECIFICATION FairFenceSpec
INVARIANTS RecoveryExclusive LiveImpliesReady
PROPERTY LaterProcessJoins
