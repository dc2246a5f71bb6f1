\* A daemon of the older version may run at first.
CONSTANTS
  Nobody = Nobody
  Daemons = {1, 2, 3}
  Legacy = {1}
  Launchers = {l1, l2}
  MaxDaemons = 2
  MaxLaunches = 2
  MaxCommands = 1
  MaxFaults = 1
SPECIFICATION FairSpec
INVARIANTS AddressIsOwned OneDaemonServes IdleStopCutsNobody
PROPERTY UnusedWorkspaceEmpties
CHECK_DEADLOCK FALSE
