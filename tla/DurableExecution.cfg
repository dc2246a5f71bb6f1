\* One operation, three lease tokens: fencing, receipts and retries.
CONSTANTS
  Ops = {o1}
  Claims = {c1, c2}
  Inputs = {i1, i2}
  Contents = {k1}
  LeaseTTL = 1
  MaxToken = 3
  MaxVersion = 3
  MaxAttempts = 2
  MaxClock = 1
SPECIFICATION Spec
INVARIANTS RunningIsFenced OneLeasePerEffect TerminalIsCertain ClaimNeverReturns
PROPERTY LedgerSpec
