SPECIFICATION FairSpec
CONSTANTS
  a = a
  b = b
  c = c
  Children = {a, b, c}
  Nested = {b}
  Outer = a
  Unsafe = {b}
  MaxConcurrency = 1
  Budgets <- MCBudgets
INVARIANTS AdmissionBound NoSecondWake
PROPERTIES TerminalSticks EventuallyEnds
CHECK_DEADLOCK FALSE
