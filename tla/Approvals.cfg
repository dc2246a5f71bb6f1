SPECIFICATION FairSpec
CONSTANTS
  o1 = o1
  o2 = o2
  NoOp = NoOp
  Ops = {o1, o2}
  Scope <- SharedScope
  Configured = {"prompt"}
  MaxCommands = 2
  MaxCrashes = 1
INVARIANTS OutcomeWasDecided HeardIsRecorded NotAskedAgain
PROPERTIES AnswerTakesEffect CommandReturns
CHECK_DEADLOCK FALSE
