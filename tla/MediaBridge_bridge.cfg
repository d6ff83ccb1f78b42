SPECIFICATION FairSpec
CONSTANTS
  Sids = {s1}
  MaxTasks = 2
  MaxTurns = 2
  MaxChunks = 1
INVARIANTS EndedIsClean TeardownClosesTurn
PROPERTIES
  InterruptedIsUnheard
  TeardownIsSilent
  FailureLostOnlyBeforeTeardown
  SessionEnds
CHECK_DEADLOCK FALSE
