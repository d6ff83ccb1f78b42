SPECIFICATION Spec
CONSTANTS
  Sids = {s1}
  MaxTasks = 1
  MaxTurns = 1
  MaxChunks = 0
PROPERTY ShutdownKeepsFailure
CHECK_DEADLOCK FALSE
