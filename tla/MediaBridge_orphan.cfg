SPECIFICATION Spec
CONSTANTS
  Sids = {s1}
  MaxTasks = 2
  MaxTurns = 2
  MaxChunks = 0
PROPERTY NoOrphanIngestion
CHECK_DEADLOCK FALSE
