SPECIFICATION Spec
CONSTANTS
  Callers = {c1}
  Features = {"llm", "stt", "summary"}
  MaxToolIterations = 1
  RepositoryMayFail = FALSE
  MaxMessages = 2
  MaxTurns = 1
  MaxChunks = 1
  MaxFrames = 1
INVARIANT OnePrepareAtATime
CHECK_DEADLOCK FALSE
