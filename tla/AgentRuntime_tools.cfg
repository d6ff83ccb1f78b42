SPECIFICATION FairSpec
CONSTANTS
  Callers = {c1, c2}
  Features = {"llm", "tools", "summary", "rag", "memory", "conversation"}
  MaxToolIterations = 2
  RepositoryMayFail = FALSE
  MaxMessages = 2
  MaxTurns = 3
  MaxChunks = 2
  MaxFrames = 0
PROPERTIES CallersReturn
CHECK_DEADLOCK FALSE
