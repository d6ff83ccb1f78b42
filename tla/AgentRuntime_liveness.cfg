SPECIFICATION FairSpec
CONSTANTS
  Callers = {c1, c2}
  Features = {"llm", "stt", "conversation"}
  MaxToolIterations = 1
  RepositoryMayFail = FALSE
  MaxMessages = 2
  MaxTurns = 2
  MaxChunks = 0
  MaxFrames = 1
INVARIANTS ConversationIsExchanges
PROPERTIES
  ImplementsLifecycle
  ShutdownQuiesces
  SpeechTurnCloses
  CallersReturn
CHECK_DEADLOCK FALSE
