SPECIFICATION Spec
CONSTANTS
  Callers = {c1, c2}
  Features = {"llm", "stt", "tts", "conversation"}
  MaxToolIterations = 1
  RepositoryMayFail = TRUE
  MaxMessages = 1
  MaxTurns = 2
  MaxChunks = 1
  MaxFrames = 1
SYMMETRY CallerSymmetry
INVARIANTS
  ActiveIsCurrent
  CancelledIsTerminal
  NoSequenceGap
  AnswersFollowQuestions
  TerminatedIsQuiet
PROPERTIES
  TerminalIsFinal
  NoOutputAfterInterrupt
CHECK_DEADLOCK FALSE
