SPECIFICATION Spec
CONSTANTS
  s1 = s1
  s2 = s2
  NoSender = NoSender
  Senders <- MCSenders
  Abandoning <- MCOne
  MaxTurns = 2
  MaxToolCalls = 0
  PipeBound = 1
  EventBuffer = 1
INVARIANT AnswersOwnTurn
CHECK_DEADLOCK FALSE
