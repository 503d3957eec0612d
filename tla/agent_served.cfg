SPECIFICATION ServedSpec
CONSTANTS
  s1 = s1
  s2 = s2
  NoSender = NoSender
  Senders <- MCSenders
  Abandoning <- MCNobody
  MaxTurns = 3
  MaxToolCalls = 2
  PipeBound = 1
  EventBuffer = 1
PROPERTY SendReturns
PROPERTY CloseReturns
PROPERTY ImplementsConversation
CHECK_DEADLOCK FALSE
