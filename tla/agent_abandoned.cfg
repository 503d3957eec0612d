SPECIFICATION TimedSpec
CONSTANTS
  s1 = s1
  s2 = s2
  NoSender = NoSender
  Senders <- MCSenders
  Abandoning <- MCOne
  MaxTurns = 3
  MaxToolCalls = 1
  PipeBound = 1
  EventBuffer = 1
INVARIANT AnsweredOnce
INVARIANT NoEmitAfterClose
PROPERTY SendReturns
PROPERTY StartReturns
CHECK_DEADLOCK FALSE
