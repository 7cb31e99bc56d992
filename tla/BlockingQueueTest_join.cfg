SPECIFICATION TestSpec
CONSTANTS
  u = u
  v = v
  w = w
  a = a
  b = b
  stop = stop
  Main = Main
  QueueThreads <- MCThreads
  LatchThreads <- MCThreads
  LatchCount = 3
  Messages <- MCMessages
  Times <- MCTimes
  Stop = stop
CHECK_DEADLOCK FALSE
PROPERTIES
  JoinAllReturns
