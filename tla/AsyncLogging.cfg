SPECIFICATION FairSpec
CONSTANTS
  k = k
  l = l
  m = m
  n = n
  long = long
  Lines <- MCLines
  Size <- MCSize
  BufferSize = 2
  DropLimit = 3
  Owner = Owner
  Backend = Backend
  NoBuffer = NoBuffer
  LatchThreads <- MCLatch
  LatchCount = 1
CHECK_DEADLOCK FALSE
INVARIANTS
  AssertionsHold
  NoLineLostOrRepeated
PROPERTIES
  LinesGetWritten
  StopReturns
