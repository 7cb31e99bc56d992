SPECIFICATION TestSpec
CONSTANTS
  a = a
  b = b
  c = c
  d = d
  latch = latch
  main = main
  other = other
  N = 2
  StartSizes <- MCTwo
  Clients <- MCClients
  Owner = Owner
  Tasks <- MCTasks
  Nested <- MCLeaves
  Faulty <- MCNone
  MaxQueueSize = 2
  MaxSpurious = 0
  Nobody = Nobody
  NoTask = NoTask
  LatchThreads <- MCLatchThreads
  LatchCount = 1
  Main = main
  Script <- MCScript
  LatchTask = latch
INVARIANTS
  DoneAtLatch
PROPERTIES
  TaskRuns
  ProducerProceeds
  StopReturns
  LatchOpens
