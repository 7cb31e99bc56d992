SPECIFICATION FairSpec
CONSTANTS
  a = a
  b = b
  c = c
  d = d
  e = e
  c1 = c1
  c2 = c2
  N = 2
  StartSizes <- MCTwo
  Clients <- MCClients
  Owner = Owner
  Tasks <- MCFour
  Nested <- MCNested4
  Faulty <- MCNone
  MaxQueueSize = 1
  MaxSpurious = 0
  Nobody = Nobody
  NoTask = NoTask
CHECK_DEADLOCK FALSE
PROPERTIES
  StopReturns
