SPECIFICATION Spec
CONSTANTS
  a = a
  b = b
  c = c
  d = d
  e = e
  c1 = c1
  c2 = c2
  N = 2
  StartSizes <- MCTwo
  Clients <- MCClients
  Owner = Owner
  Tasks <- MCFour
  Nested <- MCLeaves
  Faulty <- MCNone
  MaxQueueSize = 2
  MaxSpurious = 0
  Nobody = Nobody
  NoTask = NoTask
CHECK_DEADLOCK FALSE
INVARIANTS
  StopDrainsQueue
