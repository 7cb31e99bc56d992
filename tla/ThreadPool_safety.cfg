SPECIFICATION Spec
CONSTANTS
  a = a
  b = b
  c = c
  d = d
  e = e
  c1 = c1
  c2 = c2
  N = 2
  StartSizes <- MCStarts
  Clients <- MCClients
  Owner = Owner
  Tasks <- MCFive
  Nested <- MCNested5
  Faulty <- MCFaulty
  MaxQueueSize = 2
  MaxSpurious = 1
  Nobody = Nobody
  NoTask = NoTask
SYMMETRY MCSymmetry
CHECK_DEADLOCK FALSE
INVARIANTS
  QueueBounded
  NoLostTakeWakeup
  NoLostPutWakeup
  NoSleeperAfterStop
  LateTakes
PROPERTIES
  ImplementsExecutor
