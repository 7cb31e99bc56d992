SPECIFICATION Spec
CONSTANTS
  t = t
  u = u
  v = v
  Threads <- MCThreads
  Nobody = Nobody
SYMMETRY MCSymmetry
INVARIANTS
  HolderOwns
  HeldInside
