SPECIFICATION ProcessSpec
CONSTANTS
  o1 = o1
  o2 = o2
  stl = stl
  log = log
  kept = kept
  Objects <- MCObjects
  Main = Main
  Users <- MCUsers
  Callers <- MCUsers
  Singletons <- MCSingletons
  Needs <- MCNeeds
  Parting <- MCParting
  Kept <- MCKept
  NoSingleton = NoSingleton
  NumKeys = 3
  Singles <- MCSingles
  Uses <- MCUses
  Rounds = 4
  Stl = stl
  StlKey = 3
  LocalKey = 2
  Wants <- MCWants
INVARIANTS
  UniqueNames
  TidOutlivesWrite
  ReleasedOnce
  NothingDangles
  TlsAssertions
  ValuesDeleted
