SPECIFICATION Spec
CONSTANTS
  t1 = t1
  t2 = t2
  UTC = UTC
  Local = Local
  StdOut = StdOut
  File = File
  LogThreads <- MCThreads
  Clocks <- MCClocks
  Zones <- MCZones
  NoZone = UTC
  Sinks <- MCSinks
  Levels <- MCLevels
  Messages <- MCMessages
  Nobody = Nobody
SYMMETRY MCSymmetry
CHECK_DEADLOCK FALSE
INVARIANTS
  TimesRight
  LinesFit
  FatalLineSurvives
