SPECIFICATION Spec
CONSTANTS
  RollSize = 3
  FlushInterval = 1
  CheckEveryN = 2
  RollPerSeconds = 3
  Lengths <- MCLengths
  Clocks <- MCClocks
  MaxLines = 5
  MaxShort = 2
INVARIANTS
  NamesIncrease
  FilesRollInTime
  FewOverdueLines
  LinesArePrefixes
