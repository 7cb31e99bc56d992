SPECIFICATION Spec
CONSTANTS
  Hour = 2
  Day = 48
  Years <- MCYears
  UtcYears <- MCUtcYears
  Seconds <- MCSeconds
  Zones <- MCZones
  SavingZones <- MCSavingZones
  Moments <- MCMoments
  Values <- MCValues
  Stamps <- MCStamps
  kBufferSize = 3
  Files <- MCFiles
  Limits <- MCLimits
  Names <- MCNames
INVARIANTS
  DatesRight
  LookupRight
  LocalRoundTrip
  TextRight
  ReadsRight
