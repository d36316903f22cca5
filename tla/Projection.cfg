SPECIFICATION Spec
CONSTANTS
  Null = Null
  Services = {"yellow", "hvfhv"}
  Contracts <- SERVICE_CONTRACTS
  Spellings <- MCSpellings
  Fold <- MCFold
  Values <- MCValues
  Exact = 8
  TimeZones = {"spring", "autumn", "half", "quarter", "slack", "early", "steady"}
  Change <- MCChange
  Hour = 3600000
  Second = 1000
  MonthEnd = 43200000
  Files <- MCFiles
INVARIANTS
  EveryRowAccounted
  NothingLostSilently
  EveryDeviationNamed
  FlagsMatchCivilTime
