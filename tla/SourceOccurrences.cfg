SPECIFICATION FairSpec
CONSTANTS
  Services = {1, 2}
  Periods = {1, 2}
  Contents = {1, 2}
  Rows <- SampleRows
  FirstSample = 1
  MaxFailures = 1
  MaxSamples = 2
INVARIANTS
  TypeOK
  IngestedOnce
  VerifiedPeriodComplete
PROPERTIES
  ReplayWritesNothing
  EventuallyIngested
