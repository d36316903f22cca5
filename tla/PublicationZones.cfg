SPECIFICATION FairSpec
CONSTANTS
  Artifacts = {1, 2}
  Services = {1, 2}
  ServiceOf <- OneServiceEach
  Contents = {1, 2}
  Contracts = {"c1"}
  Zones = {1, 2}
  Accepted <- AcceptAll
  MaxStamp = 1
  Offered <- FirstIsRevised
  OfferedZones <- EachZoneOnce
  Deployed <- DeployedC1
  MaxCrashes = 1
  MaxRevisions = 0
  MaxDamages = 0
  MaxEvents = 1
INVARIANTS
  TypeOK
  LayoutBeforeData
  SettlingNeverRefused
PROPERTIES
  CoverageKept
  OthersUntouched
  ReplayWritesNothing
  AlwaysCurrentAgain
