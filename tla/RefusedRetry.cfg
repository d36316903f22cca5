SPECIFICATION Spec
CONSTANTS
  Artifacts = {1}
  Services = {1}
  ServiceOf <- OneService
  Contents = {1, 2}
  Contracts = {"c1"}
  Zones = {1}
  Accepted <- FirstRefused
  MaxStamp = 1
  Offered <- AllOffered
  OfferedZones <- EachZoneOnce
  Deployed <- DeployedC1
  MaxCrashes = 1
  MaxRevisions = 0
  MaxDamages = 0
  MaxEvents = 1
INVARIANTS
  RetryReachesWrites
