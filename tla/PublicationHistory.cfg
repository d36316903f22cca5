SPECIFICATION Spec
CONSTANTS
  Artifacts = {1, 2}
  Services = {1}
  ServiceOf <- OneService
  Contents = {1, 2}
  Contracts = {"c1", "c2"}
  Zones = {1}
  Accepted <- RevisionRefuses
  MaxStamp = 2
  Offered <- FirstIsRevised
  OfferedZones <- EachZoneOnce
  Deployed <- DeployedC1
  MaxCrashes = 1
  MaxRevisions = 2
  MaxDamages = 1
  MaxEvents = 3
INVARIANTS
  MarkerComplete
  LateFailureMeansUnaccepted
  RowsMatchRebuild
  IncidentsMatchRebuild
  LedgerClaimsExposed
  LedgerMatchesView
PROPERTIES
  CoverageKept
  ViewMonotone
