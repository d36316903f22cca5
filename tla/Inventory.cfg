SPECIFICATION FairSpec
CONSTANTS
  Artifacts = {1, 2}
  Selections = {{}, {1, 2}}
  Contents = {1, 2}
  FirstContent = 1
  Outputs = {1}
  M1Evidence = 1
  Annual = 2
  Attempts = 2
  MaxRevisions = 1
INVARIANTS
  AttestedWasRecorded
PROPERTIES
  InspectionEnds
