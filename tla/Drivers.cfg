SPECIFICATION FairSpec
CONSTANTS
  Writers = {1, 2, 3}
  Racing = {1, 2}
  Peers = 2
  Shared = 0
INVARIANTS
  OneRowSetPerVersion
  VerdictIsRight
  LineUp
PROPERTIES
  EveryDriverEnds
