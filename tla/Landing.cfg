SPECIFICATION FairSpec
CONSTANTS
  Artifacts = {1, 2}
  Contents = {1, 2}
  MaxStamp = 2
  DamageKinds <- EveryDamage
  MaxFailures = 2
  MaxChanges = 2
INVARIANTS
  TypeOK
  PublishedOnce
  SilenceTakesFailures
PROPERTIES
  ImplementsLandingStore
  EventuallyReadable
