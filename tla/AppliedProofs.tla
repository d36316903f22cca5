--------------------------- MODULE AppliedProofs ---------------------------
(***************************************************************************)
(* What a run that has gone through its plan leaves behind: every item has *)
(* its marker and the ledger its event. From this follow what the ledger   *)
(* claims, which runs fail after they moved the publication, and that a    *)
(* second application of the plan writes nothing; and, with what a plan    *)
(* says of the versions that have landed, that the boundary can be moved   *)
(* and that readers, the ledger and a rebuild agree; for every set of      *)
(* artifacts, services, versions, contracts and zones and every bound.     *)
(***************************************************************************)
EXTENDS PublicationProofs

Applying == {"next item", "contracted", "quarantine", "incidents", "marker"}
Applied == {"boundary", "ledger", "measure", "rebuild", "report"}

Marked(c) == c.state # "superseded" => MarkerFor(c) \in markers

(***************************************************************************)
(* The strengthening. A plan has one candidate per version; what is no     *)
(* longer to do is marked; nothing is left to do once a pass is over; from *)
(* the first reconciliation on the ledger has the event of every           *)
(* candidate; and the replay finds all of this in place.                   *)
(***************************************************************************)
OnePerVersion ==
  \A c, d \in planned : c.artifact = d.artifact /\ c.version = d.version => c = d

DoneIsMarked == pc \in Applying \cup Applied => \A c \in planned \ todo : Marked(c)

NothingLeft == pc \in Applied => todo = {}

LedgerLevel == \A c \in planned : ledger[c.artifact][c.version] = EventFor(c)

LedgerWritten == pc \in {"measure", "rebuild"} \/ pass = "replay" => LedgerLevel

Replaying ==
  pass = "replay" =>
    /\ pc \in {"next item", "marker", "ledger", "report"}
    /\ \A c \in planned : Marked(c)

AppliedInv ==
  /\ TypeInv
  /\ OnePerVersion /\ DoneIsMarked /\ NothingLeft /\ LedgerWritten /\ Replaying

-----------------------------------------------------------------------------
(* One step of a pass over the plan.                                       *)

(* The plan of an artifact has one candidate per landed version.           *)
LEMMA DecideOnce ==
  ASSUME NEW a, NEW contract, NEW stamps, NEW unreadable,
         NEW c \in Decide(a, contract, stamps, unreadable),
         NEW d \in Decide(a, contract, stamps, unreadable)
  PROVE  c.artifact = a /\ (c.version = d.version => c = d)
<1> DEFINE landed == {v \in Contents : stamps[v] # NotLanded}
           Violated(v) == Violations(a, v, contract, unreadable)
           accepted == {v \in landed : Violated(v) = "none"}
           Key(v) == [published |-> stamps[v], version |-> v]
           State(v) == IF v \notin accepted THEN "rejected"
                       ELSE IF \E w \in accepted : Newer(Key(w), Key(v))
                            THEN "superseded" ELSE "active"
           Made(v) == [artifact |-> a, version |-> v, published |-> stamps[v],
                       state |-> State(v), violations |-> Violated(v)]
<1>1. Decide(a, contract, stamps, unreadable) = {Made(v) : v \in landed}
  BY DEF Decide
<1>2. \A v : Made(v).artifact = a /\ Made(v).version = v
  BY Zenon
<1> HIDE DEF Made, landed
<1>3. PICK v \in landed : c = Made(v)
  BY <1>1
<1>4. PICK w \in landed : d = Made(w)
  BY <1>1
<1> QED
  BY <1>2, <1>3, <1>4

LEMMA PlanOnce ==
  ASSUME Plan
  PROVE  OnePerVersion'
<1> DEFINE of(a) == Decide(a, code[ServiceOf[a]], manifest[a], damaged)
<1>1. planned' = UNION {of(a) : a \in scope}
  BY DEF Plan
<1> SUFFICES ASSUME NEW c \in planned', NEW d \in planned',
                    c.artifact = d.artifact, c.version = d.version
             PROVE  c = d
  BY DEF OnePerVersion
<1> HIDE DEF of
<1>2. PICK a \in scope : c \in of(a)
  BY <1>1
<1>3. PICK b \in scope : d \in of(b)
  BY <1>1
<1>4. a = b
  BY <1>2, <1>3, DecideOnce DEF of
<1> QED
  BY <1>2, <1>3, <1>4, DecideOnce DEF of

(* A marker and an event are functions of the plan, the code and the zone. *)
LEMMA SameContext ==
  ASSUME UNCHANGED <<code, zone, planned>>, NEW c
  PROVE  MarkerFor(c)' = MarkerFor(c) /\ EventFor(c)' = EventFor(c)
  BY DEF MarkerFor, EventFor, Candidate

(* A step within a pass leaves the plan and the ledger alone and removes   *)
(* no marker; what it takes off the list is marked.                        *)
LEMMA PassStep ==
  ASSUME AppliedInv, UNCHANGED <<code, zone, planned, ledger, pass>>,
         markers \subseteq markers',
         pc \in Applying \cup Applied,
         \A c \in todo \ todo' : c.state # "superseded" => MarkerFor(c) \in markers',
         pc' \in Applied => todo' = {},
         pc' \in {"measure", "rebuild"} => pc \in {"measure", "rebuild"},
         pass = "replay" => pc' \in {"next item", "marker", "ledger", "report"}
  PROVE  OnePerVersion' /\ DoneIsMarked' /\ NothingLeft' /\ LedgerWritten' /\ Replaying'
<1>1. \A c : MarkerFor(c)' = MarkerFor(c) /\ EventFor(c)' = EventFor(c)
  BY SameContext
<1>2. OnePerVersion'
  BY DEF AppliedInv, OnePerVersion
<1>3. \A c \in planned \ todo' : Marked(c)'
  BY <1>1 DEF AppliedInv, DoneIsMarked, Marked
<1>4. LedgerWritten'
  BY <1>1 DEF AppliedInv, LedgerWritten, LedgerLevel
<1>5. Replaying'
  BY <1>1 DEF AppliedInv, Replaying, Marked
<1> QED
  BY <1>2, <1>3, <1>4, <1>5 DEF DoneIsMarked, NothingLeft

(* A step before the plan is applied, or after a run has ended.            *)
LEMMA QuietStep ==
  ASSUME planned' = planned \/ planned' = {}, OnePerVersion,
         pass' = "incremental", pc' \notin Applying \cup Applied
  PROVE  OnePerVersion' /\ DoneIsMarked' /\ NothingLeft' /\ LedgerWritten' /\ Replaying'
  BY DEF OnePerVersion, DoneIsMarked, NothingLeft, LedgerWritten, Replaying, Applied

(* Outside the steps of a replay a pass is the incremental one.            *)
LEMMA Incremental ==
  ASSUME AppliedInv, pc \notin {"next item", "marker", "ledger", "report"}
  PROVE  pass = "incremental"
  BY DEF AppliedInv, Replaying, TypeInv, TypeOK

LEMMA ItemStep ==
  ASSUME AppliedInv, NEW c \in todo,
         \/ NextItem(c) \/ PublishMarker(c)
         \/ WriteContracted(c) \/ WriteQuarantine(c) \/ WriteIncidents(c)
  PROVE  OnePerVersion' /\ DoneIsMarked' /\ NothingLeft' /\ LedgerWritten' /\ Replaying'
<1> USE DEF Applying, Applied, Goto
<1>1. CASE NextItem(c)
  <2>1. pass = "replay" /\ c.state # "superseded" => MarkerExists(c)
    <3> SUFFICES ASSUME pass = "replay", c.state # "superseded" PROVE MarkerExists(c)
      OBVIOUS
    <3>1. c \in planned
      BY DEF AppliedInv, TypeInv, TypeOK
    <3>2. MarkerFor(c) \in markers
      BY <3>1 DEF AppliedInv, Replaying, Marked
    <3>3. DerivationOf(MarkerFor(c)) = Derivation(c)
      BY DEF DerivationOf, MarkerFor, Derivation
    <3> QED
      BY <3>2, <3>3 DEF MarkerExists
  <2>2. /\ pc = "next item" /\ UNCHANGED <<code, zone, planned, ledger, pass, markers>>
        /\ pc' \in {"next item", "marker", "contracted", "incidents"}
        /\ \A d \in todo \ todo' : d.state = "superseded"
    BY <1>1 DEF NextItem, warehouse, audit
  <2>3. pass = "replay" => pc' \in {"next item", "marker"}
    BY <1>1, <2>1 DEF NextItem
  <2> QED
    BY <2>2, <2>3, PassStep
<1>2. CASE PublishMarker(c)
  <2>1. /\ pc = "marker" /\ UNCHANGED <<code, zone, planned, ledger, pass>>
        /\ pc' = "next item" /\ todo' = todo \ {c} /\ markers' = markers \cup {MarkerFor(c)}
    BY <1>2 DEF PublishMarker, audit
  <2> QED
    BY <2>1, PassStep
<1>3. CASE WriteContracted(c) \/ WriteQuarantine(c) \/ WriteIncidents(c)
  <2>1. /\ pc \in {"contracted", "quarantine", "incidents"}
        /\ UNCHANGED <<code, zone, planned, ledger, pass, markers, todo>>
        /\ pc' \in {"quarantine", "incidents", "marker"}
    BY <1>3 DEF WriteContracted, WriteQuarantine, WriteIncidents, Write, run, audit
  <2>2. pass = "incremental"
    BY <2>1, Incremental
  <2> QED
    BY <2>1, <2>2, PassStep
<1> QED
  BY <1>1, <1>2, <1>3

(* The ledger a reconciliation writes has the event of every candidate.    *)
LEMMA ReconcileLevels ==
  ASSUME AppliedInv, Reconcile
  PROVE  LedgerLevel'
<1> SUFFICES ASSUME NEW c \in planned
             PROVE  ledger'[c.artifact][c.version] = EventFor(c)
  BY SameContext DEF LedgerLevel, Reconcile, run
<1>1. c \in Candidate(c.artifact) /\ c.artifact \in Artifacts /\ c.version \in Contents
  BY DEF Candidate, AppliedInv, TypeInv, TypeOK, Candidates
<1>2. \A d \in Candidate(c.artifact) : d.version = c.version => d = c
  BY DEF Candidate, AppliedInv, OnePerVersion
<1>3. (CHOOSE d \in Candidate(c.artifact) : d.version = c.version) = c
  BY <1>1, <1>2
<1>4. Recorded(c.artifact)[c.version] = EventFor(c)
  BY <1>1, <1>3 DEF Recorded
<1> QED
  BY <1>1, <1>4 DEF Reconcile

LEMMA PhaseStep ==
  ASSUME AppliedInv,
         PriorState \/ EndPass \/ SettleBoundary \/ Reconcile \/ Measure \/ Rebuild
  PROVE  OnePerVersion' /\ DoneIsMarked' /\ NothingLeft' /\ LedgerWritten' /\ Replaying'
<1> USE DEF Applying, Applied, Goto, warehouse, audit, run
<1>1. CASE PriorState
  <2>1. /\ pass = "incremental" /\ UNCHANGED <<planned, pass>>
        /\ todo' = planned /\ pc' = "next item"
    BY <1>1, Incremental DEF PriorState
  <2> QED
    BY <2>1 DEF AppliedInv, OnePerVersion, DoneIsMarked, NothingLeft, LedgerWritten, Replaying
<1>2. CASE EndPass
  <2>1. /\ pc = "next item" /\ todo = {} /\ todo' = {}
        /\ UNCHANGED <<code, zone, planned, ledger, pass, markers>>
        /\ pc' \in {"boundary", "ledger"} /\ (pass = "replay" => pc' = "ledger")
    BY <1>2 DEF EndPass
  <2> QED
    BY <2>1, PassStep
<1>3. CASE SettleBoundary
  <2>1. /\ pc = "boundary" /\ UNCHANGED <<code, zone, planned, ledger, pass, markers, todo>>
        /\ pc' = "ledger"
    BY <1>3 DEF SettleBoundary
  <2>2. todo = {}
    BY <2>1 DEF AppliedInv, NothingLeft
  <2> QED
    BY <2>1, <2>2, PassStep
<1>4. CASE Reconcile
  <2>1. /\ pc = "ledger" /\ UNCHANGED <<code, zone, planned, pass, markers, todo>>
        /\ pc' \in {"measure", "report"} /\ (pass = "replay" => pc' = "report")
    BY <1>4 DEF Reconcile
  <2>2. LedgerWritten'
    BY <1>4, ReconcileLevels DEF LedgerWritten
  <2>3. todo = {} /\ \A c \in planned : Marked(c)
    BY <2>1 DEF AppliedInv, NothingLeft, DoneIsMarked
  <2>4. \A c \in planned : Marked(c)'
    BY <2>1, <2>3, SameContext DEF Marked
  <2> QED
    BY <2>1, <2>2, <2>3, <2>4
       DEF AppliedInv, OnePerVersion, DoneIsMarked, NothingLeft, Replaying
<1>5. CASE Measure
  <2>1. /\ pc = "measure" /\ UNCHANGED <<code, zone, planned, ledger, pass, markers, todo>>
        /\ pc' = "rebuild"
    BY <1>5 DEF Measure
  <2>2. todo = {} /\ pass = "incremental"
    BY <2>1, Incremental DEF AppliedInv, NothingLeft
  <2> QED
    BY <2>1, <2>2, PassStep
<1>6. CASE Rebuild
  <2>1. /\ pc = "rebuild" /\ UNCHANGED <<code, zone, planned, ledger, markers>>
        /\ pc' = "next item" /\ todo' = planned
    BY <1>6 DEF Rebuild
  <2>2. LedgerLevel /\ \A c \in planned : Marked(c)
    BY <2>1 DEF AppliedInv, LedgerWritten, DoneIsMarked, NothingLeft
  <2>3. LedgerLevel' /\ \A c \in planned : Marked(c)'
    BY <2>1, <2>2, SameContext DEF LedgerLevel, Marked
  <2> QED
    BY <2>1, <2>3 DEF AppliedInv, OnePerVersion, DoneIsMarked, NothingLeft, LedgerWritten, Replaying
<1> QED
  BY <1>1, <1>2, <1>3, <1>4, <1>5, <1>6

(***************************************************************************)
(* A step outside the run that leaves the warehouse as it is.              *)
(***************************************************************************)
LEMMA StillStep ==
  ASSUME AppliedInv, UNCHANGED <<code, zone, planned, todo, ledger, pass, markers, pc>>
  PROVE  OnePerVersion' /\ DoneIsMarked' /\ NothingLeft' /\ LedgerWritten' /\ Replaying'
<1>1. \A c : MarkerFor(c)' = MarkerFor(c) /\ EventFor(c)' = EventFor(c)
  BY SameContext
<1> QED
  BY <1>1 DEF AppliedInv, OnePerVersion, DoneIsMarked, NothingLeft, LedgerWritten, LedgerLevel,
              Replaying, Marked

LEMMA AppliedStep == AppliedInv /\ [Next]_vars => AppliedInv'
<1> SUFFICES ASSUME AppliedInv, [Next]_vars PROVE AppliedInv'
  OBVIOUS
<1> DEFINE Holds == OnePerVersion /\ DoneIsMarked /\ NothingLeft /\ LedgerWritten /\ Replaying
<1> SUFFICES Holds'
  BY TypeInvStep DEF AppliedInv
<1>1. pc \in {"idle", "land", "land zone", "load zone", "scope", "plan", "layout"} =>
        pass = "incremental"
  BY Incremental
<1>2. OnePerVersion
  BY DEF AppliedInv
<1>3. CASE \/ \E requested \in (SUBSET Artifacts) \ {{}}, zoneOption \in Zones \cup {NoZone} :
                Start(requested, zoneOption)
           \/ \E a \in Artifacts, v \in Contents, now \in 1 .. MaxStamp : LandArtifact(a, v, now)
           \/ \E z \in Zones, now \in 1 .. MaxStamp : LandZone(z, now)
           \/ LoadZone \/ CheckScope \/ PrepareLayout
  <2>1. /\ pc \in {"idle", "land", "land zone", "load zone", "scope", "layout"}
        /\ UNCHANGED <<planned, pass>>
        /\ pc' \in {"land", "land zone", "load zone", "scope", "plan", "prior state"}
    BY <1>3 DEF Start, LandArtifact, LandZone, LoadZone, CheckScope, PrepareLayout, Goto, run
  <2> QED
    BY <1>1, <1>2, <2>1, QuietStep DEF Applying, Applied
<1>4. CASE Plan
  <2>1. pc' = "layout" /\ pass' = "incremental"
    BY <1>1, <1>4 DEF Plan, Goto
  <2> QED
    BY <1>4, <2>1, PlanOnce
    DEF DoneIsMarked, NothingLeft, LedgerWritten, Replaying, Applying, Applied
<1>5. CASE PriorState \/ EndPass \/ SettleBoundary \/ Reconcile \/ Measure \/ Rebuild
  BY <1>5, PhaseStep
<1>6. CASE \E c \in todo : \/ NextItem(c) \/ PublishMarker(c)
                           \/ WriteContracted(c) \/ WriteQuarantine(c) \/ WriteIncidents(c)
  BY <1>6, ItemStep
<1>7. CASE Refusal \/ Crash
  <2>1. planned' = {} /\ pass' = "incremental" /\ pc' = "idle"
    BY <1>7, RefusalExits DEF Exit, EndRun, Crash
  <2> QED
    BY <1>2, <2>1, QuietStep DEF Applying, Applied
<1>8. CASE \E s \in Services, contract \in Contracts : Deploy(s, contract)
  <2>1. pc = "idle" /\ pc' = "idle" /\ UNCHANGED <<planned, pass>>
    BY <1>8 DEF Deploy, run
  <2> QED
    BY <1>1, <1>2, <2>1, QuietStep DEF Applying, Applied
<1>9. CASE \E a \in Artifacts, v \in Contents : Damage(a, v)
  <2>1. UNCHANGED <<code, zone, planned, todo, ledger, pass, markers, pc>>
    BY <1>9 DEF Damage, run, warehouse, audit
  <2> QED
    BY <2>1, StillStep
<1>10. CASE UNCHANGED vars
  <2>1. UNCHANGED <<code, zone, planned, todo, ledger, pass, markers, pc>>
    BY <1>10 DEF vars, run, warehouse, audit
  <2> QED
    BY <2>1, StillStep
<1> HIDE DEF Holds
<1> QED
  BY <1>3, <1>4, <1>5, <1>6, <1>7, <1>8, <1>9, <1>10 DEF Next, RunStep, Refusal

LEMMA AlwaysApplied == Spec => []AppliedInv
<1>1. Init => AppliedInv
  BY InitTypeInv DEF Init, AppliedInv, OnePerVersion, DoneIsMarked, NothingLeft, LedgerWritten,
                     Replaying, Applying, Applied
<1> QED
  BY <1>1, AppliedStep, PTL DEF Spec

-----------------------------------------------------------------------------
(* What follows.                                                           *)

LEMMA LedgerStep ==
  ASSUME AppliedInv, LedgerClaimsExposed, [Next]_vars
  PROVE  LedgerClaimsExposed'
<1>1. markers \subseteq markers'
  BY MarkersGrow DEF SettleBoundary
<1>2. CASE ledger' = ledger
  BY <1>1, <1>2 DEF LedgerClaimsExposed
<1>3. CASE Reconcile
  <2> SUFFICES ASSUME NEW a \in Artifacts, NEW v \in Contents,
                      ledger'[a][v].action = "activated"
               PROVE  \E m \in markers' : /\ m.artifact = a /\ m.version = v
                                          /\ m.contract = ledger'[a][v].contract
                                          /\ m.state = "active"
    BY DEF LedgerClaimsExposed
  <2>1. ledger'[a][v] = Recorded(a)[v]
    BY <1>3 DEF Reconcile
  <2>2. CASE \E c \in Candidate(a) : c.version = v
    <3>1. PICK c : /\ c = CHOOSE d \in Candidate(a) : d.version = v
                   /\ c \in Candidate(a) /\ c.version = v
      BY <2>2
    <3>2. ledger'[a][v] = EventFor(c)
      BY <2>1, <2>2, <3>1 DEF Recorded
    <3>3. c \in planned /\ c.artifact = a /\ c.state \in {"active", "superseded", "rejected"}
      BY <3>1 DEF Candidate, AppliedInv, TypeInv, TypeOK, Candidates
    <3>4. c.state = "active" /\ ledger'[a][v].contract = code[ServiceOf[a]]
      BY <3>2, <3>3 DEF EventFor
    <3>5. MarkerFor(c) \in markers
      BY <1>3, <3>3, <3>4 DEF Reconcile, AppliedInv, NothingLeft, DoneIsMarked, Marked, Applied
    <3> QED
      BY <1>1, <3>1, <3>3, <3>4, <3>5 DEF MarkerFor
  <2>3. CASE ~ \E c \in Candidate(a) : c.version = v
    BY <1>1, <2>1, <2>3 DEF Recorded, LedgerClaimsExposed
  <2> QED
    BY <2>2, <2>3
<1>4. ledger' = ledger \/ Reconcile
  <2> USE DEF audit
  <2>1. CASE \/ \E requested \in (SUBSET Artifacts) \ {{}}, zoneOption \in Zones \cup {NoZone} :
                  Start(requested, zoneOption)
             \/ \E a \in Artifacts, v \in Contents, now \in 1 .. MaxStamp : LandArtifact(a, v, now)
             \/ \E z \in Zones, now \in 1 .. MaxStamp : LandZone(z, now)
             \/ \E s \in Services, contract \in Contracts : Deploy(s, contract)
             \/ \E a \in Artifacts, v \in Contents : Damage(a, v)
    BY <2>1 DEF Start, LandArtifact, LandZone, Deploy, Damage
  <2>2. CASE LoadZone \/ CheckScope \/ Plan \/ PrepareLayout \/ PriorState
    BY <2>2 DEF LoadZone, CheckScope, Plan, PrepareLayout, PriorState
  <2>3. CASE EndPass \/ SettleBoundary \/ Measure \/ Rebuild
    BY <2>3 DEF EndPass, SettleBoundary, Measure, Rebuild
  <2>4. CASE \E c \in todo : \/ NextItem(c) \/ PublishMarker(c)
                             \/ WriteContracted(c) \/ WriteQuarantine(c) \/ WriteIncidents(c)
    BY <2>4 DEF NextItem, PublishMarker, WriteContracted, WriteQuarantine, WriteIncidents, Write
  <2>5. CASE Refusal \/ Crash
    BY <2>5, RefusalExits DEF Exit, Crash
  <2>6. CASE UNCHANGED vars
    BY <2>6 DEF vars
  <2> QED
    BY <2>1, <2>2, <2>3, <2>4, <2>5, <2>6 DEF Next, RunStep, Refusal
<1> QED
  BY <1>2, <1>3, <1>4

(***************************************************************************)
(* The ledger never claims an activation that readers could not see:       *)
(* wherever runs died between markers, boundary and ledger, a version whose*)
(* latest event is an activation has its active marker.                    *)
(***************************************************************************)
THEOREM LedgerIsExposed == Spec => []LedgerClaimsExposed
<1>1. Init => LedgerClaimsExposed
  BY DEF Init, LedgerClaimsExposed, NoEvent
<1>2. AppliedInv /\ LedgerClaimsExposed /\ [Next]_vars => LedgerClaimsExposed'
  BY LedgerStep
<1> QED
  BY <1>1, <1>2, AlwaysApplied, PTL DEF Spec

(* An active item that is marked has all its tables.                       *)
LEMMA AppliedTables ==
  ASSUME AppliedInv, MarkerComplete, pc = "measure",
         NEW c \in planned, c.state = "active"
  PROVE  AllTablesExist(ServiceOf[c.artifact], code[ServiceOf[c.artifact]])
<1>1. MarkerFor(c) \in markers
  BY DEF AppliedInv, NothingLeft, DoneIsMarked, Marked, Applied
<1>2. \A kind \in Kinds : Committed(kind, DerivationOf(MarkerFor(c)))
  BY <1>1 DEF MarkerComplete, Kinds, MarkerFor
<1>3. /\ DerivationOf(MarkerFor(c))[1] = c.artifact
      /\ DerivationOf(MarkerFor(c))[3] = code[ServiceOf[c.artifact]]
  BY DEF DerivationOf, MarkerFor
<1> QED
  BY <1>2, <1>3 DEF AllTablesExist, TableExists, Committed

(***************************************************************************)
(* A run that fails to measure the warehouse after it moved the boundary   *)
(* found no acceptable version of one of the services it was asked for:    *)
(* no half-written table of an earlier run can make it fail that late.     *)
(***************************************************************************)
THEOREM LateFailureExplained == Spec => []LateFailureMeansUnaccepted
<1>1. AppliedInv /\ MarkerComplete => LateFailureMeansUnaccepted
  BY AppliedTables DEF LateFailureMeansUnaccepted, WarehouseMeasurable
<1> QED
  BY <1>1, AlwaysApplied, MarkersComplete, PTL

LEMMA ReplayReconcile ==
  ASSUME AppliedInv, pass = "replay", Reconcile
  PROVE  UNCHANGED audit
<1>1. \A c \in planned : ledger[c.artifact][c.version] = EventFor(c)
  BY DEF AppliedInv, LedgerWritten, LedgerLevel
<1>2. /\ ledger \in [Artifacts -> [Contents -> Events]]
      /\ ledgerState \in [Artifacts -> Contents \cup {NoVersion}]
  BY DEF AppliedInv, TypeInv, TypeOK
<1>3. ASSUME NEW a \in Artifacts
      PROVE  Recorded(a) = ledger[a]
  <2>1. ASSUME NEW v \in Contents, \E c \in Candidate(a) : c.version = v
        PROVE  EventFor(CHOOSE c \in Candidate(a) : c.version = v) = ledger[a][v]
    <3>1. PICK c : /\ c = CHOOSE d \in Candidate(a) : d.version = v
                   /\ c \in Candidate(a) /\ c.version = v
      BY <2>1
    <3> QED
      BY <1>1, <3>1 DEF Candidate
  <2>2. \A v \in Contents : Recorded(a)[v] = ledger[a][v]
    BY <2>1 DEF Recorded
  <2>3. Recorded(a) = [v \in Contents |-> Recorded(a)[v]]
    BY DEF Recorded
  <2>4. ledger[a] = [v \in Contents |-> ledger[a][v]]
    BY <1>2
  <2> QED
    BY <2>2, <2>3, <2>4
<1>4. ASSUME NEW a \in Artifacts
      PROVE  Replayed(a) = ledgerState[a]
  <2>1. NewEvents(a) = {}
    BY <1>1 DEF NewEvents, Candidate
  <2> QED
    BY <2>1 DEF Replayed
<1>5. ledger' = ledger
  BY <1>2, <1>3 DEF Reconcile
<1>6. ledgerState' = ledgerState
  BY <1>2, <1>4 DEF Reconcile
<1> QED
  BY <1>5, <1>6 DEF audit

LEMMA ReplayStep ==
  ASSUME AppliedInv, pass = "replay", [Next]_vars
  PROVE  UNCHANGED <<warehouse, audit>>
<1>1. pc \in {"next item", "marker", "ledger", "report"} /\ \A c \in planned : Marked(c)
  BY DEF AppliedInv, Replaying
<1>2. CASE \E c \in todo : PublishMarker(c)
  <2>1. PICK c \in todo : PublishMarker(c)
    BY <1>2
  <2>2. c \in planned /\ IsNext(c) /\ pc = "marker"
    BY <2>1 DEF PublishMarker, AppliedInv, TypeInv, TypeOK
  <2>3. c.state # "superseded"
    BY <2>2 DEF AppliedInv, TypeInv, NextIsWritten
  <2>4. markers' = markers
    BY <1>1, <2>1, <2>2, <2>3 DEF PublishMarker, Marked
  <2> QED
    BY <2>1, <2>4 DEF PublishMarker, warehouse, audit
<1>3. CASE (\E c \in todo : NextItem(c)) \/ EndPass
  BY <1>3 DEF NextItem, EndPass
<1>4. CASE Reconcile
  BY <1>4, ReplayReconcile DEF Reconcile
<1>5. CASE Refusal \/ Crash
  BY <1>5, RefusalExits DEF Exit, Crash
<1>6. CASE (\E a \in Artifacts, v \in Contents : Damage(a, v)) \/ UNCHANGED vars
  BY <1>6 DEF Damage, vars
<1>7. CASE \/ \E requested \in (SUBSET Artifacts) \ {{}}, zoneOption \in Zones \cup {NoZone} :
                Start(requested, zoneOption)
           \/ \E a \in Artifacts, v \in Contents, now \in 1 .. MaxStamp : LandArtifact(a, v, now)
           \/ \E z \in Zones, now \in 1 .. MaxStamp : LandZone(z, now)
           \/ LoadZone \/ CheckScope \/ Plan \/ PrepareLayout \/ PriorState
           \/ \E s \in Services, contract \in Contracts : Deploy(s, contract)
  BY <1>1, <1>7 DEF Start, LandArtifact, LandZone, LoadZone, CheckScope, Plan, PrepareLayout,
                    PriorState, Deploy
<1>8. CASE \/ \E c \in todo : WriteContracted(c) \/ WriteQuarantine(c) \/ WriteIncidents(c)
           \/ SettleBoundary \/ Measure \/ Rebuild
  BY <1>1, <1>8 DEF WriteContracted, WriteQuarantine, WriteIncidents, Write, SettleBoundary,
                    Measure, Rebuild
<1> QED
  BY <1>2, <1>3, <1>4, <1>5, <1>6, <1>7, <1>8 DEF Next, RunStep, Refusal

(***************************************************************************)
(* Applying a plan a second time commits nothing, publishes nothing and    *)
(* appends no event, for any plan and whatever happened before it.         *)
(***************************************************************************)
THEOREM ReplaysWriteNothing == Spec => ReplayWritesNothing
<1>1. AppliedInv /\ [Next]_vars => [pass = "replay" => UNCHANGED <<warehouse, audit>>]_vars
  BY ReplayStep
<1> QED
  BY <1>1, AlwaysApplied, PTL DEF Spec, ReplayWritesNothing

-----------------------------------------------------------------------------
(* A run stays within what it was asked for.                               *)

Early == {"idle", "land", "land zone", "load zone", "scope", "plan"}

(* The plan is made for the scope, and there is none before.               *)
WithinScope ==
  /\ pc \in Early => planned = {}
  /\ \A c \in planned : c.artifact \in scope

LEMMA WithinScopeStep == TypeInv /\ WithinScope /\ [Next]_vars => WithinScope'
<1> SUFFICES ASSUME TypeInv, WithinScope, [Next]_vars PROVE WithinScope'
  OBVIOUS
<1> USE DEF WithinScope, Early, Goto, run
<1>1. CASE \E requested \in (SUBSET Artifacts) \ {{}}, zoneOption \in Zones \cup {NoZone} :
             Start(requested, zoneOption)
  BY <1>1 DEF Start
<1>2. CASE \/ \E a \in Artifacts, v \in Contents, now \in 1 .. MaxStamp : LandArtifact(a, v, now)
           \/ \E z \in Zones, now \in 1 .. MaxStamp : LandZone(z, now)
           \/ LoadZone \/ CheckScope
  BY <1>2 DEF LandArtifact, LandZone, LoadZone, CheckScope
<1>3. CASE Plan
  <2>1. \A c \in planned' : c.artifact \in scope
    <3>1. ASSUME NEW a \in scope, NEW c \in Decide(a, code[ServiceOf[a]], manifest[a], damaged)
          PROVE  c.artifact = a
      <4> HIDE DEF WithinScope
      <4> QED
        BY DecideOnce
    <3>2. planned' = UNION {Decide(a, code[ServiceOf[a]], manifest[a], damaged) : a \in scope}
      BY <1>3 DEF Plan
    <3> QED
      BY <3>1, <3>2
  <2> QED
    BY <1>3, <2>1 DEF Plan
<1>4. CASE PrepareLayout \/ PriorState \/ EndPass \/ SettleBoundary \/ Reconcile
             \/ Measure \/ Rebuild
  BY <1>4 DEF PrepareLayout, PriorState, EndPass, SettleBoundary, Reconcile, Measure, Rebuild
<1>5. CASE \E c \in todo : \/ NextItem(c) \/ PublishMarker(c)
                           \/ WriteContracted(c) \/ WriteQuarantine(c) \/ WriteIncidents(c)
  BY <1>5 DEF NextItem, PublishMarker, WriteContracted, WriteQuarantine, WriteIncidents, Write
<1>6. CASE Refusal \/ Crash
  BY <1>6, RefusalExits DEF Exit, EndRun, Crash
<1>7. CASE \/ \E s \in Services, contract \in Contracts : Deploy(s, contract)
           \/ \E a \in Artifacts, v \in Contents : Damage(a, v)
           \/ UNCHANGED vars
  BY <1>7 DEF Deploy, Damage, vars
<1> QED
  BY <1>1, <1>2, <1>3, <1>4, <1>5, <1>6, <1>7 DEF Next, RunStep, Refusal

LEMMA PublishOnlyAdds ==
  ASSUME [Next]_vars
  PROVE  markers' = markers \/ \E c \in todo : PublishMarker(c)
<1> USE DEF warehouse
<1>1. CASE \/ \E requested \in (SUBSET Artifacts) \ {{}}, zoneOption \in Zones \cup {NoZone} :
                Start(requested, zoneOption)
           \/ \E a \in Artifacts, v \in Contents, now \in 1 .. MaxStamp : LandArtifact(a, v, now)
           \/ \E z \in Zones, now \in 1 .. MaxStamp : LandZone(z, now)
           \/ \E s \in Services, contract \in Contracts : Deploy(s, contract)
           \/ \E a \in Artifacts, v \in Contents : Damage(a, v)
  BY <1>1 DEF Start, LandArtifact, LandZone, Deploy, Damage
<1>2. CASE LoadZone \/ CheckScope \/ Plan \/ PrepareLayout \/ PriorState
             \/ EndPass \/ SettleBoundary \/ Reconcile \/ Measure \/ Rebuild
  BY <1>2 DEF LoadZone, CheckScope, Plan, PrepareLayout, PriorState, EndPass, SettleBoundary,
              Reconcile, Measure, Rebuild
<1>3. CASE \E c \in todo : \/ NextItem(c)
                           \/ WriteContracted(c) \/ WriteQuarantine(c) \/ WriteIncidents(c)
  BY <1>3 DEF NextItem, WriteContracted, WriteQuarantine, WriteIncidents, Write
<1>4. CASE Refusal \/ Crash
  BY <1>4, RefusalExits DEF Exit, Crash
<1>5. CASE UNCHANGED vars
  BY <1>5 DEF vars
<1> QED
  BY <1>1, <1>2, <1>3, <1>4, <1>5 DEF Next, RunStep, Refusal

LEMMA OthersStep ==
  ASSUME TypeInv, WithinScope, [Next]_vars, NEW a \in Artifacts \ scope, boundary' = boundary
  PROVE  View(a)' = View(a)
<1>1. Entries(markers', a, boundary) = Entries(markers, a, boundary)
  <2>1. CASE \E c \in todo : PublishMarker(c)
    <3>1. PICK c \in todo : markers' = markers \cup {MarkerFor(c)}
      BY <2>1 DEF PublishMarker
    <3>2. MarkerFor(c).artifact # a
      BY DEF WithinScope, TypeInv, TypeOK, MarkerFor
    <3> QED
      BY <3>1, <3>2 DEF Entries
  <2> QED
    BY <2>1, PublishOnlyAdds
<1> QED
  BY <1>1 DEF View, VisibleRows

(***************************************************************************)
(* Whatever a run was asked for, readers of every other artifact see what  *)
(* they saw before each of its steps, except the one that moves the        *)
(* boundary.                                                               *)
(***************************************************************************)
THEOREM OthersAreUntouched == Spec => OthersUntouched
<1>1. Init => WithinScope
  BY DEF Init, WithinScope
<1>2. TypeInv /\ WithinScope /\ [Next]_vars =>
        [\A a \in Artifacts \ scope : boundary' = boundary => View(a)' = View(a)]_vars
  BY OthersStep
<1> QED
  BY <1>1, <1>2, WithinScopeStep, AlwaysTypeInv, PTL DEF Spec, OthersUntouched

-----------------------------------------------------------------------------
(* Readers never go back.                                                  *)

(* A new marker is either newer than what readers see or not shown.        *)
LEMMA ViewStep ==
  ASSUME TypeInv, [Next]_vars, boundary' = boundary,
         NEW a \in Artifacts, NEW m \in View(a)
  PROVE  \E n \in View(a)' : n = m \/ Newer(n, m)
<1> DEFINE Active(S) == {n \in Entries(S, a, boundary) : n.state = "active"}
<1>1. /\ View(a) = {n \in Active(markers) : \A x \in Active(markers) : ~ Newer(x, n)}
      /\ View(a)' = {n \in Active(markers') : \A x \in Active(markers') : ~ Newer(x, n)}
  BY DEF View, VisibleRows
<1>2. CASE markers' = markers
  BY <1>1, <1>2
<1>3. CASE \E c \in todo : PublishMarker(c)
  <2>1. PICK c \in todo : PublishMarker(c)
    BY <1>3
  <2> DEFINE new == MarkerFor(c)
  <2>2. markers' = markers \cup {new}
    BY <2>1 DEF PublishMarker
  <2>3. /\ Active(markers') \subseteq Active(markers) \cup {new}
        /\ Active(markers) \subseteq Active(markers')
    BY <2>2 DEF Entries
  <2>4. \A n \in Active(markers') : n.published \in Nat /\ n.version \in Nat
    BY TypeInvStep, MarkerKey DEF TypeInv, TypeOK, Entries
  <2> HIDE DEF Active, new
  <2>5. CASE new \in Active(markers') /\ Newer(new, m)
    <3>1. \A x \in Active(markers') : ~ Newer(x, new)
      BY <1>1, <2>3, <2>4, <2>5, NewerIsOrder
    <3> QED
      BY <1>1, <2>5, <3>1
  <2>6. CASE ~ (new \in Active(markers') /\ Newer(new, m))
    BY <1>1, <2>3, <2>6
  <2> QED
    BY <2>5, <2>6
<1> QED
  BY <1>2, <1>3, PublishOnlyAdds

(***************************************************************************)
(* While the boundary stays where it is, an artifact that readers see      *)
(* stays visible and never goes back to an older version, whichever runs   *)
(* publish, die or are refused.                                            *)
(***************************************************************************)
THEOREM ViewsAreMonotone == Spec => ViewMonotone
<1>1. TypeInv /\ [Next]_vars =>
        [boundary' = boundary =>
           \A a \in Artifacts : \A m \in View(a) :
             \E n \in View(a)' : n = m \/ Newer(n, m)]_vars
  BY ViewStep
<1> QED
  BY <1>1, AlwaysTypeInv, PTL DEF Spec, ViewMonotone

-----------------------------------------------------------------------------
(***************************************************************************)
(* The strengthening. Finitely many versions of an artifact have landed,   *)
(* and one at least of each that was asked for. A derivation is marked     *)
(* once, with the stamp of its manifest. A plan has an item for every      *)
(* landed version, and a superseded one has a newer one to yield to.       *)
(* Between scope check and settlement the scope stays sufficient, and from *)
(* then on readers are on the context of the run. The ledger has one       *)
(* activation at most, the one its replay ends with.                       *)
(***************************************************************************)
LandedVersions(a) == {v \in Contents : manifest[a][v] # NotLanded}

LandedInv ==
  /\ \A a \in Artifacts : IsFiniteSet(LandedVersions(a))
  /\ \A a \in scope \ toLand : LandedVersions(a) # {}
  /\ pc \notin {"idle", "land", "land zone"} => toLand = {}

MarkersInv ==
  /\ \A m, n \in markers : DerivationOf(m) = DerivationOf(n) => m = n
  /\ \A m \in markers : m.published = manifest[m.artifact][m.version]

PlanInv ==
  /\ pc \notin Early => \A a \in scope : \A v \in LandedVersions(a) :
                          \E c \in planned : c.artifact = a /\ c.version = v
  /\ \A c \in planned : c.published = manifest[c.artifact][c.version]
  /\ \A c \in planned : c.state = "superseded" =>
       \E d \in planned : d.artifact = c.artifact /\ d.state = "active" /\ Newer(d, c)
  /\ \A c, d \in planned :
       c.artifact = d.artifact /\ c.state = "active" /\ d.state = "active" => c = d

(* The scope has been checked and the boundary has not been moved yet.     *)
Unsettled ==
  \/ pc \in {"plan", "layout", "prior state", "boundary"}
  \/ pc \in Applying /\ pass = "incremental"

ScopeHeld == Unsettled => ScopeComplete

(* The boundary has been moved.                                            *)
Published == pc \in {"ledger", "measure", "rebuild", "report"} \/ pass = "replay"

Settled ==
  /\ pc = "report" => pass = "replay"
  /\ Published => /\ boundary.zone = zone
                  /\ \A s \in ScopeServices : boundary.contracts[s] = code[s]

LedgerInv ==
  \A a \in Artifacts, v \in Contents :
    /\ ledger[a][v].action = "activated" <=> ledgerState[a] = v
    /\ ledger[a][v].action # "none" => manifest[a][v] # NotLanded

ReaderInv ==
  /\ AppliedInv /\ WithinScope
  /\ LandedInv /\ MarkersInv /\ PlanInv /\ ScopeHeld /\ Settled /\ LedgerInv

(* What the steps leave alone.                                             *)

(* The landing store grows while a run lands, the ledger when it reconciles. *)
LEMMA Frame ==
  ASSUME [Next]_vars
  PROVE  /\ \/ manifest' = manifest
            \/ \E a \in Artifacts, v \in Contents, now \in 1 .. MaxStamp : LandArtifact(a, v, now)
         /\ UNCHANGED <<ledger, ledgerState>> \/ Reconcile
         /\ \/ UNCHANGED <<damaged, damages>>
            \/ \E a \in Artifacts, v \in Contents, now \in 1 .. MaxStamp : LandArtifact(a, v, now)
            \/ \E a \in Artifacts, v \in Contents : Damage(a, v)
<1> USE DEF landing, audit, budget, Goto
<1>1. CASE \/ \E requested \in (SUBSET Artifacts) \ {{}}, zoneOption \in Zones \cup {NoZone} :
                Start(requested, zoneOption)
           \/ \E a \in Artifacts, v \in Contents, now \in 1 .. MaxStamp : LandArtifact(a, v, now)
           \/ \E z \in Zones, now \in 1 .. MaxStamp : LandZone(z, now)
  BY <1>1 DEF Start, LandArtifact, LandZone
<1>2. CASE \E s \in Services, contract \in Contracts : Deploy(s, contract)
  BY <1>2 DEF Deploy
<1>3. CASE \E a \in Artifacts, v \in Contents : Damage(a, v)
  BY <1>3 DEF Damage, Store!Damage
<1>4. CASE LoadZone \/ CheckScope \/ Plan \/ PrepareLayout \/ PriorState
  BY <1>4 DEF LoadZone, CheckScope, Plan, PrepareLayout, PriorState
<1>5. CASE EndPass \/ SettleBoundary \/ Reconcile \/ Measure \/ Rebuild
  BY <1>5 DEF EndPass, SettleBoundary, Reconcile, Measure, Rebuild
<1>6. CASE \E c \in todo : \/ NextItem(c) \/ PublishMarker(c)
                           \/ WriteContracted(c) \/ WriteQuarantine(c) \/ WriteIncidents(c)
  BY <1>6 DEF NextItem, PublishMarker, WriteContracted, WriteQuarantine, WriteIncidents, Write
<1>7. CASE Refusal \/ Crash
  BY <1>7, RefusalExits DEF Exit, Crash
<1>8. CASE UNCHANGED vars
  BY <1>8 DEF vars
<1> QED
  BY <1>1, <1>2, <1>3, <1>4, <1>5, <1>6, <1>7, <1>8 DEF Next, RunStep, Refusal

(***************************************************************************)
(* A step before a run has its plan; a step after it, which keeps what was *)
(* asked and decided, the code and the store; the end of the run; and the  *)
(* damage of a file, which is no step of the run.                          *)
(***************************************************************************)
Acquiring ==
  \/ \E requested \in (SUBSET Artifacts) \ {{}}, zoneOption \in Zones \cup {NoZone} :
       Start(requested, zoneOption)
  \/ \E a \in Artifacts, v \in Contents, now \in 1 .. MaxStamp : LandArtifact(a, v, now)
  \/ \E z \in Zones, now \in 1 .. MaxStamp : LandZone(z, now)
  \/ LoadZone \/ CheckScope
  \/ \E s \in Services, contract \in Contracts : Deploy(s, contract)

EarlyStep ==
  /\ pc \in Early /\ pc' \in Early
  /\ UNCHANGED <<planned, pass, markers, boundary>>

LateStep ==
  /\ pc \notin Early /\ pc' \notin Early
  /\ UNCHANGED <<manifest, damaged, damages, code, scope, zone, toLand, planned>>
  /\ Unsettled' => Unsettled
  /\ Published' => Published \/ SettleBoundary
  /\ pc' = "report" => pass' = "replay"

LastStep ==
  /\ pc' = "idle" /\ pass' = "incremental"
  /\ scope' = {} /\ toLand' = {} /\ planned' = {}
  /\ UNCHANGED <<manifest, damaged, damages, code, markers, boundary, ledger, ledgerState>>

StillRun ==
  UNCHANGED <<manifest, code, markers, boundary, ledger, ledgerState,
              pc, scope, zone, toLand, planned, pass>>

LEMMA Phases ==
  ASSUME AppliedInv, [Next]_vars
  PROVE  (Acquiring /\ EarlyStep) \/ Plan \/ LateStep \/ LastStep \/ StillRun
<1> USE DEF landing, warehouse, audit, run, budget, Goto, Early, Applying, Unsettled, Published
<1>1. CASE Acquiring
  BY <1>1 DEF Acquiring, EarlyStep, Start, LandArtifact, LandZone, LoadZone, CheckScope, Deploy
<1>2. CASE PrepareLayout \/ PriorState
  <2>1. pass = "incremental"
    BY <1>2, Incremental DEF PrepareLayout, PriorState
  <2> QED
    BY <1>2, <2>1 DEF LateStep, PrepareLayout, PriorState
<1>3. CASE EndPass \/ SettleBoundary \/ Reconcile \/ Measure \/ Rebuild
  <2>1. pass \in {"incremental", "replay"}
    BY DEF AppliedInv, TypeInv, TypeOK
  <2> QED
    BY <1>3, <2>1 DEF LateStep, EndPass, SettleBoundary, Reconcile, Measure, Rebuild
<1>4. CASE \E c \in todo : \/ NextItem(c) \/ PublishMarker(c)
                           \/ WriteContracted(c) \/ WriteQuarantine(c) \/ WriteIncidents(c)
  BY <1>4 DEF LateStep, NextItem, PublishMarker, WriteContracted, WriteQuarantine,
              WriteIncidents, Write
<1>5. CASE Refusal \/ Crash
  BY <1>5, RefusalExits DEF LastStep, Exit, EndRun, Crash
<1>6. CASE (\E a \in Artifacts, v \in Contents : Damage(a, v)) \/ UNCHANGED vars
  BY <1>6 DEF StillRun, Damage, Store!Damage, vars
<1> QED
  BY <1>1, <1>2, <1>3, <1>4, <1>5, <1>6 DEF Acquiring, Next, RunStep, Refusal
(* An acquisition adds at most one version, and no other step removes one. *)
LEMMA LandedKept ==
  ASSUME TypeInv, [Next]_vars
  PROVE  /\ \A a \in Artifacts, v \in Contents :
              manifest[a][v] # NotLanded => manifest'[a][v] = manifest[a][v]
         /\ \A a \in Artifacts : IsFiniteSet(LandedVersions(a)) => IsFiniteSet(LandedVersions(a))'
<1>1. CASE manifest' = manifest
  BY <1>1 DEF LandedVersions
<1>2. CASE \E a \in Artifacts, v \in Contents, now \in 1 .. MaxStamp : LandArtifact(a, v, now)
  <2>1. PICK a \in Artifacts, v \in Contents, now \in 1 .. MaxStamp :
          manifest' = [manifest EXCEPT ![a][v] = IF @ = 0 THEN now ELSE @]
    BY <1>2 DEF LandArtifact, Store!Acquire
  <2>2. manifest \in [Artifacts -> [Contents -> 0 .. MaxStamp]]
    BY DEF TypeInv, TypeOK
  <2>3. \A b \in Artifacts, w \in Contents :
          manifest'[b][w] = IF b = a /\ w = v /\ manifest[b][w] = 0 THEN now ELSE manifest[b][w]
    BY <2>1, <2>2
  <2>4. ASSUME NEW b \in Artifacts, IsFiniteSet(LandedVersions(b))
        PROVE  IsFiniteSet(LandedVersions(b))'
    <3>1. IsFiniteSet(LandedVersions(b) \cup {v})
      BY <2>4, FS_AddElement
    <3>2. LandedVersions(b)' \subseteq LandedVersions(b) \cup {v}
      BY <2>3 DEF LandedVersions, NotLanded
    <3> QED
      BY <3>1, <3>2, FS_Subset
  <2>5. \A b \in Artifacts, w \in Contents :
          manifest[b][w] # NotLanded => manifest'[b][w] = manifest[b][w]
    BY <2>3 DEF NotLanded
  <2> QED
    BY <2>4, <2>5
<1> QED
  BY <1>1, <1>2, Frame

LEMMA LandedStep ==
  ASSUME AppliedInv, LandedInv, [Next]_vars
  PROVE  LandedInv'
<1> DEFINE Arrived == /\ \A a \in scope \ toLand : LandedVersions(a) # {}
                      /\ pc \notin {"idle", "land", "land zone"} => toLand = {}
<1>1. \A a \in Artifacts : IsFiniteSet(LandedVersions(a))'
  BY LandedKept DEF AppliedInv, LandedInv
<1>2. \A a \in Artifacts : LandedVersions(a) # {} => LandedVersions(a)' # {}
  BY LandedKept DEF AppliedInv, LandedVersions
<1>3. scope \subseteq Artifacts
  BY DEF AppliedInv, TypeInv, TypeOK
<1>4. Arrived
  BY DEF LandedInv
<1>5. Arrived'
  <2> USE DEF Goto, run
  <2>1. CASE \E requested \in (SUBSET Artifacts) \ {{}}, zoneOption \in Zones \cup {NoZone} :
               Start(requested, zoneOption)
    BY <2>1 DEF Start
  <2>2. CASE \E a \in Artifacts, v \in Contents, now \in 1 .. MaxStamp : LandArtifact(a, v, now)
    <3>1. PICK a \in Artifacts, v \in Contents, now \in 1 .. MaxStamp : LandArtifact(a, v, now)
      BY <2>2
    <3>2. LandedVersions(a)' # {}
      <4>1. manifest'[a][v] = IF manifest[a][v] = 0 THEN now ELSE manifest[a][v]
        <5>1. manifest \in [Artifacts -> [Contents -> 0 .. MaxStamp]]
          BY DEF AppliedInv, TypeInv, TypeOK
        <5>2. manifest' = [manifest EXCEPT ![a][v] = IF @ = 0 THEN now ELSE @]
          BY <3>1 DEF LandArtifact, Store!Acquire
        <5> QED
          BY <5>1, <5>2
      <4> QED
        BY <4>1 DEF LandedVersions, NotLanded
    <3>3. /\ toLand' = toLand \ {a} /\ scope' = scope
          /\ pc' = IF toLand = scope THEN "land zone"
                   ELSE IF toLand = {a} THEN "load zone" ELSE "land"
      BY <3>1 DEF LandArtifact
    <3> QED
      BY <1>2, <1>3, <1>4, <3>2, <3>3
  <2>3. CASE \/ \E z \in Zones, now \in 1 .. MaxStamp : LandZone(z, now)
             \/ \E s \in Services, contract \in Contracts : Deploy(s, contract)
             \/ LoadZone \/ CheckScope \/ Plan
    <3>1. UNCHANGED <<manifest, scope, toLand>>
      BY <2>3 DEF LandZone, Deploy, LoadZone, CheckScope, Plan, landing
    <3>2. pc' \notin {"idle", "land", "land zone"} =>
            toLand = {} \/ pc \notin {"idle", "land", "land zone"}
      BY <2>3 DEF LandZone, Deploy, LoadZone, CheckScope, Plan
    <3> QED
      BY <1>4, <3>1, <3>2 DEF LandedVersions
  <2>5. CASE LateStep
    BY <1>4, <2>5 DEF LateStep, LandedVersions, Early
  <2>6. CASE LastStep
    BY <2>6 DEF LastStep
  <2>7. CASE StillRun
    BY <1>4, <2>7 DEF StillRun, LandedVersions
  <2> HIDE DEF Arrived
  <2> QED
    BY <2>1, <2>2, <2>3, <2>5, <2>6, <2>7, Phases DEF Acquiring
<1> QED
  BY <1>1, <1>5 DEF LandedInv

(* A derivation is marked once, with the time its version was published.   *)
LEMMA MarkersStep ==
  ASSUME AppliedInv, WithinScope, MarkersInv, PlanInv, [Next]_vars
  PROVE  MarkersInv'
<1>1. \A m \in markers :
        m.published # NotLanded /\ m.artifact \in Artifacts /\ m.version \in Contents
  BY DEF AppliedInv, TypeInv, TypeOK, Markers, NotLanded
<1>2. \A m \in markers : m.published = manifest'[m.artifact][m.version]
  BY <1>1, LandedKept DEF AppliedInv, MarkersInv
<1>3. CASE markers' = markers
  BY <1>2, <1>3 DEF MarkersInv
<1>4. CASE \E c \in todo : PublishMarker(c)
  <2>1. PICK c \in todo : PublishMarker(c)
    BY <1>4
  <2>2. /\ markers' = markers \cup {MarkerFor(c)} /\ ~ Conflicts(c) /\ manifest' = manifest
        /\ c \in planned
    BY <2>1 DEF PublishMarker, landing, AppliedInv, TypeInv, TypeOK
  <2>3. DerivationOf(MarkerFor(c)) = Derivation(c)
    BY DEF DerivationOf, MarkerFor, Derivation
  <2>4. MarkerFor(c).published = manifest'[MarkerFor(c).artifact][MarkerFor(c).version]
    BY <2>2 DEF PlanInv, MarkerFor
  <2> QED
    BY <1>2, <2>2, <2>3, <2>4 DEF MarkersInv, Conflicts
<1> QED
  BY <1>3, <1>4, PublishOnlyAdds

(* The plan is complete, and sound, from the step that makes it.           *)
LEMMA PlanSound ==
  ASSUME TypeInv, LandedInv, Plan
  PROVE  PlanInv'
<1> DEFINE of(a) == Decide(a, code[ServiceOf[a]], manifest[a], damaged)
<1>1. /\ planned' = UNION {of(a) : a \in scope}
      /\ UNCHANGED <<manifest, scope>> /\ scope \subseteq Artifacts
  BY DEF Plan, landing, TypeInv, TypeOK
<1>2. ASSUME NEW a \in scope
      PROVE  /\ \A v \in LandedVersions(a) : \E c \in of(a) : c.version = v
             /\ \A c \in of(a) :
                  /\ c.artifact = a
                  /\ c.published = manifest[a][c.version]
                  /\ c.state = "superseded" => \E d \in of(a) : d.state = "active" /\ Newer(d, c)
             /\ \A c, d \in of(a) : c.state = "active" /\ d.state = "active" => c = d
  <2>1. manifest[a] \in [Contents -> 0 .. MaxStamp]
    BY <1>1 DEF TypeInv, TypeOK
  <2>2. IsFiniteSet({v \in Contents : manifest[a][v] # NotLanded})
    BY <1>1 DEF LandedInv, LandedVersions
  <2> QED
    BY <2>1, <2>2, DecideSound, DecideOnce DEF LandedVersions
<1> HIDE DEF of
<1>3. \A c \in planned' : \E a \in scope : c \in of(a) /\ a = c.artifact
  BY <1>1, <1>2
<1>4. \A a \in scope : of(a) \subseteq planned'
  BY <1>1
<1>5. \A a \in scope : LandedVersions(a)' = LandedVersions(a)
  BY <1>1 DEF LandedVersions
<1>6. \A a \in scope : \A v \in LandedVersions(a)' :
        \E c \in planned' : c.artifact = a /\ c.version = v
  BY <1>2, <1>4, <1>5
<1>7. \A c \in planned' : c.published = manifest'[c.artifact][c.version]
  BY <1>1, <1>2, <1>3
<1>8. \A c \in planned' : c.state = "superseded" =>
        \E d \in planned' : d.artifact = c.artifact /\ d.state = "active" /\ Newer(d, c)
  BY <1>2, <1>3, <1>4
<1>9. \A c, d \in planned' :
        c.artifact = d.artifact /\ c.state = "active" /\ d.state = "active" => c = d
  BY <1>2, <1>3
<1> QED
  BY <1>1, <1>6, <1>7, <1>8, <1>9 DEF PlanInv

LEMMA PlanStep ==
  ASSUME AppliedInv, WithinScope, LandedInv, PlanInv, [Next]_vars
  PROVE  PlanInv'
<1>1. CASE EarlyStep
  BY <1>1 DEF EarlyStep, WithinScope, PlanInv
<1>2. CASE Plan
  BY <1>2, PlanSound DEF AppliedInv
<1>3. CASE LateStep
  BY <1>3 DEF LateStep, PlanInv, LandedVersions
<1>4. CASE LastStep
  BY <1>4 DEF LastStep, PlanInv, Early
<1>5. CASE StillRun
  BY <1>5 DEF StillRun, PlanInv, LandedVersions
<1> QED
  BY <1>1, <1>2, <1>3, <1>4, <1>5, Phases

(***************************************************************************)
(* What was complete when the scope was checked stays complete: until the  *)
(* boundary moves, a run adds markers only of artifacts it was asked for.  *)
(***************************************************************************)
LEMMA ScopeKept ==
  ASSUME TypeInv, WithinScope, ScopeComplete, [Next]_vars,
         UNCHANGED <<code, scope, zone, boundary>>
  PROVE  ScopeComplete'
<1>1. TargetBoundary' = TargetBoundary
  BY DEF TargetBoundary, ScopeServices
<1>2. \A a \in Artifacts \ scope : \A context :
        Entries(markers', a, context) = Entries(markers, a, context)
  <2>1. CASE \E c \in todo : PublishMarker(c)
    <3>1. PICK c \in todo : markers' = markers \cup {MarkerFor(c)}
      BY <2>1 DEF PublishMarker
    <3>2. MarkerFor(c).artifact \in scope
      BY DEF WithinScope, TypeInv, TypeOK, MarkerFor
    <3> QED
      BY <3>1, <3>2 DEF Entries
  <2> QED
    BY <2>1, PublishOnlyAdds
<1>3. \A a \in Artifacts \ scope : \A context :
        HasMarker(markers', a, context) <=> HasMarker(markers, a, context)
  BY <1>2 DEF HasMarker
<1>4. \A S, a, context : HasMarker(S, a, context) => a \in KnownArtifacts(S)
  BY DEF HasMarker, Entries, KnownArtifacts
<1>5. KnownArtifacts(markers') \subseteq Artifacts
  BY TypeInvStep DEF TypeInv, TypeOK, Markers, KnownArtifacts
<1> QED
  BY <1>1, <1>3, <1>4, <1>5 DEF ScopeComplete, Missing, Required, Covered

LEMMA ScopeStep ==
  ASSUME AppliedInv, WithinScope, ScopeHeld, [Next]_vars
  PROVE  ScopeHeld'
<1>1. CASE EarlyStep /\ CheckScope
  <2>1. ScopeComplete /\ UNCHANGED <<code, scope, zone, boundary>>
    BY <1>1 DEF CheckScope, run, warehouse
  <2> QED
    BY <2>1, ScopeKept DEF AppliedInv, ScopeHeld
<1>2. CASE EarlyStep /\ ~ CheckScope /\ Acquiring
  BY <1>2 DEF ScopeHeld, Unsettled, Applying, Acquiring, Goto, Start, LandArtifact, LandZone,
              LoadZone, Deploy
<1>3. CASE Plan
  <2>1. ScopeComplete /\ UNCHANGED <<code, scope, zone, boundary>>
    BY <1>3 DEF Plan, warehouse, ScopeHeld, Unsettled
  <2> QED
    BY <2>1, ScopeKept DEF AppliedInv, ScopeHeld
<1>4. CASE LateStep
  <2>1. SUFFICES ASSUME Unsettled' PROVE ScopeComplete'
    BY DEF ScopeHeld
  <2>2. ScopeComplete /\ UNCHANGED <<code, scope, zone>>
    BY <1>4, <2>1 DEF LateStep, ScopeHeld
  <2>3. ~ SettleBoundary
    BY <2>1 DEF SettleBoundary, Goto, Unsettled, Applying
  <2> QED
    BY <2>2, <2>3, MarkersGrow, ScopeKept DEF AppliedInv
<1>5. CASE LastStep
  BY <1>5 DEF LastStep, ScopeHeld, Unsettled, Applying
<1>6. CASE StillRun
  <2>1. UNCHANGED <<code, scope, zone, boundary>> /\ (Unsettled' <=> Unsettled)
    BY <1>6 DEF StillRun, Unsettled
  <2> QED
    BY <2>1, ScopeKept DEF AppliedInv, ScopeHeld
<1> QED
  BY <1>1, <1>2, <1>3, <1>4, <1>5, <1>6, Phases

(* From the move of the boundary on, readers are on the run's own context. *)
LEMMA SettledStep ==
  ASSUME AppliedInv, Settled, [Next]_vars
  PROVE  Settled'
<1> USE DEF Published, ScopeServices
<1>1. CASE SettleBoundary
  <2>1. UNCHANGED <<code, scope, zone>> /\ boundary' = TargetBoundary /\ pc' = "ledger"
    BY <1>1 DEF SettleBoundary, run, Goto
  <2>2. ScopeServices \subseteq Services
    BY ServiceOfAssumption DEF AppliedInv, TypeInv, TypeOK
  <2> QED
    BY <2>1, <2>2 DEF Settled, TargetBoundary
<1>2. CASE LateStep /\ ~ SettleBoundary
  <2>1. boundary' = boundary
    BY <1>2, MarkersGrow
  <2> QED
    BY <1>2, <2>1 DEF LateStep, Settled
<1>3. CASE EarlyStep \/ Plan
  <2>1. pass = "incremental" /\ pass' = pass
    BY <1>3, Incremental DEF EarlyStep, Early, Plan
  <2>2. pc' \in Early \cup {"layout"}
    BY <1>3 DEF EarlyStep, Plan, Goto
  <2> QED
    BY <2>1, <2>2 DEF Settled, Early
<1>4. CASE LastStep
  BY <1>4 DEF LastStep, Settled
<1>5. CASE StillRun
  BY <1>5 DEF StillRun, Settled
<1> QED
  BY <1>1, <1>2, <1>3, <1>4, <1>5, Phases
(***************************************************************************)
(* The version a replay of the whole ledger has active is the one version  *)
(* whose latest event is an activation.                                    *)
(***************************************************************************)
LEMMA ReconcileOne ==
  ASSUME AppliedInv, WithinScope, PlanInv, LedgerInv, Reconcile,
         NEW a \in Artifacts, NEW v \in Contents
  PROVE  /\ Recorded(a)[v].action = "activated" <=> Replayed(a) = v
         /\ Recorded(a)[v].action # "none" => manifest[a][v] # NotLanded
<1> DEFINE C == Candidate(a)
<1>1. /\ C \subseteq planned /\ \A c \in C : c.artifact = a
      /\ \A c \in C : c.state \in {"active", "superseded", "rejected"} /\ c.version \in Contents
                      /\ c.published \in 1 .. MaxStamp
      /\ \A c, d \in C : c.version = d.version => c = d
      /\ \A c, d \in C : c.state = "active" /\ d.state = "active" => c = d
      /\ \A c \in C : manifest[a][c.version] = c.published
  BY DEF Candidate, AppliedInv, TypeInv, TypeOK, OnePerVersion, PlanInv, Candidates
<1>2. \A c \in C : /\ EventFor(c).action = "activated" <=> c.state = "active"
  BY <1>1 DEF EventFor
<1>3. \A c \in C : c.version = v => Recorded(a)[v] = EventFor(c)
  <2> SUFFICES ASSUME NEW c \in C, c.version = v PROVE Recorded(a)[v] = EventFor(c)
    OBVIOUS
  <2>1. (CHOOSE d \in C : d.version = v) = c
    BY <1>1
  <2> QED
    BY <2>1 DEF Recorded
<1>4. (~ \E c \in C : c.version = v) => Recorded(a)[v] = ledger[a][v]
  BY DEF Recorded
<1>5. /\ ledger[a][v].action = "activated" <=> ledgerState[a] = v
      /\ ledger[a][v].action # "none" => manifest[a][v] # NotLanded
  BY DEF LedgerInv
<1>6. Recorded(a)[v].action # "none" => manifest[a][v] # NotLanded
  BY <1>1, <1>3, <1>4, <1>5 DEF NotLanded
<1> DEFINE N == NewEvents(a)
<1>7. \A c \in C : c \in N <=> ledger[a][c.version] # EventFor(c)
  BY DEF NewEvents
<1>8. N \subseteq C /\ v # NoVersion
  BY IdentifiersAssumption DEF NewEvents, NoVersion
<1>9. CASE a \notin scope
  <2>1. C = {} /\ N = {}
    BY <1>1, <1>8, <1>9 DEF WithinScope
  <2> QED
    BY <1>4, <1>5, <1>6, <2>1 DEF Replayed
<1>10. CASE a \in scope
  <2>1. (~ \E c \in C : c.version = v) => manifest[a][v] = NotLanded
    BY <1>10 DEF Candidate, PlanInv, LandedVersions, Early, Reconcile
  <2>2. CASE \E c \in N : c.state = "active"
    <3>1. PICK d \in N : d = (CHOOSE c \in N : c.state = "active") /\ d.state = "active"
      BY <2>2
    <3>2. Replayed(a) = d.version
      BY <2>2, <3>1 DEF Replayed, ActiveVersion
    <3>3. CASE \E c \in C : c.version = v
      BY <1>1, <1>2, <1>3, <1>6, <1>8, <3>1, <3>2, <3>3
    <3>4. CASE ~ \E c \in C : c.version = v
      BY <1>4, <1>5, <1>6, <1>8, <2>1, <3>1, <3>2, <3>4
    <3> QED
      BY <3>3, <3>4
  <2>3. CASE (~ \E c \in N : c.state = "active") /\ \E c \in N : c.version = ledgerState[a]
    <3>1. Replayed(a) = NoVersion
      BY <2>3 DEF Replayed
    <3>2. CASE \E c \in C : c.version = v
      BY <1>1, <1>2, <1>3, <1>5, <1>6, <1>7, <1>8, <2>3, <3>1, <3>2
    <3>3. CASE ~ \E c \in C : c.version = v
      BY <1>4, <1>5, <1>6, <1>8, <2>1, <2>3, <3>1, <3>3
    <3> QED
      BY <3>2, <3>3
  <2>4. CASE (~ \E c \in N : c.state = "active") /\ ~ \E c \in N : c.version = ledgerState[a]
    <3>1. Replayed(a) = ledgerState[a]
      BY <2>4 DEF Replayed
    <3>2. CASE \E c \in C : c.version = v
      BY <1>1, <1>2, <1>3, <1>5, <1>6, <1>7, <2>4, <3>1, <3>2
    <3>3. CASE ~ \E c \in C : c.version = v
      BY <1>4, <1>5, <1>6, <3>1, <3>3
    <3> QED
      BY <3>2, <3>3
  <2> QED
    BY <2>2, <2>3, <2>4
<1> QED
  BY <1>9, <1>10

LEMMA LedgerInvStep ==
  ASSUME AppliedInv, WithinScope, PlanInv, LedgerInv, [Next]_vars
  PROVE  LedgerInv'
<1>1. \A a \in Artifacts, v \in Contents :
        manifest[a][v] # NotLanded => manifest'[a][v] # NotLanded
  BY LandedKept DEF AppliedInv
<1>2. CASE UNCHANGED <<ledger, ledgerState>>
  BY <1>1, <1>2 DEF LedgerInv
<1>3. CASE Reconcile
  <2>1. /\ \A a \in Artifacts : ledger'[a] = Recorded(a) /\ ledgerState'[a] = Replayed(a)
    BY <1>3 DEF Reconcile
  <2>2. \A a \in Artifacts, v \in Contents :
          /\ Recorded(a)[v].action = "activated" <=> Replayed(a) = v
          /\ Recorded(a)[v].action # "none" => manifest[a][v] # NotLanded
    BY <1>3, ReconcileOne
  <2> QED
    BY <1>1, <2>1, <2>2 DEF LedgerInv
<1> QED
  BY <1>2, <1>3, Frame

-----------------------------------------------------------------------------
LEMMA AlwaysReader == Spec => []ReaderInv
<1>1. Init => ReaderInv
  <2> SUFFICES ASSUME Init PROVE ReaderInv
    OBVIOUS
  <2>1. AppliedInv
    BY InitTypeInv DEF Init, AppliedInv, OnePerVersion, DoneIsMarked, NothingLeft,
                       LedgerWritten, Replaying, Applying, Applied
  <2>2. \A a \in Artifacts : LandedVersions(a) = {}
    BY DEF Init, LandedVersions
  <2>3. LandedInv
    BY <2>2, FS_EmptySet DEF Init, LandedInv
  <2>4. LedgerInv
    BY IdentifiersAssumption DEF Init, LedgerInv, NoEvent, NoVersion
  <2>5. WithinScope /\ MarkersInv /\ PlanInv /\ ScopeHeld /\ Settled
    BY DEF Init, WithinScope, MarkersInv, PlanInv, Early, ScopeHeld, Unsettled, Applying,
           Settled, Published
  <2> QED
    BY <2>1, <2>3, <2>4, <2>5 DEF ReaderInv
<1>2. ReaderInv /\ [Next]_vars => ReaderInv'
  BY AppliedStep, WithinScopeStep, LandedStep, MarkersStep, PlanStep, ScopeStep, SettledStep,
     LedgerInvStep DEF ReaderInv, AppliedInv
<1> QED
  BY <1>1, <1>2, PTL DEF Spec

(* An artifact that was asked for has an item that is not superseded.      *)
LEMMA PlanCovers ==
  ASSUME ReaderInv, pc \notin Early, NEW a \in scope
  PROVE  \E c \in planned : c.artifact = a /\ c.state # "superseded"
<1>1. PICK v \in Contents : v \in LandedVersions(a)
  BY DEF ReaderInv, LandedInv, Early, LandedVersions
<1>2. PICK c \in planned : c.artifact = a /\ c.version = v
  BY <1>1 DEF ReaderInv, PlanInv
<1> QED
  BY <1>2 DEF ReaderInv, PlanInv

(* Every artifact of the scope has its marker when the boundary is moved.  *)
LEMMA NothingMissing ==
  ASSUME ReaderInv, pc = "boundary"
  PROVE  CoverageComplete
<1>1. ScopeComplete
  BY DEF ReaderInv, ScopeHeld, Unsettled
<1>2. ASSUME NEW a \in scope
      PROVE  a \in Covered(markers, TargetBoundary)
  <2>1. PICK c \in planned : c.artifact = a /\ c.state # "superseded"
    BY PlanCovers DEF Early
  <2>2. MarkerFor(c) \in markers
    BY <2>1 DEF ReaderInv, AppliedInv, NothingLeft, DoneIsMarked, Applied, Marked
  <2>3. ServiceOf[a] \in Services /\ ServiceOf[a] \in ScopeServices
    BY ServiceOfAssumption DEF ReaderInv, AppliedInv, TypeInv, TypeOK, ScopeServices
  <2>4. MarkerFor(c) \in Entries(markers, a, TargetBoundary)
    BY <2>1, <2>2, <2>3 DEF Entries, MarkerFor, TargetBoundary
  <2> QED
    BY <2>2, <2>4 DEF Covered, HasMarker, KnownArtifacts, Entries
<1> QED
  BY <1>1, <1>2 DEF ScopeComplete, CoverageComplete, Missing

(***************************************************************************)
(* A run whose scope was found sufficient never fails at settle_boundary,  *)
(* after all its writes: whatever crashed, was refused or was deployed     *)
(* before it, every artifact it promised to cover has its marker by then.  *)
(***************************************************************************)
THEOREM SettlingSucceeds == Spec => []SettlingNeverRefused
<1>1. ReaderInv => SettlingNeverRefused
  BY NothingMissing DEF SettlingNeverRefused
<1> QED
  BY <1>1, AlwaysReader, PTL

-----------------------------------------------------------------------------
(* What readers see once a plan is applied.                                *)

(* A marker of an artifact in scope, under the run's context, is of a      *)
(* planned version, and agrees with its item unless that is superseded.    *)
LEMMA MarkerIsPlanned ==
  ASSUME ReaderInv, pc \in Applied, NEW a \in scope, NEW m \in markers,
         m.artifact = a, m.contract = code[ServiceOf[a]], m.zone = zone
  PROVE  \E c \in planned : /\ c.artifact = a /\ c.version = m.version
                            /\ c.published = m.published
                            /\ c.state # "superseded" => m = MarkerFor(c)
<1>1. /\ m.version \in Contents /\ m.published # NotLanded
      /\ m.published = manifest[a][m.version]
  BY DEF ReaderInv, AppliedInv, TypeInv, TypeOK, Markers, MarkersInv, NotLanded
<1>2. PICK c \in planned : c.artifact = a /\ c.version = m.version
  <2>1. pc \notin Early /\ m.version \in LandedVersions(a)
    BY <1>1 DEF LandedVersions, Early, Applied
  <2> QED
    BY <2>1 DEF ReaderInv, PlanInv
<1>3. c.published = m.published
  BY <1>1, <1>2 DEF ReaderInv, PlanInv
<1>4. ASSUME c.state # "superseded" PROVE m = MarkerFor(c)
  <2>1. MarkerFor(c) \in markers
    BY <1>4 DEF ReaderInv, AppliedInv, NothingLeft, DoneIsMarked, Marked
  <2>2. DerivationOf(MarkerFor(c)) = DerivationOf(m)
    BY <1>2 DEF DerivationOf, MarkerFor
  <2> QED
    BY <2>1, <2>2 DEF ReaderInv, MarkersInv
<1> QED
  BY <1>2, <1>3, <1>4

(* The marker of the version the plan makes current, if there is one.      *)
ActiveMarkers(a) == {MarkerFor(c) : c \in {d \in Candidate(a) : d.state = "active"}}

(***************************************************************************)
(* Under the run's own context, a set of markers that agrees with the plan *)
(* and holds the marker of the active version shows that version and no    *)
(* other.                                                                  *)
(***************************************************************************)
LEMMA PlanDecidesView ==
  ASSUME ReaderInv, NEW a \in scope, NEW context,
         context.zone = zone, context.contracts[ServiceOf[a]] = code[ServiceOf[a]],
         NEW S, ActiveMarkers(a) \subseteq S,
         \A m \in Entries(S, a, context) :
           \E c \in planned : /\ c.artifact = a /\ c.version = m.version
                              /\ c.published = m.published
                              /\ c.state # "superseded" => m = MarkerFor(c)
  PROVE  VisibleRows(S, a, context) = ActiveMarkers(a)
<1> DEFINE active == {m \in Entries(S, a, context) : m.state = "active"}
<1>1. VisibleRows(S, a, context) = {m \in active : \A n \in active : ~ Newer(n, m)}
  BY DEF VisibleRows
<1>2. ActiveMarkers(a) \subseteq active
  BY DEF ActiveMarkers, Candidate, Entries, MarkerFor
<1>3. \A c \in planned : c.published \in Nat /\ c.version \in Nat
  BY CandidateKey DEF ReaderInv, AppliedInv, TypeInv, TypeOK
<1>4. \A c \in planned : /\ MarkerFor(c).published = c.published
                         /\ MarkerFor(c).version = c.version
                         /\ MarkerFor(c).state = c.state
  BY DEF MarkerFor
<1>5. \A c \in planned : c.artifact = a /\ c.state = "active" => MarkerFor(c) \in ActiveMarkers(a)
  BY DEF ActiveMarkers, Candidate
<1>6. \A m \in active :
        \E c \in planned : /\ c.artifact = a /\ c.version = m.version
                           /\ c.published = m.published
                           /\ c.state # "superseded" => m = MarkerFor(c) /\ c.state = "active"
  BY <1>4
<1>7. \A c \in planned : c.state = "superseded" =>
        \E d \in planned : d.artifact = c.artifact /\ d.state = "active" /\ Newer(d, c)
  BY DEF ReaderInv, PlanInv
<1>8. \A c, d \in planned :
        c.artifact = d.artifact /\ c.state = "active" /\ d.state = "active" => c = d
  BY DEF ReaderInv, PlanInv
<1>9. \A p, q, r, s : p.published = r.published /\ p.version = r.version
                        /\ q.published = s.published /\ q.version = s.version =>
        (Newer(p, q) <=> Newer(r, s))
  BY DEF Newer
<1> HIDE DEF active
<1>10. ASSUME NEW m \in active, \A n \in active : ~ Newer(n, m)
       PROVE  m \in ActiveMarkers(a)
  <2>1. PICK c \in planned : /\ c.artifact = a /\ c.version = m.version
                             /\ c.published = m.published
                             /\ c.state # "superseded" => m = MarkerFor(c) /\ c.state = "active"
    BY <1>6
  <2>2. ASSUME c.state = "superseded" PROVE FALSE
    <3>1. PICK d \in planned : d.artifact = a /\ d.state = "active" /\ Newer(d, c)
      BY <1>7, <2>1, <2>2
    <3>2. MarkerFor(d) \in active /\ Newer(MarkerFor(d), m)
      BY <1>2, <1>4, <1>5, <1>9, <2>1, <3>1
    <3> QED
      BY <1>10, <3>2
  <2> QED
    BY <1>5, <2>1, <2>2
<1>11. ASSUME NEW m \in ActiveMarkers(a), NEW n \in active, Newer(n, m)
       PROVE  FALSE
  <2>1. PICK c \in planned : c.artifact = a /\ c.state = "active" /\ m = MarkerFor(c)
    BY DEF ActiveMarkers, Candidate
  <2>2. PICK e \in planned : /\ e.artifact = a /\ e.version = n.version
                             /\ e.published = n.published
                             /\ e.state # "superseded" => n = MarkerFor(e) /\ e.state = "active"
    BY <1>6
  <2>3. Newer(e, c)
    BY <1>4, <1>9, <1>11, <2>1, <2>2
  <2>4. e.state = "superseded" => Newer(c, e)
    BY <1>7, <1>8, <2>1, <2>2
  <2>5. e.state # "superseded" => c = e
    BY <1>8, <2>1, <2>2
  <2> QED
    BY <1>3, <2>3, <2>4, <2>5, NewerIsOrder
<1> QED
  BY <1>1, <1>2, <1>10, <1>11

(* The same, for the markers of the warehouse and for those of a rebuild.  *)
LEMMA ViewIsPlan ==
  ASSUME ReaderInv, pc \in Applied, Published, NEW a \in scope
  PROVE  View(a) = ActiveMarkers(a)
<1>1. boundary.zone = zone /\ boundary.contracts[ServiceOf[a]] = code[ServiceOf[a]]
  BY DEF ReaderInv, Settled, ScopeServices
<1>2. ActiveMarkers(a) \subseteq markers
  BY DEF ActiveMarkers, Candidate, ReaderInv, AppliedInv, NothingLeft, DoneIsMarked, Marked
<1>3. \A m \in Entries(markers, a, boundary) :
        \E c \in planned : /\ c.artifact = a /\ c.version = m.version
                           /\ c.published = m.published
                           /\ c.state # "superseded" => m = MarkerFor(c)
  BY <1>1, MarkerIsPlanned DEF Entries
<1> QED
  BY <1>1, <1>2, <1>3, PlanDecidesView DEF View

LEMMA RebuildViewIsPlan ==
  ASSUME ReaderInv, NEW a \in scope
  PROVE  VisibleRows(RebuildMarkers, a, TargetBoundary) = ActiveMarkers(a)
<1>1. /\ TargetBoundary.zone = zone
      /\ TargetBoundary.contracts[ServiceOf[a]] = code[ServiceOf[a]]
  BY ServiceOfAssumption DEF TargetBoundary, ScopeServices, ReaderInv, AppliedInv, TypeInv, TypeOK
<1>2. ActiveMarkers(a) \subseteq RebuildMarkers
  BY DEF ActiveMarkers, Candidate, RebuildMarkers
<1>3. \A m \in Entries(RebuildMarkers, a, TargetBoundary) :
        \E c \in planned : /\ c.artifact = a /\ c.version = m.version
                           /\ c.published = m.published
                           /\ c.state # "superseded" => m = MarkerFor(c)
  BY DEF Entries, RebuildMarkers, MarkerFor
<1> QED
  BY <1>1, <1>2, <1>3, PlanDecidesView

(***************************************************************************)
(* The gate incremental_matches_rebuild, for the rows: after any sequence  *)
(* of runs, crashes, deployments and damages, a run that reports shows     *)
(* exactly what a build from nothing would.                                *)
(***************************************************************************)
THEOREM RowsAreRebuilt == Spec => []RowsMatchRebuild
<1>1. ReaderInv => RowsMatchRebuild
  BY ViewIsPlan, RebuildViewIsPlan DEF RowsMatchRebuild, Applied, Published
<1> QED
  BY <1>1, AlwaysReader, PTL

(* The replayed ledger names the active version of the plan, or none.      *)
LEMMA LedgerNamesPlan ==
  ASSUME ReaderInv, pc \in {"measure", "report"}, NEW a \in scope
  PROVE  /\ ledgerState[a] = NoVersion => ActiveMarkers(a) = {}
         /\ \A m \in ActiveMarkers(a) : m.version = ledgerState[a]
<1>1. LedgerLevel
  BY DEF ReaderInv, AppliedInv, LedgerWritten, Settled
<1>2. ASSUME NEW c \in planned, c.artifact = a, c.state = "active"
      PROVE  c.version = ledgerState[a] /\ c.version # NoVersion
  <2>1. c.version \in Contents /\ a \in Artifacts /\ c.version # NoVersion
    BY IdentifiersAssumption DEF ReaderInv, AppliedInv, TypeInv, TypeOK, Candidates, NoVersion
  <2>2. ledger[a][c.version] = EventFor(c) /\ EventFor(c).action = "activated"
    BY <1>1, <1>2 DEF LedgerLevel, EventFor
  <2> QED
    BY <2>1, <2>2 DEF ReaderInv, LedgerInv
<1> QED
  BY <1>2 DEF ActiveMarkers, Candidate, MarkerFor

(***************************************************************************)
(* A reconciliation brings the replayed ledger level with what readers     *)
(* see, however many runs before it died between marker and ledger.        *)
(***************************************************************************)
THEOREM LedgerIsTheView == Spec => []LedgerMatchesView
<1>1. ReaderInv => LedgerMatchesView
  BY ViewIsPlan, LedgerNamesPlan DEF LedgerMatchesView, Applied, Published
<1> QED
  BY <1>1, AlwaysReader, PTL

-----------------------------------------------------------------------------
(***************************************************************************)
(* Why a version was refused. A contract refuses a version for good; a     *)
(* file that cannot be read may be landed again.                           *)
(***************************************************************************)
ReasonsInv ==
  /\ damages = 0 => damaged = {}
  /\ \A m \in markers :
       /\ m.state = "rejected" => m.violations # "none"
       /\ m.violations = "contract" => <<m.artifact, m.version, m.contract>> \notin Accepted
       /\ damages = 0 => m.violations # "unreadable"
  /\ \A c \in planned :
       /\ c.state = "rejected" <=> c.violations # "none"
       /\ c.violations = "none" =>
            <<c.artifact, c.version, code[ServiceOf[c.artifact]]>> \in Accepted
       /\ c.violations = "contract" =>
            <<c.artifact, c.version, code[ServiceOf[c.artifact]]>> \notin Accepted
       /\ damages = 0 => c.violations # "unreadable"

LEMMA PlanReasons ==
  ASSUME TypeInv, LandedInv, ReasonsInv, Plan, NEW c \in planned'
  PROVE  /\ c.state = "rejected" <=> c.violations # "none"
         /\ c.violations = "none" =>
              <<c.artifact, c.version, code[ServiceOf[c.artifact]]>> \in Accepted
         /\ c.violations = "contract" =>
              <<c.artifact, c.version, code[ServiceOf[c.artifact]]>> \notin Accepted
         /\ damages = 0 => c.violations # "unreadable"
<1>1. PICK a \in scope : c \in Decide(a, code[ServiceOf[a]], manifest[a], damaged)
  BY DEF Plan
<1>2. /\ manifest[a] \in [Contents -> 0 .. MaxStamp]
      /\ IsFiniteSet({v \in Contents : manifest[a][v] # NotLanded})
  BY DEF TypeInv, TypeOK, LandedInv, LandedVersions
<1>3. /\ c.artifact = a
      /\ c.state = "rejected" <=> c.violations # "none"
      /\ c.violations = Violations(a, c.version, code[ServiceOf[a]], damaged)
  BY <1>1, <1>2, DecideSound, DecideOnce
<1> QED
  BY <1>3 DEF Violations, ReasonsInv

LEMMA ReasonsStep ==
  ASSUME ReaderInv, ReasonsInv, [Next]_vars
  PROVE  ReasonsInv'
<1>1. damages' = 0 => damages = 0 /\ damaged' \subseteq damaged
  <2>1. CASE \E a \in Artifacts, v \in Contents, now \in 1 .. MaxStamp : LandArtifact(a, v, now)
    BY <2>1 DEF LandArtifact, Store!Acquire, Goto, budget
  <2>2. CASE \E a \in Artifacts, v \in Contents : Damage(a, v)
    <3>1. damages \in Nat /\ damages' = damages + 1
      BY <2>2, BoundsAssumption DEF Damage, ReaderInv, AppliedInv, TypeInv, TypeOK
    <3> QED
      BY <3>1
  <2> QED
    BY <2>1, <2>2, Frame
<1>2. damages' = 0 => damaged' = {}
  BY <1>1 DEF ReasonsInv
<1>3. ASSUME NEW m \in markers'
      PROVE  /\ m.state = "rejected" => m.violations # "none"
             /\ m.violations = "contract" => <<m.artifact, m.version, m.contract>> \notin Accepted
             /\ damages' = 0 => m.violations # "unreadable"
  <2>1. CASE m \in markers
    BY <1>1, <2>1 DEF ReasonsInv
  <2>2. CASE m \notin markers
    <3>1. PICK c \in todo : m = MarkerFor(c)
      BY <2>2, PublishOnlyAdds DEF PublishMarker
    <3>2. c \in planned
      BY DEF ReaderInv, AppliedInv, TypeInv, TypeOK
    <3>3. /\ m.artifact = c.artifact /\ m.version = c.version /\ m.state = c.state
          /\ m.contract = code[ServiceOf[c.artifact]] /\ m.violations = c.violations
      BY <3>1 DEF MarkerFor
    <3> QED
      BY <1>1, <3>2, <3>3 DEF ReasonsInv
  <2> QED
    BY <2>1, <2>2
<1>4. ASSUME NEW c \in planned'
      PROVE  /\ c.state = "rejected" <=> c.violations # "none"
             /\ c.violations = "none" =>
                  <<c.artifact, c.version, code'[ServiceOf[c.artifact]]>> \in Accepted
             /\ c.violations = "contract" =>
                  <<c.artifact, c.version, code'[ServiceOf[c.artifact]]>> \notin Accepted
             /\ damages' = 0 => c.violations # "unreadable"
  <2>1. CASE EarlyStep \/ LastStep
    BY <2>1 DEF EarlyStep, LastStep, ReaderInv, WithinScope
  <2>2. CASE Plan
    <3>1. code' = code
      BY <2>2 DEF Plan
    <3> QED
      BY <1>1, <2>2, <3>1, PlanReasons DEF ReaderInv, AppliedInv
  <2>3. CASE LateStep \/ StillRun
    BY <1>1, <2>3 DEF LateStep, StillRun, ReasonsInv
  <2> QED
    BY <2>1, <2>2, <2>3, Phases DEF ReaderInv
<1> QED
  BY <1>2, <1>3, <1>4 DEF ReasonsInv

LEMMA AlwaysReasons == Spec => []ReasonsInv
<1>1. Init => ReasonsInv
  BY DEF Init, ReasonsInv
<1> QED
  BY <1>1, ReasonsStep, AlwaysReader, PTL DEF Spec

(* What is left of earlier runs among the incidents.                       *)
LEMMA LeftoverIncident ==
  ASSUME ReaderInv, ReasonsInv, pc = "report", NEW a \in scope
  PROVE  /\ VisibleIncidents(RebuildMarkers, a, TargetBoundary)
              \subseteq VisibleIncidents(markers, a, boundary)
         /\ \A m \in VisibleIncidents(markers, a, boundary)
                       \ VisibleIncidents(RebuildMarkers, a, TargetBoundary) :
              m.violations = "unreadable"
<1>1. VisibleRows(markers, a, boundary) = VisibleRows(RebuildMarkers, a, TargetBoundary)
  BY ViewIsPlan, RebuildViewIsPlan DEF View, Applied, Published
<1>2. boundary.zone = zone /\ boundary.contracts[ServiceOf[a]] = code[ServiceOf[a]]
  BY DEF ReaderInv, Settled, ScopeServices, Published
<1>3. /\ TargetBoundary.zone = zone
      /\ TargetBoundary.contracts[ServiceOf[a]] = code[ServiceOf[a]]
  BY ServiceOfAssumption DEF TargetBoundary, ScopeServices, ReaderInv, AppliedInv, TypeInv, TypeOK
<1>4. RebuildMarkers \subseteq markers
  BY DEF RebuildMarkers, ReaderInv, AppliedInv, NothingLeft, DoneIsMarked, Marked, Applied
<1>5. Entries(RebuildMarkers, a, TargetBoundary) \subseteq Entries(markers, a, boundary)
  BY <1>2, <1>3, <1>4 DEF Entries
<1>6. ASSUME NEW m \in Entries(markers, a, boundary), m.state = "rejected",
             m \notin Entries(RebuildMarkers, a, TargetBoundary)
      PROVE  m.violations = "unreadable"
  <2>1. /\ m \in markers /\ m.artifact = a /\ m.contract = code[ServiceOf[a]] /\ m.zone = zone
    BY <1>2 DEF Entries
  <2>2. PICK c \in planned : /\ c.artifact = a /\ c.version = m.version
                             /\ c.state # "superseded" => m = MarkerFor(c)
    BY <2>1, MarkerIsPlanned DEF Applied
  <2>3. ASSUME c.state # "superseded" PROVE FALSE
    <3>1. m \in RebuildMarkers
      BY <2>2, <2>3 DEF RebuildMarkers
    <3> QED
      BY <1>3, <1>6, <2>1, <3>1 DEF Entries
  <2>4. <<m.artifact, m.version, m.contract>> \in Accepted
    BY <2>1, <2>2, <2>3 DEF ReasonsInv
  <2>5. m.violations \in {"none", "contract", "unreadable"}
    BY <2>1 DEF ReaderInv, AppliedInv, TypeInv, TypeOK, Markers
  <2> QED
    BY <1>6, <2>1, <2>4, <2>5 DEF ReasonsInv
<1> QED
  BY <1>1, <1>5, <1>6 DEF VisibleIncidents

(***************************************************************************)
(* The same gate, for the incidents: the warehouse has all of a rebuild's, *)
(* and one it has beyond those is the leftover of an unreadable file,      *)
(* never of a contract, a crash or a migration. Without damage there is    *)
(* none, and the two are equal.                                            *)
(***************************************************************************)
THEOREM IncidentsAreRebuilt == Spec => []IncidentsMatchRebuild
<1>1. ReaderInv /\ ReasonsInv => IncidentsMatchRebuild
  <2> SUFFICES ASSUME ReaderInv, ReasonsInv, pc = "report", NEW a \in scope
               PROVE  LET seen == VisibleIncidents(markers, a, boundary)
                          built == VisibleIncidents(RebuildMarkers, a, TargetBoundary)
                      IN /\ built \subseteq seen
                         /\ \A m \in seen \ built : m.violations = "unreadable" /\ damages > 0
    BY DEF IncidentsMatchRebuild
  <2>1. \A m \in VisibleIncidents(markers, a, boundary) :
          m.violations = "unreadable" => damages # 0
    BY DEF VisibleIncidents, VisibleRows, Entries, ReasonsInv
  <2>2. damages \in Nat
    BY BoundsAssumption DEF ReaderInv, AppliedInv, TypeInv, TypeOK
  <2> QED
    BY <2>1, <2>2, LeftoverIncident
<1> QED
  BY <1>1, AlwaysReader, AlwaysReasons, PTL
=============================================================================
