---------------------------- MODULE Publication ----------------------------
(***************************************************************************)
(* The publication protocol of Fareline's contracted slice: what           *)
(* src/fareline/m2/pipeline.py does, run after run, to one landing store   *)
(* and one warehouse. A run is one process: it lands the artifacts of its  *)
(* scope, decides which version of each is current, appends to three Delta *)
(* tables per service and contract, installs one immutable marker per      *)
(* derivation, moves the reader boundary, and appends to the ledger. It    *)
(* keeps its plan in memory only, and it can die between any two of those  *)
(* steps. There is one coordinator: runs do not overlap.                   *)
(***************************************************************************)
EXTENDS Versions

CONSTANTS
  Offered,       \* <<artifact, version, reading>>: what the source directory
                 \* may hold and what the clock may say when it is landed
  OfferedZones,  \* <<version, reading>>: the same for the zone lookup
  Deployed,      \* the contract of each service in the first deployment
  MaxCrashes,    \* bound on runs that die at an arbitrary step
  MaxRevisions,  \* bound on contract deployments
  MaxDamages,    \* bound on landed files that become unreadable
  MaxEvents      \* bound on crashes, deployments and damages together

ASSUME OfferedAssumption ==
  /\ Offered \subseteq Artifacts \X Contents \X (1 .. MaxStamp)
  /\ OfferedZones \subseteq Zones \X (1 .. MaxStamp)

ASSUME DeployedAssumption == Deployed \in [Services -> Contracts]

ASSUME BoundsAssumption ==
  MaxCrashes \in Nat /\ MaxRevisions \in Nat /\ MaxDamages \in Nat /\ MaxEvents \in Nat

VARIABLES
  \* The landing store, the deployed code and the warehouse survive a crash.
  manifest,      \* published_at_utc of each landed version, per artifact
  damaged,       \* landed versions whose file cannot be read
  zoneManifest,  \* published_at_utc of each landed zone lookup version
  code,          \* the contract the deployed code has for each service
  layout,        \* whether publication_layout.json is installed
  tables,        \* commits of the Delta tables: one per transaction id
  markers,       \* publication_catalog/
  boundary,      \* publication_boundary.json
  ledger,        \* the latest version_ledger.jsonl event of each version
  ledgerState,   \* what replaying the whole ledger says is active
  \* The memory of the run in progress, lost by a crash.
  pc,            \* its next step, or "idle" when no run is in progress
  scope,         \* the artifacts it was asked for
  zone,          \* the zone lookup it was pinned to, then the one it loaded
  toLand,        \* requested artifacts still to acquire
  planned,       \* the candidates of every requested artifact
  todo,          \* candidates the current pass has still to apply
  pass,          \* "incremental", then "replay"
  \* How much of each bound has been used.
  crashes, revisions, damages

\* The landing store as readers of it may rely on it; Landing implements it.
Store == INSTANCE LandingStore

landing == <<manifest, damaged, zoneManifest>>
warehouse == <<layout, tables, markers, boundary>>
audit == <<ledger, ledgerState>>
run == <<scope, zone, toLand, planned, todo, pass>>
budget == <<crashes, revisions, damages>>
vars == <<landing, code, warehouse, audit, pc, run, budget>>

NoEvent == [action |-> "none", contract |-> NoContract, by |-> NoVersion, violations |-> "none"]

Events ==
  [action : {"none", "activated", "superseded", "rejected"},
   contract : Contracts \cup {NoContract}, by : Contents \cup {NoVersion},
   violations : {"none", "contract", "unreadable"}]

Commits == [kind : Kinds, derivation : Derivations, content : {"split", "refusal"}]

Steps ==
  {"idle", "land", "land zone", "load zone", "scope", "plan", "layout", "prior state",
   "next item", "contracted", "quarantine", "incidents", "marker", "boundary",
   "ledger", "measure", "rebuild", "report"}

TypeOK ==
  /\ manifest \in [Artifacts -> [Contents -> 0 .. MaxStamp]]
  /\ damaged \subseteq Artifacts \X Contents
  /\ zoneManifest \in [Zones -> 0 .. MaxStamp]
  /\ code \in [Services -> Contracts]
  /\ layout \in BOOLEAN
  /\ tables \subseteq Commits
  /\ markers \subseteq Markers
  /\ boundary \in Boundaries
  /\ ledger \in [Artifacts -> [Contents -> Events]]
  /\ ledgerState \in [Artifacts -> Contents \cup {NoVersion}]
  /\ pc \in Steps
  /\ scope \subseteq Artifacts
  /\ zone \in Zones \cup {NoZone}
  /\ toLand \subseteq scope
  /\ planned \subseteq Candidates
  /\ todo \subseteq planned
  /\ pass \in {"incremental", "replay"}
  /\ crashes \in 0 .. MaxCrashes
  /\ revisions \in 0 .. MaxRevisions
  /\ damages \in 0 .. MaxDamages

Init ==
  /\ manifest = [a \in Artifacts |-> [v \in Contents |-> NotLanded]]
  /\ damaged = {}
  /\ zoneManifest = [z \in Zones |-> NotLanded]
  /\ code = Deployed
  /\ layout = FALSE
  /\ tables = {} /\ markers = {} /\ boundary = NoBoundary
  /\ ledger = [a \in Artifacts |-> [v \in Contents |-> NoEvent]]
  /\ ledgerState = [a \in Artifacts |-> NoVersion]
  /\ pc = "idle" /\ scope = {} /\ zone = NoZone /\ toLand = {}
  /\ planned = {} /\ todo = {} /\ pass = "incremental"
  /\ crashes = 0 /\ revisions = 0 /\ damages = 0

-----------------------------------------------------------------------------
(* What the steps of a run compute from the durable state and its memory.  *)

ScopeServices == {ServiceOf[a] : a \in scope}

(* target_boundary: services out of scope keep the contract they have.     *)
TargetBoundary ==
  [zone |-> zone,
   contracts |-> [s \in Services |-> IF s \in ScopeServices THEN code[s]
                                     ELSE boundary.contracts[s]]]

(* check_layout refuses publication state with no layout marker.           *)
LayoutSupported == layout \/ (markers = {} /\ boundary = NoBoundary)

(* Mutant: a marker under any context counts as coverage.                   *)
ScopeCompleteAnyContext ==
  Missing(markers, boundary, TargetBoundary, KnownArtifacts(markers) \cup scope) = {}

(* check_publication_scope counts what has a marker under the target and   *)
(* what the run was asked for.                                             *)
ScopeComplete ==
  Missing(markers, boundary, TargetBoundary, Covered(markers, TargetBoundary) \cup scope) = {}

(* settle_boundary counts only what has a marker under the target.         *)
CoverageComplete ==
  Missing(markers, boundary, TargetBoundary, Covered(markers, TargetBoundary)) = {}

Derivation(c) == <<c.artifact, c.version, code[ServiceOf[c.artifact]], zone>>

MarkerFor(c) ==
  [artifact |-> c.artifact, version |-> c.version,
   contract |-> code[ServiceOf[c.artifact]], zone |-> zone,
   state |-> c.state, violations |-> c.violations, published |-> c.published]

(* Items are applied by service, then period, then version id.             *)
Before(c, d) ==
  LET s == ServiceOf[c.artifact]
      t == ServiceOf[d.artifact]
  IN \/ s < t
     \/ s = t /\ c.artifact < d.artifact
     \/ s = t /\ c.artifact = d.artifact /\ c.version < d.version

IsNext(c) == c \in todo /\ \A d \in todo \ {c} : Before(c, d)

MarkerExists(c) == \E m \in markers : DerivationOf(m) = Derivation(c)

Conflicts(c) ==
  \E m \in markers : DerivationOf(m) = Derivation(c) /\ m # MarkerFor(c)

(* A Delta table exists once anything has been committed to it.            *)
TableExists(kind, s, contract) ==
  \E t \in tables : /\ t.kind = kind
                    /\ ServiceOf[t.derivation[1]] = s
                    /\ t.derivation[3] = contract

AllTablesExist(s, contract) == \A kind \in Kinds : TableExists(kind, s, contract)

(* published_state skips services that have no contracted table under the  *)
(* boundary and measures all three tables of the others.                   *)
PriorStateReadable ==
  \A s \in ScopeServices :
    TableExists("contracted", s, boundary.contracts[s]) => AllTablesExist(s, boundary.contracts[s])

WarehouseMeasurable == \A s \in ScopeServices : AllTablesExist(s, code[s])

(* The rebuild starts from an empty root, so it holds the markers and the  *)
(* tables this plan alone gives rise to.                                   *)
RebuildMarkers == {MarkerFor(c) : c \in {d \in planned : d.state # "superseded"}}

RebuildMeasurable ==
  \A s \in ScopeServices :
    \E c \in planned : ServiceOf[c.artifact] = s /\ c.state = "active"

(* write_partition: a transaction id already in the log is not written     *)
(* again, whatever the frame holds this time.                              *)
Append(kind, c) ==
  IF \E t \in tables : t.kind = kind /\ t.derivation = Derivation(c)
  THEN tables
  ELSE tables \cup {[kind |-> kind, derivation |-> Derivation(c),
                     content |-> IF c.state = "active" THEN "split" ELSE "refusal"]}

-----------------------------------------------------------------------------
(* The steps of a run.                                                     *)

Goto(step) ==
  /\ pc' = step
  /\ UNCHANGED budget

(* The process is gone: only the landing store and the warehouse remain.   *)
EndRun ==
  /\ pc' = "idle" /\ scope' = {} /\ zone' = NoZone /\ toLand' = {}
  /\ planned' = {} /\ todo' = {} /\ pass' = "incremental"

(* The run ends, by an exception or with its report, and writes no more.   *)
Exit ==
  /\ EndRun
  /\ UNCHANGED <<landing, code, warehouse, audit, budget>>

(* The operator asks for some artifacts and may name a zone lookup; without *)
(* one the run is pinned to the lookup of the boundary, if there is one.    *)
Start(requested, zoneOption) ==
  /\ pc = "idle"
  /\ LayoutSupported
  /\ Goto("land")
  /\ scope' = requested
  /\ toLand' = requested
  /\ zone' = IF zoneOption # NoZone THEN zoneOption ELSE boundary.zone
  /\ UNCHANGED <<landing, code, warehouse, audit, planned, todo, pass>>

(* Acquire what the source holds for one artifact. The zone lookup is      *)
(* acquired after the first artifact.                                      *)
LandArtifact(a, v, now) ==
  /\ pc = "land"
  /\ a \in toLand /\ <<a, v, now>> \in Offered
  /\ Store!Acquire(a, v, now)
  /\ toLand' = toLand \ {a}
  /\ Goto(IF toLand = scope THEN "land zone"
          ELSE IF toLand = {a} THEN "load zone" ELSE "land")
  /\ UNCHANGED <<zoneManifest, code, warehouse, audit, scope, zone, planned, todo, pass>>

LandZone(z, now) ==
  /\ pc = "land zone"
  /\ <<z, now>> \in OfferedZones
  /\ zoneManifest' = [zoneManifest EXCEPT ![z] = IF @ = NotLanded THEN now ELSE @]
  /\ Goto(IF toLand = {} THEN "load zone" ELSE "land")
  /\ UNCHANGED <<manifest, damaged, code, warehouse, audit, run>>

(* zones.load: a pinned version has to be landed; without a pin the newest  *)
(* one is taken.                                                            *)
ZoneKey(z) == [published |-> zoneManifest[z], version |-> z]

LoadZone ==
  /\ pc = "load zone"
  /\ \E z \in Zones :
       /\ zoneManifest[z] # NotLanded
       /\ IF zone # NoZone THEN z = zone
          ELSE \A y \in Zones \ {z} : Newer(ZoneKey(z), ZoneKey(y))
       /\ zone' = z
  /\ Goto("scope")
  /\ UNCHANGED <<landing, code, warehouse, audit, scope, toLand, planned, todo, pass>>

RefuseZone ==
  /\ pc = "load zone"
  /\ zone # NoZone /\ zoneManifest[zone] = NotLanded
  /\ Exit

CheckScope ==
  /\ pc = "scope"
  /\ ScopeComplete
  /\ Goto("plan")
  /\ UNCHANGED <<landing, code, warehouse, audit, run>>

(* A migration this scope could not complete ends the run before a write.  *)
RefuseScope ==
  /\ pc = "scope"
  /\ ~ ScopeComplete
  /\ Exit

(* Mutant: every artifact with a landed version is planned.                 *)
PlanEverything ==
  /\ pc = "plan"
  /\ planned' = UNION {Decide(a, code[ServiceOf[a]], manifest[a], damaged) : a \in Artifacts}
  /\ Goto("layout")
  /\ UNCHANGED <<landing, code, warehouse, audit, scope, zone, toLand, todo, pass>>

(* Resolve every landed candidate of the scope and decide its state.       *)
Plan ==
  /\ pc = "plan"
  /\ planned' = UNION {Decide(a, code[ServiceOf[a]], manifest[a], damaged) : a \in scope}
  /\ Goto("layout")
  /\ UNCHANGED <<landing, code, warehouse, audit, scope, zone, toLand, todo, pass>>

(* Mutant: the layout is identified once a boundary exists.                 *)
PrepareLayoutAfterBoundary ==
  /\ pc = "layout"
  /\ layout' = (layout \/ boundary # NoBoundary)
  /\ Goto("prior state")
  /\ UNCHANGED <<landing, code, tables, markers, boundary, audit, run>>

PrepareLayout ==
  /\ pc = "layout"
  /\ layout' = TRUE
  /\ Goto("prior state")
  /\ UNCHANGED <<landing, code, tables, markers, boundary, audit, run>>

(* Measure what the boundary exposed before this run writes.               *)
PriorState ==
  /\ pc = "prior state"
  /\ PriorStateReadable
  /\ todo' = planned
  /\ Goto("next item")
  /\ UNCHANGED <<landing, code, warehouse, audit, scope, zone, toLand, planned, pass>>

RefusePriorState ==
  /\ pc = "prior state"
  /\ ~ PriorStateReadable
  /\ Exit

(* Mutant: what is not active is written and marked like a rejection.       *)
NextItemMarkingSuperseded(c) ==
  /\ pc = "next item"
  /\ IsNext(c)
  /\ todo' = todo
  /\ Goto(IF MarkerExists(c) THEN "marker"
          ELSE IF c.state = "active" THEN "contracted" ELSE "incidents")
  /\ UNCHANGED <<landing, code, warehouse, audit, scope, zone, toLand, planned, pass>>

(* Mutant: rows already in the contracted table are taken as written.       *)
NextItemTrustingRows(c) ==
  /\ pc = "next item"
  /\ IsNext(c)
  /\ \/ /\ c.state = "superseded"
        /\ todo' = todo \ {c}
        /\ Goto("next item")
     \/ /\ c.state # "superseded"
        /\ todo' = todo
        /\ Goto(IF \E t \in tables : t.kind = "contracted" /\ t.derivation = Derivation(c)
                THEN "marker"
                ELSE IF c.state = "active" THEN "contracted" ELSE "incidents")
  /\ UNCHANGED <<landing, code, warehouse, audit, scope, zone, toLand, planned, pass>>

(* apply_plan, one candidate at a time. A derivation whose marker exists    *)
(* has nothing to write; a superseded version is neither written nor marked. *)
NextItem(c) ==
  /\ pc = "next item"
  /\ IsNext(c)
  /\ \/ /\ c.state = "superseded"
        /\ todo' = todo \ {c}
        /\ Goto("next item")
     \/ /\ c.state # "superseded"
        /\ todo' = todo
        /\ Goto(IF MarkerExists(c) THEN "marker"
                ELSE IF c.state = "active" THEN "contracted" ELSE "incidents")
  /\ UNCHANGED <<landing, code, warehouse, audit, scope, zone, toLand, planned, pass>>

Write(c, kind, next) ==
  /\ pc = kind
  /\ IsNext(c)
  /\ tables' = Append(kind, c)
  /\ Goto(next)
  /\ UNCHANGED <<landing, code, layout, markers, boundary, audit, run>>

WriteContracted(c) == Write(c, "contracted", "quarantine")
WriteQuarantine(c) == Write(c, "quarantine", "incidents")
WriteIncidents(c) == Write(c, "incidents", "marker")

(* Mutant: a marker that disagrees is replaced.                             *)
PublishMarkerReplacing(c) ==
  /\ pc = "marker"
  /\ IsNext(c)
  /\ markers' = {m \in markers : DerivationOf(m) # Derivation(c)} \cup {MarkerFor(c)}
  /\ todo' = todo \ {c}
  /\ Goto("next item")
  /\ UNCHANGED <<landing, code, layout, tables, boundary, audit,
                 scope, zone, toLand, planned, pass>>

(* The marker is the last write of a derivation. One that already holds    *)
(* these exact bytes is left alone.                                        *)
PublishMarker(c) ==
  /\ pc = "marker"
  /\ IsNext(c)
  /\ ~ Conflicts(c)
  /\ markers' = markers \cup {MarkerFor(c)}
  /\ todo' = todo \ {c}
  /\ Goto("next item")
  /\ UNCHANGED <<landing, code, layout, tables, boundary, audit,
                 scope, zone, toLand, planned, pass>>

(* Mutant: a marker that disagrees is kept and the run goes on.             *)
SkipMarker(c) ==
  /\ pc = "marker"
  /\ IsNext(c)
  /\ Conflicts(c)
  /\ todo' = todo \ {c}
  /\ Goto("next item")
  /\ UNCHANGED <<landing, code, warehouse, audit, scope, zone, toLand, planned, pass>>

(* PublicationMarkerConflict: the derivation was marked as something else. *)
RefuseMarker(c) ==
  /\ pc = "marker"
  /\ IsNext(c)
  /\ Conflicts(c)
  /\ Exit

EndPass ==
  /\ pc = "next item"
  /\ todo = {}
  /\ Goto(IF pass = "incremental" THEN "boundary" ELSE "ledger")
  /\ UNCHANGED <<landing, code, warehouse, audit, run>>

(* settle_boundary: install the target once nothing is missing under it.   *)
SettleBoundary ==
  /\ pc = "boundary"
  /\ CoverageComplete
  /\ boundary' = TargetBoundary
  /\ Goto("ledger")
  /\ UNCHANGED <<landing, code, layout, tables, markers, audit, run>>

-----------------------------------------------------------------------------
(* The ledger: reconcile appends an event for every candidate whose latest  *)
(* event says something else, newest version first, and state() replays     *)
(* them.                                                                    *)

Candidate(a) == {c \in planned : c.artifact = a}

(* Mutant: the successor is named only while its own activation is new.     *)
EventForNewSuccessor(c) ==
  LET active == ActiveVersion(Candidate(c.artifact))
  IN [action |-> IF c.state = "active" THEN "activated" ELSE c.state,
      contract |-> code[ServiceOf[c.artifact]],
      by |-> IF c.state = "superseded" /\ ledger[c.artifact][active].action # "activated"
             THEN active ELSE NoVersion,
      violations |-> c.violations]

(* A contract is its fingerprint here. The code's event names its version,  *)
(* which says the same as long as every revision is given a new one.        *)
EventFor(c) ==
  [action |-> IF c.state = "active" THEN "activated" ELSE c.state,
   contract |-> code[ServiceOf[c.artifact]],
   by |-> IF c.state = "superseded" THEN ActiveVersion(Candidate(c.artifact)) ELSE NoVersion,
   violations |-> c.violations]

NewEvents(a) == {c \in Candidate(a) : ledger[a][c.version] # EventFor(c)}

Recorded(a) ==
  [v \in Contents |->
     IF \E c \in Candidate(a) : c.version = v
     THEN EventFor(CHOOSE c \in Candidate(a) : c.version = v)
     ELSE ledger[a][v]]

(* Mutant: any supersession or rejection clears the active version.         *)
ReplayedClearing(a) ==
  IF \E c \in NewEvents(a) : c.state # "active" THEN NoVersion
  ELSE IF \E c \in NewEvents(a) : c.state = "active" THEN ActiveVersion(NewEvents(a))
  ELSE ledgerState[a]

(* Replaying the appended events: an activation sets the version, and the   *)
(* events of older versions that follow it leave it set.                    *)
Replayed(a) ==
  IF \E c \in NewEvents(a) : c.state = "active" THEN ActiveVersion(NewEvents(a))
  ELSE IF \E c \in NewEvents(a) : c.version = ledgerState[a] THEN NoVersion
  ELSE ledgerState[a]

Reconcile ==
  /\ pc = "ledger"
  /\ ledger' = [a \in Artifacts |-> Recorded(a)]
  /\ ledgerState' = [a \in Artifacts |-> Replayed(a)]
  /\ Goto(IF pass = "incremental" THEN "measure" ELSE "report")
  /\ UNCHANGED <<landing, code, warehouse, run>>

(* measure_tables raises for a service with a table that has no Delta log.  *)
Measure ==
  /\ pc = "measure"
  /\ WarehouseMeasurable
  /\ Goto("rebuild")
  /\ UNCHANGED <<landing, code, warehouse, audit, run>>

RefuseMeasure ==
  /\ pc = "measure"
  /\ ~ WarehouseMeasurable
  /\ Exit

(* Build the plan again from nothing, in another root, and measure it; then *)
(* apply it to the warehouse a second time.                                 *)
Rebuild ==
  /\ pc = "rebuild"
  /\ RebuildMeasurable
  /\ todo' = planned
  /\ pass' = "replay"
  /\ Goto("next item")
  /\ UNCHANGED <<landing, code, warehouse, audit, scope, zone, toLand, planned>>

RefuseRebuild ==
  /\ pc = "rebuild"
  /\ ~ RebuildMeasurable
  /\ Exit

(* The report is written and the process ends.                             *)
Report ==
  /\ pc = "report"
  /\ Exit

RunStep ==
  \/ \E a \in Artifacts, v \in Contents, now \in 1 .. MaxStamp : LandArtifact(a, v, now)
  \/ \E z \in Zones, now \in 1 .. MaxStamp : LandZone(z, now)
  \/ LoadZone \/ RefuseZone
  \/ CheckScope \/ RefuseScope
  \/ Plan \/ PrepareLayout
  \/ PriorState \/ RefusePriorState
  \/ \E c \in todo :
       \/ NextItem(c)
       \/ WriteContracted(c) \/ WriteQuarantine(c) \/ WriteIncidents(c)
       \/ PublishMarker(c) \/ RefuseMarker(c)
  \/ EndPass \/ SettleBoundary \/ Reconcile
  \/ Measure \/ RefuseMeasure
  \/ Rebuild \/ RefuseRebuild
  \/ Report

-----------------------------------------------------------------------------
(* What happens to a run and around it.                                    *)

EventsLeft == crashes + revisions + damages < MaxEvents

(* A step raises or the process is killed: an acquisition is rejected, a    *)
(* Delta write fails, the host goes away.                                   *)
Crash ==
  /\ pc # "idle"
  /\ crashes < MaxCrashes /\ EventsLeft
  /\ crashes' = crashes + 1
  /\ EndRun
  /\ UNCHANGED <<landing, code, warehouse, audit, revisions, damages>>

(* A revision of the contract module, or its rollback, is deployed between  *)
(* two runs.                                                                *)
Deploy(s, contract) ==
  /\ pc = "idle"
  /\ revisions < MaxRevisions /\ EventsLeft
  /\ contract # code[s]
  /\ code' = [code EXCEPT ![s] = contract]
  /\ revisions' = revisions + 1
  /\ UNCHANGED <<landing, warehouse, audit, pc, run, crashes, damages>>

(* A landed file can no longer be read. After the plan is made the run in  *)
(* progress no longer looks (reading the active version's file fails like  *)
(* any write).                                                             *)
Damage(a, v) ==
  /\ planned = {}
  /\ damages < MaxDamages /\ EventsLeft
  /\ Store!Damage(a, v)
  /\ damages' = damages + 1
  /\ UNCHANGED <<zoneManifest, code, warehouse, audit, pc, run, crashes, revisions>>

Next ==
  \/ \E requested \in (SUBSET Artifacts) \ {{}}, zoneOption \in Zones \cup {NoZone} :
       Start(requested, zoneOption)
  \/ RunStep
  \/ Crash
  \/ \E s \in Services, contract \in Contracts : Deploy(s, contract)
  \/ \E a \in Artifacts, v \in Contents : Damage(a, v)

Spec == Init /\ [][Next]_vars
=============================================================================
