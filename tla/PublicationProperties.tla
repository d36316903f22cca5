----------------------- MODULE PublicationProperties -----------------------
(***************************************************************************)
(* What a reader, an operator and an auditor may rely on while runs come,  *)
(* fail and are retried.                                                   *)
(***************************************************************************)
EXTENDS Publication

(* The derivation whose rows readers of one artifact see now.              *)
View(a) == VisibleRows(markers, a, boundary)

Committed(kind, d) == \E t \in tables : t.kind = kind /\ t.derivation = d

(***************************************************************************)
(* A crash between two Delta tables never exposes a half-written           *)
(* derivation: a marker says that everything its state needs is committed. *)
(***************************************************************************)
MarkerComplete ==
  \A m \in markers :
    /\ Committed("incidents", DerivationOf(m))
    /\ m.state = "active" => /\ Committed("contracted", DerivationOf(m))
                             /\ Committed("quarantine", DerivationOf(m))

(***************************************************************************)
(* Why MarkerComplete holds. Past the load of the zone lookup a run has    *)
(* one; it has items only once its plan is made; an item that is being     *)
(* written or marked is not superseded; its tables have been committed in  *)
(* order, each before the next is begun; and a run that finds a marker in  *)
(* place either agrees with it, and it is complete, or is about to be      *)
(* refused.                                                                *)
(***************************************************************************)
ZoneLoaded ==
  pc \notin {"idle", "land", "land zone", "load zone"} => zone # NoZone

NotBegun ==
  pc \in {"idle", "land", "land zone", "load zone", "scope", "plan", "layout", "prior state"} =>
    todo = {}

NextIsWritten ==
  pc \in {"contracted", "quarantine", "incidents", "marker"} =>
    \A c \in todo : IsNext(c) => c.state # "superseded"

WrittenInOrder ==
  \A c \in todo : IsNext(c) =>
    /\ pc = "quarantine" => Committed("contracted", Derivation(c))
    /\ pc = "incidents" /\ c.state = "active" =>
         Committed("contracted", Derivation(c)) /\ Committed("quarantine", Derivation(c))
    /\ pc = "marker" /\ ~ Conflicts(c) =>
         /\ Committed("incidents", Derivation(c))
         /\ c.state = "active" => /\ Committed("contracted", Derivation(c))
                                 /\ Committed("quarantine", Derivation(c))

MarkerInv ==
  /\ TypeOK
  /\ ZoneLoaded
  /\ NotBegun
  /\ NextIsWritten
  /\ WrittenInOrder
  /\ MarkerComplete

(***************************************************************************)
(* However early a first publication died, what it left behind is          *)
(* recognised as this layout, and check_layout lets the retry start.       *)
(***************************************************************************)
LayoutBeforeData ==
  tables # {} \/ markers # {} \/ boundary # NoBoundary => layout

(* Why it holds: the layout is installed before the steps that write.       *)
LayoutInstalled ==
  pc \in {"prior state", "next item", "contracted", "quarantine", "incidents", "marker",
          "boundary", "ledger", "measure", "rebuild", "report"} => layout

(***************************************************************************)
(* The scope check made before the first write is not overtaken by what    *)
(* the run does next: when the run reaches settle_boundary, every artifact *)
(* it promised to cover has its marker.                                    *)
(***************************************************************************)
SettlingNeverRefused == pc = "boundary" => CoverageComplete

(***************************************************************************)
(* settle_boundary runs before the tables are measured, so a run can fail  *)
(* with the publication already moved, which the documents deny (see       *)
(* FailedRunKeepsBoundary below). What the code does keep: whatever        *)
(* earlier runs left half written, measuring fails only for a run that     *)
(* found no acceptable version of one of the services it was asked for.    *)
(***************************************************************************)
LateFailureMeansUnaccepted ==
  pc = "measure" /\ ~ WarehouseMeasurable =>
    \E s \in ScopeServices :
      \A c \in planned : ServiceOf[c.artifact] = s => c.state # "active"

(***************************************************************************)
(* The gate incremental_matches_rebuild, for the rows: what readers of the *)
(* warehouse see of a requested artifact is what a build from nothing      *)
(* would show them.                                                        *)
(***************************************************************************)
RowsMatchRebuild ==
  pc = "report" =>
    \A a \in scope : View(a) = VisibleRows(RebuildMarkers, a, TargetBoundary)

(***************************************************************************)
(* The same gate, for the incidents, which rejected derivations stay in.   *)
(* The one difference there can be is of a version that was refused while  *)
(* its file could not be read: repaired and superseded, it keeps its       *)
(* rejection in the warehouse, and a build from nothing does not have it.  *)
(***************************************************************************)
IncidentsMatchRebuild ==
  pc = "report" =>
    \A a \in scope :
      LET seen == VisibleIncidents(markers, a, boundary)
          built == VisibleIncidents(RebuildMarkers, a, TargetBoundary)
      IN /\ built \subseteq seen
         /\ \A m \in seen \ built : m.violations = "unreadable" /\ damages > 0

(***************************************************************************)
(* The ledger never claims an activation that was not exposed: a version   *)
(* whose latest event is "activated" has an active marker under the        *)
(* contract the event names, even if the run died right after it.          *)
(***************************************************************************)
LedgerClaimsExposed ==
  \A a \in Artifacts, v \in Contents :
    ledger[a][v].action = "activated" =>
      \E m \in markers : /\ m.artifact = a /\ m.version = v
                         /\ m.contract = ledger[a][v].contract
                         /\ m.state = "active"

(***************************************************************************)
(* However many runs died before they could reconcile, the next one that   *)
(* does brings the replayed ledger to what readers now see.                *)
(***************************************************************************)
LedgerMatchesView ==
  pc \in {"measure", "report"} =>
    \A a \in scope : /\ ledgerState[a] = NoVersion => View(a) = {}
                     /\ \A m \in View(a) : m.version = ledgerState[a]

(***************************************************************************)
(* No period falls out of the context readers are on: an artifact with a   *)
(* marker under the boundary has one under every boundary that follows.    *)
(***************************************************************************)
CoverageKept ==
  [][\A a \in Artifacts :
       HasMarker(markers, a, boundary) => HasMarker(markers', a, boundary')]_vars

(***************************************************************************)
(* While the boundary stays where it is, an artifact that is visible stays *)
(* visible and never goes back to an older version.                        *)
(***************************************************************************)
ViewMonotone ==
  [][boundary' = boundary =>
       \A a \in Artifacts : \A m \in View(a) :
         \E n \in View(a)' : n = m \/ Newer(n, m)]_vars

(***************************************************************************)
(* A run changes what readers see of an artifact it was not asked for only *)
(* by moving the boundary.                                                 *)
(***************************************************************************)
OthersUntouched ==
  [][\A a \in Artifacts \ scope : boundary' = boundary => View(a)' = View(a)]_vars

(***************************************************************************)
(* Applying a plan a second time adds no commit, no marker and no event.   *)
(***************************************************************************)
ReplayWritesNothing ==
  [][pass = "replay" => UNCHANGED <<warehouse, audit>>]_vars

(***************************************************************************)
(* Fairness: a started process keeps going, and the operator's schedule    *)
(* runs the whole slice without options again and again.                   *)
(***************************************************************************)
FairSpec ==
  /\ Spec
  /\ WF_vars(RunStep)
  /\ SF_vars(Start(Artifacts, NoZone))

(* Readers of every artifact are on the version decide would choose now.   *)
Current ==
  \A a \in Artifacts : \E m \in View(a) :
    m.version = ActiveVersion(Decide(a, code[ServiceOf[a]], manifest[a], damaged))

(***************************************************************************)
(* While the contracts accept every version and every landed file can be   *)
(* read, runs that died anywhere, runs refused because their scope could   *)
(* not complete a migration or their lookup was not landed, and moves      *)
(* between lookups never keep readers away for good: the scheduled runs    *)
(* bring them to the newest version of every artifact. It is not claimed   *)
(* of refused or damaged versions: RetryReachesWrites and                  *)
(* UnreadableDoesNotStopRun show states no later run gets out of.          *)
(***************************************************************************)
AlwaysCurrentAgain == []<>Current

-----------------------------------------------------------------------------
(* What the documentation promises and the code does not keep.             *)

(***************************************************************************)
(* "A failed run cannot move the publication boundary": the boundary is    *)
(* moved only by a run that will be able to measure its tables. Nothing is *)
(* written in between, so a run that moves it without them fails.          *)
(***************************************************************************)
FailedRunKeepsBoundary == [][boundary' # boundary => WarehouseMeasurable]_vars

(* "A retry completes the other writes and then publishes the marker."     *)
RetryReachesWrites == pc = "prior state" => PriorStateReadable

(***************************************************************************)
(* "A candidate nobody can describe must not stop the other artifacts of   *)
(* the run."                                                               *)
(***************************************************************************)
UnreadableDoesNotStopRun ==
  pc = "marker" => \A c \in todo : IsNext(c) => ~ Conflicts(c)

(***************************************************************************)
(* "A derivation becomes visible only after its contracted, quarantine and *)
(* incident writes have completed": the incidents beside the rows of an    *)
(* active marker are those of the same split.                              *)
(***************************************************************************)
IncidentsBelongToRows ==
  \A m \in markers : m.state = "active" =>
    \E t \in tables : /\ t.kind = "incidents" /\ t.derivation = DerivationOf(m)
                      /\ t.content = "split"
=============================================================================
