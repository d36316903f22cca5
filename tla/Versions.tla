------------------------------ MODULE Versions ------------------------------
(***************************************************************************)
(* The pure part of src/fareline/m2/versions.py: which landed version of a *)
(* logical artifact is current, which publication markers a reader may     *)
(* see, and what moving the dataset-wide publication boundary requires.    *)
(* The state machine that calls these operators is module Publication.     *)
(*                                                                         *)
(* Identifiers are numbers, so that the string order the code sorts by     *)
(* (service, period, version id) is an order here too. A source version    *)
(* stands for its content hash; a contract for its fingerprint.            *)
(***************************************************************************)
EXTENDS Naturals, FiniteSets

CONSTANTS
  Artifacts,   \* logical artifacts: one (service, period, completeness) each
  Services,    \* the services the artifacts belong to
  ServiceOf,   \* the service of each artifact
  Contents,    \* source versions an artifact can ever have
  Contracts,   \* contract fingerprints that can ever be deployed
  Zones,       \* versions of the taxi zone lookup
  Accepted,    \* <<artifact, version, contract>>: the schema resolves
  MaxStamp     \* bound on the clock readings of published_at_utc

ASSUME IdentifiersAssumption ==
  /\ Artifacts \subseteq Nat
  /\ Services \subseteq Nat
  /\ Contents \subseteq Nat \ {0}
  /\ Zones \subseteq Nat \ {0}

ASSUME ServiceOfAssumption == ServiceOf \in [Artifacts -> Services]

ASSUME ContractsAssumption == "no contract" \notin Contracts

ASSUME AcceptedAssumption == Accepted \subseteq Artifacts \X Contents \X Contracts

ASSUME MaxStampAssumption == MaxStamp \in Nat \ {0}

(***************************************************************************)
(* Zero is the stamp of a version never landed, the version of an artifact *)
(* with no current version and the zone of a run that pins none.           *)
(***************************************************************************)
NoVersion == 0
NoZone == 0
NotLanded == 0
NoContract == "no contract"
NoBoundary == [zone |-> NoZone, contracts |-> [s \in Services |-> NoContract]]

Kinds == {"contracted", "quarantine", "incidents"}

Derivations == Artifacts \X Contents \X Contracts \X Zones

Boundaries ==
  [zone : Zones, contracts : [Services -> Contracts \cup {NoContract}]] \cup {NoBoundary}

Candidates ==
  [artifact : Artifacts, version : Contents, published : 1 .. MaxStamp,
   state : {"active", "superseded", "rejected"},
   violations : {"none", "contract", "unreadable"}]

Markers ==
  [artifact : Artifacts, version : Contents, contract : Contracts, zone : Zones,
   state : {"active", "rejected"}, violations : {"none", "contract", "unreadable"},
   published : 1 .. MaxStamp]

(***************************************************************************)
(* sort_key: publication time orders the history, the version id breaks    *)
(* ties.                                                                   *)
(***************************************************************************)
Newer(p, q) ==
  \/ p.published > q.published
  \/ p.published = q.published /\ p.version > q.version

(***************************************************************************)
(* What resolving one landed candidate against a contract reports. An      *)
(* unreadable file is a rejection like any other, with its own reason.     *)
(***************************************************************************)
Violations(a, v, contract, damaged) ==
  IF <<a, v>> \in damaged THEN "unreadable"
  ELSE IF <<a, v, contract>> \in Accepted THEN "none" ELSE "contract"

(***************************************************************************)
(* decide: the newest accepted manifest is active, the other accepted ones *)
(* superseded, and every version with a violation rejected.                *)
(***************************************************************************)
Decide(a, contract, stamps, damaged) ==
  LET landed == {v \in Contents : stamps[v] # NotLanded}
      Violated(v) == Violations(a, v, contract, damaged)
      accepted == {v \in landed : Violated(v) = "none"}
      Key(v) == [published |-> stamps[v], version |-> v]
      State(v) == IF v \notin accepted THEN "rejected"
                  ELSE IF \E w \in accepted : Newer(Key(w), Key(v))
                       THEN "superseded" ELSE "active"
  IN {[artifact |-> a, version |-> v, published |-> stamps[v],
       state |-> State(v), violations |-> Violated(v)] : v \in landed}

(* The version a set of candidates of one artifact makes current. *)
ActiveVersion(candidates) ==
  IF \E c \in candidates : c.state = "active"
  THEN (CHOOSE c \in candidates : c.state = "active").version
  ELSE NoVersion

DerivationOf(m) == <<m.artifact, m.version, m.contract, m.zone>>

(* known_artifacts: every artifact with a marker, whatever its context. *)
KnownArtifacts(markers) == {m.artifact : m \in markers}

(* The markers of an artifact written under the context a boundary names. *)
Entries(markers, a, boundary) ==
  {m \in markers : /\ m.artifact = a
                   /\ m.contract = boundary.contracts[ServiceOf[a]]
                   /\ m.zone = boundary.zone}

(* has_marker: any marker under the context, an active or a rejected one. *)
HasMarker(markers, a, boundary) == Entries(markers, a, boundary) # {}

Covered(markers, boundary) ==
  {a \in KnownArtifacts(markers) : HasMarker(markers, a, boundary)}

(* Mutant: the newest version id wins, whenever it was published.           *)
VisibleRowsById(markers, a, boundary) ==
  LET active == {m \in Entries(markers, a, boundary) : m.state = "active"}
  IN {m \in active : \A n \in active : n.version <= m.version}

(* Mutant: the first active marker of the context stays the visible one.    *)
VisibleRowsOldest(markers, a, boundary) ==
  LET active == {m \in Entries(markers, a, boundary) : m.state = "active"}
  IN {m \in active : \A n \in active : ~ Newer(m, n)}

(***************************************************************************)
(* visible_derivations: readers of the contracted and quarantine tables    *)
(* see the newest active marker of the context, readers of the incidents   *)
(* table that one and every rejected one.                                  *)
(***************************************************************************)
VisibleRows(markers, a, boundary) ==
  LET active == {m \in Entries(markers, a, boundary) : m.state = "active"}
  IN {m \in active : \A n \in active : ~ Newer(n, m)}

(* Mutant: rejections of every context stay visible.                        *)
VisibleIncidentsAnyContext(markers, a, boundary) ==
  VisibleRows(markers, a, boundary)
    \cup {m \in markers : m.artifact = a /\ m.state = "rejected"}

VisibleIncidents(markers, a, boundary) ==
  VisibleRows(markers, a, boundary)
    \cup {m \in Entries(markers, a, boundary) : m.state = "rejected"}

(***************************************************************************)
(* changed_dimensions: the zone lookup is one dimension of the whole       *)
(* dataset, each service's contract another. A boundary is compared only   *)
(* with a target that names a contract for the service.                    *)
(***************************************************************************)
ZoneChanged(previous, target) ==
  previous # NoBoundary /\ previous.zone # target.zone

ContractsChanged(previous, target) ==
  {s \in Services : /\ previous # NoBoundary
                    /\ target.contracts[s] # NoContract
                    /\ target.contracts[s] # previous.contracts[s]}

(* Mutant: only contract revisions make artifacts required.                 *)
RequiredIgnoringZone(markers, previous, target) ==
  {a \in KnownArtifacts(markers) :
     /\ ServiceOf[a] \in ContractsChanged(previous, target)
     /\ HasMarker(markers, a, previous)}

(* Mutant: what has to be covered is looked up under the target.            *)
RequiredUnderTarget(markers, previous, target) ==
  {a \in KnownArtifacts(markers) :
     /\ ZoneChanged(previous, target) \/ ServiceOf[a] \in ContractsChanged(previous, target)
     /\ HasMarker(markers, a, target)}

(***************************************************************************)
(* plan_transition: the affected artifacts the previous boundary published *)
(* must be published again, and those not covered are missing.             *)
(***************************************************************************)
Required(markers, previous, target) ==
  {a \in KnownArtifacts(markers) :
     /\ ZoneChanged(previous, target) \/ ServiceOf[a] \in ContractsChanged(previous, target)
     /\ HasMarker(markers, a, previous)}

Missing(markers, previous, target, covered) ==
  Required(markers, previous, target) \ covered
=============================================================================
