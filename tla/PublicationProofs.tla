------------------------- MODULE PublicationProofs -------------------------
(***************************************************************************)
(* Proofs about the publication protocol, for every set of artifacts,      *)
(* services, versions, contracts and zones and every bound: types, the     *)
(* completeness of markers, the layout identity, and the coverage of the   *)
(* boundary.                                                               *)
(***************************************************************************)
EXTENDS PublicationProperties, FiniteSetTheorems, TLAPS

USE DEF NoZone, NoVersion, NotLanded, NoContract

(***************************************************************************)
(* Lemmas about the operators.                                             *)
(***************************************************************************)

(* The plan of one artifact is made of well-formed candidates.             *)
LEMMA DecideType ==
  ASSUME NEW a \in Artifacts, NEW contract,
         NEW stamps \in [Contents -> 0 .. MaxStamp], NEW unreadable
  PROVE  Decide(a, contract, stamps, unreadable) \subseteq Candidates
<1> DEFINE landed == {v \in Contents : stamps[v] # NotLanded}
           Violated(v) == Violations(a, v, contract, unreadable)
           accepted == {v \in landed : Violated(v) = "none"}
           Key(v) == [published |-> stamps[v], version |-> v]
           State(v) == IF v \notin accepted THEN "rejected"
                       ELSE IF \E w \in accepted : Newer(Key(w), Key(v))
                            THEN "superseded" ELSE "active"
           Made(v) == [artifact |-> a, version |-> v, published |-> stamps[v],
                       state |-> State(v), violations |-> Violated(v)]
<1>1. Decide(a, contract, stamps, unreadable) = {Made(v) : v \in landed}
  BY DEF Decide
<1>2. ASSUME NEW v \in landed
      PROVE  Made(v) \in Candidates
  <2>1. stamps[v] \in 1 .. MaxStamp
    BY MaxStampAssumption
  <2>2. Violated(v) \in {"none", "contract", "unreadable"}
    BY DEF Violations
  <2>3. State(v) \in {"active", "superseded", "rejected"}
    OBVIOUS
  <2> HIDE DEF Violated, State, landed
  <2>4. v \in Contents
    BY DEF landed
  <2> QED
    BY <2>1, <2>2, <2>3, <2>4 DEF Candidates
<1> HIDE DEF Made, landed
<1> QED
  BY <1>1, <1>2

(***************************************************************************)
(* Every finite nonempty set has an element that no other one precedes.    *)
(* What precedes one element shrinks from each to the next, and finite     *)
(* sets do not shrink for ever.                                            *)
(***************************************************************************)
LEMMA FirstExists ==
  ASSUME NEW S, IsFiniteSet(S), S # {}, NEW R,
         \A x, y, z \in S : <<x, y>> \in R /\ <<y, z>> \in R => <<x, z>> \in R,
         \A x \in S : <<x, x>> \notin R
  PROVE  \E x \in S : \A y \in S : <<y, x>> \notin R
<1> DEFINE Earlier(x) == {y \in S : <<y, x>> \in R}
           sets == {Earlier(x) : x \in S}
<1>1. sets \subseteq SUBSET S
  OBVIOUS
<1>2. sets # {}
  <2>1. \A x \in S : Earlier(x) \in sets
    OBVIOUS
  <2> HIDE DEF sets, Earlier
  <2> QED
    BY <2>1
<1>3. PICK least \in sets : \A T \in sets : <<T, least>> \notin StrictSubsetOrdering(S)
  <2> HIDE DEF sets
  <2>1. sets \subseteq FiniteSubsetsOf(S)
    BY <1>1, FS_FiniteSubsetsOfFinite
  <2> QED
    BY <1>2, <2>1, FS_StrictSubsetOrderingWellFounded, WFMin
<1>4. PICK x \in S : least = Earlier(x)
  OBVIOUS
<1>5. ASSUME NEW y \in S, <<y, x>> \in R PROVE FALSE
  <2>1. \A z \in S : <<z, y>> \in R => <<z, x>> \in R
    BY <1>5
  <2>2. Earlier(y) \subseteq Earlier(x)
    BY <2>1
  <2>3. y \in Earlier(x) /\ y \notin Earlier(y)
    BY <1>5
  <2>4. Earlier(y) \in sets /\ Earlier(x) \in sets
    OBVIOUS
  <2>5. <<Earlier(y), Earlier(x)>> \in StrictSubsetOrdering(S)
    <3> HIDE DEF Earlier, sets
    <3> QED
      BY <1>1, <2>2, <2>3, <2>4 DEF StrictSubsetOrdering
  <2> QED
    BY <1>3, <1>4, <2>4, <2>5
<1> QED
  BY <1>5

(* Versions are ordered strictly, and two that differ are ordered.         *)
LEMMA NewerIsOrder ==
  ASSUME NEW p, p.published \in Nat, p.version \in Nat,
         NEW q, q.published \in Nat, q.version \in Nat,
         NEW r, r.published \in Nat, r.version \in Nat
  PROVE  /\ ~ Newer(p, p)
         /\ Newer(p, q) /\ Newer(q, r) => Newer(p, r)
         /\ Newer(p, q) \/ Newer(q, p) \/ p.version = q.version
  BY DEF Newer

(* Of finitely many versions one is newer than every other.                *)
LEMMA NewestExists ==
  ASSUME NEW S \in SUBSET Contents, IsFiniteSet(S), S # {},
         NEW stamps \in [Contents -> 0 .. MaxStamp]
  PROVE  \E v \in S : \A w \in S \ {v} :
           Newer([published |-> stamps[v], version |-> v], [published |-> stamps[w], version |-> w])
<1> DEFINE Key(v) == [published |-> stamps[v], version |-> v]
           R == {x \in S \X S : Newer(Key(x[1]), Key(x[2]))}
<1>1. \A v \in S : Key(v).published \in Nat /\ Key(v).version \in Nat /\ Key(v).version = v
  BY IdentifiersAssumption, MaxStampAssumption
<1>2. \A x, y \in S : <<x, y>> \in R <=> Newer(Key(x), Key(y))
  OBVIOUS
<1> HIDE DEF Key, R
<1>3. /\ \A x, y, z \in S : <<x, y>> \in R /\ <<y, z>> \in R => <<x, z>> \in R
      /\ \A x \in S : <<x, x>> \notin R
  BY <1>1, <1>2, NewerIsOrder
<1>4. PICK v \in S : \A w \in S : <<w, v>> \notin R
  BY <1>3, FirstExists
<1>5. \A w \in S \ {v} : Newer(Key(v), Key(w))
  BY <1>1, <1>2, <1>4, NewerIsOrder
<1> QED
  BY <1>5 DEF Key

(* Markers and candidates are among them.                                  *)
LEMMA CandidateKey ==
  ASSUME NEW c \in Candidates
  PROVE  c.published \in Nat /\ c.version \in Nat
<1>1. c.published \in 1 .. MaxStamp /\ c.version \in Contents
  BY DEF Candidates
<1>2. c.published \in Nat
  BY <1>1, MaxStampAssumption
<1>3. c.version \in Nat
  BY <1>1, IdentifiersAssumption
<1> QED
  BY <1>2, <1>3

LEMMA MarkerKey ==
  ASSUME NEW m \in Markers
  PROVE  m.published \in Nat /\ m.version \in Nat
<1>1. m.published \in 1 .. MaxStamp /\ m.version \in Contents
  BY DEF Markers
<1>2. m.published \in Nat
  BY <1>1, MaxStampAssumption
<1>3. m.version \in Nat
  BY <1>1, IdentifiersAssumption
<1> QED
  BY <1>2, <1>3

(* What decide makes of the landed versions of one artifact.               *)
LEMMA DecideSound ==
  ASSUME NEW a, NEW contract, NEW stamps \in [Contents -> 0 .. MaxStamp], NEW unreadable,
         IsFiniteSet({v \in Contents : stamps[v] # NotLanded})
  PROVE  /\ \A v \in Contents : stamps[v] # NotLanded =>
              \E c \in Decide(a, contract, stamps, unreadable) : c.version = v
         /\ \A c \in Decide(a, contract, stamps, unreadable) :
              /\ c.published = stamps[c.version]
              /\ c.state = "superseded" =>
                   \E d \in Decide(a, contract, stamps, unreadable) :
                     d.state = "active" /\ Newer(d, c)
              /\ c.state = "rejected" <=> c.violations # "none"
              /\ c.violations = Violations(a, c.version, contract, unreadable)
         /\ \A c, d \in Decide(a, contract, stamps, unreadable) :
              c.state = "active" /\ d.state = "active" => c = d
<1> DEFINE D == Decide(a, contract, stamps, unreadable)
           landed == {v \in Contents : stamps[v] # NotLanded}
           Violated(v) == Violations(a, v, contract, unreadable)
           accepted == {v \in landed : Violated(v) = "none"}
           Key(v) == [published |-> stamps[v], version |-> v]
           State(v) == IF v \notin accepted THEN "rejected"
                       ELSE IF \E w \in accepted : Newer(Key(w), Key(v))
                            THEN "superseded" ELSE "active"
           Made(v) == [artifact |-> a, version |-> v, published |-> stamps[v],
                       state |-> State(v), violations |-> Violated(v)]
<1>1. D = {Made(v) : v \in landed}
  BY DEF Decide
<1>2. \A v : /\ Made(v).version = v /\ Made(v).published = stamps[v]
             /\ Made(v).state = State(v) /\ Made(v).violations = Violated(v)
             /\ Key(v).version = v /\ Key(v).published = stamps[v]
  BY Zenon
<1>3. \A v : /\ State(v) = "rejected" <=> v \notin accepted
             /\ State(v) = "superseded" <=>
                  v \in accepted /\ \E w \in accepted : Newer(Key(w), Key(v))
             /\ State(v) = "active" <=>
                  v \in accepted /\ ~ \E w \in accepted : Newer(Key(w), Key(v))
  <2> HIDE DEF accepted, Key
  <2> QED
    OBVIOUS
<1>4. \A p, q, r, s : p.published = r.published /\ p.version = r.version
                        /\ q.published = s.published /\ q.version = s.version =>
        (Newer(p, q) <=> Newer(r, s))
  BY DEF Newer
<1>5. \A v \in landed : Key(v).published \in Nat /\ Key(v).version \in Nat
  BY <1>2, IdentifiersAssumption, MaxStampAssumption
<1>6. accepted # {} => \E v \in accepted : \A w \in accepted \ {v} : Newer(Key(v), Key(w))
  <2>1. accepted \in SUBSET Contents /\ IsFiniteSet(accepted)
    BY FS_Subset
  <2> HIDE DEF accepted
  <2> QED
    BY <2>1, NewestExists
<1>7. /\ \A v \in accepted : v \in landed
      /\ \A v \in landed : v \in accepted <=> Violated(v) = "none"
  OBVIOUS
<1> HIDE DEF Made, landed, State, accepted, Key, D, Violated
<1>8. ASSUME NEW v \in landed, State(v) = "superseded"
      PROVE  \E w \in landed : State(w) = "active" /\ Newer(Key(w), Key(v))
  <2>1. PICK x \in accepted : Newer(Key(x), Key(v))
    BY <1>3, <1>8
  <2>2. PICK w \in accepted : \A y \in accepted \ {w} : Newer(Key(w), Key(y))
    BY <1>6, <2>1
  <2>3. State(w) = "active"
    <3>1. ASSUME NEW y \in accepted, Newer(Key(y), Key(w)) PROVE FALSE
      <4>1. Newer(Key(w), Key(y)) \/ y = w
        BY <2>2
      <4> QED
        BY <1>5, <1>7, <3>1, <4>1, NewerIsOrder
    <3> QED
      BY <1>3, <3>1
  <2>4. w # v
    BY <1>8, <2>3
  <2> QED
    BY <1>3, <1>7, <1>8, <2>2, <2>3, <2>4
<1>9. ASSUME NEW v \in landed, NEW w \in landed, State(v) = "active", State(w) = "active"
      PROVE  v = w
  BY <1>2, <1>3, <1>5, <1>9, NewerIsOrder
<1>10. ASSUME NEW c \in D
       PROVE  /\ c.published = stamps[c.version]
              /\ c.state = "superseded" => \E d \in D : d.state = "active" /\ Newer(d, c)
              /\ c.state = "rejected" <=> c.violations # "none"
              /\ c.violations = Violated(c.version)
  <2>1. PICK v \in landed : c = Made(v)
    BY <1>1
  <2>2. c.state = "superseded" => \E d \in D : d.state = "active" /\ Newer(d, c)
    <3> SUFFICES ASSUME c.state = "superseded"
                 PROVE  \E d \in D : d.state = "active" /\ Newer(d, c)
      OBVIOUS
    <3>1. PICK w \in landed : State(w) = "active" /\ Newer(Key(w), Key(v))
      BY <1>2, <1>8, <2>1
    <3>2. Made(w) \in D /\ Made(w).state = "active"
      BY <1>1, <1>2, <3>1
    <3>3. Newer(Made(w), c)
      BY <1>2, <1>4, <2>1, <3>1
    <3> QED
      BY <3>2, <3>3
  <2> QED
    BY <1>2, <1>3, <1>7, <2>1, <2>2
<1>11. ASSUME NEW c \in D, NEW d \in D, c.state = "active", d.state = "active"
       PROVE  c = d
  <2>1. PICK v \in landed : c = Made(v)
    BY <1>1
  <2>2. PICK w \in landed : d = Made(w)
    BY <1>1
  <2> QED
    BY <1>2, <1>9, <1>11, <2>1, <2>2
<1>12. \A v \in landed : \E c \in D : c.version = v
  BY <1>1, <1>2
<1> QED
  BY <1>10, <1>11, <1>12 DEF D, Violated, landed

(* Items are applied in one order only: at most one item is next.          *)
LEMMA NextIsUnique ==
  ASSUME todo \subseteq Candidates, NEW c, IsNext(c), NEW d, IsNext(d)
  PROVE  c = d
<1>1. SUFFICES ASSUME c # d PROVE FALSE
  OBVIOUS
<1>2. Before(c, d) /\ Before(d, c)
  BY <1>1 DEF IsNext
<1>3. c \in Candidates /\ d \in Candidates
  BY DEF IsNext
<1>4. /\ ServiceOf[c.artifact] \in Nat /\ ServiceOf[d.artifact] \in Nat
      /\ c.artifact \in Nat /\ d.artifact \in Nat
      /\ c.version \in Nat /\ d.version \in Nat
  BY <1>3, IdentifiersAssumption, ServiceOfAssumption DEF Candidates
<1> QED
  BY <1>2, <1>4 DEF Before

(* The derivation of a planned candidate is well-formed once a zone is     *)
(* loaded, and so is its marker unless the candidate is superseded.        *)
LEMMA DerivationType ==
  ASSUME TypeOK, zone # NoZone, NEW c \in Candidates
  PROVE  /\ Derivation(c) \in Derivations
         /\ c.state # "superseded" => MarkerFor(c) \in Markers
         /\ DerivationOf(MarkerFor(c)) = Derivation(c)
<1>1. /\ c.artifact \in Artifacts /\ c.version \in Contents
      /\ c.published \in 1 .. MaxStamp
      /\ c.state \in {"active", "superseded", "rejected"}
      /\ c.violations \in {"none", "contract", "unreadable"}
  BY DEF Candidates
<1>2. code[ServiceOf[c.artifact]] \in Contracts
  BY <1>1, ServiceOfAssumption DEF TypeOK
<1>3. zone \in Zones
  BY DEF TypeOK
<1> QED
  BY <1>1, <1>2, <1>3 DEF Derivation, Derivations, MarkerFor, Markers, DerivationOf

(* A commit adds at most its own transaction to the tables.                *)
LEMMA AppendType ==
  ASSUME TypeOK, zone # NoZone, NEW c \in Candidates, NEW kind \in Kinds
  PROVE  /\ Append(kind, c) \subseteq Commits
         /\ tables \subseteq Append(kind, c)
         /\ \E t \in Append(kind, c) : t.kind = kind /\ t.derivation = Derivation(c)
<1>1. Derivation(c) \in Derivations
  BY DerivationType
<1>2. tables \subseteq Commits
  BY DEF TypeOK
<1> DEFINE new == [kind |-> kind, derivation |-> Derivation(c),
                   content |-> IF c.state = "active" THEN "split" ELSE "refusal"]
<1>3. new \in Commits /\ new.kind = kind /\ new.derivation = Derivation(c)
  BY <1>1 DEF Commits
<1> QED
  BY <1>2, <1>3 DEF Append

(* Every boundary names a zone lookup and a contract, or none of them.     *)
LEMMA BoundaryType ==
  ASSUME TypeOK
  PROVE  /\ boundary.zone \in Zones \cup {NoZone}
         /\ boundary.contracts \in [Services -> Contracts \cup {NoContract}]
<1>1. boundary \in Boundaries
  BY DEF TypeOK
<1>2. CASE boundary = NoBoundary
  BY <1>2 DEF NoBoundary
<1>3. CASE boundary \in [zone : Zones, contracts : [Services -> Contracts \cup {NoContract}]]
  BY <1>3
<1> QED
  BY <1>1, <1>2, <1>3 DEF Boundaries

(* The boundary a run would move readers to is well-formed.                *)
LEMMA TargetType ==
  ASSUME TypeOK, zone # NoZone
  PROVE  /\ TargetBoundary \in Boundaries
         /\ TargetBoundary.zone = zone
         /\ \A s \in Services : TargetBoundary.contracts[s] =
              IF s \in ScopeServices THEN code[s] ELSE boundary.contracts[s]
         /\ TargetBoundary # NoBoundary
<1>1. boundary.contracts \in [Services -> Contracts \cup {NoContract}]
  BY BoundaryType
<1>2. code \in [Services -> Contracts] /\ zone \in Zones
  BY DEF TypeOK
<1>3. TargetBoundary.contracts \in [Services -> Contracts \cup {NoContract}]
  BY <1>1, <1>2 DEF TargetBoundary
<1> QED
  BY <1>2, <1>3 DEF TargetBoundary, Boundaries, NoBoundary

(* The event of a planned candidate is well-formed.                        *)
LEMMA ActiveVersionType ==
  ASSUME NEW S \in SUBSET Candidates
  PROVE  ActiveVersion(S) \in Contents \cup {NoVersion}
<1>1. CASE \E c \in S : c.state = "active"
  <2>1. (CHOOSE c \in S : c.state = "active") \in S
    BY <1>1
  <2> QED
    BY <1>1, <2>1 DEF ActiveVersion, Candidates
<1>2. CASE ~ \E c \in S : c.state = "active"
  BY <1>2 DEF ActiveVersion
<1> QED
  BY <1>1, <1>2

LEMMA EventType ==
  ASSUME TypeOK, NEW c \in planned
  PROVE  EventFor(c) \in Events
<1>1. c \in Candidates /\ Candidate(c.artifact) \in SUBSET Candidates
  BY DEF TypeOK, Candidate
<1>2. code[ServiceOf[c.artifact]] \in Contracts
  BY <1>1, ServiceOfAssumption DEF TypeOK, Candidates
<1>3. ActiveVersion(Candidate(c.artifact)) \in Contents \cup {NoVersion}
  BY <1>1, ActiveVersionType
<1> QED
  BY <1>1, <1>2, <1>3 DEF EventFor, Events, Candidates

-----------------------------------------------------------------------------
(***************************************************************************)
(* Types. What a run writes is well-formed because it has loaded a zone    *)
(* lookup by then and never writes a superseded candidate.                 *)
(***************************************************************************)

TypeInv == TypeOK /\ ZoneLoaded /\ NotBegun /\ NextIsWritten

(* The steps after which a run is working on one item.                     *)
Writing == {"contracted", "quarantine", "incidents", "marker"}

(* Nothing is known or in progress before the first run.                   *)
LEMMA InitTypeInv == Init => TypeInv
<1> SUFFICES ASSUME Init PROVE TypeInv
  OBVIOUS
<1>1. NoEvent \in Events /\ NoBoundary \in Boundaries
  BY DEF NoEvent, Events, Boundaries
<1>2. /\ manifest \in [Artifacts -> [Contents -> 0 .. MaxStamp]]
      /\ zoneManifest \in [Zones -> 0 .. MaxStamp]
  BY MaxStampAssumption DEF Init
<1>3. /\ ledger \in [Artifacts -> [Contents -> Events]]
      /\ ledgerState \in [Artifacts -> Contents \cup {NoVersion}]
  BY <1>1 DEF Init
<1>4. crashes \in 0 .. MaxCrashes /\ revisions \in 0 .. MaxRevisions /\ damages \in 0 .. MaxDamages
  BY BoundsAssumption DEF Init
<1>5. /\ code \in [Services -> Contracts] /\ layout \in BOOLEAN /\ boundary \in Boundaries
      /\ damaged = {} /\ tables = {} /\ markers = {} /\ scope = {} /\ toLand = {}
      /\ planned = {} /\ todo = {} /\ pc \in Steps /\ zone = NoZone
      /\ pass \in {"incremental", "replay"}
  BY <1>1, DeployedAssumption DEF Init, Steps
<1>6. TypeOK
  BY <1>2, <1>3, <1>4, <1>5 DEF TypeOK
<1> QED
  BY <1>6 DEF TypeInv, Init, ZoneLoaded, NotBegun, NextIsWritten

(* A run that ends leaves nothing of its memory behind.                    *)
LEMMA EndRunType ==
  ASSUME TypeOK, EndRun,
         UNCHANGED <<landing, code, warehouse, audit, revisions, damages>>,
         crashes' \in 0 .. MaxCrashes
  PROVE  TypeInv'
  BY DEF TypeOK, EndRun, Steps, landing, warehouse, audit,
         TypeInv, ZoneLoaded, NotBegun, NextIsWritten

LEMMA ExitType ==
  ASSUME TypeOK, Exit
  PROVE  TypeInv'
<1>1. crashes' \in 0 .. MaxCrashes
  BY DEF TypeOK, Exit, budget
<1> QED
  BY <1>1, EndRunType DEF Exit, budget

(* Acquiring artifacts, planning, and every step that only moves on.       *)
LEMMA AcquireType ==
  ASSUME TypeOK, NotBegun,
         \/ \E requested \in SUBSET Artifacts, zoneOption \in Zones \cup {NoZone} :
              Start(requested, zoneOption)
         \/ \E a \in Artifacts, v \in Contents, now \in 1 .. MaxStamp : LandArtifact(a, v, now)
         \/ \E z \in Zones, now \in 1 .. MaxStamp : LandZone(z, now)
         \/ LoadZone
  PROVE  TypeInv'
<1>1. ASSUME NEW requested \in SUBSET Artifacts, NEW zoneOption \in Zones \cup {NoZone},
             Start(requested, zoneOption)
      PROVE  TypeInv'
  <2>1. boundary.zone \in Zones \cup {NoZone}
    BY BoundaryType
  <2> QED
    BY <1>1, <2>1 DEF TypeOK, Start, Goto, Steps, landing, warehouse, audit, budget,
                      TypeInv, ZoneLoaded, NotBegun, NextIsWritten
<1>2. ASSUME NEW a \in Artifacts, NEW v \in Contents, NEW now \in 1 .. MaxStamp,
             LandArtifact(a, v, now)
      PROVE  TypeInv'
  <2>1. now \in 0 .. MaxStamp
    BY MaxStampAssumption
  <2>2. manifest' \in [Artifacts -> [Contents -> 0 .. MaxStamp]]
    BY <1>2, <2>1 DEF TypeOK, LandArtifact, Store!Acquire
  <2>3. pc' \in {"land", "land zone", "load zone"}
    BY <1>2 DEF LandArtifact, Goto
  <2> QED
    BY <1>2, <2>2, <2>3 DEF TypeOK, LandArtifact, Store!Acquire, Goto, Steps, warehouse, audit, budget,
                            TypeInv, ZoneLoaded, NotBegun, NextIsWritten
<1>3. ASSUME NEW z \in Zones, NEW now \in 1 .. MaxStamp, LandZone(z, now)
      PROVE  TypeInv'
  <2>1. now \in 0 .. MaxStamp
    BY MaxStampAssumption
  <2>2. zoneManifest' \in [Zones -> 0 .. MaxStamp]
    BY <1>3, <2>1 DEF TypeOK, LandZone
  <2>3. pc' \in {"land", "load zone"}
    BY <1>3 DEF LandZone, Goto
  <2> QED
    BY <1>3, <2>2, <2>3 DEF TypeOK, LandZone, Goto, Steps, warehouse, audit, budget, run,
                            TypeInv, ZoneLoaded, NotBegun, NextIsWritten
<1>4. ASSUME LoadZone
      PROVE  TypeInv'
  <2>1. zone' \in Zones /\ zone' # NoZone
    BY <1>4, IdentifiersAssumption DEF LoadZone
  <2> QED
    BY <1>4, <2>1 DEF TypeOK, LoadZone, Goto, Steps, landing, warehouse, audit, budget,
                      TypeInv, ZoneLoaded, NotBegun, NextIsWritten
<1> QED
  BY <1>1, <1>2, <1>3, <1>4

(* The plan of a scope is made of the plans of its artifacts.              *)
LEMMA PlanType ==
  ASSUME TypeInv, Plan
  PROVE  TypeInv'
<1>1. ASSUME NEW a \in scope
      PROVE  Decide(a, code[ServiceOf[a]], manifest[a], damaged) \subseteq Candidates
  <2>1. a \in Artifacts /\ manifest[a] \in [Contents -> 0 .. MaxStamp]
    BY DEF TypeInv, TypeOK
  <2> QED
    BY <2>1, DecideType
<1>2. planned' \subseteq Candidates
  BY <1>1 DEF Plan
<1> QED
  BY <1>2 DEF TypeOK, Plan, Goto, Steps, landing, warehouse, audit, budget,
              TypeInv, ZoneLoaded, NotBegun, NextIsWritten

(* The steps that only look at the warehouse, or start a pass over it.     *)
LEMMA InspectType ==
  ASSUME TypeInv,
         CheckScope \/ PrepareLayout \/ PriorState \/ EndPass \/ Measure \/ Rebuild
  PROVE  TypeInv'
<1> USE DEF TypeOK, Goto, Steps, landing, warehouse, audit, budget, run,
            TypeInv, ZoneLoaded, NotBegun, NextIsWritten
<1>1. CASE CheckScope
  BY <1>1 DEF CheckScope
<1>2. CASE PrepareLayout
  BY <1>2 DEF PrepareLayout
<1>3. CASE PriorState
  BY <1>3 DEF PriorState
<1>4. CASE EndPass
  BY <1>4 DEF EndPass
<1>5. CASE Measure
  BY <1>5 DEF Measure
<1>6. CASE Rebuild
  BY <1>6 DEF Rebuild
<1> QED
  BY <1>1, <1>2, <1>3, <1>4, <1>5, <1>6

LEMMA SettleType ==
  ASSUME TypeInv, SettleBoundary
  PROVE  TypeInv'
<1>1. zone # NoZone
  BY DEF TypeInv, ZoneLoaded, SettleBoundary
<1>2. boundary' \in Boundaries
  BY <1>1, TargetType DEF TypeInv, SettleBoundary
<1> QED
  BY <1>1, <1>2 DEF TypeOK, SettleBoundary, Goto, Steps, landing, audit, budget, run,
              TypeInv, ZoneLoaded, NotBegun, NextIsWritten

LEMMA ReconcileType ==
  ASSUME TypeInv, Reconcile
  PROVE  TypeInv'
<1>1. ASSUME NEW a \in Artifacts
      PROVE  Recorded(a) \in [Contents -> Events]
  <2>1. ASSUME NEW v \in Contents, \E c \in Candidate(a) : c.version = v
        PROVE  EventFor(CHOOSE c \in Candidate(a) : c.version = v) \in Events
    <3>1. (CHOOSE c \in Candidate(a) : c.version = v) \in planned
      BY <2>1 DEF Candidate
    <3> QED
      BY <3>1, EventType DEF TypeInv
  <2>2. \A v \in Contents : ledger[a][v] \in Events
    BY DEF TypeInv, TypeOK
  <2> QED
    BY <2>1, <2>2 DEF Recorded
<1>2. ASSUME NEW a \in Artifacts
      PROVE  Replayed(a) \in Contents \cup {NoVersion}
  <2>1. NewEvents(a) \in SUBSET Candidates
    BY DEF NewEvents, Candidate, TypeInv, TypeOK
  <2>2. ActiveVersion(NewEvents(a)) \in Contents \cup {NoVersion}
    BY <2>1, ActiveVersionType
  <2>3. ledgerState[a] \in Contents \cup {NoVersion}
    BY DEF TypeInv, TypeOK
  <2> QED
    BY <2>2, <2>3 DEF Replayed
<1>3. /\ ledger' \in [Artifacts -> [Contents -> Events]]
      /\ ledgerState' \in [Artifacts -> Contents \cup {NoVersion}]
  BY <1>1, <1>2 DEF Reconcile
<1> QED
  BY <1>3 DEF TypeOK, Reconcile, Goto, Steps, landing, warehouse, budget, run,
              TypeInv, ZoneLoaded, NotBegun, NextIsWritten

(* The steps that work on one item.                                        *)
LEMMA NextItemType ==
  ASSUME TypeInv, NEW c \in todo, NextItem(c)
  PROVE  TypeInv'
<1>1. CASE c.state = "superseded"
  <2>1. pc' = "next item"
    BY <1>1 DEF NextItem, Goto
  <2> QED
    BY <1>1, <2>1 DEF TypeOK, NextItem, Goto, Steps, landing, warehouse, audit, budget,
                TypeInv, ZoneLoaded, NotBegun, NextIsWritten
<1>2. CASE c.state # "superseded"
  <2>1. pc' \in Writing /\ todo' = todo /\ IsNext(c)
    BY <1>2 DEF NextItem, Goto, Writing
  <2>2. \A d \in todo : IsNext(d)' => d = c
    BY <2>1, NextIsUnique DEF TypeInv, TypeOK, IsNext
  <2>3. NextIsWritten'
    BY <1>2, <2>1, <2>2 DEF NextIsWritten
  <2>4. TypeOK'
    BY <2>1 DEF TypeOK, NextItem, Goto, Steps, landing, warehouse, audit, budget,
                TypeInv, Writing
  <2>5. ZoneLoaded' /\ NotBegun'
    BY <2>1 DEF NextItem, Goto, TypeInv, ZoneLoaded, NotBegun, Writing
  <2> QED
    BY <2>3, <2>4, <2>5 DEF TypeInv
<1> QED
  BY <1>1, <1>2

LEMMA WriteType ==
  ASSUME TypeInv, NEW c \in todo, NEW kind \in Kinds, NEW next \in Writing,
         Write(c, kind, next)
  PROVE  TypeInv'
<1>1. zone # NoZone /\ pc \in Writing
  BY DEF TypeInv, ZoneLoaded, Write, Kinds, Writing
<1>2. tables' \subseteq Commits
  BY <1>1, AppendType DEF TypeInv, TypeOK, Write
<1>3. \A d \in todo : IsNext(d)' <=> IsNext(d)
  BY DEF Write, IsNext, run
<1>4. TypeOK'
  BY <1>2 DEF TypeOK, Write, Goto, Steps, landing, audit, budget, run, TypeInv, Writing
<1>5. ZoneLoaded' /\ NotBegun' /\ NextIsWritten'
  BY <1>1, <1>3 DEF Write, Goto, run, TypeInv, ZoneLoaded, NotBegun, NextIsWritten, Writing
<1> QED
  BY <1>4, <1>5 DEF TypeInv

LEMMA PublishType ==
  ASSUME TypeInv, NEW c \in todo, PublishMarker(c)
  PROVE  TypeInv'
<1>1. zone # NoZone
  BY DEF TypeInv, ZoneLoaded, PublishMarker
<1>2. c \in Candidates /\ c.state # "superseded"
  BY DEF TypeInv, TypeOK, NextIsWritten, PublishMarker
<1>3. markers' \subseteq Markers
  BY <1>1, <1>2, DerivationType DEF TypeInv, TypeOK, PublishMarker
<1> QED
  BY <1>1, <1>3 DEF TypeOK, PublishMarker, Goto, Steps, landing, audit, budget,
              TypeInv, ZoneLoaded, NotBegun, NextIsWritten

(* What happens around a run.                                              *)
LEMMA OutsideType ==
  ASSUME TypeInv,
         \/ Crash
         \/ \E s \in Services, contract \in Contracts : Deploy(s, contract)
         \/ \E a \in Artifacts, v \in Contents : Damage(a, v)
  PROVE  TypeInv'
<1>1. CASE Crash
  <2>1. crashes' \in 0 .. MaxCrashes
    BY <1>1, BoundsAssumption DEF TypeInv, TypeOK, Crash
  <2> QED
    BY <1>1, <2>1, EndRunType DEF Crash, TypeInv
<1>2. ASSUME NEW s \in Services, NEW contract \in Contracts, Deploy(s, contract)
      PROVE  TypeInv'
  <2>1. revisions' \in 0 .. MaxRevisions /\ code' \in [Services -> Contracts]
    BY <1>2, BoundsAssumption DEF TypeInv, TypeOK, Deploy
  <2> QED
    BY <1>2, <2>1 DEF TypeOK, Deploy, landing, warehouse, audit, run,
                TypeInv, ZoneLoaded, NotBegun, NextIsWritten, IsNext
<1>3. ASSUME NEW a \in Artifacts, NEW v \in Contents, Damage(a, v)
      PROVE  TypeInv'
  <2>1. damages' \in 0 .. MaxDamages /\ damaged' \subseteq Artifacts \X Contents
    BY <1>3, BoundsAssumption DEF TypeInv, TypeOK, Damage, Store!Damage
  <2>2. todo' = {} /\ todo = {}
    BY <1>3 DEF TypeInv, TypeOK, Damage, run
  <2> QED
    BY <1>3, <2>1, <2>2 DEF TypeOK, Damage, Store!Damage, warehouse, audit, run,
                TypeInv, ZoneLoaded, NotBegun, NextIsWritten
<1> QED
  BY <1>1, <1>2, <1>3

(* A step that changes nothing.                                            *)
LEMMA StutterType ==
  ASSUME TypeInv, UNCHANGED vars
  PROVE  TypeInv'
<1>1. \A c \in todo : IsNext(c)' <=> IsNext(c)
  BY DEF vars, run, IsNext
<1> QED
  BY <1>1 DEF TypeOK, vars, landing, warehouse, audit, run, budget,
         TypeInv, ZoneLoaded, NotBegun, NextIsWritten

(* The only reasons a step of a run ends it.                               *)
Refusal ==
  \/ RefuseZone \/ RefuseScope \/ RefusePriorState
  \/ RefuseMeasure \/ RefuseRebuild
  \/ \E c \in todo : RefuseMarker(c)
  \/ Report

LEMMA RefusalExits == Refusal => Exit
  BY DEF Refusal, RefuseZone, RefuseScope, RefusePriorState, RefuseMeasure, RefuseRebuild,
         RefuseMarker, Report

LEMMA TypeInvStep == TypeInv /\ [Next]_vars => TypeInv'
<1> SUFFICES ASSUME TypeInv, [Next]_vars PROVE TypeInv'
  OBVIOUS
<1>1. CASE \E requested \in (SUBSET Artifacts) \ {{}}, zoneOption \in Zones \cup {NoZone} :
             Start(requested, zoneOption)
  BY <1>1, AcquireType DEF TypeInv
<1>2. CASE \/ \E a \in Artifacts, v \in Contents, now \in 1 .. MaxStamp : LandArtifact(a, v, now)
           \/ \E z \in Zones, now \in 1 .. MaxStamp : LandZone(z, now)
           \/ LoadZone
  BY <1>2, AcquireType DEF TypeInv
<1>3. CASE CheckScope \/ PrepareLayout \/ PriorState \/ EndPass \/ Measure \/ Rebuild
  BY <1>3, InspectType
<1>4. CASE Plan
  BY <1>4, PlanType
<1>5. CASE \E c \in todo : NextItem(c)
  BY <1>5, NextItemType
<1>6. CASE \E c \in todo : WriteContracted(c) \/ WriteQuarantine(c) \/ WriteIncidents(c)
  BY <1>6, WriteType DEF WriteContracted, WriteQuarantine, WriteIncidents, Kinds, Writing
<1>7. CASE \E c \in todo : PublishMarker(c)
  BY <1>7, PublishType
<1>8. CASE SettleBoundary
  BY <1>8, SettleType
<1>9. CASE Reconcile
  BY <1>9, ReconcileType
<1>10. CASE Refusal
  BY <1>10, RefusalExits, ExitType DEF TypeInv
<1>11. CASE \/ Crash
            \/ \E s \in Services, contract \in Contracts : Deploy(s, contract)
            \/ \E a \in Artifacts, v \in Contents : Damage(a, v)
  BY <1>11, OutsideType
<1>12. CASE UNCHANGED vars
  BY <1>12, StutterType
<1> QED
  BY <1>1, <1>2, <1>3, <1>4, <1>5, <1>6, <1>7, <1>8, <1>9, <1>10, <1>11, <1>12
  DEF Next, RunStep, Refusal

LEMMA AlwaysTypeInv == Spec => []TypeInv
  BY InitTypeInv, TypeInvStep, PTL DEF Spec

(***************************************************************************)
(* Every reachable state is well-typed: in particular every marker is      *)
(* active or rejected, never superseded, and names a loaded zone lookup,   *)
(* and every boundary is the initial one or names a zone lookup.           *)
(***************************************************************************)
THEOREM TypeCorrect == Spec => []TypeOK
<1>1. TypeInv => TypeOK
  BY DEF TypeInv
<1> QED
  BY <1>1, AlwaysTypeInv, PTL

-----------------------------------------------------------------------------
(***************************************************************************)
(* A marker is complete. The invariant that is inductive says, with the    *)
(* types, how far the item in progress has been written: MarkerInv.        *)
(***************************************************************************)

(* A step that commits nothing, marks nothing and is not about an item.    *)
LEMMA ElsewhereOrder ==
  ASSUME WrittenInOrder, MarkerComplete,
         UNCHANGED <<tables, markers>>,
         pc' \notin {"quarantine", "incidents", "marker"} \/ todo' = {}
  PROVE  WrittenInOrder' /\ MarkerComplete'
<1>1. WrittenInOrder'
  BY DEF WrittenInOrder
<1>2. MarkerComplete'
  BY DEF MarkerComplete, Committed
<1> QED
  BY <1>1, <1>2

(* Commits are kept, so what was complete stays complete.                  *)
LEMMA CommittedKept ==
  ASSUME tables \subseteq tables', NEW kind, NEW d, Committed(kind, d)
  PROVE  Committed(kind, d)'
  BY DEF Committed

(* Beginning an item: one whose marker agrees has been written before.     *)
LEMMA NextItemOrder ==
  ASSUME TypeInv, WrittenInOrder, MarkerComplete, NEW c \in todo, NextItem(c)
  PROVE  WrittenInOrder' /\ MarkerComplete'
<1>1. /\ UNCHANGED <<tables, markers, code, zone>>
      /\ IsNext(c)
  BY DEF NextItem, warehouse
<1>2. CASE c.state = "superseded"
  BY <1>1, <1>2, ElsewhereOrder DEF NextItem, Goto
<1>3. CASE c.state # "superseded" /\ ~ MarkerExists(c)
  <2>1. /\ todo' = todo
        /\ pc' = IF c.state = "active" THEN "contracted" ELSE "incidents"
    BY <1>3 DEF NextItem, Goto
  <2>2. \A d \in todo' : IsNext(d)' => d = c
    BY <1>1, <2>1, NextIsUnique DEF IsNext, TypeInv, TypeOK
  <2>3. WrittenInOrder'
    BY <2>1, <2>2 DEF WrittenInOrder
  <2> QED
    BY <1>1, <2>3 DEF MarkerComplete, Committed
<1>4. CASE c.state # "superseded" /\ MarkerExists(c)
  <2>1. todo' = todo /\ pc' = "marker"
    BY <1>4 DEF NextItem, Goto
  <2>2. \A d \in todo' : IsNext(d)' => d = c
    BY <1>1, <2>1, NextIsUnique DEF IsNext, TypeInv, TypeOK
  <2>3. ASSUME ~ Conflicts(c)
        PROVE  /\ Committed("incidents", Derivation(c))
               /\ c.state = "active" => /\ Committed("contracted", Derivation(c))
                                        /\ Committed("quarantine", Derivation(c))
    <3>1. MarkerFor(c) \in markers
      BY <1>4, <2>3 DEF MarkerExists, Conflicts
    <3>2. DerivationOf(MarkerFor(c)) = Derivation(c) /\ MarkerFor(c).state = c.state
      BY DEF DerivationOf, MarkerFor, Derivation
    <3> QED
      BY <3>1, <3>2 DEF MarkerComplete
  <2>4. /\ Derivation(c)' = Derivation(c)
        /\ Conflicts(c)' <=> Conflicts(c)
        /\ \A kind \in Kinds : Committed(kind, Derivation(c))' <=> Committed(kind, Derivation(c))
    BY <1>1 DEF Derivation, Conflicts, MarkerFor, Committed
  <2>5. WrittenInOrder'
    BY <2>1, <2>2, <2>3, <2>4 DEF WrittenInOrder, Kinds
  <2> QED
    BY <1>1, <2>5 DEF MarkerComplete, Committed
<1> QED
  BY <1>2, <1>3, <1>4

(* Each table is committed before the next one is begun.                   *)
LEMMA WriteOrder ==
  ASSUME TypeInv, WrittenInOrder, MarkerComplete, NEW c \in todo,
         NEW kind \in Kinds, NEW next, Write(c, kind, next),
         \/ kind = "contracted" /\ next = "quarantine"
         \/ kind = "quarantine" /\ next = "incidents"
         \/ kind = "incidents" /\ next = "marker"
  PROVE  WrittenInOrder' /\ MarkerComplete'
<1>1. /\ IsNext(c) /\ pc = kind /\ pc' = next
      /\ UNCHANGED <<markers, code, zone, todo>>
      /\ tables' = Append(kind, c)
  BY DEF Write, Goto, run
<1>2. zone # NoZone
  BY <1>1 DEF TypeInv, ZoneLoaded, Kinds
<1>3. Derivation(c)' = Derivation(c)
  BY <1>1 DEF Derivation
<1>4. tables \subseteq tables' /\ Committed(kind, Derivation(c))'
  <2>1. c \in Candidates
    BY DEF TypeInv, TypeOK
  <2> QED
    BY <1>1, <1>2, <1>3, <2>1, AppendType DEF Committed, TypeInv
<1>5. \A k \in Kinds : \A d : Committed(k, d) => Committed(k, d)'
  BY <1>4, CommittedKept
<1>6. MarkerComplete'
  BY <1>1, <1>5 DEF MarkerComplete, Kinds
<1>7. \A d \in todo' : IsNext(d)' => d = c
  BY <1>1, NextIsUnique DEF IsNext, TypeInv, TypeOK
<1>8. /\ kind = "quarantine" => Committed("contracted", Derivation(c))
      /\ kind = "incidents" /\ c.state = "active" =>
           Committed("contracted", Derivation(c)) /\ Committed("quarantine", Derivation(c))
  BY <1>1 DEF WrittenInOrder
<1>9. /\ kind = "quarantine" => Committed("contracted", Derivation(c))'
      /\ kind = "incidents" /\ c.state = "active" =>
           Committed("contracted", Derivation(c))' /\ Committed("quarantine", Derivation(c))'
  BY <1>3, <1>5, <1>8 DEF Kinds, Committed
<1>10. WrittenInOrder'
  <2>1. SUFFICES ASSUME NEW d \in todo', IsNext(d)' PROVE
          /\ next = "quarantine" => Committed("contracted", Derivation(c))'
          /\ next = "incidents" /\ c.state = "active" =>
               Committed("contracted", Derivation(c))' /\ Committed("quarantine", Derivation(c))'
          /\ next = "marker" =>
               /\ Committed("incidents", Derivation(c))'
               /\ c.state = "active" => /\ Committed("contracted", Derivation(c))'
                                        /\ Committed("quarantine", Derivation(c))'
    BY <1>1, <1>7 DEF WrittenInOrder
  <2> QED
    BY <1>4, <1>9
<1> QED
  BY <1>6, <1>10

(* The marker is the last write.                                           *)
LEMMA PublishOrder ==
  ASSUME TypeInv, WrittenInOrder, MarkerComplete, NEW c \in todo, PublishMarker(c)
  PROVE  WrittenInOrder' /\ MarkerComplete'
<1>1. /\ pc = "marker" /\ IsNext(c) /\ ~ Conflicts(c)
      /\ pc' = "next item" /\ tables' = tables
      /\ markers' = markers \cup {MarkerFor(c)}
  BY DEF PublishMarker, Goto
<1>2. WrittenInOrder'
  BY <1>1 DEF WrittenInOrder
<1>3. /\ Committed("incidents", Derivation(c))
      /\ c.state = "active" => /\ Committed("contracted", Derivation(c))
                               /\ Committed("quarantine", Derivation(c))
  BY <1>1 DEF WrittenInOrder
<1>4. DerivationOf(MarkerFor(c)) = Derivation(c) /\ MarkerFor(c).state = c.state
  BY DEF DerivationOf, MarkerFor, Derivation
<1>5. MarkerComplete'
  BY <1>1, <1>3, <1>4 DEF MarkerComplete, Committed
<1> QED
  BY <1>2, <1>5

(* Every other step leaves the warehouse's tables and markers alone.       *)
LEMMA OtherStepsOrder ==
  ASSUME TypeInv, WrittenInOrder, MarkerComplete, [Next]_vars,
         ~ \E c \in todo : \/ NextItem(c) \/ PublishMarker(c)
                           \/ WriteContracted(c) \/ WriteQuarantine(c) \/ WriteIncidents(c)
  PROVE  WrittenInOrder' /\ MarkerComplete'
<1> USE ElsewhereOrder DEF Goto, warehouse
<1>1. CASE \E requested \in (SUBSET Artifacts) \ {{}}, zoneOption \in Zones \cup {NoZone} :
             Start(requested, zoneOption)
  BY <1>1 DEF Start
<1>2. CASE \E a \in Artifacts, v \in Contents, now \in 1 .. MaxStamp : LandArtifact(a, v, now)
  BY <1>2 DEF LandArtifact
<1>3. CASE \E z \in Zones, now \in 1 .. MaxStamp : LandZone(z, now)
  BY <1>3 DEF LandZone
<1>4. CASE LoadZone \/ CheckScope \/ Plan \/ PrepareLayout \/ PriorState
  BY <1>4 DEF LoadZone, CheckScope, Plan, PrepareLayout, PriorState
<1>5. CASE EndPass \/ SettleBoundary \/ Reconcile \/ Measure \/ Rebuild
  BY <1>5 DEF EndPass, SettleBoundary, Reconcile, Measure, Rebuild
<1>6. CASE Refusal \/ Crash
  BY <1>6, RefusalExits DEF Exit, EndRun, Crash
<1>7. CASE \E s \in Services, contract \in Contracts : Deploy(s, contract)
  BY <1>7 DEF Deploy
<1>8. CASE \E a \in Artifacts, v \in Contents : Damage(a, v)
  BY <1>8 DEF Damage, run, TypeInv, TypeOK
<1>9. CASE UNCHANGED vars
  <2>1. UNCHANGED <<tables, markers, code, zone, todo, pc>>
    BY <1>9 DEF vars, run
  <2>2. MarkerComplete'
    BY <2>1 DEF MarkerComplete, Committed
  <2>3. ASSUME NEW c \in todo
        PROVE  /\ Conflicts(c)' <=> Conflicts(c)
               /\ IsNext(c)' <=> IsNext(c)
               /\ \A kind : Committed(kind, Derivation(c))' <=> Committed(kind, Derivation(c))
    BY <2>1 DEF Conflicts, MarkerFor, Derivation, IsNext, Committed
  <2>4. WrittenInOrder'
    BY <2>1, <2>3 DEF WrittenInOrder
  <2> QED
    BY <2>2, <2>4
<1> QED
  BY <1>1, <1>2, <1>3, <1>4, <1>5, <1>6, <1>7, <1>8, <1>9 DEF Next, RunStep, Refusal

LEMMA MarkerInvStep == MarkerInv /\ [Next]_vars => MarkerInv'
<1> SUFFICES ASSUME MarkerInv, [Next]_vars PROVE MarkerInv'
  OBVIOUS
<1>1. TypeInv /\ WrittenInOrder /\ MarkerComplete
  BY DEF MarkerInv, TypeInv
<1>2. TypeInv'
  BY <1>1, TypeInvStep
<1>3. WrittenInOrder' /\ MarkerComplete'
  <2>1. CASE \E c \in todo : NextItem(c)
    BY <1>1, <2>1, NextItemOrder
  <2>2. CASE \E c \in todo : WriteContracted(c) \/ WriteQuarantine(c) \/ WriteIncidents(c)
    BY <1>1, <2>2, WriteOrder DEF WriteContracted, WriteQuarantine, WriteIncidents, Kinds
  <2>3. CASE \E c \in todo : PublishMarker(c)
    BY <1>1, <2>3, PublishOrder
  <2> QED
    BY <1>1, <2>1, <2>2, <2>3, OtherStepsOrder
<1> QED
  BY <1>2, <1>3 DEF MarkerInv, TypeInv

(***************************************************************************)
(* The property of the crash between two Delta tables: whenever a run dies *)
(* and whatever the next one does, a marker is only ever found beside the  *)
(* commits its state needs.                                                *)
(***************************************************************************)
THEOREM MarkersComplete == Spec => []MarkerComplete
<1>1. Init => MarkerInv
  <2>1. Init => WrittenInOrder /\ MarkerComplete
    BY DEF Init, WrittenInOrder, MarkerComplete
  <2> QED
    BY <2>1, InitTypeInv DEF MarkerInv, TypeInv
<1>2. MarkerInv => MarkerComplete
  BY DEF MarkerInv
<1> QED
  BY <1>1, <1>2, MarkerInvStep, PTL DEF Spec

-----------------------------------------------------------------------------
(***************************************************************************)
(* The layout marker precedes everything check_layout would ask it for.    *)
(***************************************************************************)

LayoutInv == LayoutInstalled /\ LayoutBeforeData

(* A step of a run that has not reached the layout yet, or has ended.      *)
LEMMA EarlyLayout ==
  ASSUME LayoutInv, UNCHANGED <<layout, tables, markers, boundary>>,
         pc' = pc \/ pc' \in {"idle", "land", "land zone", "load zone", "scope", "plan", "layout"}
  PROVE  LayoutInv'
  BY DEF LayoutInv, LayoutInstalled, LayoutBeforeData

(* A step of a run past it.                                                *)
LEMMA LateLayout ==
  ASSUME LayoutInv, layout' = layout,
         pc \in {"prior state", "next item", "contracted", "quarantine", "incidents", "marker",
                 "boundary", "ledger", "measure", "rebuild", "report"}
  PROVE  LayoutInv'
  BY DEF LayoutInv, LayoutInstalled, LayoutBeforeData

LEMMA LayoutInvStep == LayoutInv /\ [Next]_vars => LayoutInv'
<1> SUFFICES ASSUME LayoutInv, [Next]_vars PROVE LayoutInv'
  OBVIOUS
<1> USE DEF warehouse, Goto
<1>1. CASE \E requested \in (SUBSET Artifacts) \ {{}}, zoneOption \in Zones \cup {NoZone} :
             Start(requested, zoneOption)
  BY <1>1, EarlyLayout DEF Start
<1>2. CASE \E a \in Artifacts, v \in Contents, now \in 1 .. MaxStamp : LandArtifact(a, v, now)
  <2>1. /\ UNCHANGED <<layout, tables, markers, boundary>>
        /\ pc' \in {"land", "land zone", "load zone"}
    BY <1>2 DEF LandArtifact
  <2> QED
    BY <2>1, EarlyLayout
<1>3. CASE \E z \in Zones, now \in 1 .. MaxStamp : LandZone(z, now)
  <2>1. /\ UNCHANGED <<layout, tables, markers, boundary>>
        /\ pc' \in {"land", "load zone"}
    BY <1>3 DEF LandZone
  <2> QED
    BY <2>1, EarlyLayout
<1>4. CASE LoadZone \/ CheckScope \/ Plan
  BY <1>4, EarlyLayout DEF LoadZone, CheckScope, Plan
<1>5. CASE PrepareLayout
  BY <1>5 DEF PrepareLayout, LayoutInv, LayoutInstalled, LayoutBeforeData
<1>6. CASE PriorState \/ EndPass \/ SettleBoundary \/ Reconcile \/ Measure \/ Rebuild
  BY <1>6, LateLayout DEF PriorState, EndPass, SettleBoundary, Reconcile, Measure, Rebuild
<1>7. CASE Refusal \/ Crash
  BY <1>7, RefusalExits, EarlyLayout DEF Exit, EndRun, Crash
<1>8. CASE \E s \in Services, contract \in Contracts : Deploy(s, contract)
  BY <1>8, EarlyLayout DEF Deploy
<1>9. CASE \E a \in Artifacts, v \in Contents : Damage(a, v)
  BY <1>9, EarlyLayout DEF Damage
<1>10. CASE \E c \in todo : NextItem(c)
  BY <1>10, LateLayout DEF NextItem
<1>11. CASE \E c \in todo : WriteContracted(c) \/ WriteQuarantine(c) \/ WriteIncidents(c)
  BY <1>11, LateLayout DEF WriteContracted, WriteQuarantine, WriteIncidents, Write
<1>12. CASE \E c \in todo : PublishMarker(c)
  BY <1>12, LateLayout DEF PublishMarker
<1>13. CASE UNCHANGED vars
  BY <1>13, EarlyLayout DEF vars
<1> QED
  BY <1>1, <1>2, <1>3, <1>4, <1>5, <1>6, <1>7, <1>8, <1>9, <1>10, <1>11, <1>12, <1>13
  DEF Next, RunStep, Refusal

(***************************************************************************)
(* A first publication that dies early leaves a store the retry accepts:   *)
(* nothing was written before the layout was identified.                   *)
(***************************************************************************)
THEOREM LayoutFirst == Spec => []LayoutBeforeData
<1>1. Init => LayoutInv
  BY DEF Init, LayoutInv, LayoutInstalled, LayoutBeforeData
<1>2. LayoutInv => LayoutBeforeData
  BY DEF LayoutInv
<1> QED
  BY <1>1, <1>2, LayoutInvStep, PTL DEF Spec

-----------------------------------------------------------------------------
(***************************************************************************)
(* Coverage is kept. Markers are never removed, so only a step that moves  *)
(* the boundary could lose one, and plan_transition stands in its way.     *)
(***************************************************************************)

(* One step that leaves the boundary where it is.                          *)
LEMMA MarkersGrow ==
  ASSUME [Next]_vars, ~ SettleBoundary
  PROVE  boundary' = boundary /\ markers \subseteq markers'
<1> USE DEF warehouse
<1>1. CASE \E requested \in (SUBSET Artifacts) \ {{}}, zoneOption \in Zones \cup {NoZone} :
             Start(requested, zoneOption)
  BY <1>1 DEF Start
<1>2. CASE \E a \in Artifacts, v \in Contents, now \in 1 .. MaxStamp : LandArtifact(a, v, now)
  BY <1>2 DEF LandArtifact
<1>3. CASE \E z \in Zones, now \in 1 .. MaxStamp : LandZone(z, now)
  BY <1>3 DEF LandZone
<1>4. CASE LoadZone \/ CheckScope \/ Plan \/ PrepareLayout \/ PriorState
  BY <1>4 DEF LoadZone, CheckScope, Plan, PrepareLayout, PriorState
<1>5. CASE EndPass \/ Reconcile \/ Measure \/ Rebuild
  BY <1>5 DEF EndPass, Reconcile, Measure, Rebuild
<1>6. CASE Refusal \/ Crash
  BY <1>6, RefusalExits DEF Exit, Crash
<1>7. CASE \/ \E s \in Services, contract \in Contracts : Deploy(s, contract)
           \/ \E a \in Artifacts, v \in Contents : Damage(a, v)
  BY <1>7 DEF Deploy, Damage
<1>8. CASE \E c \in todo : NextItem(c)
  BY <1>8 DEF NextItem
<1>9. CASE \E c \in todo : WriteContracted(c) \/ WriteQuarantine(c) \/ WriteIncidents(c)
  BY <1>9 DEF WriteContracted, WriteQuarantine, WriteIncidents, Write
<1>10. CASE \E c \in todo : PublishMarker(c)
  BY <1>10 DEF PublishMarker
<1>11. CASE UNCHANGED vars
  BY <1>11 DEF vars
<1> QED
  BY <1>1, <1>2, <1>3, <1>4, <1>5, <1>6, <1>7, <1>8, <1>9, <1>10, <1>11
  DEF Next, RunStep, Refusal

(* More markers never take coverage away.                                  *)
LEMMA HasMarkerMonotone ==
  ASSUME NEW S, NEW T, S \subseteq T, NEW a, NEW context, HasMarker(S, a, context)
  PROVE  HasMarker(T, a, context)
  BY DEF HasMarker, Entries

(* What a marker under the boundary says of the boundary.                  *)
LEMMA CoveredContext ==
  ASSUME TypeOK, NEW a \in Artifacts, HasMarker(markers, a, boundary)
  PROVE  /\ boundary # NoBoundary
         /\ boundary.contracts[ServiceOf[a]] \in Contracts
         /\ a \in KnownArtifacts(markers)
<1>1. PICK m \in markers : /\ m.artifact = a
                           /\ m.contract = boundary.contracts[ServiceOf[a]]
                           /\ m.zone = boundary.zone
  BY DEF HasMarker, Entries
<1>2. m.zone \in Zones /\ m.contract \in Contracts
  BY DEF TypeOK, Markers
<1>3. boundary.zone # 0 /\ NoBoundary.zone = 0
  BY <1>1, <1>2, IdentifiersAssumption DEF NoBoundary
<1>4. a \in KnownArtifacts(markers)
  BY <1>1 DEF KnownArtifacts
<1> QED
  BY <1>1, <1>2, <1>3, <1>4

(* Moving the boundary: an artifact whose context changes is required.     *)
LEMMA SettleKeepsCoverage ==
  ASSUME TypeInv, SettleBoundary, NEW a \in Artifacts, HasMarker(markers, a, boundary)
  PROVE  HasMarker(markers, a, TargetBoundary)
<1> DEFINE s == ServiceOf[a]
<1>1. s \in Services
  BY ServiceOfAssumption
<1>2. zone # NoZone /\ TypeOK
  BY DEF TypeInv, ZoneLoaded, SettleBoundary
<1>3. /\ boundary # NoBoundary
      /\ boundary.contracts[s] \in Contracts
      /\ a \in KnownArtifacts(markers)
  BY <1>2, CoveredContext
<1>4. TargetBoundary.contracts[s] \in Contracts
  BY <1>1, <1>2, <1>3, TargetType DEF TypeOK
<1>5. CASE \/ ZoneChanged(boundary, TargetBoundary)
           \/ s \in ContractsChanged(boundary, TargetBoundary)
  <2>1. a \in Required(markers, boundary, TargetBoundary)
    BY <1>3, <1>5 DEF Required
  <2>2. a \in Covered(markers, TargetBoundary)
    BY <2>1 DEF SettleBoundary, CoverageComplete, Missing
  <2> QED
    BY <2>2 DEF Covered
<1>6. CASE ~ \/ ZoneChanged(boundary, TargetBoundary)
             \/ s \in ContractsChanged(boundary, TargetBoundary)
  <2>1. TargetBoundary.zone = boundary.zone
    BY <1>3, <1>6 DEF ZoneChanged
  <2>2. TargetBoundary.contracts[s] = boundary.contracts[s]
    BY <1>1, <1>3, <1>4, <1>6, ContractsAssumption DEF ContractsChanged
  <2> QED
    BY <2>1, <2>2 DEF HasMarker, Entries
<1> QED
  BY <1>5, <1>6

LEMMA CoverageStep ==
  ASSUME TypeInv, [Next]_vars, NEW a \in Artifacts, HasMarker(markers, a, boundary)
  PROVE  HasMarker(markers', a, boundary')
<1>1. CASE SettleBoundary
  BY <1>1, SettleKeepsCoverage DEF SettleBoundary
<1>2. CASE ~ SettleBoundary
  BY <1>2, MarkersGrow, HasMarkerMonotone
<1> QED
  BY <1>1, <1>2

(***************************************************************************)
(* No run, however scoped, crashed or retried, and no revision or rollback *)
(* of any contract, moves the boundary to a context in which an artifact   *)
(* that had a marker has none.                                             *)
(***************************************************************************)
THEOREM CoverageIsKept == Spec => CoverageKept
<1>1. TypeInv /\ [Next]_vars =>
        [\A a \in Artifacts :
           HasMarker(markers, a, boundary) => HasMarker(markers', a, boundary')]_vars
  BY CoverageStep
<1> QED
  BY <1>1, AlwaysTypeInv, PTL DEF Spec, CoverageKept
=============================================================================
