---------------------- MODULE SourceOccurrencesProofs ----------------------
(***************************************************************************)
(* SourceOccurrences is well-typed and appends each landed version at most *)
(* once, for any services, periods and versions and any number of dead     *)
(* commands and replaced samples.                                          *)
(***************************************************************************)
EXTENDS SourceOccurrences, FiniteSetTheorems, TLAPS

(***************************************************************************)
(* The strengthening: what a command remembers having landed is landed,    *)
(* for the services it has done while it lands, and for all of them while  *)
(* it ingests.                                                             *)
(***************************************************************************)
RemembersLanded(s) ==
  landed[s] # Nothing /\ manifest[<<s, period>>][landed[s]] # 0

LandedIsLanded ==
  /\ pc = "land" => \A s \in services \ todo : RemembersLanded(s)
  /\ pc = "ingest" => \A s \in services : RemembersLanded(s)

OccurrenceInv == TypeOK /\ LandedIsLanded /\ IngestedOnce

LEMMA InitEstablishes == Init => OccurrenceInv
  BY ContentsAssumption, RowsAssumption, BoundAssumption
     DEF Init, OccurrenceInv, TypeOK, LandedIsLanded, IngestedOnce, Artifacts, NoneLanded, Nothing

(***************************************************************************)
(* A command that ends, however it ends, leaves nothing to remember: it is *)
(* enough that the store has only grown and the tables are untouched.      *)
(***************************************************************************)
LEMMA EndPreserves ==
  ASSUME OccurrenceInv, End, table' = table, failures' \in 0 .. MaxFailures,
         manifest' \in [Artifacts -> [Contents -> 0 .. 1]],
         \A a \in Artifacts, v \in Contents : manifest[a][v] # 0 => manifest'[a][v] # 0
  PROVE  OccurrenceInv'
  BY DEF OccurrenceInv, TypeOK, LandedIsLanded, IngestedOnce, RemembersLanded, End, NoneLanded,
     Artifacts, Nothing

(* Acquiring a version never takes another one away.                       *)
LEMMA AcquireGrows ==
  ASSUME TypeOK, NEW a \in Artifacts, NEW v \in Contents, Store!Acquire(a, v, 1)
  PROVE  /\ manifest' \in [Artifacts -> [Contents -> 0 .. 1]]
         /\ manifest'[a][v] # 0
         /\ \A b \in Artifacts, w \in Contents : manifest[b][w] # 0 => manifest'[b][w] # 0
  BY DEF TypeOK, Store!Acquire

(***************************************************************************)
(* Every step of a command, and everything around it, keeps the invariant. *)
(***************************************************************************)
LEMMA StepPreserves == OccurrenceInv /\ [Next]_vars => OccurrenceInv'
<1> SUFFICES ASSUME OccurrenceInv, [Next]_vars
             PROVE  OccurrenceInv'
  OBVIOUS
<1> USE DEF OccurrenceInv
<1>0. TypeOK /\ LandedIsLanded /\ IngestedOnce
  OBVIOUS
<1>1. ASSUME NEW what \in {"run", "land"}, NEW whose \in (SUBSET Services) \ {{}},
             NEW p \in Periods, Begin(what, whose, p)
      PROVE  OccurrenceInv'
  BY <1>1, ContentsAssumption DEF Begin, TypeOK, LandedIsLanded, IngestedOnce, Artifacts, Nothing
<1>2. ASSUME NEW s \in todo, Land(s)
      PROVE  OccurrenceInv'
  <2>1. /\ s \in services /\ services \subseteq Services
        /\ <<s, period>> \in Artifacts /\ sample[<<s, period>>] \in Contents
    BY <1>2, ContentsAssumption DEF Land, TypeOK, Artifacts, Nothing
  <2>2. /\ manifest' \in [Artifacts -> [Contents -> 0 .. 1]]
        /\ manifest'[<<s, period>>][sample[<<s, period>>]] # 0
        /\ \A b \in Artifacts, w \in Contents : manifest[b][w] # 0 => manifest'[b][w] # 0
    BY <1>2, <2>1, AcquireGrows DEF Land
  <2>3. /\ landed' = [landed EXCEPT ![s] = sample[<<s, period>>]]
        /\ UNCHANGED <<sample, command, services, period, failures, samples, table, pass, first>>
        /\ \/ todo = {s} /\ pc' = "ingest" /\ todo' = services
           \/ todo # {s} /\ pc' = "land" /\ todo' = todo \ {s}
        /\ pc = "land"
    BY <1>2 DEF Land, Continue
  <2>4. ASSUME NEW q \in services, q \notin todo \/ q = s
        PROVE  RemembersLanded(q)'
    <3>1. CASE q = s
      BY <2>1, <2>2, <2>3, <3>1, ContentsAssumption DEF RemembersLanded, TypeOK, Nothing
    <3>2. CASE q # s
      <4>1. landed[q] # Nothing /\ manifest[<<q, period>>][landed[q]] # 0
        BY <2>3, <2>4, <3>2 DEF LandedIsLanded, RemembersLanded
      <4>2. <<q, period>> \in Artifacts /\ landed[q] \in Contents
        BY <2>1, <4>1 DEF TypeOK, Artifacts
      <4>3. landed'[q] = landed[q] /\ period' = period
        BY <2>1, <2>3, <3>2 DEF TypeOK
      <4> QED
        BY <2>2, <4>1, <4>2, <4>3 DEF RemembersLanded
    <3> QED
      BY <3>1, <3>2
  <2>5. LandedIsLanded'
    BY <2>3, <2>4 DEF LandedIsLanded
  <2>6. TypeOK'
    BY <2>1, <2>2, <2>3, <2>5 DEF TypeOK, LandedIsLanded, RemembersLanded
  <2>7. IngestedOnce'
    BY <2>2, <2>3 DEF IngestedOnce
  <2> QED
    BY <2>5, <2>6, <2>7
<1>3. ASSUME NEW s \in todo, LandLast(s)
      PROVE  OccurrenceInv'
  <2>1. <<s, period>> \in Artifacts /\ sample[<<s, period>>] \in Contents
    BY <1>3, ContentsAssumption DEF LandLast, TypeOK, Artifacts, Nothing
  <2> QED
    BY <1>3, <2>1, AcquireGrows, EndPreserves DEF LandLast, TypeOK
<1>4. ASSUME NEW s \in todo, Ingest(s)
      PROVE  OccurrenceInv'
  <2>1. /\ s \in Services /\ <<s, period>> \in Artifacts
        /\ landed[s] \in Contents /\ manifest[<<s, period>>][landed[s]] # 0
    BY <1>4, ContentsAssumption DEF Ingest, TypeOK, LandedIsLanded, RemembersLanded, Artifacts,
       Nothing
  <2>2. TypeOK'
    <3>1. table' \in [Artifacts -> [Contents -> Nat]]
      <4> DEFINE old == table[<<s, period>>][landed[s]]
                 n   == IF old > 0 THEN old ELSE old + 1
      <4>1. n \in Nat
        BY <2>1 DEF TypeOK
      <4>2. table' = [table EXCEPT ![<<s, period>>][landed[s]] = n]
        BY <1>4 DEF Ingest
      <4> HIDE DEF n
      <4>3. [table[<<s, period>>] EXCEPT ![landed[s]] = n] \in [Contents -> Nat]
        BY <2>1, <4>1 DEF TypeOK
      <4> QED
        BY <2>1, <4>2, <4>3 DEF TypeOK
    <3>2. /\ UNCHANGED <<sample, manifest, command, services, period, failures, samples>>
          /\ UNCHANGED <<pass, landed, first>>
          /\ pc = "ingest" /\ pc' \in {"ingest", "verify"} /\ todo' = todo \ {s}
      BY <1>4 DEF Ingest, Continue
    <3> QED
      BY <3>1, <3>2 DEF TypeOK
  <2>3. LandedIsLanded'
    BY <1>4 DEF Ingest, Continue, LandedIsLanded, RemembersLanded
  <2>4. IngestedOnce'
    <3> SUFFICES ASSUME NEW a \in Artifacts, NEW v \in Contents
                 PROVE  table'[a][v] <= 1 /\ (table'[a][v] = 1 => manifest'[a][v] # 0)
      BY DEF IngestedOnce
    <3>1. manifest' = manifest /\ table[a][v] \in Nat
      BY <1>4 DEF Ingest, TypeOK
    <3>2. table[a][v] <= 1 /\ (table[a][v] = 1 => manifest[a][v] # 0)
      BY DEF IngestedOnce
    <3>3. CASE a = <<s, period>> /\ v = landed[s]
      <4>1. table'[a][v] = IF table[a][v] > 0 THEN table[a][v] ELSE table[a][v] + 1
        BY <1>4, <3>3 DEF Ingest, TypeOK
      <4> QED
        BY <2>1, <3>1, <3>2, <3>3, <4>1
    <3>4. CASE ~ (a = <<s, period>> /\ v = landed[s])
      <4>1. table'[a][v] = table[a][v]
        BY <1>4, <2>1, <3>4 DEF Ingest, TypeOK
      <4> QED
        BY <3>1, <3>2, <4>1
    <3> QED
      BY <3>3, <3>4
  <2> QED
    BY <2>2, <2>3, <2>4
<1>5. CASE VerifyFirst
  BY <1>5 DEF VerifyFirst, Continue, TypeOK, LandedIsLanded, IngestedOnce, NoneLanded
<1>6. CASE VerifyReplay
  BY <1>6 DEF VerifyReplay, Continue, TypeOK, LandedIsLanded, IngestedOnce
<1>7. CASE RefuseVerify
  BY <1>7, EndPreserves DEF RefuseVerify, TypeOK
<1>8. CASE Report
  BY <1>8, EndPreserves DEF Report, TypeOK
<1>9. CASE Fail
  BY <1>9, BoundAssumption, EndPreserves DEF Fail, TypeOK
<1>10. ASSUME NEW a \in Artifacts, NEW v \in Contents, Resample(a, v)
       PROVE  OccurrenceInv'
  BY <1>10, BoundAssumption
     DEF Resample, run, TypeOK, LandedIsLanded, RemembersLanded, IngestedOnce
<1>11. CASE UNCHANGED vars
  BY <1>11 DEF vars, run, TypeOK, LandedIsLanded, RemembersLanded, IngestedOnce
<1> QED
  BY <1>1, <1>2, <1>3, <1>4, <1>5, <1>6, <1>7, <1>8, <1>9, <1>10, <1>11 DEF Next, RunStep

(***************************************************************************)
(* The M1 slice is well-typed: in particular a run that ingests has landed *)
(* a version for every service it was asked for.                           *)
(***************************************************************************)
THEOREM SliceTypeCorrect == Spec => []TypeOK
<1>1. Spec => []OccurrenceInv
  BY InitEstablishes, StepPreserves, PTL DEF Spec
<1>2. OccurrenceInv => TypeOK
  BY DEF OccurrenceInv
<1> QED
  BY <1>1, <1>2, PTL

(***************************************************************************)
(* One writer that checks and then appends never appends a version twice   *)
(* or one that is not landed, wherever it dies and however it is repeated. *)
(***************************************************************************)
THEOREM OccurrencesIngestedOnce == Spec => []IngestedOnce
<1>1. Spec => []OccurrenceInv
  BY InitEstablishes, StepPreserves, PTL DEF Spec
<1>2. OccurrenceInv => IngestedOnce
  BY DEF OccurrenceInv
<1> QED
  BY <1>1, <1>2, PTL

(***************************************************************************)
(* What the replay finds: a service that has been ingested in a pass has   *)
(* its version in the table, verification starts when all of them have,    *)
(* and the first pass is remembered when the second begins.                *)
(***************************************************************************)
Appended(s, versions) == versions[s] \in Contents /\ table[<<s, period>>][versions[s]] > 0

AppendedInv ==
  /\ pc = "idle" => pass = "first"
  /\ pc = "ingest" => \A s \in services \ todo : Appended(s, landed)
  /\ pc = "verify" => \A s \in services : Appended(s, landed)
  /\ pass = "replay" => \A s \in services : Appended(s, first)

(* Nothing leaves a table.                                                 *)
LEMMA IngestAppends ==
  ASSUME OccurrenceInv, NEW s \in todo, Ingest(s)
  PROVE  /\ s \in services
         /\ Appended(s, landed)'
         /\ \A q \in services : Appended(q, landed) => Appended(q, landed)'
         /\ \A q \in services : Appended(q, first) => Appended(q, first)'
         /\ Appended(s, landed) => table' = table
<1>1. /\ s \in services /\ <<s, period>> \in Artifacts /\ landed[s] \in Contents
      /\ services \subseteq Services /\ table \in [Artifacts -> [Contents -> Nat]]
  BY ContentsAssumption
  DEF OccurrenceInv, LandedIsLanded, RemembersLanded, Ingest, TypeOK, Artifacts, Nothing
<1> DEFINE a == <<s, period>>
           v == landed[s]
           n == IF table[a][v] > 0 THEN table[a][v] ELSE table[a][v] + 1
<1>2. UNCHANGED <<landed, first, period>> /\ table' = [table EXCEPT ![a][v] = n]
  BY DEF Ingest, Continue
<1>3. table[a][v] \in Nat /\ n > 0 /\ (table[a][v] > 0 => n = table[a][v])
  BY <1>1
<1> HIDE DEF n, v
<1>4. table'[a][v] > 0
  BY <1>1, <1>2, <1>3 DEF v
<1>5. \A b \in Artifacts, w \in Contents : table[b][w] > 0 => table'[b][w] > 0
  BY <1>1, <1>2, <1>3 DEF v
<1>6. /\ \A q \in services : Appended(q, landed) => Appended(q, landed)'
      /\ \A q \in services : Appended(q, first) => Appended(q, first)'
  BY <1>1, <1>2, <1>5 DEF Appended, Artifacts
<1>7. ASSUME Appended(s, landed)
      PROVE  table' = table
  <2>1. n = table[a][v]
    BY <1>3, <1>7 DEF Appended, v
  <2>2. [table[a] EXCEPT ![v] = n] = table[a]
    BY <1>1, <2>1
  <2> QED
    BY <1>1, <1>2, <2>2
<1> QED
  BY <1>1, <1>2, <1>4, <1>6, <1>7 DEF Appended, v

(***************************************************************************)
(* What is landed of a period is finitely much, at any time: the store is  *)
(* empty at first, and acquiring adds a version.                           *)
(***************************************************************************)
LandedFinitely == \A s \in Services, p \in Periods : IsFiniteSet(LandedVersions(s, p))

LEMMA AcquireFinitely ==
  ASSUME TypeOK, LandedFinitely, NEW a \in Artifacts, NEW v \in Contents, Store!Acquire(a, v, 1)
  PROVE  LandedFinitely'
<1> SUFFICES ASSUME NEW s \in Services, NEW p \in Periods
             PROVE  IsFiniteSet(LandedVersions(s, p)')
  BY DEF LandedFinitely
<1>1. IsFiniteSet(LandedVersions(s, p) \cup {<<p, v>>})
  BY FS_AddElement DEF LandedFinitely
<1>2. \A w \in Contents : manifest'[<<s, p>>][w] # 0 => manifest[<<s, p>>][w] # 0 \/ w = v
  BY DEF TypeOK, Store!Acquire, Artifacts
<1>3. LandedVersions(s, p)' \in SUBSET (LandedVersions(s, p) \cup {<<p, v>>})
  <2> SUFFICES ASSUME NEW x \in {p} \X Contents, manifest'[<<s, p>>][x[2]] # 0
               PROVE  x \in LandedVersions(s, p) \cup {<<p, v>>}
    BY DEF LandedVersions
  <2>1. x = <<p, x[2]>> /\ x[2] \in Contents
    OBVIOUS
  <2> QED
    BY <1>2, <2>1 DEF LandedVersions
<1> QED
  BY <1>1, <1>3, FS_Subset

(* A report is of services that have just been verified; of what is        *)
(* compared, the number of versions is what the conclusion needs.          *)
VersionsAgree(s) == Cardinality(Ingested(s)) = Cardinality(LandedVersions(s, period))

VerifiedAtReport == pc = "report" => \A s \in services : VersionsAgree(s)

ReplayInv == OccurrenceInv /\ AppendedInv /\ LandedFinitely /\ VerifiedAtReport

LEMMA ReplayInit == Init => ReplayInv
<1> SUFFICES ASSUME Init
             PROVE  ReplayInv
  OBVIOUS
<1>1. AppendedInv /\ VerifiedAtReport
  BY DEF Init, AppendedInv, VerifiedAtReport
<1>2. ASSUME NEW s \in Services, NEW p \in Periods
      PROVE  LandedVersions(s, p) = {}
  BY DEF Init, LandedVersions, Artifacts
<1> QED
  BY <1>1, <1>2, InitEstablishes, FS_EmptySet DEF ReplayInv, LandedFinitely

(* A command that is gone has nothing to replay and nothing to report.     *)
LEMMA EndForgets ==
  ASSUME End
  PROVE  AppendedInv' /\ VerifiedAtReport'
  BY DEF End, AppendedInv, VerifiedAtReport

LEMMA ReplayStep == ReplayInv /\ [Next]_vars => ReplayInv'
<1> SUFFICES ASSUME ReplayInv, [Next]_vars
             PROVE  AppendedInv' /\ LandedFinitely' /\ VerifiedAtReport'
  BY StepPreserves DEF ReplayInv
<1>0. /\ OccurrenceInv /\ TypeOK /\ AppendedInv /\ LandedFinitely /\ VerifiedAtReport
      /\ todo \subseteq services /\ services \subseteq Services
  BY DEF ReplayInv, OccurrenceInv, TypeOK
<1>1. ASSUME manifest' = manifest
      PROVE  LandedFinitely'
  BY <1>0, <1>1 DEF LandedFinitely, LandedVersions
<1>2. ASSUME NEW what \in {"run", "land"}, NEW whose \in (SUBSET Services) \ {{}},
             NEW p \in Periods, Begin(what, whose, p)
      PROVE  AppendedInv' /\ LandedFinitely' /\ VerifiedAtReport'
  BY <1>0, <1>1, <1>2 DEF Begin, AppendedInv, VerifiedAtReport
<1>3. ASSUME NEW s \in todo, Land(s)
      PROVE  AppendedInv' /\ LandedFinitely' /\ VerifiedAtReport'
  <2>1. <<s, period>> \in Artifacts /\ sample[<<s, period>>] \in Contents
    BY <1>0, <1>3, ContentsAssumption DEF Land, TypeOK, Artifacts, Nothing
  <2>2. LandedFinitely'
    BY <1>0, <1>3, <2>1, AcquireFinitely DEF Land
  <2>3. /\ UNCHANGED <<services, period, table, pass, first>>
        /\ pc' = "land" \/ (pc' = "ingest" /\ todo' = services)
    BY <1>3 DEF Land, Continue
  <2>4. pass = "replay" => \A q \in services : Appended(q, first)
    BY <1>0 DEF AppendedInv
  <2> QED
    BY <2>2, <2>3, <2>4 DEF AppendedInv, VerifiedAtReport, Appended
<1>4. ASSUME NEW s \in todo, LandLast(s)
      PROVE  AppendedInv' /\ LandedFinitely' /\ VerifiedAtReport'
  <2>1. <<s, period>> \in Artifacts /\ sample[<<s, period>>] \in Contents
    BY <1>0, <1>4, ContentsAssumption DEF LandLast, TypeOK, Artifacts, Nothing
  <2> QED
    BY <1>0, <1>4, <2>1, AcquireFinitely, EndForgets DEF LandLast
<1>5. ASSUME NEW s \in todo, Ingest(s)
      PROVE  AppendedInv' /\ LandedFinitely' /\ VerifiedAtReport'
  <2>1. /\ UNCHANGED <<manifest, services, pass>> /\ pc = "ingest" /\ pc' \in {"ingest", "verify"}
        /\ pc' = "verify" => todo = {s}
        /\ todo' = todo \ {s}
    BY <1>5 DEF Ingest, Continue
  <2>2. /\ \A q \in services \ todo' : Appended(q, landed)'
        /\ pc' = "verify" => \A q \in services : Appended(q, landed)'
    BY <1>0, <1>5, <2>1, IngestAppends DEF AppendedInv
  <2>3. pass = "replay" => \A q \in services : Appended(q, first)'
    BY <1>0, <1>5, IngestAppends DEF AppendedInv
  <2> QED
    BY <1>1, <2>1, <2>2, <2>3 DEF AppendedInv, VerifiedAtReport
<1>6. CASE VerifyFirst
  BY <1>0, <1>1, <1>6 DEF VerifyFirst, Continue, AppendedInv, VerifiedAtReport, Appended
<1>7. CASE VerifyReplay
  <2>1. /\ UNCHANGED <<manifest, table, services, period, pass, first>>
        /\ pc' = "report" /\ pass = "replay"
    BY <1>7 DEF VerifyReplay, Continue
  <2>2. \A s \in services : VersionsAgree(s)'
    <3>1. \A s \in services : VersionsAgree(s)
      BY <1>7 DEF VerifyReplay, Verified, VersionsAgree
    <3> QED
      BY <2>1, <3>1 DEF VersionsAgree, Ingested, LandedVersions
  <2>3. \A s \in services : Appended(s, first)'
    BY <1>0, <2>1 DEF AppendedInv, Appended
  <2> QED
    BY <1>1, <2>1, <2>2, <2>3 DEF AppendedInv, VerifiedAtReport
<1>8. CASE RefuseVerify
  BY <1>1, <1>8, EndForgets DEF RefuseVerify
<1>9. CASE Report
  BY <1>1, <1>9, EndForgets DEF Report
<1>10. CASE Fail
  BY <1>1, <1>10, EndForgets DEF Fail
<1>11. CASE (\E a \in Artifacts, v \in Contents : Resample(a, v)) \/ UNCHANGED vars
  <2>1. UNCHANGED <<manifest, table, pc, services, period, pass, todo, landed, first>>
    BY <1>11 DEF Resample, vars, run
  <2>2. \A s \in services : VersionsAgree(s) => VersionsAgree(s)'
    BY <2>1 DEF VersionsAgree, Ingested, LandedVersions
  <2>3. AppendedInv'
    BY <1>0, <2>1 DEF AppendedInv, Appended
  <2>4. VerifiedAtReport'
    BY <1>0, <2>1, <2>2 DEF VerifiedAtReport
  <2> QED
    BY <1>1, <2>1, <2>3, <2>4
<1> QED
  BY <1>2, <1>3, <1>4, <1>5, <1>6, <1>7, <1>8, <1>9, <1>10, <1>11 DEF Next, RunStep

LEMMA AlwaysReplay == Spec => []ReplayInv
  BY ReplayInit, ReplayStep, PTL DEF Spec

(***************************************************************************)
(* Replaying a pass writes nothing: a second pass over the versions of the *)
(* first leaves every table as it is, whatever else the tables hold and    *)
(* whatever died before the run.                                           *)
(***************************************************************************)
THEOREM ReplayIsIdempotent == Spec => ReplayWritesNothing
<1>1. ASSUME ReplayInv, [Next]_vars, pass = "replay", landed = first
      PROVE  UNCHANGED table
  <2>1. ASSUME NEW s \in todo, Ingest(s)
        PROVE  UNCHANGED table
    <3>1. s \in services /\ (Appended(s, landed) => table' = table)
      BY <1>1, <2>1, IngestAppends DEF ReplayInv
    <3> QED
      BY <1>1, <3>1 DEF ReplayInv, AppendedInv, Appended
  <2> QED
    BY <1>1, <2>1 DEF Next, RunStep, Begin, Land, LandLast, VerifyFirst, VerifyReplay, RefuseVerify,
       Report, Fail, Resample, vars
<1> QED
  BY <1>1, AlwaysReplay, PTL DEF Spec, ReplayWritesNothing

(***************************************************************************)
(* Verification compares numbers, and the numbers are enough: as long as   *)
(* the tables hold no other period, what a verified run reports on is      *)
(* exactly what is landed of its period. A table holds landed versions     *)
(* only, they are finitely many, and as many of them are in it as there    *)
(* are.                                                                    *)
(***************************************************************************)
THEOREM VerifiedIsComplete == Spec => []VerifiedPeriodComplete
<1>1. ASSUME ReplayInv, pc = "report", NEW s \in services,
             Ingested(s) \subseteq {period} \X Contents
      PROVE  Complete(s)
  <2>1. s \in Services /\ period \in Periods /\ TypeOK /\ IngestedOnce
    BY <1>1 DEF ReplayInv, OccurrenceInv, TypeOK
  <2>2. /\ IsFiniteSet(LandedVersions(s, period))
        /\ Cardinality(Ingested(s)) = Cardinality(LandedVersions(s, period))
    BY <1>1, <2>1 DEF ReplayInv, LandedFinitely, VerifiedAtReport, VersionsAgree
  <2>3. Ingested(s) \in SUBSET LandedVersions(s, period)
    <3> SUFFICES ASSUME NEW x \in Ingested(s)
                 PROVE  x \in LandedVersions(s, period)
      OBVIOUS
    <3>1. x \in {period} \X Contents /\ x[1] = period /\ x[2] \in Contents
      BY <1>1
    <3>2. table[<<s, period>>][x[2]] > 0 /\ <<s, period>> \in Artifacts
      BY <2>1, <3>1 DEF Ingested, Artifacts
    <3>3. table[<<s, period>>][x[2]] = 1
      BY <2>1, <3>1, <3>2 DEF TypeOK, IngestedOnce
    <3> QED
      BY <2>1, <3>1, <3>2, <3>3 DEF IngestedOnce, LandedVersions
  <2> QED
    BY <2>2, <2>3, FS_Subset DEF Complete
<1>2. ReplayInv => VerifiedPeriodComplete
  BY <1>1 DEF VerifiedPeriodComplete
<1> QED
  BY <1>2, AlwaysReplay, PTL
=============================================================================
