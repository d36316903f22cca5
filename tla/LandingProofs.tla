--------------------------- MODULE LandingProofs ---------------------------
(***************************************************************************)
(* Landing implements LandingStore for every set of artifacts and source   *)
(* versions, and for any number of failures and changes.                   *)
(***************************************************************************)
EXTENDS Landing, FiniteSetTheorems, TLAPS

(***************************************************************************)
(* The strengthening: between the rename of a file and the rename of its   *)
(* manifest the file is good and the version is not landed, so the step    *)
(* that makes the version visible makes a readable one visible. Until its  *)
(* event is appended the version has none.                                 *)
(***************************************************************************)
PlacedUnseen ==
  pc = "placed" =>
    /\ ~ Landed(artifact, version)
    /\ file[artifact][version] = "good"

NotYetPublished ==
  /\ pc \in {"placed", "manifested"} => published[artifact][version] = 0
  /\ pc = "manifested" => Landed(artifact, version)

LandingInv == TypeOK /\ PlacedUnseen /\ PublishedOnce /\ NotYetPublished

LEMMA InitEstablishes == Init => LandingInv
  BY StampAssumption, BoundAssumption DEF Init, LandingInv, TypeOK, PlacedUnseen, PublishedOnce,
     NotYetPublished, Landed, Nothing

(***************************************************************************)
(* Every step of acquire, and everything that happens around it, keeps the *)
(* types and the strengthening.                                            *)
(***************************************************************************)
LEMMA StepPreserves == LandingInv /\ [Next]_vars => LandingInv'
<1> SUFFICES ASSUME LandingInv, [Next]_vars
             PROVE  LandingInv'
  OBVIOUS
<1> USE ContentsAssumption, StampAssumption, DamageAssumption, BoundAssumption
        DEF LandingInv, TypeOK, PlacedUnseen, PublishedOnce, NotYetPublished, Landed,
            store, Nothing
<1>1. ASSUME NEW a \in Artifacts, Begin(a)
      PROVE  LandingInv'
  BY <1>1 DEF Begin
<1>2. CASE Fetch
  BY <1>2 DEF Fetch, Continue
<1>3. CASE RejectSource \/ RejectVersion \/ Replay \/ RecordRepair
  BY <1>3 DEF RejectSource, RejectVersion, Replay, RecordRepair, Finish
<1>4. CASE Repair
  BY <1>4 DEF Repair, Continue
<1>5. CASE Place
  BY <1>5 DEF Place, Continue
<1>6. ASSUME NEW now \in 1 .. MaxStamp, WriteManifest(now)
      PROVE  LandingInv'
  BY <1>6 DEF WriteManifest, Continue
<1>7. CASE RecordPublication
  BY <1>7 DEF RecordPublication, Finish
<1>8. CASE Fail
  BY <1>8 DEF Fail
<1>9. ASSUME NEW a \in Artifacts, NEW v \in Contents \cup {Nothing}, ChangeSource(a, v)
      PROVE  LandingInv'
  BY <1>9 DEF ChangeSource
<1>10. ASSUME NEW a \in Artifacts, NEW v \in Contents, EditManifest(a, v)
       PROVE  LandingInv'
  BY <1>10 DEF EditManifest
<1>11. ASSUME NEW a \in Artifacts, NEW v \in Contents, NEW kind \in DamageKinds,
              DamageFile(a, v, kind)
       PROVE  LandingInv'
  BY <1>11 DEF DamageFile
<1>12. CASE UNCHANGED vars
  BY <1>12 DEF vars
<1> QED
  BY <1>1, <1>2, <1>3, <1>4, <1>5, <1>6, <1>7, <1>8, <1>9, <1>10, <1>11, <1>12
     DEF Next, AcquireStep

(***************************************************************************)
(* Landing is well-typed whatever the bounds: an acquisition knows its     *)
(* version exactly from the fetch on.                                      *)
(***************************************************************************)
THEOREM LandingTypeCorrect == Spec => []TypeOK
<1>1. Spec => []LandingInv
  BY InitEstablishes, StepPreserves, PTL DEF Spec
<1>2. LandingInv => TypeOK
  BY DEF LandingInv
<1> QED
  BY <1>1, <1>2, PTL

(***************************************************************************)
(* However often acquire is interrupted and retried, it appends at most    *)
(* one "published" event per version, and only for a landed one.           *)
(***************************************************************************)
THEOREM VersionsPublishedOnce == Spec => []PublishedOnce
<1>1. Spec => []LandingInv
  BY InitEstablishes, StepPreserves, PTL DEF Spec
<1>2. LandingInv => PublishedOnce
  BY DEF LandingInv
<1> QED
  BY <1>1, <1>2, PTL

(***************************************************************************)
(* Every step of acquire is a step of the store or invisible to it.        *)
(***************************************************************************)
LEMMA StepRefines == LandingInv /\ [Next]_vars => [Store!Next]_(Store!storeVars)
<1> SUFFICES ASSUME LandingInv, [Next]_vars
             PROVE  [Store!Next]_(Store!storeVars)
  OBVIOUS
<1> USE ContentsAssumption, StampAssumption, DamageAssumption
        DEF LandingInv, TypeOK, Landed, Readable, Unreadable, store, Nothing
<1>1. ASSUME UNCHANGED store
      PROVE  UNCHANGED Store!storeVars
  BY <1>1 DEF Store!storeVars
<1>2. CASE Repair
  <2>1. /\ pc = "inspect"
        /\ artifact \in Artifacts /\ version \in Contents
        /\ manifest[artifact][version] # 0
        /\ manifest' = manifest
        /\ file' = [file EXCEPT ![artifact][version] = "good"]
    BY <1>2 DEF Repair
  <2>2. Unreadable' = Unreadable \ {<<artifact, version>>}
    BY <2>1
  <2>3. Store!Acquire(artifact, version, 1)
    BY <2>1, <2>2 DEF Store!Acquire
  <2> QED
    BY <2>1, <2>3 DEF Store!Next
<1>3. CASE Place
  <2>1. /\ artifact \in Artifacts /\ version \in Contents
        /\ manifest[artifact][version] = 0
        /\ manifest' = manifest
        /\ file' = [file EXCEPT ![artifact][version] = "good"]
    BY <1>3 DEF Place
  <2>2. Unreadable' = Unreadable
    BY <2>1
  <2> QED
    BY <2>1, <2>2 DEF Store!storeVars
<1>4. ASSUME NEW now \in 1 .. MaxStamp, WriteManifest(now)
      PROVE  Store!Next
  <2>1. /\ artifact \in Artifacts /\ version \in Contents
        /\ manifest[artifact][version] = 0
        /\ file[artifact][version] = "good"
        /\ manifest' = [manifest EXCEPT ![artifact][version] = now]
        /\ file' = file
    BY <1>4 DEF WriteManifest, PlacedUnseen
  <2>2. Unreadable' = Unreadable \ {<<artifact, version>>}
    BY <2>1
  <2>3. Store!Acquire(artifact, version, now)
    BY <2>1, <2>2 DEF Store!Acquire
  <2> QED
    BY <2>1, <2>3 DEF Store!Next
<1>5. ASSUME NEW a \in Artifacts, NEW v \in Contents, NEW kind \in DamageKinds,
             DamageFile(a, v, kind)
      PROVE  Store!Next
  <2>1. /\ manifest[a][v] # 0 /\ file[a][v] = "good"
        /\ manifest' = manifest
        /\ file' = [file EXCEPT ![a][v] = kind]
        /\ kind # "good"
    BY <1>5 DEF DamageFile
  <2>2. Unreadable' = Unreadable \cup {<<a, v>>} /\ <<a, v>> \notin Unreadable
    BY <2>1
  <2> QED
    BY <2>1, <2>2 DEF Store!Next, Store!Damage
<1>6. CASE \/ Fetch \/ RejectSource \/ RejectVersion \/ Replay \/ RecordRepair
           \/ RecordPublication \/ Fail
  BY <1>1, <1>6 DEF Fetch, RejectSource, RejectVersion, Replay, RecordRepair,
     RecordPublication, Fail
<1>7. ASSUME NEW a \in Artifacts, NEW v \in Contents \cup {Nothing},
             Begin(a) \/ ChangeSource(a, v)
      PROVE  UNCHANGED Store!storeVars
  BY <1>1, <1>7 DEF Begin, ChangeSource
<1>8. ASSUME NEW a \in Artifacts, NEW v \in Contents, EditManifest(a, v)
      PROVE  UNCHANGED Store!storeVars
  BY <1>1, <1>8 DEF EditManifest
<1>9. CASE UNCHANGED vars
  BY <1>1, <1>9 DEF vars
<1> QED
  BY <1>2, <1>3, <1>4, <1>5, <1>6, <1>7, <1>8, <1>9 DEF Next, AcquireStep

(***************************************************************************)
(* The landing code implements the store the publication is written over:  *)
(* whatever raises or is killed between two file operations, a version     *)
(* appears at once and readable, and its manifest never changes.           *)
(***************************************************************************)
THEOREM LandingImplementsStore == Spec => ImplementsLandingStore
<1>1. Init => Store!Init
  <2> SUFFICES ASSUME Init PROVE Store!Init
    OBVIOUS
  <2>1. Unreadable = {}
    BY DEF Init, Unreadable, Landed
  <2> QED
    BY <2>1 DEF Init, Store!Init
<1>2. Spec => []LandingInv
  BY InitEstablishes, StepPreserves, PTL DEF Spec
<1> QED
  BY <1>1, <1>2, StepRefines, PTL DEF Spec, ImplementsLandingStore, Store!Spec

(***************************************************************************)
(* A manifest makes one version silent and its event makes that version    *)
(* heard; an acquisition that ends between the two has failed. Everything  *)
(* else leaves the silent versions as they are.                            *)
(***************************************************************************)
Silence == IsFiniteSet(Silent) /\ SilenceTakesFailures

LEMMA InitiallyHeard == Init => Silence
<1> SUFFICES ASSUME Init
             PROVE  Silence
  OBVIOUS
<1>1. Silent = {}
  BY DEF Init, Silent, Landed
<1>2. failures = 0 /\ pc = "idle"
  BY DEF Init
<1> QED
  BY <1>1, <1>2, FS_EmptySet DEF Silence, SilenceTakesFailures

LEMMA StepKeepsSilence == LandingInv /\ Silence /\ [Next]_vars => Silence'
<1> SUFFICES ASSUME LandingInv, Silence, [Next]_vars
             PROVE  Silence'
  OBVIOUS
<1> DEFINE here == <<artifact, version>>
           Count == Cardinality(Silent)
<1>1. /\ IsFiniteSet(Silent) /\ Count \in Nat
      /\ Count <= failures + (IF pc = "manifested" THEN 1 ELSE 0)
      /\ failures \in Nat
  BY FS_CardinalityType, BoundAssumption DEF Silence, SilenceTakesFailures, LandingInv, TypeOK
<1>2. ASSUME Silent' = Silent, failures' = failures, pc # "manifested" \/ pc' = "manifested"
      PROVE  Silence'
  <2>1. failures + (IF pc = "manifested" THEN 1 ELSE 0)
          <= failures' + (IF pc' = "manifested" THEN 1 ELSE 0)
    BY <1>1, <1>2
  <2> QED
    BY <1>1, <1>2, <2>1 DEF Silence, SilenceTakesFailures
<1>3. ASSUME UNCHANGED <<manifest, published>>
      PROVE  Silent' = Silent
  BY <1>3 DEF Silent, Landed
<1>4. ASSUME NEW now \in 1 .. MaxStamp, WriteManifest(now)
      PROVE  Silence'
  <2>1. /\ pc = "placed" /\ pc' = "manifested" /\ failures' = failures
        /\ manifest' = [manifest EXCEPT ![artifact][version] = now] /\ published' = published
    BY <1>4 DEF WriteManifest, Continue
  <2>2. artifact \in Artifacts /\ version \in Contents
    BY <2>1 DEF LandingInv, TypeOK
  <2>3. now # 0 /\ published[artifact][version] = 0
    BY <2>1, StampAssumption DEF LandingInv, NotYetPublished
  <2>4. \A a \in Artifacts, v \in Contents :
          manifest'[a][v] = IF <<a, v>> = here THEN now ELSE manifest[a][v]
    BY <2>1, <2>2 DEF LandingInv, TypeOK
  <2>5. Silent' = Silent \cup {here}
    BY <2>1, <2>2, <2>3, <2>4 DEF Silent, Landed
  <2>6. IsFiniteSet(Silent') /\ Cardinality(Silent') <= Count + 1
    BY <1>1, <2>5, FS_AddElement
  <2>7. Cardinality(Silent') \in Nat
    BY <2>6, FS_CardinalityType
  <2>8. Count <= failures
    BY <1>1, <2>1
  <2>9. Cardinality(Silent') <= failures' + 1
    BY <1>1, <2>1, <2>6, <2>7, <2>8
  <2> QED
    BY <2>1, <2>6, <2>9 DEF Silence, SilenceTakesFailures
<1>5. ASSUME RecordPublication
      PROVE  Silence'
  <2>1. /\ pc = "manifested" /\ pc' = "idle" /\ failures' = failures
        /\ published' = [published EXCEPT ![artifact][version] = @ + 1] /\ manifest' = manifest
    BY <1>5 DEF RecordPublication, Finish, store
  <2>2. artifact \in Artifacts /\ version \in Contents
    BY <2>1 DEF LandingInv, TypeOK
  <2>3. published[artifact][version] = 0 /\ manifest[artifact][version] # 0
    BY <2>1 DEF LandingInv, NotYetPublished, Landed
  <2>4. \A a \in Artifacts, v \in Contents :
          published'[a][v] = IF <<a, v>> = here THEN 1 ELSE published[a][v]
    BY <2>1, <2>2, <2>3 DEF LandingInv, TypeOK
  <2>5. Silent' = Silent \ {here} /\ here \in Silent
    BY <2>1, <2>2, <2>3, <2>4 DEF Silent, Landed
  <2>6. IsFiniteSet(Silent') /\ Cardinality(Silent') = Count - 1
    BY <1>1, <2>5, FS_RemoveElement
  <2>7. Cardinality(Silent') <= failures'
    BY <1>1, <2>1, <2>6
  <2> QED
    BY <1>1, <2>1, <2>6, <2>7 DEF Silence, SilenceTakesFailures
<1>6. ASSUME Fail
      PROVE  Silence'
  <2>1. pc' = "idle" /\ failures' = failures + 1 /\ UNCHANGED <<manifest, published>>
    BY <1>6 DEF Fail, store
  <2>2. Silent' = Silent
    BY <2>1, <1>3
  <2>3. Count <= failures'
    BY <1>1, <2>1
  <2> QED
    BY <1>1, <2>1, <2>2, <2>3 DEF Silence, SilenceTakesFailures
<1>7. ASSUME NEW a \in Artifacts, Begin(a)
      PROVE  Silence'
  BY <1>7, <1>2, <1>3 DEF Begin, store
<1>8. CASE Fetch \/ Repair \/ Place
  BY <1>8, <1>2, <1>3 DEF Fetch, Repair, Place, Continue, store
<1>9. CASE RejectSource \/ RejectVersion \/ Replay \/ RecordRepair
  BY <1>9, <1>2, <1>3 DEF RejectSource, RejectVersion, Replay, RecordRepair, Finish, store
<1>10. ASSUME NEW a \in Artifacts, NEW v \in Contents \cup {Nothing}, ChangeSource(a, v)
       PROVE  Silence'
  BY <1>10, <1>2, <1>3 DEF ChangeSource, store
<1>11. ASSUME NEW a \in Artifacts, NEW v \in Contents, EditManifest(a, v)
       PROVE  Silence'
  BY <1>11, <1>2, <1>3 DEF EditManifest, store
<1>12. ASSUME NEW a \in Artifacts, NEW v \in Contents, NEW kind \in DamageKinds,
              DamageFile(a, v, kind)
       PROVE  Silence'
  BY <1>12, <1>2, <1>3 DEF DamageFile
<1>13. CASE UNCHANGED vars
  BY <1>13, <1>2, <1>3 DEF vars, store
<1> QED
  BY <1>4, <1>5, <1>6, <1>7, <1>8, <1>9, <1>10, <1>11, <1>12, <1>13 DEF Next, AcquireStep

(***************************************************************************)
(* However many acquisitions die, and whatever becomes of sources, files   *)
(* and manifests, no more landed versions lack a "published" event than    *)
(* acquisitions have failed, but for the one in progress.                  *)
(***************************************************************************)
THEOREM SilenceIsFailure == Spec => []SilenceTakesFailures
<1>1. Spec => [](LandingInv /\ Silence)
  BY InitEstablishes, StepPreserves, InitiallyHeard, StepKeepsSilence, PTL DEF Spec
<1>2. Silence => SilenceTakesFailures
  BY DEF Silence
<1> QED
  BY <1>1, <1>2, PTL
=============================================================================
