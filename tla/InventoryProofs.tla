-------------------------- MODULE InventoryProofs --------------------------
(***************************************************************************)
(* What landing takes on the word of the evidence was written down by an   *)
(* inspection, for any artifacts, evidence files and selections, and       *)
(* however often the sources change.                                       *)
(***************************************************************************)
EXTENDS Inventory, TLAPS

(***************************************************************************)
(* The strengthening: the hashes a landing has read were recorded, like    *)
(* those of the evidence it read them from, though that may have been      *)
(* rewritten since; a landing without evidence has none.                   *)
(***************************************************************************)
EvidenceRecorded ==
  \A o \in Outputs, a \in Artifacts :
    evidence[o][a] # Nothing => <<a, evidence[o][a]>> \in recorded

ExpectedRecorded ==
  /\ \A a \in Artifacts :
       expected[a] # Nothing => Bound /\ <<a, expected[a]>> \in recorded
  /\ step = "idle" => expected = NoHashes

InventoryInv == TypeOK /\ EvidenceRecorded /\ ExpectedRecorded /\ AttestedWasRecorded

LEMMA InitEstablishes == Init => InventoryInv
  BY NumberAssumption, ChoiceAssumption, CountAssumption, BoundAssumption
     DEF Init, InventoryInv, TypeOK, EvidenceRecorded, ExpectedRecorded,
         AttestedWasRecorded, NoHashes, Nothing, Bound, Store!Init

(***************************************************************************)
(* Every step of an inspection but the last leaves what was recorded.      *)
(***************************************************************************)
LEMMA InspectionPreserves == InventoryInv /\ InspectionStep => InventoryInv'
<1> SUFFICES ASSUME InventoryInv, InspectionStep
             PROVE  InventoryInv'
  OBVIOUS
<1> USE NumberAssumption, ChoiceAssumption, CountAssumption
        DEF InventoryInv, TypeOK, EvidenceRecorded, ExpectedRecorded, AttestedWasRecorded,
            NoHashes, Nothing, Bound, disk, landing, store, Elsewhere
<1>1. CASE HeadersAnswered
  BY <1>1 DEF HeadersAnswered, AfterHeaders
<1>2. CASE LookupAnswered
  BY <1>2 DEF LookupAnswered
<1>3. CASE Stop /\ UNCHANGED disk /\ Elsewhere
  BY <1>3 DEF Stop
<1>4. CASE TimedOut
  <2>1. CASE attempt < Attempts
    <3>1. /\ attempt' = attempt + 1
          /\ UNCHANGED <<disk, landing, store, revisions, pc, output, files, todo, taken>>
      BY <1>4, <2>1 DEF TimedOut
    <3>2. attempt' \in 1 .. Attempts
      BY <2>1, <3>1
    <3> QED
      BY <3>1, <3>2
  <2> QED
    BY <1>3, <1>4, <2>1 DEF TimedOut
<1>5. CASE Refused
  BY <1>5 DEF Refused
<1>6. ASSUME NEW a \in todo, StartCopy(a)
      PROVE  InventoryInv'
  BY <1>6 DEF StartCopy, Torn
<1>7. ASSUME NEW a \in todo, FinishCopy(a)
      PROVE  InventoryInv'
  BY <1>7 DEF FinishCopy
<1>8. CASE OpenEvidence
  BY <1>8 DEF OpenEvidence
<1>9. CASE WriteEvidence
  BY <1>9 DEF WriteEvidence, Stop
<1> QED
  BY <1>1, <1>2, <1>3, <1>4, <1>5, <1>6, <1>7, <1>8, <1>9 DEF InspectionStep, LookupRefused, HttpError

(***************************************************************************)
(* A landing reads hashes that are recorded and attests the one it         *)
(* compared with the bytes.                                                *)
(***************************************************************************)
LEMMA LandingPreserves == InventoryInv /\ LandingStep => InventoryInv'
<1> SUFFICES ASSUME InventoryInv, NEW a \in asked,
                    ReadHashes(a) \/ RefuseEvidence(a) \/ Acquire(a) \/ RefuseSample(a)
             PROVE  InventoryInv'
  BY DEF LandingStep
<1> USE NumberAssumption, ChoiceAssumption
        DEF InventoryInv, TypeOK, EvidenceRecorded, ExpectedRecorded, AttestedWasRecorded,
            NoHashes, Nothing, Bound, disk, inspection, store, Inspecting
<1>1. CASE ReadHashes(a)
  BY <1>1 DEF ReadHashes, Readable, EvidenceOf, NoOutput
<1>2. CASE RefuseEvidence(a) \/ RefuseSample(a)
  <2>1. End /\ UNCHANGED store /\ Inspecting
    BY <1>2 DEF RefuseEvidence, RefuseSample
  <2> QED
    BY <2>1 DEF End
<1>3. CASE Acquire(a)
  <2> DEFINE v == sample[a]
  <2>1. /\ v \in Contents
        /\ manifest' = [manifest EXCEPT ![a][v] = IF @ = 0 THEN 1 ELSE @]
        /\ attested' = IF manifest[a][v] # 0 THEN attested
                       ELSE [attested EXCEPT ![a][v] = expected[a]]
        /\ UNCHANGED <<disk, inspection, revisions>>
    BY <1>3 DEF Acquire, Acceptable, Store!Acquire
  <2>2. expected[a] # Nothing => expected[a] = v /\ <<a, v>> \in recorded
    BY <1>3 DEF Acquire, Acceptable
  <2>3. AttestedWasRecorded'
    BY <2>1, <2>2
  <2>4. manifest' \in [Artifacts -> [Contents -> 0 .. 1]]
    <3> DEFINE stamp == IF manifest[a][v] = 0 THEN 1 ELSE manifest[a][v]
    <3>1. stamp \in 0 .. 1
      <4>1. a \in Artifacts /\ manifest[a] \in [Contents -> 0 .. 1]
        OBVIOUS
      <4> HIDE DEF InventoryInv, v
      <4>2. manifest[a][v] \in 0 .. 1
        BY <2>1, <4>1
      <4> QED
        BY <4>2
    <3>2. manifest' = [manifest EXCEPT ![a][v] = stamp]
      BY <2>1
    <3> HIDE DEF stamp
    <3> QED
      BY <2>1, <3>1, <3>2
  <2>5. attested' \in [Artifacts -> [Contents -> Contents \cup {Nothing}]]
    BY <2>1
  <2>6. CASE asked = {a}
    <3>1. End
      BY <1>3, <2>6 DEF Acquire
    <3> HIDE DEF AttestedWasRecorded
    <3> QED
      BY <2>1, <2>3, <2>4, <2>5, <3>1 DEF End
  <2>7. CASE asked # {a}
    <3>1. /\ asked' = asked \ {a} /\ step' \in {"read", "acquire"} /\ step # "idle"
          /\ expected' \in {expected, NoHashes}
          /\ UNCHANGED <<command, source, against>>
      BY <1>3, <2>7 DEF Acquire
    <3> HIDE DEF AttestedWasRecorded
    <3> QED
      BY <2>1, <2>3, <2>4, <2>5, <3>1
  <2> QED
    BY <2>6, <2>7
<1> QED
  BY <1>1, <1>2, <1>3

LEMMA StepPreserves == InventoryInv /\ [Next]_vars => InventoryInv'
<1> SUFFICES ASSUME InventoryInv, [Next]_vars
             PROVE  InventoryInv'
  OBVIOUS
<1> USE NumberAssumption, ChoiceAssumption, CountAssumption, BoundAssumption
        DEF InventoryInv, TypeOK, EvidenceRecorded, ExpectedRecorded, AttestedWasRecorded,
            NoHashes, Nothing, Bound, disk, inspection, landing, store
<1>1. ASSUME NEW o \in Outputs, NEW which \in Selections, Inspect(o, which)
      PROVE  InventoryInv'
  BY <1>1 DEF Inspect, Elsewhere
<1>2. CASE InspectionStep
  BY <1>2, InspectionPreserves
<1>3. ASSUME NEW which \in Selections, BeginM1(which)
      PROVE  InventoryInv'
  <2>1. which \subseteq Artifacts
    OBVIOUS
  <2>2. against' \in {"evidence", "nothing"}
    BY <1>3 DEF BeginM1
  <2> QED
    BY <1>3, <2>1, <2>2 DEF BeginM1, Inspecting
<1>4. ASSUME NEW which \in Selections, BeginM2(which)
      PROVE  InventoryInv'
  BY <1>4 DEF BeginM2, Inspecting
<1>5. CASE LandingStep
  BY <1>5, LandingPreserves
<1>6. CASE KillInspection
  BY <1>6 DEF KillInspection, Stop
<1>7. CASE KillLanding
  BY <1>7 DEF KillLanding, End, Inspecting
<1>8. ASSUME NEW a \in Artifacts, NEW v \in Contents, Revise(a, v)
      PROVE  InventoryInv'
  BY <1>8 DEF Revise
<1>9. CASE UNCHANGED vars
  BY <1>9 DEF vars
<1> QED
  BY <1>1, <1>2, <1>3, <1>4, <1>5, <1>6, <1>7, <1>8, <1>9 DEF Next

(***************************************************************************)
(* A manifest that names the hash of the evidence is that of a sample an   *)
(* inspection wrote down.                                                  *)
(***************************************************************************)
THEOREM AttestedRecorded == Spec => [](TypeOK /\ AttestedWasRecorded)
<1>1. InventoryInv => TypeOK /\ AttestedWasRecorded
  BY DEF InventoryInv
<1> QED
  BY InitEstablishes, StepPreserves, <1>1, PTL DEF Spec
=============================================================================
