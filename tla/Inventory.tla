----------------------------- MODULE Inventory -----------------------------
(***************************************************************************)
(* The inspection of the sources, src/fareline/m0.py, and what is landed   *)
(* on its word. An inspection asks for the headers of the annual files,    *)
(* replaces the samples one at a time, fetches the zone lookup and writes, *)
(* last of all, the evidence with the hash of each sample. It can raise or *)
(* be killed at any step, and what it has replaced by then stays. M1 and   *)
(* M2 land the samples meanwhile, and refuse one whose hash is not in the  *)
(* evidence they have read. A content stands for its hash.                 *)
(***************************************************************************)
EXTENDS Integers

CONSTANTS
  Artifacts,     \* trip artifacts, numbered in the order they are worked through
  Selections,    \* sets of them that a command names
  Contents,      \* contents a sample can ever have
  FirstContent,  \* what every source holds in the beginning
  Outputs,       \* evidence files, numbered in the order M2 is given them
  M1Evidence,    \* the one M1 reads
  Annual,        \* number of files of the inventory year
  Attempts,      \* requests made before a timeout is raised
  MaxRevisions   \* bound on sources that change

ASSUME NumberAssumption ==
  /\ Artifacts \subseteq Nat /\ Selections \subseteq SUBSET Artifacts
  /\ Outputs \subseteq Nat /\ Contents \subseteq Nat \ {0}

ASSUME ChoiceAssumption == FirstContent \in Contents /\ M1Evidence \in Outputs

ASSUME CountAssumption == Annual \in Nat \ {0} /\ Attempts \in Nat \ {0}

ASSUME BoundAssumption == MaxRevisions \in Nat

VARIABLES
  remote,    \* what a sample of each source would hold now
  sample,    \* the file in the sample directory: its content, Nothing or Torn
  state,     \* each evidence file: "absent", "torn" or "whole"
  evidence,  \* the hashes a whole one records
  recorded,  \* every hash an evidence file ever recorded
  pc,        \* next step of the inspection in progress, or "idle"
  output,    \* the evidence file it will write
  files,     \* annual files whose headers are still to come
  attempt,   \* number of the request in progress
  todo,      \* samples still to take
  taken,     \* the hashes of those it has taken
  step,      \* next step of the landing in progress, or "idle"
  command,   \* "m1" or "m2"
  asked,     \* artifacts it has still to land
  source,    \* the evidence file M2 chose for each artifact, or NoOutput
  against,   \* what it compares samples with, "evidence" or "nothing"
  expected,  \* the hashes it has read
  manifest,  \* the landing store: which versions have landed
  attested,  \* m0_sample_sha256 of each manifest, the hash the evidence had
  revisions  \* how often a source changed

disk == <<remote, sample, state, evidence, recorded>>
inspection == <<pc, output, files, attempt, todo, taken>>
landing == <<step, command, asked, source, against, expected>>
store == <<manifest, attested>>
vars == <<disk, inspection, landing, store, revisions>>

Nothing == 0

Torn == -1

NoOutput == -1

NoHashes == [a \in Artifacts |-> Nothing]

(* No landed file is damaged, and one clock reading is as good as another. *)
Store == INSTANCE LandingStore WITH damaged <- {}, MaxStamp <- 1

TypeOK ==
  /\ remote \in [Artifacts -> Contents]
  /\ sample \in [Artifacts -> Contents \cup {Nothing, Torn}]
  /\ state \in [Outputs -> {"absent", "torn", "whole"}]
  /\ evidence \in [Outputs -> [Artifacts -> Contents \cup {Nothing}]]
  /\ recorded \subseteq Artifacts \X Contents
  /\ pc \in {"idle", "head", "get", "sample", "copying", "zones", "open", "write"}
  /\ output \in Outputs
  /\ files \in 0 .. Annual
  /\ pc \in {"head", "get"} => files > 0
  /\ attempt \in 1 .. Attempts
  /\ todo \subseteq Artifacts
  /\ taken \in [Artifacts -> Contents \cup {Nothing}]
  /\ step \in {"idle", "read", "acquire"}
  /\ command \in {"m1", "m2"}
  /\ asked \subseteq Artifacts
  /\ source \in [Artifacts -> Outputs \cup {NoOutput}]
  /\ against \in {"evidence", "nothing"}
  /\ expected \in [Artifacts -> Contents \cup {Nothing}]
  /\ manifest \in [Artifacts -> [Contents -> 0 .. 1]]
  /\ attested \in [Artifacts -> [Contents -> Contents \cup {Nothing}]]
  /\ revisions \in 0 .. MaxRevisions

Init ==
  /\ remote = [a \in Artifacts |-> FirstContent]
  /\ sample = [a \in Artifacts |-> Nothing]
  /\ state = [o \in Outputs |-> "absent"]
  /\ evidence = [o \in Outputs |-> NoHashes]
  /\ recorded = {}
  /\ pc = "idle" /\ output = M1Evidence /\ files = 0 /\ attempt = 1
  /\ todo = {} /\ taken = NoHashes
  /\ step = "idle" /\ command = "m1" /\ asked = {} /\ against = "nothing"
  /\ source = [a \in Artifacts |-> NoOutput]
  /\ expected = NoHashes
  /\ Store!Init
  /\ attested = [a \in Artifacts |-> [v \in Contents |-> Nothing]]
  /\ revisions = 0

Bound == against = "evidence"

IsNext(a, work) == a \in work /\ \A b \in work : a <= b

-----------------------------------------------------------------------------
(* The inspection.                                                         *)

Elsewhere == UNCHANGED <<landing, store, revisions>>

(* The report is lost with the process, the replaced samples are not.       *)
Stop ==
  /\ pc' = "idle" /\ files' = 0 /\ attempt' = 1 /\ todo' = {} /\ taken' = NoHashes
  /\ output' = M1Evidence

(* Without --sample-rows the evidence is written again without samples.     *)
Inspect(o, which) ==
  /\ pc = "idle"
  /\ pc' = "head" /\ output' = o /\ files' = Annual /\ todo' = which
  /\ UNCHANGED <<disk, attempt, taken>> /\ Elsewhere

Requesting == pc \in {"head", "get", "zones"}

AfterHeaders == IF files > 1 THEN "head" ELSE IF todo # {} THEN "sample" ELSE "zones"

HeadersAnswered ==
  /\ pc \in {"head", "get"}
  /\ pc' = AfterHeaders /\ files' = files - 1 /\ attempt' = 1
  /\ UNCHANGED <<disk, output, todo, taken>> /\ Elsewhere

(* Repeated or malformed identifiers are counted, not refused; a lookup     *)
(* that is too large or lacks a column is.                                  *)
LookupAnswered ==
  /\ pc = "zones" /\ pc' = "open" /\ attempt' = 1
  /\ UNCHANGED <<disk, output, files, todo, taken>> /\ Elsewhere

LookupRefused == pc = "zones" /\ Stop /\ UNCHANGED disk /\ Elsewhere

(* Mutant: the last timeout starts the attempts again.                      *)
TimedOutForever ==
  /\ Requesting
  /\ attempt' = IF attempt < Attempts THEN attempt + 1 ELSE 1
  /\ UNCHANGED <<disk, pc, output, files, todo, taken>> /\ Elsewhere

(* A timeout or a connection that fails is tried again, the last one raised. *)
TimedOut ==
  /\ Requesting
  /\ IF attempt < Attempts
       THEN attempt' = attempt + 1 /\ UNCHANGED <<pc, output, files, todo, taken>>
       ELSE Stop
  /\ UNCHANGED disk /\ Elsewhere

(* Mutant: the fallback is asked for its headers like the request before.   *)
RefusedAgain ==
  /\ pc \in {"head", "get"}
  /\ pc' = IF pc = "head" THEN "get" ELSE "head"
  /\ attempt' = 1
  /\ UNCHANGED <<disk, output, files, todo, taken>> /\ Elsewhere

(* 403 or 405 to HEAD: one byte is asked for instead.                      *)
Refused ==
  /\ pc = "head"
  /\ pc' = "get" /\ attempt' = 1
  /\ UNCHANGED <<disk, output, files, todo, taken>> /\ Elsewhere

(* Any other HTTP error, and any error of the fallback, is raised at once.  *)
HttpError == Requesting /\ Stop /\ UNCHANGED disk /\ Elsewhere

(* What is at the target until the copy is complete is up to DuckDB.        *)
StartCopy(a) ==
  /\ pc = "sample" /\ IsNext(a, todo)
  /\ pc' = "copying"
  /\ \E partial \in {sample[a], Torn} : sample' = [sample EXCEPT ![a] = partial]
  /\ UNCHANGED <<remote, state, evidence, recorded, output, files, attempt, todo, taken>>
  /\ Elsewhere

FinishCopy(a) ==
  /\ pc = "copying" /\ IsNext(a, todo)
  /\ sample' = [sample EXCEPT ![a] = remote[a]]
  /\ taken' = [taken EXCEPT ![a] = remote[a]]
  /\ todo' = todo \ {a}
  /\ pc' = IF todo = {a} THEN "zones" ELSE "sample"
  /\ UNCHANGED <<remote, state, evidence, recorded, output, files, attempt>> /\ Elsewhere

(* write_text empties the file before it fills it.                         *)
OpenEvidence ==
  /\ pc = "open" /\ pc' = "write"
  /\ state' = [state EXCEPT ![output] = "torn"]
  /\ evidence' = [evidence EXCEPT ![output] = NoHashes]
  /\ UNCHANGED <<remote, sample, recorded, output, files, attempt, todo, taken>> /\ Elsewhere

WriteEvidence ==
  /\ pc = "write" /\ Stop
  /\ state' = [state EXCEPT ![output] = "whole"]
  /\ evidence' = [evidence EXCEPT ![output] = taken]
  /\ recorded' = recorded \cup {x \in Artifacts \X Contents : taken[x[1]] = x[2]}
  /\ UNCHANGED <<remote, sample>> /\ Elsewhere

InspectionStep ==
  \/ HeadersAnswered \/ LookupAnswered \/ LookupRefused
  \/ TimedOut \/ Refused \/ HttpError
  \/ \E a \in todo : StartCopy(a) \/ FinishCopy(a)
  \/ OpenEvidence \/ WriteEvidence

-----------------------------------------------------------------------------
(* The landing.                                                            *)

Inspecting == UNCHANGED <<disk, inspection, revisions>>

End ==
  /\ step' = "idle" /\ command' = "m1" /\ asked' = {} /\ against' = "nothing"
  /\ source' = [a \in Artifacts |-> NoOutput]
  /\ expected' = NoHashes

(* Without an evidence file the landing command lands anything; the slice   *)
(* does not start.                                                          *)
BeginM1(which) ==
  /\ step = "idle"
  /\ step' = "read" /\ command' = "m1" /\ asked' = which
  /\ against' = IF state[M1Evidence] = "absent" THEN "nothing" ELSE "evidence"
  /\ UNCHANGED <<source, expected, store>> /\ Inspecting

Naming(a) == {o \in Outputs : evidence[o][a] # Nothing}

(* evidence_index: the last file that names a sample is its evidence. One   *)
(* that cannot be parsed stops the run.                                     *)
BeginM2(which) ==
  /\ step = "idle"
  /\ \A o \in Outputs : state[o] # "torn"
  /\ step' = "read" /\ command' = "m2" /\ asked' = which /\ against' = "evidence"
  /\ source' \in [Artifacts -> Outputs \cup {NoOutput}]
  /\ \A a \in Artifacts :
       IF Naming(a) = {} THEN source'[a] = NoOutput
       ELSE source'[a] \in Naming(a) /\ \A o \in Naming(a) : o <= source'[a]
  /\ UNCHANGED <<expected, store>> /\ Inspecting

(* The file that will be read for an artifact: M1 reads the same for all,   *)
(* before the first.                                                        *)
EvidenceOf(a) == IF command = "m1" THEN M1Evidence ELSE source[a]

Readable(a) == Bound => EvidenceOf(a) # NoOutput /\ state[EvidenceOf(a)] # "torn"

ReadHashes(a) ==
  /\ step = "read" /\ IsNext(a, asked) /\ Readable(a)
  /\ expected' = IF Bound THEN evidence[EvidenceOf(a)] ELSE NoHashes
  /\ step' = "acquire"
  /\ UNCHANGED <<command, asked, source, against, store>> /\ Inspecting

(* EvidenceMissing, or JSON that does not parse.                           *)
RefuseEvidence(a) ==
  /\ step = "read" /\ IsNext(a, asked) /\ ~ Readable(a)
  /\ End
  /\ UNCHANGED <<store>> /\ Inspecting

(* Mutant: that the evidence names a hash is enough.                        *)
AcceptableNamed(a) ==
  /\ sample[a] \in Contents
  /\ Bound => expected[a] # Nothing

(* The bytes are there, are Parquet, and are those the evidence names.      *)
Acceptable(a) ==
  /\ sample[a] \in Contents
  /\ Bound => expected[a] = sample[a]

(* A new manifest keeps the hash of the evidence; an old one stays as it is. *)
Acquire(a) ==
  /\ step = "acquire" /\ IsNext(a, asked) /\ Acceptable(a)
  /\ Store!Acquire(a, sample[a], 1)
  /\ attested' = IF manifest[a][sample[a]] # 0 THEN attested
                 ELSE [attested EXCEPT ![a][sample[a]] = expected[a]]
  /\ IF asked = {a} THEN End
     ELSE /\ asked' = asked \ {a}
          /\ IF command = "m1" THEN UNCHANGED <<step, expected>>
             ELSE step' = "read" /\ expected' = NoHashes
          /\ UNCHANGED <<command, source, against>>
  /\ Inspecting

RefuseSample(a) ==
  /\ step = "acquire" /\ IsNext(a, asked) /\ ~ Acceptable(a)
  /\ End
  /\ UNCHANGED <<store>> /\ Inspecting

LandingStep ==
  \E a \in asked : ReadHashes(a) \/ RefuseEvidence(a) \/ Acquire(a) \/ RefuseSample(a)

-----------------------------------------------------------------------------
(* What happens around them.                                               *)

(* An inspection raises elsewhere or is killed.                            *)
KillInspection ==
  /\ pc # "idle"
  /\ Stop
  /\ UNCHANGED <<disk, landing, store, revisions>>

KillLanding ==
  /\ step # "idle"
  /\ End
  /\ UNCHANGED store /\ Inspecting

(* The source changes, or a sample is asked for with another row limit.     *)
Revise(a, v) ==
  /\ revisions < MaxRevisions /\ revisions' = revisions + 1
  /\ v # remote[a] /\ remote' = [remote EXCEPT ![a] = v]
  /\ UNCHANGED <<sample, state, evidence, recorded, inspection, landing, store>>

Next ==
  \/ \E o \in Outputs, which \in Selections : Inspect(o, which)
  \/ InspectionStep
  \/ \E which \in Selections \ {{}} : BeginM1(which) \/ BeginM2(which)
  \/ LandingStep
  \/ KillInspection \/ KillLanding
  \/ \E a \in Artifacts, v \in Contents : Revise(a, v)

Spec == Init /\ [][Next]_vars

(* An inspection that is not killed keeps going.                           *)
FairSpec == Spec /\ WF_vars(InspectionStep)

-----------------------------------------------------------------------------

(***************************************************************************)
(* A manifest that names the hash of the evidence is that of the sample    *)
(* some inspection wrote down, though inspections die between replacing a  *)
(* sample and recording it, rewrite the evidence and the samples while     *)
(* they are being landed, or leave the evidence torn.                      *)
(***************************************************************************)
AttestedWasRecorded ==
  \A a \in Artifacts, v \in Contents :
    attested[a][v] # Nothing => attested[a][v] = v /\ <<a, v>> \in recorded

(***************************************************************************)
(* Every inspection ends, whatever the servers answer and however often    *)
(* they do not: requests are tried a bounded number of times, the fallback *)
(* once per file.                                                          *)
(***************************************************************************)
InspectionEnds == pc # "idle" ~> pc = "idle"
=============================================================================
