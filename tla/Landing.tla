------------------------------ MODULE Landing ------------------------------
(***************************************************************************)
(* Versioned landing, src/fareline/m1/landing.py, step by step. One        *)
(* process at a time acquires one artifact: it fetches the source into     *)
(* _incoming, hashes and validates it, and then replays, repairs or        *)
(* publishes the version those bytes are. It can raise or be killed        *)
(* between any two file operations. A source version stands for its hash,  *)
(* so the name of a version directory is a function of its bytes.          *)
(***************************************************************************)
EXTENDS Naturals, FiniteSets

CONSTANTS
  Artifacts,    \* logical artifacts
  Contents,     \* source versions an artifact can ever have
  MaxStamp,     \* bound on the clock readings of published_at_utc
  DamageKinds,  \* what may become of a landed file: absent, corrupt, directory
  MaxFailures,  \* bound on acquisitions that raise or are killed
  MaxChanges    \* bound on what happens to the sources and to landed files

ASSUME ContentsAssumption == Contents \subseteq Nat \ {0}

ASSUME StampAssumption == MaxStamp \in Nat \ {0}

ASSUME DamageAssumption == DamageKinds \subseteq {"absent", "corrupt", "directory"}

ASSUME BoundAssumption == MaxFailures \in Nat /\ MaxChanges \in Nat

VARIABLES
  source,     \* the content each source holds now, or Nothing
  file,       \* files/<artifact>/<version>/<name>
  manifest,   \* published_at_utc of manifest/<artifact>/<version>.json
  edited,     \* manifests that no longer agree with their version
  published,  \* number of "published" events of each version
  pc,         \* next step of the acquisition in progress, or "idle"
  artifact,   \* the artifact it acquires
  version,    \* the version its bytes are, once fetched
  failures, changes

store == <<file, manifest>>
vars == <<source, store, edited, published, pc, artifact, version, failures, changes>>

(* A source that is missing, empty or fails its validation.                *)
Nothing == 0

TypeOK ==
  /\ source \in [Artifacts -> Contents \cup {Nothing}]
  /\ file \in [Artifacts -> [Contents -> {"good", "absent", "corrupt", "directory"}]]
  /\ manifest \in [Artifacts -> [Contents -> 0 .. MaxStamp]]
  /\ edited \subseteq Artifacts \X Contents
  /\ published \in [Artifacts -> [Contents -> Nat]]
  /\ pc \in {"idle", "fetch", "inspect", "repaired", "placed", "manifested"}
  /\ artifact \in Artifacts
  /\ version \in Contents \cup {Nothing}
  /\ version = Nothing <=> pc \in {"idle", "fetch"}
  /\ failures \in 0 .. MaxFailures
  /\ changes \in 0 .. MaxChanges

Init ==
  /\ source \in [Artifacts -> Contents]
  /\ file = [a \in Artifacts |-> [v \in Contents |-> "absent"]]
  /\ manifest = [a \in Artifacts |-> [v \in Contents |-> 0]]
  /\ edited = {}
  /\ published = [a \in Artifacts |-> [v \in Contents |-> 0]]
  /\ pc = "idle" /\ artifact \in Artifacts /\ version = Nothing
  /\ failures = 0 /\ changes = 0

-----------------------------------------------------------------------------
(* The acquisition in progress.                                            *)

Landed(a, v) == manifest[a][v] # 0

(* acquire returns or raises ArtifactRejected.                              *)
Finish ==
  /\ pc' = "idle"
  /\ version' = Nothing
  /\ UNCHANGED <<source, edited, artifact, failures, changes>>

Continue(step) ==
  /\ pc' = step
  /\ UNCHANGED <<source, edited, artifact, failures, changes>>

Begin(a) ==
  /\ pc = "idle"
  /\ pc' = "fetch"
  /\ artifact' = a
  /\ UNCHANGED <<source, store, edited, published, version, failures, changes>>

(* Mutant: what was fetched is not validated.                               *)
FetchAnything ==
  /\ pc = "fetch"
  /\ version' = source[artifact]
  /\ Continue("inspect")
  /\ UNCHANGED <<store, published>>

(* Copy or download, hash and validate.                                    *)
Fetch ==
  /\ pc = "fetch"
  /\ source[artifact] # Nothing
  /\ version' = source[artifact]
  /\ Continue("inspect")
  /\ UNCHANGED <<store, published>>

(* ArtifactRejected: the source is missing, empty, oversized, not what was *)
(* expected, or invalid. The rejected event names no version.              *)
RejectSource ==
  /\ pc = "fetch"
  /\ source[artifact] = Nothing
  /\ Finish
  /\ UNCHANGED <<store, published>>

(* A manifest that disagrees with the bytes, or a path that is not a file. *)
RejectVersion ==
  /\ pc = "inspect"
  /\ Landed(artifact, version)
  /\ <<artifact, version>> \in edited \/ file[artifact][version] = "directory"
  /\ Finish
  /\ UNCHANGED <<store, published>>

(* Mutant: a file of that name is taken for the version's bytes.            *)
ReplayTrustingName ==
  /\ pc = "inspect"
  /\ Landed(artifact, version) /\ <<artifact, version>> \notin edited
  /\ file[artifact][version] \in {"good", "corrupt"}
  /\ Finish
  /\ UNCHANGED <<store, published>>

(* Mutant: a replay is recorded as a publication.                           *)
ReplayAsPublished ==
  /\ pc = "inspect"
  /\ Landed(artifact, version) /\ <<artifact, version>> \notin edited
  /\ file[artifact][version] = "good"
  /\ published' = [published EXCEPT ![artifact][version] = @ + 1]
  /\ Finish
  /\ UNCHANGED store

(* Manifest and file are in place: only a "replayed" event is written.     *)
Replay ==
  /\ pc = "inspect"
  /\ Landed(artifact, version) /\ <<artifact, version>> \notin edited
  /\ file[artifact][version] = "good"
  /\ Finish
  /\ UNCHANGED <<store, published>>

(* The fetched bytes replace the missing or damaged file.                  *)
Repair ==
  /\ pc = "inspect"
  /\ Landed(artifact, version) /\ <<artifact, version>> \notin edited
  /\ file[artifact][version] \in {"absent", "corrupt"}
  /\ file' = [file EXCEPT ![artifact][version] = "good"]
  /\ Continue("repaired")
  /\ UNCHANGED <<manifest, published, version>>

(* The "repaired" event.                                                   *)
RecordRepair ==
  /\ pc = "repaired"
  /\ Finish
  /\ UNCHANGED <<store, published>>

(* Mutant: a version is published whether or not it has a manifest.         *)
PlaceAlways ==
  /\ pc = "inspect"
  /\ file' = [file EXCEPT ![artifact][version] = "good"]
  /\ Continue("placed")
  /\ UNCHANGED <<manifest, published, version>>

(* A new version: rename the file into place, over what an acquisition     *)
(* that died here may have left, ...                                       *)
Place ==
  /\ pc = "inspect"
  /\ ~ Landed(artifact, version)
  /\ file' = [file EXCEPT ![artifact][version] = "good"]
  /\ Continue("placed")
  /\ UNCHANGED <<manifest, published, version>>

(* ... then rename its manifest into place, which makes it visible, ...    *)
WriteManifest(now) ==
  /\ pc = "placed"
  /\ manifest' = [manifest EXCEPT ![artifact][version] = now]
  /\ Continue("manifested")
  /\ UNCHANGED <<file, published, version>>

(* Mutant: the event of a first publication is that of a replay.            *)
RecordPublicationAsReplay ==
  /\ pc = "manifested"
  /\ Finish
  /\ UNCHANGED <<store, published>>

(* ... then append the "published" event.                                  *)
RecordPublication ==
  /\ pc = "manifested"
  /\ published' = [published EXCEPT ![artifact][version] = @ + 1]
  /\ Finish
  /\ UNCHANGED store

AcquireStep ==
  \/ Fetch \/ RejectSource
  \/ RejectVersion \/ Replay
  \/ Repair \/ RecordRepair
  \/ Place \/ \E now \in 1 .. MaxStamp : WriteManifest(now)
  \/ RecordPublication

-----------------------------------------------------------------------------
(* What happens to an acquisition and around it.                           *)

(* The transport or a file operation raises something else than           *)
(* ArtifactRejected, or the process is killed: no event is written. The    *)
(* file a killed process leaves in _incoming has a fresh name and is never *)
(* looked at again.                                                        *)
Fail ==
  /\ pc # "idle"
  /\ failures < MaxFailures
  /\ failures' = failures + 1
  /\ pc' = "idle" /\ version' = Nothing
  /\ UNCHANGED <<source, store, edited, published, artifact, changes>>

(* Upstream publishes another content, or nothing that can be validated.   *)
ChangeSource(a, v) ==
  /\ changes < MaxChanges
  /\ v # source[a]
  /\ source' = [source EXCEPT ![a] = v]
  /\ changes' = changes + 1
  /\ UNCHANGED <<store, edited, published, pc, artifact, version, failures>>

(* A landed file disappears, is overwritten, or gives way to a directory.  *)
DamageFile(a, v, kind) ==
  /\ changes < MaxChanges
  /\ Landed(a, v) /\ file[a][v] = "good"
  /\ file' = [file EXCEPT ![a][v] = kind]
  /\ changes' = changes + 1
  /\ UNCHANGED <<source, manifest, edited, published, pc, artifact, version, failures>>

(* Somebody edits a manifest.                                              *)
EditManifest(a, v) ==
  /\ changes < MaxChanges
  /\ Landed(a, v)
  /\ edited' = edited \cup {<<a, v>>}
  /\ changes' = changes + 1
  /\ UNCHANGED <<source, store, published, pc, artifact, version, failures>>

Next ==
  \/ \E a \in Artifacts : Begin(a)
  \/ AcquireStep
  \/ Fail
  \/ \E a \in Artifacts, v \in Contents \cup {Nothing} : ChangeSource(a, v)
  \/ \E a \in Artifacts, v \in Contents :
       EditManifest(a, v) \/ \E kind \in DamageKinds : DamageFile(a, v, kind)

Spec == Init /\ [][Next]_vars

(***************************************************************************)
(* Fairness: a started acquisition keeps going, and every artifact is      *)
(* asked for again and again.                                              *)
(***************************************************************************)
FairSpec ==
  /\ Spec
  /\ WF_vars(AcquireStep)
  /\ \A a \in Artifacts : SF_vars(Begin(a))

-----------------------------------------------------------------------------
(* What the store promises.                                                *)

Readable(a, v) == Landed(a, v) /\ file[a][v] = "good"

Unreadable ==
  {p \in Artifacts \X Contents : Landed(p[1], p[2]) /\ ~ Readable(p[1], p[2])}

Store == INSTANCE LandingStore WITH damaged <- Unreadable

(***************************************************************************)
(* Whatever dies in between, readers see the store of LandingStore: a      *)
(* version appears at once and with its file, a repair changes nothing but *)
(* the file, and a manifest never changes.                                 *)
(***************************************************************************)
ImplementsLandingStore == Store!Spec

(***************************************************************************)
(* A version is published once: replays, repairs and retries of an         *)
(* acquisition that died never publish it again.                           *)
(***************************************************************************)
PublishedOnce ==
  \A a \in Artifacts, v \in Contents :
    /\ published[a][v] <= 1
    /\ published[a][v] = 1 => Landed(a, v)

Silent == {p \in Artifacts \X Contents : Landed(p[1], p[2]) /\ published[p[1]][p[2]] = 0}

(***************************************************************************)
(* The price of a manifest that precedes its event: a version may stay     *)
(* without a "published" event for good, but each takes a failure.         *)
(***************************************************************************)
SilenceTakesFailures ==
  Cardinality(Silent) <= failures + (IF pc = "manifested" THEN 1 ELSE 0)

(***************************************************************************)
(* What the sources hold in the end is landed and readable in the end,     *)
(* unless somebody put a directory in its place or edited its manifest.    *)
(***************************************************************************)
EventuallyReadable ==
  <>[](\A a \in Artifacts :
         \/ source[a] = Nothing
         \/ Readable(a, source[a])
         \/ <<a, source[a]>> \in edited \/ file[a][source[a]] = "directory")
=============================================================================
