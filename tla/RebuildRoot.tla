----------------------------- MODULE RebuildRoot -----------------------------
(***************************************************************************)
(* The scratch directory of the rebuild, src/fareline/m2/paths.py, as the  *)
(* runs of src/fareline/m2/pipeline.py use it: an absent or empty          *)
(* directory is claimed with a marker, a claimed one is removed entry by   *)
(* entry and claimed again. Runs name their roots in free text, die        *)
(* anywhere, and share the file system with whoever else writes to it.     *)
(***************************************************************************)
EXTENDS FiniteSets

CONSTANTS
  Paths,      \* directories anyone names
  Above,      \* for each of them, itself and the directories above it
  Slash,      \* the root of the file system
  Protected   \* sources, landing root, evidence, package and checkout of every run

ASSUME PathsAssumption ==
  /\ Slash \in Paths /\ Protected \subseteq Paths /\ Above[Slash] = {Slash}
  /\ Above \in [Paths -> SUBSET Paths]
  /\ \A p \in Paths : {p, Slash} \subseteq Above[p]
  /\ \A p \in Paths : \A q \in Above[p] : Above[q] \subseteq Above[p]
  /\ \A p \in Paths : \A q, r \in Above[p] : q \in Above[r] \/ r \in Above[q]

VARIABLES
  dirs,         \* directories that exist
  marker,       \* the rebuild marker in each: "none", "valid" or "unusable"
  files,        \* <<directory, origin>> of the other files
  pc,           \* next step of the run in progress, or "idle"
  root,         \* its rebuild root
  warehouse,    \* its warehouse root
  cleared,      \* whether its rebuild root was removed already
  interrupted   \* roots in which a run died while it cleared or marked them

run == <<root, warehouse, cleared>>
vars == <<dirs, marker, files, pc, run, interrupted>>

(* A rebuild writes "rebuild" files; what others put where no marker says   *)
(* that it may go is "precious", and the rest is "disposable".              *)
Origins == {"rebuild", "precious", "disposable"}

TypeOK ==
  /\ dirs \subseteq Paths
  /\ marker \in [Paths -> {"none", "valid", "unusable"}]
  /\ files \subseteq Paths \X Origins
  /\ \A d \in dirs : Above[d] \subseteq dirs
  /\ \A d \in Paths : marker[d] # "none" => d \in dirs
  /\ \A f \in files : f[1] \in dirs
  /\ pc \in {"idle", "work", "prepare", "claim", "mark", "remove", "build", "measure"}
  /\ root \in Paths /\ warehouse \in Paths
  /\ cleared \in BOOLEAN
  /\ interrupted \subseteq Paths

Init ==
  /\ dirs = {Slash} \cup UNION {Above[p] : p \in Protected}
  /\ marker = [p \in Paths |-> "none"]
  /\ files = Protected \X {"precious"}
  /\ pc = "idle" /\ root = Slash /\ warehouse = Slash /\ cleared = FALSE
  /\ interrupted = {}

-----------------------------------------------------------------------------
(* What a run asks of the file system.                                     *)

In(p, q) == q \in Above[p]

(* Mutant: a root above a protected directory is overlooked.                *)
OverlapsInside(p, q) == In(p, q)

Overlaps(p, q) == In(p, q) \/ In(q, p)

(* verify_rebuild_root                                                     *)
Allowed(r, w) == r # Slash /\ \A p \in Protected \cup {w} : ~ Overlaps(r, p)

(* Mutant: only files are looked for.                                       *)
EmptyOfFiles(d) == marker[d] = "none" /\ \A f \in files : f[1] # d

Empty(d) ==
  /\ marker[d] = "none"
  /\ \A f \in files : f[1] # d
  /\ \A e \in dirs : In(e, d) => e = d

(* A valid marker makes what lies below disposable, and so does a run that  *)
(* is about to write one or is clearing the directory.                      *)
Disposable(p) ==
  \/ \E q \in Above[p] : marker[q] = "valid"
  \/ In(p, root) /\ pc \in {"claim", "mark", "remove"}

OriginAt(p) == IF Disposable(p) THEN "disposable" ELSE "precious"

-----------------------------------------------------------------------------
(* The steps of a run.                                                     *)

End ==
  /\ pc' = "idle" /\ root' = Slash /\ warehouse' = Slash /\ cleared' = FALSE

(* A run whose roots overlap raises here and changes nothing.              *)
Start(r, w) ==
  /\ pc = "idle" /\ Allowed(r, w)
  /\ pc' = "work" /\ root' = r /\ warehouse' = w
  /\ UNCHANGED <<dirs, marker, files, cleared, interrupted>>

(* Everything up to the rebuild: the run's own data.                       *)
Work ==
  /\ pc = "work"
  /\ dirs' = dirs \cup Above[warehouse]
  /\ files' = files \cup {<<warehouse, OriginAt(warehouse)>>}
  /\ pc' = "prepare"
  /\ UNCHANGED <<marker, run, interrupted>>

(* prepare_rebuild_root, before the removal and again after it.            *)
Make ==
  /\ pc = "prepare" /\ root \notin dirs
  /\ dirs' = dirs \cup Above[root]
  /\ pc' = "claim"
  /\ UNCHANGED <<marker, files, run, interrupted>>

ClaimEmpty ==
  /\ pc = "prepare" /\ root \in dirs /\ Empty(root)
  /\ pc' = "claim"
  /\ UNCHANGED <<dirs, marker, files, run, interrupted>>

Own ==
  /\ pc = "prepare" /\ root \in dirs /\ marker[root] = "valid"
  /\ pc' = IF cleared THEN "build" ELSE "remove"
  /\ UNCHANGED <<dirs, marker, files, run, interrupted>>

Refuse ==
  /\ pc = "prepare" /\ root \in dirs /\ marker[root] # "valid" /\ ~ Empty(root)
  /\ End
  /\ UNCHANGED <<dirs, marker, files, interrupted>>

(* Opening the marker for writing empties it.                              *)
OpenMarker ==
  /\ pc = "claim"
  /\ marker' = [marker EXCEPT ![root] = "unusable"]
  /\ pc' = "mark"
  /\ UNCHANGED <<dirs, files, run, interrupted>>

WriteMarker ==
  /\ pc = "mark"
  /\ marker' = [marker EXCEPT ![root] = "valid"]
  /\ pc' = IF cleared THEN "build" ELSE "remove"
  /\ UNCHANGED <<dirs, files, run, interrupted>>

(* rmtree takes the entries in the order the file system lists them.       *)
RemoveFile(f) ==
  /\ pc = "remove" /\ In(f[1], root)
  /\ files' = files \ {f}
  /\ UNCHANGED <<dirs, marker, pc, run, interrupted>>

RemoveMarker(d) ==
  /\ pc = "remove" /\ In(d, root) /\ marker[d] # "none"
  /\ marker' = [marker EXCEPT ![d] = "none"]
  /\ UNCHANGED <<dirs, files, pc, run, interrupted>>

(* Mutant: a cleared root is built in without being claimed again.          *)
RemoveDirAndBuild(d) ==
  /\ pc = "remove" /\ In(d, root) /\ Empty(d)
  /\ dirs' = IF d = root THEN dirs ELSE dirs \ {d}
  /\ pc' = IF d = root THEN "build" ELSE "remove"
  /\ cleared' = (d = root)
  /\ UNCHANGED <<marker, files, root, warehouse, interrupted>>

(* Mutant: removal errors are ignored.                                      *)
RemoveDirIgnoringErrors(d) ==
  /\ pc = "remove" /\ In(d, root)
  /\ dirs' = IF Empty(d) THEN dirs \ {d} ELSE dirs
  /\ pc' = IF d = root THEN "prepare" ELSE "remove"
  /\ cleared' = (d = root)
  /\ UNCHANGED <<marker, files, root, warehouse, interrupted>>

RemoveDir(d) ==
  /\ pc = "remove" /\ In(d, root) /\ Empty(d)
  /\ dirs' = dirs \ {d}
  /\ pc' = IF d = root THEN "prepare" ELSE "remove"
  /\ cleared' = (d = root)
  /\ UNCHANGED <<marker, files, root, warehouse, interrupted>>

(* The tables, markers and boundary of the rebuild.                        *)
Build ==
  /\ pc = "build"
  /\ files' = files \cup {<<root, "rebuild">>}
  /\ pc' = "measure"
  /\ UNCHANGED <<dirs, marker, run, interrupted>>

(* The rest of the run leaves the rebuild root alone.                      *)
Measure ==
  /\ pc = "measure"
  /\ End
  /\ UNCHANGED <<dirs, marker, files, interrupted>>

RunStep ==
  \/ Work
  \/ Make \/ ClaimEmpty \/ Own \/ Refuse
  \/ OpenMarker \/ WriteMarker
  \/ \E f \in files : RemoveFile(f)
  \/ \E d \in dirs : RemoveMarker(d) \/ RemoveDir(d)
  \/ Build \/ Measure

(* A step raises, an entry that came or stayed keeps a directory from       *)
(* being removed, or the process is killed.                                 *)
Die ==
  /\ pc # "idle"
  /\ interrupted' = IF pc \in {"mark", "remove"} THEN interrupted \cup {root}
                    ELSE interrupted
  /\ End
  /\ UNCHANGED <<dirs, marker, files>>

(* Anyone else creates directories and files, at any time.                 *)
Put(p) ==
  /\ dirs' = dirs \cup Above[p]
  /\ files' = files \cup {<<p, OriginAt(p)>>}
  /\ UNCHANGED <<marker, pc, run, interrupted>>

MakeDirectory(p) ==
  /\ dirs' = dirs \cup Above[p]
  /\ UNCHANGED <<marker, files, pc, run, interrupted>>

Next ==
  \/ \E r, w \in Paths : Start(r, w)
  \/ RunStep
  \/ Die
  \/ \E p \in Paths \ {Slash} : Put(p) \/ MakeDirectory(p)

Spec == Init /\ [][Next]_vars

-----------------------------------------------------------------------------
(* What the claim promises.                                                *)

(***************************************************************************)
(* A file that was put where no claim said otherwise stays, whichever      *)
(* roots later runs are given and wherever they die.                       *)
(***************************************************************************)
PreciousSurvive ==
  [][\A f \in files : f[2] = "precious" => f \in files']_vars

(***************************************************************************)
(* A run never removes a file of its own warehouse or of a protected       *)
(* directory, not even where an earlier run left a marker above it.        *)
(***************************************************************************)
ProtectedSurvive ==
  [][\A f \in files \ files' : \A p \in Protected \cup {warehouse} : ~ In(f[1], p)]_vars

(***************************************************************************)
(* When a rebuild starts to write, nothing an earlier one wrote is left.   *)
(***************************************************************************)
BuiltFromNothing ==
  pc = "build" => \A f \in files : In(f[1], root) => f[2] # "rebuild"

(***************************************************************************)
(* Leftovers of a rebuild without a valid marker beside them, and markers  *)
(* that cannot be read, lie only where a run died while it cleared or      *)
(* marked the root: no other sequence of runs leaves its own work in a     *)
(* root that every later run refuses. It says nothing of a root that       *)
(* others put files in between its removal and its claim; that one is      *)
(* refused with nobody dead, and holds files of theirs only.               *)
(***************************************************************************)
LockoutTakesDeath ==
  pc = "idle" =>
    \A d \in Paths :
      /\ marker[d] # "valid"
      /\ marker[d] = "unusable" \/ <<d, "rebuild">> \in files
      => \E q \in Above[d] : q \in interrupted
=============================================================================
