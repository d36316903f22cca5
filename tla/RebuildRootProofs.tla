------------------------- MODULE RebuildRootProofs -------------------------
(***************************************************************************)
(* RebuildRoot is well-typed and never removes a file that was put where   *)
(* no claim said otherwise, for any tree of directories.                   *)
(***************************************************************************)
EXTENDS RebuildRoot, TLAPS

(***************************************************************************)
(* The strengthening: no precious file lies below a valid marker, or below *)
(* the root of a run that has found it empty and not ended since.          *)
(***************************************************************************)
PreciousIsUnclaimed == \A f \in files : f[2] = "precious" => ~ Disposable(f[1])

(* What is being claimed or cleared was verified and exists.               *)
RootExists == pc \in {"claim", "mark", "remove", "build"} => root \in dirs

RootInv == TypeOK /\ PreciousIsUnclaimed /\ RootExists

LEMMA InitEstablishes == Init => RootInv
<1> SUFFICES ASSUME Init
             PROVE  RootInv
  OBVIOUS
<1> USE PathsAssumption
<1>1. dirs \subseteq Paths
  BY DEF Init
<1>2. \A d \in dirs : Above[d] \subseteq dirs
  <2>1. Above[Slash] \subseteq dirs
    BY DEF Init
  <2>2. ASSUME NEW p \in Protected
        PROVE  \A d \in Above[p] : Above[d] \subseteq dirs
    BY DEF Init
  <2> QED
    BY <2>1, <2>2 DEF Init
<1>3. \A f \in files : f \in Paths \X Origins /\ f[1] \in dirs
  BY DEF Init, Origins
<1>4. TypeOK
  BY <1>1, <1>2, <1>3 DEF Init, TypeOK
<1>5. PreciousIsUnclaimed /\ RootExists
  BY <1>3 DEF Init, PreciousIsUnclaimed, RootExists, Disposable
<1> QED
  BY <1>4, <1>5 DEF RootInv

(***************************************************************************)
(* An empty directory has no file below it: whatever lies there has its    *)
(* own directory, and that one exists.                                     *)
(***************************************************************************)
LEMMA EmptyHoldsNothing ==
  ASSUME TypeOK, NEW d \in Paths, Empty(d), NEW f \in files
  PROVE  ~ In(f[1], d)
  BY PathsAssumption DEF TypeOK, Empty, In

(***************************************************************************)
(* What others put, and what a run writes in its warehouse, is precious    *)
(* only where nothing is claimed.                                          *)
(***************************************************************************)
LEMMA PutPreserves ==
  ASSUME RootInv, NEW p \in Paths,
         dirs' = dirs \cup Above[p], files' = files \cup {<<p, OriginAt(p)>>},
         UNCHANGED <<marker, root, warehouse, cleared, interrupted>>,
         pc' = pc \/ (pc = "work" /\ pc' = "prepare")
  PROVE  RootInv'
  <1> USE DEF RootInv
  <1>1. TypeOK'
    BY PathsAssumption DEF TypeOK, OriginAt, Origins
  <1>2. \A q \in Paths : Disposable(q)' => Disposable(q)
    BY DEF Disposable
  <1>3. PreciousIsUnclaimed'
    BY <1>2 DEF PreciousIsUnclaimed, OriginAt, TypeOK
  <1>4. RootExists'
    BY DEF RootExists, TypeOK
  <1> QED
    BY <1>1, <1>3, <1>4

(***************************************************************************)
(* Every step keeps the invariant.                                         *)
(***************************************************************************)
LEMMA StepPreserves == RootInv /\ [Next]_vars => RootInv'
<1> SUFFICES ASSUME RootInv, [Next]_vars
             PROVE  RootInv'
  OBVIOUS
<1>0. TypeOK /\ PreciousIsUnclaimed /\ RootExists
  BY DEF RootInv
<1> USE PathsAssumption
<1>1. ASSUME NEW r \in Paths, NEW w \in Paths, Start(r, w)
      PROVE  RootInv'
  BY <1>0, <1>1 DEF Start, RootInv, TypeOK, PreciousIsUnclaimed, RootExists, Disposable
<1>2. CASE Work
  BY <1>0, <1>2, PutPreserves DEF Work, run, RootInv, TypeOK
<1>3. CASE Make
  <2>1. \A f \in files : ~ In(f[1], root)
    BY <1>0, <1>3 DEF Make, TypeOK, In
  <2> QED
    BY <1>0, <1>3, <2>1
       DEF Make, run, RootInv, TypeOK, PreciousIsUnclaimed, RootExists, Disposable
<1>4. CASE ClaimEmpty
  <2>1. \A f \in files : ~ In(f[1], root)
    BY <1>0, <1>4, EmptyHoldsNothing DEF ClaimEmpty, TypeOK
  <2> QED
    BY <1>0, <1>4, <2>1
       DEF ClaimEmpty, run, RootInv, TypeOK, PreciousIsUnclaimed, RootExists, Disposable
<1>5. CASE Own
  BY <1>0, <1>5
     DEF Own, run, RootInv, TypeOK, PreciousIsUnclaimed, RootExists, Disposable, In
<1>6. CASE Refuse
  BY <1>0, <1>6
     DEF Refuse, End, RootInv, TypeOK, PreciousIsUnclaimed, RootExists, Disposable
<1>7. CASE OpenMarker
  BY <1>0, <1>7
     DEF OpenMarker, run, RootInv, TypeOK, PreciousIsUnclaimed, RootExists, Disposable
<1>8. CASE WriteMarker
  <2>1. \A p \in Paths : Disposable(p)' => Disposable(p)
    BY <1>0, <1>8 DEF WriteMarker, run, TypeOK, Disposable, In
  <2> QED
    BY <1>0, <1>8, <2>1 DEF WriteMarker, run, RootInv, TypeOK, PreciousIsUnclaimed, RootExists
<1>9. ASSUME NEW f \in files, RemoveFile(f)
      PROVE  RootInv'
  BY <1>0, <1>9
     DEF RemoveFile, run, RootInv, TypeOK, PreciousIsUnclaimed, RootExists, Disposable
<1>10. ASSUME NEW d \in dirs, RemoveMarker(d)
       PROVE  RootInv'
  BY <1>0, <1>10
     DEF RemoveMarker, run, RootInv, TypeOK, PreciousIsUnclaimed, RootExists, Disposable
<1>11. ASSUME NEW d \in dirs, RemoveDir(d)
       PROVE  RootInv'
  <2>1. TypeOK'
    <3>1. \A e \in dirs : In(e, d) => e = d
      BY <1>11 DEF RemoveDir, Empty
    <3> QED
      BY <1>0, <1>11, <3>1 DEF RemoveDir, Empty, In, TypeOK
  <2>2. PreciousIsUnclaimed'
    BY <1>0, <1>11 DEF RemoveDir, PreciousIsUnclaimed, Disposable, TypeOK
  <2>3. RootExists'
    BY <1>0, <1>11 DEF RemoveDir, RootExists, TypeOK
  <2> QED
    BY <2>1, <2>2, <2>3 DEF RootInv
<1>12. CASE Build
  BY <1>0, <1>12
     DEF Build, run, RootInv, TypeOK, Origins, PreciousIsUnclaimed, RootExists, Disposable
<1>13. CASE Measure
  BY <1>0, <1>13
     DEF Measure, End, RootInv, TypeOK, PreciousIsUnclaimed, RootExists, Disposable
<1>14. CASE Die
  BY <1>0, <1>14 DEF Die, End, RootInv, TypeOK, PreciousIsUnclaimed, RootExists, Disposable
<1>15. ASSUME NEW p \in Paths, Put(p)
       PROVE  RootInv'
  BY <1>0, <1>15, PutPreserves DEF Put, run, RootInv
<1>16. ASSUME NEW p \in Paths, MakeDirectory(p)
       PROVE  RootInv'
  BY <1>0, <1>16
     DEF MakeDirectory, run, RootInv, TypeOK, PreciousIsUnclaimed, RootExists, Disposable
<1>17. CASE UNCHANGED vars
  BY <1>0, <1>17 DEF vars, run, RootInv, TypeOK, PreciousIsUnclaimed, RootExists, Disposable
<1> QED
  BY <1>1, <1>2, <1>3, <1>4, <1>5, <1>6, <1>7, <1>8, <1>9, <1>10, <1>11, <1>12, <1>13, <1>14,
     <1>15, <1>16, <1>17 DEF Next, RunStep

(***************************************************************************)
(* The tree stays well-formed: what is in a directory has that directory.  *)
(***************************************************************************)
THEOREM TreeTypeCorrect == Spec => []TypeOK
<1>1. Spec => []RootInv
  BY InitEstablishes, StepPreserves, PTL DEF Spec
<1>2. RootInv => TypeOK
  BY DEF RootInv
<1> QED
  BY <1>1, <1>2, PTL

(***************************************************************************)
(* Only RemoveFile removes files, only below the root of the run, and      *)
(* nothing precious lies there.                                            *)
(***************************************************************************)
THEOREM OthersFilesSurvive == Spec => PreciousSurvive
<1>1. Spec => []RootInv
  BY InitEstablishes, StepPreserves, PTL DEF Spec
<1>2. RootInv /\ [Next]_vars => [\A f \in files : f[2] = "precious" => f \in files']_vars
  <2> SUFFICES ASSUME RootInv, Next, NEW f \in files, f[2] = "precious"
               PROVE  f \in files'
    BY DEF vars, run
  <2>1. ~ Disposable(f[1])
    BY DEF RootInv, PreciousIsUnclaimed
  <2>2. ASSUME NEW g \in files, RemoveFile(g)
        PROVE  f \in files'
    BY <2>1, <2>2 DEF RemoveFile, Disposable
  <2> QED
    BY <2>2 DEF Next, RunStep, Start, Work, Make, ClaimEmpty, Own, Refuse, OpenMarker, WriteMarker,
       RemoveMarker, RemoveDir, Build, Measure, Die, Put, MakeDirectory
<1> QED
  BY <1>1, <1>2, PTL DEF Spec, PreciousSurvive

(***************************************************************************)
(* Only RemoveFile removes files.                                          *)
(***************************************************************************)
LEMMA OnlyRemovalRemoves ==
  ASSUME Next, NEW f \in files, f \notin files'
  PROVE  RemoveFile(f)
<1>1. ASSUME NEW g \in files, RemoveFile(g)
      PROVE  RemoveFile(f)
  <2>1. f = g
    BY <1>1 DEF RemoveFile
  <2> QED
    BY <1>1, <2>1
<1> QED
  BY <1>1 DEF Next, RunStep, Start, Work, Make, ClaimEmpty, Own, Refuse, OpenMarker, WriteMarker,
     RemoveMarker, RemoveDir, Build, Measure, Die, Put, MakeDirectory

(***************************************************************************)
(* The roots of a run in progress were found apart from each other and     *)
(* from what is protected.                                                 *)
(***************************************************************************)
RootsAllowed == pc # "idle" => Allowed(root, warehouse)

LEMMA RootsStayAllowed == RootsAllowed /\ [Next]_vars => RootsAllowed'
  BY DEF RootsAllowed, Allowed, Next, RunStep, Start, Work, Make, ClaimEmpty, Own, Refuse,
     OpenMarker, WriteMarker, RemoveFile, RemoveMarker, RemoveDir, Build, Measure, Die, End, Put,
     MakeDirectory, run, vars

(***************************************************************************)
(* A file below both the root and a protected directory would put one of   *)
(* them in the other, which was refused before the run began.              *)
(***************************************************************************)
THEOREM ProtectedFilesSurvive == Spec => ProtectedSurvive
<1>1. Init => RootsAllowed
  BY DEF Init, RootsAllowed
<1>2. Spec => []RootInv
  BY InitEstablishes, StepPreserves, PTL DEF Spec
<1>3. Spec => []RootsAllowed
  BY <1>1, RootsStayAllowed, PTL DEF Spec
<1>4. RootInv /\ RootsAllowed /\ [Next]_vars =>
        [\A f \in files \ files' : \A p \in Protected \cup {warehouse} : ~ In(f[1], p)]_vars
  <2> SUFFICES ASSUME RootInv, RootsAllowed, Next, NEW f \in files, f \notin files',
                      NEW p \in Protected \cup {warehouse}, In(f[1], p)
               PROVE  FALSE
    BY DEF vars, run
  <2>1. pc = "remove" /\ In(f[1], root)
    BY OnlyRemovalRemoves DEF RemoveFile
  <2>2. Overlaps(root, p)
    BY <2>1, PathsAssumption DEF RootInv, TypeOK, In, Overlaps
  <2> QED
    BY <2>1, <2>2 DEF RootsAllowed, Allowed
<1> QED
  BY <1>2, <1>3, <1>4, PTL DEF Spec, ProtectedSurvive

(***************************************************************************)
(* The strengthening for the other two: a root is cleared before it is     *)
(* built in, one that is being claimed holds nothing of Fareline's but its *)
(* marker, one that is built in has a valid marker, and leftovers without  *)
(* one lie below a death or below the clearing in progress.                *)
(***************************************************************************)
ClearedFirst ==
  /\ pc = "build" => cleared
  /\ pc \in {"idle", "work", "remove"} => ~ cleared

NothingRebuilt(d) == \A f \in files : In(f[1], d) => f[2] # "rebuild"

ClearedIsBare ==
  cleared /\ pc \in {"prepare", "claim", "mark", "build"} => NothingRebuilt(root)

ClaimedIsBare ==
  pc \in {"claim", "mark"} =>
    /\ NothingRebuilt(root)
    /\ \A d \in Paths : In(d, root) /\ (d # root \/ pc = "claim") => marker[d] = "none"

BuiltIsMarked == pc \in {"build", "measure"} => marker[root] = "valid"

Leftover(d) ==
  marker[d] # "valid" /\ (marker[d] = "unusable" \/ <<d, "rebuild">> \in files)

Explained(d) ==
  \E q \in Above[d] : q \in interrupted \/ (q = root /\ pc \in {"mark", "remove"})

LeftoversExplained == \A d \in Paths : Leftover(d) => Explained(d)

ClearInv ==
  RootInv /\ ClearedFirst /\ ClearedIsBare /\ ClaimedIsBare /\ BuiltIsMarked /\ LeftoversExplained

LEMMA InitClear == Init => ClearInv
  BY InitEstablishes
     DEF Init, ClearInv, ClearedFirst, ClearedIsBare, ClaimedIsBare, BuiltIsMarked,
         LeftoversExplained, Leftover

(* Steps that touch neither the files nor the markers, and end the run.    *)
LEMMA EndKeepsClear ==
  ASSUME ClearInv, RootInv', End, UNCHANGED <<marker, files>>,
         pc \in {"mark", "remove"} => root \in interrupted',
         interrupted \subseteq interrupted'
  PROVE  ClearInv'
  BY DEF End, ClearInv, ClearedFirst, ClearedIsBare, ClaimedIsBare, BuiltIsMarked,
         LeftoversExplained, Leftover, Explained

(* Nobody else writes what a rebuild writes.                               *)
LEMMA PutKeepsClear ==
  ASSUME ClearInv, RootInv', NEW p \in Paths,
         files' = files \cup {<<p, OriginAt(p)>>},
         UNCHANGED <<marker, root, warehouse, cleared, interrupted>>,
         pc' = pc \/ (pc = "work" /\ pc' = "prepare")
  PROVE  ClearInv'
<1>1. OriginAt(p) # "rebuild"
  BY DEF OriginAt
<1>2. \A d \in Paths : NothingRebuilt(d) => NothingRebuilt(d)'
  BY <1>1 DEF NothingRebuilt, In
<1>3. \A d \in Paths : Leftover(d)' => Leftover(d)
  BY <1>1 DEF Leftover
<1>4. root \in Paths /\ root' = root
  BY DEF ClearInv, RootInv, TypeOK
<1>5. ClearedFirst' /\ BuiltIsMarked'
  BY DEF ClearInv, ClearedFirst, BuiltIsMarked
<1>6. ClearedIsBare' /\ ClaimedIsBare'
  BY <1>2, <1>4 DEF ClearInv, ClearedFirst, ClearedIsBare, ClaimedIsBare, NothingRebuilt, In
<1>7. LeftoversExplained'
  BY <1>3 DEF ClearInv, LeftoversExplained, Explained
<1> QED
  BY <1>5, <1>6, <1>7 DEF ClearInv

(***************************************************************************)
(* Every step keeps the strengthening.                                     *)
(***************************************************************************)
LEMMA ClearPreserves == ClearInv /\ [Next]_vars => ClearInv'
<1> SUFFICES ASSUME ClearInv, [Next]_vars
             PROVE  ClearInv'
  OBVIOUS
<1>0. /\ TypeOK /\ RootExists /\ RootInv' /\ TypeOK' /\ root \in Paths
      /\ ClearedFirst /\ ClearedIsBare /\ ClaimedIsBare /\ BuiltIsMarked /\ LeftoversExplained
  BY StepPreserves DEF ClearInv, RootInv, TypeOK
<1> USE PathsAssumption
<1> USE DEF run, ClearInv, ClearedFirst, ClearedIsBare, ClaimedIsBare, BuiltIsMarked,
            LeftoversExplained, Leftover, Explained, NothingRebuilt
<1>1. ASSUME NEW r \in Paths, NEW w \in Paths, Start(r, w)
      PROVE  ClearInv'
  BY <1>0, <1>1 DEF Start
<1>2. CASE Work
  <2>1. warehouse \in Paths
    BY <1>0 DEF TypeOK
  <2> QED
    BY <1>0, <1>2, <2>1, PutKeepsClear DEF Work
<1>3. CASE Make
  <2>1. \A d \in Paths : In(d, root) => d \notin dirs
    BY <1>0, <1>3 DEF Make, TypeOK, In
  <2>2. /\ NothingRebuilt(root)
        /\ \A d \in Paths : In(d, root) => marker[d] = "none"
    BY <1>0, <2>1 DEF TypeOK
  <2> QED
    BY <1>0, <1>3, <2>2 DEF Make
<1>4. CASE ClaimEmpty
  <2>1. /\ NothingRebuilt(root)
        /\ \A d \in Paths : In(d, root) => marker[d] = "none"
    BY <1>0, <1>4, EmptyHoldsNothing DEF ClaimEmpty, TypeOK, Empty
  <2> QED
    BY <1>0, <1>4, <2>1 DEF ClaimEmpty
<1>5. CASE Own
  BY <1>0, <1>5 DEF Own
<1>6. CASE Refuse
  BY <1>0, <1>6, EndKeepsClear DEF Refuse
<1>7. CASE OpenMarker
  BY <1>0, <1>7 DEF OpenMarker, TypeOK
<1>8. CASE WriteMarker
  BY <1>0, <1>8 DEF WriteMarker, TypeOK, In
<1>9. ASSUME NEW f \in files, RemoveFile(f)
      PROVE  ClearInv'
  BY <1>0, <1>9 DEF RemoveFile
<1>10. ASSUME NEW d \in dirs, RemoveMarker(d)
       PROVE  ClearInv'
  BY <1>0, <1>10 DEF RemoveMarker, TypeOK, In
<1>11. ASSUME NEW d \in dirs, RemoveDir(d)
       PROVE  ClearInv'
  <2>1. \A f \in files : ~ In(f[1], d)
    BY <1>0, <1>11, EmptyHoldsNothing DEF RemoveDir, TypeOK
  <2>2. \A e \in Paths : In(e, d) => marker[e] = "none"
    BY <1>0, <1>11 DEF RemoveDir, Empty, TypeOK
  <2>3. LeftoversExplained'
    BY <1>0, <1>11, <2>1, <2>2 DEF RemoveDir, In
  <2> QED
    BY <1>0, <1>11, <2>1, <2>3 DEF RemoveDir
<1>12. CASE Build
  BY <1>0, <1>12 DEF Build
<1>13. CASE Measure
  BY <1>0, <1>13, EndKeepsClear DEF Measure
<1>14. CASE Die
  BY <1>0, <1>14, EndKeepsClear DEF Die
<1>15. ASSUME NEW p \in Paths, Put(p)
       PROVE  ClearInv'
  BY <1>0, <1>15, PutKeepsClear DEF Put
<1>16. ASSUME NEW p \in Paths, MakeDirectory(p)
       PROVE  ClearInv'
  BY <1>0, <1>16 DEF MakeDirectory
<1>17. CASE UNCHANGED vars
  BY <1>0, <1>17 DEF vars, In
<1> QED
  BY <1>1, <1>2, <1>3, <1>4, <1>5, <1>6, <1>7, <1>8, <1>9, <1>10, <1>11, <1>12, <1>13, <1>14,
     <1>15, <1>16, <1>17 DEF Next, RunStep

(***************************************************************************)
(* The removal ends with an empty root, and what comes after it up to the  *)
(* build writes nothing of a rebuild below it.                             *)
(***************************************************************************)
THEOREM RebuiltFromNothing == Spec => []BuiltFromNothing
<1>1. Spec => []ClearInv
  BY InitClear, ClearPreserves, PTL DEF Spec
<1>2. ClearInv => BuiltFromNothing
  BY DEF ClearInv, ClearedFirst, ClearedIsBare, NothingRebuilt, BuiltFromNothing
<1> QED
  BY <1>1, <1>2, PTL

(***************************************************************************)
(* Leftovers without a valid marker always lie where a run died while it   *)
(* cleared or marked, once no run is in progress.                          *)
(***************************************************************************)
THEOREM LockedOnlyByDeath == Spec => []LockoutTakesDeath
<1>1. Spec => []ClearInv
  BY InitClear, ClearPreserves, PTL DEF Spec
<1>2. ClearInv => LockoutTakesDeath
  BY DEF ClearInv, LeftoversExplained, Leftover, Explained, LockoutTakesDeath
<1> QED
  BY <1>1, <1>2, PTL
=============================================================================
