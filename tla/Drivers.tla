------------------------------ MODULE Drivers ------------------------------
(***************************************************************************)
(* Drivers that append to one Delta table at the same time: the idempotent *)
(* append of src/fareline/m2/build.py, which a duplicated M2 run would race*)
(* itself on, and the probe that measures it,                              *)
(* scripts/m2_concurrency_probe.py. Drivers line up behind a barrier of    *)
(* ready files, append, report, are killed and started again, and an       *)
(* operator has the table judged. Delta's log is external: commits are     *)
(* numbered, each number is given once, and whoever loses a number looks   *)
(* at the commits that won.                                                *)
(***************************************************************************)
EXTENDS Integers, Sequences, FiniteSets

CONSTANTS
  Writers,  \* writer numbers, of this probe and of earlier ones
  Racing,   \* those of this probe
  Peers,    \* how many ready files a driver waits for
  Shared    \* the version of the scenario "same"

ASSUME WritersAssumption ==
  Racing \subseteq Writers /\ Shared \notin Writers /\ Peers \in Nat /\ IsFiniteSet(Writers)

VARIABLES
  scenario,   \* "same" or "distinct"
  log,        \* the table's commits: [txn, version]
  existing,   \* how many it held before the probe
  stale,      \* ready files an earlier probe left at the barrier
  started,    \* drivers of this probe that wrote theirs
  pc,         \* next step of each driver
  snapshot,   \* length of the log when its transaction began
  reported,   \* drivers that reported a commit
  verdict     \* of the last verification

table == <<scenario, existing, stale>>
vars == <<table, log, started, pc, snapshot, reported, verdict>>

(* version_for *)
VersionFor(s, w) == IF s = "same" THEN Shared ELSE w

(* Mutant: the transaction is named for the driver.                         *)
TransactionPerDriver(s, w) == <<s, w>>

TransactionId(s, w) == <<s, VersionFor(s, w)>>

Commit(s, w) == [txn |-> TransactionId(s, w), version |-> VersionFor(s, w)]

VersionsIn(l) == {l[i].version : i \in DOMAIN l}

Ran(l, t) == \E i \in DOMAIN l : l[i].txn = t

TypeOK ==
  /\ scenario \in {"same", "distinct"}
  /\ log \in Seq([txn : {"same", "distinct"} \X (Writers \cup {Shared}),
                  version : Writers \cup {Shared}])
  /\ existing \in 0 .. Len(log)
  /\ stale \subseteq Writers /\ started \subseteq Racing
  /\ pc \in [Racing -> {"off", "wait", "write", "commit", "report", "done", "gone"}]
  /\ snapshot \in [Racing -> Nat]
  /\ reported \subseteq Racing
  /\ verdict \in {"none", "safe", "unsafe"}

(* A table that is empty, seeded, or left by an earlier probe.             *)
Init ==
  /\ scenario \in {"same", "distinct"}
  /\ \/ log = <<>>
     \/ \E s \in {"same", "distinct"}, w \in Writers : log = <<Commit(s, w)>>
  /\ existing = Len(log)
  /\ stale \in SUBSET Writers
  /\ started = {}
  /\ pc = [w \in Racing |-> "off"]
  /\ snapshot = [w \in Racing |-> 0]
  /\ reported = {}
  /\ verdict = "none"

Goto(w, p) == pc' = [pc EXCEPT ![w] = p]

-----------------------------------------------------------------------------
(* A driver, from its start to its report.                                 *)

Launch(w) ==
  /\ pc[w] \in {"off", "done", "gone"}
  /\ Goto(w, "wait")
  /\ started' = started \cup {w} /\ verdict' = "none"
  /\ UNCHANGED <<table, log, snapshot, reported>>

(* Mutant: the driver's own file is not counted on.                         *)
PassOthers(w) ==
  /\ pc[w] = "wait"
  /\ Cardinality(started \cup stale) >= Peers - 1
  /\ Goto(w, "write")
  /\ UNCHANGED <<table, log, started, snapshot, reported, verdict>>

(* wait_for_peers counts files, whoever wrote them and when.               *)
Pass(w) ==
  /\ pc[w] = "wait"
  /\ Cardinality(started \cup stale) >= Peers
  /\ Goto(w, "write")
  /\ UNCHANGED <<table, log, started, snapshot, reported, verdict>>

(* Mutant: the wait has no end.                                             *)
WaitOn(w) == FALSE

TimeOut(w) ==
  /\ pc[w] = "wait" /\ Goto(w, "gone")
  /\ UNCHANGED <<table, log, started, snapshot, reported, verdict>>

(* An append whose transaction the snapshot has is a success without one.  *)
BeginTransaction(w) ==
  /\ pc[w] = "write"
  /\ snapshot' = [snapshot EXCEPT ![w] = Len(log)]
  /\ Goto(w, IF Ran(log, TransactionId(scenario, w)) THEN "report" ELSE "commit")
  /\ UNCHANGED <<table, log, started, reported, verdict>>

CommitNext(w) ==
  /\ pc[w] = "commit" /\ snapshot[w] = Len(log)
  /\ log' = Append(log, Commit(scenario, w))
  /\ Goto(w, "report")
  /\ UNCHANGED <<table, started, snapshot, reported, verdict>>

Winners(w) == SubSeq(log, snapshot[w] + 1, Len(log))

(* ProtocolChangedException, ConcurrentTransactionException: the driver    *)
(* reports a failure.                                                      *)
Refused(w) == snapshot[w] = 0 \/ Ran(Winners(w), TransactionId(scenario, w))

LoseToPeer(w) ==
  /\ pc[w] = "commit" /\ snapshot[w] < Len(log) /\ Refused(w)
  /\ Goto(w, "done")
  /\ UNCHANGED <<table, log, started, snapshot, reported, verdict>>

(* Appends of different files do not conflict: the next number is tried.   *)
TryNext(w) ==
  /\ pc[w] = "commit" /\ snapshot[w] < Len(log) /\ ~ Refused(w)
  /\ snapshot' = [snapshot EXCEPT ![w] = Len(log)]
  /\ UNCHANGED <<table, log, started, pc, reported, verdict>>

Report(w) ==
  /\ pc[w] = "report" /\ Goto(w, "done")
  /\ reported' = reported \cup {w}
  /\ UNCHANGED <<table, log, started, snapshot, verdict>>

Kill(w) ==
  /\ pc[w] \in {"wait", "write", "commit", "report"} /\ Goto(w, "gone")
  /\ UNCHANGED <<table, log, started, snapshot, reported, verdict>>

DriverStep(w) ==
  Pass(w) \/ TimeOut(w) \/ BeginTransaction(w) \/ CommitNext(w) \/ LoseToPeer(w)
    \/ TryNext(w) \/ Report(w)

-----------------------------------------------------------------------------
(* The verification, given the number of reports and of earlier versions.  *)

(* Mutant: one version per report, also when all race for one.              *)
NewPerReport == Cardinality(reported)

NewVersions == IF scenario = "same" THEN 1 ELSE Cardinality(reported)

(* Every commit holds the rows of one version, in equal number.            *)
Safe ==
  LET found == Cardinality(VersionsIn(log))
      expected == existing + NewVersions
  IN Len(log) = found /\ found = expected

(* Reading a table that does not exist raises.                             *)
Verify ==
  /\ \A w \in Racing : pc[w] \in {"off", "done", "gone"}
  /\ log # <<>>
  /\ verdict' = IF Safe THEN "safe" ELSE "unsafe"
  /\ UNCHANGED <<table, log, started, pc, snapshot, reported>>

Next ==
  \/ \E w \in Racing : Launch(w) \/ DriverStep(w) \/ Kill(w)
  \/ Verify

Spec == Init /\ [][Next]_vars

FairSpec == Spec /\ \A w \in Racing : WF_vars(DriverStep(w))

-----------------------------------------------------------------------------

(***************************************************************************)
(* However many drivers append a version, at the same time, again after a  *)
(* crash or after they lost, the table holds one copy of its rows.         *)
(***************************************************************************)
OneRowSetPerVersion ==
  \A i, j \in DOMAIN log : log[i].version = log[j].version => i = j

(***************************************************************************)
(* "safe" means that every version a driver reported is in the table and   *)
(* nothing is twice; "unsafe" on a table that is in fact right has a cause *)
(* outside Delta: it held a version of the probe before, or a driver died  *)
(* between its commit and its report, or nobody committed.                 *)
(***************************************************************************)
VerdictIsRight ==
  LET new == {log[i].version : i \in existing + 1 .. Len(log)}
      racing == {VersionFor(scenario, w) : w \in Racing}
      named == {VersionFor(scenario, w) : w \in reported}
  IN /\ verdict = "safe" =>
          Len(log) = Cardinality(VersionsIn(log)) /\ named \subseteq VersionsIn(log)
     /\ verdict = "unsafe" =>
          \/ Len(log) # Cardinality(VersionsIn(log))
          \/ VersionsIn(SubSeq(log, 1, existing)) \cap racing # {}
          \/ scenario = "distinct" /\ new \ named # {}
          \/ scenario = "same" /\ new = {}

(***************************************************************************)
(* Unless an earlier probe left ready files, nobody writes before as many  *)
(* drivers as it waits for have started.                                   *)
(***************************************************************************)
LineUp ==
  stale = {} =>
    \A w \in Racing : pc[w] \in {"write", "commit", "report"} => Cardinality(started) >= Peers

(***************************************************************************)
(* A driver that was started ends, with a report or without, though a peer *)
(* may never start and others may win every number it tries.               *)
(***************************************************************************)
EveryDriverEnds ==
  \A w \in Racing : pc[w] = "wait" ~> pc[w] \in {"done", "gone"}
=============================================================================
