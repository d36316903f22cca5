--------------------------- MODULE DriversProofs ---------------------------
(***************************************************************************)
(* One copy of the rows of a version, for any number of drivers, killed    *)
(* and started again as often as they are, over the transaction log.       *)
(***************************************************************************)
EXTENDS Drivers, FiniteSetTheorems, TLAPS

Entries == [txn : {"same", "distinct"} \X (Writers \cup {Shared}), version : Writers \cup {Shared}]

(***************************************************************************)
(* The strengthening: a commit is named for its version, and a driver that *)
(* is about to commit has not found its transaction in the commits it has  *)
(* looked at. Those it has not looked at are the ones it could collide     *)
(* with, and it looks at them before it takes the next number.             *)
(***************************************************************************)
NamedForVersion ==
  \A i \in 1 .. Len(log) :
    log[i].txn = <<IF log[i].version = Shared THEN "same" ELSE "distinct", log[i].version>>

NotYetSeen ==
  \A w \in Racing :
    pc[w] = "commit" =>
      /\ snapshot[w] \in 0 .. Len(log)
      /\ \A i \in 1 .. snapshot[w] : log[i].txn # TransactionId(scenario, w)

OncePerVersion ==
  \A i, j \in 1 .. Len(log) : log[i].version = log[j].version => i = j

DriversInv == TypeOK /\ NamedForVersion /\ NotYetSeen /\ OncePerVersion

(* What a driver commits, and under which name.                            *)
LEMMA CommitType ==
  ASSUME NEW s \in {"same", "distinct"}, NEW w \in Writers
  PROVE  /\ Commit(s, w) \in Entries
         /\ Commit(s, w).txn = TransactionId(s, w)
         /\ Commit(s, w).txn = <<IF Commit(s, w).version = Shared THEN "same" ELSE "distinct",
                                 Commit(s, w).version>>
  BY WritersAssumption DEF Commit, TransactionId, VersionFor, Entries

LEMMA InitEstablishes == Init => DriversInv
<1> SUFFICES ASSUME Init
             PROVE  DriversInv
  OBVIOUS
<1>1. log \in Seq(Entries) /\ Len(log) \in {0, 1} /\ NamedForVersion
  <2>1. CASE log = <<>>
    BY <2>1 DEF NamedForVersion
  <2>2. ASSUME NEW s \in {"same", "distinct"}, NEW w \in Writers, log = <<Commit(s, w)>>
        PROVE  log \in Seq(Entries) /\ Len(log) = 1 /\ NamedForVersion
    BY <2>2, CommitType DEF NamedForVersion
  <2> QED
    BY <2>1, <2>2 DEF Init
<1>2. TypeOK
  BY <1>1 DEF Init, TypeOK, Entries
<1>3. NotYetSeen
  BY DEF Init, NotYetSeen
<1>4. OncePerVersion
  BY <1>1 DEF OncePerVersion
<1> QED
  BY <1>1, <1>2, <1>3, <1>4 DEF DriversInv

(***************************************************************************)
(* A commit is the first of its version: its driver has looked at every    *)
(* commit before it.                                                       *)
(***************************************************************************)
LEMMA CommitPreserves ==
  ASSUME DriversInv, NEW w \in Racing, CommitNext(w)
  PROVE  DriversInv'
<1> DEFINE c == Commit(scenario, w)
<1>1. /\ w \in Writers /\ scenario \in {"same", "distinct"}
      /\ log \in Seq(Entries) /\ Len(log) \in Nat
  BY WritersAssumption DEF DriversInv, TypeOK, Entries
<1>2. c \in Entries /\ c.txn = TransactionId(scenario, w)
      /\ c.txn = <<IF c.version = Shared THEN "same" ELSE "distinct", c.version>>
  BY <1>1, CommitType
<1> HIDE DEF c
<1>3. log' = Append(log, c)
  BY DEF CommitNext, c
<1>4. /\ log' \in Seq(Entries) /\ Len(log') = Len(log) + 1
      /\ \A i \in 1 .. Len(log) : log'[i] = log[i]
      /\ log'[Len(log) + 1] = c
  BY <1>1, <1>2, <1>3
<1>5. TypeOK'
  BY <1>1, <1>4 DEF DriversInv, TypeOK, Entries, CommitNext, Goto, table
<1>6. NamedForVersion'
  BY <1>1, <1>2, <1>4 DEF DriversInv, NamedForVersion
<1>7. NotYetSeen'
  <2> SUFFICES ASSUME NEW x \in Racing, pc'[x] = "commit"
               PROVE  /\ snapshot'[x] \in 0 .. Len(log')
                      /\ \A i \in 1 .. snapshot'[x] : log'[i].txn # TransactionId(scenario', x)
    BY DEF NotYetSeen
  <2>1. pc[x] = "commit" /\ snapshot' = snapshot /\ scenario' = scenario
    BY DEF DriversInv, TypeOK, CommitNext, Goto, table
  <2> QED
    BY <1>1, <1>4, <2>1 DEF DriversInv, NotYetSeen
<1>8. \A i \in 1 .. Len(log) : log[i].version # c.version
  <2>1. \A i \in 1 .. Len(log) : log[i].txn # c.txn
    BY <1>2 DEF DriversInv, NotYetSeen, CommitNext
  <2> QED
    BY <1>2, <2>1 DEF DriversInv, NamedForVersion
<1>9. OncePerVersion'
  BY <1>1, <1>4, <1>8 DEF DriversInv, OncePerVersion
<1> QED
  BY <1>5, <1>6, <1>7, <1>9 DEF DriversInv

(* Every other step leaves the log as it is.                               *)
LEMMA StepPreserves == DriversInv /\ [Next]_vars => DriversInv'
<1> SUFFICES ASSUME DriversInv, [Next]_vars
             PROVE  DriversInv'
  OBVIOUS
<1>1. ASSUME NEW w \in Racing, CommitNext(w)
      PROVE  DriversInv'
  BY <1>1, CommitPreserves
<1>2. ASSUME NEW w \in Racing, BeginTransaction(w)
      PROVE  DriversInv'
  <2>1. TypeOK'
    BY <1>2 DEF DriversInv, TypeOK, BeginTransaction, Goto, table
  <2>2. Len(log) \in Nat /\ DOMAIN log = 1 .. Len(log)
    BY DEF DriversInv, TypeOK
  <2>3. NotYetSeen'
    <3> SUFFICES ASSUME NEW x \in Racing, pc'[x] = "commit"
                 PROVE  /\ snapshot'[x] \in 0 .. Len(log')
                        /\ \A i \in 1 .. snapshot'[x] : log'[i].txn # TransactionId(scenario', x)
      BY DEF NotYetSeen
    <3>1. UNCHANGED <<log, scenario>> /\ (x # w => pc[x] = "commit" /\ snapshot'[x] = snapshot[x])
      BY <1>2 DEF DriversInv, TypeOK, BeginTransaction, Goto, table
    <3>2. x = w => snapshot'[x] = Len(log) /\ ~ Ran(log, TransactionId(scenario, x))
      BY <1>2 DEF DriversInv, TypeOK, BeginTransaction, Goto
    <3> QED
      BY <2>2, <3>1, <3>2 DEF DriversInv, NotYetSeen, Ran
  <2> QED
    BY <1>2, <2>1, <2>3 DEF DriversInv, NamedForVersion, OncePerVersion, BeginTransaction
<1>3. ASSUME NEW w \in Racing, TryNext(w)
      PROVE  DriversInv'
  <2>1. TypeOK'
    BY <1>3 DEF DriversInv, TypeOK, TryNext, table
  <2>2. /\ snapshot[w] \in 0 .. Len(log) /\ Len(log) \in Nat
        /\ log \in Seq(Entries)
        /\ \A i \in 1 .. snapshot[w] : log[i].txn # TransactionId(scenario, w)
    BY <1>3 DEF DriversInv, TypeOK, NotYetSeen, TryNext, Entries
  <2>3. \A i \in snapshot[w] + 1 .. Len(log) : log[i].txn # TransactionId(scenario, w)
    <3> SUFFICES ASSUME NEW i \in snapshot[w] + 1 .. Len(log)
                 PROVE  log[i].txn # TransactionId(scenario, w)
      OBVIOUS
    <3>1. /\ DOMAIN Winners(w) = 1 .. Len(log) - snapshot[w]
          /\ Winners(w)[i - snapshot[w]] = log[i]
      <4> DEFINE n == snapshot[w]  m == Len(log)
      <4>1. n \in Nat /\ m \in Nat /\ n <= m /\ i \in Nat /\ n < i /\ i <= m
        BY <2>2
      <4> HIDE DEF n
      <4>2. SubSeq(log, n + 1, m) \in Seq(Entries)
        BY <2>2, <4>1
      <4>3. Len(SubSeq(log, n + 1, m)) = m - n
        BY <2>2, <4>1
      <4>4. SubSeq(log, n + 1, m)[i - n] = log[i]
        BY <2>2, <4>1
      <4> QED
        BY <4>1, <4>2, <4>3, <4>4 DEF Winners, n
    <3> QED
      BY <1>3, <2>2, <3>1 DEF TryNext, Refused, Ran
  <2>4. \A i \in 1 .. Len(log) : log[i].txn # TransactionId(scenario, w)
    BY <2>2, <2>3
  <2>5. NotYetSeen'
    BY <1>3, <2>2, <2>4
    DEF DriversInv, TypeOK, NotYetSeen, TryNext, table, TransactionId, VersionFor
  <2> QED
    BY <1>3, <2>1, <2>5 DEF DriversInv, NamedForVersion, OncePerVersion, TryNext
<1>4. ASSUME NEW w \in Racing,
             Launch(w) \/ Pass(w) \/ TimeOut(w) \/ LoseToPeer(w) \/ Report(w) \/ Kill(w)
      PROVE  DriversInv'
  <2> USE DEF Launch, Pass, TimeOut, LoseToPeer, Report, Kill, Goto, table
  <2>1. TypeOK'
    BY <1>4 DEF DriversInv, TypeOK
  <2>2. /\ UNCHANGED <<log, snapshot, scenario>>
        /\ \A x \in Racing : pc'[x] = "commit" => pc[x] = "commit"
    BY <1>4 DEF DriversInv, TypeOK
  <2> QED
    BY <2>1, <2>2
    DEF DriversInv, NamedForVersion, NotYetSeen, OncePerVersion, TransactionId, VersionFor
<1>5. CASE Verify \/ UNCHANGED vars
  <2>1. TypeOK'
    BY <1>5 DEF DriversInv, TypeOK, Verify, vars, table
  <2>2. UNCHANGED <<log, snapshot, scenario, pc>>
    BY <1>5 DEF Verify, vars, table
  <2> QED
    BY <2>1, <2>2
    DEF DriversInv, NamedForVersion, NotYetSeen, OncePerVersion, TransactionId, VersionFor
<1> QED
  BY <1>1, <1>2, <1>3, <1>4, <1>5 DEF Next, DriverStep

(***************************************************************************)
(* However many drivers append a version, the table holds its rows once.   *)
(***************************************************************************)
THEOREM RowsOnce == Spec => []OneRowSetPerVersion
<1>1. DriversInv => OneRowSetPerVersion
  <2>1. DriversInv => DOMAIN log = 1 .. Len(log)
    BY DEF DriversInv, TypeOK
  <2> QED
    BY <2>1 DEF DriversInv, OncePerVersion, OneRowSetPerVersion
<1> QED
  BY InitEstablishes, StepPreserves, <1>1, PTL DEF Spec

(***************************************************************************)
(* Every state of the drivers and of the log is one the code can be in.    *)
(***************************************************************************)
THEOREM DriverTypes == Spec => []TypeOK
<1>1. DriversInv => TypeOK
  BY DEF DriversInv
<1> QED
  BY InitEstablishes, StepPreserves, <1>1, PTL DEF Spec

(***************************************************************************)
(* Those who have started only become more, and a driver passes the        *)
(* barrier when they are enough.                                           *)
(***************************************************************************)
StartedFinitely == IsFiniteSet(started) /\ Cardinality(started) \in Nat

LEMMA MoreStarted ==
  ASSUME StartedFinitely, NEW w, started' = started \cup {w}
  PROVE  StartedFinitely' /\ Cardinality(started') >= Cardinality(started)
<1>1. /\ IsFiniteSet(started \cup {w})
      /\ Cardinality(started \cup {w})
           = IF w \in started THEN Cardinality(started) ELSE Cardinality(started) + 1
  BY FS_AddElement DEF StartedFinitely
<1> QED
  BY <1>1 DEF StartedFinitely

LEMMA StepKeepsLine ==
  DriversInv /\ StartedFinitely /\ LineUp /\ [Next]_vars => (StartedFinitely /\ LineUp)'
<1> SUFFICES ASSUME DriversInv, StartedFinitely, LineUp, [Next]_vars
             PROVE  (StartedFinitely /\ LineUp)'
  OBVIOUS
<1> DEFINE Enough == Cardinality(started) >= Peers
           Writing(p) == p \in {"write", "commit", "report"}
<1>1. pc \in [Racing -> {"off", "wait", "write", "commit", "report", "done", "gone"}]
  BY DEF DriversInv, TypeOK
<1>2. ASSUME UNCHANGED <<started, stale>>,
             \A x \in Racing : Writing(pc'[x]) => Writing(pc[x])
      PROVE  (StartedFinitely /\ LineUp)'
  BY <1>2 DEF StartedFinitely, LineUp
<1>3. ASSUME NEW w \in Racing, Launch(w)
      PROVE  (StartedFinitely /\ LineUp)'
  <2>1. StartedFinitely' /\ Cardinality(started') >= Cardinality(started)
    BY <1>3, MoreStarted DEF Launch
  <2>2. stale' = stale /\ \A x \in Racing : Writing(pc'[x]) => Writing(pc[x])
    BY <1>1, <1>3 DEF Launch, Goto, table
  <2>3. Peers \in Nat /\ Cardinality(started) \in Nat /\ Cardinality(started') \in Nat
    BY <2>1, WritersAssumption DEF StartedFinitely
  <2>4. Enough => Enough'
    BY <2>1, <2>3
  <2> QED
    BY <2>1, <2>2, <2>4 DEF LineUp
<1>4. ASSUME NEW w \in Racing, Pass(w)
      PROVE  (StartedFinitely /\ LineUp)'
  <2>1. UNCHANGED <<started, stale>>
    BY <1>4 DEF Pass, table
  <2>2. stale = {} => started \cup stale = started
    OBVIOUS
  <2>3. stale' = {} => Enough'
    BY <1>4, <2>1, <2>2 DEF Pass
  <2> QED
    BY <2>1, <2>3 DEF StartedFinitely, LineUp
<1>5. ASSUME NEW w \in Racing,
             TimeOut(w) \/ BeginTransaction(w) \/ CommitNext(w) \/ LoseToPeer(w) \/ TryNext(w)
               \/ Report(w) \/ Kill(w)
      PROVE  (StartedFinitely /\ LineUp)'
  <2>1. UNCHANGED <<started, stale>>
    BY <1>5 DEF TimeOut, BeginTransaction, CommitNext, LoseToPeer, TryNext, Report, Kill, table
  <2>2. \A x \in Racing : Writing(pc'[x]) => Writing(pc[x])
    BY <1>1, <1>5 DEF TimeOut, BeginTransaction, CommitNext, LoseToPeer, TryNext, Report, Kill, Goto
  <2> QED
    BY <1>2, <2>1, <2>2
<1>6. CASE Verify \/ UNCHANGED vars
  BY <1>2, <1>6 DEF Verify, vars, table
<1> QED
  BY <1>3, <1>4, <1>5, <1>6 DEF Next, DriverStep

(***************************************************************************)
(* For any number of drivers and peers, nobody writes before as many       *)
(* drivers as it waits for have started, unless an earlier probe left      *)
(* ready files at the barrier.                                             *)
(***************************************************************************)
THEOREM NobodyWritesEarly == Spec => []LineUp
<1>1. Init => StartedFinitely /\ LineUp
  <2> SUFFICES ASSUME Init
               PROVE  StartedFinitely /\ LineUp
    OBVIOUS
  <2>1. started = {} /\ \A w \in Racing : pc[w] = "off"
    BY DEF Init
  <2> QED
    BY <2>1, FS_EmptySet DEF StartedFinitely, LineUp
<1> QED
  BY InitEstablishes, StepPreserves, <1>1, StepKeepsLine, PTL DEF Spec

(***************************************************************************)
(* What a verdict can rest on. Who reports has its version in the table;   *)
(* what the probe added is of its drivers; and a verdict is about the      *)
(* table as it still is, for no driver runs until it is taken back.        *)
(***************************************************************************)
ReportedIsThere ==
  \A w \in Racing :
    pc[w] = "report" \/ w \in reported => VersionFor(scenario, w) \in VersionsIn(log)

NewIsRacing ==
  \A i \in existing + 1 .. Len(log) : \E w \in Racing : log[i].version = VersionFor(scenario, w)

Resting == \A w \in Racing : pc[w] \in {"off", "done", "gone"}

VerdictStands == verdict # "none" => Resting /\ (verdict = "safe" <=> Safe)

VerdictInv == DriversInv /\ ReportedIsThere /\ NewIsRacing /\ VerdictStands

LEMMA VerdictInit == Init => VerdictInv
<1> SUFFICES ASSUME Init
             PROVE  VerdictInv
  OBVIOUS
<1>1. DriversInv /\ Len(log) \in Nat
  BY InitEstablishes DEF DriversInv, TypeOK
<1> QED
  BY <1>1 DEF Init, VerdictInv, ReportedIsThere, NewIsRacing, VerdictStands

(* A commit adds a version to those the table has.                         *)
LEMMA CommitAdds ==
  ASSUME VerdictInv, NEW w \in Racing, CommitNext(w)
  PROVE  VerdictInv'
<1> DEFINE c == Commit(scenario, w)
<1>1. /\ DriversInv' /\ TypeOK /\ ReportedIsThere /\ NewIsRacing
      /\ log \in Seq(Entries) /\ Len(log) \in Nat /\ existing \in 0 .. Len(log)
      /\ scenario \in {"same", "distinct"} /\ w \in Writers
  <2>1. DriversInv /\ DriversInv'
    BY CommitPreserves DEF VerdictInv
  <2> QED
    BY <2>1, WritersAssumption DEF VerdictInv, DriversInv, TypeOK, Entries
<1>2. c \in Entries /\ c.version = VersionFor(scenario, w)
  BY <1>1, CommitType DEF Commit
<1> HIDE DEF c
<1>3. /\ log' = Append(log, c) /\ UNCHANGED <<scenario, existing, reported, verdict>>
      /\ pc' = [pc EXCEPT ![w] = "report"] /\ pc[w] = "commit"
  BY DEF CommitNext, c, Goto, table
<1>4. /\ Len(log') = Len(log) + 1 /\ DOMAIN log = 1 .. Len(log) /\ DOMAIN log' = 1 .. Len(log')
      /\ \A i \in 1 .. Len(log) : log'[i] = log[i]
      /\ log'[Len(log) + 1] = c
  BY <1>1, <1>2, <1>3
<1>5. VersionsIn(log) \subseteq VersionsIn(log') /\ c.version \in VersionsIn(log')
  BY <1>1, <1>4 DEF VersionsIn
<1>6. ReportedIsThere'
  BY <1>1, <1>2, <1>3, <1>5 DEF ReportedIsThere, VersionFor, TypeOK
<1>7. NewIsRacing'
  <2> SUFFICES ASSUME NEW i \in existing + 1 .. Len(log) + 1
               PROVE  \E x \in Racing : log'[i].version = VersionFor(scenario, x)
    BY <1>3, <1>4 DEF NewIsRacing, VersionFor
  <2>1. CASE i = Len(log) + 1
    BY <1>2, <1>4, <2>1
  <2>2. CASE i # Len(log) + 1
    <3>1. i \in existing + 1 .. Len(log) /\ i \in 1 .. Len(log)
      BY <1>1, <2>2
    <3> QED
      BY <1>1, <1>4, <3>1 DEF NewIsRacing
  <2> QED
    BY <2>1, <2>2
<1>8. verdict = "none"
  BY <1>3 DEF VerdictInv, VerdictStands, Resting
<1> QED
  BY <1>1, <1>3, <1>6, <1>7, <1>8 DEF VerdictInv, VerdictStands

LEMMA VerdictStep == VerdictInv /\ [Next]_vars => VerdictInv'
<1> SUFFICES ASSUME VerdictInv, [Next]_vars
             PROVE  VerdictInv'
  OBVIOUS
<1>0. /\ DriversInv' /\ DriversInv /\ TypeOK /\ ReportedIsThere /\ NewIsRacing /\ VerdictStands
      /\ Len(log) \in Nat /\ DOMAIN log = 1 .. Len(log)
      /\ pc \in [Racing -> {"off", "wait", "write", "commit", "report", "done", "gone"}]
  BY StepPreserves DEF VerdictInv, DriversInv, TypeOK
<1>1. ASSUME NEW w \in Racing, CommitNext(w)
      PROVE  VerdictInv'
  BY <1>1, CommitAdds
<1>2. ASSUME UNCHANGED <<log, scenario, existing>>, ReportedIsThere', VerdictStands'
      PROVE  VerdictInv'
  BY <1>0, <1>2 DEF VerdictInv, NewIsRacing, VersionFor
<1>3. ASSUME NEW w \in Racing, pc[w] \in {"wait", "write", "commit", "report"}, verdict' = verdict
      PROVE  VerdictStands'
  BY <1>0, <1>3 DEF VerdictStands, Resting
<1>4. ASSUME NEW w \in Racing, BeginTransaction(w)
      PROVE  VerdictInv'
  <2>1. /\ UNCHANGED <<log, scenario, existing, reported, verdict>>
        /\ pc[w] = "write" /\ pc' = [pc EXCEPT ![w] = pc'[w]]
        /\ pc'[w] = "report" => Ran(log, TransactionId(scenario, w))
    BY <1>0, <1>4 DEF BeginTransaction, Goto, table
  <2>2. pc'[w] = "report" => VersionFor(scenario, w) \in VersionsIn(log)
    <3> SUFFICES ASSUME NEW i \in DOMAIN log, log[i].txn = TransactionId(scenario, w)
                 PROVE  log[i].version = VersionFor(scenario, w)
      BY <2>1 DEF Ran, VersionsIn
    <3>1. log[i].txn = <<IF log[i].version = Shared THEN "same" ELSE "distinct", log[i].version>>
      BY <1>0 DEF DriversInv, NamedForVersion
    <3> QED
      BY <3>1 DEF TransactionId
  <2>3. ReportedIsThere'
    BY <1>0, <2>1, <2>2 DEF ReportedIsThere, VersionFor
  <2> QED
    BY <1>2, <1>3, <2>1, <2>3
<1>5. ASSUME NEW w \in Racing, Launch(w)
      PROVE  VerdictInv'
  <2>1. /\ UNCHANGED <<log, scenario, existing, reported>> /\ verdict' = "none"
        /\ \A x \in Racing : pc'[x] = "report" => pc[x] = "report"
    BY <1>0, <1>5 DEF Launch, Goto, table
  <2> QED
    BY <1>0, <1>2, <2>1 DEF ReportedIsThere, VersionFor, VerdictStands
<1>6. ASSUME NEW w \in Racing,
             Pass(w) \/ TimeOut(w) \/ LoseToPeer(w) \/ TryNext(w) \/ Report(w) \/ Kill(w)
      PROVE  VerdictInv'
  <2> USE DEF Pass, TimeOut, LoseToPeer, TryNext, Report, Kill, Goto, table
  <2>1. /\ UNCHANGED <<log, scenario, existing, verdict>>
        /\ pc[w] \in {"wait", "write", "commit", "report"}
    BY <1>6
  <2>2. \A x \in Racing : pc'[x] = "report" \/ x \in reported' => pc[x] = "report" \/ x \in reported
    BY <1>0, <1>6
  <2> QED
    BY <1>0, <1>2, <1>3, <2>1, <2>2 DEF ReportedIsThere, VersionFor
<1>7. CASE Verify
  <2>1. UNCHANGED <<log, scenario, existing, pc, reported>> /\ Resting
    BY <1>7 DEF Verify, table, Resting
  <2>2. (verdict' = "safe" <=> Safe) /\ (Safe' <=> Safe)
    BY <1>7, <2>1 DEF Verify, Safe, NewVersions, VersionsIn
  <2> QED
    BY <1>0, <1>2, <2>1, <2>2 DEF ReportedIsThere, VersionFor, VerdictStands, Resting
<1>8. CASE UNCHANGED vars
  <2>1. UNCHANGED <<log, scenario, existing, pc, reported, verdict>>
    BY <1>8 DEF vars, table
  <2>2. Safe' <=> Safe
    BY <2>1 DEF Safe, NewVersions, VersionsIn
  <2> QED
    BY <1>0, <1>2, <2>1, <2>2 DEF ReportedIsThere, VersionFor, VerdictStands, Resting
<1> QED
  BY <1>1, <1>4, <1>5, <1>6, <1>7, <1>8 DEF Next, DriverStep

(* As many versions as commits, when no version is there twice.            *)
LEMMA VersionsCounted ==
  ASSUME NEW l, NEW a \in Nat, NEW b \in Nat, a <= b,
         \A i, j \in a + 1 .. b : l[i].version = l[j].version => i = j
  PROVE  Cardinality({l[i].version : i \in a + 1 .. b}) = b - a
<1> DEFINE S == a + 1 .. b
           T == {l[i].version : i \in S}
           f == [i \in S |-> l[i].version]
<1>1. IsFiniteSet(S) /\ Cardinality(S) = b - a
  <2>1. a + 1 \in Int /\ b \in Int /\ (IF a + 1 > b THEN 0 ELSE b - (a + 1) + 1) = b - a
    OBVIOUS
  <2> QED
    BY <2>1, FS_Interval
<1>2. f \in Surjection(S, T) /\ f \in Injection(S, T)
  BY DEF Surjection, Injection, IsInjective
<1> HIDE DEF f
<1>3. Cardinality(T) = Cardinality(S)
  BY <1>1, <1>2, FS_Surjection
<1> QED
  BY <1>1, <1>3

(***************************************************************************)
(* A verdict is right for any number of drivers, however they were killed  *)
(* and started again before it. What was added is counted commit by        *)
(* commit, for each is of a version of its own; it is of the drivers of    *)
(* the probe, and who reported is in it unless the table had that version  *)
(* before.                                                                 *)
(***************************************************************************)
THEOREM VerdictsAreRight == Spec => []VerdictIsRight
<1>1. VerdictInv => VerdictIsRight
  <2> SUFFICES ASSUME VerdictInv
               PROVE  VerdictIsRight
    OBVIOUS
  <2> DEFINE earlier == VersionsIn(SubSeq(log, 1, existing))
             new     == {log[i].version : i \in existing + 1 .. Len(log)}
             racing  == {VersionFor(scenario, w) : w \in Racing}
             named   == {VersionFor(scenario, w) : w \in reported}
  <2>1. /\ ReportedIsThere /\ NewIsRacing /\ VerdictStands /\ OncePerVersion
        /\ log \in Seq(Entries) /\ Len(log) \in Nat /\ DOMAIN log = 1 .. Len(log)
        /\ existing \in Nat /\ existing <= Len(log)
        /\ reported \subseteq Racing /\ scenario \in {"same", "distinct"}
    BY DEF VerdictInv, DriversInv, TypeOK, Entries
  <2>2. named \subseteq VersionsIn(log) /\ named \subseteq racing
    BY <2>1 DEF ReportedIsThere
  <2>3. new \subseteq racing
    BY <2>1 DEF NewIsRacing
  <2>4. Cardinality(new) = Len(log) - existing
    <3>1. \A i, j \in existing + 1 .. Len(log) : log[i].version = log[j].version => i = j
      BY <2>1 DEF OncePerVersion
    <3> QED
      BY <2>1, <3>1, VersionsCounted
  <2>5. VersionsIn(log) \subseteq earlier \cup new
    <3> SUFFICES ASSUME NEW i \in 1 .. Len(log), i <= existing
                 PROVE  log[i].version \in earlier
      BY <2>1 DEF VersionsIn
    <3>1. SubSeq(log, 1, existing)[i] = log[i] /\ i \in DOMAIN SubSeq(log, 1, existing)
      BY <2>1
    <3> QED
      BY <3>1 DEF VersionsIn
  <2>6. ASSUME verdict = "safe"
        PROVE  Len(log) = Cardinality(VersionsIn(log))
    BY <2>1, <2>6 DEF VerdictStands, Safe
  <2>7. ASSUME verdict = "unsafe", Len(log) = Cardinality(VersionsIn(log)),
               earlier \cap racing = {},
               scenario = "distinct" => new \ named = {}, scenario = "same" => new # {}
        PROVE  FALSE
    <3>1. Cardinality(new) = NewVersions
      <4>1. CASE scenario = "same"
        <5>1. racing \subseteq {Shared}
          BY <4>1 DEF VersionFor
        <5>2. new = {Shared}
          BY <2>3, <2>7, <4>1, <5>1
        <5> HIDE DEF new
        <5> QED
          BY <4>1, <5>2, FS_Singleton DEF NewVersions
      <4>2. CASE scenario = "distinct"
        <5>1. named = reported
          BY <4>2 DEF VersionFor
        <5>2. named \subseteq new
          BY <2>2, <2>5, <2>7
        <5>3. new = reported
          BY <2>7, <4>2, <5>1, <5>2
        <5> QED
          BY <4>2, <5>3 DEF NewVersions
      <4> QED
        BY <2>1, <4>1, <4>2
    <3>2. Len(log) = existing + NewVersions
      BY <2>1, <2>4, <3>1
    <3>3. Safe
      BY <2>7, <3>2 DEF Safe
    <3> QED
      BY <2>1, <2>7, <3>3 DEF VerdictStands
  <2> QED
    BY <2>2, <2>6, <2>7 DEF VerdictIsRight
<1> QED
  BY VerdictInit, VerdictStep, <1>1, PTL DEF Spec
=============================================================================
