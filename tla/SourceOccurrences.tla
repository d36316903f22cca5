------------------------- MODULE SourceOccurrences -------------------------
(***************************************************************************)
(* The M1 slice, src/fareline/m1/pipeline.py, over one landing store and   *)
(* one source-occurrence table per service. A run lands the sample of each *)
(* of its services, appends to the tables what they do not hold yet,       *)
(* re-reads them against the manifests of its period, and does all of that *)
(* a second time. The landing command does the first step alone. Appends   *)
(* carry no transaction id: there is one writer.                           *)
(***************************************************************************)
EXTENDS Naturals, FiniteSetsExt

CONSTANTS
  Services,     \* in the order the code lists them
  Periods,      \* calendar months
  Contents,     \* source versions an artifact can ever have
  Rows,         \* number of rows of each
  FirstSample,  \* the version every artifact is first sampled at: versions of
                \* different artifacts have nothing in common but the name
  MaxFailures,  \* bound on commands that raise or are killed
  MaxSamples    \* bound on samples that M0 replaces

ASSUME OrderAssumption == Services \subseteq Nat

ASSUME ContentsAssumption == Contents \subseteq Nat \ {0} /\ Periods \subseteq Nat \ {0}

ASSUME RowsAssumption == Rows \in [Contents -> Nat \ {0}] /\ FirstSample \in Contents

ASSUME BoundAssumption == MaxFailures \in Nat /\ MaxSamples \in Nat

VARIABLES
  sample,    \* the sample M0 recorded for each artifact, which the source directory holds
  manifest,  \* the landing store: published_at_utc of each landed version
  table,     \* how often each version has been appended
  pc,        \* next step of the command in progress, or "idle"
  command,   \* "run" or "land"
  services,  \* its services
  period,    \* its period
  pass,      \* "first", then "replay"
  todo,      \* services the current step has still to do
  landed,    \* the version each service landed in this pass
  first,     \* ... and in the first
  failures, samples

run == <<command, services, period, pass, todo, landed, first>>
vars == <<sample, manifest, table, pc, run, failures, samples>>

Artifacts == Services \X Periods

(* No file is damaged here, and one clock reading is as good as another.   *)
Store == INSTANCE LandingStore WITH damaged <- {}, MaxStamp <- 1

Nothing == 0

TypeOK ==
  /\ sample \in [Artifacts -> Contents]
  /\ manifest \in [Artifacts -> [Contents -> 0 .. 1]]
  /\ table \in [Artifacts -> [Contents -> Nat]]
  /\ pc \in {"idle", "land", "ingest", "verify", "report"}
  /\ command \in {"run", "land"}
  /\ services \subseteq Services
  /\ period \in Periods \cup {Nothing}
  /\ pc # "idle" => period # Nothing
  /\ pass \in {"first", "replay"}
  /\ todo \subseteq services
  /\ landed \in [Services -> Contents \cup {Nothing}]
  /\ first \in [Services -> Contents \cup {Nothing}]
  /\ pc = "ingest" => \A s \in services : landed[s] # Nothing
  /\ failures \in 0 .. MaxFailures
  /\ samples \in 0 .. MaxSamples

NoneLanded == [s \in Services |-> Nothing]

Init ==
  /\ sample = [a \in Artifacts |-> FirstSample]
  /\ manifest = [a \in Artifacts |-> [v \in Contents |-> 0]]
  /\ table = [a \in Artifacts |-> [v \in Contents |-> 0]]
  /\ pc = "idle" /\ command = "run" /\ services = {} /\ period = Nothing
  /\ pass = "first" /\ todo = {} /\ landed = NoneLanded /\ first = NoneLanded
  /\ failures = 0 /\ samples = 0

-----------------------------------------------------------------------------
(* What verify_table reads, and what it is compared with.                  *)

RowsOf(versions) == MapThenSumSet(LAMBDA x : Rows[x[2]], versions)

Ingested(s) == {x \in Periods \X Contents : table[<<s, x[1]>>][x[2]] > 0}

RowCount(s) == MapThenSumSet(LAMBDA x : table[<<s, x[1]>>][x[2]] * Rows[x[2]], Ingested(s))

LandedVersions(s, p) == {x \in {p} \X Contents : manifest[<<s, p>>][x[2]] # 0}

(* Mutant: only the technical keys are compared.                            *)
VerifiedByKeys(s) == RowCount(s) = RowsOf(Ingested(s))

(* The rows, the technical keys and the number of versions of the whole    *)
(* table against the manifests of one period.                              *)
Verified(s) ==
  /\ Ingested(s) # {}
  /\ RowCount(s) = RowsOf(LandedVersions(s, period))
  /\ RowCount(s) = RowsOf(Ingested(s))
  /\ Cardinality(Ingested(s)) = Cardinality(LandedVersions(s, period))

-----------------------------------------------------------------------------
(* The steps of a command.                                                 *)

(* The process is gone.                                                    *)
End ==
  /\ pc' = "idle" /\ command' = "run" /\ services' = {} /\ period' = Nothing
  /\ pass' = "first" /\ todo' = {} /\ landed' = NoneLanded /\ first' = NoneLanded
  /\ UNCHANGED <<sample, samples>>

Continue(step) ==
  /\ pc' = step
  /\ UNCHANGED <<sample, command, services, period, failures, samples>>

Begin(what, whose, p) ==
  /\ pc = "idle"
  /\ pc' = "land"
  /\ command' = what /\ services' = whose /\ todo' = whose /\ period' = p
  /\ UNCHANGED <<sample, manifest, table, pass, landed, first, failures, samples>>

IsNext(s) == s \in todo /\ \A other \in todo : s <= other

(* Mutant: ingestion begins when the first artifact has landed.             *)
LandThenIngest(s) ==
  /\ pc = "land" /\ IsNext(s)
  /\ todo # {s} \/ command = "run"
  /\ Store!Acquire(<<s, period>>, sample[<<s, period>>], 1)
  /\ landed' = [landed EXCEPT ![s] = sample[<<s, period>>]]
  /\ todo' = services
  /\ Continue("ingest")
  /\ UNCHANGED <<table, pass, first>>

(* A sample that is not the one M0 recorded is refused, so what is landed  *)
(* is the sample of the moment.                                            *)
Land(s) ==
  /\ pc = "land" /\ IsNext(s)
  /\ todo # {s} \/ command = "run"
  /\ Store!Acquire(<<s, period>>, sample[<<s, period>>], 1)
  /\ landed' = [landed EXCEPT ![s] = sample[<<s, period>>]]
  /\ todo' = IF todo = {s} THEN services ELSE todo \ {s}
  /\ Continue(IF todo = {s} THEN "ingest" ELSE "land")
  /\ UNCHANGED <<table, pass, first>>

(* The landing command ends with its last artifact.                        *)
LandLast(s) ==
  /\ pc = "land" /\ todo = {s} /\ command = "land"
  /\ Store!Acquire(<<s, period>>, sample[<<s, period>>], 1)
  /\ End
  /\ UNCHANGED <<table, failures>>

(* Mutant: the version is appended whatever the table holds.                *)
IngestAlways(s) ==
  /\ pc = "ingest" /\ IsNext(s)
  /\ table' = [table EXCEPT ![<<s, period>>][landed[s]] = @ + 1]
  /\ todo' = todo \ {s}
  /\ Continue(IF todo = {s} THEN "verify" ELSE "ingest")
  /\ UNCHANGED <<manifest, pass, landed, first>>

(* Mutant: a period that has rows already counts as ingested.               *)
IngestOncePerPeriod(s) ==
  /\ pc = "ingest" /\ IsNext(s)
  /\ table' = IF \E v \in Contents : table[<<s, period>>][v] > 0 THEN table
              ELSE [table EXCEPT ![<<s, period>>][landed[s]] = 1]
  /\ todo' = todo \ {s}
  /\ Continue(IF todo = {s} THEN "verify" ELSE "ingest")
  /\ UNCHANGED <<manifest, pass, landed, first>>

(* The version is looked up in the table and appended if it is not there.  *)
Ingest(s) ==
  /\ pc = "ingest" /\ IsNext(s)
  /\ table' = [table EXCEPT ![<<s, period>>][landed[s]] = IF @ > 0 THEN @ ELSE @ + 1]
  /\ todo' = todo \ {s}
  /\ Continue(IF todo = {s} THEN "verify" ELSE "ingest")
  /\ UNCHANGED <<manifest, pass, landed, first>>

(* After the first pass everything is done again, starting from the source. *)
VerifyFirst ==
  /\ pc = "verify" /\ pass = "first"
  /\ \A s \in services : Verified(s)
  /\ pass' = "replay" /\ todo' = services
  /\ first' = landed /\ landed' = NoneLanded
  /\ Continue("land")
  /\ UNCHANGED <<manifest, table>>

VerifyReplay ==
  /\ pc = "verify" /\ pass = "replay"
  /\ \A s \in services : Verified(s)
  /\ Continue("report")
  /\ UNCHANGED <<manifest, table, pass, todo, landed, first>>

RefuseVerify ==
  /\ pc = "verify"
  /\ \E s \in services : ~ Verified(s)
  /\ End
  /\ UNCHANGED <<manifest, table, failures>>

(* The comparison with DuckDB and the evidence file write no table.        *)
Report ==
  /\ pc = "report"
  /\ End
  /\ UNCHANGED <<manifest, table, failures>>

RunStep ==
  \/ \E s \in todo : Land(s) \/ LandLast(s) \/ Ingest(s)
  \/ VerifyFirst \/ VerifyReplay \/ RefuseVerify
  \/ Report

-----------------------------------------------------------------------------
(* What happens to a command and around it.                                *)

(* A step raises or the process is killed.                                 *)
Fail ==
  /\ pc # "idle"
  /\ failures < MaxFailures
  /\ failures' = failures + 1
  /\ End
  /\ UNCHANGED <<manifest, table>>

(* M0 takes another sample of an artifact, at any time.                    *)
Resample(a, v) ==
  /\ samples < MaxSamples
  /\ v # sample[a]
  /\ sample' = [sample EXCEPT ![a] = v]
  /\ samples' = samples + 1
  /\ UNCHANGED <<manifest, table, pc, run, failures>>

Next ==
  \/ \E what \in {"run", "land"}, whose \in (SUBSET Services) \ {{}}, p \in Periods :
       Begin(what, whose, p)
  \/ RunStep
  \/ Fail
  \/ \E a \in Artifacts, v \in Contents : Resample(a, v)

Spec == Init /\ [][Next]_vars

(***************************************************************************)
(* Fairness: a started command keeps going, and the slice of every period  *)
(* is run again and again.                                                 *)
(***************************************************************************)
FairSpec ==
  /\ Spec
  /\ WF_vars(RunStep)
  /\ \A p \in Periods : SF_vars(Begin("run", Services, p))

-----------------------------------------------------------------------------
(* What the slice promises.                                                *)

(***************************************************************************)
(* However often commands die and are repeated, no version is appended     *)
(* twice, and nothing is appended that is not landed.                      *)
(***************************************************************************)
IngestedOnce ==
  \A a \in Artifacts, v \in Contents :
    table[a][v] <= 1 /\ (table[a][v] = 1 => manifest[a][v] # 0)

(***************************************************************************)
(* A second pass that lands what the first one landed appends nothing.     *)
(***************************************************************************)
ReplayWritesNothing ==
  [][pass = "replay" /\ landed = first => UNCHANGED table]_vars

Complete(s) == Ingested(s) = LandedVersions(s, period)

(***************************************************************************)
(* A run that passes verification vouches for every landed version of its  *)
(* period, dead commands and landing commands notwithstanding, as long as  *)
(* the tables hold no other period.                                        *)
(***************************************************************************)
VerifiedPeriodComplete ==
  pc = "report" =>
    \A s \in services : Ingested(s) \subseteq {period} \X Contents => Complete(s)

(***************************************************************************)
(* A version that was landed by a command that died is ingested by a later *)
(* run, once the samples stop changing; verification cannot prevent it.    *)
(***************************************************************************)
EventuallyIngested == <>[](\A a \in Artifacts : table[a][sample[a]] = 1)
=============================================================================
