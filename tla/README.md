# Fareline in TLA+

Fareline lands NYC taxi files, resolves every landed version against a schema
contract, and publishes the accepted rows and the recorded incidents in Delta
tables. The code has no server and no locks: a run is one process, it keeps its
plan in memory, it can die anywhere, and the next run has to make sense of what
it left on disk. These modules model that protocol, check it with TLC on small
instances and prove parts of it with TLAPS for every value of the constants.

Paths below are relative to `src/fareline/`.

## Inventory

| Component | State it keeps | Operations | What makes it correct |
|---|---|---|---|
| Versioned landing, `m1/landing.py`, `m1/sources.py` | `files/`, `manifest/`, `events.jsonl`, `_incoming/` | `acquire` (fetch, validate, then replay, repair or publish), `land_artifacts` | A version is visible at once and with its file; a manifest never changes; a version is published once; what upstream holds ends up readable |
| Version decision, `m2/versions.py` 81-116 | none | `sort_key`, `decide` | A total order; exactly one active version when one is accepted |
| Publication catalog and boundary, `m2/versions.py` 377-624 | markers, `publication_boundary.json`, `publication_layout.json` | `publish`, `set_boundary`, `covered`, `visible_derivations`, `check_layout`, `plan_transition` | A marker is the last write of a derivation; nothing published falls out of the view; readers never go back |
| Version ledger, `m2/versions.py` 288-374 | `version_ledger.jsonl` | `append`, `state`, `reconcile` | It claims only what was exposed, and agrees with the view once reconciled |
| Contracted run, `m2/pipeline.py` | memory of the run | land, plan, prepare, apply, settle, reconcile, measure, rebuild, replay | Restartable at every step; equal to a build from nothing; a replay writes nothing |
| Delta tables, `m2/build.py` | contracted, quarantine, incidents, per service and contract | idempotent append by transaction id, row split, zone join | No partial derivation exposed, no row lost or counted twice |
| Zone lookup, `m2/zones.py` | landed versions | select the pinned or the newest version | One lookup for all of a boundary |
| Contracts, resolution, types, `m2/contracts.py`, `m2/resolution.py`, `m2/types.py` | none | resolve a schema against a contract | Every deviation named, and no other; what is published of a column is what the file holds |
| Rebuild root, `m2/paths.py` | scratch root and its owner marker | claim, clear, disjointness | Never deletes what it did not create; leaves its own work unclaimed only where it died |
| Local time, `m2/localtime.py` | none | offset changes of a month by bisection | Exact to the second |
| Equivalence, `m2/equivalence.py` | none | order-free digests | Equal multisets, equal digests |
| M1 occurrences and slice, `m1/occurrences.py`, `m1/pipeline.py` | source occurrences table | check-then-append ingestion, per-period verification | Each version appended once; a retry completes it |
| M1 quality, `m1/quality.py` | none | SQL rules, DuckDB oracle | Two engines agree |
| M0 inventory, `m0.py` | samples, evidence files | HTTP with retries, sampling | Retries end; what is landed on the word of the evidence is what the evidence recorded |
| Two-driver probe, `scripts/m2_concurrency_probe.py` | ready files, a Delta table, reports | line up, append, report, verify | Two commits of one transaction id keep one; the verdict is right |
| Command lines, smokes, `scripts/` | none | argument parsing, container tests | |

How they interact: a run (`run_slice`) calls landing for each artifact of its
scope and for the zone lookup, reads the manifests back, decides per artifact,
appends to the Delta tables, and marks the derivation in the catalog. Only then
does it move the boundary, which is the one document readers start from, and
append to the ledger. Then it measures the warehouse, builds the same plan
again in the rebuild root, and applies the plan to the warehouse a second time.
An inspection (`m0.py`) replaces the samples that landing copies, and writes the
evidence that landing checks them against, at any time while runs go on.
Nothing is called back and nothing is awaited. Runs share the landing root and
the warehouse through files only, and one coordinator starts them one after the
other (`docs/architecture.md`).

The hard behaviours are therefore crashes between two writes, retries that meet
half of an earlier run's work, long sequences of legal runs (scoped, pinned,
migrating, under other contracts), clock readings that tie or go backwards,
files that become unreadable, samples replaced between a check and its use, two
drivers on one Delta log, and, within a file, nulls in rule columns, joins that
match twice, casts and offset changes. `PROJECT.json` lists each at its line.

## Modules

| Module | What it is |
|---|---|
| `LandingStore` | Abstract: the landing store as its readers may rely on it |
| `Landing` | `acquire` step by step, with failures; shown to implement `LandingStore` |
| `LandingProofs` | Proofs about `Landing` |
| `Versions` | The pure part of `m2/versions.py`: decision, view, transition |
| `Publication` | `run_slice`, run after run, over `LandingStore` (`Store!Acquire`, `Store!Damage`) and `Versions` |
| `PublicationProperties` | The properties, their strengthenings, and the fairness |
| `PublicationProofs` | Proofs about `Publication`: types, markers, layout, coverage, and what deciding yields |
| `AppliedProofs` | Proofs about a plan that has been applied: readers, the comparison with a rebuild, the ledger, late failures, the replay, artifacts out of scope |
| `ServiceContracts` | The two contracts of `m2/contracts.py`, column by column |
| `Resolution` | The pure part of `m2/types.py` and `m2/resolution.py` |
| `LocalTime` | The offset changes of a month, `m2/localtime.py` |
| `Projection` | What a run makes of one file, over the two above: `zones.load`, `write_version`, `write_rejection`, the frames of `m2/build.py` |
| `ProjectionProofs` | Proofs about `Projection`, and of the bisection in `LocalTime` |
| `Drivers` | Drivers that race on one Delta table, and the probe that measures it |
| `DriversProofs` | Proofs about `Drivers` |
| `Inventory` | An inspection by `m0.py` and the landings that trust its evidence, over `LandingStore` (`Store!Acquire`) |
| `InventoryProofs` | Proofs about `Inventory` |
| `SourceOccurrences` | The M1 slice, `m1/pipeline.py` and the tables of `m1/occurrences.py`, over `LandingStore` |
| `SourceOccurrencesProofs` | Proofs about `SourceOccurrences` |
| `RebuildRoot` | The scratch directory of the rebuild, `m2/paths.py`, in a file system that others write to |
| `RebuildRootProofs` | Proofs about `RebuildRoot`: every property it is checked for |
| `MCPublication`, `MCLanding`, `MCSourceOccurrences`, `MCRebuildRoot`, `MCProjection`, `MCDrivers`, `MCInventory` | Values of the constants for TLC |

`Publication` is composed with the abstract store and not with `Landing`: what
a run does between two landing calls depends only on manifests and readable
files, and the refinement says that `Landing` offers exactly those.
`SourceOccurrences` and `Inventory` use the same store for the same reason.
`Projection` is the inside of what `Publication` calls writing an accepted or a
refused version: there a version is accepted or not by a constant, here one file
at a time is resolved, split and written.

### How the model corresponds to the code

`pc` in `Publication` names the statement of `run_slice` that comes next. One
action is one call that changes state on disk; what a call computes in memory
only is part of the step that uses it.

| Code | Action |
|---|---|
| `run_slice` up to `land` | `Start`: `check_layout`, then the zone pin is taken from the option or the boundary |
| `land` -> `acquire` | `LandArtifact`, `LandZone` (the lookup is acquired with the first artifact) |
| `zones.load` | `LoadZone`, `RefuseZone` |
| `check_publication_scope` | `CheckScope`, `RefuseScope` |
| `plan`, `decisions_for` | `Plan` |
| `prepare_layout` | `PrepareLayout` |
| `published_state` | `PriorState`, `RefusePriorState` |
| `apply_plan`, `write_version`, `write_rejection` | `NextItem`, `WriteContracted`, `WriteQuarantine`, `WriteIncidents` |
| `catalog.publish` | `PublishMarker`, `RefuseMarker` |
| `settle_boundary` | `SettleBoundary` |
| `reconcile`, `VersionLedger.append`, `state` | `Reconcile` |
| `measure_tables`, the rebuild, the replay pass | `Measure`, `Rebuild`, then the items again with `pass = "replay"` |
| the report | `Report` |
| any exception elsewhere, or a kill | `Crash` |
| a new `contracts.py` | `Deploy` |

and in `SourceOccurrences`, for `m1/pipeline.py`:

| Code | Action |
|---|---|
| `run_slice` or `m1 land` is started | `Begin` |
| `land_artifacts`, one artifact at a time | `Land`, `LandLast` for the last one of the landing command |
| `ingest_artifacts` -> `ingest_version` | `Ingest` |
| `table_state` -> `verify_table` | `Verified` in `VerifyFirst`, `VerifyReplay`, `RefuseVerify` |
| `compare_service`, the report | `Report` |
| an exception or a kill | `Fail` |
| M0 replaces a sample (external) | `Resample` |

and in `RebuildRoot`, for `m2/paths.py` and the part of `m2/pipeline.py` that
calls it:

| Code | Action |
|---|---|
| `verify_rebuild_root` | the guard `Allowed` of `Start`; the later calls see the same options and agree |
| everything before the rebuild | `Work`: the run writes its own warehouse |
| `prepare_rebuild_root`, before and after the removal | `Make`, `ClaimEmpty`, `Own`, `Refuse`, then `OpenMarker` and `WriteMarker` |
| `shutil.rmtree` | `RemoveFile`, `RemoveMarker`, `RemoveDir`, in any order the file system lists entries |
| the rebuild, the rest of the run | `Build`, `Measure` |
| an exception or a kill | `Die` |
| other programs and users (external) | `Put`, `MakeDirectory` |

and in `Projection`, for one file of a run:

| Code | Action or definition |
|---|---|
| `zones.load` | `LoadZones`, `RefuseZones` |
| `plan` -> `_resolve_candidate`, `resolve` | `ResolveSchema`, with `ResolveCandidate`, `Resolve`, `Field`, `Breaches` |
| `write_rejection` | `WriteRejection` |
| `_intervals` -> `transitions` | `FindIntervals`, `NoTimeZone`, with `Transitions`, `TransitionInstant`, `Interval` |
| `write_version` | `WriteVersion`, with `Canonical`, `GuardViolation`, `Joined`, `Flags`, `Evaluated` for `contracted_frame`, and `Published`, `Quarantined`, `RowIncidents` for the split |

and in `Drivers`, for `scripts/m2_concurrency_probe.py`:

| Code | Action |
|---|---|
| a driver starts and writes its ready file | `Launch` |
| `wait_for_peers` | `Pass`, `TimeOut` |
| `write_partition` -> the idempotent append of `m2/build.py` | `BeginTransaction` |
| the Delta log (external) | `CommitNext`, `LoseToPeer`, `TryNext` |
| the report | `Report` |
| `verify` | `Verify` |
| a kill, or an exception elsewhere | `Kill` |

and in `Inventory`, for `m0.py` and what reads its evidence:

| Code | Action |
|---|---|
| `inspect_sources`, started | `Inspect` |
| `remote_headers`, `_request_with_retries` | `HeadersAnswered`, `TimedOut`, `Refused`, `HttpError` |
| the zone lookup of the inspection | `LookupAnswered`, `LookupRefused` |
| `sample_remote_file` | `StartCopy`, `FinishCopy` |
| writing the evidence | `OpenEvidence`, `WriteEvidence` |
| a landing command or slice of M1, a run of M2 with `evidence_index` | `BeginM1`, `BeginM2` |
| reading the expected hash, comparing it, `acquire` | `ReadHashes`, `RefuseEvidence`, `Acquire`, `RefuseSample` |
| a kill | `KillInspection`, `KillLanding` |
| upstream, or another row limit (external) | `Revise` |

A source version stands for the hash of its bytes and a contract for its
fingerprint; both are numbers or model names, and numbers are ordered as the
code orders the strings. A table is its set of commits, one per transaction id,
each saying whether it came from an accepted split or from a refusal. The
markers are a set of records. The ledger is kept as what its readers compute:
the latest event of each version (`ledger`) and the replay of all of them
(`ledgerState`).

Abstractions a reader should know of:

- `RebuildMarkers` computes the rebuild instead of running its writes: the
  rebuild root is empty and its own failures are `Crash` and `RefuseRebuild`.
- `Damage` happens before a plan is made. Later in the run the code does not
  look at landed files except to read the active version, which then fails like
  any write. A transient read error is a damage followed by another landing.
- Appending the events of one reconciliation is one step, and so is a rename.
- In `Landing`, files are damaged and manifests edited only after a version has
  landed. The "rejected" event names no version and is left out, and so is what
  a killed process leaves in `_incoming`: its name is fresh and nothing reads it.
- `SourceOccurrences` has one writer, as `docs/m1-vertical-slice.md` and the code
  declare, no damaged file, and versions of one row each: samples are bounded
  and as long as each other. `FirstSample` loses nothing, for versions of
  different artifacts have only their names in common. A failure of the zone
  lookup is a `Fail`.
- A file in `RebuildRoot` carries where it comes from: "rebuild", "precious" when
  no valid marker lay above it and no run was claiming or clearing there, and
  "disposable" otherwise. The code checks that a directory is empty before it
  writes the marker, not while it does; what others put there in between is
  disposable by this definition. Others do not delete. Symbolic links, and a
  file at the path of the root itself, are left out.
- `Publication` sees the rebuild root as empty when a rebuild begins, which is
  `BuiltFromNothing`, and its refusal as `RefuseRebuild` or `Crash`.
- Types in `Projection` hold small sets of integers. TLC's count in halves, so
  that a float can hold what an integer cannot and the other way round, with
  2^53 at 8; the proofs take any sets that satisfy `ValuesAssumption`. A value a
  type cannot hold becomes a neighbour when it is cast. Columns of rules are
  three-valued, as in Spark. A lossy split is a branch of `WriteVersion` that is
  never taken, which is proved.
- `ResolveCandidate` refuses a file whose reader reports a type without a token,
  also in a column the contract does not mention, as the code does (see the
  disagreements below). The branch of `_resolve_one` for such a type
  (`m2/resolution.py` 179-197, `unsupported_source_type`) is therefore never
  reached from a run, and `Breaches` leaves it out.
- `EventFor` names the contract by its fingerprint. The code's events carry
  `contract_version` (`m2/versions.py` 354) instead. The two say the same as long
  as every revision of a contract is given a new version; for a revision that
  keeps its version the code appends no event where the model does.
- `LocalTime` has one offset change per zone, and TLC's instance a month of 12
  hours. Changes lie on quarter hours (`QuarterAssumption`), as they do in the
  months trips were recorded in: halving an hour then ends on the change. For
  other instants the code's bisection ends less than a second after it, which
  is proved (`TransitionsToTheSecond`). The walk begins an hour before the month in universal
  time, so a change in the first hours of the local month of a zone far east is
  not seen in either month (October 2023 in Sydney); the comment at
  `m2/localtime.py` 95 speaks of slack on each side, the code has it at the
  start. The pipeline reads New York only. `FlagsMatchCivilTime` says what is
  seen with `Observed`.
- `Drivers` leaves out the rows: every commit holds those of one version. That a
  commit number is given once, and that a driver looks at the commits that beat
  it, is what the code relies on Delta for.
- `Inventory` has one inspection at a time and one landing beside it. What lies
  at a sample's path until its copy is complete is up to DuckDB: the old content
  or a torn file. TLC's instance has one evidence file, the proof any number.
- A downgrade of the published layout and a marker file damaged by hand are not
  modelled.

## Runs

| Run | Instance | Shows |
|---|---|---|
| `publication_zones` | two artifacts of two services, one revised upstream, two zone lookups, one crash; fair | Migrations between lookups by scoped and pinned runs keep every published period (`CoverageKept`); the check made before the first write still holds when the boundary is settled (`SettlingNeverRefused`); an artifact out of scope is not touched (`OthersUntouched`); a second application writes nothing (`ReplayWritesNothing`); as long as every version is accepted and readable, which the instance makes so, scheduled runs end up current (`AlwaysCurrentAgain`) |
| `publication_history` | two artifacts of one service, one revised upstream, clock readings 1 and 2, two contracts of which the second refuses the upstream revision; at most three of one crash, two deployments and one damage | No half-written derivation is exposed (`MarkerComplete`); a contract revision, and its rollback, cannot lose a covered artifact (`CoverageKept`); rows equal those of a rebuild (`RowsMatchRebuild`) and so do incidents, but for those of unreadable files (`IncidentsMatchRebuild`); the ledger claims only what was exposed (`LedgerClaimsExposed`) and is level with the view after a reconciliation (`LedgerMatchesView`); readers never go back (`ViewMonotone`); a run whose tables cannot be measured found no acceptable version of a service (`LateFailureMeansUnaccepted`) |
| `landing` | two artifacts, two versions, two failures, two changes of sources, files or manifests; fair | `acquire` implements `LandingStore`; one publication per version; a missing event takes a failure; what sources hold ends up readable |
| `source_occurrences` | two services, two periods, one failure, two replaced samples; fair | Each landed version is appended once (`IngestedOnce`); a replay of the same versions appends nothing (`ReplayWritesNothing`); a run that passes vouches for its period while the tables hold no other (`VerifiedPeriodComplete`); the last sample is ingested in the end, although verification may refuse every run (`EventuallyIngested`) |
| `rebuild_root` | a tree of six directories, one protected; any roots, any deaths, any files of others | Precious files stay (`PreciousSurvive`), and so do a run's own and protected data (`ProtectedSurvive`); a rebuild starts with nothing of an earlier one (`BuiltFromNothing`); leftovers of a rebuild without a valid marker, and unreadable markers, lie only where a run died while it cleared or marked the root (`LockoutTakesDeath`) |
| `projection` | the two service contracts as they are, with every change of one column's type, pairs of changes, guarded values, wall clocks around every offset change of seven zones, and lookups of up to three lines | Each source row is in one table once, and in quarantine with its reason (`EveryRowAccounted`); published values are the file's (`NothingLostSilently`); a refusal names every deviating column and no other, or the file as a whole if it has a type without a token (`EveryDeviationNamed`); flags agree with civil time (`FlagsMatchCivilTime`) |
| `drivers` | two racing drivers and one of an earlier probe, two peers at the barrier; fair | One row set per version (`OneRowSetPerVersion`); a wrong verdict has a cause outside Delta (`VerdictIsRight`); nobody writes early unless ready files were left (`LineUp`); every driver ends (`EveryDriverEnds`) |
| `inventory` | two artifacts, two contents, two annual files, two attempts, one change upstream; fair | A manifest names only a hash that an inspection wrote down (`AttestedWasRecorded`); an inspection ends whatever the servers do (`InspectionEnds`) |
| `failed_run`, `refused_retry`, `unreadable_version`, `mixed_incidents` | the smallest instance each needs | The four disagreements below |

Why these bounds suffice. Everything the code decides about an artifact depends
on it, its versions and the boundary, and across artifacts only on coverage per
service. Two artifacts in two services (`publication_zones`) tell a scope from
the whole, and two in one (`publication_history`) one artifact from all of its
service; contract revisions with both shapes at once are left to the theorems
(`CoverageIsKept`, `SettlingSucceeds`), which hold for any services. Two versions
are needed for a successor, two stamps for a clock that ties, advances or runs
backwards, two contracts or lookups for a migration and its way back. One crash
reaches every half-written state; the number of runs is not bounded. The bounds
are `MaxStamp`, `MaxCrashes`, `MaxRevisions`, `MaxDamages`, `MaxEvents` (crashes,
deployments and damages together: any three of them, in any order),
`MaxFailures`, `MaxChanges` and `MaxSamples`, and each is a guard of the actions
it names. `Attempts` and `Annual` are numbers of the code, which has three, and
one file per month and service: two of each tell the last from the others.
`Offered` and `OfferedZones` say which clock readings are tried for what: an
artifact with one version, or a single lookup, is compared with nothing. The
instances are separate because one with two lookups, two contracts, two services
and damage is too large.

`RebuildRoot` needs no bound: its state is finite, and the six directories give
every relation two of them can have, twice. No symmetry is used, since
identifiers are ordered. Deadlock is checked in every run: a run that cannot go
on raises, and another may always be started.

`IncidentsMatchRebuild` allows one difference. A version that was rejected as
unreadable, then repaired and superseded, keeps its rejection marker and its
incident in the warehouse, and a build from nothing has neither. Without damage
there is no such version and the property is an equality.

`LockoutTakesDeath` is about Fareline's own leftovers. A root can also be refused
with nobody dead: `clear_rebuild_root` removes it, another program creates it
again with a file of its own, and `prepare_rebuild_root` rightly does not claim
it. What lies there then is only what others put there.

### Fairness

`FairSpec` of `Publication` assumes that a process that was started keeps
executing (weak fairness of `RunStep`) and that the schedule runs the whole slice
without options again and again (strong fairness of one `Start`, since other runs
may be in progress whenever one looks). The code schedules nothing itself, so
this is an assumption on its operator and is used by `AlwaysCurrentAgain` alone.
That property is claimed, and checked, while every version is accepted and every
landed file can be read: what lies between two scheduled runs is then a crash, a
run refused for its scope or its lookup, or a move to the other lookup. It would
be false beyond that: an artifact with no accepted version has nothing to be
current with, and `refused_retry` and `unreadable_version` reach states from
which every later run fails.

`FairSpec` of `Landing` assumes the same of one acquisition and of the requests
for each artifact. `FairSpec` of `SourceOccurrences` assumes a command that keeps
going and a slice that is run for every period again and again, and is used by
`EventuallyIngested` alone. That of `Drivers` is weak fairness of each driver's
own steps: it waits with a deadline, and others can win only finitely many
numbers, one per version. That of `Inventory` is weak fairness of an inspection
in progress; a kill ends it too. Crashes, deployments and damage have no
fairness; those of `Publication`, `Landing` and `SourceOccurrences` are finitely
many only because of their bounds, the deaths of the other modules have none.

### Disagreements between code and documents

Each of the first four is a run in which TLC finds the quoted sentence violated.

- `failed_run`: "A failed run cannot move the publication boundary"
  (`docs/data-contracts.md` 129). `settle_boundary` installs the target once every
  artifact has a marker, and a rejection is a marker. `measure_tables` raises
  after it for a service without an accepted version, whose tables nobody has
  written. The run fails, without a report, and the boundary has moved.
  `LateFailureMeansUnaccepted` says that this is the only way in which measuring
  fails.
- `refused_retry`: after a publication with nothing but rejections, a crash
  between the first two table writes makes `published_state` raise in every
  later run, before anything is written.
- `unreadable_version`: whether a file can be read is part of a marker's
  document but not of its name, so a file that becomes unreadable, or is
  repaired, turns into a conflict that ends every run which plans that version.
- `mixed_incidents`: a rejection and an accepted version of one derivation share
  a transaction id. A rejection that died before its marker keeps the incidents
  of the accepted version from being written.

- No run of its own: `resolve` says that columns the contract does not mention
  are not an error, and that every violation is collected
  (`m2/resolution.py` 306 and 294). `_resolve_candidate` translates the types of
  all columns first, and one type without a token refuses the file, with one
  incident for `*` and none for what else deviates, also when the contract does
  not mention the column. `EveryDeviationNamed` states both cases as the code has
  them, and the instance of `projection` reaches such files: with no deviating
  column, and with several that go unnamed.

Two more limits of the code are no runs of their own, but
a reader of the properties should know of them. `m2/pipeline.py` 468 counts any
marker under a target as coverage, so `CoverageKept` speaks of markers: a
migration that rejected one artifact, was interrupted, and is completed by a run
that does not ask for it takes that artifact's rows out of the view. And
`verify_table` (`m1/occurrences.py` 218) compares numbers of rows, keys and
versions of a whole table with the manifests of one period, so
`VerifiedPeriodComplete` holds only while the tables hold no other period.

## Proofs

The eight modules named `...Proofs` are checked by `tlapm` without any unproved
step. They assume only the named assumptions beside the constants
(`IdentifiersAssumption`, `ServiceOfAssumption`, `StampAssumption` and so on),
which TLC evaluates in the runs. Artifacts, versions, contracts, zones and all
bounds are arbitrary. Every safety property and action property that a passing
run checks is also the statement of a theorem.

Three assumptions say more than what kind of thing a constant is:

- `LossAssumption` (`Projection`): the tables of `m2/types.py` list every pair of
  types between which nothing is lost. Without it a refusal could name a column
  that conforms, so it is the condition under which the tables are right; TLC
  evaluates it on the formats of its instance, scaled from the real ones.
- `QuarterAssumption` (`LocalTime`): offset changes lie on quarter hours of
  universal time and months last whole hours. Of the time zone database this is
  true in the years the contracts cover, and it is what lets 12 halvings of an
  hour end on the change itself.
- `ContractAssumption` (`Resolution`): among others, the pickup column of a
  contract is a timestamp, as both contracts of `m2/contracts.py` have it.

Where a proof would go by induction over a set or over a recursive function, it
goes by a least counterexample instead. Finite subsets of a finite set are well
ordered by inclusion, which the library states for sets and not for operators,
so it can be used: what precedes an element shrinks from each to the one before,
hence a finite set of versions has a newest one (`FirstExists`, `NewestExists`
in `PublicationProofs`), and the intervals up to a number shrink, hence a set of
numbers has a least one (`LeastNatural` in `ProjectionProofs`).

- `TypeCorrect` (`Spec => []TypeOK`). Inductive with three facts about the run's
  memory: past `LoadZone` there is a lookup, items exist only after `PriorState`,
  and the item being written is not superseded (`ZoneLoaded`, `NotBegun`,
  `NextIsWritten`), without which a marker might be ill-typed.
- `MarkersComplete` (`Spec => []MarkerComplete`). Not inductive alone: a run that
  dies forgets its place, so the invariant says of the next item what its place
  implies is committed already (`WrittenInOrder`). At `"marker"` it speaks only
  of items without a conflict: for those the existing marker equals the new one
  and is complete itself. Lemmas about `Append` (commits are never removed) and
  about the order of items (the next item is unique) carry the steps.
- `LayoutFirst` (`Spec => []LayoutBeforeData`). With `LayoutInstalled`.
- `CoverageIsKept` (`Spec => CoverageKept`). Markers only grow, and the one step
  that moves the boundary is guarded by `plan_transition`'s coverage.
- `LandingTypeCorrect`, `VersionsPublishedOnce`, `LandingImplementsStore`. The
  invariant adds to the types that between the two renames the file is good and
  the version not landed, and that until its event a version has none. A step
  maps to `Store!Acquire`, `Store!Damage` or a stutter: `Place` to a stutter,
  because no reader sees a file without a manifest. `SilenceIsFailure` counts:
  a manifest makes one version silent, its event makes that one heard, and what
  ends an acquisition between the two is a failure (`Silence`).
- `SliceTypeCorrect`, `OccurrencesIngestedOnce`. The invariant adds what a command
  remembers: what it has landed in this pass is landed in the store, for the
  services it is done with while it lands and for all of them while it ingests
  (`LandedIsLanded`). Without it `Ingest` might append a version nobody landed.
- `TreeTypeCorrect`, `OthersFilesSurvive`, `ProtectedFilesSurvive`,
  `RebuiltFromNothing`, `LockedOnlyByDeath`, for any tree of directories
  (`PathsAssumption`). `PreciousIsUnclaimed` says that nothing precious lies below
  a valid marker or below a root that was found empty; an empty directory has
  nothing below it because the tree is well-formed. A file below both the root
  and a protected directory would put one of the two in the other. For the last
  two, `ClearInv` follows the root from its removal to the build, and explains
  every leftover by a death or by the clearing in progress.
- `LedgerIsExposed`, `LateFailureExplained`, `ReplaysWriteNothing`,
  `OthersAreUntouched` (`AppliedProofs`). `AppliedInv` adds to the types that a
  plan has one candidate per version, that what a pass has taken off its list is
  marked, that the list is empty once the pass is over, that from the first
  reconciliation on the ledger has the event of every candidate, and that the
  replay therefore meets only markers and events it would write itself. For the
  last theorem it is enough that whatever a run plans lies in its scope
  (`WithinScope`).
- `ViewsAreMonotone` (`AppliedProofs`). A new marker is newer than what readers
  see, and then nothing else is newer than it (`NewerIsOrder`), or it is not shown.
- `SettlingSucceeds`, `RowsAreRebuilt`, `LedgerIsTheView` (`AppliedProofs`), from
  one invariant, `ReaderInv`. `SettlingSucceeds` needs to know that the scope check
  still holds when the boundary is settled (`ScopeHeld`): the run only adds
  markers, its plan has a candidate for every artifact in scope because what was
  asked for has landed (`LandedInv`), and one of an artifact's candidates is never
  superseded because finitely many versions have a newest. For the other two,
  what readers see and what a build from nothing would show are both shown to be
  the plan's active candidates (`ViewIsPlan`, `RebuildViewIsPlan`): a marker
  carries the stamp of its manifest (`MarkersInv`), a superseded candidate yields
  to a newer active one (`PlanInv`), and readers are on the context of the run
  once the boundary has moved (`Settled`). That the ledger's replay has one
  activation at most is `LedgerInv`.
- `IncidentsAreRebuilt` (`AppliedProofs`), with the reasons of refusals
  (`ReasonsInv`). The warehouse has every incident of a rebuild, and one it has
  beyond those is of a version that was refused as unreadable, never of a
  contract, a crash or a migration: a version the contract refused is refused
  again by every plan under that contract.
- `ReplayIsIdempotent`, `VerifiedIsComplete` (`SourceOccurrencesProofs`). What a
  pass has ingested stays in its table, and the first pass is remembered during
  the second (`AppendedInv`). For the second theorem, the numbers that
  `verify_table` compares are enough: the table's versions are among the landed
  ones, which are finitely many (`LandedFinitely`), and a subset with as many
  elements as a finite set is that set.
- `RowsAccounted`, `NothingLost` (`ProjectionProofs`), for any files, number
  formats, zones and contracts that satisfy the assumptions. A usable lookup has
  each LocationID once, so a key meets one line (`ZonesLoaded`, `OneLine`); every
  quarantine rule is true or false and never null (`TwoValued`), so the two
  filters part the rows. A promotion that is allowed keeps its values because
  they are values of the target, or because the guard found them in range.
- `RefusalsNameDeviations` (`ProjectionProofs`). A column breaches its contract
  exactly when it deviates (`BreachIsDeviation`), which for one source column is
  that the tables call a promotion lossy exactly when its formats do not fit
  (`RefusedTypeLoses`); the incidents are those breaches (`RefusalInv`), or the one
  that stands for the file if it has a type without a token.
- `TransitionsToTheSecond`, `FlagsAreCivilTime` (`ProjectionProofs`). A recursive
  function in TLA+ is some function that satisfies its equation, if there is one.
  That there is one here is proved first (`Bisection`): narrowing an interval
  uses shorter intervals only (`Halves`, `SameHalves`), so the narrowings up to
  each length exist and agree (`PartialExists`, `PartialAgree`). Each step
  keeps the half that contains the change (`KeepsTheChange`), and an interval
  that ends on the change goes on doing so (`StaysOnTheChange`), which within two
  halvings is where a quarter hour ends up (`QuartersAreExact`). The hours of the
  walk cover the month and the hour before (`WalkCovers`), so its intervals are
  known (`TransitionsOfMonth`), and so is how many instants a wall clock names
  (`InstantsCounted`). A pickup is an instant or null because nothing is guarded
  into a timestamp (`PickupIsInstant`).
- `DriverTypes`, `RowsOnce`, `NobodyWritesEarly` (`DriversProofs`), for any
  number of drivers. Commits are named for their version (`NamedForVersion`),
  and a driver about to commit has found its transaction in none of the commits
  it has looked at (`NotYetSeen`): those it has not looked at, it looks at before
  it tries the next number. The drivers that have started only become more.
- `VerdictsAreRight` (`DriversProofs`). Who reported a commit has its version in
  the table, what the table gained is of this probe's drivers, and a verdict is
  dropped when a driver runs again (`VerdictInv`). The table has as many versions
  as commits (`VersionsCounted`), so with no earlier row and no silent writer
  the numbers that `verify` compares are equal.
- `AttestedRecorded` (`InventoryProofs`), for any number of evidence files and
  selections. What evidence holds was recorded, and so was what a landing has
  read of it, though the file may have been rewritten since (`EvidenceRecorded`,
  `ExpectedRecorded`).

Only model-checked: the liveness properties `AlwaysCurrentAgain`,
`EventuallyReadable`, `EventuallyIngested`, `EveryDriverEnds` and `InspectionEnds`
(they follow from fairness, and this prover has neither `ENABLED` nor the rules
for it), and the four violations, which are counterexamples.

## Not modelled

- The quality rules of M1, their SQL and the DuckDB oracle: two engines evaluate
  the same expressions over row values, with no state between them.
- Equivalence digests: they are hashes of rows; the properties that compare a
  run with a rebuild compare the rows themselves.
- Delta's own files and Parquet and CSV parsing; what a reader reports of a
  schema is an input of `Projection`.
- A version ledger with a torn last line: appending the events of one
  reconciliation is one step. A crash inside it leaves a line no later run can
  parse, and the code has nothing that handles it.
- Of `m0.py`, the profiles of footers and the summary; of `m2/paths.py`, symbolic
  links. Command lines, smokes and the wording of reports.

## Plan

What is left, in this order:

1. `Ledger`: appends line by line with a torn last line, refined to the one-step
   `Reconcile` where it holds.
2. `PublishedView`: what a reader is promised, refined by `Publication`, and the
   proof of the refinement.
3. The inspection of M0 with two inspections at a time, and the boundary as
   several readers see it while a run goes on.
