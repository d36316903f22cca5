----------------------------- MODULE Projection -----------------------------
(***************************************************************************)
(* What a run makes of the rows of one landed file: the zone dimension of  *)
(* src/fareline/m2/zones.py, write_version and write_rejection of          *)
(* src/fareline/m2/pipeline.py, and the frames of src/fareline/m2/build.py.*)
(* Which run does so, and when it dies, is the subject of Publication.     *)
(***************************************************************************)
EXTENDS Resolution, LocalTime, Sequences

CONSTANT
  Files   \* [service, schema, rows, lookup: LocationIDs of the landed lookup, zone: time zone]

ASSUME FilesAssumption ==
  \A f \in Files :
    /\ f.service \in Services
    /\ f.lookup \in Seq(Int \cup {Null})
    /\ DOMAIN f.schema \subseteq Spellings
    /\ f.rows \in Seq([DOMAIN f.schema -> Int \cup {Null}])
    /\ \A s \in DOMAIN f.schema :
         /\ f.schema[s] \in SourceTypes
         /\ \A i \in DOMAIN f.rows : f.rows[i][s] \in Values[f.schema[s]] \cup {Null}

VARIABLES
  pc,           \* next step for the file, or how it ended
  file,
  dimension,    \* zone rows: [id, line]
  resolved,     \* its schema resolution
  intervals,    \* unresolvable intervals of its month
  published,    \* contracted rows
  quarantined,
  incidents

input == <<file, dimension, resolved, intervals>>
output == <<published, quarantined, incidents>>
vars == <<pc, input, output>>

NoFile == [service |-> "none", schema |-> <<>>, rows |-> <<>>, lookup |-> <<>>, zone |-> "none"]

QuarantineRules == {"pickup_timestamp_missing", "negative_duration",
                    "guarded_promotion_out_of_range"}
IncidentRules == {"pickup_out_of_declared_period", "dropoff_timestamp_missing",
                  "zone_key_missing", "zone_key_unknown",
                  "local_time_nonexistent", "local_time_ambiguous"}
Rules == QuarantineRules \cup IncidentRules

-----------------------------------------------------------------------------
(* Spark's three-valued logic and its casts.                               *)

Truth(b) == IF b THEN "true" ELSE "false"

AnyOf(truths) ==
  IF "true" \in truths THEN "true" ELSE IF "null" \in truths THEN "null" ELSE "false"

Negation(t) == CASE t = "true" -> "false" [] t = "false" -> "true" [] OTHER -> "null"

Both(s, t) == Negation(AnyOf({Negation(s), Negation(t)}))

Less(v, w) == IF Null \in {v, w} THEN "null" ELSE Truth(v < w)

OrFalse(t) == IF t = "null" THEN "false" ELSE t

Distance(v, w) == IF v < w THEN w - v ELSE v - w

(* A value the target cannot hold becomes a neighbour, without a word.     *)
Cast(v, t) ==
  IF v = Null \/ v \in Values[t] THEN v
  ELSE CHOOSE w \in Values[t] : \A x \in Values[t] : Distance(v, w) <= Distance(v, x)

-----------------------------------------------------------------------------
(* zones.py                                                                *)

(* Mutant: a LocationID may be repeated.                                    *)
UsableRepeated(lookup) == lookup # <<>> /\ \A n \in DOMAIN lookup : lookup[n] # Null

(* Null stands for a LocationID that is no integer.                        *)
UsableLookup(lookup) ==
  /\ lookup # <<>>
  /\ \A n \in DOMAIN lookup : lookup[n] # Null
  /\ \A m, n \in DOMAIN lookup : m # n => lookup[m] # lookup[n]

ZoneRows(lookup) == {[id |-> lookup[n], line |-> n] : n \in DOMAIN lookup}

-----------------------------------------------------------------------------
(* build.py                                                                *)

Contract == Contracts[file.service]
Columns == DOMAIN Contract.columns

SourceOf(c) == CHOOSE s \in resolved.fields[c].source : TRUE

Mapped == {c \in Columns : resolved.fields[c].status = "mapped"}

(* _canonical_column of every field                                        *)
Canonical(row) ==
  [c \in Columns |-> IF c \in Mapped THEN Cast(row[SourceOf(c)], Contract.columns[c].target) ELSE Null]

GuardedFields == {c \in Mapped : resolved.fields[c].promotion = "guarded"}

(* Mutant: a null is left for the caller to handle.                         *)
GuardOrNull(row) ==
  AnyOf(UNION {{Less(row[SourceOf(c)], -Exact), Less(Exact, row[SourceOf(c)])} :
                 c \in GuardedFields})

(* Mutant: only the upper bound is checked.                                 *)
GuardAbove(row) == OrFalse(AnyOf({Less(Exact, row[SourceOf(c)]) : c \in GuardedFields}))

GuardViolation(row) ==
  OrFalse(AnyOf(UNION {{Less(row[SourceOf(c)], -Exact), Less(Exact, row[SourceOf(c)])} :
                         c \in GuardedFields}))

IntervalFlag(v, kind) ==
  OrFalse(AnyOf({Both(Negation(Less(v, i.start)), Less(v, i.end)) :
                   i \in {j \in intervals : j.kind = kind}}))

(* One side of _join_zones: the lines a key meets, 0 where it meets none.  *)
Joined(key) ==
  LET met == {z.line : z \in {y \in dimension : y.id = key}} IN
  IF met = {} THEN {0} ELSE met

Unknown(key, line) == Both(Truth(key # Null), Truth(line = 0))

(* The rule columns of a row, given its guard, times, keys and zone lines. *)
Flags(guard, pickup, dropoff, keys, lines) ==
  [pickup_timestamp_missing |-> Truth(pickup = Null),
   negative_duration |-> OrFalse(Less(dropoff, pickup)),
   guarded_promotion_out_of_range |-> guard,
   pickup_out_of_declared_period |->
     Both(Truth(pickup # Null), AnyOf({Less(pickup, 0), Negation(Less(pickup, MonthEnd))})),
   dropoff_timestamp_missing |-> Truth(dropoff = Null),
   zone_key_missing |-> Truth(Null \in {keys[1], keys[2]}),
   zone_key_unknown |-> AnyOf({Unknown(keys[1], lines[1]), Unknown(keys[2], lines[2])}),
   local_time_nonexistent |-> IntervalFlag(pickup, "nonexistent"),
   local_time_ambiguous |-> IntervalFlag(pickup, "ambiguous")]

Keys(p) == <<p[Contract.pickup_zone_key], p[Contract.dropoff_zone_key]>>

(* The zone lines a row meets: each pair makes a row of its own.           *)
Meets(p) == Joined(Keys(p)[1]) \X Joined(Keys(p)[2])

EvaluatedRow(i, p, lines) ==
  [ordinal |-> i, values |-> p, zones |-> lines,
   flags |-> Flags(GuardViolation(file.rows[i]), p[Contract.pickup_timestamp],
                   p[Contract.dropoff_timestamp], Keys(p), lines)]

(* contracted_frame                                                        *)
Evaluated ==
  UNION {LET p == Canonical(file.rows[i]) IN {EvaluatedRow(i, p, lines) : lines \in Meets(p)} :
           i \in DOMAIN file.rows}

Blocked(e) == AnyOf({e.flags[r] : r \in QuarantineRules})

Published == {e \in Evaluated : Negation(Blocked(e)) = "true"}

Quarantined == {e \in Evaluated : Blocked(e) = "true"}

RowIncidents ==
  UNION {{[rule |-> r, row |-> e.ordinal, about |-> e.zones] :
            r \in {q \in Rules : e.flags[q] = "true"}} : e \in Evaluated}

(* Mutant: a refusal is recorded once, with its first finding.              *)
FirstViolation ==
  LET v == CHOOSE w \in resolved.violations : TRUE
  IN {[rule |-> v[1], row |-> 0, about |-> <<v[2]>>]}

VersionIncidents == {[rule |-> v[1], row |-> 0, about |-> <<v[2]>>] : v \in resolved.violations}

-----------------------------------------------------------------------------
(* The steps of a run for one file.                                        *)

Nothing ==
  /\ file' = NoFile /\ dimension' = {} /\ resolved' = Unreadable /\ intervals' = {}
  /\ published' = {} /\ quarantined' = {} /\ incidents' = {}

Init ==
  /\ pc = "idle" /\ file = NoFile /\ dimension = {} /\ resolved = Unreadable /\ intervals = {}
  /\ published = {} /\ quarantined = {} /\ incidents = {}

Begin(f) ==
  /\ pc = "idle"
  /\ file' = f /\ pc' = "load"
  /\ UNCHANGED <<dimension, resolved, intervals, output>>

(* zones.load. A lookup that cannot be used ends the run.                  *)
LoadZones ==
  /\ pc = "load" /\ UsableLookup(file.lookup)
  /\ dimension' = ZoneRows(file.lookup) /\ pc' = "resolve"
  /\ UNCHANGED <<file, resolved, intervals, output>>

RefuseZones ==
  /\ pc = "load" /\ ~ UsableLookup(file.lookup)
  /\ pc' = "failed"
  /\ UNCHANGED <<input, output>>

ResolveSchema ==
  /\ pc = "resolve"
  /\ resolved' = ResolveCandidate(Contract.columns, file.schema)
  /\ pc' = IF resolved'.violations = {} THEN "intervals" ELSE "reject"
  /\ UNCHANGED <<file, dimension, intervals, output>>

WriteRejection ==
  /\ pc = "reject"
  /\ incidents' = VersionIncidents /\ pc' = "rejected"
  /\ UNCHANGED <<input, published, quarantined>>

FindIntervals ==
  /\ pc = "intervals" /\ file.zone \in TimeZones
  /\ intervals' = Transitions(file.zone) /\ pc' = "split"
  /\ UNCHANGED <<file, dimension, resolved, output>>

(* TimeZoneDatabaseUnavailable: never an empty set of intervals.           *)
NoTimeZone ==
  /\ pc = "intervals" /\ file.zone \notin TimeZones
  /\ pc' = "failed"
  /\ UNCHANGED <<input, output>>

SplitAddsUp == Cardinality(Published) + Cardinality(Quarantined) = Len(file.rows)

(* write_version writes the three tables, or raises if rows are missing.   *)
WriteVersion ==
  /\ pc = "split"
  /\ IF SplitAddsUp
     THEN /\ published' = Published /\ quarantined' = Quarantined /\ incidents' = RowIncidents
          /\ pc' = "written"
     ELSE pc' = "lossy split" /\ UNCHANGED output
  /\ UNCHANGED input

End ==
  /\ pc \in {"written", "rejected", "failed", "lossy split"}
  /\ pc' = "idle" /\ Nothing

Next ==
  \/ \E f \in Files : Begin(f)
  \/ LoadZones \/ RefuseZones
  \/ ResolveSchema \/ WriteRejection
  \/ FindIntervals \/ NoTimeZone
  \/ WriteVersion
  \/ End

Spec == Init /\ [][Next]_vars

-----------------------------------------------------------------------------
(* What the tables may be relied on for.                                   *)

(* What readers see of a row's place in the tables.                        *)
RowsOf(i, table) == {e \in table : e.ordinal = i}
RulesOf(i) == {n.rule : n \in {x \in incidents : x.row = i}}

(***************************************************************************)
(* The contracted and the quarantine table account for every source row    *)
(* once, a row is in the second exactly when an incident of a quarantine   *)
(* rule says why, and no two incidents of a file share an identity (the    *)
(* hash of file, derivation, ordinal and rule): neither a null in a rule   *)
(* nor a zone that matches twice loses or multiplies anything.             *)
(***************************************************************************)
EveryRowAccounted ==
  /\ pc # "lossy split"
  /\ pc = "written" =>
       /\ \A i \in DOMAIN file.rows :
            /\ Cardinality(RowsOf(i, published)) + Cardinality(RowsOf(i, quarantined)) = 1
            /\ RowsOf(i, quarantined) # {} <=> RulesOf(i) \cap QuarantineRules # {}
       /\ \A m, n \in incidents : m.row = n.row /\ m.rule = n.rule => m = n

(***************************************************************************)
(* What is published of a column is what the file holds, whatever          *)
(* promotion it took; and a source column that no published column shows   *)
(* is one the contract does not mention.                                   *)
(***************************************************************************)
NothingLostSilently ==
  pc = "written" =>
    \A s \in DOMAIN file.schema :
      \/ \A c \in Columns : Fold[s] \notin AliasKeys(Contract.columns[c])
      \/ \E c \in Columns : /\ Fold[s] \in AliasKeys(Contract.columns[c])
                            /\ \A e \in published : e.values[c] = file.rows[e.ordinal][s]

(* A reference for the promotion tables: which values would be lost.       *)
Numbers == {"int32", "int64", "float32", "float64"}
Instants == {"date", "timestamp_ntz"}

Fits(s, t, safe) ==
  /\ s = t \/ {s, t} \subseteq Numbers \/ {s, t} \subseteq Instants
  /\ Values[s] \cap safe \subseteq Values[t]

(* The tables of types.py leave out no promotion that would lose nothing.  *)
ASSUME LossAssumption ==
  \A s, t \in KnownTypes \ {"untyped_null"} :
    s # t =>
      /\ Fits(s, t, Int) => <<s, t>> \in Widening
      /\ Fits(s, t, -Exact .. Exact) => <<s, t>> \in Widening \cup Guarded

Deviates(column, schema) ==
  LET found == {<<s, schema[s]>> : s \in Matches(column, schema)} IN
  \/ Cardinality(found) > 1
  \/ found = {} /\ column.required
  \/ \E p \in found :
       /\ p[2] # "untyped_null"
       /\ ~ Fits(p[2], column.target, Int)
       /\ ~ (column.guarded /\ Fits(p[2], column.target, -Exact .. Exact))

Deviating == {c \in Columns : Deviates(Contract.columns[c], file.schema)}

(* A type the reader has no token for, in whichever column of the file.    *)
Untyped == \E s \in DOMAIN file.schema : file.schema[s] = "unsupported"

(***************************************************************************)
(* A version is refused exactly when some column of the file has a type    *)
(* without a token, or a column of the contract is missing, named twice,   *)
(* or of a type that has values the contract's type does not hold. In the  *)
(* first case the refusal has one incident, for the file as a whole,       *)
(* whatever else is wrong with it and whether or not the contract mentions *)
(* the column; otherwise the incidents name every deviating column of the  *)
(* contract and no other.                                                  *)
(***************************************************************************)
EveryDeviationNamed ==
  /\ pc = "written" => ~ Untyped /\ Deviating = {}
  /\ pc = "rejected" =>
       IF Untyped
       THEN incidents = {[rule |-> "unreadable_source_schema", row |-> 0, about |-> <<"*">>]}
       ELSE /\ incidents # {}
            /\ UNION {{n.about[1]} : n \in incidents} = Deviating

(* The instants a wall clock names: none in a gap, two in a fold.          *)
InstantsOf(z, w) ==
  {u \in {w - Change[z].before, w - Change[z].after} : u + OffsetAt(z, u) = w}

(* The walk sees a change from an hour before the month to its end, and    *)
(* the month it is reported in is the one its interval begins in.          *)
Observed(z) ==
  LET at == Change[z].at
      start == Interval(at, Change[z].before, Change[z].after).start
  IN -Hour < at /\ at <= MonthEnd /\ 0 <= start /\ start < MonthEnd

(***************************************************************************)
(* A pickup in the declared month is flagged only if civil time skips or   *)
(* repeats it, and, where the walk observes the offset change, whenever it *)
(* does: for changes on quarter hours the bisection is exact.              *)
(***************************************************************************)
FlagsMatchCivilTime ==
  pc = "written" =>
    \A e \in published \cup quarantined :
      LET w == e.values[Contract.pickup_timestamp]
          instants == Cardinality(InstantsOf(file.zone, w))
          flagged == RulesOf(e.ordinal) \cap {"local_time_nonexistent", "local_time_ambiguous"}
          deserved == CASE instants = 0 -> {"local_time_nonexistent"}
                        [] instants = 1 -> {}
                        [] OTHER        -> {"local_time_ambiguous"}
      IN w # Null /\ 0 <= w /\ w < MonthEnd =>
           flagged = IF Observed(file.zone) THEN deserved ELSE {}
=============================================================================
