-------------------------- MODULE ProjectionProofs --------------------------
(***************************************************************************)
(* Every source row ends in one table, once, and what is published of it   *)
(* is what the file holds: for any contracts, type tables, number formats, *)
(* files and lookups that keep the assumptions.                            *)
(***************************************************************************)
EXTENDS Projection, FiniteSetTheorems, WellFoundedInduction, TLAPS

(***************************************************************************)
(* The strengthening: what the run has loaded and resolved by each step is *)
(* what the file makes of it.                                              *)
(***************************************************************************)
HasFile == pc \notin {"idle"} => file \in Files

ZonesLoaded ==
  pc \notin {"idle", "load", "failed"} =>
    UsableLookup(file.lookup) /\ dimension = ZoneRows(file.lookup)

Resolved ==
  pc \in {"intervals", "split", "written", "lossy split"} =>
    /\ resolved = ResolveCandidate(Contract.columns, file.schema)
    /\ resolved.violations = {}

Split ==
  pc = "written" =>
    published = Published /\ quarantined = Quarantined /\ incidents = RowIncidents

ProjectionInv == HasFile /\ ZonesLoaded /\ Resolved /\ Split /\ pc # "lossy split"

-----------------------------------------------------------------------------
(* A row meets one pair of zone lines.                                     *)

LEMMA OneLine ==
  ASSUME UsableLookup(file.lookup), dimension = ZoneRows(file.lookup), NEW key
  PROVE  \E line : Joined(key) = {line}
<1> DEFINE met == {z.line : z \in {y \in dimension : y.id = key}}
<1>1. CASE met = {}
  BY <1>1 DEF Joined
<1>2. ASSUME NEW line \in met
      PROVE  Joined(key) = {line}
  <2>1. \A other \in met : other = line
    BY DEF UsableLookup, ZoneRows
  <2> QED
    BY <1>2, <2>1 DEF Joined
<1> QED
  BY <1>1, <1>2

LEMMA OnePair ==
  ASSUME UsableLookup(file.lookup), dimension = ZoneRows(file.lookup), NEW p
  PROVE  \E lines : Meets(p) = {lines}
<1>1. PICK first : Joined(Keys(p)[1]) = {first}
  BY OneLine
<1>2. PICK second : Joined(Keys(p)[2]) = {second}
  BY OneLine
<1>3. Meets(p) = {<<first, second>>}
  BY <1>1, <1>2 DEF Meets
<1> QED
  BY <1>3

(* No rule that blocks a row is null.                                      *)
LEMMA TwoValued ==
  ASSUME NEW e \in Evaluated
  PROVE  /\ \A r \in QuarantineRules : e.flags[r] \in {"true", "false"}
         /\ Blocked(e) = IF \E r \in QuarantineRules : e.flags[r] = "true"
                         THEN "true" ELSE "false"
<1>1. PICK i, lines : e = EvaluatedRow(i, Canonical(file.rows[i]), lines)
  BY DEF Evaluated
<1>2. \A t : t \in {"true", "false", "null"} => OrFalse(t) \in {"true", "false"}
  BY DEF OrFalse
<1>3. \A T : AnyOf(T) \in {"true", "false", "null"}
  BY DEF AnyOf
<1>4. \A v, w : Less(v, w) \in {"true", "false", "null"}
  BY DEF Less, Truth
<1>5. \A b : Truth(b) \in {"true", "false"}
  BY DEF Truth
<1>6. \A r \in QuarantineRules : e.flags[r] \in {"true", "false"}
  <2>1. e.flags["guarded_promotion_out_of_range"] \in {"true", "false"}
    BY <1>1, <1>2, <1>3 DEF EvaluatedRow, Flags, GuardViolation
  <2>2. e.flags["negative_duration"] \in {"true", "false"}
    BY <1>1, <1>2, <1>4 DEF EvaluatedRow, Flags
  <2>3. e.flags["pickup_timestamp_missing"] \in {"true", "false"}
    BY <1>1, <1>5 DEF EvaluatedRow, Flags
  <2> QED
    BY <2>1, <2>2, <2>3 DEF QuarantineRules
<1>7. Blocked(e) = IF \E r \in QuarantineRules : e.flags[r] = "true" THEN "true" ELSE "false"
  BY <1>6 DEF Blocked, AnyOf
<1> QED
  BY <1>6, <1>7

(***************************************************************************)
(* The split: one evaluated row per source row, in one table or the other. *)
(***************************************************************************)
LEMMA OneRowEach ==
  ASSUME UsableLookup(file.lookup), dimension = ZoneRows(file.lookup)
  PROVE  /\ \A i \in DOMAIN file.rows : \E e : RowsOf(i, Evaluated) = {e}
         /\ \A e \in Evaluated : e.ordinal \in DOMAIN file.rows
         /\ \A d, e \in Evaluated : d.ordinal = e.ordinal => d = e
<1>1. \A i \in DOMAIN file.rows : \E e : RowsOf(i, Evaluated) = {e}
  <2> SUFFICES ASSUME NEW i \in DOMAIN file.rows
               PROVE  \E e : RowsOf(i, Evaluated) = {e}
    OBVIOUS
  <2> DEFINE p == Canonical(file.rows[i])
  <2>1. PICK lines : Meets(p) = {lines}
    BY OnePair
  <2>2. \A j, q, l : EvaluatedRow(j, q, l).ordinal = j
    BY DEF EvaluatedRow
  <2>3. RowsOf(i, Evaluated) = {EvaluatedRow(i, p, lines)}
    <3>1. EvaluatedRow(i, p, lines) \in Evaluated
      BY <2>1 DEF Evaluated
    <3>2. ASSUME NEW e \in Evaluated, e.ordinal = i
          PROVE  e = EvaluatedRow(i, p, lines)
      <4>1. PICK j, l : /\ j \in DOMAIN file.rows /\ l \in Meets(Canonical(file.rows[j]))
                        /\ e = EvaluatedRow(j, Canonical(file.rows[j]), l)
        BY DEF Evaluated
      <4>2. j = i
        BY <2>2, <3>2, <4>1
      <4> QED
        BY <2>1, <4>1, <4>2
    <3> QED
      BY <2>2, <3>1, <3>2 DEF RowsOf
  <2> QED
    BY <2>3
<1>2. \A e \in Evaluated : e.ordinal \in DOMAIN file.rows
  BY DEF Evaluated, EvaluatedRow
<1>3. \A d, e \in Evaluated : d.ordinal = e.ordinal => d = e
  BY <1>1, <1>2 DEF RowsOf
<1> QED
  BY <1>1, <1>2, <1>3

LEMMA Partition ==
  /\ Published \cup Quarantined = Evaluated
  /\ Published \cap Quarantined = {}
  /\ \A e \in Evaluated :
       e \in Quarantined <=> \E r \in QuarantineRules : e.flags[r] = "true"
<1>1. \A e \in Evaluated : Blocked(e) \in {"true", "false"}
  BY TwoValued
<1>2. \A e \in Evaluated : Negation(Blocked(e)) = "true" <=> Blocked(e) = "false"
  BY <1>1 DEF Negation
<1>3. \A e \in Evaluated :
        Blocked(e) = "true" <=> \E r \in QuarantineRules : e.flags[r] = "true"
  BY TwoValued
<1> QED
  BY <1>1, <1>2, <1>3 DEF Published, Quarantined

(* The check of write_version never fails.                                 *)
LEMMA AddsUp ==
  ASSUME file \in Files, UsableLookup(file.lookup), dimension = ZoneRows(file.lookup)
  PROVE  SplitAddsUp
<1> DEFINE n == Len(file.rows)
<1>1. n \in Nat /\ DOMAIN file.rows = 1 .. n
  BY FilesAssumption
<1>2. ExistsBijection(1 .. n, Evaluated)
  <2> DEFINE row == [i \in 1 .. n |-> CHOOSE e : RowsOf(i, Evaluated) = {e}]
  <2>1. \A i \in 1 .. n : row[i] \in Evaluated /\ row[i].ordinal = i
    BY <1>1, OneRowEach DEF RowsOf
  <2>2. \A e \in Evaluated : e.ordinal \in 1 .. n /\ row[e.ordinal] = e
    BY <1>1, <2>1, OneRowEach
  <2> HIDE DEF row
  <2>3. row \in [1 .. n -> Evaluated]
    BY <2>1 DEF row
  <2> QED
    BY <2>1, <2>2, <2>3 DEF ExistsBijection, Bijection, Injection, Surjection, IsInjective
<1>3. IsFiniteSet(1 .. n) /\ Cardinality(1 .. n) = n
  BY <1>1, FS_Interval
<1>4. IsFiniteSet(Evaluated) /\ Cardinality(Evaluated) = n
  BY <1>2, <1>3, FS_Bijection
<1>5. IsFiniteSet(Published) /\ IsFiniteSet(Quarantined)
  BY <1>4, FS_Subset DEF Published, Quarantined
<1>6. Cardinality(Evaluated) =
        Cardinality(Published) + Cardinality(Quarantined) - Cardinality({})
  BY <1>5, FS_Union, Partition
<1>7. Cardinality(Published) \in Nat /\ Cardinality(Quarantined) \in Nat /\ Cardinality({}) = 0
  BY <1>5, FS_CardinalityType, FS_EmptySet
<1> QED
  BY <1>1, <1>4, <1>6, <1>7 DEF SplitAddsUp

(***************************************************************************)
(* An incident belongs to the one evaluated row it was read from.          *)
(***************************************************************************)
LEMMA IncidentsOfRow ==
  ASSUME UsableLookup(file.lookup), dimension = ZoneRows(file.lookup)
  PROVE  /\ \A e \in Evaluated, r \in Rules :
              (\E n \in RowIncidents : n.row = e.ordinal /\ n.rule = r) <=> e.flags[r] = "true"
         /\ \A m, n \in RowIncidents : m.row = n.row /\ m.rule = n.rule => m = n
<1>1. \A n : n \in RowIncidents <=>
        \E e \in Evaluated, r \in Rules :
          e.flags[r] = "true" /\ n = [rule |-> r, row |-> e.ordinal, about |-> e.zones]
  BY DEF RowIncidents
<1>2. \A d, e \in Evaluated : d.ordinal = e.ordinal => d = e
  BY OneRowEach
<1>3. ASSUME NEW e \in Evaluated, NEW r \in Rules
      PROVE  (\E n \in RowIncidents : n.row = e.ordinal /\ n.rule = r) <=> e.flags[r] = "true"
  <2>1. ASSUME NEW n \in RowIncidents, n.row = e.ordinal, n.rule = r
        PROVE  e.flags[r] = "true"
    <3>1. PICK d \in Evaluated, q \in Rules :
            d.flags[q] = "true" /\ n = [rule |-> q, row |-> d.ordinal, about |-> d.zones]
      BY <1>1
    <3>2. q = r /\ d.ordinal = e.ordinal
      BY <2>1, <3>1
    <3> QED
      BY <1>2, <3>1, <3>2
  <2>2. ASSUME e.flags[r] = "true"
        PROVE  \E n \in RowIncidents : n.row = e.ordinal /\ n.rule = r
    <3> DEFINE n == [rule |-> r, row |-> e.ordinal, about |-> e.zones]
    <3>1. n \in RowIncidents
      BY <1>1, <2>2
    <3> QED
      BY <3>1
  <2> QED
    BY <2>1, <2>2
<1>4. ASSUME NEW m \in RowIncidents, NEW n \in RowIncidents, m.row = n.row, m.rule = n.rule
      PROVE  m = n
  BY <1>1, <1>2, <1>4
<1> QED
  BY <1>3, <1>4

LEMMA SplitAccountsForRows == ProjectionInv => EveryRowAccounted
<1> SUFFICES ASSUME ProjectionInv, pc = "written"
             PROVE  /\ \A i \in DOMAIN file.rows :
                         /\ Cardinality(RowsOf(i, published))
                              + Cardinality(RowsOf(i, quarantined)) = 1
                         /\ RowsOf(i, quarantined) # {} <=> RulesOf(i) \cap QuarantineRules # {}
                    /\ \A m, n \in incidents : m.row = n.row /\ m.rule = n.rule => m = n
  BY DEF ProjectionInv, EveryRowAccounted
<1>1. /\ UsableLookup(file.lookup) /\ dimension = ZoneRows(file.lookup)
      /\ published = Published /\ quarantined = Quarantined /\ incidents = RowIncidents
  BY DEF ProjectionInv, ZonesLoaded, Split
<1>2. ASSUME NEW i \in DOMAIN file.rows
      PROVE  /\ Cardinality(RowsOf(i, published)) + Cardinality(RowsOf(i, quarantined)) = 1
             /\ RowsOf(i, quarantined) # {} <=> RulesOf(i) \cap QuarantineRules # {}
  <2>1. PICK e : RowsOf(i, Evaluated) = {e}
    BY <1>1, OneRowEach
  <2>2. e \in Evaluated /\ e.ordinal = i
    BY <2>1 DEF RowsOf
  <2>3. \/ RowsOf(i, Published) = {e} /\ RowsOf(i, Quarantined) = {} /\ e \notin Quarantined
        \/ RowsOf(i, Published) = {} /\ RowsOf(i, Quarantined) = {e} /\ e \in Quarantined
    BY <2>1, <2>2, Partition DEF RowsOf
  <2>4. Cardinality({}) = 0 /\ Cardinality({e}) = 1
    BY FS_EmptySet, FS_Singleton
  <2>5. Cardinality(RowsOf(i, published)) + Cardinality(RowsOf(i, quarantined)) = 1
    BY <1>1, <2>3, <2>4
  <2>6. RulesOf(i) \cap QuarantineRules # {} <=>
          \E r \in QuarantineRules : \E n \in RowIncidents : n.row = i /\ n.rule = r
    BY <1>1 DEF RulesOf
  <2>7. RulesOf(i) \cap QuarantineRules # {} <=> \E r \in QuarantineRules : e.flags[r] = "true"
    BY <1>1, <2>2, <2>6, IncidentsOfRow DEF Rules
  <2>8. RowsOf(i, quarantined) # {} <=> e \in Quarantined
    BY <1>1, <2>3
  <2> QED
    BY <2>2, <2>5, <2>7, <2>8, Partition
<1> QED
  BY <1>1, <1>2, IncidentsOfRow

-----------------------------------------------------------------------------
(* The promotions.                                                         *)

(* A column that keeps the contract has one source at most, of a type that *)
(* is the contract's, or widens to it, or may be guarded.                  *)
LEMMA OneSource ==
  ASSUME NEW columns, NEW schema, DOMAIN schema \subseteq Spellings,
         NEW c \in DOMAIN columns, NEW s \in DOMAIN schema,
         Fold[s] \in AliasKeys(columns[c]),
         Resolve(columns, schema).violations = {}
  PROVE  Matches(columns[c], schema) = {s} /\ Breaches(columns[c], schema) = {}
<1>1. Breaches(columns[c], schema) = {}
  <2>1. \A r \in Breaches(columns[c], schema) : <<r, c>> \in Resolve(columns, schema).violations
    BY DEF Resolve
  <2> QED
    BY <2>1
<1>2. s \in Matches(columns[c], schema)
  BY DEF Matches
<1>3. IsFiniteSet(Matches(columns[c], schema))
  <2>1. Matches(columns[c], schema) \in SUBSET Spellings
    BY DEF Matches
  <2> QED
    BY <2>1, FS_Subset, ValuesAssumption
<1>4. /\ Cardinality(Matches(columns[c], schema)) \in Nat
      /\ Cardinality(Matches(columns[c], schema)) # 0
  BY <1>2, <1>3, FS_CardinalityType, FS_EmptySet
<1>5. ~ (Cardinality(Matches(columns[c], schema)) > 1)
  <2> SUFFICES ASSUME Cardinality(Matches(columns[c], schema)) > 1
               PROVE  FALSE
    OBVIOUS
  <2>1. Breaches(columns[c], schema) = {"ambiguous_canonical_column"}
    BY <1>2, Zenon DEF Breaches
  <2> QED
    BY <1>1, <2>1
<1>6. Cardinality(Matches(columns[c], schema)) = 1
  BY <1>4, <1>5
<1>7. \E x : Matches(columns[c], schema) = {x}
  BY <1>3, <1>6, FS_Singleton
<1> QED
  BY <1>1, <1>2, <1>7

(* A value of a type that may be promoted, and within the guard where there *)
(* is one, is a value of the contract's type.                              *)
LEMMA PromotionKeeps ==
  ASSUME NEW column, NEW schema, NEW s \in DOMAIN schema,
         Matches(column, schema) = {s}, Breaches(column, schema) = {},
         schema[s] \in SourceTypes, NEW v \in Values[schema[s]],
         Promotion(column, schema) = "guarded" => v \in -Exact .. Exact
  PROVE  v \in Values[column.target]
<1>1. Promotion(column, schema) = Classify(schema[s], column.target)
  BY DEF Promotion
<1>2. Cardinality({s}) = 1
  BY FS_Singleton
<1>3. Promotion(column, schema) \notin {"narrowing", "incompatible"}
  BY <1>2 DEF Breaches
<1>4. schema[s] # "untyped_null"
  BY ValuesAssumption
<1>5. \/ schema[s] = column.target
      \/ <<schema[s], column.target>> \in Widening
      \/ <<schema[s], column.target>> \in Guarded /\ Promotion(column, schema) = "guarded"
  BY <1>1, <1>3, <1>4 DEF Classify
<1>6. CASE <<schema[s], column.target>> \in Widening
  <2>1. \A p \in Widening : Values[p[1]] \subseteq Values[p[2]]
    BY ValuesAssumption
  <2> QED
    BY <1>6, <2>1
<1>7. CASE <<schema[s], column.target>> \in Guarded /\ Promotion(column, schema) = "guarded"
  <2>1. \A p \in Guarded : Values[p[1]] \cap (-Exact .. Exact) \subseteq Values[p[2]]
    BY ValuesAssumption
  <2> QED
    BY <1>7, <2>1
<1> QED
  BY <1>5, <1>6, <1>7

(* What the tables hold of a row, under the schema resolution of its file.  *)
LEMMA PublishedValue ==
  ASSUME ProjectionInv, pc = "written", NEW e \in published,
         NEW c \in Columns, NEW s \in DOMAIN file.schema,
         Fold[s] \in AliasKeys(Contract.columns[c])
  PROVE  e.values[c] = file.rows[e.ordinal][s]
<1> DEFINE column == Contract.columns[c]
           row == file.rows[e.ordinal]
           schema == file.schema
<1>1. /\ file \in Files /\ published = Published
      /\ resolved = ResolveCandidate(Contract.columns, schema) /\ resolved.violations = {}
  BY DEF ProjectionInv, HasFile, Resolved, Split
<1>2. /\ DOMAIN schema \subseteq Spellings /\ schema[s] \in SourceTypes
      /\ \A i \in DOMAIN file.rows : file.rows[i][s] \in Values[schema[s]] \cup {Null}
  BY <1>1, FilesAssumption
<1>3. resolved = Resolve(Contract.columns, schema)
  BY <1>1 DEF ResolveCandidate, Unreadable
<1>4. c \in DOMAIN Contract.columns /\ Resolve(Contract.columns, schema).violations = {}
  BY <1>1, <1>3 DEF Columns
<1>5. Matches(column, schema) = {s} /\ Breaches(column, schema) = {}
  BY <1>2, <1>4, OneSource
<1>6. resolved.fields[c] = Field(column, schema)
  BY <1>3, <1>4 DEF Resolve
<1>7. resolved.fields[c] =
        [status |-> IF Promotion(column, schema) = "untyped_null_cast"
                    THEN "untyped_null_source" ELSE "mapped",
         source |-> {s}, promotion |-> Promotion(column, schema)]
  BY <1>5, <1>6, FS_Singleton DEF Field
<1>8. SourceOf(c) = s
  BY <1>7 DEF SourceOf
<1>9. PICK lines : e = EvaluatedRow(e.ordinal, Canonical(row), lines)
  <2>1. PICK i, lines : e = EvaluatedRow(i, Canonical(file.rows[i]), lines)
    BY <1>1 DEF Published, Evaluated
  <2> QED
    BY <2>1 DEF EvaluatedRow
<1>10. e.ordinal \in DOMAIN file.rows
  BY <1>1 DEF Published, Evaluated, EvaluatedRow
<1>11. row[s] \in Values[schema[s]] \cup {Null}
  BY <1>2, <1>10
<1>12. e.values[c] = IF c \in Mapped THEN Cast(row[s], column.target) ELSE Null
  BY <1>8, <1>9 DEF EvaluatedRow, Canonical
<1>13. CASE Promotion(column, schema) = "untyped_null_cast"
  <2>1. schema[s] = "untyped_null"
    BY <1>5, <1>13 DEF Promotion, Classify
  <2>2. c \notin Mapped
    BY <1>7, <1>13 DEF Mapped
  <2> QED
    BY <1>11, <1>12, <2>1, <2>2, ValuesAssumption
<1>14. CASE Promotion(column, schema) # "untyped_null_cast"
  <2>1. c \in Mapped
    BY <1>7, <1>14 DEF Mapped
  <2>2. CASE row[s] = Null
    BY <1>12, <2>1, <2>2 DEF Cast
  <2>3. CASE row[s] # Null
    <3>1. row[s] \in Values[schema[s]] /\ row[s] \in Int
      BY <1>2, <1>11, <2>3, ValuesAssumption
    <3>2. Promotion(column, schema) = "guarded" => row[s] \in -Exact .. Exact
      <4> SUFFICES ASSUME Promotion(column, schema) = "guarded"
                   PROVE  row[s] \in -Exact .. Exact
        OBVIOUS
      <4>1. c \in GuardedFields
        BY <1>7, <2>1 DEF GuardedFields
      <4>2. e.flags["guarded_promotion_out_of_range"] = GuardViolation(row)
        BY <1>9 DEF EvaluatedRow, Flags
      <4>3. e \in Evaluated /\ e \notin Quarantined
        BY <1>1, Partition DEF Published
      <4>4. GuardViolation(row) # "true"
        BY <4>2, <4>3, Partition DEF QuarantineRules
      <4>5. Less(row[s], -Exact) # "true" /\ Less(Exact, row[s]) # "true"
        BY <1>8, <4>1, <4>4 DEF GuardViolation, AnyOf, OrFalse
      <4> QED
        BY <3>1, <4>5, ValuesAssumption DEF Less, Truth
    <3>3. row[s] \in Values[column.target]
      BY <1>2, <1>5, <3>1, <3>2, PromotionKeeps
    <3> QED
      BY <1>12, <2>1, <3>3 DEF Cast
  <2> QED
    BY <2>2, <2>3
<1> QED
  BY <1>13, <1>14

LEMMA SplitLosesNothing == ProjectionInv => NothingLostSilently
<1> SUFFICES ASSUME ProjectionInv, pc = "written", NEW s \in DOMAIN file.schema,
                    NEW c \in Columns, Fold[s] \in AliasKeys(Contract.columns[c])
             PROVE  \A e \in published : e.values[c] = file.rows[e.ordinal][s]
  BY DEF NothingLostSilently
<1> QED
  BY PublishedValue

-----------------------------------------------------------------------------
(* The steps.                                                              *)

LEMMA InitEstablishes == Init => ProjectionInv
  BY DEF Init, ProjectionInv, HasFile, ZonesLoaded, Resolved, Split

(* What the run makes of a file depends on nothing but what it has loaded.  *)
LEMMA SameInputSameOutput ==
  ASSUME UNCHANGED input
  PROVE  UNCHANGED <<Published, Quarantined, RowIncidents>>
<1>1. UNCHANGED <<file, dimension, resolved, intervals, Contract, Columns>>
  BY DEF input, Contract, Columns
<1>2. UNCHANGED Mapped
  BY <1>1 DEF Mapped
<1>3. UNCHANGED GuardedFields
  BY <1>1, <1>2 DEF GuardedFields
<1>4. \A c : SourceOf(c)' = SourceOf(c)
  BY <1>1 DEF SourceOf
<1>5. \A row : Canonical(row)' = Canonical(row)
  BY <1>1, <1>2, <1>4 DEF Canonical
<1>6. \A row : GuardViolation(row)' = GuardViolation(row)
  BY <1>3, <1>4 DEF GuardViolation
<1>7. \A v, kind : IntervalFlag(v, kind)' = IntervalFlag(v, kind)
  BY <1>1 DEF IntervalFlag
<1>8. \A guard, pickup, dropoff, keys, lines :
        Flags(guard, pickup, dropoff, keys, lines)' = Flags(guard, pickup, dropoff, keys, lines)
  BY <1>7 DEF Flags
<1>9. \A p : Meets(p)' = Meets(p) /\ Keys(p)' = Keys(p)
  BY <1>1 DEF Meets, Keys, Joined
<1>10. \A i, p, lines : EvaluatedRow(i, p, lines)' = EvaluatedRow(i, p, lines)
  BY <1>1, <1>6, <1>8, <1>9 DEF EvaluatedRow
<1>11. UNCHANGED Evaluated
  BY <1>1, <1>5, <1>9, <1>10 DEF Evaluated
<1> QED
  BY <1>11 DEF Published, Quarantined, RowIncidents

LEMMA StepPreserves == ProjectionInv /\ [Next]_vars => ProjectionInv'
<1> SUFFICES ASSUME ProjectionInv, [Next]_vars
             PROVE  ProjectionInv'
  OBVIOUS
<1> USE DEF ProjectionInv, HasFile, ZonesLoaded, Resolved, Split, input, output
<1>1. ASSUME NEW f \in Files, Begin(f)
      PROVE  ProjectionInv'
  BY <1>1 DEF Begin
<1>2. CASE LoadZones
  BY <1>2 DEF LoadZones
<1>3. CASE RefuseZones \/ NoTimeZone
  BY <1>3 DEF RefuseZones, NoTimeZone
<1>4. CASE ResolveSchema
  BY <1>4 DEF ResolveSchema, Contract
<1>5. CASE WriteRejection
  BY <1>5 DEF WriteRejection
<1>6. CASE FindIntervals
  BY <1>6 DEF FindIntervals, Contract
<1>7. CASE WriteVersion
  <2>1. SplitAddsUp
    BY <1>7, AddsUp DEF WriteVersion
  <2>2. pc' = "written" /\ published' = Published /\ quarantined' = Quarantined
          /\ incidents' = RowIncidents
    BY <1>7, <2>1 DEF WriteVersion
  <2> QED
    BY <1>7, <2>2, SameInputSameOutput DEF WriteVersion, Contract
<1>8. CASE End
  BY <1>8 DEF End
<1>9. CASE UNCHANGED vars
  BY <1>9, SameInputSameOutput DEF vars, Contract
<1> QED
  BY <1>1, <1>2, <1>3, <1>4, <1>5, <1>6, <1>7, <1>8, <1>9 DEF Next

(***************************************************************************)
(* Every row of every file ends once in one of the two tables, with a      *)
(* reason exactly when it is the second, and the check that the two add up *)
(* never fails.                                                            *)
(***************************************************************************)
THEOREM RowsAccounted == Spec => []EveryRowAccounted
  BY InitEstablishes, StepPreserves, SplitAccountsForRows, PTL DEF Spec

(***************************************************************************)
(* What is published of a source column is what the file holds, for every  *)
(* set of number formats for which the widenings widen and the guarded     *)
(* promotions are exact within the guard.                                  *)
(***************************************************************************)
THEOREM NothingLost == Spec => []NothingLostSilently
  BY InitEstablishes, StepPreserves, SplitLosesNothing, PTL DEF Spec

-----------------------------------------------------------------------------
(* The refusals.                                                           *)

(* A column matches as many source columns as it is found in.              *)
LEMMA FoundOncePerMatch ==
  ASSUME NEW column, NEW schema, DOMAIN schema \subseteq Spellings
  PROVE  /\ IsFiniteSet(Matches(column, schema))
         /\ Cardinality({<<s, schema[s]>> : s \in Matches(column, schema)})
              = Cardinality(Matches(column, schema))
<1> DEFINE M == Matches(column, schema)
           F == {<<s, schema[s]>> : s \in M}
           f == [s \in M |-> <<s, schema[s]>>]
<1>1. IsFiniteSet(M)
  <2>1. M \in SUBSET Spellings
    BY DEF Matches
  <2> QED
    BY <2>1, FS_Subset, ValuesAssumption
<1> HIDE DEF M
<1>2. f \in Surjection(M, F) /\ f \in Injection(M, F)
  BY DEF Surjection, Injection, IsInjective
<1> HIDE DEF f, F
<1>3. Cardinality(F) = Cardinality(M)
  BY <1>1, <1>2, FS_Surjection
<1> QED
  BY <1>1, <1>3 DEF F, M

(* A type is refused for a column exactly when values could be lost.       *)
LEMMA RefusedTypeLoses ==
  ASSUME NEW s \in KnownTypes \ {"untyped_null"}, NEW t \in KnownTypes \ {"untyped_null"}
  PROVE  /\ Classify(s, t) \in {"identity", "widening"} <=> Fits(s, t, Int)
         /\ Classify(s, t) \in {"identity", "widening", "guarded"} <=> Fits(s, t, -Exact .. Exact)
         /\ Classify(s, t) \in {"identity", "widening", "guarded", "narrowing", "incompatible"}
<1>0. /\ s # "untyped_null"
      /\ <<s, t>> \in Widening => s # t /\ <<s, t>> \notin Guarded \cup Narrowing
      /\ <<s, t>> \in Guarded => s # t /\ <<s, t>> \notin Narrowing
      /\ <<s, t>> \in Narrowing => s # t
  BY DEF Widening, Guarded, Narrowing, Reversed
<1>1. CASE s = t
  <2>1. Classify(s, t) = "identity"
    BY <1>0, <1>1, Zenon DEF Classify
  <2>2. Fits(s, t, Int) /\ Fits(s, t, -Exact .. Exact)
    BY <1>1, Zenon DEF Fits
  <2> QED
    BY <2>1, <2>2
<1>2. CASE s # t
  <2>1. Classify(s, t) = "widening" <=> <<s, t>> \in Widening
    BY <1>0, <1>2 DEF Classify
  <2>2. Classify(s, t) = "guarded" <=> <<s, t>> \in Guarded
    BY <1>0, <1>2 DEF Classify
  <2>3. <<s, t>> \in Widening => Fits(s, t, Int) /\ Fits(s, t, -Exact .. Exact)
    <3> SUFFICES ASSUME <<s, t>> \in Widening
                 PROVE  Fits(s, t, Int) /\ Fits(s, t, -Exact .. Exact)
      OBVIOUS
    <3>1. Values[s] \subseteq Values[t]
      BY ValuesAssumption
    <3>2. {s, t} \subseteq Numbers \/ {s, t} \subseteq Instants
      BY DEF Widening, Numbers, Instants
    <3> QED
      BY <3>1, <3>2 DEF Fits
  <2>4. <<s, t>> \in Guarded => Fits(s, t, -Exact .. Exact)
    <3> SUFFICES ASSUME <<s, t>> \in Guarded
                 PROVE  Fits(s, t, -Exact .. Exact)
      OBVIOUS
    <3>1. Values[s] \cap (-Exact .. Exact) \subseteq Values[t]
      BY ValuesAssumption
    <3>2. {s, t} \subseteq Numbers
      BY DEF Guarded, Numbers
    <3> QED
      BY <3>1, <3>2 DEF Fits
  <2>5. /\ Fits(s, t, Int) => <<s, t>> \in Widening
        /\ Fits(s, t, -Exact .. Exact) => <<s, t>> \in Widening \cup Guarded
    BY <1>2, LossAssumption
  <2>6. Classify(s, t) \in {"widening", "guarded", "narrowing", "incompatible"}
    BY <1>0, <1>2 DEF Classify
  <2> QED
    BY <2>1, <2>2, <2>3, <2>4, <2>5, <2>6
<1> QED
  BY <1>1, <1>2

LEMMA BreachIsDeviation ==
  ASSUME NEW column, NEW schema, DOMAIN schema \subseteq Spellings,
         \A s \in DOMAIN schema : schema[s] \in KnownTypes,
         column.target \in KnownTypes \ {"untyped_null"}
  PROVE  Breaches(column, schema) # {} <=> Deviates(column, schema)
<1> DEFINE M == Matches(column, schema)
           F == {<<s, schema[s]>> : s \in M}
<1>1. IsFiniteSet(M) /\ Cardinality(F) = Cardinality(M) /\ Cardinality(M) \in Nat
  BY FoundOncePerMatch, FS_CardinalityType
<1>2. CASE Cardinality(M) > 1
  <2>0. M # {}
    BY <1>2, FS_EmptySet
  <2>1. Breaches(column, schema) = {"ambiguous_canonical_column"}
    BY <1>2, <2>0, Zenon DEF Breaches
  <2>2. Deviates(column, schema)
    BY <1>1, <1>2 DEF Deviates
  <2> QED
    BY <2>1, <2>2
<1>3. CASE M = {}
  <2>1. F = {} /\ Cardinality(M) = 0
    BY <1>3, FS_EmptySet
  <2>2. Breaches(column, schema) = IF column.required THEN {"missing_required_column"} ELSE {}
    BY <1>3, <2>1 DEF Breaches
  <2>3. Deviates(column, schema) <=> column.required
    BY <1>1, <2>1 DEF Deviates
  <2> QED
    BY <2>2, <2>3
<1>4. CASE M # {} /\ ~ (Cardinality(M) > 1)
  <2>1. PICK s : M = {s}
    <3>1. Cardinality(M) # 0
      BY <1>1, <1>4, FS_EmptySet
    <3>2. Cardinality(M) = 1
      BY <1>1, <1>4, <3>1
    <3> QED
      BY <1>1, <3>2, FS_Singleton
  <2> DEFINE p == Promotion(column, schema)
             t == column.target
  <2>2. s \in DOMAIN schema /\ schema[s] \in KnownTypes
    BY <2>1 DEF Matches
  <2>3. p = Classify(schema[s], t)
    BY <2>1 DEF Promotion
  <2>4. Breaches(column, schema) # {} <=>
          p = "narrowing" \/ p = "incompatible" \/ (p = "guarded" /\ ~ column.guarded)
    <3> HIDE DEF p
    <3>1. Breaches(column, schema) =
            CASE p = "narrowing" -> {"narrowing_type_drift"}
              [] p = "incompatible" -> {"incompatible_type_drift"}
              [] p = "guarded" /\ ~ column.guarded -> {"guarded_promotion_not_allowed"}
              [] OTHER -> {}
      BY <1>4, Zenon DEF Breaches, p
    <3> QED
      BY <3>1
  <2>5. F = {<<s, schema[s]>>}
    BY <2>1
  <2>6. Deviates(column, schema) <=>
          /\ schema[s] # "untyped_null"
          /\ ~ Fits(schema[s], t, Int)
          /\ ~ (column.guarded /\ Fits(schema[s], t, -Exact .. Exact))
    <3> HIDE DEF M
    <3>1. ~ (Cardinality(F) > 1) /\ F # {}
      BY <1>1, <1>4, <2>5
    <3>2. Deviates(column, schema) <=>
            \E q \in F : /\ q[2] # "untyped_null"
                         /\ ~ Fits(q[2], t, Int)
                         /\ ~ (column.guarded /\ Fits(q[2], t, -Exact .. Exact))
      BY <3>1 DEF Deviates, M
    <3> HIDE DEF F
    <3> QED
      BY <2>5, <3>2
  <2>7. CASE schema[s] = "untyped_null"
    <3>0. t # "untyped_null" /\ <<"untyped_null", t>> \notin Widening \cup Guarded \cup Narrowing
      BY DEF Widening, Guarded, Narrowing, Reversed
    <3>1. p = "untyped_null_cast"
      BY <2>3, <2>7, <3>0 DEF Classify
    <3> QED
      BY <2>4, <2>6, <2>7, <3>1
  <2>8. CASE schema[s] # "untyped_null"
    BY <2>2, <2>3, <2>4, <2>6, <2>8, RefusedTypeLoses
  <2> QED
    BY <2>7, <2>8
<1> QED
  BY <1>2, <1>3, <1>4

(* A file whose types all have a token deviates where its columns breach   *)
(* the contract.                                                           *)
LEMMA ViolationsAreDeviations ==
  ASSUME file \in Files, \A s \in DOMAIN file.schema : file.schema[s] # "unsupported"
  PROVE  Deviating = {v[2] : v \in Resolve(Contract.columns, file.schema).violations}
<1> DEFINE columns == Contract.columns
           schema == file.schema
<1>1. /\ file.service \in Services /\ DOMAIN schema \subseteq Spellings
      /\ \A s \in DOMAIN schema : schema[s] \in KnownTypes
  BY FilesAssumption DEF SourceTypes
<1>2. \A c \in DOMAIN columns : columns[c].target \in KnownTypes \ {"untyped_null"}
  BY <1>1, ContractAssumption DEF Contract
<1>3. \A c \in DOMAIN columns : Breaches(columns[c], schema) # {} <=> Deviates(columns[c], schema)
  BY <1>1, <1>2, BreachIsDeviation
<1>4. \A v : v \in Resolve(columns, schema).violations <=>
              \E c \in DOMAIN columns : \E r \in Breaches(columns[c], schema) : v = <<r, c>>
  BY DEF Resolve
<1>5. ASSUME NEW c
      PROVE  c \in {v[2] : v \in Resolve(columns, schema).violations} <=>
               c \in DOMAIN columns /\ Breaches(columns[c], schema) # {}
  <2>1. ASSUME NEW v \in Resolve(columns, schema).violations, v[2] = c
        PROVE  c \in DOMAIN columns /\ Breaches(columns[c], schema) # {}
    BY <1>4, <2>1
  <2>2. ASSUME c \in DOMAIN columns, NEW r \in Breaches(columns[c], schema)
        PROVE  c \in {v[2] : v \in Resolve(columns, schema).violations}
    <3>1. <<r, c>> \in Resolve(columns, schema).violations /\ <<r, c>>[2] = c
      BY <1>4, <2>2
    <3> QED
      BY <3>1
  <2> QED
    BY <2>1, <2>2
<1> QED
  BY <1>3, <1>5 DEF Deviating, Columns

(* What a refusal rests on.                                                *)
Refused ==
  /\ pc \in {"reject", "rejected"} =>
       /\ resolved = ResolveCandidate(Contract.columns, file.schema)
       /\ resolved.violations # {}
  /\ pc = "rejected" => incidents = VersionIncidents

RefusalInv == ProjectionInv /\ Refused

LEMMA RefusalInit == Init => RefusalInv
  BY InitEstablishes DEF Init, RefusalInv, Refused

LEMMA RefusalStep == RefusalInv /\ [Next]_vars => RefusalInv'
<1> SUFFICES ASSUME RefusalInv, [Next]_vars
             PROVE  Refused'
  BY StepPreserves DEF RefusalInv
<1> USE DEF RefusalInv, Refused, input, output, Contract, VersionIncidents
<1>1. ASSUME NEW f \in Files, Begin(f)
      PROVE  Refused'
  BY <1>1 DEF Begin
<1>2. CASE LoadZones \/ RefuseZones \/ FindIntervals \/ NoTimeZone \/ End
  BY <1>2 DEF LoadZones, RefuseZones, FindIntervals, NoTimeZone, End
<1>3. CASE ResolveSchema
  BY <1>3 DEF ResolveSchema
<1>4. CASE WriteRejection
  BY <1>4 DEF WriteRejection
<1>5. CASE WriteVersion
  BY <1>5 DEF WriteVersion
<1>6. CASE UNCHANGED vars
  BY <1>6 DEF vars
<1> QED
  BY <1>1, <1>2, <1>3, <1>4, <1>5, <1>6 DEF Next

(***************************************************************************)
(* For every pair of contracts and every set of number formats for which   *)
(* the promotion tables are right: a file with a type without a token is   *)
(* refused as a whole, with one incident; any other is refused exactly for *)
(* the columns that are missing, named twice or could lose a value, and    *)
(* every one of those is named, and no other.                              *)
(***************************************************************************)
THEOREM RefusalsNameDeviations == Spec => []EveryDeviationNamed
<1>1. ASSUME RefusalInv, pc = "written"
      PROVE  ~ Untyped /\ Deviating = {}
  <2>1. /\ file \in Files
        /\ resolved = ResolveCandidate(Contract.columns, file.schema) /\ resolved.violations = {}
    BY <1>1 DEF RefusalInv, ProjectionInv, HasFile, Resolved
  <2>2. /\ \A s \in DOMAIN file.schema : file.schema[s] # "unsupported"
        /\ Resolve(Contract.columns, file.schema).violations = {}
    BY <2>1 DEF ResolveCandidate, Unreadable
  <2> QED
    BY <2>1, <2>2, ViolationsAreDeviations DEF Untyped
<1>2. ASSUME RefusalInv, pc = "rejected"
      PROVE  IF Untyped
             THEN incidents = {[rule |-> "unreadable_source_schema", row |-> 0, about |-> <<"*">>]}
             ELSE /\ incidents # {}
                  /\ UNION {{n.about[1]} : n \in incidents} = Deviating
  <2>1. /\ file \in Files /\ incidents = VersionIncidents
        /\ resolved = ResolveCandidate(Contract.columns, file.schema) /\ resolved.violations # {}
    BY <1>2 DEF RefusalInv, ProjectionInv, HasFile, Refused
  <2>2. CASE Untyped
    <3>1. resolved.violations = {<<"unreadable_source_schema", "*">>}
      BY <2>1, <2>2 DEF ResolveCandidate, Unreadable, Untyped
    <3>2. incidents = {[rule |-> "unreadable_source_schema", row |-> 0, about |-> <<"*">>]}
      BY <2>1, <3>1 DEF VersionIncidents
    <3> QED
      BY <2>2, <3>2
  <2>3. CASE ~ Untyped
    <3> DEFINE V == resolved.violations
    <3>1. Deviating = {v[2] : v \in V}
      BY <2>1, <2>3, ViolationsAreDeviations DEF ResolveCandidate, Untyped
    <3>2. incidents = {[rule |-> v[1], row |-> 0, about |-> <<v[2]>>] : v \in V}
      BY <2>1 DEF VersionIncidents
    <3> HIDE DEF V
    <3>3. UNION {{n.about[1]} : n \in incidents} = {v[2] : v \in V}
      <4>1. \A n \in incidents : \E v \in V : n.about[1] = v[2]
        BY <3>2
      <4>2. ASSUME NEW v \in V
            PROVE  \E n \in incidents : n.about[1] = v[2]
        <5> DEFINE n == [rule |-> v[1], row |-> 0, about |-> <<v[2]>>]
        <5>1. n \in incidents /\ n.about[1] = v[2]
          BY <3>2
        <5> QED
          BY <5>1
      <4> QED
        BY <4>1, <4>2
    <3>4. incidents # {}
      BY <2>1, <3>2 DEF V
    <3> QED
      BY <2>3, <3>1, <3>3, <3>4
  <2> QED
    BY <2>2, <2>3
<1>3. RefusalInv => EveryDeviationNamed
  BY <1>1, <1>2 DEF EveryDeviationNamed
<1> QED
  BY RefusalInit, RefusalStep, <1>3, PTL DEF Spec

-----------------------------------------------------------------------------
(* The bisection of an hour, which the clock flags rest on.                *)

Pairs == Int \X Int
Middle(i) == i[1] + (i[2] - i[1]) \div 2

Narrowed(n, z, o, i) ==
  IF i[2] - i[1] <= Second THEN i[2]
  ELSE IF OffsetAt(z, Middle(i)) = o THEN n[<<Middle(i), i[2]>>]
  ELSE n[<<i[1], Middle(i)>>]

IsNarrowing(n, z, o) == n = [i \in Pairs |-> Narrowed(n, z, o, i)]

(***************************************************************************)
(* Every nonempty set of numbers has a least one: the intervals up to them *)
(* do not shrink for ever.                                                 *)
(***************************************************************************)
LEMMA LeastNatural ==
  ASSUME NEW S, S \subseteq Nat, S # {}
  PROVE  \E m \in S : \A n \in S : m <= n
<1>1. PICK top \in S : TRUE
  OBVIOUS
<1> DEFINE below == {m \in S : m <= top}
           upto == {0 .. m : m \in below}
<1>2. top \in Nat /\ top \in below /\ IsFiniteSet(0 .. top)
  BY <1>1, FS_Interval
<1>3. upto \subseteq SUBSET (0 .. top)
  BY <1>2
<1>4. upto # {}
  BY <1>2
<1>5. PICK least \in upto : \A T \in upto : <<T, least>> \notin StrictSubsetOrdering(0 .. top)
  <2> HIDE DEF upto
  <2>1. upto \subseteq FiniteSubsetsOf(0 .. top)
    BY <1>2, <1>3, FS_FiniteSubsetsOfFinite
  <2> QED
    BY <1>2, <1>4, <2>1, FS_StrictSubsetOrderingWellFounded, WFMin
<1>6. PICK m \in below : least = 0 .. m
  OBVIOUS
<1>7. ASSUME NEW n \in S, n < m PROVE FALSE
  <2>1. n \in below /\ n \in Nat /\ m \in Nat
    BY <1>2, <1>7
  <2>2. 0 .. n \subseteq 0 .. m /\ m \in 0 .. m /\ m \notin 0 .. n
    BY <1>7, <2>1
  <2>3. 0 .. n \in upto /\ 0 .. m \in upto
    BY <2>1
  <2>4. <<0 .. n, 0 .. m>> \in StrictSubsetOrdering(0 .. top)
    <3> HIDE DEF upto
    <3> QED
      BY <1>3, <2>2, <2>3 DEF StrictSubsetOrdering
  <2> QED
    BY <1>5, <1>6, <2>3, <2>4
<1> QED
  BY <1>6, <1>7

-----------------------------------------------------------------------------
(* The bisection ends.                                                     *)

Length(i) == i[2] - i[1]

Upto(k) == {i \in Pairs : Length(i) <= k}

IsPartial(g, k, z, o) == g = [i \in Upto(k) |-> Narrowed(g, z, o, i)]

(* Both halves of an interval are shorter than it.                         *)
LEMMA Halves ==
  ASSUME NEW i \in Pairs, Length(i) > Second
  PROVE  /\ Middle(i) \in Int /\ i[1] < Middle(i) /\ Middle(i) < i[2]
         /\ <<Middle(i), i[2]>> \in Pairs /\ <<i[1], Middle(i)>> \in Pairs
         /\ Length(<<Middle(i), i[2]>>) \in 1 .. Length(i) - 1
         /\ Length(<<i[1], Middle(i)>>) \in 1 .. Length(i) - 1
<1>1. i[1] \in Int /\ i[2] \in Int /\ i[2] - i[1] > 1
  BY ClockAssumption DEF Length, Pairs
<1>2. Middle(i) \in Int /\ i[1] < Middle(i) /\ Middle(i) < i[2]
  BY <1>1 DEF Middle
<1> QED
  BY <1>1, <1>2 DEF Length, Pairs

(* What is narrowed to depends on shorter intervals only.                  *)
LEMMA SameHalves ==
  ASSUME NEW i \in Pairs, NEW g, NEW h, NEW z, NEW o,
         \A p \in Pairs : Length(p) \in 1 .. Length(i) - 1 => g[p] = h[p]
  PROVE  Narrowed(g, z, o, i) = Narrowed(h, z, o, i)
<1>1. CASE Length(i) <= Second
  BY <1>1 DEF Narrowed, Length
<1>2. CASE ~ (Length(i) <= Second)
  <2>1. Length(i) > Second
    BY <1>2, ClockAssumption DEF Pairs, Length
  <2>2. /\ g[<<Middle(i), i[2]>>] = h[<<Middle(i), i[2]>>]
        /\ g[<<i[1], Middle(i)>>] = h[<<i[1], Middle(i)>>]
    BY <2>1, Halves
  <2> QED
    BY <1>2, <2>2 DEF Narrowed, Length
<1> QED
  BY <1>1, <1>2

(* Two narrowings of short intervals agree where both are defined.         *)
LEMMA PartialAgree ==
  ASSUME NEW z, NEW o, NEW j \in Nat, NEW k \in Nat, j <= k,
         NEW g, IsPartial(g, k, z, o), NEW h, IsPartial(h, j, z, o)
  PROVE  \A i \in Upto(j) : g[i] = h[i]
<1> DEFINE Differ == {n \in Nat : \E i \in Upto(j) : Length(i) <= n /\ g[i] # h[i]}
<1>1. Upto(j) \subseteq Upto(k) /\ Upto(j) \subseteq Pairs
  BY DEF Upto, Pairs, Length
<1>2. ASSUME Differ # {}
      PROVE  FALSE
  <2>1. PICK m \in Differ : \A n \in Differ : m <= n
    <3> HIDE DEF Differ
    <3>1. Differ \subseteq Nat
      BY DEF Differ
    <3> QED
      BY <1>2, <3>1, LeastNatural
  <2>2. PICK i \in Upto(j) : Length(i) <= m /\ g[i] # h[i]
    OBVIOUS
  <2>3. ASSUME NEW p \in Pairs, Length(p) \in 1 .. Length(i) - 1
        PROVE  g[p] = h[p]
    <3>1. m \in Nat /\ Length(i) \in Int /\ Length(p) \in Nat /\ Length(p) < m /\ p \in Upto(j)
      BY <2>2, <2>3 DEF Upto, Length, Pairs
    <3>2. Length(p) \notin Differ
      BY <2>1, <3>1
    <3> QED
      BY <3>1, <3>2
  <2>4. Narrowed(g, z, o, i) = Narrowed(h, z, o, i)
    BY <1>1, <2>3, SameHalves
  <2>5. g[i] = Narrowed(g, z, o, i) /\ h[i] = Narrowed(h, z, o, i)
    BY <1>1 DEF IsPartial
  <2> QED
    BY <2>2, <2>4, <2>5
<1>3. ASSUME NEW i \in Upto(j), g[i] # h[i]
      PROVE  FALSE
  <2> DEFINE n == IF Length(i) \in Nat THEN Length(i) ELSE 0
  <2>1. Length(i) \in Int
    BY DEF Upto, Length, Pairs
  <2>2. n \in Nat /\ Length(i) <= n
    BY <2>1
  <2>3. n \in Differ
    BY <1>3, <2>2
  <2> QED
    BY <1>2, <2>3
<1> QED
  BY <1>3

(* The intervals up to any length can be narrowed.                         *)
LEMMA PartialExists ==
  ASSUME NEW z, NEW o
  PROVE  \A k \in Nat : \E g : IsPartial(g, k, z, o)
<1> DEFINE Without == {k \in Nat : \A g : ~ IsPartial(g, k, z, o)}
<1>1. ASSUME Without # {}
      PROVE  FALSE
  <2>1. PICK k \in Without : \A n \in Without : k <= n
    <3> HIDE DEF Without
    <3>1. Without \subseteq Nat
      BY DEF Without
    <3> QED
      BY <1>1, <3>1, LeastNatural
  <2>2. CASE k = 0
    <3> DEFINE g == [i \in Upto(0) |-> i[2]]
    <3>1. ASSUME NEW i \in Upto(0)
          PROVE  Narrowed(g, z, o, i) = i[2]
      BY ClockAssumption DEF Upto, Length, Narrowed, Pairs
    <3>2. IsPartial(g, 0, z, o)
      BY <3>1 DEF IsPartial
    <3> QED
      BY <2>2, <3>2
  <2>3. CASE k # 0
    <3>1. k \in Nat /\ k - 1 \in Nat /\ k - 1 \notin Without
      BY <2>1, <2>3
    <3>2. PICK h : IsPartial(h, k - 1, z, o)
      BY <3>1
    <3> DEFINE g == [i \in Upto(k) |-> IF i \in Upto(k - 1) THEN h[i] ELSE Narrowed(h, z, o, i)]
    <3>3. ASSUME NEW i \in Upto(k)
          PROVE  g[i] = Narrowed(g, z, o, i)
      <4>1. i \in Pairs /\ Length(i) \in Int /\ Length(i) <= k
        BY DEF Upto, Length, Pairs
      <4>2. ASSUME NEW p \in Pairs, Length(p) \in 1 .. Length(i) - 1
            PROVE  g[p] = h[p]
        <5>1. p \in Upto(k - 1) /\ p \in Upto(k)
          BY <3>1, <4>1, <4>2 DEF Upto
        <5> QED
          BY <5>1
      <4>3. Narrowed(g, z, o, i) = Narrowed(h, z, o, i)
        <5> HIDE DEF g
        <5> QED
          BY <4>1, <4>2, SameHalves
      <4>4. i \in Upto(k - 1) => h[i] = Narrowed(h, z, o, i)
        BY <3>2 DEF IsPartial
      <4> QED
        BY <4>3, <4>4
    <3>4. IsPartial(g, k, z, o)
      <4>1. g = [i \in Upto(k) |-> g[i]]
        OBVIOUS
      <4> HIDE DEF g
      <4> QED
        BY <3>3, <4>1 DEF IsPartial
    <3> QED
      BY <3>4
  <2> QED
    BY <2>2, <2>3
<1> QED
  BY <1>1

(* And so can all of them: each as the shorter ones are.                   *)
LEMMA NarrowingExists ==
  ASSUME NEW z, NEW o
  PROVE  \E n : IsNarrowing(n, z, o)
<1> DEFINE part == [k \in Nat |-> CHOOSE g : IsPartial(g, k, z, o)]
           size(i) == IF Length(i) \in Nat THEN Length(i) ELSE 0
           n == [i \in Pairs |-> part[size(i)][i]]
<1>1. \A k \in Nat : IsPartial(part[k], k, z, o)
  BY PartialExists
<1>2. \A i \in Pairs : Length(i) \in Int /\ size(i) \in Nat /\ i \in Upto(size(i))
  BY DEF Upto, Length, Pairs
<1> HIDE DEF part
<1>3. ASSUME NEW i \in Pairs
      PROVE  n[i] = Narrowed(n, z, o, i)
  <2> DEFINE g == part[size(i)]
  <2>1. g[i] = Narrowed(g, z, o, i)
    BY <1>1, <1>2 DEF IsPartial
  <2>2. ASSUME NEW p \in Pairs, Length(p) \in 1 .. Length(i) - 1
        PROVE  g[p] = n[p]
    <3>1. size(p) \in Nat /\ size(i) \in Nat /\ size(p) <= size(i) /\ p \in Upto(size(p))
      BY <1>2, <2>2
    <3>2. g[p] = part[size(p)][p]
      <4> HIDE DEF size
      <4> QED
        BY <1>1, <3>1, PartialAgree
    <3> QED
      BY <3>2
  <2>3. Narrowed(g, z, o, i) = Narrowed(n, z, o, i)
    <3> HIDE DEF n, g
    <3> QED
      BY <2>2, SameHalves
  <2> QED
    BY <2>1, <2>3
<1>4. n = [i \in Pairs |-> n[i]]
  OBVIOUS
<1> HIDE DEF n
<1> QED
  BY <1>3, <1>4 DEF IsNarrowing

(* So the definition says what it seems to: the loop of the code.          *)
LEMMA Bisection ==
  ASSUME NEW z, NEW before \in Int, NEW after \in Int
  PROVE  \E n : /\ IsNarrowing(n, z, OffsetAt(z, before))
                /\ TransitionInstant(z, before, after) = n[<<before, after>>]
<1> DEFINE n == CHOOSE m : IsNarrowing(m, z, OffsetAt(z, before))
<1>1. TransitionInstant(z, before, after) = n[<<before, after>>]
  BY Zenon DEF TransitionInstant, IsNarrowing, Narrowed, Pairs, Middle
<1> HIDE DEF n
<1>2. IsNarrowing(n, z, OffsetAt(z, before))
  BY NarrowingExists, Zenon DEF n
<1> QED
  BY <1>1, <1>2

-----------------------------------------------------------------------------
(* Where it ends.                                                          *)

Contains(z, i) == i[1] < Change[z].at /\ Change[z].at <= i[2]

(* One step: the half that contains the change is kept.                    *)
LEMMA KeepsTheChange ==
  ASSUME NEW z \in TimeZones, Change[z].before # Change[z].after,
         NEW n, IsNarrowing(n, z, Change[z].before), NEW i \in Pairs, Contains(z, i)
  PROVE  /\ Length(i) <= Second => n[i] = i[2]
         /\ Length(i) > Second =>
              \/ /\ Middle(i) < Change[z].at /\ Contains(z, <<Middle(i), i[2]>>)
                 /\ n[i] = n[<<Middle(i), i[2]>>]
              \/ /\ Change[z].at <= Middle(i) /\ Contains(z, <<i[1], Middle(i)>>)
                 /\ n[i] = n[<<i[1], Middle(i)>>]
<1>1. n[i] = Narrowed(n, z, Change[z].before, i)
  BY DEF IsNarrowing
<1>2. /\ Change[z].at \in Int /\ i[1] \in Int /\ i[2] \in Int /\ Middle(i) \in Int
      /\ Second \in Int /\ Length(i) \in Int
  BY ClockAssumption DEF Pairs, Middle, Length
<1>3. OffsetAt(z, Middle(i)) = Change[z].before <=> Middle(i) < Change[z].at
  BY DEF OffsetAt
<1>4. CASE Length(i) <= Second
  BY <1>1, <1>2, <1>4 DEF Narrowed, Length
<1>5. CASE Length(i) > Second
  <2>1. n[i] = IF Middle(i) < Change[z].at THEN n[<<Middle(i), i[2]>>] ELSE n[<<i[1], Middle(i)>>]
    BY <1>1, <1>2, <1>3, <1>5 DEF Narrowed, Length
  <2> QED
    BY <1>2, <1>5, <2>1 DEF Contains
<1> QED
  BY <1>2, <1>4, <1>5

(***************************************************************************)
(* For an offset change at any instant the bisection ends on it or less    *)
(* than a second after it.                                                 *)
(***************************************************************************)
LEMMA EndsWithinTheSecond ==
  ASSUME NEW z \in TimeZones, Change[z].before # Change[z].after,
         NEW n, IsNarrowing(n, z, Change[z].before)
  PROVE  \A i \in Pairs :
           Contains(z, i) => n[i] \in Change[z].at .. Change[z].at + Second - 1
<1> DEFINE at == Change[z].at
           Right(i) == n[i] \in at .. at + Second - 1
           Wrong == {k \in Nat : \E i \in Pairs : Contains(z, i) /\ Length(i) <= k /\ ~ Right(i)}
<1>0. at \in Int /\ Second \in Nat
  BY ClockAssumption
<1>1. ASSUME Wrong # {}
      PROVE  FALSE
  <2>1. PICK k \in Wrong : \A m \in Wrong : k <= m
    <3> HIDE DEF Wrong
    <3>1. Wrong \subseteq Nat
      BY DEF Wrong
    <3> QED
      BY <1>1, <3>1, LeastNatural
  <2>2. PICK i \in Pairs : Contains(z, i) /\ Length(i) <= k /\ ~ Right(i)
    OBVIOUS
  <2>3. ASSUME NEW p \in Pairs, Contains(z, p), Length(p) \in 1 .. Length(i) - 1
        PROVE  Right(p)
    <3>1. Length(p) \in Nat /\ Length(p) < k
      BY <2>2, <2>3 DEF Length, Pairs
    <3>2. Length(p) \notin Wrong
      BY <2>1, <3>1
    <3> QED
      BY <2>3, <3>1, <3>2
  <2> HIDE DEF Right
  <2>4. CASE Length(i) <= Second
    <3>1. n[i] = i[2]
      BY <2>2, <2>4, KeepsTheChange
    <3> QED
      BY <1>0, <2>2, <2>4, <3>1 DEF Right, Contains, Length, Pairs
  <2>5. CASE Length(i) > Second
    <3>1. /\ <<Middle(i), i[2]>> \in Pairs /\ <<i[1], Middle(i)>> \in Pairs
          /\ Length(<<Middle(i), i[2]>>) \in 1 .. Length(i) - 1
          /\ Length(<<i[1], Middle(i)>>) \in 1 .. Length(i) - 1
      BY <2>5, Halves
    <3>2. \E p \in {<<Middle(i), i[2]>>, <<i[1], Middle(i)>>} : Contains(z, p) /\ n[i] = n[p]
      BY <2>2, <2>5, KeepsTheChange
    <3>3. Right(i)
      BY <2>3, <3>1, <3>2 DEF Right
    <3> QED
      BY <2>2, <3>3
  <2> QED
    BY <1>0, <2>4, <2>5 DEF Length, Pairs
<1>2. ASSUME NEW i \in Pairs, Contains(z, i), ~ Right(i)
      PROVE  FALSE
  <2>1. Length(i) \in Nat
    BY <1>0, <1>2 DEF Contains, Length, Pairs
  <2>2. Length(i) \in Wrong
    BY <1>2, <2>1
  <2> QED
    BY <1>1, <2>2
<1> QED
  BY <1>2

(***************************************************************************)
(* _transition_instant: narrowed from any two instants around an offset    *)
(* change, the instant found is the change or less than a second after it. *)
(***************************************************************************)
THEOREM TransitionsToTheSecond ==
  ASSUME NEW z \in TimeZones, Change[z].before # Change[z].after,
         NEW before \in Int, NEW after \in Int,
         before < Change[z].at, Change[z].at <= after
  PROVE  TransitionInstant(z, before, after) \in Change[z].at .. Change[z].at + Second - 1
<1>1. OffsetAt(z, before) = Change[z].before
  BY DEF OffsetAt
<1>2. PICK n : /\ IsNarrowing(n, z, Change[z].before)
               /\ TransitionInstant(z, before, after) = n[<<before, after>>]
  BY <1>1, Bisection
<1>3. <<before, after>> \in Pairs /\ Contains(z, <<before, after>>)
  BY DEF Pairs, Contains
<1> QED
  BY <1>2, <1>3, EndsWithinTheSecond

(* An interval that ends on the change goes on ending on it.               *)
LEMMA StaysOnTheChange ==
  ASSUME NEW z \in TimeZones, Change[z].before # Change[z].after,
         NEW n, IsNarrowing(n, z, Change[z].before)
  PROVE  \A b \in Int : b < Change[z].at => n[<<b, Change[z].at>>] = Change[z].at
<1> DEFINE at == Change[z].at
           Off == {k \in Nat : \E b \in Int : b < at /\ at - b = k /\ n[<<b, at>>] # at}
<1>0. at \in Int /\ Second \in Nat
  BY ClockAssumption
<1>1. ASSUME Off # {}
      PROVE  FALSE
  <2>1. PICK k \in Off : \A m \in Off : k <= m
    <3> HIDE DEF Off
    <3>1. Off \subseteq Nat
      BY DEF Off
    <3> QED
      BY <1>1, <3>1, LeastNatural
  <2>2. PICK b \in Int : b < at /\ at - b = k /\ n[<<b, at>>] # at
    OBVIOUS
  <2> DEFINE i == <<b, at>>
  <2>3. i \in Pairs /\ Contains(z, i) /\ Length(i) = at - b
    BY <1>0, <2>2 DEF Pairs, Contains, Length
  <2>4. CASE Length(i) <= Second
    <3>1. n[i] = i[2]
      BY <2>3, <2>4, KeepsTheChange
    <3> QED
      BY <2>2, <3>1
  <2>5. CASE Length(i) > Second
    <3>1. Middle(i) \in Int /\ b < Middle(i) /\ Middle(i) < at
      BY <2>3, <2>5, Halves
    <3>2. n[i] = n[<<Middle(i), at>>]
      <4>1. ~ (at <= Middle(i)) /\ i[2] = at
        BY <1>0, <3>1
      <4> HIDE DEF i
      <4> QED
        BY <2>3, <2>5, <4>1, KeepsTheChange
    <3>3. at - Middle(i) \in Nat /\ at - Middle(i) < k
      BY <1>0, <2>2, <3>1
    <3>4. at - Middle(i) \notin Off
      BY <2>1, <3>3
    <3>5. n[<<Middle(i), at>>] = at
      BY <3>1, <3>3, <3>4
    <3> QED
      BY <2>2, <3>2, <3>5
  <2> QED
    BY <1>0, <2>3, <2>4, <2>5
<1>2. ASSUME NEW b \in Int, b < at, n[<<b, at>>] # at
      PROVE  FALSE
  <2>1. at - b \in Off
    BY <1>0, <1>2
  <2> QED
    BY <1>1, <2>1
<1> QED
  BY <1>2

(* A change on a quarter of the hour is met within two halvings.           *)
LEMMA QuartersAreExact ==
  ASSUME NEW z \in TimeZones, Change[z].before # Change[z].after,
         NEW u \in Int, NEW q \in Nat, Hour = 4 * q, 2 * q > Second,
         \/ Change[z].at = u + q \/ Change[z].at = u + 2 * q
         \/ Change[z].at = u + 3 * q \/ Change[z].at = u + Hour
  PROVE  TransitionInstant(z, u, u + Hour) = Change[z].at
<1> DEFINE at == Change[z].at
<1>0. /\ at \in Int /\ Second \in Nat /\ Second > 0 /\ Hour \in Nat /\ q > 0
      /\ u < at /\ OffsetAt(z, u) = Change[z].before
  BY ClockAssumption DEF OffsetAt
<1>1. PICK n : /\ IsNarrowing(n, z, Change[z].before)
               /\ TransitionInstant(z, u, u + Hour) = n[<<u, u + Hour>>]
  <2>1. u + Hour \in Int
    BY <1>0
  <2> QED
    BY <1>0, <2>1, Bisection
<1>2. \A b \in Int : b < at => n[<<b, at>>] = at
  BY <1>1, StaysOnTheChange
<1>3. ASSUME NEW b \in Int, NEW a \in Int, b < at, at <= a, a - b > Second,
             NEW m, m = b + (a - b) \div 2
      PROVE  n[<<b, a>>] = IF m < at THEN n[<<m, a>>] ELSE n[<<b, m>>]
  <2>1. <<b, a>> \in Pairs /\ Contains(z, <<b, a>>) /\ Length(<<b, a>>) = a - b
        /\ Middle(<<b, a>>) = b + (a - b) \div 2 /\ Middle(<<b, a>>) \in Int
    BY <1>3 DEF Pairs, Contains, Length, Middle
  <2> QED
    BY <1>0, <1>1, <1>3, <2>1, KeepsTheChange
<1>4. CASE at = u + Hour
  BY <1>0, <1>1, <1>2, <1>4
<1>5. CASE at # u + Hour
  <2>1. /\ u + Hour \in Int /\ u + Hour - u > Second /\ at <= u + Hour
        /\ u + (u + Hour - u) \div 2 = u + 2 * q
    BY <1>0, <1>5
  <2>2. n[<<u, u + Hour>>] =
          IF u + 2 * q < at THEN n[<<u + 2 * q, u + Hour>>] ELSE n[<<u, u + 2 * q>>]
    BY <1>0, <1>3, <2>1
  <2>3. CASE at = u + 2 * q
    BY <1>0, <1>1, <1>2, <2>2, <2>3
  <2>4. CASE at = u + q
    <3>1. /\ u + 2 * q \in Int /\ u + 2 * q - u > Second /\ at <= u + 2 * q
          /\ u + (u + 2 * q - u) \div 2 = u + q
      BY <1>0, <2>4
    <3>2. n[<<u, u + 2 * q>>] = IF u + q < at THEN n[<<u + q, u + 2 * q>>] ELSE n[<<u, u + q>>]
      BY <1>0, <1>3, <3>1
    <3> QED
      BY <1>0, <1>1, <1>2, <2>2, <2>4, <3>2
  <2>5. CASE at = u + 3 * q
    <3>1. /\ u + 2 * q \in Int /\ u + 2 * q < at /\ u + Hour - (u + 2 * q) > Second
          /\ u + 2 * q + (u + Hour - (u + 2 * q)) \div 2 = u + 3 * q
      BY <1>0, <2>5
    <3>2. n[<<u + 2 * q, u + Hour>>] =
            IF u + 3 * q < at THEN n[<<u + 3 * q, u + Hour>>] ELSE n[<<u + 2 * q, u + 3 * q>>]
      BY <1>0, <1>3, <2>1, <3>1
    <3> QED
      BY <1>0, <1>1, <1>2, <2>2, <3>1, <3>2
  <2> QED
    BY <1>5, <2>3, <2>4, <2>5
<1> QED
  BY <1>4, <1>5

-----------------------------------------------------------------------------
(* The walk.                                                               *)

(* Multiples of a length are ordered as what they multiply it by.          *)
LEMMA Multiples ==
  ASSUME NEW h \in Int, NEW k \in Int, NEW q \in Nat, q > 0
  PROVE  /\ h * q \in Int
         /\ h <= k <=> h * q <= k * q
         /\ h < k <=> h * q < k * q
  OBVIOUS

(* What an hour of the walk finds is the change in it.                     *)
LEMMA ChangeInHour ==
  ASSUME NEW z \in TimeZones, NEW u \in Cursors
  PROVE  /\ u \in Int
         /\ OffsetAt(z, u) # OffsetAt(z, u + Hour) <=>
              /\ Change[z].before # Change[z].after
              /\ u < Change[z].at /\ Change[z].at <= u + Hour
         /\ OffsetAt(z, u) # OffsetAt(z, u + Hour) =>
              /\ OffsetAt(z, u) = Change[z].before /\ OffsetAt(z, u + Hour) = Change[z].after
              /\ TransitionInstant(z, u, u + Hour) = Change[z].at
<1> DEFINE at == Change[z].at
           q == Hour \div 4
<1>1. PICK h \in Int : u = h * Hour
  BY DEF Cursors
<1>2. /\ at \in Int /\ Hour \in Nat /\ q \in Nat /\ u \in Int
      /\ Hour = 4 * q /\ 2 * q > Second /\ q > 0
  BY <1>1, ClockAssumption, QuarterAssumption
<1>3. OffsetAt(z, u) # OffsetAt(z, u + Hour) <=>
        Change[z].before # Change[z].after /\ u < at /\ at <= u + Hour
  BY <1>2 DEF OffsetAt
<1>4. ASSUME Change[z].before # Change[z].after, u < at, at <= u + Hour
      PROVE  TransitionInstant(z, u, u + Hour) = at
  <2>1. PICK k \in Int : at = k * q
    BY <1>2, QuarterAssumption
  <2>2. u = (4 * h) * q /\ u + Hour = (4 * h + 4) * q
    BY <1>1, <1>2
  <2>3. 4 * h < k /\ k <= 4 * h + 4
    BY <1>2, <1>4, <2>1, <2>2, Multiples
  <2>4. k = 4 * h + 1 \/ k = 4 * h + 2 \/ k = 4 * h + 3 \/ k = 4 * h + 4
    BY <2>3
  <2>5. \/ at = u + q \/ at = u + 2 * q \/ at = u + 3 * q \/ at = u + Hour
    BY <1>2, <2>1, <2>2, <2>4
  <2> HIDE DEF q
  <2> QED
    BY <1>2, <1>4, <2>5, QuartersAreExact
<1> QED
  BY <1>2, <1>3, <1>4 DEF OffsetAt

(* The walk covers the month and the hour before it, and nothing else.     *)
LEMMA WalkCovers ==
  ASSUME NEW at \in Int
  PROVE  (\E u \in Cursors : u < at /\ at <= u + Hour) <=> -Hour < at /\ at <= MonthEnd
<1> DEFINE m == MonthEnd \div Hour
<1>1. Hour \in Nat /\ Hour > 0 /\ m \in Nat /\ MonthEnd = m * Hour
  BY ClockAssumption, QuarterAssumption
<1> HIDE DEF m
<1>2. ASSUME NEW u \in Cursors, u < at, at <= u + Hour
      PROVE  -Hour < at /\ at <= MonthEnd
  <2>1. PICK h \in -1 .. m - 1 : u = h * Hour
    BY DEF Cursors, m
  <2>2. /\ h * Hour \in Int /\ -1 <= h /\ h + 1 <= m
        /\ u + Hour = (h + 1) * Hour /\ -Hour = (-1) * Hour
    BY <1>1, <2>1
  <2>3. (-1) * Hour <= h * Hour /\ (h + 1) * Hour <= m * Hour
    BY <1>1, <2>1, <2>2, Multiples
  <2> QED
    BY <1>1, <1>2, <2>1, <2>2, <2>3
<1>3. ASSUME -Hour < at, at <= MonthEnd
      PROVE  \E u \in Cursors : u < at /\ at <= u + Hour
  <2> DEFINE h == (at - 1) \div Hour
  <2>1. h \in Int /\ h * Hour <= at - 1 /\ at - 1 < h * Hour + Hour
    BY <1>1
  <2> HIDE DEF h
  <2>2. h * Hour + Hour = (h + 1) * Hour /\ (-1) * Hour = -Hour
    BY <1>1, <2>1
  <2>3. -1 < h + 1
    <3>1. (-1) * Hour < (h + 1) * Hour
      BY <1>1, <1>3, <2>1, <2>2
    <3> QED
      BY <1>1, <2>1, <3>1, Multiples
  <2>4. h < m
    <3>1. h * Hour < m * Hour
      BY <1>1, <1>3, <2>1
    <3> QED
      BY <1>1, <2>1, <3>1, Multiples
  <2>5. h * Hour \in Cursors
    BY <1>1, <2>1, <2>3, <2>4 DEF Cursors, m
  <2> QED
    BY <1>1, <2>1, <2>5
<1> QED
  BY <1>2, <1>3

(* The month's intervals: that of the one change, if the walk observes it. *)
LEMMA TransitionsOfMonth ==
  ASSUME NEW z \in TimeZones
  PROVE  Transitions(z) = IF Change[z].before # Change[z].after /\ Observed(z)
                          THEN {Interval(Change[z].at, Change[z].before, Change[z].after)}
                          ELSE {}
<1> DEFINE changed == {u \in Cursors : OffsetAt(z, u) # OffsetAt(z, u + Hour)}
           i == Interval(Change[z].at, Change[z].before, Change[z].after)
           found == {Interval(TransitionInstant(z, u, u + Hour), OffsetAt(z, u),
                              OffsetAt(z, u + Hour)) : u \in changed}
<1>1. changed # {} <=> /\ Change[z].before # Change[z].after
                       /\ -Hour < Change[z].at /\ Change[z].at <= MonthEnd
  <2>1. Change[z].at \in Int
    BY ClockAssumption
  <2> QED
    BY <2>1, ChangeInHour, WalkCovers
<1>2. \A u \in changed : Interval(TransitionInstant(z, u, u + Hour), OffsetAt(z, u),
                                  OffsetAt(z, u + Hour)) = i
  BY ChangeInHour
<1> HIDE DEF changed, i
<1>3. found = IF changed = {} THEN {} ELSE {i}
  BY <1>2
<1>4. Transitions(z) = {j \in found : 0 <= j.start /\ j.start < MonthEnd}
  BY DEF Transitions, changed
<1> HIDE DEF found
<1>5. Observed(z) <=> /\ -Hour < Change[z].at /\ Change[z].at <= MonthEnd
                      /\ 0 <= i.start /\ i.start < MonthEnd
  BY DEF Observed, i
<1>6. CASE changed = {}
  BY <1>1, <1>3, <1>4, <1>5, <1>6
<1>7. CASE changed # {}
  BY <1>1, <1>3, <1>4, <1>5, <1>7 DEF i
<1> QED
  BY <1>6, <1>7

-----------------------------------------------------------------------------
(* The flags.                                                              *)

(* How many instants a wall clock names.                                   *)
LEMMA InstantsCounted ==
  ASSUME NEW z \in TimeZones, NEW w \in Int
  PROVE  LET at == Change[z].at  before == Change[z].before  after == Change[z].after IN
         Cardinality(InstantsOf(z, w)) =
           IF at + before <= w /\ w < at + after THEN 0
           ELSE IF at + after <= w /\ w < at + before THEN 2 ELSE 1
<1> DEFINE at == Change[z].at
           x == w - Change[z].before
           y == w - Change[z].after
           I == InstantsOf(z, w)
<1>1. at \in Int /\ x \in Int /\ y \in Int /\ Change[z].before \in Int /\ Change[z].after \in Int
  BY ClockAssumption
<1>2. /\ x + OffsetAt(z, x) = w <=> x < at \/ x = y
      /\ y + OffsetAt(z, y) = w <=> ~ (y < at) \/ x = y
  BY <1>1 DEF OffsetAt
<1>3. I = {u \in {x, y} : u + OffsetAt(z, u) = w}
  BY DEF InstantsOf
<1>4. /\ at + Change[z].before <= w <=> ~ (x < at)
      /\ at + Change[z].after <= w <=> ~ (y < at)
      /\ w < at + Change[z].after <=> y < at
      /\ w < at + Change[z].before <=> x < at
  BY <1>1
<1> HIDE DEF I, x, y, at
<1>5. CASE x = y
  <2>1. I = {x}
    BY <1>2, <1>3, <1>5
  <2> QED
    BY <1>1, <1>4, <1>5, <2>1, FS_Singleton DEF I, at
<1>6. CASE x # y /\ ~ (x < at) /\ y < at
  <2>1. I = {}
    BY <1>2, <1>3, <1>6
  <2> QED
    BY <1>4, <1>6, <2>1, FS_EmptySet DEF I, at
<1>7. CASE x # y /\ x < at /\ ~ (y < at)
  <2>1. I = {x} \cup {y}
    BY <1>2, <1>3, <1>7
  <2>2. Cardinality({x} \cup {y}) = 2
    <3>1. IsFiniteSet({x}) /\ Cardinality({x}) = 1 /\ y \notin {x}
      BY <1>7, FS_Singleton
    <3> QED
      BY <3>1, FS_AddElement
  <2> QED
    BY <1>4, <1>7, <2>1, <2>2 DEF I, at
<1>8. CASE x # y /\ ((x < at /\ y < at) \/ (~ (x < at) /\ ~ (y < at)))
  <2>1. I = {x} \/ I = {y}
    BY <1>2, <1>3, <1>8
  <2> QED
    BY <1>4, <1>8, <2>1, FS_Singleton DEF I, at
<1> QED
  BY <1>5, <1>6, <1>7, <1>8

(* A wall clock is flagged when an interval of the kind has it.            *)
LEMMA FlaggedInInterval ==
  ASSUME NEW w \in Int, NEW kind,
         \A i \in intervals : i.start \in Int /\ i.end \in Int
  PROVE  IntervalFlag(w, kind) = "true" <=>
           \E i \in intervals : i.kind = kind /\ i.start <= w /\ w < i.end
<1> DEFINE truth(i) == Both(Negation(Less(w, i.start)), Less(w, i.end))
           truths == {truth(i) : i \in {j \in intervals : j.kind = kind}}
<1>1. ASSUME NEW i \in intervals
      PROVE  truth(i) = "true" <=> i.start <= w /\ w < i.end
  <2>1. Null \notin Int /\ i.start \in Int /\ i.end \in Int
    BY ValuesAssumption
  <2>2. /\ Less(w, i.start) = Truth(w < i.start)
        /\ Less(w, i.end) = Truth(w < i.end)
    BY <2>1 DEF Less
  <2>3. \A p, q : Both(Truth(p), Truth(q)) = "true" <=> (p /\ q)
    BY DEF Both, Truth, Negation, AnyOf
  <2> QED
    BY <2>1, <2>2, <2>3 DEF Both, Truth, Negation, AnyOf
<1> HIDE DEF truth
<1>2. IntervalFlag(w, kind) = OrFalse(AnyOf(truths))
  BY DEF IntervalFlag, truth
<1>3. IntervalFlag(w, kind) = "true" <=> "true" \in truths
  BY <1>2 DEF OrFalse, AnyOf
<1> QED
  BY <1>1, <1>3

(* A pickup is an instant, or it is not there: nothing is guarded into it. *)
LEMMA PickupIsInstant ==
  ASSUME ProjectionInv, pc = "written", NEW e \in Evaluated
  PROVE  e.values[Contract.pickup_timestamp] \in Int \cup {Null}
<1> DEFINE c == Contract.pickup_timestamp
           column == Contract.columns[c]
           row == file.rows[e.ordinal]
           schema == file.schema
           s == SourceOf(c)
<1>1. /\ file \in Files /\ resolved = ResolveCandidate(Contract.columns, schema)
      /\ resolved.violations = {} /\ file.service \in Services
  BY FilesAssumption DEF ProjectionInv, HasFile, Resolved
<1>2. resolved = Resolve(Contract.columns, schema)
  BY <1>1 DEF ResolveCandidate, Unreadable
<1>3. c \in Columns /\ column.target = "timestamp_ntz"
  BY <1>1, ContractAssumption DEF Contract, Columns
<1>4. PICK i, lines : /\ i \in DOMAIN file.rows
                      /\ e = EvaluatedRow(i, Canonical(file.rows[i]), lines)
  BY DEF Evaluated
<1>5. e.ordinal = i /\ e.values = Canonical(row)
  BY <1>4 DEF EvaluatedRow
<1>6. e.values[c] = IF c \in Mapped THEN Cast(row[s], column.target) ELSE Null
  BY <1>3, <1>5 DEF Canonical
<1>7. CASE c \notin Mapped
  BY <1>6, <1>7
<1>8. CASE c \in Mapped
  <2>1. resolved.fields[c] = Field(column, schema) /\ resolved.fields[c].status = "mapped"
    BY <1>2, <1>3, <1>8 DEF Resolve, Mapped, Columns
  <2>2. /\ Cardinality(Matches(column, schema)) = 1 /\ Breaches(column, schema) = {}
        /\ resolved.fields[c].source = Matches(column, schema)
    BY <2>1 DEF Field
  <2>3. DOMAIN schema \subseteq Spellings
    BY <1>1, FilesAssumption
  <2>4. PICK t : Matches(column, schema) = {t}
    BY <2>2, <2>3, FoundOncePerMatch, FS_Singleton
  <2>5. s = t /\ t \in DOMAIN schema
    BY <2>2, <2>4 DEF SourceOf, Matches
  <2>6. schema[s] \in SourceTypes /\ row[s] \in Values[schema[s]] \cup {Null}
    BY <1>1, <1>4, <1>5, <2>5, FilesAssumption
  <2>7. CASE row[s] = Null
    BY <1>6, <1>8, <2>7 DEF Cast
  <2>8. CASE row[s] # Null
    <3>1. Promotion(column, schema) # "guarded"
      <4>1. Promotion(column, schema) = Classify(schema[s], "timestamp_ntz")
        BY <1>3, <2>4, <2>5 DEF Promotion
      <4>2. <<schema[s], "timestamp_ntz">> \notin Guarded
        BY DEF Guarded
      <4>3. schema[s] # "untyped_null"
        BY <2>6, <2>8, ValuesAssumption
      <4> QED
        BY <4>1, <4>2, <4>3 DEF Classify, Widening, Narrowing, Reversed, Guarded
    <3>2. row[s] \in Values[column.target]
      BY <2>2, <2>4, <2>5, <2>6, <2>8, <3>1, PromotionKeeps
    <3>3. Values["timestamp_ntz"] \subseteq Int
      BY ValuesAssumption DEF SourceTypes, KnownTypes
    <3> QED
      BY <1>3, <1>6, <1>8, <3>2, <3>3 DEF Cast
  <2> QED
    BY <2>7, <2>8
<1> QED
  BY <1>7, <1>8

(* The intervals a file is flagged by are those of its zone and month.     *)
ClockInv ==
  pc \in {"split", "written"} =>
    file.zone \in TimeZones /\ intervals = Transitions(file.zone)

(* It holds at first, and every step keeps it.                             *)
LEMMA ClockInit == Init => ClockInv
  BY DEF Init, ClockInv

LEMMA ClockStep == ClockInv /\ [Next]_vars => ClockInv'
<1> SUFFICES ASSUME ClockInv, [Next]_vars
             PROVE  ClockInv'
  OBVIOUS
<1> USE DEF ClockInv, input, output
<1>1. ASSUME NEW f \in Files, Begin(f)
      PROVE  ClockInv'
  BY <1>1 DEF Begin
<1>2. CASE LoadZones \/ RefuseZones \/ NoTimeZone \/ ResolveSchema \/ WriteRejection \/ End
  BY <1>2 DEF LoadZones, RefuseZones, NoTimeZone, ResolveSchema, WriteRejection, End
<1>3. CASE FindIntervals
  <2>1. Transitions(file.zone)' = Transitions(file.zone)
    BY <1>3 DEF FindIntervals, Transitions
  <2> QED
    BY <1>3, <2>1 DEF FindIntervals
<1>4. CASE WriteVersion \/ UNCHANGED vars
  <2>1. /\ UNCHANGED <<file, intervals>>
        /\ pc' \in {"split", "written"} => pc \in {"split", "written"}
    BY <1>4 DEF WriteVersion, vars
  <2> QED
    BY <2>1 DEF Transitions
<1> QED
  BY <1>1, <1>2, <1>3, <1>4 DEF Next

(***************************************************************************)
(* A pickup in its month is flagged exactly when the clock of the zone     *)
(* skips it or repeats it, if the change is one the walk observes, and     *)
(* not at all otherwise: for every zone, month, change on a quarter hour   *)
(* and jump, forward or back and of any size.                              *)
(***************************************************************************)
THEOREM FlagsAreCivilTime == Spec => []FlagsMatchCivilTime
<1>1. ASSUME ProjectionInv, ClockInv, pc = "written", NEW e \in published \cup quarantined,
             e.values[Contract.pickup_timestamp] # Null,
             0 <= e.values[Contract.pickup_timestamp],
             e.values[Contract.pickup_timestamp] < MonthEnd
      PROVE  LET w == e.values[Contract.pickup_timestamp]
                 instants == Cardinality(InstantsOf(file.zone, w))
             IN RulesOf(e.ordinal) \cap {"local_time_nonexistent", "local_time_ambiguous"} =
                  IF Observed(file.zone)
                  THEN CASE instants = 0 -> {"local_time_nonexistent"}
                         [] instants = 1 -> {}
                         [] OTHER        -> {"local_time_ambiguous"}
                  ELSE {}
  <2> DEFINE w == e.values[Contract.pickup_timestamp]
             z == file.zone
             at == Change[z].at
             before == Change[z].before
             after == Change[z].after
             instants == Cardinality(InstantsOf(z, w))
             flagged == RulesOf(e.ordinal) \cap {"local_time_nonexistent", "local_time_ambiguous"}
             i == Interval(at, before, after)
  <2>1. /\ published = Published /\ quarantined = Quarantined /\ incidents = RowIncidents
        /\ UsableLookup(file.lookup) /\ dimension = ZoneRows(file.lookup)
        /\ z \in TimeZones /\ intervals = Transitions(z)
    BY <1>1 DEF ProjectionInv, Split, ZonesLoaded, ClockInv
  <2>2. e \in Evaluated
    BY <1>1, <2>1 DEF Published, Quarantined
  <2>3. w \in Int
    BY <1>1, <2>2, PickupIsInstant
  <2>4. /\ at \in Int /\ before \in Int /\ after \in Int
        /\ i.start \in Int /\ i.end \in Int
    BY <2>1, ClockAssumption DEF Interval
  <2>5. intervals = IF before # after /\ Observed(z) THEN {i} ELSE {}
    BY <2>1, TransitionsOfMonth
  <2>6. /\ e.flags.local_time_nonexistent = IntervalFlag(w, "nonexistent")
        /\ e.flags.local_time_ambiguous = IntervalFlag(w, "ambiguous")
    <3>1. PICK k, lines : e = EvaluatedRow(k, Canonical(file.rows[k]), lines)
      BY <2>2 DEF Evaluated
    <3> QED
      BY <3>1 DEF EvaluatedRow, Flags
  <2>7. \A r \in {"local_time_nonexistent", "local_time_ambiguous"} :
          r \in flagged <=> e.flags[r] = "true"
    <3>1. \A r \in Rules : r \in RulesOf(e.ordinal) <=> e.flags[r] = "true"
      BY <2>1, <2>2, IncidentsOfRow DEF RulesOf
    <3> QED
      BY <3>1 DEF Rules, IncidentRules
  <2>8. \A kind : IntervalFlag(w, kind) = "true" <=>
          \E j \in intervals : j.kind = kind /\ j.start <= w /\ w < j.end
    <3>1. \A j \in intervals : j.start \in Int /\ j.end \in Int
      BY <2>4, <2>5
    <3> HIDE DEF w
    <3> QED
      BY <2>3, <3>1, FlaggedInInterval
  <2>9. instants = IF at + before <= w /\ w < at + after THEN 0
                   ELSE IF at + after <= w /\ w < at + before THEN 2 ELSE 1
    BY <2>1, <2>3, InstantsCounted
  <2>10. /\ "local_time_nonexistent" \in flagged <=>
              /\ Observed(z) /\ after > before /\ at + before <= w /\ w < at + after
         /\ "local_time_ambiguous" \in flagged <=>
              /\ Observed(z) /\ after < before /\ at + after <= w /\ w < at + before
    <3>1. /\ "local_time_nonexistent" \in flagged <=>
               \E j \in intervals : j.kind = "nonexistent" /\ j.start <= w /\ w < j.end
          /\ "local_time_ambiguous" \in flagged <=>
               \E j \in intervals : j.kind = "ambiguous" /\ j.start <= w /\ w < j.end
      BY <2>6, <2>7, <2>8
    <3>2. i = IF after > before
              THEN [kind |-> "nonexistent", start |-> at + before, end |-> at + after]
              ELSE [kind |-> "ambiguous", start |-> at + after, end |-> at + before]
      BY DEF Interval
    <3> HIDE DEF flagged, w, i, at, before, after, z
    <3> QED
      BY <2>4, <2>5, <3>1, <3>2
  <2> HIDE DEF w, at, before, after, z, instants
  <2>11. flagged = IF Observed(z)
                   THEN CASE instants = 0 -> {"local_time_nonexistent"}
                          [] instants = 1 -> {}
                          [] OTHER        -> {"local_time_ambiguous"}
                   ELSE {}
    <3>1. flagged \subseteq {"local_time_nonexistent", "local_time_ambiguous"}
      OBVIOUS
    <3> HIDE DEF flagged
    <3>2. CASE ~ Observed(z)
      BY <2>10, <3>1, <3>2
    <3>3. CASE Observed(z) /\ instants = 0
      BY <2>3, <2>4, <2>9, <2>10, <3>1, <3>3
    <3>4. CASE Observed(z) /\ instants = 1
      BY <2>3, <2>4, <2>9, <2>10, <3>1, <3>4
    <3>5. CASE Observed(z) /\ instants = 2
      BY <2>3, <2>4, <2>9, <2>10, <3>1, <3>5
    <3> QED
      BY <2>9, <3>2, <3>3, <3>4, <3>5
  <2> QED
    BY <2>11 DEF w, z, instants
<1>2. ProjectionInv /\ ClockInv => FlagsMatchCivilTime
  BY <1>1 DEF FlagsMatchCivilTime
<1> QED
  BY InitEstablishes, StepPreserves, ClockInit, ClockStep, <1>2, PTL DEF Spec
=============================================================================
