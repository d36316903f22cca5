----------------------------- MODULE Resolution -----------------------------
(***************************************************************************)
(* One physical schema against one service contract: the type vocabulary   *)
(* of src/fareline/m2/types.py, the columns of src/fareline/m2/contracts.py*)
(* and the resolver of src/fareline/m2/resolution.py. A schema is a        *)
(* function from the column names of a file, as the file spells them, to   *)
(* the types its reader reports.                                           *)
(***************************************************************************)
EXTENDS Integers, FiniteSets

CONSTANTS
  Services,
  Contracts,  \* [columns: name -> [aliases, target, required, guarded], and the
              \*  names of the columns the row rules read], per service
  Spellings,  \* column names files and contracts use
  Fold,       \* each of them with its case folded: str.lower
  Values,     \* the values each type can hold, numbers and instants as integers
  Exact,      \* up to here every integer is a double: 2^53
  Null

(* A token, or what a reader reports for a type that has none.             *)
KnownTypes == {"int32", "int64", "float32", "float64", "string", "boolean",
               "timestamp_ntz", "date", "untyped_null"}
SourceTypes == KnownTypes \cup {"unsupported"}

(* ColumnContract.alias_keys                                               *)
AliasKeys(column) == {Fold[a] : a \in column.aliases}

ASSUME ContractAssumption ==
  \A service \in Services :
    LET columns == Contracts[service].columns IN
    /\ \A c \in DOMAIN columns :
         /\ columns[c].aliases \subseteq Spellings
         /\ columns[c].target \in KnownTypes \ {"untyped_null"}
    /\ \A c, d \in DOMAIN columns :
         c # d => AliasKeys(columns[c]) \cap AliasKeys(columns[d]) = {}
    /\ {Contracts[service].pickup_timestamp, Contracts[service].dropoff_timestamp,
        Contracts[service].pickup_zone_key, Contracts[service].dropoff_zone_key}
         \subseteq DOMAIN columns
    /\ columns[Contracts[service].pickup_timestamp].target = "timestamp_ntz"

-----------------------------------------------------------------------------
(* types.py                                                                *)

Widening == {<<"int32", "int64">>, <<"int32", "float64">>,
             <<"float32", "float64">>, <<"date", "timestamp_ntz">>}

Guarded == {<<"int64", "float64">>}

(* What these tables say of the number formats.                            *)
ASSUME ValuesAssumption ==
  /\ IsFiniteSet(Spellings) /\ Exact \in Nat /\ Null \notin Int
  /\ Values \in [SourceTypes -> SUBSET Int] /\ Values["untyped_null"] = {}
  /\ \A p \in Widening : Values[p[1]] \subseteq Values[p[2]]
  /\ \A p \in Guarded : Values[p[1]] \cap (-Exact .. Exact) \subseteq Values[p[2]]

Reversed(pairs) == {p \in KnownTypes \X KnownTypes : <<p[2], p[1]>> \in pairs}

Narrowing == Reversed(Widening \cup Guarded)
               \cup {<<"float64", "int32">>, <<"float32", "int32">>, <<"int64", "int32">>}

(* Mutant: the narrowings are looked up among the widenings too.            *)
ClassifyBothWays(s, t) ==
  CASE s = "untyped_null"      -> "untyped_null_cast"
    [] s = t                   -> "identity"
    [] <<s, t>> \in Guarded    -> "guarded"
    [] <<s, t>> \in Widening \cup Narrowing -> "widening"
    [] OTHER                   -> "incompatible"

Classify(s, t) ==
  CASE s = "untyped_null"      -> "untyped_null_cast"
    [] s = t                   -> "identity"
    [] <<s, t>> \in Widening   -> "widening"
    [] <<s, t>> \in Guarded    -> "guarded"
    [] <<s, t>> \in Narrowing  -> "narrowing"
    [] OTHER                   -> "incompatible"

-----------------------------------------------------------------------------
(* resolution.py                                                           *)

Matches(column, schema) == {s \in DOMAIN schema : Fold[s] \in AliasKeys(column)}

Promotion(column, schema) ==
  Classify(schema[CHOOSE s \in Matches(column, schema) : TRUE], column.target)

(***************************************************************************)
(* The rules _resolve_one finds a column in breach of: at most one. Its    *)
(* branch for a type without a token, unsupported_source_type, is never    *)
(* reached: ResolveCandidate refuses such a file before it looks at any    *)
(* column.                                                                 *)
(***************************************************************************)
Breaches(column, schema) ==
  LET found == Matches(column, schema) IN
  CASE Cardinality(found) > 1 -> {"ambiguous_canonical_column"}
    [] found = {} -> IF column.required THEN {"missing_required_column"} ELSE {}
    [] OTHER ->
         CASE Promotion(column, schema) = "narrowing" -> {"narrowing_type_drift"}
           [] Promotion(column, schema) = "incompatible" -> {"incompatible_type_drift"}
           [] Promotion(column, schema) = "guarded" /\ ~ column.guarded ->
                {"guarded_promotion_not_allowed"}
           [] OTHER -> {}

(* A column a refused or absent source leaves empty has no source here.     *)
Field(column, schema) ==
  IF Cardinality(Matches(column, schema)) = 1 /\ Breaches(column, schema) = {}
  THEN [status |-> IF Promotion(column, schema) = "untyped_null_cast"
                   THEN "untyped_null_source" ELSE "mapped",
        source |-> Matches(column, schema), promotion |-> Promotion(column, schema)]
  ELSE [status |-> "absent_in_source", source |-> {}, promotion |-> "none"]

Resolve(columns, schema) ==
  [fields     |-> [c \in DOMAIN columns |-> Field(columns[c], schema)],
   violations |-> UNION {{<<r, c>> : r \in Breaches(columns[c], schema)} : c \in DOMAIN columns},
   unmapped   |-> DOMAIN schema \ UNION {Matches(columns[c], schema) : c \in DOMAIN columns}]

Unreadable ==
  [fields |-> <<>>, violations |-> {<<"unreadable_source_schema", "*">>}, unmapped |-> {}]

(***************************************************************************)
(* _resolve_candidate. The reader's types are translated before the        *)
(* contract is looked at, so one type without a token refuses the file,    *)
(* whether or not the contract mentions its column.                        *)
(***************************************************************************)
ResolveCandidate(columns, schema) ==
  IF \E s \in DOMAIN schema : schema[s] = "unsupported" THEN Unreadable
  ELSE Resolve(columns, schema)
=============================================================================
