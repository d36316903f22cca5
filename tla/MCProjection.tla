---------------------------- MODULE MCProjection ----------------------------
(* Instance of Projection for TLC, with the service contracts as they are. *)
(* Numbers count halves: 2 stands for 1.                                   *)
EXTENDS Projection, ServiceContracts

SpelledBy(service) ==
  UNION {SERVICE_CONTRACTS[service].columns[c].aliases : c \in DOMAIN SERVICE_CONTRACTS[service].columns}

MCSpellings == SpelledBy("yellow") \cup SpelledBy("hvfhv") \cup {"pulocationid", "surcharge"}

Lowered ==
  [VendorID |-> "vendorid", RatecodeID |-> "ratecodeid", PULocationID |-> "pulocationid",
   DOLocationID |-> "dolocationid", Airport_fee |-> "airport_fee"]
MCFold == [s \in MCSpellings |-> IF s \in DOMAIN Lowered THEN Lowered[s] ELSE s]

(* Time zones: where the clock changes, in quarters of an hour.            *)
Quarter == Hour \div 4
Zoned(at, before, after) ==
  [at |-> at * Quarter, before |-> before * Quarter, after |-> after * Quarter]
MCChange ==
  [spring  |-> Zoned(28, -20, -16), autumn |-> Zoned(24, -16, -20), half |-> Zoned(13, 22, 24),
   quarter |-> Zoned(7, -3, -7), slack |-> Zoned(-3, 3, 7), early |-> Zoned(-32, 40, 44),
   steady  |-> Zoned(400, 0, 4)]

(* Wall clocks on both sides of every boundary.                            *)
Clocks ==
  LET edges == {0, MonthEnd} \cup {MCChange[z].at + MCChange[z].before : z \in TimeZones}
                 \cup {MCChange[z].at + MCChange[z].after : z \in TimeZones}
  IN edges \cup {e - Second : e \in edges} \cup {e + Quarter : e \in edges}
Day == 24 * Hour

Even(S) == {n \in S : n % 2 = 0}
MCValues ==
  [int32 |-> Even(-6 .. 6), int64 |-> Even(-12 .. 12),
   float32 |-> (-4 .. 4) \cup {-8, 8}, float64 |-> (-8 .. 8) \cup {-12, 12},
   string |-> {100, 101}, boolean |-> {200, 201},
   date |-> {-Day, 0}, timestamp_ntz |-> Clocks \cup {-Day, 1},
   untyped_null |-> {}, unsupported |-> {300}]

Held(type) == {Null} \cup Values[type]

(* A file as its contract would have it, but for integer rate codes.       *)
Usual(service) ==
  LET columns == SERVICE_CONTRACTS[service].columns
      typed == [s \in SpelledBy(service) \ {"Airport_fee"} |->
                  columns[CHOOSE c \in DOMAIN columns : s \in columns[c].aliases].target]
  IN IF service = "yellow" THEN [typed EXCEPT !["RatecodeID"] = "int64"] ELSE typed

Without(schema, s) == [r \in (DOMAIN schema) \ {s} |-> schema[r]]
With(schema, s, type) == [r \in (DOMAIN schema) \cup {s} |-> IF r = s THEN type ELSE schema[r]]

Row(schema, changes) ==
  [s \in DOMAIN schema |->
     IF s \in DOMAIN changes THEN changes[s]
     ELSE CASE schema[s] = "timestamp_ntz" -> 0 [] schema[s] = "string" -> 100 [] OTHER -> 2]

File(service, schema, first, second, lookup, zone) ==
  [service |-> service, schema |-> schema,
   rows |-> <<Row(schema, first), Row(schema, second)>>, lookup |-> lookup, zone |-> zone]

(* One column changes its type, with any values in it, or is missing; the   *)
(* wall clocks of timestamps vary below.                                   *)
SchemaFiles(service) ==
  LET usual == Usual(service) IN
  {File(service, Without(usual, s), <<>>, <<>>, <<2>>, "steady") : s \in DOMAIN usual}
    \cup UNION {{File(service, With(usual, q[1], q[2]), [s \in {q[1]} |-> v],
                      [s \in {q[1]} |-> Null], <<2, 4>>, "steady") : v \in Held(q[2])} :
                  q \in (DOMAIN usual \cup {"Airport_fee", "pulocationid", "surcharge"})
                          \X (SourceTypes \ {"timestamp_ntz"})}

(* Two columns change at once, or one changes and another is missing.       *)
PairFiles ==
  {File("yellow",
        Without(With(With(Usual("yellow"), q[1], q[2]), q[3], q[4]), q[5]),
        [s \in {q[1], q[3]} |-> Null], [s \in {q[1], q[3]} |-> Null], <<2>>, "steady") :
     q \in {"passenger_count", "Airport_fee"} \X SourceTypes \X {"VendorID", "PULocationID"}
             \X SourceTypes \X {"DOLocationID", "extra"}}

(* Two range-checked columns of a row.                                     *)
GuardFiles ==
  LET schema == With(Usual("yellow"), "passenger_count", "int64")
      pairs == Held("int64") \X Held("int64")
  IN {File("yellow", schema, [passenger_count |-> p[1], RatecodeID |-> p[2]],
           [passenger_count |-> p[2], RatecodeID |-> p[2]], <<2>>, "steady") : p \in pairs}

ClockFiles ==
  {File("hvfhv", Usual("hvfhv"), [pickup_datetime |-> q[1], dropoff_datetime |-> q[1]],
        [pickup_datetime |-> q[1], dropoff_datetime |-> q[2]], <<2>>, q[3]) :
     q \in (Clocks \cup {Null}) \X {Null, 0, Quarter} \X (TimeZones \cup {"none"})}

LookupFiles ==
  {File("hvfhv", Usual("hvfhv"), [PULocationID |-> q[1], DOLocationID |-> q[2]],
        [PULocationID |-> q[2], DOLocationID |-> q[2]], q[3], "steady") :
     q \in {2, 4, 6, Null} \X {2, 4, 6, Null} \X UNION {[1 .. n -> {2, 4, Null}] : n \in 0 .. 3}}

MCFiles ==
  SchemaFiles("yellow") \cup SchemaFiles("hvfhv") \cup PairFiles \cup GuardFiles
    \cup ClockFiles \cup LookupFiles
=============================================================================
