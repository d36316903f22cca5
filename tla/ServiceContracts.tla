-------------------------- MODULE ServiceContracts --------------------------
(***************************************************************************)
(* The two contracts of src/fareline/m2/contracts.py, column by column:    *)
(* accepted spellings, published type, whether a file must have it, and    *)
(* whether it opted into range-checked promotions.                         *)
(***************************************************************************)

Column(aliases, target) ==
  [aliases |-> aliases, target |-> target, required |-> FALSE, guarded |-> FALSE]
Needed(aliases, target) == [Column(aliases, target) EXCEPT !.required = TRUE]
RangeChecked(aliases, target) == [Column(aliases, target) EXCEPT !.guarded = TRUE]

YELLOW ==
  [pickup_timestamp |-> "pickup_datetime", dropoff_timestamp |-> "dropoff_datetime",
   pickup_zone_key |-> "pickup_location_id", dropoff_zone_key |-> "dropoff_location_id",
   columns |->
     [vendor_id |-> Column({"VendorID"}, "int64"),
      pickup_datetime |-> Needed({"tpep_pickup_datetime"}, "timestamp_ntz"),
      dropoff_datetime |-> Needed({"tpep_dropoff_datetime"}, "timestamp_ntz"),
      passenger_count |-> RangeChecked({"passenger_count"}, "float64"),
      trip_distance |-> Column({"trip_distance"}, "float64"),
      ratecode_id |-> RangeChecked({"RatecodeID"}, "float64"),
      store_and_fwd_flag |-> Column({"store_and_fwd_flag"}, "string"),
      pickup_location_id |-> Needed({"PULocationID"}, "int64"),
      dropoff_location_id |-> Needed({"DOLocationID"}, "int64"),
      payment_type |-> Column({"payment_type"}, "int64"),
      fare_amount |-> Needed({"fare_amount"}, "float64"),
      extra |-> Column({"extra"}, "float64"),
      mta_tax |-> Column({"mta_tax"}, "float64"),
      tip_amount |-> Column({"tip_amount"}, "float64"),
      tolls_amount |-> Column({"tolls_amount"}, "float64"),
      improvement_surcharge |-> Column({"improvement_surcharge"}, "float64"),
      total_amount |-> Needed({"total_amount"}, "float64"),
      congestion_surcharge |-> Column({"congestion_surcharge"}, "float64"),
      airport_fee |-> Column({"airport_fee", "Airport_fee"}, "float64"),
      cbd_congestion_fee |-> Column({"cbd_congestion_fee"}, "float64")]]

HVFHV ==
  [pickup_timestamp |-> "pickup_datetime", dropoff_timestamp |-> "dropoff_datetime",
   pickup_zone_key |-> "pickup_location_id", dropoff_zone_key |-> "dropoff_location_id",
   columns |->
     [hvfhs_license_num |-> Column({"hvfhs_license_num"}, "string"),
      dispatching_base_num |-> Column({"dispatching_base_num"}, "string"),
      originating_base_num |-> Column({"originating_base_num"}, "string"),
      request_datetime |-> Column({"request_datetime"}, "timestamp_ntz"),
      on_scene_datetime |-> Column({"on_scene_datetime"}, "timestamp_ntz"),
      pickup_datetime |-> Needed({"pickup_datetime"}, "timestamp_ntz"),
      dropoff_datetime |-> Needed({"dropoff_datetime"}, "timestamp_ntz"),
      pickup_location_id |-> Needed({"PULocationID"}, "int64"),
      dropoff_location_id |-> Needed({"DOLocationID"}, "int64"),
      trip_miles |-> Column({"trip_miles"}, "float64"),
      trip_time |-> Column({"trip_time"}, "int64"),
      base_passenger_fare |-> Needed({"base_passenger_fare"}, "float64"),
      tolls |-> Column({"tolls"}, "float64"),
      bcf |-> Column({"bcf"}, "float64"),
      sales_tax |-> Column({"sales_tax"}, "float64"),
      congestion_surcharge |-> Column({"congestion_surcharge"}, "float64"),
      airport_fee |-> Column({"airport_fee"}, "float64"),
      tips |-> Column({"tips"}, "float64"),
      driver_pay |-> Needed({"driver_pay"}, "float64"),
      shared_request_flag |-> Column({"shared_request_flag"}, "string"),
      shared_match_flag |-> Column({"shared_match_flag"}, "string"),
      access_a_ride_flag |-> Column({"access_a_ride_flag"}, "string"),
      wav_request_flag |-> Column({"wav_request_flag"}, "string"),
      wav_match_flag |-> Column({"wav_match_flag"}, "string"),
      cbd_congestion_fee |-> Column({"cbd_congestion_fee"}, "float64")]]

SERVICE_CONTRACTS == [yellow |-> YELLOW, hvfhv |-> HVFHV]
=============================================================================
