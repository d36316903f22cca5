----------------------------- MODULE MCDrivers -----------------------------
(* Instance of Drivers for TLC: two drivers race, a third wrote before.  *)
EXTENDS Drivers
=============================================================================
