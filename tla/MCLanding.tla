----------------------------- MODULE MCLanding -----------------------------
(* Instance of Landing for TLC.                                            *)
EXTENDS Landing

EveryDamage == {"absent", "corrupt", "directory"}
=============================================================================
