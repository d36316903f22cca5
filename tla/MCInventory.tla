---------------------------- MODULE MCInventory ----------------------------
(* Instance of Inventory for TLC.                                          *)
EXTENDS Inventory
=============================================================================
