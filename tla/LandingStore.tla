---------------------------- MODULE LandingStore ----------------------------
(***************************************************************************)
(* What everybody but the landing code itself may rely on: versions of     *)
(* artifacts appear, each with a manifest that never changes and a file    *)
(* that can be read until it is damaged. Publication is written over this  *)
(* store; Landing implements it.                                           *)
(***************************************************************************)
EXTENDS Naturals

CONSTANTS
  Artifacts,  \* logical artifacts
  Contents,   \* source versions an artifact can ever have
  MaxStamp    \* bound on the clock readings of published_at_utc

VARIABLES
  manifest,   \* published_at_utc of each landed version, 0 before it lands
  damaged     \* landed versions whose file cannot be read

storeVars == <<manifest, damaged>>

Init ==
  /\ manifest = [a \in Artifacts |-> [v \in Contents |-> 0]]
  /\ damaged = {}

(* A version seen before is replayed, or its damaged file repaired, and     *)
(* keeps its manifest; a new one gets a manifest stamped with the clock,    *)
(* which need not have advanced.                                            *)
Acquire(a, v, now) ==
  /\ manifest' = [manifest EXCEPT ![a][v] = IF @ = 0 THEN now ELSE @]
  /\ damaged' = damaged \ {<<a, v>>}

(* A landed file goes missing or cannot be read, for good or until the same *)
(* version is landed again.                                                 *)
Damage(a, v) ==
  /\ manifest[a][v] # 0 /\ <<a, v>> \notin damaged
  /\ damaged' = damaged \cup {<<a, v>>}
  /\ UNCHANGED manifest

Next ==
  \E a \in Artifacts, v \in Contents :
    \/ \E now \in 1 .. MaxStamp : Acquire(a, v, now)
    \/ Damage(a, v)

Spec == Init /\ [][Next]_storeVars
=============================================================================
