------------------------------- MODULE MCStorage -------------------------------
(* Instances of Storage for TLC. *)
EXTENDS Storage, TLC
CONSTANTS p1, a, b, kv, sched
Sensors == Permutations({a, b})
=============================================================================
