------------------------ MODULE MCFingerprintRegistry ------------------------
(* Instances of the connections and fences for TLC. *)
EXTENDS FingerprintRegistry, TLC

ConnectionSymmetry == Permutations(Connections)

FenceBound == Cardinality(fences) <= 2   \* calls of fence() at one time
==============================================================================
