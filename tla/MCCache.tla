------------------------------ MODULE MCCache ------------------------------
(* Instances of ManagedCache for TLC.                                      *)
EXTENDS ManagedCache
CONSTANTS k1, k2, k3

KeySymmetry == Permutations(Keys)
MCOneShard == [k \in Keys |-> 0]
=============================================================================
