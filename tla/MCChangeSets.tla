---------------------------- MODULE MCChangeSets ----------------------------
(* Instances of ChangeSets for TLC. *)
EXTENDS ChangeSets, TLC
CONSTANTS k1, k2, r1, r2, d1, d2

Symmetry == Permutations(Clients) \cup Permutations(Rows)
=============================================================================
