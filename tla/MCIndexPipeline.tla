-------------------------- MODULE MCIndexPipeline --------------------------
(* Instances of IndexPipeline for TLC. *)
EXTENDS IndexPipeline, TLC
CONSTANTS p1, p2

\* p1 is a.py and p2 is src/a.py.
SameName == {<<p1, p2>>}

Symmetry == Permutations(Contents) \cup Permutations(Commits)
PathSymmetry == Symmetry \cup Permutations(Paths)
=============================================================================
