--------------------------- MODULE MCIndexingJobs ---------------------------
(* Instances of IndexingJobs for TLC. *)
EXTENDS IndexingJobs, TLC
CONSTANTS j1, j2, j3, c1, c2

\* The webhook announces the commit the others index, or one of its own.
SameCommit == [j \in Jobs |-> c1]
OwnCommit == [j \in Jobs |-> IF j \in Webhooks THEN c2 ELSE c1]

\* Worker processes are interchangeable, and so are the requests that are not
\* the webhook's.
Symmetry == Permutations(Workers) \cup Permutations(Jobs \ Webhooks)
=============================================================================
