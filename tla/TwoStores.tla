----------------------------- MODULE TwoStores -----------------------------
(***************************************************************************)
(* What every writer of the code index promises about its two stores: the  *)
(* rows of code_chunks in Postgres and the points of the Qdrant collection *)
(* carry the same ids, a point is only published for a row that is there,  *)
(* and a row is only discarded once its point has been withdrawn.          *)
(***************************************************************************)
CONSTANT Ids
VARIABLES chunks, vectors

Init == chunks = {} /\ vectors = {}

Store(S) == chunks' = chunks \cup S /\ UNCHANGED vectors
Publish(S) == S \subseteq chunks /\ vectors' = vectors \cup S /\ UNCHANGED chunks
Withdraw(S) == vectors' = vectors \ S /\ UNCHANGED chunks
Discard(S) == S \cap vectors = {} /\ chunks' = chunks \ S /\ UNCHANGED vectors

Next == \E S \in SUBSET Ids : Store(S) \/ Publish(S) \/ Withdraw(S) \/ Discard(S)

Spec == Init /\ [][Next]_<<chunks, vectors>>

\* A search that hits a point finds the row with its text.
NoOrphanVectors == vectors \subseteq chunks
=============================================================================
