------------------------ MODULE IndexPipelineProofs -------------------------
(***************************************************************************)
(* Proofs about IndexPipeline, for every set of paths, contents and        *)
(* commits, every Nested relation and every budget of faults and edits:    *)
(* the two stores follow the protocol of TwoStores, and a full run leaves  *)
(* nothing behind that it did not produce.  Where no path ends with another*)
(* one, a run that met no fault leaves an index that is true to what was   *)
(* recorded of the files, but for the rows of deleted files, which outlive *)
(* their chunks; and whatever the paths, a run that stored nothing removes *)
(* nothing but the chunks of deleted files.                                *)
(***************************************************************************)
EXTENDS IndexPipeline, TLAPS

\* Points wait only for rows that are there until the cleanup starts, and no
\* row is discarded while its point is left.
StoreInv ==
    /\ NoOrphanVectors
    /\ pc \in {"record", "mark", "select", "chunk", "store", "publish"} =>
          stored \subseteq chunks
    /\ pc = "discard" => doomed \cap vectors = {}

\* In a full or repair run the cleanup dooms exactly what was not produced.
FullInv ==
    mode \in {"full", "repair"} =>
        /\ pc \in {"record", "mark", "select", "chunk"} => new = {}
        /\ pc \in {"collect", "withdraw", "discard", "snapshot", "done"} /\ new # {} =>
              stored \subseteq chunks
        /\ pc \in {"collect", "withdraw", "discard"} => stage = "all"
        /\ pc \in {"withdraw", "discard"} => doomed = chunks \ new
        /\ pc \in {"snapshot", "done"} /\ new # {} => chunks \subseteq new

\* What every step keeps besides: a run starts without chunks.
FreshInv ==
    pc \in {"record", "mark", "select", "chunk"} => new = {} /\ stored = {} /\ left = {} /\ points = {}

IndInv == TypeOK /\ FreshInv /\ StoreInv /\ FullInv

-----------------------------------------------------------------------------
LEMMA InitInv == Init => IndInv
  BY PipelineAssumption DEF Init, IndInv, TypeOK, FreshInv, StoreInv, FullInv, NoOrphanVectors, Idle, Busy, Ids

\* Where ToCleanup leads.
LEMMA CleanupEntry ==
  ASSUME NEW S, ToCleanup(S)
  PROVE  /\ stage' \in {"none", "all", "deleted", "changed"}
         /\ pc' \in {"snapshot", "collect"}
         /\ mode # "incremental" /\ S # {} => stage' = "all"
         /\ mode # "incremental" /\ S = {} => pc' = "snapshot"
         /\ mode # "incremental" /\ S # {} => pc' = "collect"
  BY DEF ToCleanup, CleanupStage

\* What the chunking step leaves.
LEMMA ChunkEntry ==
  ASSUME NEW U, Chunk(U)
  PROVE  /\ new' \subseteq Ids /\ left' = new'
         /\ stage' \in {"none", "all", "deleted", "changed"} \/ stage' = stage
         /\ pc' \in {"snapshot", "collect"} \/ pc' = "store"
         /\ pc' # "store" => new' = {}
         /\ pc' # "store" /\ mode # "incremental" => pc' = "snapshot"
  <1>1. CASE Produced(U) = {}
    BY <1>1, CleanupEntry DEF Chunk, Produced
  <1>2. CASE Produced(U) # {}
    BY <1>2 DEF Chunk, Produced
  <1> QED
    BY <1>1, <1>2

\* Types.
LEMMA StepType == TypeOK /\ FreshInv /\ [Next]_vars => TypeOK'
  <1> SUFFICES ASSUME TypeOK, FreshInv, [Next]_vars PROVE TypeOK'
    OBVIOUS
  <1> USE PipelineAssumption DEF FreshInv, TypeOK, Idle, Busy, Ids, store, files, snaps, plan, work, cleanup, budget, mood
  <1>1. ASSUME NEW c \in Commits, NEW m \in {"full", "incremental"}, BeginRun(c, m) PROVE TypeOK'
    BY <1>1 DEF BeginRun, Listed
  <1>2. ASSUME RecordFiles PROVE TypeOK'
    BY <1>2 DEF RecordFiles, Record, Known, NeedsChunking, NoFault
  <1>3. ASSUME NEW lost \in SUBSET found, RecordFilesPartly(lost) PROVE TypeOK'
    BY <1>3 DEF RecordFilesPartly, Record, Known, NeedsChunking, Fault
  <1>4. ASSUME NEW lost \in SUBSET found, RecordFilesBlindly(lost) PROVE TypeOK'
    BY <1>4 DEF RecordFilesBlindly, Record, NeedsChunking, Fault
  <1>5. ASSUME MarkDeleted PROVE TypeOK'
    BY <1>5 DEF MarkDeleted, NoFault
  <1>7. ASSUME SelectChunking PROVE TypeOK'
    BY <1>7 DEF SelectChunking, NothingToChunk, NoFault
  <1>8. ASSUME SelectNothing PROVE TypeOK'
    BY <1>8 DEF SelectNothing, NothingToChunk, NoFault
  <1>9. ASSUME SelectRepair PROVE TypeOK'
    BY <1>9 DEF SelectRepair, Repair, RepairPaths, Listed, Indexed, NothingToChunk, NoFault
  <1>10. ASSUME SelectRepairByMiscount PROVE TypeOK'
    BY <1>10 DEF SelectRepairByMiscount, Repair, RepairPaths, Listed, Indexed, NothingToChunk, Fault
  <1>11. ASSUME SelectRemoval PROVE TypeOK'
    BY <1>11 DEF SelectRemoval, NothingToChunk, NoFault
  <1>12. ASSUME ChunkFiles PROVE TypeOK'
    BY <1>12, ChunkEntry DEF ChunkFiles, Chunk, NoFault
  <1>13. ASSUME NEW unread \in SUBSET toChunk, ChunkFilesPartly(unread) PROVE TypeOK'
    BY <1>13, ChunkEntry DEF ChunkFilesPartly, Chunk, Fault
  <1>14. ASSUME NEW c \in left, StoreChunk(c) PROVE TypeOK'
    BY <1>14 DEF StoreChunk, StoreRow, NoFault
  <1>15. ASSUME NEW c \in left, StoreUnembedded(c) PROVE TypeOK'
    BY <1>15 DEF StoreUnembedded, StoreRow, Fault
  <1>16. ASSUME NEW c \in left, SkipRow(c) PROVE TypeOK'
    BY <1>16 DEF SkipRow, Fault
  <1>17. ASSUME AbortEmbedding PROVE TypeOK'
    BY <1>17 DEF AbortEmbedding, Fault
  <1>18. ASSUME StoredAll PROVE TypeOK'
    BY <1>18 DEF StoredAll, NoFault
  <1>19. ASSUME StoredNothing PROVE TypeOK'
    BY <1>19 DEF StoredNothing, NoFault
  <1>20. ASSUME StoredWithoutVectors PROVE TypeOK'
    BY <1>20, CleanupEntry DEF StoredWithoutVectors, NoFault
  <1>21. ASSUME PublishVectors PROVE TypeOK'
    BY <1>21, CleanupEntry DEF PublishVectors, NoFault
  <1>22. ASSUME NEW S \in SUBSET points, PublishFails(S) PROVE TypeOK'
    BY <1>22 DEF PublishFails, Fault
  <1>23. ASSUME Collect PROVE TypeOK'
    BY <1>23 DEF Collect, Stale, ChunksOf, NoFault
  <1>24. ASSUME WithdrawVectors PROVE TypeOK'
    BY <1>24 DEF WithdrawVectors, NoFault
  <1>25. ASSUME NEW S \in SUBSET doomed, WithdrawFails(S) PROVE TypeOK'
    BY <1>25 DEF WithdrawFails, Fault
  <1>26. ASSUME DiscardRows PROVE TypeOK'
    BY <1>26 DEF DiscardRows, MoreCleanup, NoFault
  <1>27. ASSUME DiscardFails PROVE TypeOK'
    BY <1>27 DEF DiscardFails, Fault
  <1>28. ASSUME CreateSnapshot PROVE TypeOK'
    BY <1>28 DEF CreateSnapshot, FinishRun, Rebuilt
  <1>29. ASSUME SnapshotFails PROVE TypeOK'
    BY <1>29 DEF SnapshotFails, FinishRun, Fault
  <1>30. ASSUME Crash PROVE TypeOK'
    BY <1>30 DEF Crash, Fault
  <1>31. ASSUME NEW p \in Paths, NEW s \in Contents \cup {Absent, Empty}, Edit(p, s) PROVE TypeOK'
    BY <1>31 DEF Edit
  <1>32. CASE UNCHANGED vars
    BY <1>32 DEF vars
  <1> QED
    BY <1>1, <1>2, <1>3, <1>4, <1>5, <1>7, <1>8, <1>9, <1>10, <1>11, <1>12, <1>13, <1>14, <1>15, <1>16, <1>17, <1>18, <1>19, <1>20, <1>21, <1>22, <1>23, <1>24, <1>25, <1>26, <1>27, <1>28, <1>29, <1>30, <1>31, <1>32 DEF Next, RunStep

\* A run has produced nothing before it chunks.
LEMMA StepFresh == TypeOK /\ FreshInv /\ [Next]_vars => FreshInv'
  <1> SUFFICES ASSUME TypeOK, FreshInv, [Next]_vars PROVE FreshInv'
    OBVIOUS
  <1> USE PipelineAssumption DEF FreshInv, Idle, Busy, store, files, snaps, plan, work, cleanup, budget, mood
  <1>1. ASSUME NEW c \in Commits, NEW m \in {"full", "incremental"}, BeginRun(c, m) PROVE FreshInv'
    BY <1>1 DEF BeginRun, Listed
  <1>2. ASSUME RecordFiles PROVE FreshInv'
    BY <1>2 DEF RecordFiles, Record, Known, NeedsChunking, NoFault
  <1>3. ASSUME NEW lost \in SUBSET found, RecordFilesPartly(lost) PROVE FreshInv'
    BY <1>3 DEF RecordFilesPartly, Record, Known, NeedsChunking, Fault
  <1>4. ASSUME NEW lost \in SUBSET found, RecordFilesBlindly(lost) PROVE FreshInv'
    BY <1>4 DEF RecordFilesBlindly, Record, NeedsChunking, Fault
  <1>5. ASSUME MarkDeleted PROVE FreshInv'
    BY <1>5 DEF MarkDeleted, NoFault
  <1>7. ASSUME SelectChunking PROVE FreshInv'
    BY <1>7 DEF SelectChunking, NothingToChunk, NoFault
  <1>8. ASSUME SelectNothing PROVE FreshInv'
    BY <1>8 DEF SelectNothing, NothingToChunk, NoFault
  <1>9. ASSUME SelectRepair PROVE FreshInv'
    BY <1>9 DEF SelectRepair, Repair, RepairPaths, Listed, Indexed, NothingToChunk, NoFault
  <1>10. ASSUME SelectRepairByMiscount PROVE FreshInv'
    BY <1>10 DEF SelectRepairByMiscount, Repair, RepairPaths, Listed, Indexed, NothingToChunk, Fault
  <1>11. ASSUME SelectRemoval PROVE FreshInv'
    BY <1>11 DEF SelectRemoval, NothingToChunk, NoFault
  <1>12. ASSUME ChunkFiles PROVE FreshInv'
    BY <1>12, ChunkEntry DEF ChunkFiles, Chunk, NoFault
  <1>13. ASSUME NEW unread \in SUBSET toChunk, ChunkFilesPartly(unread) PROVE FreshInv'
    BY <1>13, ChunkEntry DEF ChunkFilesPartly, Chunk, Fault
  <1>14. ASSUME NEW c \in left, StoreChunk(c) PROVE FreshInv'
    BY <1>14 DEF StoreChunk, StoreRow, NoFault
  <1>15. ASSUME NEW c \in left, StoreUnembedded(c) PROVE FreshInv'
    BY <1>15 DEF StoreUnembedded, StoreRow, Fault
  <1>16. ASSUME NEW c \in left, SkipRow(c) PROVE FreshInv'
    BY <1>16 DEF SkipRow, Fault
  <1>17. ASSUME AbortEmbedding PROVE FreshInv'
    BY <1>17 DEF AbortEmbedding, Fault
  <1>18. ASSUME StoredAll PROVE FreshInv'
    BY <1>18 DEF StoredAll, NoFault
  <1>19. ASSUME StoredNothing PROVE FreshInv'
    BY <1>19 DEF StoredNothing, NoFault
  <1>20. ASSUME StoredWithoutVectors PROVE FreshInv'
    BY <1>20, CleanupEntry DEF StoredWithoutVectors, NoFault
  <1>21. ASSUME PublishVectors PROVE FreshInv'
    BY <1>21, CleanupEntry DEF PublishVectors, NoFault
  <1>22. ASSUME NEW S \in SUBSET points, PublishFails(S) PROVE FreshInv'
    BY <1>22 DEF PublishFails, Fault
  <1>23. ASSUME Collect PROVE FreshInv'
    BY <1>23 DEF Collect, Stale, ChunksOf, NoFault
  <1>24. ASSUME WithdrawVectors PROVE FreshInv'
    BY <1>24 DEF WithdrawVectors, NoFault
  <1>25. ASSUME NEW S \in SUBSET doomed, WithdrawFails(S) PROVE FreshInv'
    BY <1>25 DEF WithdrawFails, Fault
  <1>26. ASSUME DiscardRows PROVE FreshInv'
    BY <1>26 DEF DiscardRows, MoreCleanup, NoFault
  <1>27. ASSUME DiscardFails PROVE FreshInv'
    BY <1>27 DEF DiscardFails, Fault
  <1>28. ASSUME CreateSnapshot PROVE FreshInv'
    BY <1>28 DEF CreateSnapshot, FinishRun, Rebuilt
  <1>29. ASSUME SnapshotFails PROVE FreshInv'
    BY <1>29 DEF SnapshotFails, FinishRun, Fault
  <1>30. ASSUME Crash PROVE FreshInv'
    BY <1>30 DEF Crash, Fault
  <1>31. ASSUME NEW p \in Paths, NEW s \in Contents \cup {Absent, Empty}, Edit(p, s) PROVE FreshInv'
    BY <1>31 DEF Edit
  <1>32. CASE UNCHANGED vars
    BY <1>32 DEF vars
  <1> QED
    BY <1>1, <1>2, <1>3, <1>4, <1>5, <1>7, <1>8, <1>9, <1>10, <1>11, <1>12, <1>13, <1>14, <1>15, <1>16, <1>17, <1>18, <1>19, <1>20, <1>21, <1>22, <1>23, <1>24, <1>25, <1>26, <1>27, <1>28, <1>29, <1>30, <1>31, <1>32 DEF Next, RunStep

\* The stores.
LEMMA StepStore == TypeOK /\ FreshInv /\ StoreInv /\ [Next]_vars => StoreInv'
  <1> SUFFICES ASSUME TypeOK, FreshInv, StoreInv, [Next]_vars PROVE StoreInv'
    OBVIOUS
  <1> USE PipelineAssumption DEF TypeOK, FreshInv, StoreInv, NoOrphanVectors, Idle, Busy, store, files, snaps, plan, work, cleanup, budget, mood
  <1>1. ASSUME NEW c \in Commits, NEW m \in {"full", "incremental"}, BeginRun(c, m) PROVE StoreInv'
    BY <1>1 DEF BeginRun, Listed
  <1>2. ASSUME RecordFiles PROVE StoreInv'
    BY <1>2 DEF RecordFiles, Record, Known, NeedsChunking, NoFault
  <1>3. ASSUME NEW lost \in SUBSET found, RecordFilesPartly(lost) PROVE StoreInv'
    BY <1>3 DEF RecordFilesPartly, Record, Known, NeedsChunking, Fault
  <1>4. ASSUME NEW lost \in SUBSET found, RecordFilesBlindly(lost) PROVE StoreInv'
    BY <1>4 DEF RecordFilesBlindly, Record, NeedsChunking, Fault
  <1>5. ASSUME MarkDeleted PROVE StoreInv'
    BY <1>5 DEF MarkDeleted, NoFault
  <1>7. ASSUME SelectChunking PROVE StoreInv'
    BY <1>7 DEF SelectChunking, NothingToChunk, NoFault
  <1>8. ASSUME SelectNothing PROVE StoreInv'
    BY <1>8 DEF SelectNothing, NothingToChunk, NoFault
  <1>9. ASSUME SelectRepair PROVE StoreInv'
    BY <1>9 DEF SelectRepair, Repair, RepairPaths, Listed, Indexed, NothingToChunk, NoFault
  <1>10. ASSUME SelectRepairByMiscount PROVE StoreInv'
    BY <1>10 DEF SelectRepairByMiscount, Repair, RepairPaths, Listed, Indexed, NothingToChunk, Fault
  <1>11. ASSUME SelectRemoval PROVE StoreInv'
    BY <1>11 DEF SelectRemoval, NothingToChunk, NoFault
  <1>12. ASSUME ChunkFiles PROVE StoreInv'
    BY <1>12, ChunkEntry DEF ChunkFiles, Chunk, NoFault
  <1>13. ASSUME NEW unread \in SUBSET toChunk, ChunkFilesPartly(unread) PROVE StoreInv'
    BY <1>13, ChunkEntry DEF ChunkFilesPartly, Chunk, Fault
  <1>14. ASSUME NEW c \in left, StoreChunk(c) PROVE StoreInv'
    BY <1>14 DEF StoreChunk, StoreRow, NoFault
  <1>15. ASSUME NEW c \in left, StoreUnembedded(c) PROVE StoreInv'
    BY <1>15 DEF StoreUnembedded, StoreRow, Fault
  <1>16. ASSUME NEW c \in left, SkipRow(c) PROVE StoreInv'
    BY <1>16 DEF SkipRow, Fault
  <1>17. ASSUME AbortEmbedding PROVE StoreInv'
    BY <1>17 DEF AbortEmbedding, Fault
  <1>18. ASSUME StoredAll PROVE StoreInv'
    BY <1>18 DEF StoredAll, NoFault
  <1>19. ASSUME StoredNothing PROVE StoreInv'
    BY <1>19 DEF StoredNothing, NoFault
  <1>20. ASSUME StoredWithoutVectors PROVE StoreInv'
    BY <1>20, CleanupEntry DEF StoredWithoutVectors, NoFault
  <1>21. ASSUME PublishVectors PROVE StoreInv'
    BY <1>21, CleanupEntry DEF PublishVectors, NoFault
  <1>22. ASSUME NEW S \in SUBSET points, PublishFails(S) PROVE StoreInv'
    BY <1>22 DEF PublishFails, Fault
  <1>23. ASSUME Collect PROVE StoreInv'
    BY <1>23 DEF Collect, Stale, ChunksOf, NoFault
  <1>24. ASSUME WithdrawVectors PROVE StoreInv'
    BY <1>24 DEF WithdrawVectors, NoFault
  <1>25. ASSUME NEW S \in SUBSET doomed, WithdrawFails(S) PROVE StoreInv'
    BY <1>25 DEF WithdrawFails, Fault
  <1>26. ASSUME DiscardRows PROVE StoreInv'
    BY <1>26 DEF DiscardRows, MoreCleanup, NoFault
  <1>27. ASSUME DiscardFails PROVE StoreInv'
    BY <1>27 DEF DiscardFails, Fault
  <1>28. ASSUME CreateSnapshot PROVE StoreInv'
    BY <1>28 DEF CreateSnapshot, FinishRun, Rebuilt
  <1>29. ASSUME SnapshotFails PROVE StoreInv'
    BY <1>29 DEF SnapshotFails, FinishRun, Fault
  <1>30. ASSUME Crash PROVE StoreInv'
    BY <1>30 DEF Crash, Fault
  <1>31. ASSUME NEW p \in Paths, NEW s \in Contents \cup {Absent, Empty}, Edit(p, s) PROVE StoreInv'
    BY <1>31 DEF Edit
  <1>32. CASE UNCHANGED vars
    BY <1>32 DEF vars
  <1> QED
    BY <1>1, <1>2, <1>3, <1>4, <1>5, <1>7, <1>8, <1>9, <1>10, <1>11, <1>12, <1>13, <1>14, <1>15, <1>16, <1>17, <1>18, <1>19, <1>20, <1>21, <1>22, <1>23, <1>24, <1>25, <1>26, <1>27, <1>28, <1>29, <1>30, <1>31, <1>32 DEF Next, RunStep

\* Full runs.
LEMMA StepFull == TypeOK /\ FreshInv /\ StoreInv /\ FullInv /\ [Next]_vars => FullInv'
  <1> SUFFICES ASSUME TypeOK, FreshInv, StoreInv, FullInv, [Next]_vars PROVE FullInv'
    OBVIOUS
  <1> USE PipelineAssumption DEF TypeOK, FreshInv, StoreInv, FullInv, Idle, Busy, store, files, snaps, plan, work, cleanup, budget, mood
  <1>1. ASSUME NEW c \in Commits, NEW m \in {"full", "incremental"}, BeginRun(c, m) PROVE FullInv'
    BY <1>1 DEF BeginRun, Listed
  <1>2. ASSUME RecordFiles PROVE FullInv'
    BY <1>2 DEF RecordFiles, Record, Known, NeedsChunking, NoFault
  <1>3. ASSUME NEW lost \in SUBSET found, RecordFilesPartly(lost) PROVE FullInv'
    BY <1>3 DEF RecordFilesPartly, Record, Known, NeedsChunking, Fault
  <1>4. ASSUME NEW lost \in SUBSET found, RecordFilesBlindly(lost) PROVE FullInv'
    BY <1>4 DEF RecordFilesBlindly, Record, NeedsChunking, Fault
  <1>5. ASSUME MarkDeleted PROVE FullInv'
    BY <1>5 DEF MarkDeleted, NoFault
  <1>7. ASSUME SelectChunking PROVE FullInv'
    BY <1>7 DEF SelectChunking, NothingToChunk, NoFault
  <1>8. ASSUME SelectNothing PROVE FullInv'
    BY <1>8 DEF SelectNothing, NothingToChunk, NoFault
  <1>9. ASSUME SelectRepair PROVE FullInv'
    BY <1>9 DEF SelectRepair, Repair, RepairPaths, Listed, Indexed, NothingToChunk, NoFault
  <1>10. ASSUME SelectRepairByMiscount PROVE FullInv'
    BY <1>10 DEF SelectRepairByMiscount, Repair, RepairPaths, Listed, Indexed, NothingToChunk, Fault
  <1>11. ASSUME SelectRemoval PROVE FullInv'
    BY <1>11 DEF SelectRemoval, NothingToChunk, NoFault
  <1>12. ASSUME ChunkFiles PROVE FullInv'
    BY <1>12, ChunkEntry DEF ChunkFiles, Chunk, NoFault
  <1>13. ASSUME NEW unread \in SUBSET toChunk, ChunkFilesPartly(unread) PROVE FullInv'
    BY <1>13, ChunkEntry DEF ChunkFilesPartly, Chunk, Fault
  <1>14. ASSUME NEW c \in left, StoreChunk(c) PROVE FullInv'
    BY <1>14 DEF StoreChunk, StoreRow, NoFault
  <1>15. ASSUME NEW c \in left, StoreUnembedded(c) PROVE FullInv'
    BY <1>15 DEF StoreUnembedded, StoreRow, Fault
  <1>16. ASSUME NEW c \in left, SkipRow(c) PROVE FullInv'
    BY <1>16 DEF SkipRow, Fault
  <1>17. ASSUME AbortEmbedding PROVE FullInv'
    BY <1>17 DEF AbortEmbedding, Fault
  <1>18. ASSUME StoredAll PROVE FullInv'
    BY <1>18 DEF StoredAll, NoFault
  <1>19. ASSUME StoredNothing PROVE FullInv'
    BY <1>19 DEF StoredNothing, NoFault
  <1>20. ASSUME StoredWithoutVectors PROVE FullInv'
    BY <1>20, CleanupEntry DEF StoredWithoutVectors, NoFault
  <1>21. ASSUME PublishVectors PROVE FullInv'
    BY <1>21, CleanupEntry DEF PublishVectors, NoFault
  <1>22. ASSUME NEW S \in SUBSET points, PublishFails(S) PROVE FullInv'
    BY <1>22 DEF PublishFails, Fault
  <1>23. ASSUME Collect PROVE FullInv'
    BY <1>23 DEF Collect, Stale, ChunksOf, NoFault
  <1>24. ASSUME WithdrawVectors PROVE FullInv'
    BY <1>24 DEF WithdrawVectors, NoFault
  <1>25. ASSUME NEW S \in SUBSET doomed, WithdrawFails(S) PROVE FullInv'
    BY <1>25 DEF WithdrawFails, Fault
  <1>26. ASSUME DiscardRows PROVE FullInv'
    BY <1>26 DEF DiscardRows, MoreCleanup, NoFault
  <1>27. ASSUME DiscardFails PROVE FullInv'
    BY <1>27 DEF DiscardFails, Fault
  <1>28. ASSUME CreateSnapshot PROVE FullInv'
    BY <1>28 DEF CreateSnapshot, FinishRun, Rebuilt
  <1>29. ASSUME SnapshotFails PROVE FullInv'
    BY <1>29 DEF SnapshotFails, FinishRun, Fault
  <1>30. ASSUME Crash PROVE FullInv'
    BY <1>30 DEF Crash, Fault
  <1>31. ASSUME NEW p \in Paths, NEW s \in Contents \cup {Absent, Empty}, Edit(p, s) PROVE FullInv'
    BY <1>31 DEF Edit
  <1>32. CASE UNCHANGED vars
    BY <1>32 DEF vars
  <1> QED
    BY <1>1, <1>2, <1>3, <1>4, <1>5, <1>7, <1>8, <1>9, <1>10, <1>11, <1>12, <1>13, <1>14, <1>15, <1>16, <1>17, <1>18, <1>19, <1>20, <1>21, <1>22, <1>23, <1>24, <1>25, <1>26, <1>27, <1>28, <1>29, <1>30, <1>31, <1>32 DEF Next, RunStep

\* The inductive invariant holds of every run of the indexing pipeline.
THEOREM Inductive == Spec => []IndInv
  <1>1. Init => IndInv
    BY InitInv
  <1>2. IndInv /\ [Next]_vars => IndInv'
    BY StepType, StepFresh, StepStore, StepFull DEF IndInv
  <1> QED
    BY <1>1, <1>2, PTL DEF Spec

-----------------------------------------------------------------------------
\* The variables of a pipeline stay in their types.
THEOREM TypeCorrect == Spec => []TypeOK
  BY Inductive, PTL DEF IndInv

\* Every point of Qdrant has its row in Postgres, at every moment.
THEOREM VectorsHaveRows == Spec => []NoOrphanVectors
  <1>1. IndInv => NoOrphanVectors
    BY DEF IndInv, StoreInv
  <1> QED
    BY <1>1, Inductive, PTL

\* A full or repair run that reached its end with chunks rebuilt both stores.
THEOREM FullRunsRebuild == Spec => []FullRunRebuilds
  <1>1. IndInv => FullRunRebuilds
    BY DEF IndInv, FullInv, StoreInv, NoOrphanVectors, FullRunRebuilds
  <1> QED
    BY <1>1, Inductive, PTL

-----------------------------------------------------------------------------
\* Each step of the pipeline is a step of the protocol, or leaves both stores.
LEMMA StepRefines == IndInv /\ [Next]_vars => [Stores!Next]_<<chunks, vectors>>
  <1> SUFFICES ASSUME IndInv, [Next]_vars PROVE [Stores!Next]_<<chunks, vectors>>
    OBVIOUS
  <1> USE DEF IndInv, TypeOK, Idle, Busy, store, files, snaps, plan, work, cleanup, budget, mood
  <1>1. ASSUME NEW c \in Commits, NEW m \in {"full", "incremental"}, BeginRun(c, m) PROVE UNCHANGED <<chunks, vectors>>
    BY <1>1 DEF BeginRun, Listed
  <1>2. ASSUME RecordFiles PROVE UNCHANGED <<chunks, vectors>>
    BY <1>2 DEF RecordFiles, Record, Known, NeedsChunking, NoFault
  <1>3. ASSUME NEW lost \in SUBSET found, RecordFilesPartly(lost) PROVE UNCHANGED <<chunks, vectors>>
    BY <1>3 DEF RecordFilesPartly, Record, Known, NeedsChunking, Fault
  <1>4. ASSUME NEW lost \in SUBSET found, RecordFilesBlindly(lost) PROVE UNCHANGED <<chunks, vectors>>
    BY <1>4 DEF RecordFilesBlindly, Record, NeedsChunking, Fault
  <1>5. ASSUME MarkDeleted PROVE UNCHANGED <<chunks, vectors>>
    BY <1>5 DEF MarkDeleted, NoFault
  <1>7. ASSUME SelectChunking PROVE UNCHANGED <<chunks, vectors>>
    BY <1>7 DEF SelectChunking, NothingToChunk, NoFault
  <1>8. ASSUME SelectNothing PROVE UNCHANGED <<chunks, vectors>>
    BY <1>8 DEF SelectNothing, NothingToChunk, NoFault
  <1>9. ASSUME SelectRepair PROVE UNCHANGED <<chunks, vectors>>
    BY <1>9 DEF SelectRepair, Repair, RepairPaths, Listed, Indexed, NothingToChunk, NoFault
  <1>10. ASSUME SelectRepairByMiscount PROVE UNCHANGED <<chunks, vectors>>
    BY <1>10 DEF SelectRepairByMiscount, Repair, RepairPaths, Listed, Indexed, NothingToChunk, Fault
  <1>11. ASSUME SelectRemoval PROVE UNCHANGED <<chunks, vectors>>
    BY <1>11 DEF SelectRemoval, NothingToChunk, NoFault
  <1>12. ASSUME ChunkFiles PROVE UNCHANGED <<chunks, vectors>>
    BY <1>12 DEF ChunkFiles, Chunk, NoFault
  <1>13. ASSUME NEW unread \in SUBSET toChunk, ChunkFilesPartly(unread) PROVE UNCHANGED <<chunks, vectors>>
    BY <1>13 DEF ChunkFilesPartly, Chunk, Fault
  <1>14. ASSUME NEW c \in left, StoreChunk(c) PROVE Stores!Next
    <2>1. {c} \in SUBSET Ids
      BY <1>14
    <2>2. Stores!Store({c})
      BY <1>14 DEF StoreChunk, StoreRow, NoFault, Stores!Store, StoreInv, NoOrphanVectors
    <2> QED
      BY <2>1, <2>2 DEF Stores!Next
  <1>15. ASSUME NEW c \in left, StoreUnembedded(c) PROVE Stores!Next
    <2>1. {c} \in SUBSET Ids
      BY <1>15
    <2>2. Stores!Store({c})
      BY <1>15 DEF StoreUnembedded, StoreRow, Fault, Stores!Store, StoreInv, NoOrphanVectors
    <2> QED
      BY <2>1, <2>2 DEF Stores!Next
  <1>16. ASSUME NEW c \in left, SkipRow(c) PROVE UNCHANGED <<chunks, vectors>>
    BY <1>16 DEF SkipRow, Fault
  <1>17. ASSUME AbortEmbedding PROVE UNCHANGED <<chunks, vectors>>
    BY <1>17 DEF AbortEmbedding, Fault
  <1>18. ASSUME StoredAll PROVE UNCHANGED <<chunks, vectors>>
    BY <1>18 DEF StoredAll, NoFault
  <1>19. ASSUME StoredNothing PROVE UNCHANGED <<chunks, vectors>>
    BY <1>19 DEF StoredNothing, NoFault
  <1>20. ASSUME StoredWithoutVectors PROVE UNCHANGED <<chunks, vectors>>
    BY <1>20 DEF StoredWithoutVectors, NoFault
  <1>21. ASSUME PublishVectors PROVE Stores!Next
    <2>1. points \in SUBSET Ids
      BY <1>21
    <2>2. Stores!Publish(points)
      BY <1>21 DEF PublishVectors, NoFault, Stores!Publish, StoreInv, NoOrphanVectors
    <2> QED
      BY <2>1, <2>2 DEF Stores!Next
  <1>22. ASSUME NEW S \in SUBSET points, PublishFails(S) PROVE Stores!Next
    <2>1. S \in SUBSET Ids
      BY <1>22
    <2>2. Stores!Publish(S)
      BY <1>22 DEF PublishFails, Fault, Stores!Publish, StoreInv, NoOrphanVectors
    <2> QED
      BY <2>1, <2>2 DEF Stores!Next
  <1>23. ASSUME Collect PROVE UNCHANGED <<chunks, vectors>>
    BY <1>23 DEF Collect, Stale, ChunksOf, NoFault
  <1>24. ASSUME WithdrawVectors PROVE Stores!Next
    <2>1. doomed \in SUBSET Ids
      BY <1>24
    <2>2. Stores!Withdraw(doomed)
      BY <1>24 DEF WithdrawVectors, NoFault, Stores!Withdraw, StoreInv, NoOrphanVectors
    <2> QED
      BY <2>1, <2>2 DEF Stores!Next
  <1>25. ASSUME NEW S \in SUBSET doomed, WithdrawFails(S) PROVE Stores!Next
    <2>1. S \in SUBSET Ids
      BY <1>25
    <2>2. Stores!Withdraw(S)
      BY <1>25 DEF WithdrawFails, Fault, Stores!Withdraw, StoreInv, NoOrphanVectors
    <2> QED
      BY <2>1, <2>2 DEF Stores!Next
  <1>26. ASSUME DiscardRows PROVE Stores!Next
    <2>1. doomed \in SUBSET Ids
      BY <1>26
    <2>2. Stores!Discard(doomed)
      BY <1>26 DEF DiscardRows, MoreCleanup, NoFault, Stores!Discard, StoreInv, NoOrphanVectors
    <2> QED
      BY <2>1, <2>2 DEF Stores!Next
  <1>27. ASSUME DiscardFails PROVE UNCHANGED <<chunks, vectors>>
    BY <1>27 DEF DiscardFails, Fault
  <1>28. ASSUME CreateSnapshot PROVE UNCHANGED <<chunks, vectors>>
    BY <1>28 DEF CreateSnapshot, FinishRun, Rebuilt
  <1>29. ASSUME SnapshotFails PROVE UNCHANGED <<chunks, vectors>>
    BY <1>29 DEF SnapshotFails, FinishRun, Fault
  <1>30. ASSUME Crash PROVE UNCHANGED <<chunks, vectors>>
    BY <1>30 DEF Crash, Fault
  <1>31. ASSUME NEW p \in Paths, NEW s \in Contents \cup {Absent, Empty}, Edit(p, s) PROVE UNCHANGED <<chunks, vectors>>
    BY <1>31 DEF Edit
  <1>32. CASE UNCHANGED vars
    BY <1>32 DEF vars
  <1> QED
    BY <1>1, <1>2, <1>3, <1>4, <1>5, <1>7, <1>8, <1>9, <1>10, <1>11, <1>12, <1>13, <1>14, <1>15, <1>16, <1>17, <1>18, <1>19, <1>20, <1>21, <1>22, <1>23, <1>24, <1>25, <1>26, <1>27, <1>28, <1>29, <1>30, <1>31, <1>32 DEF Next, RunStep

\* The pipeline implements the protocol of the two stores.
THEOREM ImplementsTwoStores == Spec => TwoStoresSpec
  <1>1. Init => Stores!Init
    BY DEF Init, Stores!Init
  <1> QED
    BY <1>1, StepRefines, Inductive, PTL DEF Spec, TwoStoresSpec, Stores!Spec

-----------------------------------------------------------------------------
(* Runs that meet no fault, and runs that store nothing *)

\* What a file is found under, point by point (ContentsAt says the same of sets).
FoundAs(p, h) ==
    /\ \A c \in chunks : PathOf(c) = p => ContentOf(c) = h
    /\ \E c \in chunks : PathOf(c) = p
NotFound(p) == \A c \in chunks : PathOf(c) # p
FaithfulAt(p) ==
    fileStatus[p] = "INDEXED" =>
        IF p \in gone THEN NotFound(p) ELSE FoundAs(p, fileHash[p])

\* A hash is recorded with the status, and only a clean state is unhurt.
HashInv ==
    /\ \A p \in Paths : /\ fileStatus[p] = "SKIPPED" => fileHash[p] = NoHash
                        /\ fileStatus[p] = "INDEXED" => fileHash[p] \in Contents
    /\ hurt = "yes" => health = "dirty"

Reading == {"mark", "select", "chunk"}
Writing == {"store", "publish"}
Cleaning == {"collect", "withdraw", "discard"}

\* What an unhurt run knows of the files.
FilesInv ==
    pc \in Busy /\ hurt = "no" =>
        /\ pc \in {"record"} \cup Reading => found = Listed
        /\ mode # "none"
        /\ pc \in {"record", "mark", "select"} => changed = {} /\ mode # "repair"
        /\ pc \in Reading => \A p \in found :
              IF disk[p] \in Contents THEN fileStatus[p] = "INDEXED" /\ fileHash[p] = disk[p]
                                      ELSE fileStatus[p] = "SKIPPED"
        /\ pc # "record" =>
              /\ toChunk \subseteq found /\ deleted \cap found = {}
              /\ \A p \in Paths \ found : fileStatus[p] = "none" \/ p \in deleted
              /\ \A p \in toChunk : fileStatus[p] = "INDEXED"
              /\ mode # "incremental" =>
                    \A p \in found : fileStatus[p] = "INDEXED" => p \in toChunk
        /\ pc \in {"chunk", "snapshot"} \cup Writing \cup Cleaning => changed = toChunk

\* What an unhurt run has produced and stored.
ChunksInv ==
    pc \in Writing \cup Cleaning \cup {"snapshot"} /\ hurt = "no" =>
        /\ \A c \in new : /\ PathOf(c) \in toChunk /\ fileStatus[PathOf(c)] = "INDEXED"
                          /\ ContentOf(c) = fileHash[PathOf(c)]
        /\ \A p \in toChunk : fileStatus[p] = "INDEXED" => \E c \in new : PathOf(c) = p
        /\ pc \in Writing => new # {} /\ stored = points /\ left \cup stored = new
        /\ pc = "publish" => left = {}
        /\ pc \in Cleaning \cup {"snapshot"} => stored = new /\ new \subseteq chunks \cap vectors
        /\ \A c \in stored : PathOf(c) \notin gone
        /\ pc = "snapshot" /\ mode # "incremental" /\ new # {} => deleted \subseteq gone

\* What the cleanup of an unhurt run is about to remove.
DoomedInv ==
    pc \in Cleaning /\ hurt = "no" =>
        /\ mode # "incremental" => stage = "all" /\ new # {}
        /\ mode = "incremental" => stage = "deleted" \/ (stage = "changed" /\ new # {})
        /\ pc \in {"withdraw", "discard"} =>
              doomed = {c \in chunks :
                          CASE stage = "deleted" -> PathOf(c) \in deleted
                            [] stage = "changed" -> PathOf(c) \in toChunk /\ c \notin new
                            [] OTHER -> c \notin new}

\* What a run on a clean index leaves as it was, and what it has settled.
CleanInv ==
    pc \in Busy /\ health = "clean" =>
        /\ pc = "record" => \A p \in Paths : FaithfulAt(p)
        /\ pc # "record" => \A p \in Paths \ toChunk : FaithfulAt(p)
        /\ pc \in {"record", "collect", "withdraw", "snapshot"} \cup Reading => vectors = chunks
        /\ pc \in Writing => vectors \cup stored = chunks
        /\ pc = "discard" => vectors = chunks \ doomed
        /\ pc = "snapshot" => \A p \in toChunk : FoundAs(p, fileHash[p])

IdleInv == pc \in Idle /\ health = "clean" => vectors = chunks /\ \A p \in Paths : FaithfulAt(p)
Settled == FilesInv /\ ChunksInv /\ DoomedInv /\ CleanInv /\ IdleInv

-----------------------------------------------------------------------------
LEMMA BeginRunKeeps ==
  ASSUME Nested = {}, IndInv, HashInv, Settled, NEW c \in Commits, NEW m \in {"full", "incremental"}, BeginRun(c, m)
  PROVE  Settled'
  <1> USE PipelineAssumption DEF IndInv, TypeOK, Idle, Busy, FreshInv, store, files, snaps, plan, work, cleanup, budget, mood, Reading, Writing, Cleaning, Settled, HashInv
  <1> USE DEF BeginRun, Listed
  <1>1. FilesInv'
    BY DEF FilesInv
  <1>2. ChunksInv'
    BY DEF ChunksInv, FilesInv, StoreInv
  <1>3. DoomedInv'
    BY DEF DoomedInv, FilesInv, ChunksInv
  <1>4. CleanInv'
    BY DEF CleanInv, FilesInv, ChunksInv, DoomedInv, IdleInv, FaithfulAt, FoundAs, NotFound, StoreInv, NoOrphanVectors
  <1>5. IdleInv'
    BY DEF IdleInv, FilesInv, ChunksInv, DoomedInv, CleanInv, FaithfulAt, FoundAs, NotFound, StoreInv, NoOrphanVectors
  <1> QED
    BY <1>1, <1>2, <1>3, <1>4, <1>5

LEMMA RecordFilesKeeps ==
  ASSUME Nested = {}, IndInv, HashInv, Settled, RecordFiles
  PROVE  Settled'
  <1> USE PipelineAssumption DEF IndInv, TypeOK, Idle, Busy, FreshInv, store, files, snaps, plan, work, cleanup, budget, mood, Reading, Writing, Cleaning, Settled, HashInv
  <1> USE DEF RecordFiles, Record, Known, NeedsChunking, NoFault, Listed
  <1>1. FilesInv'
    <2>0. pc' = "mark" /\ found' = found /\ disk' = disk /\ hurt' = hurt /\ mode' = mode /\ changed' = changed
      OBVIOUS
    <2>1. hurt = "no" => found = Listed /\ changed = {} /\ mode \notin {"repair", "none"}
      BY DEF FilesInv
    <2>2. \A p \in found : IF disk[p] \in Contents THEN fileStatus'[p] = "INDEXED" /\ fileHash'[p] = disk[p]
                                                  ELSE fileStatus'[p] = "SKIPPED"
      OBVIOUS
    <2>3. toChunk' \subseteq found /\ deleted' \cap found = {}
      OBVIOUS
    <2>4. \A p \in Paths \ found : fileStatus'[p] = "none" \/ p \in deleted'
      OBVIOUS
    <2>5. \A p \in toChunk' : fileStatus'[p] = "INDEXED"
      OBVIOUS
    <2>6. hurt = "no" /\ mode # "incremental" => \A p \in found : fileStatus'[p] = "INDEXED" => p \in toChunk'
      BY DEF FilesInv
    <2> HIDE DEF RecordFiles, Record, Known, NeedsChunking, NoFault
    <2> QED
      BY <2>0, <2>1, <2>2, <2>3, <2>4, <2>5, <2>6 DEF FilesInv
  <1>2. ChunksInv'
    BY DEF ChunksInv, FilesInv, StoreInv
  <1>3. DoomedInv'
    BY DEF DoomedInv, FilesInv, ChunksInv
  <1>4. CleanInv'
    BY DEF CleanInv, FilesInv, ChunksInv, DoomedInv, IdleInv, FaithfulAt, FoundAs, NotFound, StoreInv, NoOrphanVectors
  <1>5. IdleInv'
    BY DEF IdleInv, FilesInv, ChunksInv, DoomedInv, CleanInv, FaithfulAt, FoundAs, NotFound, StoreInv, NoOrphanVectors
  <1> QED
    BY <1>1, <1>2, <1>3, <1>4, <1>5

LEMMA MarkDeletedKeeps ==
  ASSUME Nested = {}, IndInv, HashInv, Settled, MarkDeleted
  PROVE  Settled'
  <1> USE PipelineAssumption DEF IndInv, TypeOK, Idle, Busy, FreshInv, store, files, snaps, plan, work, cleanup, budget, mood, Reading, Writing, Cleaning, Settled, HashInv
  <1> USE DEF MarkDeleted, NoFault, Listed
  <1>1. FilesInv'
    BY DEF FilesInv
  <1>2. ChunksInv'
    BY DEF ChunksInv, FilesInv, StoreInv
  <1>3. DoomedInv'
    BY DEF DoomedInv, FilesInv, ChunksInv
  <1>4. CleanInv'
    BY DEF CleanInv, FilesInv, ChunksInv, DoomedInv, IdleInv, FaithfulAt, FoundAs, NotFound, StoreInv, NoOrphanVectors
  <1>5. IdleInv'
    BY DEF IdleInv, FilesInv, ChunksInv, DoomedInv, CleanInv, FaithfulAt, FoundAs, NotFound, StoreInv, NoOrphanVectors
  <1> QED
    BY <1>1, <1>2, <1>3, <1>4, <1>5

LEMMA SelectChunkingKeeps ==
  ASSUME Nested = {}, IndInv, HashInv, Settled, SelectChunking
  PROVE  Settled'
  <1> USE PipelineAssumption DEF IndInv, TypeOK, Idle, Busy, FreshInv, store, files, snaps, plan, work, cleanup, budget, mood, Reading, Writing, Cleaning, Settled, HashInv
  <1> USE DEF SelectChunking, NothingToChunk, NoFault, Listed
  <1>1. FilesInv'
    BY DEF FilesInv
  <1>2. ChunksInv'
    BY DEF ChunksInv, FilesInv, StoreInv
  <1>3. DoomedInv'
    BY DEF DoomedInv, FilesInv, ChunksInv
  <1>4. CleanInv'
    BY DEF CleanInv, FilesInv, ChunksInv, DoomedInv, IdleInv, FaithfulAt, FoundAs, NotFound, StoreInv, NoOrphanVectors
  <1>5. IdleInv'
    BY DEF IdleInv, FilesInv, ChunksInv, DoomedInv, CleanInv, FaithfulAt, FoundAs, NotFound, StoreInv, NoOrphanVectors
  <1> QED
    BY <1>1, <1>2, <1>3, <1>4, <1>5

LEMMA SelectNothingKeeps ==
  ASSUME Nested = {}, IndInv, HashInv, Settled, SelectNothing
  PROVE  Settled'
  <1> USE PipelineAssumption DEF IndInv, TypeOK, Idle, Busy, FreshInv, store, files, snaps, plan, work, cleanup, budget, mood, Reading, Writing, Cleaning, Settled, HashInv
  <1> USE DEF SelectNothing, NothingToChunk, Indexed, NoFault, Listed
  <1>1. FilesInv'
    BY DEF FilesInv
  <1>2. ChunksInv'
    BY DEF ChunksInv, FilesInv, StoreInv
  <1>3. DoomedInv'
    BY DEF DoomedInv, FilesInv, ChunksInv
  <1>4. CleanInv'
    BY DEF CleanInv, FilesInv, ChunksInv, DoomedInv, IdleInv, FaithfulAt, FoundAs, NotFound, StoreInv, NoOrphanVectors
  <1>5. IdleInv'
    BY DEF IdleInv, FilesInv, ChunksInv, DoomedInv, CleanInv, FaithfulAt, FoundAs, NotFound, StoreInv, NoOrphanVectors
  <1> QED
    BY <1>1, <1>2, <1>3, <1>4, <1>5

LEMMA SelectRepairKeeps ==
  ASSUME Nested = {}, IndInv, HashInv, Settled, SelectRepair
  PROVE  Settled'
  <1> USE PipelineAssumption DEF IndInv, TypeOK, Idle, Busy, FreshInv, store, files, snaps, plan, work, cleanup, budget, mood, Reading, Writing, Cleaning, Settled, HashInv
  <1> USE DEF SelectRepair, Repair, RepairPaths, Listed, Indexed, NothingToChunk, NoFault
  <1>1. FilesInv'
    BY DEF FilesInv
  <1>2. ChunksInv'
    BY DEF ChunksInv, FilesInv, StoreInv
  <1>3. DoomedInv'
    BY DEF DoomedInv, FilesInv, ChunksInv
  <1>4. CleanInv'
    BY DEF CleanInv, FilesInv, ChunksInv, DoomedInv, IdleInv, FaithfulAt, FoundAs, NotFound, StoreInv, NoOrphanVectors
  <1>5. IdleInv'
    BY DEF IdleInv, FilesInv, ChunksInv, DoomedInv, CleanInv, FaithfulAt, FoundAs, NotFound, StoreInv, NoOrphanVectors
  <1> QED
    BY <1>1, <1>2, <1>3, <1>4, <1>5

LEMMA SelectRemovalKeeps ==
  ASSUME Nested = {}, IndInv, HashInv, Settled, SelectRemoval
  PROVE  Settled'
  <1> USE PipelineAssumption DEF IndInv, TypeOK, Idle, Busy, FreshInv, store, files, snaps, plan, work, cleanup, budget, mood, Reading, Writing, Cleaning, Settled, HashInv
  <1> USE DEF SelectRemoval, NothingToChunk, NoFault, Listed
  <1>1. FilesInv'
    BY DEF FilesInv
  <1>2. ChunksInv'
    BY DEF ChunksInv, FilesInv, StoreInv
  <1>3. DoomedInv'
    BY DEF DoomedInv, FilesInv, ChunksInv
  <1>4. CleanInv'
    BY DEF CleanInv, FilesInv, ChunksInv, DoomedInv, IdleInv, FaithfulAt, FoundAs, NotFound, StoreInv, NoOrphanVectors
  <1>5. IdleInv'
    BY DEF IdleInv, FilesInv, ChunksInv, DoomedInv, CleanInv, FaithfulAt, FoundAs, NotFound, StoreInv, NoOrphanVectors
  <1> QED
    BY <1>1, <1>2, <1>3, <1>4, <1>5

LEMMA ChunkFilesKeeps ==
  ASSUME Nested = {}, IndInv, HashInv, Settled, ChunkFiles
  PROVE  Settled'
  <1> USE PipelineAssumption DEF IndInv, TypeOK, Idle, Busy, FreshInv, store, files, snaps, plan, work, cleanup, budget, mood, Reading, Writing, Cleaning, Settled, HashInv
  <1> USE DEF ChunkFiles, NoFault, Chunk, ToCleanup, CleanupStage, Produced, ContentOf
  <1>1. FilesInv'
    BY DEF FilesInv
  <1>2. ChunksInv'
    <2>1. hurt = "no" => \A c \in new' : /\ PathOf(c) \in toChunk /\ fileStatus[PathOf(c)] = "INDEXED"
                                        /\ ContentOf(c) = fileHash[PathOf(c)]
      <3> SUFFICES ASSUME hurt = "no", NEW c \in new'
                   PROVE  /\ PathOf(c) \in toChunk /\ fileStatus[PathOf(c)] = "INDEXED"
                          /\ ContentOf(c) = fileHash[PathOf(c)]
        OBVIOUS
      <3>1. PathOf(c) \in toChunk /\ ContentOf(c) = disk[PathOf(c)] /\ disk[PathOf(c)] \in Contents
        BY DEF Ids, PathOf
      <3> QED
        BY <3>1 DEF FilesInv
    <2>2. ASSUME hurt = "no", NEW p \in toChunk, fileStatus[p] = "INDEXED"
          PROVE  \E c \in new' : PathOf(c) = p
      <3>1. disk[p] \in Contents
        BY <2>2 DEF FilesInv
      <3> DEFINE c == <<commit, p, disk[p]>>
      <3>0. c \in Ids /\ c[1] = commit /\ PathOf(c) = p /\ ContentOf(c) = disk[p]
        BY <3>1, <2>2 DEF PathOf, ContentOf, Ids
      <3>2. c \in new' /\ PathOf(c) = p
        <4> HIDE DEF c
        <4> QED
          BY <3>0, <2>2
      <3> QED
        BY <3>2
    <2>3. stored' = {} /\ points' = {} /\ left' = new' /\ (pc' = "store" => new' # {}) /\ (pc' # "store" => new' = {}) /\ pc' # "publish"
      OBVIOUS
    <2>4. UNCHANGED <<hurt, toChunk, fileStatus, fileHash>>
      OBVIOUS
    <2> HIDE DEF ChunkFiles, NoFault, Chunk, ToCleanup, CleanupStage, Produced
    <2> QED
      BY <2>1, <2>2, <2>3, <2>4 DEF ChunksInv
  <1>3. DoomedInv'
    BY DEF DoomedInv, FilesInv, ChunksInv
  <1>4. CleanInv'
    <2> SUFFICES ASSUME health' = "clean"
                 PROVE  CleanInv'
      BY DEF CleanInv
    <2>1. health = "clean" /\ hurt = "no" /\ hurt' = "no" /\ pc = "chunk"
      OBVIOUS
    <2>2. vectors = chunks /\ \A p \in Paths \ toChunk : FaithfulAt(p)
      BY <2>1 DEF CleanInv
    <2>3. /\ vectors' = chunks' /\ vectors' \cup stored' = chunks'
          /\ \A p \in Paths \ toChunk' : FaithfulAt(p)'
      BY <2>2 DEF FaithfulAt, FoundAs, NotFound
    <2>4. pc' \in {"store", "collect", "snapshot"} /\ (pc' = "collect" => stage' = "deleted")
      OBVIOUS
    <2>6. pc' = "snapshot" => toChunk' = {}
      <3>1. pc' = "snapshot" => new' = {}
        OBVIOUS
      <3>2. \A p \in toChunk' : fileStatus'[p] = "INDEXED"
        BY <2>1, <2>2 DEF FilesInv
      <3> QED
        BY <3>1, <3>2, <2>1, <1>2 DEF ChunksInv
    <2> HIDE DEF ChunkFiles, NoFault, Chunk, ToCleanup, CleanupStage, Produced
    <2> QED
      BY <2>3, <2>4, <2>6 DEF CleanInv
  <1>5. IdleInv'
    BY DEF IdleInv, FilesInv, ChunksInv, DoomedInv, CleanInv, FaithfulAt, FoundAs, NotFound, StoreInv, NoOrphanVectors
  <1> QED
    BY <1>1, <1>2, <1>3, <1>4, <1>5

LEMMA StoreChunkKeeps ==
  ASSUME Nested = {}, IndInv, HashInv, Settled, NEW c \in left, StoreChunk(c)
  PROVE  Settled'
  <1> USE PipelineAssumption DEF IndInv, TypeOK, Idle, Busy, FreshInv, store, files, snaps, plan, work, cleanup, budget, mood, Reading, Writing, Cleaning, Settled, HashInv
  <1> USE DEF StoreChunk, StoreRow, NoFault
  <1>1. FilesInv'
    BY DEF FilesInv
  <1>2. ChunksInv'
    BY DEF ChunksInv, FilesInv, StoreInv
  <1>3. DoomedInv'
    BY DEF DoomedInv, FilesInv, ChunksInv
  <1>4. CleanInv'
    BY DEF CleanInv, FilesInv, ChunksInv, DoomedInv, IdleInv, FaithfulAt, FoundAs, NotFound, StoreInv, NoOrphanVectors
  <1>5. IdleInv'
    BY DEF IdleInv, FilesInv, ChunksInv, DoomedInv, CleanInv, FaithfulAt, FoundAs, NotFound, StoreInv, NoOrphanVectors
  <1> QED
    BY <1>1, <1>2, <1>3, <1>4, <1>5

LEMMA StoredAllKeeps ==
  ASSUME Nested = {}, IndInv, HashInv, Settled, StoredAll
  PROVE  Settled'
  <1> USE PipelineAssumption DEF IndInv, TypeOK, Idle, Busy, FreshInv, store, files, snaps, plan, work, cleanup, budget, mood, Reading, Writing, Cleaning, Settled, HashInv
  <1> USE DEF StoredAll, NoFault
  <1>1. FilesInv'
    BY DEF FilesInv
  <1>2. ChunksInv'
    BY DEF ChunksInv, FilesInv, StoreInv
  <1>3. DoomedInv'
    BY DEF DoomedInv, FilesInv, ChunksInv
  <1>4. CleanInv'
    BY DEF CleanInv, FilesInv, ChunksInv, DoomedInv, IdleInv, FaithfulAt, FoundAs, NotFound, StoreInv, NoOrphanVectors
  <1>5. IdleInv'
    BY DEF IdleInv, FilesInv, ChunksInv, DoomedInv, CleanInv, FaithfulAt, FoundAs, NotFound, StoreInv, NoOrphanVectors
  <1> QED
    BY <1>1, <1>2, <1>3, <1>4, <1>5

LEMMA StoredNothingKeeps ==
  ASSUME Nested = {}, IndInv, HashInv, Settled, StoredNothing
  PROVE  Settled'
  <1> USE PipelineAssumption DEF IndInv, TypeOK, Idle, Busy, FreshInv, store, files, snaps, plan, work, cleanup, budget, mood, Reading, Writing, Cleaning, Settled, HashInv
  <1> USE DEF StoredNothing, NoFault
  <1>1. FilesInv'
    BY DEF FilesInv
  <1>2. ChunksInv'
    BY DEF ChunksInv, FilesInv, StoreInv
  <1>3. DoomedInv'
    BY DEF DoomedInv, FilesInv, ChunksInv
  <1>4. CleanInv'
    BY DEF CleanInv, FilesInv, ChunksInv, DoomedInv, IdleInv, FaithfulAt, FoundAs, NotFound, StoreInv, NoOrphanVectors
  <1>5. IdleInv'
    BY DEF IdleInv, FilesInv, ChunksInv, DoomedInv, CleanInv, FaithfulAt, FoundAs, NotFound, StoreInv, NoOrphanVectors
  <1> QED
    BY <1>1, <1>2, <1>3, <1>4, <1>5

LEMMA StoredWithoutVectorsKeeps ==
  ASSUME Nested = {}, IndInv, HashInv, Settled, StoredWithoutVectors
  PROVE  Settled'
  <1> USE PipelineAssumption DEF IndInv, TypeOK, Idle, Busy, FreshInv, store, files, snaps, plan, work, cleanup, budget, mood, Reading, Writing, Cleaning, Settled, HashInv
  <1> USE DEF StoredWithoutVectors, NoFault
  <1>1. FilesInv'
    BY CleanupEntry DEF FilesInv
  <1>2. ChunksInv'
    <2>1. hurt # "no"
      BY DEF ChunksInv
    <2>2. hurt' = hurt
      OBVIOUS
    <2> QED
      BY <2>1, <2>2 DEF ChunksInv
  <1>3. DoomedInv'
    BY DEF DoomedInv, FilesInv, ChunksInv
  <1>4. CleanInv'
    BY DEF CleanInv, FilesInv, ChunksInv, DoomedInv, IdleInv, FaithfulAt, FoundAs, NotFound, StoreInv, NoOrphanVectors
  <1>5. IdleInv'
    BY DEF IdleInv, FilesInv, ChunksInv, DoomedInv, CleanInv, FaithfulAt, FoundAs, NotFound, StoreInv, NoOrphanVectors
  <1> QED
    BY <1>1, <1>2, <1>3, <1>4, <1>5

LEMMA PublishVectorsKeeps ==
  ASSUME Nested = {}, IndInv, HashInv, Settled, PublishVectors
  PROVE  Settled'
  <1> USE PipelineAssumption DEF IndInv, TypeOK, Idle, Busy, FreshInv, store, files, snaps, plan, work, cleanup, budget, mood, Reading, Writing, Cleaning, Settled, HashInv
  <1> USE DEF PublishVectors, ToCleanup, CleanupStage, NoFault
  <1>1. FilesInv'
    BY DEF FilesInv
  <1>2. ChunksInv'
    <2> SUFFICES ASSUME hurt = "no"
                 PROVE  ChunksInv'
      BY DEF ChunksInv
    <2>1. stored = points /\ stored = new /\ new # {} /\ \A c \in stored : PathOf(c) \notin gone
      BY DEF ChunksInv
    <2>2. stored \subseteq chunks
      BY DEF StoreInv
    <2>3. new' \subseteq chunks' \cap vectors'
      BY <2>1, <2>2
    <2>4. pc' \in Cleaning \cup {"snapshot"} /\ (mode # "incremental" => pc' # "snapshot")
      BY <2>1
    <2>5. UNCHANGED <<hurt, new, toChunk, fileStatus, fileHash, left, stored, points, mode, gone>>
      OBVIOUS
    <2>6. /\ \A c \in new : /\ PathOf(c) \in toChunk /\ fileStatus[PathOf(c)] = "INDEXED"
                            /\ ContentOf(c) = fileHash[PathOf(c)]
          /\ \A p \in toChunk : fileStatus[p] = "INDEXED" => \E c \in new : PathOf(c) = p
      BY DEF ChunksInv
    <2> HIDE DEF PublishVectors, ToCleanup, CleanupStage
    <2> QED
      BY <2>1, <2>3, <2>4, <2>5, <2>6 DEF ChunksInv
  <1>3. DoomedInv'
    BY DEF DoomedInv, FilesInv, ChunksInv
  <1>4. CleanInv'
    BY DEF CleanInv, FilesInv, ChunksInv, DoomedInv, IdleInv, FaithfulAt, FoundAs, NotFound, StoreInv, NoOrphanVectors
  <1>5. IdleInv'
    BY DEF IdleInv, FilesInv, ChunksInv, DoomedInv, CleanInv, FaithfulAt, FoundAs, NotFound, StoreInv, NoOrphanVectors
  <1> QED
    BY <1>1, <1>2, <1>3, <1>4, <1>5

LEMMA CollectKeeps ==
  ASSUME Nested = {}, IndInv, HashInv, Settled, Collect
  PROVE  Settled'
  <1> USE PipelineAssumption DEF IndInv, TypeOK, Idle, Busy, FreshInv, store, files, snaps, plan, work, cleanup, budget, mood, Reading, Writing, Cleaning, Settled, HashInv
  <1> USE DEF Collect, Stale, ChunksOf, Matches, NoFault
  <1>1. FilesInv'
    BY DEF FilesInv
  <1>2. ChunksInv'
    BY DEF ChunksInv, FilesInv, StoreInv
  <1>3. DoomedInv'
    BY DEF DoomedInv, FilesInv, ChunksInv
  <1>4. CleanInv'
    BY DEF CleanInv, FilesInv, ChunksInv, DoomedInv, IdleInv, FaithfulAt, FoundAs, NotFound, StoreInv, NoOrphanVectors
  <1>5. IdleInv'
    BY DEF IdleInv, FilesInv, ChunksInv, DoomedInv, CleanInv, FaithfulAt, FoundAs, NotFound, StoreInv, NoOrphanVectors
  <1> QED
    BY <1>1, <1>2, <1>3, <1>4, <1>5

LEMMA WithdrawVectorsKeeps ==
  ASSUME Nested = {}, IndInv, HashInv, Settled, WithdrawVectors
  PROVE  Settled'
  <1> USE PipelineAssumption DEF IndInv, TypeOK, Idle, Busy, FreshInv, store, files, snaps, plan, work, cleanup, budget, mood, Reading, Writing, Cleaning, Settled, HashInv
  <1> USE DEF WithdrawVectors, NoFault
  <1>1. FilesInv'
    BY DEF FilesInv
  <1>2. ChunksInv'
    BY DEF ChunksInv, FilesInv, DoomedInv, StoreInv
  <1>3. DoomedInv'
    BY DEF DoomedInv, FilesInv, ChunksInv
  <1>4. CleanInv'
    BY DEF CleanInv, FilesInv, ChunksInv, DoomedInv, IdleInv, FaithfulAt, FoundAs, NotFound, StoreInv, NoOrphanVectors
  <1>5. IdleInv'
    BY DEF IdleInv, FilesInv, ChunksInv, DoomedInv, CleanInv, FaithfulAt, FoundAs, NotFound, StoreInv, NoOrphanVectors
  <1> QED
    BY <1>1, <1>2, <1>3, <1>4, <1>5

LEMMA DiscardRowsKeeps ==
  ASSUME Nested = {}, IndInv, HashInv, Settled, DiscardRows
  PROVE  Settled'
  <1> USE PipelineAssumption DEF IndInv, TypeOK, Idle, Busy, FreshInv, store, files, snaps, plan, work, cleanup, budget, mood, Reading, Writing, Cleaning, Settled, HashInv
  <1> USE DEF DiscardRows, MoreCleanup, NoFault
  <1>1. FilesInv'
    BY DEF FilesInv
  <1>2. ChunksInv'
    <2> SUFFICES ASSUME hurt = "no"
                 PROVE  ChunksInv'
      BY DEF ChunksInv
    <2>1. deleted \cap toChunk = {}
      BY DEF FilesInv
    <2>2. \A c \in new : PathOf(c) \in toChunk /\ PathOf(c) \notin gone
      BY DEF ChunksInv
    <2>3. \A c \in stored' : PathOf(c) \notin gone'
      BY <2>1, <2>2
    <2>4. new \cap doomed = {}
      BY <2>1, <2>2 DEF DoomedInv
    <2>5. stored' = new' /\ new' \subseteq chunks' \cap vectors'
      BY <2>4 DEF ChunksInv
    <2>6. mode # "incremental" => deleted' \subseteq gone'
      BY DEF DoomedInv
    <2>7. pc' \in {"collect", "snapshot"} /\ UNCHANGED <<hurt, new, toChunk, fileStatus, fileHash, left, stored, points, mode>>
      OBVIOUS
    <2> QED
      BY <2>3, <2>5, <2>6, <2>7 DEF ChunksInv
  <1>3. DoomedInv'
    BY DEF DoomedInv, FilesInv, ChunksInv
  <1>4. CleanInv'
    BY DEF CleanInv, FilesInv, ChunksInv, DoomedInv, IdleInv, FaithfulAt, FoundAs, NotFound, StoreInv, NoOrphanVectors
  <1>5. IdleInv'
    BY DEF IdleInv, FilesInv, ChunksInv, DoomedInv, CleanInv, FaithfulAt, FoundAs, NotFound, StoreInv, NoOrphanVectors
  <1> QED
    BY <1>1, <1>2, <1>3, <1>4, <1>5

LEMMA CreateSnapshotKeeps ==
  ASSUME Nested = {}, IndInv, HashInv, Settled, CreateSnapshot
  PROVE  Settled'
  <1> USE PipelineAssumption DEF IndInv, TypeOK, Idle, Busy, FreshInv, store, files, snaps, plan, work, cleanup, budget, mood, Reading, Writing, Cleaning, Settled, HashInv
  <1> USE DEF CreateSnapshot, FinishRun, Rebuilt
  <1>1. FilesInv'
    BY DEF FilesInv
  <1>2. ChunksInv'
    BY DEF ChunksInv, FilesInv, StoreInv
  <1>3. DoomedInv'
    BY DEF DoomedInv, FilesInv, ChunksInv
  <1>4. CleanInv'
    BY DEF CleanInv, FilesInv, ChunksInv, DoomedInv, IdleInv, FaithfulAt, FoundAs, NotFound, StoreInv, NoOrphanVectors
  <1>5. IdleInv'
    <2> SUFFICES ASSUME health' = "clean"
                 PROVE  vectors = chunks /\ \A p \in Paths : FaithfulAt(p)
      BY DEF IdleInv, FaithfulAt, FoundAs, NotFound
    <2>1. CASE health = "clean"
      <3>1. /\ vectors = chunks
            /\ \A p \in Paths \ toChunk : FaithfulAt(p)
            /\ \A p \in toChunk : FoundAs(p, fileHash[p])
        BY <2>1 DEF CleanInv
      <3>2. \A p \in toChunk : p \notin gone
        BY <2>1 DEF FilesInv, ChunksInv
      <3> QED
        BY <3>1, <3>2 DEF FaithfulAt
    <2>2. CASE health # "clean"
      <3>1. mode # "incremental" /\ new # {} /\ hurt = "no"
        BY <2>2
      <3>2. new \subseteq chunks \cap vectors
        BY <3>1 DEF ChunksInv
      <3>3. vectors = new /\ chunks = new
        BY <3>1, <3>2 DEF FilesInv, FullInv, StoreInv, NoOrphanVectors
      <3>4. \A c \in chunks : /\ fileStatus[PathOf(c)] = "INDEXED"
                             /\ ContentOf(c) = fileHash[PathOf(c)]
        BY <3>1, <3>3 DEF ChunksInv
      <3>5. \A p \in Paths : fileStatus[p] = "INDEXED" => p \in toChunk \/ p \in gone \ toChunk
        BY <3>1 DEF FilesInv, ChunksInv
      <3>6. \A p \in toChunk : fileStatus[p] = "INDEXED" => 
                p \notin gone /\ \E c \in chunks : PathOf(c) = p
        BY <3>1, <3>3 DEF ChunksInv
      <3>7. \A c \in chunks : PathOf(c) \in toChunk
        BY <3>1, <3>3 DEF ChunksInv
      <3> QED
        BY <3>3, <3>4, <3>5, <3>6, <3>7 DEF FaithfulAt, FoundAs, NotFound
    <2> QED
      BY <2>1, <2>2
  <1> QED
    BY <1>1, <1>2, <1>3, <1>4, <1>5

LEMMA EditKeeps ==
  ASSUME Nested = {}, IndInv, HashInv, Settled, NEW p \in Paths, NEW s \in Contents \cup {Absent, Empty}, Edit(p, s)
  PROVE  Settled'
  <1> USE PipelineAssumption DEF IndInv, TypeOK, Idle, Busy, FreshInv, store, files, snaps, plan, work, cleanup, budget, mood, Reading, Writing, Cleaning, Settled, HashInv
  <1> USE DEF Edit, Listed
  <1>1. FilesInv'
    BY DEF FilesInv
  <1>2. ChunksInv'
    BY DEF ChunksInv, FilesInv, StoreInv
  <1>3. DoomedInv'
    BY DEF DoomedInv, FilesInv, ChunksInv
  <1>4. CleanInv'
    BY DEF CleanInv, FilesInv, ChunksInv, DoomedInv, IdleInv, FaithfulAt, FoundAs, NotFound, StoreInv, NoOrphanVectors
  <1>5. IdleInv'
    BY DEF IdleInv, FilesInv, ChunksInv, DoomedInv, CleanInv, FaithfulAt, FoundAs, NotFound, StoreInv, NoOrphanVectors
  <1> QED
    BY <1>1, <1>2, <1>3, <1>4, <1>5

-----------------------------------------------------------------------------
LEMMA InitSettled == Init => HashInv /\ Settled
  BY PipelineAssumption DEF Init, HashInv, Settled, FilesInv, ChunksInv, DoomedInv, CleanInv, IdleInv,
                            FaithfulAt, Idle, Busy, Writing, Cleaning

\* A hurt run owes nothing, and its index is dirty.
LEMMA FaultSettles == Fault => Settled'
  BY DEF Fault, Settled, FilesInv, ChunksInv, DoomedInv, CleanInv, IdleInv

LEMMA StepHash == IndInv /\ HashInv /\ [Next]_vars => HashInv'
  <1> SUFFICES ASSUME IndInv, HashInv, [Next]_vars PROVE HashInv'
    OBVIOUS
  <1> USE DEF IndInv, TypeOK, HashInv, store, files, snaps, plan, work, cleanup, budget, mood, NoFault, Fault
  <1>1. ASSUME NEW c \in Commits, NEW m \in {"full", "incremental"}, BeginRun(c, m) PROVE HashInv'
    BY <1>1 DEF BeginRun
  <1>2. ASSUME RecordFiles PROVE HashInv'
    BY <1>2 DEF RecordFiles, Record
  <1>3. ASSUME NEW lost \in SUBSET found, RecordFilesPartly(lost) PROVE HashInv'
    BY <1>3 DEF RecordFilesPartly, Record
  <1>4. ASSUME NEW lost \in SUBSET found, RecordFilesBlindly(lost) PROVE HashInv'
    BY <1>4 DEF RecordFilesBlindly, Record
  <1>5. ASSUME MarkDeleted PROVE HashInv'
    BY <1>5 DEF MarkDeleted
  <1>7. ASSUME SelectChunking PROVE HashInv'
    BY <1>7 DEF SelectChunking
  <1>8. ASSUME SelectNothing PROVE HashInv'
    BY <1>8 DEF SelectNothing
  <1>9. ASSUME SelectRepair PROVE HashInv'
    BY <1>9 DEF SelectRepair, Repair
  <1>10. ASSUME SelectRepairByMiscount PROVE HashInv'
    BY <1>10 DEF SelectRepairByMiscount, Repair
  <1>11. ASSUME SelectRemoval PROVE HashInv'
    BY <1>11 DEF SelectRemoval
  <1>12. ASSUME ChunkFiles PROVE HashInv'
    BY <1>12 DEF ChunkFiles, Chunk, NoFault
  <1>13. ASSUME NEW unread \in SUBSET toChunk, ChunkFilesPartly(unread) PROVE HashInv'
    BY <1>13 DEF ChunkFilesPartly, Chunk
  <1>14. ASSUME NEW c \in left, StoreChunk(c) PROVE HashInv'
    BY <1>14 DEF StoreChunk, StoreRow
  <1>15. ASSUME NEW c \in left, StoreUnembedded(c) PROVE HashInv'
    BY <1>15 DEF StoreUnembedded, StoreRow
  <1>16. ASSUME NEW c \in left, SkipRow(c) PROVE HashInv'
    BY <1>16 DEF SkipRow
  <1>17. ASSUME AbortEmbedding PROVE HashInv'
    BY <1>17 DEF AbortEmbedding
  <1>18. ASSUME StoredAll PROVE HashInv'
    BY <1>18 DEF StoredAll
  <1>19. ASSUME StoredNothing PROVE HashInv'
    BY <1>19 DEF StoredNothing
  <1>20. ASSUME StoredWithoutVectors PROVE HashInv'
    BY <1>20 DEF StoredWithoutVectors
  <1>21. ASSUME PublishVectors PROVE HashInv'
    BY <1>21 DEF PublishVectors
  <1>22. ASSUME NEW S \in SUBSET points, PublishFails(S) PROVE HashInv'
    BY <1>22 DEF PublishFails
  <1>23. ASSUME Collect PROVE HashInv'
    BY <1>23 DEF Collect
  <1>24. ASSUME WithdrawVectors PROVE HashInv'
    BY <1>24 DEF WithdrawVectors
  <1>25. ASSUME NEW S \in SUBSET doomed, WithdrawFails(S) PROVE HashInv'
    BY <1>25 DEF WithdrawFails
  <1>26. ASSUME DiscardRows PROVE HashInv'
    BY <1>26 DEF DiscardRows
  <1>27. ASSUME DiscardFails PROVE HashInv'
    BY <1>27 DEF DiscardFails
  <1>28. ASSUME CreateSnapshot PROVE HashInv'
    BY <1>28 DEF CreateSnapshot, FinishRun, Rebuilt
  <1>29. ASSUME SnapshotFails PROVE HashInv'
    BY <1>29 DEF SnapshotFails, FinishRun
  <1>30. ASSUME Crash PROVE HashInv'
    BY <1>30 DEF Crash
  <1>31. ASSUME NEW p \in Paths, NEW s \in Contents \cup {Absent, Empty}, Edit(p, s) PROVE HashInv'
    BY <1>31 DEF Edit
  <1>32. CASE UNCHANGED vars
    BY <1>32 DEF vars
  <1> QED
    BY <1>1, <1>2, <1>3, <1>4, <1>5, <1>7, <1>8, <1>9, <1>10, <1>11, <1>12, <1>13, <1>14, <1>15, <1>16, <1>17, <1>18, <1>19, <1>20, <1>21, <1>22, <1>23, <1>24, <1>25, <1>26, <1>27, <1>28, <1>29, <1>30, <1>31, <1>32 DEF Next, RunStep

LEMMA StepSettled == Nested = {} /\ IndInv /\ HashInv /\ Settled /\ [Next]_vars => Settled'
  <1> SUFFICES ASSUME Nested = {}, IndInv, HashInv, Settled, [Next]_vars PROVE Settled'
    OBVIOUS
  <1>1. ASSUME NEW c \in Commits, NEW m \in {"full", "incremental"}, BeginRun(c, m) PROVE Settled'
    BY <1>1, BeginRunKeeps
  <1>2. ASSUME RecordFiles PROVE Settled'
    BY <1>2, RecordFilesKeeps
  <1>3. ASSUME NEW lost \in SUBSET found, RecordFilesPartly(lost) PROVE Settled'
    BY <1>3, FaultSettles DEF RecordFilesPartly
  <1>4. ASSUME NEW lost \in SUBSET found, RecordFilesBlindly(lost) PROVE Settled'
    BY <1>4, FaultSettles DEF RecordFilesBlindly
  <1>5. ASSUME MarkDeleted PROVE Settled'
    BY <1>5, MarkDeletedKeeps
  <1>7. ASSUME SelectChunking PROVE Settled'
    BY <1>7, SelectChunkingKeeps
  <1>8. ASSUME SelectNothing PROVE Settled'
    BY <1>8, SelectNothingKeeps
  <1>9. ASSUME SelectRepair PROVE Settled'
    BY <1>9, SelectRepairKeeps
  <1>10. ASSUME SelectRepairByMiscount PROVE Settled'
    BY <1>10, FaultSettles DEF SelectRepairByMiscount
  <1>11. ASSUME SelectRemoval PROVE Settled'
    BY <1>11, SelectRemovalKeeps
  <1>12. ASSUME ChunkFiles PROVE Settled'
    BY <1>12, ChunkFilesKeeps
  <1>13. ASSUME NEW unread \in SUBSET toChunk, ChunkFilesPartly(unread) PROVE Settled'
    BY <1>13, FaultSettles DEF ChunkFilesPartly
  <1>14. ASSUME NEW c \in left, StoreChunk(c) PROVE Settled'
    BY <1>14, StoreChunkKeeps
  <1>15. ASSUME NEW c \in left, StoreUnembedded(c) PROVE Settled'
    BY <1>15, FaultSettles DEF StoreUnembedded
  <1>16. ASSUME NEW c \in left, SkipRow(c) PROVE Settled'
    BY <1>16, FaultSettles DEF SkipRow
  <1>17. ASSUME AbortEmbedding PROVE Settled'
    BY <1>17, FaultSettles DEF AbortEmbedding
  <1>18. ASSUME StoredAll PROVE Settled'
    BY <1>18, StoredAllKeeps
  <1>19. ASSUME StoredNothing PROVE Settled'
    BY <1>19, StoredNothingKeeps
  <1>20. ASSUME StoredWithoutVectors PROVE Settled'
    BY <1>20, StoredWithoutVectorsKeeps
  <1>21. ASSUME PublishVectors PROVE Settled'
    BY <1>21, PublishVectorsKeeps
  <1>22. ASSUME NEW S \in SUBSET points, PublishFails(S) PROVE Settled'
    BY <1>22, FaultSettles DEF PublishFails
  <1>23. ASSUME Collect PROVE Settled'
    BY <1>23, CollectKeeps
  <1>24. ASSUME WithdrawVectors PROVE Settled'
    BY <1>24, WithdrawVectorsKeeps
  <1>25. ASSUME NEW S \in SUBSET doomed, WithdrawFails(S) PROVE Settled'
    BY <1>25, FaultSettles DEF WithdrawFails
  <1>26. ASSUME DiscardRows PROVE Settled'
    BY <1>26, DiscardRowsKeeps
  <1>27. ASSUME DiscardFails PROVE Settled'
    BY <1>27, FaultSettles DEF DiscardFails
  <1>28. ASSUME CreateSnapshot PROVE Settled'
    BY <1>28, CreateSnapshotKeeps
  <1>29. ASSUME SnapshotFails PROVE Settled'
    BY <1>29, FaultSettles DEF SnapshotFails
  <1>30. ASSUME Crash PROVE Settled'
    BY <1>30, FaultSettles DEF Crash
  <1>31. ASSUME NEW p \in Paths, NEW s \in Contents \cup {Absent, Empty}, Edit(p, s) PROVE Settled'
    BY <1>31, EditKeeps
  <1>32. CASE UNCHANGED vars
    BY <1>32 DEF vars, Settled, FilesInv, ChunksInv, DoomedInv, CleanInv, IdleInv, FaithfulAt, FoundAs, NotFound,
              Listed, store, files, snaps, plan, work, cleanup, budget, mood
  <1> QED
    BY <1>1, <1>2, <1>3, <1>4, <1>5, <1>7, <1>8, <1>9, <1>10, <1>11, <1>12, <1>13, <1>14, <1>15, <1>16, <1>17, <1>18, <1>19, <1>20, <1>21, <1>22, <1>23, <1>24, <1>25, <1>26, <1>27, <1>28, <1>29, <1>30, <1>31, <1>32 DEF Next, RunStep

\* Where no supported path ends with another one and no run was hurt since the
\* last rebuild, the index is true to the recorded files: hash-guided runs lose
\* nothing and keep nothing.  A file once found deleted is the exception, and
\* the only one: upsert_file_records never marks its row, so from the run that
\* removed its chunks until one stores a chunk of it again, it is not found.
THEOREM UnhurtRunsAreFaithful ==
  ASSUME Nested = {}
  PROVE  Spec => []IndexFaithful
  <1>1. Init => HashInv /\ Settled
    BY InitSettled
  <1>2. Nested = {} /\ IndInv /\ HashInv /\ Settled /\ [Next]_vars => HashInv' /\ Settled'
    BY StepHash, StepSettled
  <1>3. IndInv /\ HashInv /\ Settled => IndexFaithful
    <2> SUFFICES ASSUME IndInv, HashInv, Settled, pc \in Idle, health = "clean"
                 PROVE  /\ vectors = chunks
                        /\ \A p \in Paths : fileStatus[p] = "INDEXED" =>
                               ContentsAt(p) = IF p \in gone THEN {} ELSE {fileHash[p]}
      BY DEF IndexFaithful
    <2>1. vectors = chunks /\ \A p \in Paths : FaithfulAt(p)
      BY DEF Settled, IdleInv
    <2>2. ASSUME NEW p \in Paths, fileStatus[p] = "INDEXED", p \notin gone
          PROVE  ContentsAt(p) = {fileHash[p]}
      BY <2>1, <2>2 DEF FaithfulAt, FoundAs, ContentsAt
    <2>3. ASSUME NEW p \in Paths, fileStatus[p] = "INDEXED", p \in gone
          PROVE  ContentsAt(p) = {}
      BY <2>1, <2>3 DEF FaithfulAt, NotFound, ContentsAt
    <2> QED
      BY <2>1, <2>2, <2>3
  <1>4. Nested = {}
    OBVIOUS
  <1> QED
    BY <1>1, <1>2, <1>3, <1>4, Inductive, PTL DEF Spec

-----------------------------------------------------------------------------
\* A run that stored nothing cleans up after deleted files only, and a run
\* that produced chunks gets to its cleanup with some of them stored.
RemovalInv ==
    /\ pc = "publish" => stored # {}
    /\ pc \in Cleaning => /\ new # {} => stored # {}
                          /\ stored = {} => stage = "deleted"
    /\ pc \in {"withdraw", "discard"} /\ stage = "deleted" =>
          \A c \in doomed : PathOf(c) \in Matches(deleted)

\* A run that produced nothing goes to the cleanup for deleted files or to its end.
LEMMA EmptyCleanup ==
  ASSUME ToCleanup({})
  PROVE  pc' \in {"collect", "snapshot"} /\ (pc' = "collect" => stage' = "deleted")
  BY DEF ToCleanup, CleanupStage

LEMMA ChunkCleans ==
  ASSUME NEW U, Chunk(U)
  PROVE  /\ pc' \in {"collect", "snapshot", "store"}
         /\ pc' = "collect" => stage' = "deleted" /\ new' = {}
  <1>1. CASE Produced(U) = {}
    BY <1>1, EmptyCleanup DEF Chunk
  <1>2. CASE Produced(U) # {}
    BY <1>2 DEF Chunk
  <1> QED
    BY <1>1, <1>2

LEMMA StepRemoval == IndInv /\ RemovalInv /\ [Next]_vars => RemovalInv'
  <1> SUFFICES ASSUME IndInv, RemovalInv, [Next]_vars PROVE RemovalInv'
    OBVIOUS
  <1> USE DEF IndInv, TypeOK, FreshInv, RemovalInv, Idle, Busy, Cleaning, store, files, snaps, plan, work, cleanup, budget, mood, NoFault, Fault, Matches
  <1>1. ASSUME NEW c \in Commits, NEW m \in {"full", "incremental"}, BeginRun(c, m) PROVE RemovalInv'
    BY <1>1 DEF BeginRun
  <1>2. ASSUME RecordFiles PROVE RemovalInv'
    BY <1>2 DEF RecordFiles, Record
  <1>3. ASSUME NEW lost \in SUBSET found, RecordFilesPartly(lost) PROVE RemovalInv'
    BY <1>3 DEF RecordFilesPartly, Record
  <1>4. ASSUME NEW lost \in SUBSET found, RecordFilesBlindly(lost) PROVE RemovalInv'
    BY <1>4 DEF RecordFilesBlindly, Record
  <1>5. ASSUME MarkDeleted PROVE RemovalInv'
    BY <1>5 DEF MarkDeleted
  <1>7. ASSUME SelectChunking PROVE RemovalInv'
    BY <1>7 DEF SelectChunking
  <1>8. ASSUME SelectNothing PROVE RemovalInv'
    BY <1>8 DEF SelectNothing
  <1>9. ASSUME SelectRepair PROVE RemovalInv'
    BY <1>9 DEF SelectRepair, Repair
  <1>10. ASSUME SelectRepairByMiscount PROVE RemovalInv'
    BY <1>10 DEF SelectRepairByMiscount, Repair
  <1>11. ASSUME SelectRemoval PROVE RemovalInv'
    BY <1>11 DEF SelectRemoval
  <1>12. ASSUME ChunkFiles PROVE RemovalInv'
    BY <1>12, ChunkCleans DEF ChunkFiles, Chunk, NoFault
  <1>13. ASSUME NEW unread \in SUBSET toChunk, ChunkFilesPartly(unread) PROVE RemovalInv'
    BY <1>13, ChunkCleans DEF ChunkFilesPartly, Chunk
  <1>14. ASSUME NEW c \in left, StoreChunk(c) PROVE RemovalInv'
    BY <1>14 DEF StoreChunk, StoreRow
  <1>15. ASSUME NEW c \in left, StoreUnembedded(c) PROVE RemovalInv'
    BY <1>15 DEF StoreUnembedded, StoreRow
  <1>16. ASSUME NEW c \in left, SkipRow(c) PROVE RemovalInv'
    BY <1>16 DEF SkipRow
  <1>17. ASSUME AbortEmbedding PROVE RemovalInv'
    BY <1>17 DEF AbortEmbedding
  <1>18. ASSUME StoredAll PROVE RemovalInv'
    BY <1>18 DEF StoredAll
  <1>19. ASSUME StoredNothing PROVE RemovalInv'
    BY <1>19 DEF StoredNothing
  <1>20. ASSUME StoredWithoutVectors PROVE RemovalInv'
    BY <1>20, CleanupEntry DEF StoredWithoutVectors
  <1>21. ASSUME PublishVectors PROVE RemovalInv'
    BY <1>21, CleanupEntry DEF PublishVectors
  <1>22. ASSUME NEW S \in SUBSET points, PublishFails(S) PROVE RemovalInv'
    BY <1>22 DEF PublishFails
  <1>23. ASSUME Collect PROVE RemovalInv'
    BY <1>23 DEF Collect, Stale, ChunksOf
  <1>24. ASSUME WithdrawVectors PROVE RemovalInv'
    BY <1>24 DEF WithdrawVectors
  <1>25. ASSUME NEW S \in SUBSET doomed, WithdrawFails(S) PROVE RemovalInv'
    BY <1>25 DEF WithdrawFails
  <1>26. ASSUME DiscardRows PROVE RemovalInv'
    BY <1>26 DEF DiscardRows, MoreCleanup
  <1>27. ASSUME DiscardFails PROVE RemovalInv'
    BY <1>27 DEF DiscardFails
  <1>28. ASSUME CreateSnapshot PROVE RemovalInv'
    BY <1>28 DEF CreateSnapshot, FinishRun
  <1>29. ASSUME SnapshotFails PROVE RemovalInv'
    BY <1>29 DEF SnapshotFails, FinishRun
  <1>30. ASSUME Crash PROVE RemovalInv'
    BY <1>30 DEF Crash
  <1>31. ASSUME NEW p \in Paths, NEW s \in Contents \cup {Absent, Empty}, Edit(p, s) PROVE RemovalInv'
    BY <1>31 DEF Edit
  <1>32. CASE UNCHANGED vars
    BY <1>32 DEF vars
  <1> QED
    BY <1>1, <1>2, <1>3, <1>4, <1>5, <1>7, <1>8, <1>9, <1>10, <1>11, <1>12, <1>13, <1>14, <1>15, <1>16, <1>17, <1>18, <1>19, <1>20, <1>21, <1>22, <1>23, <1>24, <1>25, <1>26, <1>27, <1>28, <1>29, <1>30, <1>31, <1>32 DEF Next, RunStep

\* Rows are discarded in the last step of a cleanup only.
LEMMA OnlyDiscardRemoves ==
  ASSUME [Next]_vars, ~DiscardRows
  PROVE  chunks \subseteq chunks'
  <1> USE DEF store, files, snaps, plan, work, cleanup, budget, mood
  <1>1. ASSUME NEW c \in Commits, NEW m \in {"full", "incremental"}, BeginRun(c, m) PROVE chunks \subseteq chunks'
    BY <1>1 DEF BeginRun
  <1>2. ASSUME RecordFiles PROVE chunks \subseteq chunks'
    BY <1>2 DEF RecordFiles, Record
  <1>3. ASSUME NEW lost \in SUBSET found, RecordFilesPartly(lost) PROVE chunks \subseteq chunks'
    BY <1>3 DEF RecordFilesPartly, Record
  <1>4. ASSUME NEW lost \in SUBSET found, RecordFilesBlindly(lost) PROVE chunks \subseteq chunks'
    BY <1>4 DEF RecordFilesBlindly, Record
  <1>5. ASSUME MarkDeleted PROVE chunks \subseteq chunks'
    BY <1>5 DEF MarkDeleted
  <1>7. ASSUME SelectChunking PROVE chunks \subseteq chunks'
    BY <1>7 DEF SelectChunking
  <1>8. ASSUME SelectNothing PROVE chunks \subseteq chunks'
    BY <1>8 DEF SelectNothing
  <1>9. ASSUME SelectRepair PROVE chunks \subseteq chunks'
    BY <1>9 DEF SelectRepair, Repair
  <1>10. ASSUME SelectRepairByMiscount PROVE chunks \subseteq chunks'
    BY <1>10 DEF SelectRepairByMiscount, Repair
  <1>11. ASSUME SelectRemoval PROVE chunks \subseteq chunks'
    BY <1>11 DEF SelectRemoval
  <1>12. ASSUME ChunkFiles PROVE chunks \subseteq chunks'
    BY <1>12 DEF ChunkFiles, Chunk, NoFault
  <1>13. ASSUME NEW unread \in SUBSET toChunk, ChunkFilesPartly(unread) PROVE chunks \subseteq chunks'
    BY <1>13 DEF ChunkFilesPartly, Chunk
  <1>14. ASSUME NEW c \in left, StoreChunk(c) PROVE chunks \subseteq chunks'
    BY <1>14 DEF StoreChunk, StoreRow
  <1>15. ASSUME NEW c \in left, StoreUnembedded(c) PROVE chunks \subseteq chunks'
    BY <1>15 DEF StoreUnembedded, StoreRow
  <1>16. ASSUME NEW c \in left, SkipRow(c) PROVE chunks \subseteq chunks'
    BY <1>16 DEF SkipRow
  <1>17. ASSUME AbortEmbedding PROVE chunks \subseteq chunks'
    BY <1>17 DEF AbortEmbedding
  <1>18. ASSUME StoredAll PROVE chunks \subseteq chunks'
    BY <1>18 DEF StoredAll
  <1>19. ASSUME StoredNothing PROVE chunks \subseteq chunks'
    BY <1>19 DEF StoredNothing
  <1>20. ASSUME StoredWithoutVectors PROVE chunks \subseteq chunks'
    BY <1>20 DEF StoredWithoutVectors
  <1>21. ASSUME PublishVectors PROVE chunks \subseteq chunks'
    BY <1>21 DEF PublishVectors
  <1>22. ASSUME NEW S \in SUBSET points, PublishFails(S) PROVE chunks \subseteq chunks'
    BY <1>22 DEF PublishFails
  <1>23. ASSUME Collect PROVE chunks \subseteq chunks'
    BY <1>23 DEF Collect, Stale, ChunksOf
  <1>24. ASSUME WithdrawVectors PROVE chunks \subseteq chunks'
    BY <1>24 DEF WithdrawVectors
  <1>25. ASSUME NEW S \in SUBSET doomed, WithdrawFails(S) PROVE chunks \subseteq chunks'
    BY <1>25 DEF WithdrawFails
  <1>26. ASSUME DiscardFails PROVE chunks \subseteq chunks'
    BY <1>26 DEF DiscardFails
  <1>27. ASSUME CreateSnapshot PROVE chunks \subseteq chunks'
    BY <1>27 DEF CreateSnapshot, FinishRun
  <1>28. ASSUME SnapshotFails PROVE chunks \subseteq chunks'
    BY <1>28 DEF SnapshotFails, FinishRun
  <1>29. ASSUME Crash PROVE chunks \subseteq chunks'
    BY <1>29 DEF Crash
  <1>30. ASSUME NEW p \in Paths, NEW s \in Contents \cup {Absent, Empty}, Edit(p, s) PROVE chunks \subseteq chunks'
    BY <1>30 DEF Edit
  <1>31. CASE UNCHANGED vars
    BY <1>31 DEF vars
  <1> QED
    BY <1>1, <1>2, <1>3, <1>4, <1>5, <1>7, <1>8, <1>9, <1>10, <1>11, <1>12, <1>13, <1>14, <1>15, <1>16, <1>17, <1>18, <1>19, <1>20, <1>21, <1>22, <1>23, <1>24, <1>25, <1>26, <1>27, <1>28, <1>29, <1>30, <1>31 DEF Next, RunStep

\* Whatever failed before, a run that stored nothing takes away no chunk but
\* those of files it found deleted: an empty result never wipes the index
\* (_apply_post_index_cleanup is told the kept ids, and skipped without any).
THEOREM EmptyRunsRemoveDeletedOnly == Spec => RemovalNeedsStore
  <1>1. Init => RemovalInv
    BY DEF Init, RemovalInv, Cleaning
  <1>2. IndInv /\ RemovalInv /\ [Next]_vars => RemovalInv'
    BY StepRemoval
  <1>3. IndInv /\ RemovalInv /\ [Next]_vars =>
          [\A c \in chunks \ chunks' : stored # {} \/ PathOf(c) \in Matches(deleted)]_vars
    <2> SUFFICES ASSUME RemovalInv, [Next]_vars, NEW c \in chunks \ chunks'
                 PROVE  stored # {} \/ PathOf(c) \in Matches(deleted)
      OBVIOUS
    <2>1. DiscardRows
      BY OnlyDiscardRemoves
    <2> QED
      BY <2>1 DEF DiscardRows, RemovalInv, Cleaning
  <1> QED
    BY <1>1, <1>2, <1>3, Inductive, PTL DEF Spec, RemovalNeedsStore
=============================================================================
