--------------------------- MODULE IndexPipeline ---------------------------
(***************************************************************************)
(* The indexing pipeline of one repository under its lock:                 *)
(* _index_repository_locked of services/indexing_service.py with           *)
(* upsert_file_records and create_snapshot of indexing_helpers.py.         *)
(*                                                                         *)
(* A run lists the files, records their hashes, decides what to re-chunk,  *)
(* reads those files a second time, stores chunks in Postgres, publishes   *)
(* their vectors in Qdrant, removes stale chunks from both and records a   *)
(* snapshot.  Every step commits on its own, and a run may fail or die     *)
(* between any two of them; the next run starts from what it left.         *)
(*                                                                         *)
(* A file yields one chunk, and a chunk id is what uuid5 is taken of:      *)
(* commit label, path and content.                                         *)
(***************************************************************************)
EXTENDS Naturals

CONSTANTS
    Paths,         \* relative paths of supported files
    Nested,        \* pairs <<r, p>> with r # p and p LIKE '%/r'
    Contents,      \* contents of a file that yields a chunk
    Absent, Empty, \* no such file; a file that is recorded SKIPPED
    NoHash,        \* repository_files.hash is NULL
    Commits,       \* commit_sha labels of runs
    NoCommit,
    MaxRuns, MaxEdits, MaxFaults   \* bounds on the environment

ASSUME PipelineAssumption ==
    /\ Nested \subseteq Paths \X Paths
    /\ Absent \notin Contents /\ Empty \notin Contents /\ Absent # Empty
    /\ NoHash \notin Contents
    /\ NoCommit \notin Commits
    /\ MaxRuns \in Nat /\ MaxEdits \in Nat /\ MaxFaults \in Nat

VARIABLES
    disk,          \* the working copy
    fileStatus,    \* repository_files.status, "none" without a row
    fileHash,      \* repository_files.hash
    chunks,        \* ids of code_chunks
    vectors,       \* ids of Qdrant points
    snapped,       \* commits with a row in repository_snapshots
    latest,        \* repositories.latest_indexed_commit
    pc, mode, commit,      \* of the current run
    found,         \* all_files
    toChunk,       \* files_to_chunk
    changed,       \* changed_paths
    deleted,       \* deleted_paths
    new,           \* ids of the chunks the run produced (keep_ids)
    left,          \* produced chunks whose batch has not been committed
    stored,        \* produced chunks written to Postgres
    points,        \* qdrant_points
    stage, doomed, \* cleanup call in progress and the ids it removes
    runs, edits, faults,   \* budgets used
    hurt,          \* "yes" when this run met a fault or a concurrent edit
    health,        \* "dirty" from a hurt run to the next rebuild
    gone           \* files whose row outlived the chunks a run removed

Ids == Commits \X Paths \X Contents
PathOf(c) == c[2]
ContentOf(c) == c[3]

store == <<chunks, vectors>>
files == <<fileStatus, fileHash>>
snaps == <<snapped, latest>>
plan == <<mode, commit, found, toChunk, changed, deleted>>
work == <<new, left, stored, points>>
cleanup == <<stage, doomed>>
budget == <<runs, edits, faults>>
mood == <<hurt, health>>
vars == <<disk, store, files, snaps, pc, plan, work, cleanup, budget, mood, gone>>

Idle == {"idle", "done", "failed"}
Busy == {"record", "mark", "select", "chunk", "store", "publish",
         "collect", "withdraw", "discard", "snapshot"}

TypeOK ==
    /\ disk \in [Paths -> Contents \cup {Absent, Empty}]
    /\ fileStatus \in [Paths -> {"none", "INDEXED", "SKIPPED"}]
    /\ fileHash \in [Paths -> Contents \cup {NoHash}]
    /\ chunks \subseteq Ids /\ vectors \subseteq Ids
    /\ snapped \subseteq Commits /\ latest \in Commits \cup {NoCommit}
    /\ pc \in Idle \cup Busy
    /\ mode \in {"none", "full", "incremental", "repair"}
    /\ commit \in Commits \cup {NoCommit} /\ (pc \in Busy => commit \in Commits)
    /\ found \subseteq Paths /\ toChunk \subseteq Paths
    /\ changed \subseteq Paths /\ deleted \subseteq Paths
    /\ new \subseteq Ids /\ left \subseteq new
    /\ points \subseteq stored /\ stored \subseteq new
    /\ stage \in {"none", "all", "deleted", "changed"} /\ doomed \subseteq Ids
    /\ runs \in 0..MaxRuns /\ edits \in 0..MaxEdits /\ faults \in 0..MaxFaults
    /\ hurt \in {"no", "yes"} /\ health \in {"clean", "dirty"}
    /\ gone \subseteq Paths

Init ==
    /\ disk \in [Paths -> Contents \cup {Absent, Empty}]
    /\ fileStatus = [p \in Paths |-> "none"]
    /\ fileHash = [p \in Paths |-> NoHash]
    /\ chunks = {} /\ vectors = {}
    /\ snapped = {} /\ latest = NoCommit
    /\ pc = "idle" /\ mode = "none" /\ commit = NoCommit
    /\ found = {} /\ toChunk = {} /\ changed = {} /\ deleted = {}
    /\ new = {} /\ left = {} /\ stored = {} /\ points = {}
    /\ stage = "none" /\ doomed = {}
    /\ runs = 0 /\ edits = 0 /\ faults = 0
    /\ hurt = "no" /\ health = "clean" /\ gone = {}

\* A statement, a call or a read fails: the run is hurt.
Fault ==
    /\ faults < MaxFaults
    /\ faults' = faults + 1
    /\ hurt' = "yes" /\ health' = "dirty"
    /\ UNCHANGED <<runs, edits>>

NoFault == UNCHANGED <<budget, mood>>

-----------------------------------------------------------------------------
(***************************************************************************)
(* Discovery and file records.                                             *)
(***************************************************************************)
Listed == {p \in Paths : disk[p] # Absent}

\* A workspace that lists no file while chunks exist is not trusted: the run
\* raises before it writes anything.
BeginRun(c, m) ==
    /\ pc \in Idle
    /\ runs < MaxRuns
    /\ runs' = runs + 1
    /\ pc' = IF Listed = {} /\ chunks # {} THEN "failed" ELSE "record"
    /\ mode' = m /\ commit' = c
    /\ found' = Listed
    /\ toChunk' = {} /\ changed' = {} /\ deleted' = {}
    /\ new' = {} /\ left' = {} /\ stored' = {} /\ points' = {}
    /\ stage' = "none" /\ doomed' = {}
    /\ hurt' = "no"
    /\ UNCHANGED <<gone, disk, store, files, snaps, edits, faults, health>>

\* Rows the pre-fetch reads: no row is ever DELETED (MarkDeleted).  An
\* exception there leaves the set empty.
Known == {p \in Paths : fileStatus[p] # "none"}

\* Mutant: a file that has a row is never chunked again.
NeedsChunkingOnce(p, known) ==
    disk[p] \in Contents /\ (mode = "full" \/ p \notin known)

NeedsChunking(p, known) ==
    /\ disk[p] \in Contents
    /\ \/ mode = "full"
       \/ p \notin known
       \/ fileHash[p] # disk[p]

\* upsert_file_records up to the loop's last commit.  A file that is hashed is
\* scheduled even when its row (or the commit of its batch) is lost.
Record(known, lost) ==
    /\ pc = "record"
    /\ pc' = "mark"
    /\ toChunk' = {p \in found : NeedsChunking(p, known)}
    /\ deleted' = known \ found
    /\ fileStatus' = [p \in Paths |->
         IF p \notin found \ lost THEN fileStatus[p]
         ELSE IF disk[p] \in Contents THEN "INDEXED" ELSE "SKIPPED"]
    /\ fileHash' = [p \in Paths |->
         IF p \notin found \ lost THEN fileHash[p]
         ELSE IF disk[p] \in Contents THEN disk[p] ELSE NoHash]
    /\ UNCHANGED <<gone, disk, store, snaps, mode, commit, found, changed, work, cleanup>>

RecordFiles == Record(Known, {}) /\ NoFault
RecordFilesPartly(lost) == lost # {} /\ Record(Known, lost) /\ Fault
RecordFilesBlindly(lost) == Record({}, lost) /\ Fault

\* The UPDATE that would mark deleted files binds a tuple to "path IN :paths"
\* without an expanding parameter.  Neither driver takes a tuple for one
\* value: the statement raises, is rolled back and logged, and the rows of
\* deleted files keep their status and hash.
MarkDeleted ==
    /\ pc = "mark"
    /\ pc' = "select"
    /\ NoFault
    /\ UNCHANGED <<gone, disk, store, files, snaps, plan, work, cleanup>>

-----------------------------------------------------------------------------
(***************************************************************************)
(* What the run has to do.                                                 *)
(***************************************************************************)
Indexed == {p \in Paths : fileStatus[p] = "INDEXED"}
NothingToChunk == mode = "incremental" /\ toChunk = {}

SelectChunking ==
    /\ pc = "select"
    /\ ~NothingToChunk
    /\ pc' = "chunk"
    /\ changed' = toChunk \cap Listed
    /\ NoFault
    /\ UNCHANGED <<gone, disk, store, files, snaps, mode, commit, found, toChunk,
                   deleted, work, cleanup>>

\* "Index up to date": the run returns here and records no snapshot.
SelectNothing ==
    /\ pc = "select"
    /\ NothingToChunk /\ deleted = {}
    /\ Indexed = {} \/ chunks # {}
    /\ pc' = "done"
    /\ NoFault
    /\ UNCHANGED <<gone, disk, store, files, snaps, plan, work, cleanup>>

RepairPaths == IF Indexed \cap found = {} THEN found ELSE Indexed \cap found

Repair ==
    /\ pc = "select"
    /\ NothingToChunk /\ deleted = {}
    /\ Indexed # {}
    /\ pc' = "chunk"
    /\ mode' = "repair"
    /\ toChunk' = RepairPaths
    /\ changed' = RepairPaths \cap Listed
    /\ UNCHANGED <<gone, disk, store, files, snaps, commit, found, deleted, work, cleanup>>

SelectRepair == chunks = {} /\ Repair /\ NoFault

\* _count_repository_chunks swallows an exception and answers 0.
SelectRepairByMiscount == chunks # {} /\ Repair /\ Fault

SelectRemoval ==
    /\ pc = "select"
    /\ NothingToChunk /\ deleted # {}
    /\ pc' = "collect"
    /\ stage' = "deleted"
    /\ NoFault
    /\ UNCHANGED <<gone, disk, store, files, snaps, plan, work, doomed>>

-----------------------------------------------------------------------------
(***************************************************************************)
(* Chunking and _upsert_chunks.                                            *)
(***************************************************************************)
\* Mutant: a full run cleans up whatever it produced.
CleanupStageAlways(produced) ==
    IF mode # "incremental" THEN "all"
    ELSE IF deleted # {} THEN "deleted"
    ELSE IF changed # {} /\ produced # {} THEN "changed"
    ELSE "none"

\* Where a run goes once its chunks, if any, are in both stores.
CleanupStage(produced) ==
    IF mode # "incremental" THEN IF produced # {} THEN "all" ELSE "none"
    ELSE IF deleted # {} THEN "deleted"
    ELSE IF changed # {} /\ produced # {} THEN "changed"
    ELSE "none"

ToCleanup(produced) ==
    /\ stage' = CleanupStage(produced)
    /\ pc' = IF CleanupStage(produced) = "none" THEN "snapshot" ELSE "collect"

\* The files are read a second time; one that cannot be read yields nothing.
Produced(unread) ==
    {c \in Ids : /\ c[1] = commit
                 /\ PathOf(c) \in toChunk \ unread
                 /\ disk[PathOf(c)] = ContentOf(c)}

Chunk(unread) ==
    /\ pc = "chunk"
    /\ new' = Produced(unread)
    /\ left' = Produced(unread)
    /\ IF Produced(unread) = {} THEN ToCleanup({}) ELSE pc' = "store" /\ UNCHANGED stage
    /\ UNCHANGED <<gone, disk, store, files, snaps, plan, stored, points, doomed>>

ChunkFiles == Chunk({}) /\ NoFault

ChunkFilesPartly(unread) == unread # {} /\ Chunk(unread) /\ Fault

StoreRow(c) ==
    /\ pc = "store"
    /\ c \in left
    /\ left' = left \ {c}
    /\ chunks' = chunks \cup {c}
    /\ stored' = stored \cup {c}
    /\ gone' = gone \ {PathOf(c)}
    /\ UNCHANGED <<disk, vectors, files, snaps, pc, plan, new, cleanup>>

StoreChunk(c) == StoreRow(c) /\ points' = points \cup {c} /\ NoFault

\* No embedding, or no pgvector: the row is stored, a point is not queued.
StoreUnembedded(c) == StoreRow(c) /\ UNCHANGED points /\ Fault

\* Mutant: a row that failed is queued for Qdrant all the same.
SkipRowQueued(c) ==
    /\ pc = "store"
    /\ c \in left
    /\ left' = left \ {c}
    /\ points' = points \cup {c}
    /\ Fault
    /\ UNCHANGED <<gone, disk, store, files, snaps, pc, plan, new, stored, cleanup>>

SkipRow(c) ==
    /\ pc = "store"
    /\ c \in left
    /\ left' = left \ {c}
    /\ Fault
    /\ UNCHANGED <<gone, disk, store, files, snaps, pc, plan, new, stored, points, cleanup>>

\* Five embedding failures in a row: the batches before stay committed.
AbortEmbedding ==
    /\ pc = "store"
    /\ left # {}
    /\ pc' = "failed"
    /\ Fault
    /\ UNCHANGED <<gone, disk, store, files, snaps, plan, work, cleanup>>

StoredAll ==
    /\ pc = "store"
    /\ left = {} /\ points # {}
    /\ pc' = "publish"
    /\ NoFault
    /\ UNCHANGED <<gone, disk, store, files, snaps, plan, work, cleanup>>

StoredNothing ==
    /\ pc = "store"
    /\ left = {} /\ stored = {}
    /\ pc' = "failed"
    /\ NoFault
    /\ UNCHANGED <<gone, disk, store, files, snaps, plan, work, cleanup>>

StoredWithoutVectors ==
    /\ pc = "store"
    /\ left = {} /\ stored # {} /\ points = {}
    /\ ToCleanup(new)
    /\ NoFault
    /\ UNCHANGED <<gone, disk, store, files, snaps, plan, work, doomed>>

\* Mutant: points are published for every chunk produced, stored or not.
PublishAll ==
    /\ pc = "publish"
    /\ vectors' = vectors \cup new
    /\ ToCleanup(new)
    /\ NoFault
    /\ UNCHANGED <<gone, disk, chunks, files, snaps, plan, work, doomed>>

PublishVectors ==
    /\ pc = "publish"
    /\ vectors' = vectors \cup points
    /\ ToCleanup(new)
    /\ NoFault
    /\ UNCHANGED <<gone, disk, chunks, files, snaps, plan, work, doomed>>

\* "Failed to sync ... Please retry indexing": some batches may be in Qdrant.
PublishFails(S) ==
    /\ pc = "publish"
    /\ S \subseteq points
    /\ vectors' = vectors \cup S
    /\ pc' = "failed"
    /\ Fault
    /\ UNCHANGED <<gone, disk, chunks, files, snaps, plan, work, cleanup>>

-----------------------------------------------------------------------------
(***************************************************************************)
(* _apply_post_index_cleanup: Qdrant first, then Postgres.                 *)
(***************************************************************************)
\* path = :rel OR path LIKE '%/rel' for one of the given paths.
Matches(P) == {p \in Paths : p \in P \/ \E r \in P : <<r, p>> \in Nested}
ChunksOf(P) == {c \in chunks : PathOf(c) \in Matches(P)}

\* Mutant: a full run prunes the paths it re-chunked only.
StaleOfPaths == ChunksOf(IF stage = "deleted" THEN deleted ELSE changed) \ new

Stale ==
    CASE stage = "deleted" -> ChunksOf(deleted)
      [] stage = "changed" -> ChunksOf(changed) \ new
      [] OTHER -> chunks \ new

Collect ==
    /\ pc = "collect"
    /\ pc' = "withdraw"
    /\ doomed' = Stale
    /\ NoFault
    /\ UNCHANGED <<gone, disk, store, files, snaps, plan, work, stage>>

\* Mutant: Postgres is cleaned although Qdrant was not.
WithdrawNothing ==
    /\ pc = "withdraw"
    /\ pc' = "discard"
    /\ NoFault
    /\ UNCHANGED <<gone, disk, store, files, snaps, plan, work, cleanup>>

WithdrawVectors ==
    /\ pc = "withdraw"
    /\ pc' = "discard"
    /\ vectors' = vectors \ doomed
    /\ NoFault
    /\ UNCHANGED <<gone, disk, chunks, files, snaps, plan, work, cleanup>>

\* The three attempts fail; a batch may have been deleted all the same.
WithdrawFails(S) ==
    /\ pc = "withdraw"
    /\ S \subseteq doomed
    /\ vectors' = vectors \ S
    /\ pc' = "failed"
    /\ Fault
    /\ UNCHANGED <<gone, disk, chunks, files, snaps, plan, work, cleanup>>

MoreCleanup == stage = "deleted" /\ changed # {} /\ new # {}

DiscardRows ==
    /\ pc = "discard"
    /\ chunks' = chunks \ doomed
    /\ pc' = IF MoreCleanup THEN "collect" ELSE "snapshot"
    /\ stage' = IF MoreCleanup THEN "changed" ELSE stage
    /\ gone' = IF stage = "changed" THEN gone ELSE gone \cup deleted
    /\ NoFault
    /\ UNCHANGED <<disk, vectors, files, snaps, plan, work, doomed>>

DiscardFails ==
    /\ pc = "discard"
    /\ pc' = "failed"
    /\ Fault
    /\ UNCHANGED <<gone, disk, store, files, snaps, plan, work, cleanup>>

-----------------------------------------------------------------------------
(***************************************************************************)
(* The snapshot, and the environment.                                      *)
(***************************************************************************)
\* A full or repair run that met no fault has rebuilt the index.
Rebuilt == mode # "incremental" /\ new # {} /\ hurt = "no"

FinishRun ==
    /\ pc = "snapshot"
    /\ pc' = "done"
    /\ UNCHANGED <<gone, disk, store, files, plan, work, cleanup>>

\* create_snapshot returns early when the commit already has a snapshot.
CreateSnapshot ==
    /\ FinishRun
    /\ snapped' = snapped \cup {commit}
    /\ latest' = IF commit \in snapped THEN latest ELSE commit
    /\ health' = IF Rebuilt THEN "clean" ELSE health
    /\ UNCHANGED <<budget, hurt>>

\* Non-fatal: rolled back and logged.
SnapshotFails == FinishRun /\ UNCHANGED snaps /\ Fault

Crash ==
    /\ pc \in Busy
    /\ pc' = "failed"
    /\ Fault
    /\ UNCHANGED <<gone, disk, store, files, snaps, plan, work, cleanup>>

\* The working copy changes, perhaps while a run reads it.
Edit(p, s) ==
    /\ edits < MaxEdits
    /\ edits' = edits + 1
    /\ s # disk[p]
    /\ disk' = [disk EXCEPT ![p] = s]
    /\ IF pc \in {"record", "mark", "select", "chunk"}
       THEN hurt' = "yes" /\ health' = "dirty"
       ELSE UNCHANGED mood
    /\ UNCHANGED <<gone, store, files, snaps, pc, plan, work, cleanup, runs, faults>>

RunStep ==
    \/ RecordFiles
    \/ \E lost \in SUBSET found : RecordFilesPartly(lost) \/ RecordFilesBlindly(lost)
    \/ MarkDeleted
    \/ SelectChunking \/ SelectNothing \/ SelectRepair
    \/ SelectRepairByMiscount \/ SelectRemoval
    \/ ChunkFiles \/ \E unread \in SUBSET toChunk : ChunkFilesPartly(unread)
    \/ \E c \in left : StoreChunk(c) \/ StoreUnembedded(c) \/ SkipRow(c)
    \/ AbortEmbedding \/ StoredAll \/ StoredNothing \/ StoredWithoutVectors
    \/ PublishVectors \/ \E S \in SUBSET points : PublishFails(S)
    \/ Collect
    \/ WithdrawVectors \/ \E S \in SUBSET doomed : WithdrawFails(S)
    \/ DiscardRows \/ DiscardFails
    \/ CreateSnapshot \/ SnapshotFails

Next ==
    \/ \E c \in Commits, m \in {"full", "incremental"} : BeginRun(c, m)
    \/ RunStep
    \/ Crash
    \/ \E p \in Paths, s \in Contents \cup {Absent, Empty} : Edit(p, s)

Spec == Init /\ [][Next]_vars

-----------------------------------------------------------------------------
(***************************************************************************)
(* Properties.                                                             *)
(***************************************************************************)
\* The two stores follow the protocol of TwoStores through every partial
\* failure and crash: no point without its row, no row dropped under a point.
Stores == INSTANCE TwoStores
TwoStoresSpec == Stores!Spec

\* A vector hit always has its row, also between the steps of a run and after
\* a run that died half way.
NoOrphanVectors == vectors \subseteq chunks

\* Unless some run was hurt since the last rebuild, between runs both stores
\* agree and every file with an INDEXED row is found under exactly the content
\* its hash was recorded for, or not at all from the run that removed the
\* chunks of the deleted file to the one that stores a chunk of it again.
ContentsAt(p) == {ContentOf(c) : c \in {d \in chunks : PathOf(d) = p}}

IndexFaithful ==
    pc \in Idle /\ health = "clean" =>
        /\ vectors = chunks
        /\ \A p \in Paths : fileStatus[p] = "INDEXED" =>
               ContentsAt(p) = IF p \in gone THEN {} ELSE {fileHash[p]}

\* "Index up to date (no file changes)": what a run finds with nothing left to
\* chunk is searchable, file by file.
UpToDateIsTrue ==
    pc = "done" /\ mode = "incremental" /\ toChunk = {} /\ health = "clean" =>
        \A p \in found : fileStatus[p] = "INDEXED" => ContentsAt(p) # {}

\* A full or repair run that produced chunks and reached its end leaves no
\* chunk it did not produce in either store, whatever earlier runs left.
FullRunRebuilds ==
    pc = "done" /\ mode \in {"full", "repair"} /\ new # {} =>
        stored \subseteq chunks /\ chunks \subseteq new /\ vectors \subseteq new

\* A run that stored nothing (embeddings down, nothing readable, nothing
\* listed) takes away no chunk but those of files it found deleted: an empty
\* result never wipes the index.
RemovalNeedsStore ==
    [][\A c \in chunks \ chunks' : stored # {} \/ PathOf(c) \in Matches(deleted)]_vars

\* Cleanup is said to remove stale vectors only: an incremental run leaves
\* the chunks of a file it neither found deleted nor re-chunked.
OnlyStaleRemoved ==
    [][mode = "incremental" =>
        \A c \in chunks \ chunks' : PathOf(c) \in deleted \cup toChunk]_vars

\* After a failed sync the caller is told to retry once Qdrant runs: a retry
\* that meets no fault ends with a vector for every row.
RetrySyncs == pc = "done" /\ hurt = "no" => chunks \subseteq vectors
=============================================================================
