---------------------------- MODULE IndexingJobs ----------------------------
(***************************************************************************)
(* Queueing, dispatch and execution of the indexing jobs of one            *)
(* repository: queue_repository_indexing and trigger_repository_indexing   *)
(* (api/v1/repositories/service.py), the RQ queue and worker, and the      *)
(* repository lock.  The pipeline that runs under the lock is module       *)
(* IndexPipeline; here it succeeds or raises.                              *)
(*                                                                         *)
(* A job is identified with the request that inserts its row, so a job j   *)
(* has a request stage req[j], a row status status[j] and a run stage      *)
(* run[j].  An attempt number tells a re-run of a job from the run that    *)
(* died: each attempt takes the lock under a token of its own.             *)
(***************************************************************************)
EXTENDS Naturals, Sequences

CONSTANTS
    Jobs,          \* requests, each with the job it may insert
    Webhooks,      \* the requests made by the GitHub webhook
    Commits, CommitOf,   \* commit_sha of each request
    ApiProcs,      \* API server processes
    Workers,       \* RQ worker processes
    Threaded,      \* indexing_local_fallback_enabled and not production-like
    Production,    \* is_production_like
    MaxRetries,    \* indexing_worker_max_retries
    CrashProne,    \* processes that may die
    MaxCrashes, MaxDbFailures, MaxFlips,   \* bounds on the environment
    Free, NoProc

Procs == ApiProcs \cup Workers

ASSUME JobsAssumption ==
    /\ Webhooks \subseteq Jobs
    /\ CommitOf \in [Jobs -> Commits]
    /\ CrashProne \subseteq Procs
    /\ ApiProcs \cap Workers = {}
    /\ Threaded \in BOOLEAN /\ Production \in BOOLEAN
    /\ Production => ~Threaded
    /\ MaxRetries \in Nat /\ MaxCrashes \in Nat
    /\ MaxDbFailures \in Nat /\ MaxFlips \in Nat
    /\ NoProc \notin Procs
    /\ Free \notin Jobs \X (0..MaxRetries)

VARIABLES
    req,           \* stage of the API request
    status,        \* indexing_jobs.status
    rows,          \* inserted jobs in created_at order
    queue,         \* the RQ queue
    run,           \* stage of the job's run
    proc,          \* process that handles the request, then runs the job
    attempt,       \* re-runs RQ has made of the job
    kind,          \* lock the run holds: "none", "redis" or "local"
    indexed,       \* jobs whose pipeline returned normally (auxiliary)
    crashes, dbFailures, flips,         \* environment budgets used
    raced,         \* requests overtaken between check and INSERT (auxiliary)
    revived,       \* settled jobs that were started again (auxiliary)
    redisLock, localLock, available

locks == <<redisLock, localLock, available>>
Tokens == Jobs \X (0..MaxRetries)

INSTANCE RepositoryLock WITH Holders <- Tokens

reqVars == <<req, rows, raced>>
runVars == <<run, proc, attempt, kind, indexed>>
envVars == <<crashes, dbFailures, flips>>
vars == <<reqVars, runVars, envVars, status, queue, revived, locks>>

Active == {"pending", "running"}
Settled == {"completed", "failed"}
Token(j) == <<j, attempt[j]>>

ReqStages == {"new", "commitChecked", "admitted", "inserted", "enqueueFailed",
              "accepted", "conflict", "duplicate", "error"}
RunStages == {"none", "queued", "scheduled", "start", "lock", "lockRedis",
              "lockLocal", "index", "unlockOk", "unlockFail", "complete",
              "markFailed", "returned", "over", "dead"}

TypeOK ==
    /\ req \in [Jobs -> ReqStages]
    /\ status \in [Jobs -> Active \cup Settled \cup {"absent"}]
    /\ rows \in Seq(Jobs)
    /\ queue \in Seq(Jobs)
    /\ run \in [Jobs -> RunStages]
    /\ proc \in [Jobs -> Procs \cup {NoProc}]
    /\ attempt \in [Jobs -> 0..MaxRetries]
    /\ kind \in [Jobs -> {"none", "redis", "local"}]
    /\ indexed \subseteq Jobs
    /\ crashes \in 0..MaxCrashes
    /\ dbFailures \in 0..MaxDbFailures
    /\ flips \in 0..MaxFlips
    /\ raced \subseteq Jobs /\ revived \subseteq Jobs
    /\ LockTypeOK

Init ==
    /\ req = [j \in Jobs |-> "new"]
    /\ status = [j \in Jobs |-> "absent"]
    /\ rows = <<>> /\ queue = <<>>
    /\ run = [j \in Jobs |-> "none"]
    /\ proc = [j \in Jobs |-> NoProc]
    /\ attempt = [j \in Jobs |-> 0]
    /\ kind = [j \in Jobs |-> "none"]
    /\ indexed = {}
    /\ crashes = 0 /\ dbFailures = 0 /\ flips = 0
    /\ raced = {} /\ revived = {}
    /\ LockInit

-----------------------------------------------------------------------------
(***************************************************************************)
(* The request: queue_repository_indexing.                                 *)
(***************************************************************************)
ReqTo(j, stage) == req' = [req EXCEPT ![j] = stage]
RunTo(j, stage) == run' = [run EXCEPT ![j] = stage]
StatusTo(j, s) == status' = [status EXCEPT ![j] = s]

\* A database statement fails: the environment's budget is charged.
DbFails ==
    /\ dbFailures < MaxDbFailures
    /\ dbFailures' = dbFailures + 1
    /\ UNCHANGED <<crashes, flips>>

\* SELECT ... WHERE commit_sha = :c ORDER BY created_at DESC LIMIT 1
LatestForCommit(c, j) ==
    \E i \in DOMAIN rows :
        /\ rows[i] = j
        /\ CommitOf[j] = c
        /\ \A k \in DOMAIN rows : k > i => CommitOf[rows[k]] # c

CommitAlreadyIndexed(c) ==
    \E j \in Jobs : LatestForCommit(c, j) /\ status[j] \in Active \cup {"completed"}

CheckCommit(j) ==
    /\ j \in Webhooks
    /\ req[j] = "new"
    /\ ReqTo(j, IF CommitAlreadyIndexed(CommitOf[j]) THEN "duplicate" ELSE "commitChecked")
    /\ UNCHANGED <<rows, raced, runVars, envVars, status, queue, revived, locks>>

\* Mutant: only a running job counts as active.
HasRunningJob == \E j \in Jobs : status[j] = "running"

\* SELECT ... WHERE status IN ('pending', 'running') LIMIT 1
HasActiveJob == \E j \in Jobs : status[j] \in Active

CheckActive(j) ==
    /\ req[j] = IF j \in Webhooks THEN "commitChecked" ELSE "new"
    /\ IF HasActiveJob
       THEN ReqTo(j, "conflict") /\ UNCHANGED raced
       ELSE /\ ReqTo(j, "admitted")
            /\ raced' = raced \cup {k \in Jobs \ {j} : req[k] = "admitted"}
    /\ UNCHANGED <<rows, runVars, envVars, status, queue, revived, locks>>

InsertJob(j) ==
    /\ req[j] = "admitted"
    /\ ReqTo(j, "inserted")
    /\ StatusTo(j, "pending")
    /\ rows' = Append(rows, j)
    /\ \E p \in ApiProcs : proc' = [proc EXCEPT ![j] = p]
    /\ UNCHANGED <<raced, run, attempt, kind, indexed, envVars, queue, revived, locks>>

InsertFails(j) ==
    /\ req[j] = "admitted"
    /\ DbFails
    /\ ReqTo(j, "error")
    /\ UNCHANGED <<rows, raced, runVars, status, queue, revived, locks>>

\* _start_local_indexing_thread: a daemon thread of the API process.
DispatchThread(j) ==
    /\ Threaded
    /\ req[j] = "inserted"
    /\ ReqTo(j, "accepted")
    /\ RunTo(j, "start")
    /\ UNCHANGED <<rows, raced, proc, attempt, kind, indexed, envVars, status,
                   queue, revived, locks>>

Enqueue(j) ==
    /\ queue' = Append(queue, j)
    /\ RunTo(j, "queued")
    /\ proc' = [proc EXCEPT ![j] = NoProc]

DispatchQueue(j) ==
    /\ ~Threaded
    /\ req[j] = "inserted"
    /\ ReqTo(j, "accepted")
    /\ Enqueue(j)
    /\ UNCHANGED <<rows, raced, attempt, kind, indexed, envVars, status, revived, locks>>

\* enqueue_indexing_job raises before Redis stored the job ...
EnqueueRaises(j) ==
    /\ ~Threaded
    /\ req[j] = "inserted"
    /\ ReqTo(j, "enqueueFailed")
    /\ UNCHANGED <<rows, raced, runVars, envVars, status, queue, revived, locks>>

\* ... or after (the reply was lost), in which case a worker will take it.
EnqueueReplyLost(j) ==
    /\ ~Threaded
    /\ req[j] = "inserted"
    /\ ReqTo(j, "enqueueFailed")
    /\ Enqueue(j)
    /\ UNCHANGED <<rows, raced, attempt, kind, indexed, envVars, status, revived, locks>>

MarkEnqueueFailed(j) ==
    /\ req[j] = "enqueueFailed"
    /\ ReqTo(j, "error")
    /\ StatusTo(j, "failed")
    /\ UNCHANGED <<rows, raced, runVars, envVars, queue, revived, locks>>

\* The UPDATE to 'failed' itself fails: logged, and the row stays pending.
MarkEnqueueFailedLost(j) ==
    /\ req[j] = "enqueueFailed"
    /\ ReqTo(j, "error")
    /\ DbFails
    /\ UNCHANGED <<rows, raced, runVars, status, queue, revived, locks>>

RequestStep(j) ==
    \/ CheckCommit(j) \/ CheckActive(j)
    \/ InsertJob(j) \/ InsertFails(j)
    \/ DispatchThread(j) \/ DispatchQueue(j)
    \/ EnqueueRaises(j) \/ EnqueueReplyLost(j)
    \/ MarkEnqueueFailed(j) \/ MarkEnqueueFailedLost(j)

-----------------------------------------------------------------------------
(***************************************************************************)
(* The run: trigger_repository_indexing in a worker or in a thread.        *)
(***************************************************************************)
Running(j) == run[j] \notin {"none", "queued", "scheduled", "over", "dead"}

\* An idle RQ worker takes the head of the queue.
WorkerTakes(w) ==
    /\ queue # <<>>
    /\ \A j \in Jobs : Running(j) => proc[j] # w
    /\ LET j == Head(queue) IN
       /\ RunTo(j, "start")
       /\ proc' = [proc EXCEPT ![j] = w]
    /\ queue' = Tail(queue)
    /\ UNCHANGED <<reqVars, attempt, kind, indexed, envVars, status, revived, locks>>

\* UPDATE ... SET status = 'running' WHERE id = :id, whatever the status was.
StartRun(j) ==
    /\ run[j] = "start"
    /\ RunTo(j, "lock")
    /\ StatusTo(j, "running")
    /\ revived' = IF status[j] \in Settled THEN revived \cup {j} ELSE revived
    /\ UNCHANGED <<reqVars, proc, attempt, kind, indexed, envVars, queue, locks>>

StartFails(j) ==
    /\ run[j] = "start"
    /\ RunTo(j, "markFailed")
    /\ DbFails
    /\ UNCHANGED <<reqVars, proc, attempt, kind, indexed, status, queue, revived, locks>>

ChooseLock(j) ==
    /\ run[j] = "lock"
    /\ \/ UsesRedis(proc[j]) /\ RunTo(j, "lockRedis")
       \/ UsesLocal(proc[j]) /\ RunTo(j, "lockLocal")
       \/ RefusesLock(proc[j]) /\ RunTo(j, "markFailed")
    /\ UNCHANGED <<reqVars, proc, attempt, kind, indexed, envVars, status,
                   queue, revived, locks>>

TakeRedisLock(j) ==
    /\ run[j] = "lockRedis"
    /\ AcquireRedis(Token(j))
    /\ kind' = [kind EXCEPT ![j] = "redis"]
    /\ RunTo(j, "index")
    /\ UNCHANGED <<reqVars, proc, attempt, indexed, envVars, status, queue, revived>>

TakeLocalLock(j) ==
    /\ run[j] = "lockLocal"
    /\ AcquireLocal(Token(j), proc[j])
    /\ kind' = [kind EXCEPT ![j] = "local"]
    /\ RunTo(j, "index")
    /\ UNCHANGED <<reqVars, proc, attempt, indexed, envVars, status, queue, revived>>

\* acquire_timeout passes with the lock taken, or the Redis call raises.
LockFails(j) ==
    /\ \/ run[j] = "lockRedis"
       \/ run[j] = "lockLocal" /\ localLock[proc[j]] # Free
    /\ RunTo(j, "markFailed")
    /\ UNCHANGED <<reqVars, proc, attempt, kind, indexed, envVars, status,
                   queue, revived, locks>>

IndexReturns(j) ==
    /\ run[j] = "index"
    /\ indexed' = indexed \cup {j}
    /\ RunTo(j, "unlockOk")
    /\ UNCHANGED <<reqVars, proc, attempt, kind, envVars, status, queue, revived, locks>>

\* The pipeline raises, or the RQ job timeout interrupts it.
IndexRaises(j) ==
    /\ run[j] = "index"
    /\ RunTo(j, "unlockFail")
    /\ UNCHANGED <<reqVars, proc, attempt, kind, indexed, envVars, status,
                   queue, revived, locks>>

\* Mutant: the outcome of the pipeline is lost on the way out of the lock.
UnlockForgetsOutcome(j) ==
    /\ run[j] \in {"unlockOk", "unlockFail"}
    /\ RunTo(j, "complete")
    /\ \/ kind[j] = "redis" /\ (ReleaseRedis(Token(j)) \/ ReleaseRedisLost)
       \/ kind[j] = "local" /\ ReleaseLocal(proc[j])
    /\ kind' = [kind EXCEPT ![j] = "none"]
    /\ UNCHANGED <<reqVars, proc, attempt, indexed, envVars, status, queue, revived>>

Unlock(j) ==
    /\ run[j] \in {"unlockOk", "unlockFail"}
    /\ RunTo(j, IF run[j] = "unlockOk" THEN "complete" ELSE "markFailed")
    /\ \/ kind[j] = "redis" /\ (ReleaseRedis(Token(j)) \/ ReleaseRedisLost)
       \/ kind[j] = "local" /\ ReleaseLocal(proc[j])
    /\ kind' = [kind EXCEPT ![j] = "none"]
    /\ UNCHANGED <<reqVars, proc, attempt, indexed, envVars, status, queue, revived>>

MarkCompleted(j) ==
    /\ run[j] = "complete"
    /\ RunTo(j, "returned")
    /\ StatusTo(j, "completed")
    /\ UNCHANGED <<reqVars, proc, attempt, kind, indexed, envVars, queue, revived, locks>>

CompleteFails(j) ==
    /\ run[j] = "complete"
    /\ RunTo(j, "markFailed")
    /\ DbFails
    /\ UNCHANGED <<reqVars, proc, attempt, kind, indexed, status, queue, revived, locks>>

\* Mutant: the error path writes a status outside the CHECK constraint.
MarkErrored(j) ==
    /\ run[j] = "markFailed"
    /\ RunTo(j, "returned")
    /\ StatusTo(j, "error")
    /\ UNCHANGED <<reqVars, proc, attempt, kind, indexed, envVars, queue, revived, locks>>

MarkFailed(j) ==
    /\ run[j] = "markFailed"
    /\ RunTo(j, "returned")
    /\ StatusTo(j, "failed")
    /\ UNCHANGED <<reqVars, proc, attempt, kind, indexed, envVars, queue, revived, locks>>

\* The rollback path fails too: logged and swallowed, the row stays active.
MarkFailedLost(j) ==
    /\ run[j] = "markFailed"
    /\ RunTo(j, "returned")
    /\ DbFails
    /\ UNCHANGED <<reqVars, proc, attempt, kind, indexed, status, queue, revived, locks>>

\* Mutant: a thread that returned runs its job once more.
FinishAndRepeat(j) ==
    /\ run[j] = "returned"
    /\ RunTo(j, "start")
    /\ UNCHANGED <<reqVars, proc, attempt, kind, indexed, envVars, status,
                   queue, revived, locks>>

\* The worker function never raises, so RQ records success and drops the job;
\* a thread simply ends.
Finish(j) ==
    /\ run[j] = "returned"
    /\ RunTo(j, "over")
    /\ UNCHANGED <<reqVars, proc, attempt, kind, indexed, envVars, status,
                   queue, revived, locks>>

\* RQ's scheduler puts a job it re-runs back on the queue after its interval.
Reschedule(j) ==
    /\ run[j] = "scheduled"
    /\ Enqueue(j)
    /\ UNCHANGED <<reqVars, attempt, kind, indexed, envVars, status, revived, locks>>

RunStep(j) ==
    \/ StartRun(j) \/ StartFails(j)
    \/ ChooseLock(j) \/ TakeRedisLock(j) \/ TakeLocalLock(j) \/ LockFails(j)
    \/ IndexReturns(j) \/ IndexRaises(j) \/ Unlock(j)
    \/ MarkCompleted(j) \/ CompleteFails(j)
    \/ MarkFailed(j) \/ MarkFailedLost(j)
    \/ Finish(j) \/ Reschedule(j)

-----------------------------------------------------------------------------
(***************************************************************************)
(* The environment: a process dies, Redis comes and goes, the TTL fires.   *)
(***************************************************************************)
RunsOn(p) == {j \in Jobs : Running(j) /\ proc[j] = p}

\* Mutant: the queue is created without a retry policy.
NeverRetried(j) == "dead"

\* What becomes of a run whose process died: RQ re-runs a dead work horse's
\* job while retries are left; a thread is lost.
AfterCrash(j) ==
    IF ~Threaded /\ attempt[j] < MaxRetries THEN "scheduled" ELSE "dead"

Crash(p) ==
    /\ p \in CrashProne
    /\ crashes < MaxCrashes
    /\ crashes' = crashes + 1
    /\ run' = [j \in Jobs |-> IF j \in RunsOn(p) THEN AfterCrash(j) ELSE run[j]]
    /\ attempt' = [j \in Jobs |->
                    IF j \in RunsOn(p) /\ AfterCrash(j) = "scheduled"
                    THEN attempt[j] + 1 ELSE attempt[j]]
    /\ kind' = [j \in Jobs |-> IF j \in RunsOn(p) THEN "none" ELSE kind[j]]
    /\ req' = [j \in Jobs |->
                IF proc[j] = p /\ req[j] \in {"inserted", "enqueueFailed"}
                THEN "error" ELSE req[j]]
    /\ localLock' = [localLock EXCEPT ![p] = Free]
    /\ available' = [available EXCEPT ![p] = TRUE]
    /\ UNCHANGED <<rows, raced, proc, indexed, dbFailures, flips, status,
                   queue, revived, redisLock>>

RedisFlips(p) ==
    /\ flips < MaxFlips
    /\ flips' = flips + 1
    /\ FlipAvailability(p)
    /\ UNCHANGED <<reqVars, runVars, crashes, dbFailures, status, queue, revived>>

\* The run that owns token t is still between acquiring and releasing.
HeldByLiveRun(t) ==
    \E j \in Jobs : t = Token(j) /\ kind[j] = "redis"

\* Mutant: a TTL shorter than the job timeout.
LockExpiresEarly ==
    /\ ExpireRedisLock
    /\ UNCHANGED <<reqVars, runVars, envVars, status, queue, revived>>

\* The TTL (3600 s) outlives the RQ job timeout (2700 s), so in a worker it
\* only fires on a lock whose holder is gone; a thread has no timeout.
LockExpires ==
    /\ Threaded \/ ~HeldByLiveRun(redisLock)
    /\ ExpireRedisLock
    /\ UNCHANGED <<reqVars, runVars, envVars, status, queue, revived>>

Environment ==
    \/ \E p \in Procs : Crash(p) \/ RedisFlips(p)
    \/ LockExpires

AllDone ==
    /\ \A j \in Jobs : /\ req[j] \in {"accepted", "conflict", "duplicate", "error"}
                       /\ run[j] \in {"none", "over", "dead"}
    /\ UNCHANGED vars

Next ==
    \/ \E j \in Jobs : RequestStep(j) \/ RunStep(j)
    \/ \E w \in Workers : WorkerTakes(w)
    \/ Environment
    \/ AllDone

Spec == Init /\ [][Next]_vars

\* Requests, threads and workers are scheduled; the environment owes nothing.
Fairness ==
    /\ \A j \in Jobs : WF_vars(RequestStep(j)) /\ WF_vars(RunStep(j))
    /\ \A w \in Workers : WF_vars(WorkerTakes(w))

FairSpec == Spec /\ Fairness

-----------------------------------------------------------------------------
(***************************************************************************)
(* Properties.                                                             *)
(***************************************************************************)
InPipeline == {j \in Jobs : run[j] = "index"}

\* In a production-like deployment two runs never index the repository at
\* once, whatever crashes, re-runs, lost releases and Redis outages happen:
\* the lock of index_repository really excludes.
PipelineMutex == \A j, k \in InPipeline : j = k

\* A run inside the pipeline owns the Redis key under its own token, or,
\* outside production and when Redis was down, the lock of its process.  An
\* expired or stolen lock under a running worker would break it.
LockBacksPipeline ==
    \A j \in InPipeline :
        \/ kind[j] = "redis" /\ redisLock = Token(j)
        \/ kind[j] = "local" /\ localLock[proc[j]] = Token(j) /\ ~Production

\* The check for an active job and the INSERT are separate transactions; when
\* no two requests were between them together and RQ re-ran no settled job, a
\* repository has at most one pending or running job.
OneActiveJobUnlessRaced ==
    raced # {} \/ revived # {} \/ \A j, k \in Jobs :
        status[j] \in Active /\ status[k] \in Active => j = k

\* A row says completed only when the pipeline of that job returned normally;
\* in particular a failed or killed run never leaves the row completed.
CompletedWasIndexed == \A j \in Jobs : status[j] = "completed" => j \in indexed

\* The unguarded form of OneActiveJobUnlessRaced, which the 409 answer of
\* POST /index states to the client.
OneActiveJob ==
    \A j, k \in Jobs : status[j] \in Active /\ status[k] \in Active => j = k

\* Lifecycle of the rows as JobLifecycle promises it.
Lifecycle == INSTANCE JobLifecycle
LifecycleSpec == Lifecycle!Spec

Queued(j) == \E i \in DOMAIN queue : queue[i] = j

\* A pending or running row, which refuses every later request with 409,
\* always has somebody who will still settle it: the request that inserted
\* it, the queue, RQ's scheduler or a run that has not returned.  Only a
\* failed database statement or a crash can leave it to nobody, and a crash
\* only as a dead run or a request that ended between INSERT and dispatch.
ActiveIsHeld ==
    \A j \in Jobs : status[j] \in Active =>
        \/ req[j] \in {"inserted", "enqueueFailed"}
        \/ run[j] = "queued" /\ Queued(j)
        \/ run[j] = "scheduled"
        \/ Running(j) /\ run[j] # "returned"
        \/ dbFailures > 0
        \/ crashes > 0 /\ (run[j] = "dead" \/ req[j] = "error")

\* What a row says is so: completed of a job that was indexed, pending or
\* running of a job somebody still has in hand.
RowTellsTruth == CompletedWasIndexed /\ ActiveIsHeld

\* Every job that was inserted ends completed or failed, so that later
\* requests are not refused with 409 for ever.
JobsSettle == \A j \in Jobs : status[j] \in Active ~> status[j] \in Settled
=============================================================================
