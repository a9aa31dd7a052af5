------------------------- MODULE IndexingJobsProofs -------------------------
(***************************************************************************)
(* Proofs about IndexingJobs.  The inductive invariant adds to TypeOK what *)
(* ties the stages of a request, its row, its place in the queue and the   *)
(* lock together; it is needed because a worker that took a job twice, or  *)
(* a run that forgot which lock it holds, would break the exclusion.       *)
(***************************************************************************)
EXTENDS IndexingJobs, TLAPS

Holding == {"index", "unlockOk", "unlockFail"}

\* A request that inserted nothing has no row and no run; a run has a row.
StageInv ==
    \A j \in Jobs :
        /\ req[j] \in {"new", "commitChecked", "admitted"} =>
              status[j] = "absent" /\ run[j] = "none"
        /\ req[j] = "inserted" => run[j] = "none" /\ status[j] # "absent"
        /\ req[j] = "enqueueFailed" => status[j] # "absent"
        /\ run[j] # "none" => status[j] # "absent"
        /\ kind[j] # "none" <=> run[j] \in Holding
        /\ run[j] # "none" /\ Threaded => run[j] # "scheduled"

\* The queue holds each queued job once and nothing else.
QueueInv ==
    /\ \A i \in 1..Len(queue) : run[queue[i]] = "queued"
    /\ \A i, k \in 1..Len(queue) : queue[i] = queue[k] => i = k

\* Whoever holds a lock is recorded in it.
LockInv ==
    \A j \in Jobs :
        /\ kind[j] = "redis" => redisLock = Token(j)
        /\ kind[j] = "local" => localLock[proc[j]] = Token(j) /\ ~Production
        /\ run[j] = "lockLocal" => ~Production
        /\ Running(j) => proc[j] \in Procs

\* Between the check and the INSERT nothing is active and nobody else is
\* between them, unless the auxiliary flags say otherwise.
AdmissionInv ==
    \/ raced # {} \/ revived # {}
    \/ /\ OneActiveJob
       /\ \A j \in Jobs : req[j] = "admitted" =>
             \A k \in Jobs : /\ status[k] \notin Active
                             /\ req[k] = "admitted" => k = j

IndInv == TypeOK /\ StageInv /\ QueueInv /\ (~Threaded => LockInv) /\ AdmissionInv

-----------------------------------------------------------------------------
(* Type correctness. *)

LEMMA InitType == Init => TypeOK
  BY JobsAssumption DEF Init, TypeOK, LockInit, LockTypeOK, Tokens, Procs,
                        ReqStages, RunStages, Active, Settled

LEMMA StepType == TypeOK /\ [Next]_vars => TypeOK'
  <1> SUFFICES ASSUME TypeOK, [Next]_vars PROVE TypeOK'
    OBVIOUS
  <1> USE JobsAssumption DEF TypeOK, LockTypeOK, ReqStages, RunStages, Active, Settled, Procs,
          reqVars, runVars, envVars, locks, ReqTo, RunTo, StatusTo, DbFails, Token, Tokens
  <1>1. ASSUME NEW j \in Jobs, CheckCommit(j) PROVE TypeOK'
    BY <1>1 DEF CheckCommit
  <1>2. ASSUME NEW j \in Jobs, CheckActive(j) PROVE TypeOK'
    BY <1>2 DEF CheckActive
  <1>3. ASSUME NEW j \in Jobs, InsertJob(j) PROVE TypeOK'
    BY <1>3 DEF InsertJob
  <1>4. ASSUME NEW j \in Jobs, InsertFails(j) PROVE TypeOK'
    BY <1>4 DEF InsertFails
  <1>5. ASSUME NEW j \in Jobs, DispatchThread(j) PROVE TypeOK'
    BY <1>5 DEF DispatchThread
  <1>6. ASSUME NEW j \in Jobs, DispatchQueue(j) PROVE TypeOK'
    BY <1>6 DEF DispatchQueue, Enqueue
  <1>7. ASSUME NEW j \in Jobs, EnqueueRaises(j) PROVE TypeOK'
    BY <1>7 DEF EnqueueRaises
  <1>8. ASSUME NEW j \in Jobs, EnqueueReplyLost(j) PROVE TypeOK'
    BY <1>8 DEF EnqueueReplyLost, Enqueue
  <1>9. ASSUME NEW j \in Jobs, MarkEnqueueFailed(j) PROVE TypeOK'
    BY <1>9 DEF MarkEnqueueFailed
  <1>10. ASSUME NEW j \in Jobs, MarkEnqueueFailedLost(j) PROVE TypeOK'
    BY <1>10 DEF MarkEnqueueFailedLost
  <1>11. ASSUME NEW j \in Jobs, StartRun(j) PROVE TypeOK'
    BY <1>11 DEF StartRun
  <1>12. ASSUME NEW j \in Jobs, StartFails(j) PROVE TypeOK'
    BY <1>12 DEF StartFails
  <1>13. ASSUME NEW j \in Jobs, ChooseLock(j) PROVE TypeOK'
    BY <1>13 DEF ChooseLock
  <1>14. ASSUME NEW j \in Jobs, TakeRedisLock(j) PROVE TypeOK'
    BY <1>14 DEF TakeRedisLock, AcquireRedis
  <1>15. ASSUME NEW j \in Jobs, TakeLocalLock(j) PROVE TypeOK'
    BY <1>15 DEF TakeLocalLock, AcquireLocal
  <1>16. ASSUME NEW j \in Jobs, LockFails(j) PROVE TypeOK'
    BY <1>16 DEF LockFails
  <1>17. ASSUME NEW j \in Jobs, IndexReturns(j) PROVE TypeOK'
    BY <1>17 DEF IndexReturns
  <1>18. ASSUME NEW j \in Jobs, IndexRaises(j) PROVE TypeOK'
    BY <1>18 DEF IndexRaises
  <1>19. ASSUME NEW j \in Jobs, Unlock(j) PROVE TypeOK'
    BY <1>19 DEF Unlock, ReleaseRedis, ReleaseRedisLost, ReleaseLocal
  <1>20. ASSUME NEW j \in Jobs, MarkCompleted(j) PROVE TypeOK'
    BY <1>20 DEF MarkCompleted
  <1>21. ASSUME NEW j \in Jobs, CompleteFails(j) PROVE TypeOK'
    BY <1>21 DEF CompleteFails
  <1>22. ASSUME NEW j \in Jobs, MarkFailed(j) PROVE TypeOK'
    BY <1>22 DEF MarkFailed
  <1>23. ASSUME NEW j \in Jobs, MarkFailedLost(j) PROVE TypeOK'
    BY <1>23 DEF MarkFailedLost
  <1>24. ASSUME NEW j \in Jobs, Finish(j) PROVE TypeOK'
    BY <1>24 DEF Finish
  <1>25. ASSUME NEW j \in Jobs, Reschedule(j) PROVE TypeOK'
    BY <1>25 DEF Reschedule, Enqueue
  <1>26. ASSUME NEW w \in Workers, WorkerTakes(w) PROVE TypeOK'
    BY <1>26 DEF WorkerTakes
  <1>27. ASSUME NEW p \in Procs, Crash(p) PROVE TypeOK'
    BY <1>27 DEF Crash, RunsOn, AfterCrash, Running
  <1>28. ASSUME NEW p \in Procs, RedisFlips(p) PROVE TypeOK'
    BY <1>28 DEF RedisFlips, FlipAvailability
  <1>29. CASE LockExpires
    BY <1>29 DEF LockExpires, ExpireRedisLock
  <1>30. CASE UNCHANGED vars
    BY <1>30 DEF vars
  <1>31. QED
    BY <1>1, <1>2, <1>3, <1>4, <1>5, <1>6, <1>7, <1>8, <1>9, <1>10, <1>11,
       <1>12, <1>13, <1>14, <1>15, <1>16, <1>17, <1>18, <1>19, <1>20,
       <1>21, <1>22, <1>23, <1>24, <1>25, <1>26, <1>27, <1>28, <1>29,
       <1>30 DEF Next, RequestStep, RunStep, Environment, AllDone

LEMMA StageStep == TypeOK /\ StageInv /\ QueueInv /\ [Next]_vars => StageInv'
  <1> SUFFICES ASSUME TypeOK, StageInv, QueueInv, [Next]_vars PROVE StageInv'
    OBVIOUS
  <1> USE JobsAssumption DEF TypeOK, StageInv, Holding, ReqStages, RunStages, Active, Settled,
          reqVars, runVars, envVars, locks, ReqTo, RunTo, StatusTo, DbFails
  <1>1. ASSUME NEW j \in Jobs, CheckCommit(j) PROVE StageInv'
    BY <1>1 DEF CheckCommit
  <1>2. ASSUME NEW j \in Jobs, CheckActive(j) PROVE StageInv'
    BY <1>2 DEF CheckActive
  <1>3. ASSUME NEW j \in Jobs, InsertJob(j) PROVE StageInv'
    BY <1>3 DEF InsertJob
  <1>4. ASSUME NEW j \in Jobs, InsertFails(j) PROVE StageInv'
    BY <1>4 DEF InsertFails
  <1>5. ASSUME NEW j \in Jobs, DispatchThread(j) PROVE StageInv'
    BY <1>5 DEF DispatchThread
  <1>6. ASSUME NEW j \in Jobs, DispatchQueue(j) PROVE StageInv'
    BY <1>6 DEF DispatchQueue, Enqueue
  <1>7. ASSUME NEW j \in Jobs, EnqueueRaises(j) PROVE StageInv'
    BY <1>7 DEF EnqueueRaises
  <1>8. ASSUME NEW j \in Jobs, EnqueueReplyLost(j) PROVE StageInv'
    BY <1>8 DEF EnqueueReplyLost, Enqueue
  <1>9. ASSUME NEW j \in Jobs, MarkEnqueueFailed(j) PROVE StageInv'
    BY <1>9 DEF MarkEnqueueFailed
  <1>10. ASSUME NEW j \in Jobs, MarkEnqueueFailedLost(j) PROVE StageInv'
    BY <1>10 DEF MarkEnqueueFailedLost
  <1>11. ASSUME NEW j \in Jobs, StartRun(j) PROVE StageInv'
    BY <1>11 DEF StartRun
  <1>12. ASSUME NEW j \in Jobs, StartFails(j) PROVE StageInv'
    BY <1>12 DEF StartFails
  <1>13. ASSUME NEW j \in Jobs, ChooseLock(j) PROVE StageInv'
    BY <1>13 DEF ChooseLock
  <1>14. ASSUME NEW j \in Jobs, TakeRedisLock(j) PROVE StageInv'
    BY <1>14 DEF TakeRedisLock, AcquireRedis
  <1>15. ASSUME NEW j \in Jobs, TakeLocalLock(j) PROVE StageInv'
    BY <1>15 DEF TakeLocalLock, AcquireLocal
  <1>16. ASSUME NEW j \in Jobs, LockFails(j) PROVE StageInv'
    BY <1>16 DEF LockFails
  <1>17. ASSUME NEW j \in Jobs, IndexReturns(j) PROVE StageInv'
    BY <1>17 DEF IndexReturns
  <1>18. ASSUME NEW j \in Jobs, IndexRaises(j) PROVE StageInv'
    BY <1>18 DEF IndexRaises
  <1>19. ASSUME NEW j \in Jobs, Unlock(j) PROVE StageInv'
    BY <1>19 DEF Unlock, ReleaseRedis, ReleaseRedisLost, ReleaseLocal
  <1>20. ASSUME NEW j \in Jobs, MarkCompleted(j) PROVE StageInv'
    BY <1>20 DEF MarkCompleted
  <1>21. ASSUME NEW j \in Jobs, CompleteFails(j) PROVE StageInv'
    BY <1>21 DEF CompleteFails
  <1>22. ASSUME NEW j \in Jobs, MarkFailed(j) PROVE StageInv'
    BY <1>22 DEF MarkFailed
  <1>23. ASSUME NEW j \in Jobs, MarkFailedLost(j) PROVE StageInv'
    BY <1>23 DEF MarkFailedLost
  <1>24. ASSUME NEW j \in Jobs, Finish(j) PROVE StageInv'
    BY <1>24 DEF Finish
  <1>25. ASSUME NEW j \in Jobs, Reschedule(j) PROVE StageInv'
    BY <1>25 DEF Reschedule, Enqueue
  <1>26. ASSUME NEW w \in Workers, WorkerTakes(w) PROVE StageInv'
    <2>1. /\ Head(queue) \in Jobs /\ run[Head(queue)] = "queued"
          /\ Workers \subseteq Procs
      <3>1. queue # <<>>
        BY <1>26 DEF WorkerTakes
      <3>2. 1 \in 1..Len(queue) /\ Head(queue) = queue[1] /\ Head(queue) \in Jobs
        BY <3>1
      <3>3. QED
        BY <3>2 DEF QueueInv, Procs
    <2>2. QED
      BY <1>26, <2>1 DEF WorkerTakes
  <1>27. ASSUME NEW p \in Procs, Crash(p) PROVE StageInv'
    BY <1>27 DEF Crash, RunsOn, AfterCrash, Running
  <1>28. ASSUME NEW p \in Procs, RedisFlips(p) PROVE StageInv'
    BY <1>28 DEF RedisFlips, FlipAvailability
  <1>29. CASE LockExpires
    BY <1>29 DEF LockExpires, ExpireRedisLock
  <1>30. CASE UNCHANGED vars
    BY <1>30 DEF vars
  <1>31. QED
    BY <1>1, <1>2, <1>3, <1>4, <1>5, <1>6, <1>7, <1>8, <1>9, <1>10, <1>11,
       <1>12, <1>13, <1>14, <1>15, <1>16, <1>17, <1>18, <1>19, <1>20,
       <1>21, <1>22, <1>23, <1>24, <1>25, <1>26, <1>27, <1>28, <1>29,
       <1>30 DEF Next, RequestStep, RunStep, Environment, AllDone

LEMMA QueueStep == TypeOK /\ StageInv /\ QueueInv /\ [Next]_vars => QueueInv'
  <1> SUFFICES ASSUME TypeOK, StageInv, QueueInv, [Next]_vars PROVE QueueInv'
    OBVIOUS
  <1> USE JobsAssumption DEF TypeOK, QueueInv, StageInv, RunStages,
          reqVars, runVars, envVars, locks, ReqTo, RunTo
  <1>1. ASSUME NEW j \in Jobs, CheckCommit(j) PROVE QueueInv'
    BY <1>1 DEF CheckCommit
  <1>2. ASSUME NEW j \in Jobs, CheckActive(j) PROVE QueueInv'
    BY <1>2 DEF CheckActive
  <1>3. ASSUME NEW j \in Jobs, InsertJob(j) PROVE QueueInv'
    BY <1>3 DEF InsertJob
  <1>4. ASSUME NEW j \in Jobs, InsertFails(j) PROVE QueueInv'
    BY <1>4 DEF InsertFails
  <1>5. ASSUME NEW j \in Jobs, DispatchThread(j) PROVE QueueInv'
    BY <1>5 DEF DispatchThread
  <1>6. ASSUME NEW j \in Jobs, DispatchQueue(j) PROVE QueueInv'
    BY <1>6 DEF DispatchQueue, Enqueue
  <1>7. ASSUME NEW j \in Jobs, EnqueueRaises(j) PROVE QueueInv'
    BY <1>7 DEF EnqueueRaises
  <1>8. ASSUME NEW j \in Jobs, EnqueueReplyLost(j) PROVE QueueInv'
    BY <1>8 DEF EnqueueReplyLost, Enqueue
  <1>9. ASSUME NEW j \in Jobs, MarkEnqueueFailed(j) PROVE QueueInv'
    BY <1>9 DEF MarkEnqueueFailed
  <1>10. ASSUME NEW j \in Jobs, MarkEnqueueFailedLost(j) PROVE QueueInv'
    BY <1>10 DEF MarkEnqueueFailedLost
  <1>11. ASSUME NEW j \in Jobs, StartRun(j) PROVE QueueInv'
    BY <1>11 DEF StartRun
  <1>12. ASSUME NEW j \in Jobs, StartFails(j) PROVE QueueInv'
    BY <1>12 DEF StartFails
  <1>13. ASSUME NEW j \in Jobs, ChooseLock(j) PROVE QueueInv'
    BY <1>13 DEF ChooseLock
  <1>14. ASSUME NEW j \in Jobs, TakeRedisLock(j) PROVE QueueInv'
    BY <1>14 DEF TakeRedisLock, AcquireRedis
  <1>15. ASSUME NEW j \in Jobs, TakeLocalLock(j) PROVE QueueInv'
    BY <1>15 DEF TakeLocalLock, AcquireLocal
  <1>16. ASSUME NEW j \in Jobs, LockFails(j) PROVE QueueInv'
    BY <1>16 DEF LockFails
  <1>17. ASSUME NEW j \in Jobs, IndexReturns(j) PROVE QueueInv'
    BY <1>17 DEF IndexReturns
  <1>18. ASSUME NEW j \in Jobs, IndexRaises(j) PROVE QueueInv'
    BY <1>18 DEF IndexRaises
  <1>19. ASSUME NEW j \in Jobs, Unlock(j) PROVE QueueInv'
    BY <1>19 DEF Unlock, ReleaseRedis, ReleaseRedisLost, ReleaseLocal
  <1>20. ASSUME NEW j \in Jobs, MarkCompleted(j) PROVE QueueInv'
    BY <1>20 DEF MarkCompleted
  <1>21. ASSUME NEW j \in Jobs, CompleteFails(j) PROVE QueueInv'
    BY <1>21 DEF CompleteFails
  <1>22. ASSUME NEW j \in Jobs, MarkFailed(j) PROVE QueueInv'
    BY <1>22 DEF MarkFailed
  <1>23. ASSUME NEW j \in Jobs, MarkFailedLost(j) PROVE QueueInv'
    BY <1>23 DEF MarkFailedLost
  <1>24. ASSUME NEW j \in Jobs, Finish(j) PROVE QueueInv'
    BY <1>24 DEF Finish
  <1>25. ASSUME NEW j \in Jobs, Reschedule(j) PROVE QueueInv'
    BY <1>25 DEF Reschedule, Enqueue
  <1>26. ASSUME NEW w \in Workers, WorkerTakes(w) PROVE QueueInv'
    BY <1>26 DEF WorkerTakes
  <1>27. ASSUME NEW p \in Procs, Crash(p) PROVE QueueInv'
    BY <1>27 DEF Crash, RunsOn, AfterCrash, Running
  <1>28. ASSUME NEW p \in Procs, RedisFlips(p) PROVE QueueInv'
    BY <1>28 DEF RedisFlips, FlipAvailability
  <1>29. CASE LockExpires
    BY <1>29 DEF LockExpires, ExpireRedisLock
  <1>30. CASE UNCHANGED vars
    BY <1>30 DEF vars
  <1>31. QED
    BY <1>1, <1>2, <1>3, <1>4, <1>5, <1>6, <1>7, <1>8, <1>9, <1>10, <1>11,
       <1>12, <1>13, <1>14, <1>15, <1>16, <1>17, <1>18, <1>19, <1>20,
       <1>21, <1>22, <1>23, <1>24, <1>25, <1>26, <1>27, <1>28, <1>29,
       <1>30 DEF Next, RequestStep, RunStep, Environment, AllDone

LEMMA LockStep ==
    ASSUME ~Threaded, TypeOK, StageInv, QueueInv, LockInv, [Next]_vars
    PROVE  LockInv'
  <1> USE JobsAssumption DEF TypeOK, LockTypeOK, LockInv, StageInv, Holding, Running, RunStages, Token,
          Procs, reqVars, runVars, envVars, locks, ReqTo, RunTo
  <1>1. ASSUME NEW j \in Jobs, CheckCommit(j) PROVE LockInv'
    BY <1>1 DEF CheckCommit
  <1>2. ASSUME NEW j \in Jobs, CheckActive(j) PROVE LockInv'
    BY <1>2 DEF CheckActive
  <1>3. ASSUME NEW j \in Jobs, InsertJob(j) PROVE LockInv'
    BY ZenonT(40), <1>3 DEF InsertJob
  <1>4. ASSUME NEW j \in Jobs, InsertFails(j) PROVE LockInv'
    BY <1>4 DEF InsertFails
  <1>5. ASSUME NEW j \in Jobs, DispatchThread(j) PROVE LockInv'
    BY <1>5 DEF DispatchThread
  <1>6. ASSUME NEW j \in Jobs, DispatchQueue(j) PROVE LockInv'
    BY ZenonT(40), <1>6 DEF DispatchQueue, Enqueue
  <1>7. ASSUME NEW j \in Jobs, EnqueueRaises(j) PROVE LockInv'
    BY <1>7 DEF EnqueueRaises
  <1>8. ASSUME NEW j \in Jobs, EnqueueReplyLost(j) PROVE LockInv'
    BY ZenonT(40), <1>8 DEF EnqueueReplyLost, Enqueue
  <1>9. ASSUME NEW j \in Jobs, MarkEnqueueFailed(j) PROVE LockInv'
    BY <1>9 DEF MarkEnqueueFailed
  <1>10. ASSUME NEW j \in Jobs, MarkEnqueueFailedLost(j) PROVE LockInv'
    BY <1>10 DEF MarkEnqueueFailedLost
  <1>11. ASSUME NEW j \in Jobs, StartRun(j) PROVE LockInv'
    BY <1>11 DEF StartRun
  <1>12. ASSUME NEW j \in Jobs, StartFails(j) PROVE LockInv'
    BY <1>12 DEF StartFails
  <1>13. ASSUME NEW j \in Jobs, ChooseLock(j) PROVE LockInv'
    <2>1. CASE UsesRedis(proc[j]) /\ RunTo(j, "lockRedis")
      BY <1>13, <2>1 DEF ChooseLock
    <2>2. CASE UsesLocal(proc[j]) /\ RunTo(j, "lockLocal")
      BY <1>13, <2>2 DEF ChooseLock, UsesLocal
    <2>3. CASE RefusesLock(proc[j]) /\ RunTo(j, "markFailed")
      BY <1>13, <2>3 DEF ChooseLock
    <2>4. QED
      BY <1>13, <2>1, <2>2, <2>3 DEF ChooseLock
  <1>14. ASSUME NEW j \in Jobs, TakeRedisLock(j) PROVE LockInv'
    BY <1>14 DEF TakeRedisLock, AcquireRedis
  <1>15. ASSUME NEW j \in Jobs, TakeLocalLock(j) PROVE LockInv'
    <2>1. \A k \in Jobs : Token(k) # Free
      OBVIOUS
    <2>2. proc[j] \in Procs /\ kind[j] = "none"
      BY <1>15 DEF TakeLocalLock
    <2>3. \A k \in Jobs : kind[k] = "local" => proc[k] # proc[j]
      <3>1. SUFFICES ASSUME NEW k \in Jobs, kind[k] = "local", proc[k] = proc[j]
                     PROVE  FALSE
        OBVIOUS
      <3>2. localLock[proc[j]] = Free
        BY <1>15 DEF TakeLocalLock, AcquireLocal
      <3>3. localLock[proc[j]] = Token(k)
        BY <3>1
      <3>4. QED
        BY <2>1, <3>2, <3>3
    <2>4. \A k \in Jobs : kind[k] = "local" => proc[k] \in Procs
      OBVIOUS
    <2>5. QED
      BY <1>15, <2>2, <2>3, <2>4 DEF TakeLocalLock, AcquireLocal
  <1>16. ASSUME NEW j \in Jobs, LockFails(j) PROVE LockInv'
    BY <1>16 DEF LockFails
  <1>17. ASSUME NEW j \in Jobs, IndexReturns(j) PROVE LockInv'
    BY <1>17 DEF IndexReturns
  <1>18. ASSUME NEW j \in Jobs, IndexRaises(j) PROVE LockInv'
    BY <1>18 DEF IndexRaises
  <1>19. ASSUME NEW j \in Jobs, Unlock(j) PROVE LockInv'
    <2>1. \A k \in Jobs : Token(k) = Token(j) => k = j
      OBVIOUS
    <2>2. kind' = [kind EXCEPT ![j] = "none"] /\ UNCHANGED <<proc, attempt>>
      BY <1>19 DEF Unlock
    <2>3. \A k \in Jobs : run'[k] = "lockLocal" => run[k] = "lockLocal"
      BY <1>19 DEF Unlock
    <2>4. \A k \in Jobs : Running(k)' => Running(k)
      BY <1>19 DEF Unlock
    <2>5. CASE kind[j] = "redis" /\ (ReleaseRedis(Token(j)) \/ ReleaseRedisLost)
      BY <2>1, <2>2, <2>3, <2>4, <2>5 DEF ReleaseRedis, ReleaseRedisLost
    <2>6. CASE kind[j] = "local" /\ ReleaseLocal(proc[j])
      <3>1. \A k \in Jobs : kind[k] = "local" /\ k # j => proc[k] # proc[j]
        BY SMTT(30), <2>1, <2>6
      <3>2. QED
        BY <2>2, <2>3, <2>4, <2>6, <3>1 DEF ReleaseLocal
    <2>7. QED
      BY <1>19, <2>5, <2>6 DEF Unlock
  <1>20. ASSUME NEW j \in Jobs, MarkCompleted(j) PROVE LockInv'
    BY <1>20 DEF MarkCompleted
  <1>21. ASSUME NEW j \in Jobs, CompleteFails(j) PROVE LockInv'
    BY <1>21 DEF CompleteFails
  <1>22. ASSUME NEW j \in Jobs, MarkFailed(j) PROVE LockInv'
    BY <1>22 DEF MarkFailed
  <1>23. ASSUME NEW j \in Jobs, MarkFailedLost(j) PROVE LockInv'
    BY <1>23 DEF MarkFailedLost
  <1>24. ASSUME NEW j \in Jobs, Finish(j) PROVE LockInv'
    BY <1>24 DEF Finish
  <1>25. ASSUME NEW j \in Jobs, Reschedule(j) PROVE LockInv'
    BY ZenonT(40), <1>25 DEF Reschedule, Enqueue
  <1>26. ASSUME NEW w \in Workers, WorkerTakes(w) PROVE LockInv'
    <2>1. /\ Head(queue) \in Jobs /\ run[Head(queue)] = "queued"
          /\ Workers \subseteq Procs
      <3>1. queue # <<>>
        BY <1>26 DEF WorkerTakes
      <3>2. 1 \in 1..Len(queue) /\ Head(queue) = queue[1] /\ Head(queue) \in Jobs
        BY <3>1
      <3>3. QED
        BY <3>2 DEF QueueInv, Procs
    <2>2. QED
      BY ZenonT(40), <1>26, <2>1 DEF WorkerTakes
  <1>27. ASSUME NEW p \in Procs, Crash(p) PROVE LockInv'
    BY <1>27 DEF Crash, RunsOn, AfterCrash, Running
  <1>28. ASSUME NEW p \in Procs, RedisFlips(p) PROVE LockInv'
    BY <1>28 DEF RedisFlips, FlipAvailability
  <1>29. CASE LockExpires
    BY <1>29 DEF LockExpires, ExpireRedisLock, HeldByLiveRun
  <1>30. CASE UNCHANGED vars
    BY <1>30 DEF vars
  <1>31. QED
    BY <1>1, <1>2, <1>3, <1>4, <1>5, <1>6, <1>7, <1>8, <1>9, <1>10, <1>11,
       <1>12, <1>13, <1>14, <1>15, <1>16, <1>17, <1>18, <1>19, <1>20,
       <1>21, <1>22, <1>23, <1>24, <1>25, <1>26, <1>27, <1>28, <1>29,
       <1>30 DEF Next, RequestStep, RunStep, Environment, AllDone

LEMMA AdmissionStep ==
    TypeOK /\ StageInv /\ QueueInv /\ AdmissionInv /\ [Next]_vars => AdmissionInv'
  <1> SUFFICES ASSUME TypeOK, StageInv, QueueInv, AdmissionInv, [Next]_vars PROVE AdmissionInv'
    OBVIOUS
  <1> USE JobsAssumption DEF TypeOK, AdmissionInv, OneActiveJob, StageInv, Active, Settled, ReqStages,
          reqVars, runVars, envVars, locks, ReqTo, RunTo, StatusTo, DbFails
  <1>1. ASSUME NEW j \in Jobs, CheckCommit(j) PROVE AdmissionInv'
    BY <1>1 DEF CheckCommit
  <1>2. ASSUME NEW j \in Jobs, CheckActive(j) PROVE AdmissionInv'
    <2>1. CASE HasActiveJob
      BY ZenonT(40), <1>2, <2>1 DEF CheckActive
    <2>2. CASE ~HasActiveJob
      <3>1. CASE \E k \in Jobs \ {j} : req[k] = "admitted"
        BY <1>2, <2>2, <3>1 DEF CheckActive
      <3>2. CASE ~\E k \in Jobs \ {j} : req[k] = "admitted"
        BY <1>2, <2>2, <3>2 DEF CheckActive, HasActiveJob
      <3>3. QED
        BY <3>1, <3>2
    <2>3. QED
      BY <2>1, <2>2
  <1>3. ASSUME NEW j \in Jobs, InsertJob(j) PROVE AdmissionInv'
    BY <1>3 DEF InsertJob
  <1>4. ASSUME NEW j \in Jobs, InsertFails(j) PROVE AdmissionInv'
    BY <1>4 DEF InsertFails
  <1>5. ASSUME NEW j \in Jobs, DispatchThread(j) PROVE AdmissionInv'
    BY <1>5 DEF DispatchThread
  <1>6. ASSUME NEW j \in Jobs, DispatchQueue(j) PROVE AdmissionInv'
    BY <1>6 DEF DispatchQueue, Enqueue
  <1>7. ASSUME NEW j \in Jobs, EnqueueRaises(j) PROVE AdmissionInv'
    BY <1>7 DEF EnqueueRaises
  <1>8. ASSUME NEW j \in Jobs, EnqueueReplyLost(j) PROVE AdmissionInv'
    BY <1>8 DEF EnqueueReplyLost, Enqueue
  <1>9. ASSUME NEW j \in Jobs, MarkEnqueueFailed(j) PROVE AdmissionInv'
    BY <1>9 DEF MarkEnqueueFailed
  <1>10. ASSUME NEW j \in Jobs, MarkEnqueueFailedLost(j) PROVE AdmissionInv'
    BY <1>10 DEF MarkEnqueueFailedLost
  <1>11. ASSUME NEW j \in Jobs, StartRun(j) PROVE AdmissionInv'
    BY <1>11 DEF StartRun
  <1>12. ASSUME NEW j \in Jobs, StartFails(j) PROVE AdmissionInv'
    BY <1>12 DEF StartFails
  <1>13. ASSUME NEW j \in Jobs, ChooseLock(j) PROVE AdmissionInv'
    BY <1>13 DEF ChooseLock
  <1>14. ASSUME NEW j \in Jobs, TakeRedisLock(j) PROVE AdmissionInv'
    BY <1>14 DEF TakeRedisLock, AcquireRedis
  <1>15. ASSUME NEW j \in Jobs, TakeLocalLock(j) PROVE AdmissionInv'
    BY <1>15 DEF TakeLocalLock, AcquireLocal
  <1>16. ASSUME NEW j \in Jobs, LockFails(j) PROVE AdmissionInv'
    BY <1>16 DEF LockFails
  <1>17. ASSUME NEW j \in Jobs, IndexReturns(j) PROVE AdmissionInv'
    BY <1>17 DEF IndexReturns
  <1>18. ASSUME NEW j \in Jobs, IndexRaises(j) PROVE AdmissionInv'
    BY <1>18 DEF IndexRaises
  <1>19. ASSUME NEW j \in Jobs, Unlock(j) PROVE AdmissionInv'
    BY <1>19 DEF Unlock, ReleaseRedis, ReleaseRedisLost, ReleaseLocal
  <1>20. ASSUME NEW j \in Jobs, MarkCompleted(j) PROVE AdmissionInv'
    BY <1>20 DEF MarkCompleted
  <1>21. ASSUME NEW j \in Jobs, CompleteFails(j) PROVE AdmissionInv'
    BY <1>21 DEF CompleteFails
  <1>22. ASSUME NEW j \in Jobs, MarkFailed(j) PROVE AdmissionInv'
    BY <1>22 DEF MarkFailed
  <1>23. ASSUME NEW j \in Jobs, MarkFailedLost(j) PROVE AdmissionInv'
    BY <1>23 DEF MarkFailedLost
  <1>24. ASSUME NEW j \in Jobs, Finish(j) PROVE AdmissionInv'
    BY <1>24 DEF Finish
  <1>25. ASSUME NEW j \in Jobs, Reschedule(j) PROVE AdmissionInv'
    BY <1>25 DEF Reschedule, Enqueue
  <1>26. ASSUME NEW w \in Workers, WorkerTakes(w) PROVE AdmissionInv'
    BY <1>26 DEF WorkerTakes, QueueInv
  <1>27. ASSUME NEW p \in Procs, Crash(p) PROVE AdmissionInv'
    BY <1>27 DEF Crash, RunsOn, AfterCrash, Running
  <1>28. ASSUME NEW p \in Procs, RedisFlips(p) PROVE AdmissionInv'
    BY <1>28 DEF RedisFlips, FlipAvailability
  <1>29. CASE LockExpires
    BY <1>29 DEF LockExpires, ExpireRedisLock
  <1>30. CASE UNCHANGED vars
    BY <1>30 DEF vars
  <1>31. QED
    BY <1>1, <1>2, <1>3, <1>4, <1>5, <1>6, <1>7, <1>8, <1>9, <1>10, <1>11,
       <1>12, <1>13, <1>14, <1>15, <1>16, <1>17, <1>18, <1>19, <1>20,
       <1>21, <1>22, <1>23, <1>24, <1>25, <1>26, <1>27, <1>28, <1>29,
       <1>30 DEF Next, RequestStep, RunStep, Environment, AllDone

-----------------------------------------------------------------------------
(* The theorems. *)

LEMMA InitInd == Init => IndInv
  <1> SUFFICES ASSUME Init PROVE IndInv
    OBVIOUS
  <1>1. TypeOK
    BY InitType
  <1>2. StageInv /\ QueueInv
    BY DEF Init, StageInv, QueueInv, Holding
  <1>3. LockInv
    BY DEF Init, LockInv, Running
  <1>4. AdmissionInv
    BY DEF Init, AdmissionInv, OneActiveJob, Active
  <1>5. QED
    BY <1>1, <1>2, <1>3, <1>4 DEF IndInv

LEMMA IndStep == IndInv /\ [Next]_vars => IndInv'
  <1> SUFFICES ASSUME IndInv, [Next]_vars PROVE IndInv'
    OBVIOUS
  <1>1. TypeOK /\ StageInv /\ QueueInv /\ AdmissionInv
    BY DEF IndInv
  <1>2. TypeOK' /\ StageInv' /\ QueueInv' /\ AdmissionInv'
    BY <1>1, StepType, StageStep, QueueStep, AdmissionStep
  <1>3. ~Threaded => LockInv'
    BY <1>1, LockStep DEF IndInv
  <1>4. QED
    BY <1>2, <1>3 DEF IndInv

\* The inductive invariant holds of every behaviour of the job system.
THEOREM Inductive == Spec => []IndInv
  BY InitInd, IndStep, PTL DEF Spec

\* Every variable keeps its type: stages, statuses, queue and locks.
THEOREM TypeCorrect == Spec => []TypeOK
  <1>1. IndInv => TypeOK
    BY DEF IndInv
  <1>2. QED
    BY Inductive, <1>1, PTL

\* Without the indexing thread of the API server (so under RQ workers, where
\* the job timeout is shorter than the lock's TTL) a run that indexes owns
\* the lock it took, for any number of jobs, workers, crashes and outages.
THEOREM LockBacks == ASSUME ~Threaded PROVE Spec => []LockBacksPipeline
  <1>1. IndInv => LockBacksPipeline
    <2> SUFFICES ASSUME IndInv, NEW j \in Jobs, run[j] = "index"
                 PROVE  \/ kind[j] = "redis" /\ redisLock = Token(j)
                        \/ /\ kind[j] = "local" /\ ~Production
                           /\ localLock[proc[j]] = Token(j)
      BY DEF LockBacksPipeline, InPipeline
    <2>1. kind[j] \in {"redis", "local"}
      BY DEF IndInv, TypeOK, StageInv, Holding
    <2>2. QED
      BY <2>1 DEF IndInv, LockInv
  <1>2. QED
    BY Inductive, <1>1, PTL

\* In a production-like deployment two runs never index the repository at
\* once.
THEOREM ProductionMutex == ASSUME Production PROVE Spec => []PipelineMutex
  <1>1. IndInv => PipelineMutex
    <2> SUFFICES ASSUME IndInv, NEW j \in Jobs, NEW k \in Jobs,
                        run[j] = "index", run[k] = "index"
                 PROVE  j = k
      BY DEF PipelineMutex, InPipeline
    <2>1. kind[j] = "redis" /\ kind[k] = "redis"
      BY JobsAssumption DEF IndInv, TypeOK, StageInv, LockInv, Holding
    <2>2. Token(j) = Token(k)
      BY <2>1, JobsAssumption DEF IndInv, LockInv
    <2>3. QED
      BY <2>2 DEF Token
  <1>2. QED
    BY Inductive, <1>1, PTL

\* The unlocked check for an active job admits a second one only when two
\* requests overlapped or RQ re-ran a settled job.
THEOREM AdmissionIsExclusive == Spec => []OneActiveJobUnlessRaced
  <1>1. IndInv => OneActiveJobUnlessRaced
    BY DEF IndInv, AdmissionInv, OneActiveJob, OneActiveJobUnlessRaced
  <1>2. QED
    BY Inductive, <1>1, PTL

-----------------------------------------------------------------------------
(* The rows tell what happened. *)

\* A run past its pipeline's normal return has that return recorded.
CompletedInv ==
    \A j \in Jobs : /\ run[j] \in {"unlockOk", "complete"} => j \in indexed
                    /\ status[j] = "completed" => j \in indexed

LEMMA CompletedStep == TypeOK /\ CompletedInv /\ [Next]_vars => CompletedInv'
  <1> SUFFICES ASSUME TypeOK, CompletedInv, [Next]_vars PROVE CompletedInv'
    OBVIOUS
  <1> USE DEF TypeOK, CompletedInv, RunStages, reqVars, runVars, envVars, ReqTo, RunTo, StatusTo
  <1>1. ASSUME NEW j \in Jobs, CheckCommit(j) PROVE CompletedInv'
    BY <1>1 DEF CheckCommit
  <1>2. ASSUME NEW j \in Jobs, CheckActive(j) PROVE CompletedInv'
    BY <1>2 DEF CheckActive
  <1>3. ASSUME NEW j \in Jobs, InsertJob(j) PROVE CompletedInv'
    BY <1>3 DEF InsertJob
  <1>4. ASSUME NEW j \in Jobs, InsertFails(j) PROVE CompletedInv'
    BY <1>4 DEF InsertFails
  <1>5. ASSUME NEW j \in Jobs, DispatchThread(j) PROVE CompletedInv'
    BY <1>5 DEF DispatchThread
  <1>6. ASSUME NEW j \in Jobs, DispatchQueue(j) PROVE CompletedInv'
    BY <1>6 DEF DispatchQueue, Enqueue
  <1>7. ASSUME NEW j \in Jobs, EnqueueRaises(j) PROVE CompletedInv'
    BY <1>7 DEF EnqueueRaises
  <1>8. ASSUME NEW j \in Jobs, EnqueueReplyLost(j) PROVE CompletedInv'
    BY <1>8 DEF EnqueueReplyLost, Enqueue
  <1>9. ASSUME NEW j \in Jobs, MarkEnqueueFailed(j) PROVE CompletedInv'
    BY <1>9 DEF MarkEnqueueFailed
  <1>10. ASSUME NEW j \in Jobs, MarkEnqueueFailedLost(j) PROVE CompletedInv'
    BY <1>10 DEF MarkEnqueueFailedLost
  <1>11. ASSUME NEW j \in Jobs, StartRun(j) PROVE CompletedInv'
    BY <1>11 DEF StartRun
  <1>12. ASSUME NEW j \in Jobs, StartFails(j) PROVE CompletedInv'
    BY <1>12 DEF StartFails
  <1>13. ASSUME NEW j \in Jobs, ChooseLock(j) PROVE CompletedInv'
    BY <1>13 DEF ChooseLock
  <1>14. ASSUME NEW j \in Jobs, TakeRedisLock(j) PROVE CompletedInv'
    BY <1>14 DEF TakeRedisLock, AcquireRedis
  <1>15. ASSUME NEW j \in Jobs, TakeLocalLock(j) PROVE CompletedInv'
    BY <1>15 DEF TakeLocalLock, AcquireLocal
  <1>16. ASSUME NEW j \in Jobs, LockFails(j) PROVE CompletedInv'
    BY <1>16 DEF LockFails
  <1>17. ASSUME NEW j \in Jobs, IndexReturns(j) PROVE CompletedInv'
    BY <1>17 DEF IndexReturns
  <1>18. ASSUME NEW j \in Jobs, IndexRaises(j) PROVE CompletedInv'
    BY <1>18 DEF IndexRaises
  <1>19. ASSUME NEW j \in Jobs, Unlock(j) PROVE CompletedInv'
    BY <1>19 DEF Unlock, ReleaseRedis, ReleaseRedisLost, ReleaseLocal
  <1>20. ASSUME NEW j \in Jobs, MarkCompleted(j) PROVE CompletedInv'
    BY <1>20 DEF MarkCompleted
  <1>21. ASSUME NEW j \in Jobs, CompleteFails(j) PROVE CompletedInv'
    BY <1>21 DEF CompleteFails
  <1>22. ASSUME NEW j \in Jobs, MarkFailed(j) PROVE CompletedInv'
    BY <1>22 DEF MarkFailed
  <1>23. ASSUME NEW j \in Jobs, MarkFailedLost(j) PROVE CompletedInv'
    BY <1>23 DEF MarkFailedLost
  <1>24. ASSUME NEW j \in Jobs, Finish(j) PROVE CompletedInv'
    BY <1>24 DEF Finish
  <1>25. ASSUME NEW j \in Jobs, Reschedule(j) PROVE CompletedInv'
    BY <1>25 DEF Reschedule, Enqueue
  <1>26. ASSUME NEW w \in Workers, WorkerTakes(w) PROVE CompletedInv'
    BY <1>26 DEF WorkerTakes
  <1>27. ASSUME NEW p \in Procs, Crash(p) PROVE CompletedInv'
    BY <1>27 DEF Crash, RunsOn, AfterCrash, Running
  <1>28. ASSUME NEW p \in Procs, RedisFlips(p) PROVE CompletedInv'
    BY <1>28 DEF RedisFlips, FlipAvailability
  <1>29. CASE LockExpires
    BY <1>29 DEF LockExpires, ExpireRedisLock
  <1>30. CASE UNCHANGED vars
    BY <1>30 DEF vars
  <1>31. QED
    BY <1>1, <1>2, <1>3, <1>4, <1>5, <1>6, <1>7, <1>8, <1>9, <1>10, <1>11,
       <1>12, <1>13, <1>14, <1>15, <1>16, <1>17, <1>18, <1>19, <1>20,
       <1>21, <1>22, <1>23, <1>24, <1>25, <1>26, <1>27, <1>28, <1>29,
       <1>30 DEF Next, RequestStep, RunStep, Environment, AllDone

\* A completed row was indexed, for any number of jobs, re-runs, crashes and failures of
\* the statements in between.
THEOREM CompletedAreIndexed == Spec => []CompletedWasIndexed
  <1>1. Init => CompletedInv
    BY DEF Init, CompletedInv
  <1>2. CompletedInv => CompletedWasIndexed
    BY DEF CompletedInv, CompletedWasIndexed
  <1>3. QED
    BY <1>1, <1>2, CompletedStep, TypeCorrect, PTL DEF Spec

\* With threads a job runs once, so the stage of its run determines its row.
ThreadStages == {"lock", "lockRedis", "lockLocal", "index", "unlockOk", "unlockFail", "complete"}
ThreadInv ==
    \A j \in Jobs :
        /\ run[j] \notin {"queued", "scheduled"} /\ req[j] # "enqueueFailed"
        /\ req[j] = "inserted" \/ run[j] = "start" => status[j] = "pending"
        /\ run[j] \in ThreadStages => status[j] = "running"
        /\ run[j] = "markFailed" => status[j] \in Active

LEMMA ThreadStep ==
  ASSUME Threaded
  PROVE  TypeOK /\ StageInv /\ QueueInv /\ ThreadInv /\ [Next]_vars => ThreadInv'
  <1> SUFFICES ASSUME TypeOK, StageInv, QueueInv, ThreadInv, [Next]_vars PROVE ThreadInv'
    OBVIOUS
  <1> USE DEF TypeOK, StageInv, ThreadInv, ThreadStages, RunStages, Active, reqVars, runVars, envVars,
          ReqTo, RunTo, StatusTo
  <1>1. ASSUME NEW j \in Jobs, CheckCommit(j) PROVE ThreadInv'
    BY <1>1 DEF CheckCommit
  <1>2. ASSUME NEW j \in Jobs, CheckActive(j) PROVE ThreadInv'
    BY <1>2 DEF CheckActive
  <1>3. ASSUME NEW j \in Jobs, InsertJob(j) PROVE ThreadInv'
    BY <1>3 DEF InsertJob
  <1>4. ASSUME NEW j \in Jobs, InsertFails(j) PROVE ThreadInv'
    BY <1>4 DEF InsertFails
  <1>5. ASSUME NEW j \in Jobs, DispatchThread(j) PROVE ThreadInv'
    BY <1>5 DEF DispatchThread
  <1>6. ASSUME NEW j \in Jobs, DispatchQueue(j) PROVE ThreadInv'
    BY <1>6 DEF DispatchQueue, Enqueue
  <1>7. ASSUME NEW j \in Jobs, EnqueueRaises(j) PROVE ThreadInv'
    BY <1>7 DEF EnqueueRaises
  <1>8. ASSUME NEW j \in Jobs, EnqueueReplyLost(j) PROVE ThreadInv'
    BY <1>8 DEF EnqueueReplyLost, Enqueue
  <1>9. ASSUME NEW j \in Jobs, MarkEnqueueFailed(j) PROVE ThreadInv'
    BY <1>9 DEF MarkEnqueueFailed
  <1>10. ASSUME NEW j \in Jobs, MarkEnqueueFailedLost(j) PROVE ThreadInv'
    BY <1>10 DEF MarkEnqueueFailedLost
  <1>11. ASSUME NEW j \in Jobs, StartRun(j) PROVE ThreadInv'
    BY <1>11 DEF StartRun
  <1>12. ASSUME NEW j \in Jobs, StartFails(j) PROVE ThreadInv'
    BY <1>12 DEF StartFails
  <1>13. ASSUME NEW j \in Jobs, ChooseLock(j) PROVE ThreadInv'
    BY <1>13 DEF ChooseLock
  <1>14. ASSUME NEW j \in Jobs, TakeRedisLock(j) PROVE ThreadInv'
    BY <1>14 DEF TakeRedisLock, AcquireRedis
  <1>15. ASSUME NEW j \in Jobs, TakeLocalLock(j) PROVE ThreadInv'
    BY <1>15 DEF TakeLocalLock, AcquireLocal
  <1>16. ASSUME NEW j \in Jobs, LockFails(j) PROVE ThreadInv'
    BY <1>16 DEF LockFails
  <1>17. ASSUME NEW j \in Jobs, IndexReturns(j) PROVE ThreadInv'
    BY <1>17 DEF IndexReturns
  <1>18. ASSUME NEW j \in Jobs, IndexRaises(j) PROVE ThreadInv'
    BY <1>18 DEF IndexRaises
  <1>19. ASSUME NEW j \in Jobs, Unlock(j) PROVE ThreadInv'
    BY <1>19 DEF Unlock, ReleaseRedis, ReleaseRedisLost, ReleaseLocal
  <1>20. ASSUME NEW j \in Jobs, MarkCompleted(j) PROVE ThreadInv'
    BY <1>20 DEF MarkCompleted
  <1>21. ASSUME NEW j \in Jobs, CompleteFails(j) PROVE ThreadInv'
    BY <1>21 DEF CompleteFails
  <1>22. ASSUME NEW j \in Jobs, MarkFailed(j) PROVE ThreadInv'
    BY <1>22 DEF MarkFailed
  <1>23. ASSUME NEW j \in Jobs, MarkFailedLost(j) PROVE ThreadInv'
    BY <1>23 DEF MarkFailedLost
  <1>24. ASSUME NEW j \in Jobs, Finish(j) PROVE ThreadInv'
    BY <1>24 DEF Finish
  <1>25. ASSUME NEW j \in Jobs, Reschedule(j) PROVE ThreadInv'
    BY <1>25 DEF Reschedule, Enqueue
  <1>26. ASSUME NEW w \in Workers, WorkerTakes(w) PROVE ThreadInv'
    <2>1. queue = <<>>
      BY DEF QueueInv
    <2> QED
      BY <1>26, <2>1 DEF WorkerTakes
  <1>27. ASSUME NEW p \in Procs, Crash(p) PROVE ThreadInv'
    BY <1>27 DEF Crash, RunsOn, AfterCrash, Running
  <1>28. ASSUME NEW p \in Procs, RedisFlips(p) PROVE ThreadInv'
    BY <1>28 DEF RedisFlips, FlipAvailability
  <1>29. CASE LockExpires
    BY <1>29 DEF LockExpires, ExpireRedisLock
  <1>30. CASE UNCHANGED vars
    BY <1>30 DEF vars
  <1>31. QED
    BY <1>1, <1>2, <1>3, <1>4, <1>5, <1>6, <1>7, <1>8, <1>9, <1>10, <1>11,
       <1>12, <1>13, <1>14, <1>15, <1>16, <1>17, <1>18, <1>19, <1>20,
       <1>21, <1>22, <1>23, <1>24, <1>25, <1>26, <1>27, <1>28, <1>29,
       <1>30 DEF Next, RequestStep, RunStep, Environment, AllDone

\* Each statement that changes a row is a step of its life.
LEMMA LifecycleStep ==
  ASSUME Threaded
  PROVE  TypeOK /\ StageInv /\ ThreadInv /\ [Next]_vars => [Lifecycle!Next]_status
  <1> SUFFICES ASSUME TypeOK, StageInv, ThreadInv, [Next]_vars PROVE [Lifecycle!Next]_status
    OBVIOUS
  <1> USE DEF reqVars, runVars, envVars, ReqTo, RunTo
  <1>1. ASSUME NEW j \in Jobs, CheckCommit(j) PROVE [Lifecycle!Next]_status
    BY <1>1 DEF CheckCommit
  <1>2. ASSUME NEW j \in Jobs, CheckActive(j) PROVE [Lifecycle!Next]_status
    BY <1>2 DEF CheckActive
  <1>3. ASSUME NEW j \in Jobs, InsertJob(j) PROVE [Lifecycle!Next]_status
    <2>1. Lifecycle!Create(j)
      BY <1>3 DEF InsertJob, StatusTo, StageInv, ThreadInv, ThreadStages, Active, Lifecycle!Create,
                   Lifecycle!Move, Lifecycle!Active
    <2> QED
      BY <2>1 DEF Lifecycle!Next
  <1>4. ASSUME NEW j \in Jobs, InsertFails(j) PROVE [Lifecycle!Next]_status
    BY <1>4 DEF InsertFails
  <1>5. ASSUME NEW j \in Jobs, DispatchThread(j) PROVE [Lifecycle!Next]_status
    BY <1>5 DEF DispatchThread
  <1>6. ASSUME NEW j \in Jobs, DispatchQueue(j) PROVE [Lifecycle!Next]_status
    BY <1>6 DEF DispatchQueue, Enqueue
  <1>7. ASSUME NEW j \in Jobs, EnqueueRaises(j) PROVE [Lifecycle!Next]_status
    BY <1>7 DEF EnqueueRaises
  <1>8. ASSUME NEW j \in Jobs, EnqueueReplyLost(j) PROVE [Lifecycle!Next]_status
    BY <1>8 DEF EnqueueReplyLost, Enqueue
  <1>9. ASSUME NEW j \in Jobs, MarkEnqueueFailed(j) PROVE [Lifecycle!Next]_status
    <2>1. Lifecycle!Fail(j)
      BY <1>9 DEF MarkEnqueueFailed, StatusTo, StageInv, ThreadInv, ThreadStages, Active, Lifecycle!Fail,
                   Lifecycle!Move, Lifecycle!Active
    <2> QED
      BY <2>1 DEF Lifecycle!Next
  <1>10. ASSUME NEW j \in Jobs, MarkEnqueueFailedLost(j) PROVE [Lifecycle!Next]_status
    BY <1>10 DEF MarkEnqueueFailedLost
  <1>11. ASSUME NEW j \in Jobs, StartRun(j) PROVE [Lifecycle!Next]_status
    <2>1. Lifecycle!Start(j)
      BY <1>11 DEF StartRun, StatusTo, StageInv, ThreadInv, ThreadStages, Active, Lifecycle!Start,
                   Lifecycle!Move, Lifecycle!Active
    <2> QED
      BY <2>1 DEF Lifecycle!Next
  <1>12. ASSUME NEW j \in Jobs, StartFails(j) PROVE [Lifecycle!Next]_status
    BY <1>12 DEF StartFails
  <1>13. ASSUME NEW j \in Jobs, ChooseLock(j) PROVE [Lifecycle!Next]_status
    BY <1>13 DEF ChooseLock
  <1>14. ASSUME NEW j \in Jobs, TakeRedisLock(j) PROVE [Lifecycle!Next]_status
    BY <1>14 DEF TakeRedisLock, AcquireRedis
  <1>15. ASSUME NEW j \in Jobs, TakeLocalLock(j) PROVE [Lifecycle!Next]_status
    BY <1>15 DEF TakeLocalLock, AcquireLocal
  <1>16. ASSUME NEW j \in Jobs, LockFails(j) PROVE [Lifecycle!Next]_status
    BY <1>16 DEF LockFails
  <1>17. ASSUME NEW j \in Jobs, IndexReturns(j) PROVE [Lifecycle!Next]_status
    BY <1>17 DEF IndexReturns
  <1>18. ASSUME NEW j \in Jobs, IndexRaises(j) PROVE [Lifecycle!Next]_status
    BY <1>18 DEF IndexRaises
  <1>19. ASSUME NEW j \in Jobs, Unlock(j) PROVE [Lifecycle!Next]_status
    BY <1>19 DEF Unlock, ReleaseRedis, ReleaseRedisLost, ReleaseLocal
  <1>20. ASSUME NEW j \in Jobs, MarkCompleted(j) PROVE [Lifecycle!Next]_status
    <2>1. Lifecycle!Complete(j)
      BY <1>20 DEF MarkCompleted, StatusTo, StageInv, ThreadInv, ThreadStages, Active, Lifecycle!Complete,
                   Lifecycle!Move, Lifecycle!Active
    <2> QED
      BY <2>1 DEF Lifecycle!Next
  <1>21. ASSUME NEW j \in Jobs, CompleteFails(j) PROVE [Lifecycle!Next]_status
    BY <1>21 DEF CompleteFails
  <1>22. ASSUME NEW j \in Jobs, MarkFailed(j) PROVE [Lifecycle!Next]_status
    <2>1. Lifecycle!Fail(j)
      BY <1>22 DEF MarkFailed, StatusTo, StageInv, ThreadInv, ThreadStages, Active, Lifecycle!Fail,
                   Lifecycle!Move, Lifecycle!Active
    <2> QED
      BY <2>1 DEF Lifecycle!Next
  <1>23. ASSUME NEW j \in Jobs, MarkFailedLost(j) PROVE [Lifecycle!Next]_status
    BY <1>23 DEF MarkFailedLost
  <1>24. ASSUME NEW j \in Jobs, Finish(j) PROVE [Lifecycle!Next]_status
    BY <1>24 DEF Finish
  <1>25. ASSUME NEW j \in Jobs, Reschedule(j) PROVE [Lifecycle!Next]_status
    BY <1>25 DEF Reschedule, Enqueue
  <1>26. ASSUME NEW w \in Workers, WorkerTakes(w) PROVE [Lifecycle!Next]_status
    BY <1>26 DEF WorkerTakes
  <1>27. ASSUME NEW p \in Procs, Crash(p) PROVE [Lifecycle!Next]_status
    BY <1>27 DEF Crash, RunsOn, AfterCrash, Running
  <1>28. ASSUME NEW p \in Procs, RedisFlips(p) PROVE [Lifecycle!Next]_status
    BY <1>28 DEF RedisFlips, FlipAvailability
  <1>29. CASE LockExpires
    BY <1>29 DEF LockExpires, ExpireRedisLock
  <1>30. CASE UNCHANGED vars
    BY <1>30 DEF vars
  <1>31. QED
    BY <1>1, <1>2, <1>3, <1>4, <1>5, <1>6, <1>7, <1>8, <1>9, <1>10, <1>11,
       <1>12, <1>13, <1>14, <1>15, <1>16, <1>17, <1>18, <1>19, <1>20,
       <1>21, <1>22, <1>23, <1>24, <1>25, <1>26, <1>27, <1>28, <1>29,
       <1>30 DEF Next, RequestStep, RunStep, Environment, AllDone

\* In the threaded deployment the rows implement the abstract life of a job, for any number
\* of jobs, crashes and failed statements: pending, running, and settled once.
THEOREM ImplementsLifecycle == ASSUME Threaded PROVE Spec => LifecycleSpec
  <1>1. Init => Lifecycle!Init /\ ThreadInv
    BY DEF Init, Lifecycle!Init, ThreadInv, ThreadStages
  <1>2. IndInv => TypeOK /\ StageInv /\ QueueInv
    BY DEF IndInv
  <1>3. QED
    BY <1>1, <1>2, Inductive, ThreadStep, LifecycleStep, PTL DEF Spec, LifecycleSpec, Lifecycle!Spec

-----------------------------------------------------------------------------
(* Who settles an active job. *)

\* Adding to the queue keeps every place in it.
LEMMA QueueGrows ==
  ASSUME queue \in Seq(Jobs), NEW j \in Jobs, queue' = Append(queue, j)
  PROVE  Queued(j)' /\ \A k \in Jobs : Queued(k) => Queued(k)'
  <1>1. /\ Len(queue) + 1 \in DOMAIN queue' /\ queue'[Len(queue) + 1] = j
        /\ \A i \in DOMAIN queue : i \in DOMAIN queue' /\ queue'[i] = queue[i]
    OBVIOUS
  <1>2. QED
    BY <1>1 DEF Queued

\* Taking the head leaves everybody else in the queue.
LEMMA QueueShrinks ==
  ASSUME queue \in Seq(Jobs), queue # <<>>, queue' = Tail(queue)
  PROVE  \A k \in Jobs : k # Head(queue) /\ Queued(k) => Queued(k)'
  <1> SUFFICES ASSUME NEW k, k # Head(queue), NEW i \in DOMAIN queue, queue[i] = k
               PROVE  \E h \in DOMAIN queue' : queue'[h] = k
    BY DEF Queued
  <1>1. i \in 2..Len(queue)
    OBVIOUS
  <1>2. i - 1 \in DOMAIN queue' /\ queue'[i - 1] = queue[i]
    BY <1>1
  <1>3. QED
    BY <1>2

LEMMA HeldStep == TypeOK /\ StageInv /\ QueueInv /\ ActiveIsHeld /\ [Next]_vars => ActiveIsHeld'
  <1> SUFFICES ASSUME TypeOK, StageInv, QueueInv, ActiveIsHeld, [Next]_vars PROVE ActiveIsHeld'
    OBVIOUS
  <1> USE JobsAssumption DEF TypeOK, ActiveIsHeld, Active, Settled, Running, RunStages,
          reqVars, runVars, envVars, locks, ReqTo, RunTo, StatusTo, DbFails
  <1>0. queue' = queue => \A k \in Jobs : Queued(k) => Queued(k)'
    BY DEF Queued
  <1>1. ASSUME NEW j \in Jobs, CheckCommit(j) PROVE ActiveIsHeld'
    BY <1>0, <1>1 DEF CheckCommit
  <1>2. ASSUME NEW j \in Jobs, CheckActive(j) PROVE ActiveIsHeld'
    BY <1>0, <1>2 DEF CheckActive
  <1>3. ASSUME NEW j \in Jobs, InsertJob(j) PROVE ActiveIsHeld'
    BY <1>0, <1>3 DEF InsertJob
  <1>4. ASSUME NEW j \in Jobs, InsertFails(j) PROVE ActiveIsHeld'
    BY <1>0, <1>4 DEF InsertFails
  <1>5. ASSUME NEW j \in Jobs, DispatchThread(j) PROVE ActiveIsHeld'
    BY <1>0, <1>5 DEF DispatchThread
  <1>6. ASSUME NEW j \in Jobs, DispatchQueue(j) PROVE ActiveIsHeld'
    <2>1. queue \in Seq(Jobs) /\ queue' = Append(queue, j)
      BY <1>6 DEF DispatchQueue, Enqueue
    <2>2. Queued(j)' /\ \A k \in Jobs : Queued(k) => Queued(k)'
      BY <2>1, QueueGrows
    <2>3. /\ run' = [run EXCEPT ![j] = "queued"] /\ status' = status
          /\ \A k \in Jobs \ {j} : req'[k] = req[k]
          /\ UNCHANGED <<crashes, dbFailures>>
      BY <1>6 DEF DispatchQueue, Enqueue
    <2> QED
      BY <2>2, <2>3
  <1>7. ASSUME NEW j \in Jobs, EnqueueRaises(j) PROVE ActiveIsHeld'
    BY <1>0, <1>7 DEF EnqueueRaises
  <1>8. ASSUME NEW j \in Jobs, EnqueueReplyLost(j) PROVE ActiveIsHeld'
    <2>1. queue \in Seq(Jobs) /\ queue' = Append(queue, j)
      BY <1>8 DEF EnqueueReplyLost, Enqueue
    <2>2. Queued(j)' /\ \A k \in Jobs : Queued(k) => Queued(k)'
      BY <2>1, QueueGrows
    <2>3. /\ run' = [run EXCEPT ![j] = "queued"] /\ status' = status
          /\ \A k \in Jobs \ {j} : req'[k] = req[k]
          /\ UNCHANGED <<crashes, dbFailures>>
      BY <1>8 DEF EnqueueReplyLost, Enqueue
    <2> QED
      BY <2>2, <2>3
  <1>9. ASSUME NEW j \in Jobs, MarkEnqueueFailed(j) PROVE ActiveIsHeld'
    BY <1>0, <1>9 DEF MarkEnqueueFailed
  <1>10. ASSUME NEW j \in Jobs, MarkEnqueueFailedLost(j) PROVE ActiveIsHeld'
    BY <1>0, <1>10 DEF MarkEnqueueFailedLost
  <1>11. ASSUME NEW j \in Jobs, StartRun(j) PROVE ActiveIsHeld'
    BY <1>0, <1>11 DEF StartRun
  <1>12. ASSUME NEW j \in Jobs, StartFails(j) PROVE ActiveIsHeld'
    BY <1>0, <1>12 DEF StartFails
  <1>13. ASSUME NEW j \in Jobs, ChooseLock(j) PROVE ActiveIsHeld'
    BY <1>0, <1>13 DEF ChooseLock
  <1>14. ASSUME NEW j \in Jobs, TakeRedisLock(j) PROVE ActiveIsHeld'
    BY <1>0, <1>14 DEF TakeRedisLock, AcquireRedis
  <1>15. ASSUME NEW j \in Jobs, TakeLocalLock(j) PROVE ActiveIsHeld'
    BY <1>0, <1>15 DEF TakeLocalLock, AcquireLocal
  <1>16. ASSUME NEW j \in Jobs, LockFails(j) PROVE ActiveIsHeld'
    BY <1>0, <1>16 DEF LockFails
  <1>17. ASSUME NEW j \in Jobs, IndexReturns(j) PROVE ActiveIsHeld'
    BY <1>0, <1>17 DEF IndexReturns
  <1>18. ASSUME NEW j \in Jobs, IndexRaises(j) PROVE ActiveIsHeld'
    BY <1>0, <1>18 DEF IndexRaises
  <1>19. ASSUME NEW j \in Jobs, Unlock(j) PROVE ActiveIsHeld'
    BY <1>0, <1>19 DEF Unlock
  <1>20. ASSUME NEW j \in Jobs, MarkCompleted(j) PROVE ActiveIsHeld'
    BY <1>0, <1>20 DEF MarkCompleted
  <1>21. ASSUME NEW j \in Jobs, CompleteFails(j) PROVE ActiveIsHeld'
    BY <1>0, <1>21 DEF CompleteFails
  <1>22. ASSUME NEW j \in Jobs, MarkFailed(j) PROVE ActiveIsHeld'
    BY <1>0, <1>22 DEF MarkFailed
  <1>23. ASSUME NEW j \in Jobs, MarkFailedLost(j) PROVE ActiveIsHeld'
    BY <1>0, <1>23 DEF MarkFailedLost
  <1>24. ASSUME NEW j \in Jobs, Finish(j) PROVE ActiveIsHeld'
    BY <1>0, <1>24 DEF Finish
  <1>25. ASSUME NEW j \in Jobs, Reschedule(j) PROVE ActiveIsHeld'
    <2>1. queue \in Seq(Jobs) /\ queue' = Append(queue, j)
      BY <1>25 DEF Reschedule, Enqueue
    <2>2. Queued(j)' /\ \A k \in Jobs : Queued(k) => Queued(k)'
      BY <2>1, QueueGrows
    <2>3. /\ run' = [run EXCEPT ![j] = "queued"] /\ status' = status
          /\ \A k \in Jobs \ {j} : req'[k] = req[k]
          /\ UNCHANGED <<crashes, dbFailures>>
      BY <1>25 DEF Reschedule, Enqueue
    <2> QED
      BY <2>2, <2>3
  <1>26. ASSUME NEW w \in Workers, WorkerTakes(w) PROVE ActiveIsHeld'
    <2> DEFINE h == Head(queue)
    <2>1. /\ queue # <<>> /\ queue' = Tail(queue) /\ run' = [run EXCEPT ![h] = "start"]
          /\ UNCHANGED <<req, status, crashes, dbFailures>>
      BY <1>26 DEF WorkerTakes
    <2>2. \A k \in Jobs : k # h /\ Queued(k) => Queued(k)'
      BY <2>1, QueueShrinks
    <2>3. h \in Jobs
      BY <2>1
    <2> HIDE DEF h
    <2> QED
      BY <2>1, <2>2, <2>3
  <1>27. ASSUME NEW p \in Procs, Crash(p) PROVE ActiveIsHeld'
    BY <1>0, <1>27 DEF Crash, RunsOn, AfterCrash
  <1>28. ASSUME NEW p \in Procs, RedisFlips(p) PROVE ActiveIsHeld'
    BY <1>0, <1>28 DEF RedisFlips
  <1>29. CASE LockExpires
    BY <1>0, <1>29 DEF LockExpires
  <1>30. CASE UNCHANGED vars
    BY <1>0, <1>30 DEF vars
  <1>31. QED
    BY <1>1, <1>2, <1>3, <1>4, <1>5, <1>6, <1>7, <1>8, <1>9, <1>10, <1>11,
       <1>12, <1>13, <1>14, <1>15, <1>16, <1>17, <1>18, <1>19, <1>20,
       <1>21, <1>22, <1>23, <1>24, <1>25, <1>26, <1>27, <1>28, <1>29,
       <1>30 DEF Next, RequestStep, RunStep, Environment, AllDone

\* While no statement fails and nothing dies, an active job (which makes the
\* API refuse the repository) is still in somebody's hands: its request, the
\* queue, the scheduler or a run, for any number of jobs, workers and
\* re-runs, also after an enqueue whose reply was lost.
THEOREM ActiveJobsAreHeld == Spec => []ActiveIsHeld
  <1>1. Init => ActiveIsHeld
    BY DEF Init, ActiveIsHeld, Active
  <1>2. IndInv => TypeOK /\ StageInv /\ QueueInv
    BY DEF IndInv
  <1>3. QED
    BY <1>1, <1>2, HeldStep, Inductive, PTL DEF Spec

\* A completed row was indexed, and an active one is held, at any time.
THEOREM RowsTellTruth == Spec => []RowTellsTruth
  BY CompletedAreIndexed, ActiveJobsAreHeld, PTL DEF RowTellsTruth
=============================================================================
