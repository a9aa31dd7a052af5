--------------------------- MODULE RepositoryLock ---------------------------
(***************************************************************************)
(* The per-repository lock of services/cache_service.py, for one           *)
(* repository.  A Redis lock with a TTL is used while Redis is available   *)
(* in the calling process; otherwise a production-like deployment refuses  *)
(* and a development one falls back to a threading.Lock of the process.    *)
(* A holder is identified by the random token redis-py stores in the key.  *)
(***************************************************************************)
CONSTANTS
    Holders,       \* lock tokens, one per acquisition attempt
    Procs,         \* processes that may take the lock
    Free,          \* value of a lock nobody holds
    Production     \* settings.is_production_like

VARIABLES
    redisLock,     \* the key repo_lock:<id>: the token stored in it, or Free
    localLock,     \* per process, the holder of _fallback_locks[<id>]
    available      \* per process, CacheService.is_available

LockTypeOK ==
    /\ redisLock \in Holders \cup {Free}
    /\ localLock \in [Procs -> Holders \cup {Free}]
    /\ available \in [Procs -> BOOLEAN]

LockInit ==
    /\ redisLock = Free
    /\ localLock = [p \in Procs |-> Free]
    /\ available = [p \in Procs |-> TRUE]

\* Mutant: production falls back to the lock of the process as well.
UsesLocalAnywhere(p) == ~available[p]

(***************************************************************************)
(* Which lock a caller in process p will use: decided once, on entry, from *)
(* is_available, and never re-examined.                                    *)
(***************************************************************************)
UsesRedis(p) == available[p]
UsesLocal(p) == ~available[p] /\ ~Production
RefusesLock(p) == ~available[p] /\ Production

AcquireRedis(h) ==
    /\ redisLock = Free
    /\ redisLock' = h
    /\ UNCHANGED <<localLock, available>>

AcquireLocal(h, p) ==
    /\ localLock[p] = Free
    /\ localLock' = [localLock EXCEPT ![p] = h]
    /\ UNCHANGED <<redisLock, available>>

\* redis-py releases by compare-and-delete: a token that no longer owns the
\* key raises LockError, which repository_lock logs and swallows.
ReleaseRedis(h) ==
    /\ redisLock' = IF redisLock = h THEN Free ELSE redisLock
    /\ UNCHANGED <<localLock, available>>

\* The release call itself fails (breaker open, RedisError): only logged, the
\* key stays until its TTL.
ReleaseRedisLost == UNCHANGED <<redisLock, localLock, available>>

ReleaseLocal(p) ==
    /\ localLock' = [localLock EXCEPT ![p] = Free]
    /\ UNCHANGED <<redisLock, available>>

\* The TTL of the key (lock_timeout = 3600 s) runs out.
ExpireRedisLock ==
    /\ redisLock # Free
    /\ redisLock' = Free
    /\ UNCHANGED <<localLock, available>>

\* The circuit breaker of process p opens, or recovers.
FlipAvailability(p) ==
    /\ available' = [available EXCEPT ![p] = ~available[p]]
    /\ UNCHANGED <<redisLock, localLock>>
=============================================================================
