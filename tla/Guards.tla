-------------------------------- MODULE Guards --------------------------------
(* Three small guards of the backend that several calls pass at once: the circuit breaker
   around the language model (core/resilience.py), the admin invites
   (admin_invite_service.py, auth/__init__.py), whose routes run in a thread pool with a
   commit between their steps, and the rate limiter (rate_limiter.py) of each process.  *)
EXTENDS Naturals, Sequences, FiniteSets, Functions

CONSTANTS Threshold,   \* failure_threshold
          CallSlots,   \* calls that can be under way at once
          MaxCancels,
          Invites, Emails, Registrations,
          Processes, Limit, Window, MaxTime, NoInvite

ASSUME ThresholdAssumption == Threshold \in Nat
\* Time is divided by the window.
ASSUME LimitAssumption ==
  /\ Limit \in Nat /\ Window \in Nat \ {0} /\ MaxTime \in Nat /\ IsFiniteSet(Processes)

VARIABLES breaker,     \* _state
          failures,    \* _failure_count, up to the threshold
          elapsed,     \* the recovery time has passed since the last failure
          healthy,     \* the model answers
          underWay,    \* outcome each admitted call will have, or "free"
          cancels,
          invites,     \* rows of admin_invites: email, and what became of them
          users,       \* accounts: the email and the invite it was made with
          registering, \* the admin registrations under way
          revoking,    \* the invite a revocation has read, or NoInvite
          now, counter, fallen, queue, admitted
breakerVars == <<breaker, failures, elapsed, healthy, underWay, cancels>>
inviteVars == <<invites, users, registering, revoking>>
limitVars == <<now, counter, fallen, queue, admitted>>
guardVars == <<breakerVars, inviteVars, limitVars>>

-----------------------------------------------------------------------------
(* CircuitBreaker *)

BreakerInit ==
  /\ breaker = "closed" /\ failures = 0 /\ elapsed = FALSE /\ healthy = FALSE
  /\ underWay = [c \in CallSlots |-> "free"] /\ cancels = 0

\* The state property, read on entry: half-open lets every call through.
State == IF breaker = "open" /\ elapsed THEN "half-open" ELSE breaker

Admit(c) ==
  /\ underWay[c] = "free" /\ breaker' = State
  /\ IF State = "open" THEN UNCHANGED underWay
     ELSE \E outcome \in IF healthy THEN {"succeeds"} ELSE {"succeeds", "fails"} :
            underWay' = [underWay EXCEPT ![c] = outcome]
  /\ UNCHANGED <<failures, elapsed, healthy, cancels>>

RecordFailure(c) ==
  /\ underWay[c] = "fails" /\ underWay' = [underWay EXCEPT ![c] = "free"]
  /\ failures' = IF failures < Threshold THEN failures + 1 ELSE failures
  /\ IF failures' = Threshold THEN breaker' = "open" /\ elapsed' = FALSE
     ELSE UNCHANGED <<breaker, elapsed>>
  /\ UNCHANGED <<healthy, cancels>>

\* Mutant: a success counts, and resets nothing.
RecordSuccessOnly(c) ==
  /\ underWay[c] = "succeeds" /\ underWay' = [underWay EXCEPT ![c] = "free"]
  /\ failures' = 0 /\ UNCHANGED <<breaker, elapsed, healthy, cancels>>

\* A success from before the breaker opened clears the count and leaves it open.
RecordSuccess(c) ==
  /\ underWay[c] = "succeeds" /\ underWay' = [underWay EXCEPT ![c] = "free"]
  /\ failures' = 0 /\ breaker' = IF breaker = "half-open" THEN "closed" ELSE breaker
  /\ UNCHANGED <<elapsed, healthy, cancels>>

\* A cancelled call (CancelledError, a closed generator) is not recorded at all.
CallCancelled(c) ==
  /\ cancels < MaxCancels /\ cancels' = cancels + 1
  /\ underWay[c] # "free" /\ underWay' = [underWay EXCEPT ![c] = "free"]
  /\ UNCHANGED <<breaker, failures, elapsed, healthy>>

RecoveryElapses ==
  /\ breaker = "open" /\ ~elapsed /\ elapsed' = TRUE
  /\ UNCHANGED <<breaker, failures, healthy, underWay, cancels>>
ModelTurns ==
  /\ healthy' = ~healthy /\ UNCHANGED <<breaker, failures, elapsed, underWay, cancels>>

BreakerNext ==
  \/ \E c \in CallSlots : Admit(c) \/ RecordFailure(c) \/ RecordSuccess(c) \/ CallCancelled(c)
  \/ RecoveryElapses \/ ModelTurns

-----------------------------------------------------------------------------
(* AdminInvites: an invite is made out to one email, a user's email is unique. *)

NoRegistration == [step |-> "idle", email |-> NoInvite, invite |-> NoInvite]
InvitesInit ==
  /\ invites = [i \in Invites |-> [state |-> "none", email |-> NoInvite]] /\ users = {}
  /\ registering = [r \in Registrations |-> NoRegistration] /\ revoking = NoInvite

CreateInvite(i, email) ==
  /\ invites[i].state = "none"
  /\ invites' = [invites EXCEPT ![i] = [state |-> "open", email |-> email]]
  /\ UNCHANGED <<users, registering, revoking>>
InviteExpires(i) ==
  /\ invites[i].state = "open" /\ invites' = [invites EXCEPT ![i].state = "expired"]
  /\ UNCHANGED <<users, registering, revoking>>

Step(r, step) == registering' = [registering EXCEPT ![r].step = step]

\* Mutant: the email of the invite is not compared.
ReadInviteOfAnyone(r, email, i) ==
  /\ registering[r].step = "idle" /\ invites[i].state = "open"
  /\ registering' = [registering EXCEPT ![r] = [step |-> "read", email |-> email, invite |-> i]]
  /\ UNCHANGED <<invites, users, revoking>>

\* The row is there, not consumed, made out to this email and not expired.
ReadInvite(r, email, i) ==
  /\ registering[r].step = "idle" /\ invites[i] = [state |-> "open", email |-> email]
  /\ registering' = [registering EXCEPT ![r] = [step |-> "read", email |-> email, invite |-> i]]
  /\ UNCHANGED <<invites, users, revoking>>

\* UPDATE and commit, without a condition on consumed_at; a row that is gone raises.
ConsumeInvite(r) ==
  LET i == registering[r].invite IN
  /\ registering[r].step = "read"
  /\ IF invites[i].state = "revoked" THEN Step(r, "idle") /\ UNCHANGED invites
     ELSE Step(r, "consumed") /\ invites' = [invites EXCEPT ![i].state = "consumed"]
  /\ UNCHANGED <<users, revoking>>

HasUser(email) == \E u \in users : u.email = email
LookForUser(r) ==
  /\ registering[r].step = "consumed"
  /\ Step(r, IF HasUser(registering[r].email) THEN "idle" ELSE "absent")
  /\ UNCHANGED <<invites, users, revoking>>
\* The INSERT fails on a duplicate email, or for a reason of the database.
InsertUser(r, ok) ==
  /\ registering[r].step = "absent" /\ Step(r, "idle")
  /\ users' = IF ok /\ ~HasUser(registering[r].email)
              THEN users \cup {[email |-> registering[r].email, invite |-> registering[r].invite]}
              ELSE users
  /\ UNCHANGED <<invites, revoking>>

\* Revocation reads, refuses a consumed invite, and deletes what it read.
ReadForRevoke(i) ==
  /\ revoking = NoInvite /\ invites[i].state \in {"open", "expired"} /\ revoking' = i
  /\ UNCHANGED <<invites, users, registering>>
Revoke ==
  /\ revoking # NoInvite /\ revoking' = NoInvite
  /\ invites' = [invites EXCEPT ![revoking].state = "revoked"]
  /\ UNCHANGED <<users, registering>>

InvitesNext ==
  \/ \E i \in Invites : \/ \E e \in Emails : CreateInvite(i, e)
                        \/ InviteExpires(i) \/ ReadForRevoke(i)
  \/ \E r \in Registrations : \/ ConsumeInvite(r) \/ LookForUser(r)
                              \/ \E ok \in BOOLEAN : InsertUser(r, ok)
                              \/ \E e \in Emails, i \in Invites : ReadInvite(r, e, i)
  \/ Revoke

-----------------------------------------------------------------------------
(* RateLimiter: the requests of one client for one path. *)

Bucket == now \div Window
LimitInit ==
  /\ now = 0 /\ counter = [b \in 0 .. MaxTime \div Window |-> 0] /\ fallen = {}
  /\ queue = [p \in Processes |-> <<>>] /\ admitted = counter

AdmitRequest == admitted' = [admitted EXCEPT ![Bucket] = @ + 1]

\* The deque: what is older than the window leaves at the front.
Recent(q) ==
  LET old(k) == now - q[k] > Window
      first == CHOOSE k \in 1 .. Len(q) + 1 : (k \in DOMAIN q => ~old(k)) /\ \A j \in 1 .. k - 1 : old(j)
  IN SubSeq(q, first, Len(q))
CheckMemory(p) ==
  LET q == Recent(queue[p]) IN
  IF Len(q) >= Limit THEN queue' = [queue EXCEPT ![p] = q] /\ UNCHANGED admitted
  ELSE queue' = [queue EXCEPT ![p] = Append(q, now)] /\ AdmitRequest

\* Mutant: the counter is compared as the length of the queue is, before this request.
CheckRedisBefore(p) ==
  /\ p \notin fallen /\ counter' = [counter EXCEPT ![Bucket] = @ + 1]
  /\ IF counter[Bucket] <= Limit THEN AdmitRequest ELSE UNCHANGED admitted
  /\ UNCHANGED <<now, fallen, queue>>

\* One counter of the bucket, shared by the processes; it outlives the bucket.
CheckRedis(p) ==
  /\ p \notin fallen /\ counter' = [counter EXCEPT ![Bucket] = @ + 1]
  /\ IF counter'[Bucket] <= Limit THEN AdmitRequest ELSE UNCHANGED admitted
  /\ UNCHANGED <<now, fallen, queue>>

\* Redis fails, after or before it counted: for good, this process counts alone.
FallBack(p, counted) ==
  /\ p \notin fallen /\ fallen' = fallen \cup {p}
  /\ counter' = IF counted THEN [counter EXCEPT ![Bucket] = @ + 1] ELSE counter
  /\ CheckMemory(p) /\ UNCHANGED now
CheckAlone(p) == p \in fallen /\ CheckMemory(p) /\ UNCHANGED <<now, counter, fallen>>

ClockTicks ==
  /\ now < MaxTime /\ now' = now + 1 /\ UNCHANGED <<counter, fallen, queue, admitted>>

\* A bound of the model: a client sends no more than is needed to pass every limit.
StillAsking(p) == counter[Bucket] <= Limit
LimitNext ==
  \/ \E p \in Processes : StillAsking(p) /\ (CheckRedis(p) \/ \E c \in BOOLEAN : FallBack(p, c))
  \/ \E p \in Processes : CheckAlone(p)
  \/ ClockTicks

-----------------------------------------------------------------------------
GuardsTypeOK ==
  /\ breaker \in {"closed", "open", "half-open"} /\ failures \in 0..Threshold
  /\ underWay \in [CallSlots -> {"free", "succeeds", "fails"}]
  /\ invites \in [Invites -> [state : {"none", "open", "consumed", "expired", "revoked"},
                             email : Emails \cup {NoInvite}]]
  /\ users \subseteq [email : Emails, invite : Invites]
  /\ now \in 0..MaxTime /\ fallen \subseteq Processes
  /\ \A p \in Processes : Len(queue[p]) <= Limit

\* Once the model answers again and calls keep coming, the breaker closes and stays so,
\* whatever answers of calls admitted before it opened come in after it opened or closed.
BreakerCloses == <>[]healthy => <>[](breaker = "closed")

\* An invite makes one account at most.  Its UPDATE carries no condition, so two
\* registrations may both consume it: only its email and the unique email of users,
\* two other tables' rules, keep them from two accounts.
OneAccountPerInvite ==
  \A u, v \in users : u.invite = v.invite => u = v

\* In one window a client gets its limit once, and once more from each process that lost
\* Redis: the fallback starts counting at nothing, whatever Redis had counted.
WindowLimit ==
  \A b \in DOMAIN admitted : admitted[b] <= Limit * (1 + Cardinality(fallen))
=============================================================================
