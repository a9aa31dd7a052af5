----------------------------- MODULE PartsProofs -----------------------------
(***************************************************************************)
(* Proofs about Guards, and about MCParts, where the guards and the parts  *)
(* of the browser's code are side by side.  For every set of invites,      *)
(* emails and concurrent registrations, no invite makes two accounts,      *)
(* although two registrations may consume it.  For every limit, window and *)
(* number of processes, a client passes no window more often than its      *)
(* limit, plus once its limit for each process that lost Redis.  And the   *)
(* specification that the runs check has the types and the invariants that *)
(* are proved of each part alone.                                          *)
(***************************************************************************)
EXTENDS MCParts, BrowserProofs, ChatProofs, StudioProofs

-----------------------------------------------------------------------------
(* The circuit breaker *)

BreakerTypes ==
  /\ breaker \in {"closed", "open", "half-open"} /\ failures \in 0 .. Threshold
  /\ underWay \in [CallSlots -> {"free", "succeeds", "fails"}]

LEMMA BreakerTypesInit == BreakerInit => BreakerTypes
  BY ThresholdAssumption DEF BreakerInit, BreakerTypes

LEMMA BreakerTypesStep == BreakerTypes /\ [BreakerNext]_breakerVars => BreakerTypes'
  <1> SUFFICES ASSUME BreakerTypes, [BreakerNext]_breakerVars PROVE BreakerTypes'
    OBVIOUS
  <1>1. ASSUME NEW c \in CallSlots, Admit(c) PROVE BreakerTypes'
    BY <1>1 DEF Admit, State, BreakerTypes
  <1>2. ASSUME NEW c \in CallSlots, RecordFailure(c) PROVE BreakerTypes'
    BY <1>2, ThresholdAssumption DEF RecordFailure, BreakerTypes
  <1>3. ASSUME NEW c \in CallSlots, RecordSuccess(c) PROVE BreakerTypes'
    BY <1>3, ThresholdAssumption DEF RecordSuccess, BreakerTypes
  <1>4. ASSUME NEW c \in CallSlots, CallCancelled(c) PROVE BreakerTypes'
    BY <1>4 DEF CallCancelled, BreakerTypes
  <1>5. CASE RecoveryElapses \/ ModelTurns \/ UNCHANGED breakerVars
    BY <1>5 DEF RecoveryElapses, ModelTurns, breakerVars, BreakerTypes
  <1> QED
    BY <1>1, <1>2, <1>3, <1>4, <1>5 DEF BreakerNext

-----------------------------------------------------------------------------
(* The invites *)

InvitesSpec == InvitesInit /\ [][InvitesNext]_inviteVars

InviteRow == [state : {"none", "open", "consumed", "expired", "revoked"},
              email : Emails \cup {NoInvite}]
Registration == [step : {"idle", "read", "consumed", "absent"}, email : Emails \cup {NoInvite},
                 invite : Invites \cup {NoInvite}]

InviteTypes ==
  /\ invites \in [Invites -> InviteRow]
  /\ users \subseteq [email : Emails, invite : Invites]
  /\ registering \in [Registrations -> Registration]
  /\ revoking \in Invites \cup {NoInvite}

\* Who holds invite i made out to email e: its row was created for e, and no step of any
\* registration or revocation writes the email of a row again.
MadeOutTo(i, e) == i \in Invites /\ invites[i].state # "none" /\ invites[i].email = e

HoldersInv ==
  /\ \A r \in Registrations :
       registering[r].step # "idle" =>
         registering[r].email \in Emails /\ MadeOutTo(registering[r].invite, registering[r].email)
  /\ \A u \in users : MadeOutTo(u.invite, u.email)
  /\ revoking # NoInvite => invites[revoking].state # "none"

\* The unique email of the table users.
EmailsUnique == \A u, v \in users : u.email = v.email => u = v

InvitesInv == InviteTypes /\ HoldersInv /\ EmailsUnique

-----------------------------------------------------------------------------
LEMMA InvitesInvInit == InvitesInit => InvitesInv
  <1> SUFFICES ASSUME InvitesInit PROVE InvitesInv
    OBVIOUS
  <1>1. InviteTypes
    BY DEF InvitesInit, InviteTypes, InviteRow, Registration, NoRegistration
  <1>2. HoldersInv
    BY DEF InvitesInit, HoldersInv, NoRegistration
  <1>3. EmailsUnique
    BY DEF InvitesInit, EmailsUnique
  <1> QED
    BY <1>1, <1>2, <1>3 DEF InvitesInv

\* A row that is written keeps its email and does not become "none" again.
LEMMA HoldersStay ==
  ASSUME InvitesInv, NEW i \in Invites, NEW s \in {"open", "consumed", "expired", "revoked"},
         invites' = [invites EXCEPT ![i].state = s], NEW j, NEW e, MadeOutTo(j, e)
  PROVE  MadeOutTo(j, e)'
  BY DEF InvitesInv, InviteTypes, InviteRow, MadeOutTo

LEMMA InvitesInvStep == InvitesInv /\ [InvitesNext]_inviteVars => InvitesInv'
  <1> SUFFICES ASSUME InvitesInv, [InvitesNext]_inviteVars PROVE InvitesInv'
    OBVIOUS
  <1> USE DEF InvitesInv
  <1>1. CASE \E i \in Invites, e \in Emails : CreateInvite(i, e)
    <2> PICK i \in Invites, e \in Emails : CreateInvite(i, e)
      BY <1>1
    <2>1. InviteTypes'
      BY DEF CreateInvite, InviteTypes, InviteRow
    <2>2. \A j, f : MadeOutTo(j, f) => MadeOutTo(j, f)'
      BY DEF CreateInvite, InviteTypes, MadeOutTo
    <2>3. revoking' # NoInvite => invites'[revoking'].state # "none"
      BY DEF CreateInvite, InviteTypes, HoldersInv
    <2>4. HoldersInv'
      BY <2>2, <2>3 DEF CreateInvite, HoldersInv
    <2> QED
      BY <2>1, <2>4 DEF CreateInvite, EmailsUnique
  <1>2. CASE \E i \in Invites : InviteExpires(i)
    <2> PICK i \in Invites : InviteExpires(i)
      BY <1>2
    <2>1. InviteTypes'
      BY DEF InviteExpires, InviteTypes, InviteRow
    <2>2. \A j, f : MadeOutTo(j, f) => MadeOutTo(j, f)'
      BY HoldersStay DEF InviteExpires
    <2>3. HoldersInv'
      BY <2>2 DEF InviteExpires, InviteTypes, InviteRow, HoldersInv
    <2> QED
      BY <2>1, <2>3 DEF InviteExpires, EmailsUnique
  <1>3. CASE \E r \in Registrations, e \in Emails, i \in Invites : ReadInvite(r, e, i)
    <2> PICK r \in Registrations, e \in Emails, i \in Invites : ReadInvite(r, e, i)
      BY <1>3
    <2>1. InviteTypes'
      BY DEF ReadInvite, InviteTypes, Registration
    <2>2. HoldersInv'
      BY DEF ReadInvite, InviteTypes, HoldersInv, MadeOutTo
    <2> QED
      BY <2>1, <2>2 DEF ReadInvite, EmailsUnique
  <1>4. CASE \E r \in Registrations : ConsumeInvite(r)
    <2> PICK r \in Registrations : ConsumeInvite(r)
      BY <1>4
    <2> DEFINE i == registering[r].invite
    <2>1. i \in Invites /\ registering[r].step = "read"
      BY DEF ConsumeInvite, HoldersInv, MadeOutTo
    <2>2. \E s \in {"idle", "consumed"} : Step(r, s)
      BY DEF ConsumeInvite
    <2>3. invites' = invites \/ invites' = [invites EXCEPT ![i].state = "consumed"]
      BY DEF ConsumeInvite
    <2>4. InviteTypes'
      <3>1. invites' \in [Invites -> InviteRow]
        BY <2>1, <2>3 DEF InviteTypes, InviteRow
      <3>2. registering' \in [Registrations -> Registration]
        BY <2>2 DEF Step, InviteTypes, Registration
      <3> QED
        BY <3>1, <3>2 DEF ConsumeInvite, InviteTypes
    <2>5. \A j, f : MadeOutTo(j, f) => MadeOutTo(j, f)'
      BY <2>1, <2>3, HoldersStay DEF MadeOutTo
    <2>6. \A q \in Registrations : /\ registering'[q].email = registering[q].email
                                   /\ registering'[q].invite = registering[q].invite
                                   /\ registering'[q].step # "idle" => registering[q].step # "idle"
      BY <2>1, <2>2 DEF Step, InviteTypes
    <2>7. revoking' # NoInvite => invites'[revoking'].state # "none"
      BY <2>1, <2>3 DEF ConsumeInvite, InviteTypes, InviteRow, HoldersInv
    <2>8. HoldersInv'
      BY <2>5, <2>6, <2>7 DEF ConsumeInvite, HoldersInv
    <2> QED
      BY <2>4, <2>8 DEF ConsumeInvite, EmailsUnique
  <1>5. CASE \E r \in Registrations : LookForUser(r)
    <2> PICK r \in Registrations : LookForUser(r)
      BY <1>5
    <2>1. InviteTypes'
      BY DEF LookForUser, Step, InviteTypes, Registration
    <2>2. HoldersInv'
      BY DEF LookForUser, Step, InviteTypes, HoldersInv, MadeOutTo
    <2> QED
      BY <2>1, <2>2 DEF LookForUser, EmailsUnique
  <1>6. CASE \E r \in Registrations, ok \in BOOLEAN : InsertUser(r, ok)
    <2> PICK r \in Registrations, ok \in BOOLEAN : InsertUser(r, ok)
      BY <1>6
    <2> DEFINE made == [email |-> registering[r].email, invite |-> registering[r].invite]
    <2>1. /\ made.email \in Emails /\ made.invite \in Invites
          /\ MadeOutTo(made.invite, made.email)
      BY DEF InsertUser, HoldersInv, MadeOutTo
    <2>2. users' = users \/ (users' = users \cup {made} /\ \A u \in users : u.email # made.email)
      BY DEF InsertUser, HasUser
    <2>3. registering' \in [Registrations -> Registration]
      BY DEF InsertUser, Step, InviteTypes, Registration
    <2>4. InviteTypes'
      BY <2>1, <2>2, <2>3 DEF InsertUser, InviteTypes
    <2>5. \A q \in Registrations :
            registering'[q].step # "idle" => registering'[q] = registering[q]
      BY DEF InsertUser, Step, InviteTypes, Registration
    <2>6. HoldersInv'
      BY <2>1, <2>2, <2>5 DEF InsertUser, HoldersInv, MadeOutTo
    <2>7. EmailsUnique'
      BY <2>2 DEF EmailsUnique
    <2> QED
      BY <2>4, <2>6, <2>7
  <1>7. CASE \E i \in Invites : ReadForRevoke(i)
    <2>1. InviteTypes' /\ HoldersInv'
      BY <1>7 DEF ReadForRevoke, InviteTypes, HoldersInv, MadeOutTo
    <2> QED
      BY <1>7, <2>1 DEF ReadForRevoke, EmailsUnique
  <1>8. CASE Revoke
    <2>1. revoking \in Invites /\ invites' = [invites EXCEPT ![revoking].state = "revoked"]
      BY <1>8 DEF Revoke, InviteTypes
    <2>2. InviteTypes'
      BY <1>8, <2>1 DEF Revoke, InviteTypes, InviteRow
    <2>3. \A j, f : MadeOutTo(j, f) => MadeOutTo(j, f)'
      BY <2>1, HoldersStay
    <2>4. HoldersInv'
      BY <1>8, <2>3 DEF Revoke, HoldersInv
    <2> QED
      BY <1>8, <2>2, <2>4 DEF Revoke, EmailsUnique
  <1>9. CASE UNCHANGED inviteVars
    BY <1>9 DEF inviteVars, InviteTypes, HoldersInv, MadeOutTo, EmailsUnique
  <1> QED
    BY <1>1, <1>2, <1>3, <1>4, <1>5, <1>6, <1>7, <1>8, <1>9 DEF InvitesNext

-----------------------------------------------------------------------------
\* The invariant of the invites holds always.
THEOREM InvitesInvariant == InvitesSpec => []InvitesInv
  BY InvitesInvInit, InvitesInvStep, PTL DEF InvitesSpec

\* However many registrations and revocations interleave, an invite makes one account at
\* most: by its email and the unique email of users, since consuming it twice is possible.
THEOREM InviteMakesOneAccount == InvitesSpec => []OneAccountPerInvite
  <1>1. InvitesInv => OneAccountPerInvite
    BY DEF InvitesInv, HoldersInv, MadeOutTo, EmailsUnique, OneAccountPerInvite
  <1> QED
    BY <1>1, InvitesInvariant, PTL

-----------------------------------------------------------------------------
(* The rate limiter.  What is admitted in the current bucket is what Redis counted there, up
   to the limit, and what the processes without it took: each of these is still among the
   last entries of its queue, since nothing of this bucket is old enough to be popped.    *)
LimitSpec == LimitInit /\ [][LimitNext]_limitVars

Buckets == 0 .. MaxTime \div Window
LimitTypes ==
  /\ now \in 0 .. MaxTime /\ fallen \subseteq Processes
  /\ counter \in [Buckets -> Nat] /\ admitted \in [Buckets -> Nat]
  /\ queue \in [Processes -> Seq(Nat)]

Tallies == [Processes -> 0 .. Limit]
\* The requests m counts, m[p] of each process.
Taken(m) == {x \in Processes \X (1 .. Limit) : x[2] <= m[x[1]]}
\* The last m[p] entries of the queue of p are of the current bucket.
Latest(m, p) ==
  /\ Len(queue[p]) <= Limit /\ m[p] <= Len(queue[p])
  /\ \A k \in DOMAIN queue[p] : k > Len(queue[p]) - m[p] => queue[p][k] \div Window = Bucket
Tallied(m) ==
  /\ \A p \in Processes : Latest(m, p)
  /\ \E r \in 0 .. Limit : /\ r <= counter[Bucket]
                           /\ admitted[Bucket] <= r + Cardinality(Taken(m))

LimitInv ==
  /\ LimitTypes
  /\ \A p \in Processes \ fallen : queue[p] = <<>>
  /\ \A b \in Buckets : b > Bucket => admitted[b] = 0
  /\ \E m \in Tallies : Tallied(m)
  /\ \A b \in Buckets : b < Bucket => admitted[b] <= Limit * (1 + Cardinality(fallen))

LEMMA DivBasics ==
  ASSUME NEW a \in Nat
  PROVE  /\ a \div Window \in Nat
         /\ Window * (a \div Window) <= a /\ a < Window * (a \div Window) + Window
  BY LimitAssumption

LEMMA DivMonotone ==
  ASSUME NEW a \in Nat, NEW b \in Nat, a <= b
  PROVE  a \div Window <= b \div Window
  BY LimitAssumption

\* Two times of one bucket are less than a window apart.
LEMMA SameBucket ==
  ASSUME NEW a \in Nat, NEW b \in Nat, a \div Window = b \div Window
  PROVE  b - a < Window
  BY DivBasics, LimitAssumption

LEMMA BucketType == LimitTypes => Bucket \in Buckets
  <1> SUFFICES ASSUME LimitTypes PROVE Bucket \in Buckets
    OBVIOUS
  <1>1. now \in Nat /\ MaxTime \in Nat /\ now <= MaxTime
    BY LimitAssumption DEF LimitTypes
  <1>2. /\ now \div Window \in Nat /\ MaxTime \div Window \in Nat
        /\ now \div Window <= MaxTime \div Window
    BY <1>1, DivBasics, DivMonotone
  <1> QED
    BY <1>2 DEF Bucket, Buckets

\* The deque keeps the entries of the current bucket, whatever is before them.
LEMMA RecentKeeps ==
  ASSUME LimitTypes, NEW q \in Seq(Nat), NEW n \in 0 .. Len(q),
         \A k \in DOMAIN q : k > Len(q) - n => q[k] \div Window = Bucket
  PROVE  /\ Recent(q) \in Seq(Nat) /\ Len(Recent(q)) \in n .. Len(q)
         /\ \A k \in DOMAIN Recent(q) :
              k > Len(Recent(q)) - n => Recent(q)[k] \div Window = Bucket
  <1> DEFINE old(k) == now - q[k] > Window
             stops(k) == (k \in DOMAIN q => ~old(k)) /\ \A j \in 1 .. k - 1 : old(j)
             first == CHOOSE k \in 1 .. Len(q) + 1 : stops(k)
             T == {k \in 1 .. Len(q) + 1 : k \in DOMAIN q => ~old(k)}
  <1>1. \E k \in 1 .. Len(q) + 1 : stops(k)
    <2>1. Len(q) + 1 \in T /\ T \in SUBSET Nat
      OBVIOUS
    <2> HIDE DEF T
    <2>2. PICK k \in T : \A j \in T : k <= j
      BY <2>1, LeastNatural
    <2> USE DEF T
    <2>3. \A j \in 1 .. k - 1 : j \in 1 .. Len(q) + 1 /\ j \notin T
      BY <2>2
    <2> QED
      BY <2>2, <2>3
  <1>2. first \in 1 .. Len(q) + 1 /\ stops(first)
    BY <1>1
  <1>3. Recent(q) = SubSeq(q, first, Len(q))
    BY DEF Recent
  <1> HIDE DEF first
  <1>4. first <= Len(q) - n + 1
    <2> SUFFICES ASSUME first > Len(q) - n + 1 PROVE FALSE
      BY <1>2
    <2> DEFINE j == Len(q) - n + 1
    <2>1. j \in DOMAIN q /\ j \in 1 .. first - 1 /\ j > Len(q) - n
      BY <1>2
    <2>2. old(j) /\ q[j] \div Window = Bucket /\ q[j] \in Nat
      BY <1>2, <2>1
    <2>3. now - q[j] < Window
      BY <2>2, SameBucket DEF LimitTypes, Bucket
    <2> QED
      BY <2>2, <2>3, LimitAssumption DEF LimitTypes
  <1>5. /\ Recent(q) \in Seq(Nat) /\ Len(Recent(q)) = Len(q) - first + 1
        /\ \A k \in DOMAIN Recent(q) : Recent(q)[k] = q[k + first - 1]
    BY <1>2, <1>3
  <1>6. ASSUME NEW k \in DOMAIN Recent(q), k > Len(Recent(q)) - n
        PROVE  Recent(q)[k] \div Window = Bucket
    <2>1. first \in 1 .. Len(q) + 1 /\ k \in 1 .. Len(q) - first + 1 /\ k > Len(q) - first + 1 - n
      <3>1. DOMAIN Recent(q) = 1 .. Len(Recent(q))
        BY <1>5
      <3> QED
        BY <1>2, <1>5, <1>6, <3>1
    <2>2. k + first - 1 \in DOMAIN q /\ k + first - 1 > Len(q) - n
      BY <2>1
    <2> QED
      BY <1>5, <2>2
  <1> QED
    BY <1>2, <1>4, <1>5, <1>6

\* The tallies are finitely many, and those of the processes without Redis bound them.
LEMMA TakenFinite ==
  ASSUME NEW m \in Tallies
  PROVE  IsFiniteSet(Taken(m)) /\ Cardinality(Taken(m)) \in Nat
  <1>1. IsFiniteSet(Processes \X (1 .. Limit))
    <2>1. IsFiniteSet(1 .. Limit) /\ IsFiniteSet(Processes)
      BY LimitAssumption, FS_Interval
    <2> QED
      BY <2>1, FS_Product
  <1>2. Taken(m) \in SUBSET (Processes \X (1 .. Limit))
    BY DEF Taken
  <1> QED
    BY <1>1, <1>2, FS_Subset, FS_CardinalityType

LEMMA FallenFinite == LimitTypes => IsFiniteSet(fallen) /\ Cardinality(fallen) \in Nat
  BY LimitAssumption, FS_Subset, FS_CardinalityType DEF LimitTypes

LEMMA TakenBound ==
  ASSUME LimitTypes, \A p \in Processes \ fallen : queue[p] = <<>>,
         NEW m \in Tallies, \A p \in Processes : Latest(m, p)
  PROVE  Cardinality(Taken(m)) <= Limit * Cardinality(fallen)
  <1>1. Taken(m) \in SUBSET (fallen \X (1 .. Limit))
    <2> SUFFICES ASSUME NEW p \in Processes, NEW i \in 1 .. Limit, i <= m[p], p \notin fallen
                 PROVE  FALSE
      BY DEF Taken
    <2>1. m[p] <= 0
      BY DEF Latest
    <2> QED
      BY <2>1, LimitAssumption DEF Tallies
  <1>2. /\ IsFiniteSet(1 .. Limit) /\ Cardinality(1 .. Limit) = Limit
    BY LimitAssumption, FS_Interval
  <1>3. /\ IsFiniteSet(fallen \X (1 .. Limit))
        /\ Cardinality(fallen \X (1 .. Limit)) = Cardinality(fallen) * Limit
    BY <1>2, FallenFinite, FS_Product
  <1>4. Cardinality(Taken(m)) <= Cardinality(fallen \X (1 .. Limit))
    BY <1>1, <1>3, FS_Subset
  <1> QED
    BY <1>3, <1>4, FallenFinite, LimitAssumption

\* One more request of p.
LEMMA TakenOneMore ==
  ASSUME NEW m \in Tallies, NEW p \in Processes, m[p] < Limit
  PROVE  LET n == [m EXCEPT ![p] = @ + 1]
         IN n \in Tallies /\ Cardinality(Taken(n)) = Cardinality(Taken(m)) + 1
  <1> DEFINE n == [m EXCEPT ![p] = @ + 1]
             x == <<p, m[p] + 1>>
  <1>1. n \in Tallies
    BY LimitAssumption DEF Tallies
  <1>2. Taken(n) = Taken(m) \cup {x}
    <2>1. \A q \in Processes, i \in 1 .. Limit :
            i <= n[q] <=> i <= m[q] \/ (q = p /\ i = m[p] + 1)
      BY LimitAssumption DEF Tallies
    <2>2. m[p] + 1 \in 1 .. Limit
      BY LimitAssumption DEF Tallies
    <2> QED
      BY <2>1, <2>2 DEF Taken
  <1>3. x \notin Taken(m)
    BY LimitAssumption DEF Taken, Tallies
  <1> QED
    BY <1>1, <1>2, <1>3, TakenFinite, FS_AddElement

-----------------------------------------------------------------------------
LEMMA LimitInvInit == LimitInit => LimitInv
  <1> SUFFICES ASSUME LimitInit PROVE LimitInv
    OBVIOUS
  <1> DEFINE m == [p \in Processes |-> 0]
  <1>1. LimitTypes
    BY LimitAssumption DEF LimitInit, LimitTypes, Buckets
  <1>2. Bucket \in Buckets
    BY <1>1, BucketType
  <1>3. m \in Tallies /\ Tallied(m)
    <2>1. m \in Tallies /\ \A p \in Processes : Latest(m, p)
      BY LimitAssumption DEF Tallies, LimitInit, Latest
    <2>2. 0 <= counter[Bucket] /\ admitted[Bucket] <= 0 + Cardinality(Taken(m))
      BY <1>2, <2>1, TakenFinite DEF LimitInit, Buckets
    <2> QED
      BY <2>1, <2>2, LimitAssumption DEF Tallied
  <1>4. \A b \in Buckets : ~(b < Bucket)
    <2>1. Bucket = 0
      BY LimitAssumption DEF LimitInit, Bucket
    <2> QED
      BY <2>1 DEF Buckets
  <1> QED
    BY <1>1, <1>3, <1>4 DEF LimitInv, LimitInit, Buckets

\* What the tallies say of the current bucket is within the limit.
LEMMA TalliedBound ==
  ASSUME LimitTypes, \A p \in Processes \ fallen : queue[p] = <<>>,
         NEW m \in Tallies, Tallied(m)
  PROVE  admitted[Bucket] <= Limit * (1 + Cardinality(fallen))
  <1>1. Cardinality(Taken(m)) <= Limit * Cardinality(fallen) /\ Cardinality(Taken(m)) \in Nat
    BY TakenBound, TakenFinite DEF Tallied
  <1>2. admitted[Bucket] \in Nat /\ admitted[Bucket] <= Limit + Cardinality(Taken(m))
    BY <1>1, BucketType, LimitAssumption DEF Tallied, LimitTypes
  <1> DEFINE c == Cardinality(fallen)
  <1>3. c \in Nat /\ Limit \in Nat
    BY FallenFinite, LimitAssumption
  <1> HIDE DEF c
  <1>4. Limit * (1 + c) = Limit + Limit * c
    BY <1>3
  <1> QED
    BY <1>1, <1>2, <1>3, <1>4 DEF c

\* More processes without Redis, more room.
LEMMA QuotaGrows ==
  ASSUME NEW c \in Nat, NEW d \in Nat, c <= d
  PROVE  Limit * (1 + c) \in Nat /\ Limit * (1 + c) <= Limit * (1 + d)
  <1>1. PICK e \in Nat : d = c + e
    <2>1. d - c \in Nat /\ d = c + (d - c)
      OBVIOUS
    <2> QED
      BY <2>1
  <1>2. Limit * (1 + c + e) = Limit * (1 + c) + Limit * e
    BY LimitAssumption
  <1>3. Limit * e \in Nat /\ Limit * (1 + c) \in Nat
    BY LimitAssumption
  <1> QED
    BY <1>1, <1>2, <1>3

\* A process checks its own queue: it takes one request more, or none.
LEMMA MemoryTallied ==
  ASSUME LimitTypes, NEW m \in Tallies, \A p \in Processes : Latest(m, p),
         NEW q \in Processes, CheckMemory(q), UNCHANGED now
  PROVE  /\ queue' \in [Processes -> Seq(Nat)]
         /\ \A p \in Processes \ {q} : queue'[p] = queue[p]
         /\ \E n \in Tallies :
              /\ \A p \in Processes : Latest(n, p)'
              /\ \/ admitted' = admitted /\ Taken(n) = Taken(m)
                 \/ /\ AdmitRequest
                    /\ Cardinality(Taken(n)) = Cardinality(Taken(m)) + 1
  <1> DEFINE r == Recent(queue[q])
  <1>1. queue[q] \in Seq(Nat) /\ m[q] \in 0 .. Len(queue[q]) /\ m[q] \in 0 .. Limit
    BY DEF LimitTypes, Latest, Tallies
  <1>2. /\ r \in Seq(Nat) /\ Len(r) \in m[q] .. Len(queue[q])
        /\ \A k \in DOMAIN r : k > Len(r) - m[q] => r[k] \div Window = Bucket
    BY <1>1, RecentKeeps DEF Latest
  <1>3. Len(r) <= Limit
    BY <1>1, <1>2, LimitAssumption DEF Latest
  <1>4. Bucket' = Bucket /\ now \in Nat /\ now \div Window = Bucket
    BY DEF Bucket, LimitTypes
  <1> HIDE DEF r
  <1>5. CASE Len(r) >= Limit
    <2>1. queue' = [queue EXCEPT ![q] = r] /\ admitted' = admitted
      BY <1>5 DEF CheckMemory, r
    <2>2. ASSUME NEW p \in Processes PROVE Latest(m, p)'
      <3>1. CASE p = q
        BY <1>2, <1>3, <1>4, <2>1, <3>1 DEF Latest, LimitTypes
      <3>2. CASE p # q
        BY <1>4, <2>1, <3>2 DEF Latest, LimitTypes
      <3> QED
        BY <3>1, <3>2
    <2> QED
      BY <1>2, <2>1, <2>2 DEF LimitTypes
  <1>6. CASE Len(r) < Limit
    <2> DEFINE n == [m EXCEPT ![q] = @ + 1]
               s == Append(r, now)
    <2>1. queue' = [queue EXCEPT ![q] = s] /\ AdmitRequest
      BY <1>6, <1>2, LimitAssumption DEF CheckMemory, r
    <2>2. n \in Tallies /\ Cardinality(Taken(n)) = Cardinality(Taken(m)) + 1
      <3>1. m[q] < Limit
        BY <1>1, <1>2, <1>6, LimitAssumption
      <3> QED
        BY <3>1, TakenOneMore
    <2>3. n[q] = m[q] + 1 /\ \A p \in Processes \ {q} : n[p] = m[p]
      BY DEF Tallies
    <2>4. /\ s \in Seq(Nat) /\ Len(s) = Len(r) + 1
          /\ \A k \in DOMAIN r : s[k] = r[k]
          /\ s[Len(s)] = now /\ \A k \in DOMAIN s : k \in DOMAIN r \/ k = Len(s)
      BY <1>2, <1>4
    <2> HIDE DEF n, s
    <2>5. \A k \in DOMAIN s : k > Len(s) - n[q] => s[k] \div Window = Bucket
      <3> SUFFICES ASSUME NEW k \in DOMAIN s, k > Len(s) - n[q] PROVE s[k] \div Window = Bucket
        OBVIOUS
      <3>1. CASE k = Len(s)
        BY <1>4, <2>4, <3>1
      <3>2. CASE k \in DOMAIN r
        <4>1. k > Len(r) - m[q]
          BY <1>1, <1>2, <2>3, <2>4, <3>2, SMTT(40)
        <4> QED
          BY <1>2, <2>4, <3>2, <4>1
      <3> QED
        BY <2>4, <3>1, <3>2
    <2>6. ASSUME NEW p \in Processes PROVE Latest(n, p)'
      <3>1. CASE p = q
        <4>1. Len(s) <= Limit /\ n[q] <= Len(s)
          BY <1>1, <1>2, <1>6, <2>3, <2>4, LimitAssumption
        <4> QED
          BY <1>4, <2>1, <2>5, <3>1, <4>1 DEF Latest, LimitTypes
      <3>2. CASE p # q
        BY <1>4, <2>1, <2>3, <3>2 DEF Latest, LimitTypes
      <3> QED
        BY <3>1, <3>2
    <2> QED
      BY <2>1, <2>2, <2>4, <2>6 DEF LimitTypes
  <1> QED
    BY <1>1, <1>2, <1>5, <1>6, LimitAssumption

LEMMA AdmitsOne ==
  ASSUME LimitTypes, AdmitRequest
  PROVE  /\ admitted' \in [Buckets -> Nat] /\ admitted'[Bucket] = admitted[Bucket] + 1
         /\ \A b \in Buckets : b # Bucket => admitted'[b] = admitted[b]
  <1>1. Bucket \in Buckets
    BY BucketType
  <1> QED
    BY <1>1 DEF LimitTypes, AdmitRequest

\* A count of Redis rises by one at the most.
LEMMA CounterRises ==
  ASSUME LimitTypes, NEW c \in [Buckets -> Nat],
         c = counter \/ c = [counter EXCEPT ![Bucket] = @ + 1]
  PROVE  counter[Bucket] \in Nat /\ c[Bucket] \in Nat /\ counter[Bucket] <= c[Bucket]
  BY BucketType DEF LimitTypes

\* While the clock stands, what is admitted to other buckets does not change, and the room
\* of the past ones does not shrink.
LEMMA OthersStay ==
  ASSUME LimitInv, UNCHANGED now, fallen \subseteq fallen', fallen' \subseteq Processes,
         admitted' = admitted \/ AdmitRequest
  PROVE  /\ admitted' \in [Buckets -> Nat] /\ Bucket' = Bucket
         /\ \A b \in Buckets : b > Bucket' => admitted'[b] = 0
         /\ \A b \in Buckets : b < Bucket' => admitted'[b] <= Limit * (1 + Cardinality(fallen'))
  <1>1. /\ admitted' \in [Buckets -> Nat] /\ Bucket' = Bucket /\ Bucket \in Buckets
        /\ \A b \in Buckets : b # Bucket => admitted'[b] = admitted[b]
    BY AdmitsOne, BucketType DEF LimitInv, LimitTypes, Bucket
  <1>2. \A b \in Buckets : b \in Nat
    BY DEF Buckets
  <1>3. /\ IsFiniteSet(fallen') /\ Cardinality(fallen) \in Nat
        /\ Cardinality(fallen') \in Nat /\ Cardinality(fallen) <= Cardinality(fallen')
    BY LimitAssumption, FS_Subset, FS_CardinalityType
  <1>4. /\ Limit * (1 + Cardinality(fallen)) \in Nat
        /\ Limit * (1 + Cardinality(fallen)) <= Limit * (1 + Cardinality(fallen'))
    BY <1>3, QuotaGrows
  <1>5. Limit * (1 + Cardinality(fallen')) \in Nat
    BY <1>3, QuotaGrows
  <1>6. \A b \in Buckets : b > Bucket => admitted'[b] = 0
    BY <1>1, <1>2 DEF LimitInv
  <1>7. ASSUME NEW b \in Buckets, b < Bucket
        PROVE  admitted'[b] <= Limit * (1 + Cardinality(fallen'))
    <2>1. /\ admitted'[b] = admitted[b] /\ admitted[b] \in Nat
          /\ admitted[b] <= Limit * (1 + Cardinality(fallen))
      BY <1>1, <1>2, <1>7 DEF LimitInv, LimitTypes
    <2> QED
      BY <1>4, <1>5, <2>1
  <1> QED
    BY <1>1, <1>6, <1>7

\* Tallies that follow what a process did in its memory count all that is admitted.
LEMMA TalliedStep ==
  ASSUME LimitInv, UNCHANGED now, counter' \in [Buckets -> Nat],
         counter' = counter \/ counter' = [counter EXCEPT ![Bucket] = @ + 1],
         NEW m \in Tallies, Tallied(m), NEW n \in Tallies, \A p \in Processes : Latest(n, p)',
         \/ admitted' = admitted /\ Taken(n) = Taken(m)
         \/ /\ AdmitRequest
            /\ Cardinality(Taken(n)) = Cardinality(Taken(m)) + 1
  PROVE  Tallied(n)'
  <1>1. PICK r \in 0 .. Limit : r <= counter[Bucket]
                                /\ admitted[Bucket] <= r + Cardinality(Taken(m))
    BY DEF Tallied
  <1>2. r <= counter'[Bucket]
    <2>1. /\ counter[Bucket] \in Nat /\ counter'[Bucket] \in Nat
          /\ counter[Bucket] <= counter'[Bucket]
      BY CounterRises DEF LimitInv
    <2> QED
      BY <1>1, <2>1, LimitAssumption
  <1>3. admitted'[Bucket] <= r + Cardinality(Taken(n))
    <2>1. /\ Cardinality(Taken(m)) \in Nat /\ Cardinality(Taken(n)) \in Nat
          /\ admitted[Bucket] \in Nat /\ r \in Nat
      BY TakenFinite, BucketType, LimitAssumption DEF LimitInv, LimitTypes
    <2>2. CASE admitted' = admitted /\ Taken(n) = Taken(m)
      BY <1>1, <2>2
    <2>3. CASE AdmitRequest /\ Cardinality(Taken(n)) = Cardinality(Taken(m)) + 1
      <3>1. admitted'[Bucket] = admitted[Bucket] + 1
        BY <2>3, AdmitsOne DEF LimitInv
      <3> QED
        BY <1>1, <2>1, <2>3, <3>1
    <2> QED
      BY <2>2, <2>3
  <1>4. Bucket' = Bucket
    BY DEF Bucket
  <1> QED
    BY <1>2, <1>3, <1>4 DEF Tallied

LEMMA LimitInvStep == LimitInv /\ [LimitNext]_limitVars => LimitInv'
  <1> SUFFICES ASSUME LimitInv, [LimitNext]_limitVars PROVE LimitInv'
    OBVIOUS
  <1>1. PICK m \in Tallies : Tallied(m)
    BY DEF LimitInv
  <1>2. LimitTypes /\ \A p \in Processes \ fallen : queue[p] = <<>>
    BY DEF LimitInv
  <1>3. \A p \in Processes : Latest(m, p)
    BY <1>1 DEF Tallied
  <1>4. CASE \E p \in Processes : CheckRedis(p)
    <2> PICK p \in Processes : CheckRedis(p)
      BY <1>4
    <2>1. /\ counter' = [counter EXCEPT ![Bucket] = @ + 1] /\ counter' \in [Buckets -> Nat]
          /\ counter'[Bucket] = counter[Bucket] + 1 /\ counter[Bucket] \in Nat
          /\ admitted' = admitted \/ AdmitRequest
          /\ UNCHANGED <<now, fallen, queue>> /\ fallen' \subseteq Processes
      BY <1>2, BucketType DEF CheckRedis, LimitTypes
    <2>2. /\ admitted' \in [Buckets -> Nat] /\ Bucket' = Bucket
          /\ \A b \in Buckets : b > Bucket' => admitted'[b] = 0
          /\ \A b \in Buckets : b < Bucket' =>
               admitted'[b] <= Limit * (1 + Cardinality(fallen'))
      BY <2>1, OthersStay
    <2>3. LimitTypes'
      BY <1>2, <2>1, <2>2 DEF LimitTypes
    <2>4. \A q \in Processes : Latest(m, q)'
      BY <1>3, <2>1, <2>2 DEF Latest
    <2>5. \E r \in 0 .. Limit : /\ r <= counter'[Bucket]
                                /\ admitted'[Bucket] <= r + Cardinality(Taken(m))
      <3> PICK r \in 0 .. Limit : /\ r <= counter[Bucket]
                                  /\ admitted[Bucket] <= r + Cardinality(Taken(m))
        BY <1>1 DEF Tallied
      <3>1. /\ Cardinality(Taken(m)) \in Nat /\ admitted[Bucket] \in Nat /\ r \in Nat
        BY <1>2, TakenFinite, BucketType, LimitAssumption DEF LimitTypes
      <3>2. CASE counter'[Bucket] <= Limit
        <4>1. admitted'[Bucket] = admitted[Bucket] + 1
          BY <1>2, <3>2, AdmitsOne DEF CheckRedis
        <4>2. r + 1 \in 0 .. Limit /\ r + 1 <= counter'[Bucket]
          BY <2>1, <3>1, <3>2, LimitAssumption
        <4> QED
          BY <3>1, <4>1, <4>2
      <3>3. CASE ~(counter'[Bucket] <= Limit)
        <4>1. admitted' = admitted
          BY <3>3 DEF CheckRedis
        <4>2. r <= counter'[Bucket]
          BY <2>1, <3>1
        <4> QED
          BY <4>1, <4>2
      <3> QED
        BY <3>2, <3>3
    <2>6. Tallied(m)'
      BY <2>2, <2>4, <2>5 DEF Tallied
    <2> QED
      BY <1>2, <2>1, <2>2, <2>3, <2>6 DEF LimitInv
  <1>5. CASE \E p \in Processes : CheckAlone(p) \/ \E c \in BOOLEAN : FallBack(p, c)
    <2> PICK p \in Processes : CheckAlone(p) \/ \E c \in BOOLEAN : FallBack(p, c)
      BY <1>5
    <2>1. /\ CheckMemory(p) /\ UNCHANGED now
          /\ counter' = counter \/ counter' = [counter EXCEPT ![Bucket] = @ + 1]
          /\ fallen \subseteq fallen' /\ fallen' \subseteq Processes /\ p \in fallen'
      BY <1>2 DEF CheckAlone, FallBack, LimitTypes
    <2>2. counter' \in [Buckets -> Nat]
      BY <1>2, <2>1, BucketType DEF LimitTypes
    <2>3. /\ queue' \in [Processes -> Seq(Nat)]
          /\ \A q \in Processes \ {p} : queue'[q] = queue[q]
          /\ \E n \in Tallies :
               /\ \A q \in Processes : Latest(n, q)'
               /\ \/ admitted' = admitted /\ Taken(n) = Taken(m)
                  \/ /\ AdmitRequest
                     /\ Cardinality(Taken(n)) = Cardinality(Taken(m)) + 1
      BY <1>2, <1>3, <2>1, MemoryTallied
    <2>4. PICK n \in Tallies :
               /\ \A q \in Processes : Latest(n, q)'
               /\ \/ admitted' = admitted /\ Taken(n) = Taken(m)
                  \/ /\ AdmitRequest
                     /\ Cardinality(Taken(n)) = Cardinality(Taken(m)) + 1
      BY <2>3
    <2>5. Tallied(n)'
      BY <1>1, <2>1, <2>2, <2>4, TalliedStep
    <2>6. /\ admitted' \in [Buckets -> Nat] /\ Bucket' = Bucket
          /\ \A b \in Buckets : b > Bucket' => admitted'[b] = 0
          /\ \A b \in Buckets : b < Bucket' =>
               admitted'[b] <= Limit * (1 + Cardinality(fallen'))
      BY <2>1, <2>4, OthersStay
    <2>7. LimitTypes'
      BY <1>2, <2>1, <2>2, <2>3, <2>6 DEF LimitTypes
    <2>8. \A q \in Processes \ fallen' : queue'[q] = <<>>
      BY <1>2, <2>1, <2>3
    <2> QED
      BY <2>5, <2>6, <2>7, <2>8 DEF LimitInv
  <1>6. CASE ClockTicks
    <2>1. /\ now \in Nat /\ now' = now + 1 /\ now' \in 0 .. MaxTime
          /\ UNCHANGED <<counter, fallen, queue, admitted>>
      BY <1>2, <1>6, LimitAssumption DEF ClockTicks, LimitTypes
    <2>2. LimitTypes'
      BY <1>2, <2>1 DEF LimitTypes
    <2>3. /\ Bucket \in Buckets /\ Bucket' \in Buckets /\ Bucket <= Bucket'
      <3>1. now' \div Window \in Nat /\ now \div Window <= now' \div Window
        BY <2>1, DivBasics, DivMonotone
      <3>2. now' \div Window <= MaxTime \div Window /\ MaxTime \div Window \in Nat
        BY <2>1, DivBasics, DivMonotone, LimitAssumption
      <3> QED
        BY <1>2, <3>1, <3>2, BucketType DEF Bucket, Buckets
    <2>4. \A b \in Buckets : b \in Nat
      BY DEF Buckets
    <2>5. admitted[Bucket] <= Limit * (1 + Cardinality(fallen))
      BY <1>1, <1>2, TalliedBound
    <2>6. \A b \in Buckets : b > Bucket' => admitted'[b] = 0
      BY <2>1, <2>3, <2>4 DEF LimitInv
    <2>7. ASSUME NEW b \in Buckets, b < Bucket'
          PROVE  admitted'[b] <= Limit * (1 + Cardinality(fallen'))
      <3>1. CASE b = Bucket
        BY <2>1, <2>5, <3>1
      <3>2. CASE b < Bucket
        BY <2>1, <3>2 DEF LimitInv
      <3>3. CASE b > Bucket
        <4>1. admitted'[b] = 0
          BY <2>1, <3>3 DEF LimitInv
        <4>2. Limit * (1 + Cardinality(fallen)) \in Nat
          BY <1>2, FallenFinite, QuotaGrows
        <4> QED
          BY <2>1, <4>1, <4>2
      <3> QED
        BY <2>3, <2>4, <3>1, <3>2, <3>3
    <2>8. \E n \in Tallies : Tallied(n)'
      <3>1. CASE Bucket' = Bucket
        <4>1. Tallied(m)'
          BY <1>1, <2>1, <3>1 DEF Tallied, Latest
        <4> QED
          BY <4>1
      <3>2. CASE Bucket' # Bucket
        <4> DEFINE n == [p \in Processes |-> 0]
        <4>1. n \in Tallies
          BY LimitAssumption DEF Tallies
        <4>2. \A p \in Processes : Latest(n, p)'
          BY <1>2, <1>3, <2>1, LimitAssumption DEF Latest, LimitTypes
        <4>3. admitted'[Bucket'] = 0 /\ counter'[Bucket'] \in Nat
          <5>1. Bucket' > Bucket
            BY <2>3, <2>4, <3>2
          <5> QED
            BY <1>2, <2>1, <2>3, <5>1 DEF LimitInv, LimitTypes
        <4>4. Cardinality(Taken(n)) \in Nat
          BY <4>1, TakenFinite
        <4>5. \E r \in 0 .. Limit : /\ r <= counter'[Bucket']
                                    /\ admitted'[Bucket'] <= r + Cardinality(Taken(n))
          <5>1. 0 \in 0 .. Limit
            BY LimitAssumption
          <5> HIDE DEF n
          <5> QED
            BY <4>3, <4>4, <5>1
        <4>6. Tallied(n)'
          BY <4>2, <4>5 DEF Tallied
        <4> QED
          BY <4>1, <4>6
      <3> QED
        BY <3>1, <3>2
    <2> QED
      BY <1>2, <2>1, <2>2, <2>6, <2>7, <2>8 DEF LimitInv
  <1>7. CASE UNCHANGED limitVars
    <2>1. Bucket' = Bucket /\ UNCHANGED <<now, counter, fallen, queue, admitted>>
      BY <1>7 DEF limitVars, Bucket
    <2>2. Tallied(m)'
      BY <1>1, <2>1 DEF Tallied, Latest
    <2>3. LimitTypes'
      BY <1>2, <2>1 DEF LimitTypes
    <2> QED
      BY <2>1, <2>2, <2>3 DEF LimitInv
  <1> QED
    BY <1>4, <1>5, <1>6, <1>7 DEF LimitNext

\* The invariant of the limiter holds always.
THEOREM LimitInvariant == LimitSpec => []LimitInv
  BY LimitInvInit, LimitInvStep, PTL DEF LimitSpec

\* What the invariant says of every bucket: those to come, this one, and the past ones.
LEMMA WindowsKept == LimitInv => WindowLimit
  <1> SUFFICES ASSUME LimitInv, NEW b \in Buckets
               PROVE  admitted[b] <= Limit * (1 + Cardinality(fallen))
    BY DEF WindowLimit, LimitInv, LimitTypes
  <1>1. Bucket \in Buckets /\ \A a \in Buckets : a \in Nat
    BY BucketType DEF LimitInv, Buckets
  <1>2. CASE b = Bucket
    <2>1. PICK m \in Tallies : Tallied(m)
      BY DEF LimitInv
    <2> QED
      BY <1>2, <2>1, TalliedBound DEF LimitInv
  <1>3. CASE b < Bucket
    BY <1>3 DEF LimitInv
  <1>4. CASE b > Bucket
    <2>1. admitted[b] = 0
      BY <1>4 DEF LimitInv
    <2>2. Limit * (1 + Cardinality(fallen)) \in Nat
      BY FallenFinite, QuotaGrows DEF LimitInv
    <2> QED
      BY <2>1, <2>2
  <1> QED
    BY <1>1, <1>2, <1>3, <1>4

\* Whenever Redis fails in whichever processes, and whatever it had counted by then, no
\* bucket admits more requests of a client than the limit, once for Redis and once for each
\* process that lost it.
THEOREM WindowKeepsLimit == LimitSpec => []WindowLimit
  BY WindowsKept, LimitInvariant, PTL

-----------------------------------------------------------------------------
(* The parts side by side: a step of the whole is a step or a stutter of each part, so each
   keeps its own invariant.                                                              *)

\* What a step is to each of the parts.
LEMMA StepsOfParts ==
  ASSUME [PartsNext]_partsVars
  PROVE  /\ UNCHANGED part
         /\ \/ [StoreNext]_storeVars /\ UNCHANGED syncVars
            \/ part = "url" /\ UrlNext
         /\ [ChatNext]_chatVars /\ [PlanNext]_planVars /\ [ScopeNext]_scopeVars
         /\ [ListNext]_listVars /\ [ClientSessionNext]_sessionVars
         /\ [NoticesNext]_<<jobVars, patchVars>> /\ [PanelNext]_panelVars
         /\ [BreakerNext]_breakerVars /\ [InvitesNext]_inviteVars /\ [LimitNext]_limitVars
  <1>1. CASE UNCHANGED partsVars
    BY <1>1 DEF partsVars
  <1>2. CASE Parts1 /\ UNCHANGED part
    BY <1>2 DEF Parts1, KeepBrowser, KeepGuards
  <1>3. CASE Parts2 /\ UNCHANGED part
    BY <1>3 DEF Parts2, KeepStore, KeepGuards, NoticesNext
  <1>4. CASE Parts3 /\ UNCHANGED part
    BY <1>4 DEF Parts3, KeepStore, KeepBrowser, KeepGuards, PanelNext
  <1>5. CASE Parts4 /\ UNCHANGED part
    BY <1>5 DEF Parts4, KeepStore, KeepBrowser
  <1>6. CASE Parts5 /\ UNCHANGED part
    BY <1>6 DEF Parts5, KeepStore, KeepGuards, NoticesNext
  <1> QED
    BY <1>1, <1>2, <1>3, <1>4, <1>5, <1>6 DEF PartsNext

\* An entry that holds what the server has is true to it.
LEMMA RestingEntry ==
  ASSUME NEW v
  PROVE  /\ AtRest(v) \in QueryOf({v}) /\ IsEntry(AtRest(v)) /\ Owes(AtRest(v), v)
         /\ AtRest(v).data = v /\ AtRest(v).flight = NoData
  <1>1. EmptyQuery \in QueryOf({v})
    BY DEF EmptyQuery, QueryOf
  <1>2. AtRest(v) \in QueryOf({v}) /\ AtRest(v).data = v /\ AtRest(v).flight = EmptyQuery.flight
    BY <1>1 DEF AtRest, QueryOf
  <1>3. EmptyQuery.flight = NoData
    BY DEF EmptyQuery
  <1> QED
    BY <1>2, <1>3 DEF IsEntry, Owes

\* And an entry at the start of a part is empty or at rest.
LEMMA FirstEntry ==
  ASSUME NEW S, NEW v \in S, NEW q \in {EmptyQuery, AtRest(v)}
  PROVE  q \in QueryOf(S) /\ IsEntry(q) /\ q.flight = NoData /\ q.data \in {NoData, v}
  <1>1. EmptyQuery \in QueryOf(S) /\ EmptyQuery.flight = NoData /\ EmptyQuery.data = NoData
    BY DEF EmptyQuery, QueryOf
  <1>2. QueryOf({v}) \subseteq QueryOf(S)
    BY DEF QueryOf
  <1> QED
    BY <1>1, <1>2, RestingEntry DEF IsEntry

LEMMA PlanPartInit == PlanInit \/ PlanRests => PlansInv /\ PlanTypes
  <1>1. PlanInit => PlansInv
    BY EmptyEntry DEF PlanInit, PlansInv, OpenOf
  <1>2. PlanInit => PlanTypes
    BY PlanBounds DEF PlanInit, PlanTypes
  <1>3. ASSUME PlanRests PROVE PlansInv
    <2>1. viewed \in PlanSessions
      BY <1>3, PlanSessionsAssumption DEF PlanRests
    <2>2. OpenOf(NoRow) = NoRow
      BY DEF OpenOf
    <2>3. /\ requests = {} /\ behind = FALSE /\ rows = [s \in PlanSessions |-> NoRow]
          /\ planQuery = [s \in PlanSessions |-> AtRest(NoRow)]
      BY <1>3 DEF PlanRests
    <2> QED
      BY <2>1, <2>2, <2>3, RestingEntry, Zenon DEF PlansInv
  <1>4. PlanRests => PlanTypes
    BY PlanBounds DEF PlanRests, PlanTypes
  <1> QED
    BY <1>1, <1>2, <1>3, <1>4

LEMMA ScopePartInit == ScopeInit \/ ScopeRests => ScopeInv /\ ScopeTypes
  <1> SUFFICES ASSUME ScopeInit \/ ScopeRests PROVE ScopeInv /\ ScopeTypes
    OBVIOUS
  <1>1. /\ meta = NoMeta /\ scopeQuery \in {EmptyQuery, AtRest(NoMeta)} /\ writes = {}
        /\ turn = "none" /\ scopeClicks = 0 /\ scopeTurns = 0 /\ unseen = FALSE
    BY DEF ScopeInit, ScopeRests
  <1>2. ScopeInv
    BY <1>1, EmptyEntry, RestingEntry DEF ScopeInv
  <1>3. IsMeta(NoMeta, 0) /\ CountedTurns = 0
    BY <1>1 DEF IsMeta, NoMeta, CountedTurns
  <1>4. scopeQuery.data \in {NoData, NoMeta} /\ scopeQuery.flight = NoData
    BY <1>1, FirstEntry
  <1>5. 0 \in 0 .. MaxScopeTurns /\ 0 \in 0 .. MaxScopeClicks
    BY ScopeBounds
  <1>6. ScopeTypes
    BY <1>1, <1>3, <1>4, <1>5, Zenon DEF ScopeTypes
  <1> QED
    BY <1>2, <1>6

LEMMA ListPartInit == ListInit \/ ListRests => ListsInv /\ ListTypes
  <1>1. ListInit => ListsInv
    BY EmptyEntry DEF ListInit, ListsInv, ListKinds
  <1>2. ASSUME ListRests PROVE ListsInv
    <2> DEFINE nothing == [s \in {} |-> Absent]
    <2>1. /\ rowRequests = {} /\ missed = FALSE /\ sessionRows = [s \in ListSessions |-> Absent]
          /\ lists = [k \in ListKinds |-> AtRest(nothing)]
      BY <1>2 DEF ListRests
    <2>2. \A k : Listing(k) = nothing
      BY <2>1 DEF Listing, ListOf, Absent
    <2>3. IsEntry(AtRest(nothing)) /\ Owes(AtRest(nothing), nothing)
      BY RestingEntry
    <2> HIDE DEF nothing
    <2> QED
      BY <2>1, <2>2, <2>3, Zenon DEF ListsInv
  <1>3. Fresh \in RowType /\ Absent \in RowType
    BY DEF Fresh, Absent, RowType
  <1>4. [ListSessions -> {Fresh, Absent}] \subseteq [ListSessions -> RowType]
    BY <1>3
  <1>5. ASSUME ListInit \/ ListRests PROVE ListTypes
    <2>1. sessionRows \in [ListSessions -> RowType]
      BY <1>3, <1>4, <1>5 DEF ListInit, ListRests
    <2>2. /\ chosen = NoSession /\ sidebarShown = TRUE /\ pendingDelete = NoSession
          /\ rowRequests = {} /\ listClicks = 0
      BY <1>5 DEF ListInit, ListRests
    <2>3. 0 \in 0 .. MaxListClicks
      BY ListBounds
    <2> QED
      BY <2>1, <2>2, <2>3, Zenon DEF ListTypes
  <1> QED
    BY <1>1, <1>2, <1>5

LEMMA NoticesPartInit ==
  (JobsInit \/ JobsRest) /\ PatchNoticesInit
    => NoticedInv /\ BellInv /\ JobsTypes /\ PatchTypes
  <1> SUFFICES ASSUME JobsInit \/ JobsRest, PatchNoticesInit
               PROVE  NoticedInv /\ BellInv /\ JobsTypes /\ PatchTypes
    OBVIOUS
  <1>1. /\ jobStatus = NoneSeen /\ startClick = NoJob
        /\ jobsQuery \in {EmptyQuery, AtRest(NoneSeen)} /\ reposQuery \in {EmptyQuery, AtRest(NoneSeen)}
        /\ progress = [j \in Jobs |-> EmptyQuery]
        /\ seenStatus = NoneSeen /\ lastStatus = NoneSeen
        /\ bell = <<>> /\ dismissed = <<>> /\ reloads = 0 /\ noticed = {} /\ raced = FALSE
    BY DEF JobsInit, JobsRest
  <1>2. NoneSeen \in [Jobs -> Statuses] /\ \A j \in Jobs : NoneSeen[j] = Unknown
    BY DEF NoneSeen, Statuses
  <1>3. \A q \in {EmptyQuery, AtRest(NoneSeen)} :
          /\ q \in QueryOf([Jobs -> Statuses]) /\ IsEntry(q)
          /\ q.flight = NoData /\ q.data \in {NoData, NoneSeen}
    BY <1>2, FirstEntry
  <1>4. JobsOnServer
    BY <1>1, <1>2 DEF JobsOnServer
  <1>5. ListInv
    <2>1. OnceTrue(NoneSeen, NoneSeen) /\ \A j \in Jobs : ~IsActiveIndexingStatus(NoneSeen[j])
      BY <1>2 DEF OnceTrue, IsActiveIndexingStatus, Unknown
    <2> QED
      BY <1>1, <1>3, <2>1 DEF ListInv
  <1>6. CardsInv
    BY <1>1 DEF CardsInv, EmptyQuery, QueryOf
  <1>7. NoticedHasEnded
    BY <1>1 DEF NoticedHasEnded, Keys
  <1>8. BellInv
    BY <1>1, MaxNoticesAssumption, MaxDismissedAssumption DEF BellInv, BellAgrees, Keys
  <1>9. JobsTypes
    BY <1>1, <1>2, <1>3 DEF JobsTypes
  <1>10. PatchTypes
    BY PatchStepsAssumption DEF PatchNoticesInit, PatchTypes, PatchStatuses, EmptyQuery, QueryOf
  <1> QED
    BY <1>4, <1>5, <1>6, <1>7, <1>8, <1>9, <1>10 DEF NoticedInv

\* The address bar of a store that is looked at alone names nothing.
PartsUrlInv == UrlInv /\ (part # "url" => url = EmptyAddress)
BrowserInv ==
  /\ ChatInv /\ OwnerTypes /\ PlansInv /\ PlanTypes /\ ScopeInv /\ ScopeTypes
  /\ ListsInv /\ ListTypes /\ SessionInv
  /\ NoticedInv /\ BellInv /\ JobsTypes /\ PatchTypes /\ PanelInv /\ PanelTypes
GuardsInv == BreakerTypes /\ InvitesInv /\ LimitInv
PartsInv == PartsUrlInv /\ BrowserInv /\ GuardsInv

LEMMA PartsInvInit == PartsInit => PartsInv
  <1> SUFFICES ASSUME PartsInit PROVE PartsInv
    OBVIOUS
  <1>1. PartsUrlInv
    <2>1. CASE part = "url"
      BY <2>1, UrlInvInit DEF PartsInit, PartsUrlInv
    <2>2. CASE part # "url"
      <3>1. StoreInit /\ UrlRests
        BY <2>2 DEF PartsInit
      <3>2. StoreInv
        BY <3>1, StoreInvInit
      <3>3. EmptyAddress \in Addresses /\ EmptyAddress.repo = None /\ EmptyAddress.session = None
        <4>1. NoTab \in TabIds
          BY WelcomeIsTab DEF NoTab, WelcomeId
        <4> QED
          BY <4>1 DEF EmptyAddress, Address, Addresses
      <3> QED
        BY <2>2, <3>1, <3>2, <3>3 DEF UrlRests, PartsUrlInv, UrlInv, UrlTypes, SettledAgrees
    <2> QED
      BY <2>1, <2>2
  <1>2. ChatInit /\ ClientSessionInit /\ PatchNoticesInit /\ PanelInit
    BY DEF PartsInit
  <1>3. /\ PlanInit \/ PlanRests
        /\ ScopeInit \/ ScopeRests
        /\ ListInit \/ ListRests
        /\ JobsInit \/ JobsRest
    BY DEF PartsInit
  <1>4. BrowserInv
    BY <1>2, <1>3, ChatInvInit, OwnerTypesInit, PlanPartInit, ScopePartInit, ListPartInit,
       SessionInvInit, NoticesPartInit, PanelInvInit, PanelTypesInit DEF BrowserInv
  <1>5. GuardsInv
    BY BreakerTypesInit, InvitesInvInit, LimitInvInit DEF PartsInit, GuardsInv
  <1> QED
    BY <1>1, <1>4, <1>5 DEF PartsInv

LEMMA PartsInvStep == PartsInv /\ [PartsNext]_partsVars => PartsInv'
  <1> SUFFICES ASSUME PartsInv, [PartsNext]_partsVars PROVE PartsInv'
    OBVIOUS
  <1>1. PartsUrlInv'
    <2>1. CASE part = "url" /\ UrlNext
      BY <2>1, UrlInvStep, StepsOfParts DEF PartsInv, PartsUrlInv
    <2>2. CASE part # "url" /\ [StoreNext]_storeVars /\ UNCHANGED syncVars
      <3>1. StoreInv'
        BY <2>2, StoreInvStep DEF PartsInv, PartsUrlInv, UrlInv, UrlTypes
      <3>2. EmptyAddress.repo = None /\ EmptyAddress.session = None
        BY DEF EmptyAddress, Address
      <3> QED
        BY <2>2, <3>1, <3>2, StepsOfParts
        DEF PartsInv, PartsUrlInv, UrlInv, UrlTypes, SettledAgrees, syncVars
    <2>3. CASE part = "url" /\ UNCHANGED partsVars
      BY <2>3, UrlInvStep DEF partsVars, storeVars, urlVars, PartsInv, PartsUrlInv
    <2>4. part = "url" => UrlNext \/ UNCHANGED partsVars
      BY DEF PartsNext, Parts1, Parts2, Parts3, Parts4, Parts5
    <2> QED
      BY <2>1, <2>2, <2>3, <2>4, StepsOfParts
  <1>2. ChatInv' /\ OwnerTypes'
    BY StepsOfParts, ChatInvStep, OwnerTypesStep DEF PartsInv, BrowserInv, ChatInv
  <1>3. PlansInv' /\ PlanTypes' /\ ScopeInv' /\ ScopeTypes' /\ ListsInv' /\ ListTypes'
    BY StepsOfParts, PlansInvStep, PlanTypesStep, ScopeInvStep, ScopeTypesStep, ListsInvStep,
       ListTypesStep DEF PartsInv, BrowserInv
  <1>4. SessionInv' /\ PanelInv' /\ PanelTypes'
    BY StepsOfParts, SessionInvStep, PanelInvStep, PanelTypesStep DEF PartsInv, BrowserInv
  <1>5. NoticedInv' /\ BellInv' /\ JobsTypes' /\ PatchTypes'
    BY StepsOfParts, NoticesInvStep, JobsTypesStep, PatchTypesStep DEF PartsInv, BrowserInv
  <1>6. GuardsInv'
    BY StepsOfParts, BreakerTypesStep, InvitesInvStep, LimitInvStep DEF PartsInv, GuardsInv
  <1> QED
    BY <1>1, <1>2, <1>3, <1>4, <1>5, <1>6 DEF PartsInv, BrowserInv

\* The invariants of the parts hold always, of all parts at once.
THEOREM PartsInvariant == PartsSpec => []PartsInv
  BY PartsInvInit, PartsInvStep, PTL DEF PartsSpec

\* Whatever part runs, every variable of every part keeps its type: for all sets of sessions,
\* jobs, windows, keys and calls and for all bounds of the runs.
THEOREM PartsAreTyped == PartsSpec => []PartsTypeOK
  <1>1. UrlInv => StoreTypeOK
    BY DEF UrlInv, UrlTypes, StoreInv, Good, StudioState, TabRecord, StoreTypeOK
  <1>2. PlansInv /\ PlanTypes => PlanTypeOK
    BY DEF PlansInv, IsPlanRequest, Phases, PlanTypes, PlanTypeOK
  <1>3. ScopeTypes => ScopeTypeOK
    BY ScopeBounds DEF ScopeTypes, IsMeta, CountedTurns, ScopeTypeOK, UsageOf, Entry
  <1>4. ListsInv /\ ListTypes => ListTypeOK
    BY DEF ListsInv, ListTypes, RowType, ListTypeOK
  <1>5. SessionInv => SessionTypeOK
    BY DEF SessionInv, TypeInv, RoleTypes, SessionTypeOK, Storage, Cookies, Tours, Page, Auth, Login
  <1>6. BreakerTypes /\ InvitesInv /\ LimitInv => GuardsTypeOK
    <2> SUFFICES ASSUME BreakerTypes, InvitesInv, LimitInv PROVE GuardsTypeOK
      OBVIOUS
    <2>1. \A p \in Processes : Len(queue[p]) <= Limit
      BY DEF LimitInv, Tallied, Latest
    <2> QED
      BY <2>1 DEF BreakerTypes, InvitesInv, InviteTypes, InviteRow, LimitInv, LimitTypes,
                  GuardsTypeOK
  <1>7. PartsInv => PartsTypeOK
    BY <1>1, <1>2, <1>3, <1>4, <1>5, <1>6, ChatTyped, NoticesTyped, PanelTyped
    DEF PartsInv, PartsUrlInv, BrowserInv, GuardsInv, PartsTypeOK
  <1> QED
    BY <1>7, PartsInvariant, PTL

\* And the safety that is proved of each part alone holds of the whole.
THEOREM PartsAreSafe ==
  PartsSpec => [](/\ TabsAgree /\ QuietAgrees /\ SendingMatchesStream /\ AnswersUnderQuestions
                  /\ RoleIsOfToken /\ TourOnce /\ DismissedStaysGone /\ NoticedHasEnded
                  /\ PanelsShowTheirKey /\ SearchSettles /\ OneAccountPerInvite /\ WindowLimit)
  <1>1. UrlInv => TabsAgree /\ QuietAgrees
    BY GoodStoreAgrees DEF UrlInv, UrlTypes, StoreInv, SettledAgrees, QuietAgrees, Quiet
  <1>2. ChatInv => SendingMatchesStream /\ AnswersUnderQuestions
    BY DEF ChatInv, StreamInv, Untroubled, Talk, ShownInv, Turns, AnswersUnderQuestions
  <1>3. SessionInv => RoleIsOfToken /\ TourOnce
    BY DEF SessionInv, TypeInv, TourInv, Permit, TourOnce
  <1>4. NoticedInv /\ BellInv => DismissedStaysGone /\ NoticedHasEnded
    BY DEF NoticedInv, BellInv, BellAgrees, DismissedStaysGone, Keys
  <1>5. PanelInv => PanelsShowTheirKey /\ SearchSettles
    BY DEF PanelInv, PaneInv, TreeInv, CompareInv, PanelsShowTheirKey, SearchInv, Settling,
           SearchSettles
  <1>6. InvitesInv => OneAccountPerInvite
    BY DEF InvitesInv, HoldersInv, MadeOutTo, EmailsUnique, OneAccountPerInvite
  <1>7. LimitInv => WindowLimit
    BY WindowsKept
  <1>8. PartsInv => /\ TabsAgree /\ QuietAgrees /\ SendingMatchesStream /\ AnswersUnderQuestions
                    /\ RoleIsOfToken /\ TourOnce /\ DismissedStaysGone /\ NoticedHasEnded
                    /\ PanelsShowTheirKey /\ SearchSettles /\ OneAccountPerInvite /\ WindowLimit
    BY <1>1, <1>2, <1>3, <1>4, <1>5, <1>6, <1>7
    DEF PartsInv, PartsUrlInv, BrowserInv, GuardsInv
  <1> QED
    BY <1>8, PartsInvariant, PTL

\* So does what a step may not do: a reload of the page takes back no selection and no tab,
\* and no step but a reload parts the active file from the active tab.
THEOREM PartsReload == PartsSpec => ReloadKeepsWork
  <1>1. ASSUME PartsInv, [PartsNext]_partsVars PROVE [ReloadKeeps]_storeVars
    <2>1. StoreInv
      BY <1>1 DEF PartsInv, PartsUrlInv, UrlInv, UrlTypes
    <2>2. CASE [StoreNext]_storeVars
      BY <2>1, <2>2, StoreStep, ReloadStepKeeps
    <2>3. CASE part = "url" /\ UrlNext
      BY <1>1, <2>1, <2>3, UrlStep, ReloadStepKeeps DEF PartsInv, PartsUrlInv
    <2> QED
      BY <1>1, <2>2, <2>3, StepsOfParts
  <1>2. PartsSpec => [][ReloadKeeps]_storeVars
    BY <1>1, PartsInvariant, PTL DEF PartsSpec
  <1> QED
    BY <1>2 DEF ReloadKeepsWork, ReloadKeeps
=============================================================================
