----------------------------- MODULE ChangeSets -----------------------------
(***************************************************************************)
(* Change sets (plan, approval, ACT) and patch drafts of one chat session: *)
(* services/change_set_service.py and the patch routes of                  *)
(* api/v1/repositories/router.py, against one repository.                  *)
(*                                                                         *)
(* A request is a client k that first loads a row and later commits it.    *)
(* SQLAlchemy writes only the columns that differ from what was loaded,    *)
(* and checks no version, so a commit may overwrite what others committed  *)
(* in between.  POST /act flushes ACTING and keeps the row locked while it *)
(* awaits the model.  Handlers that are `async def` run on the one event   *)
(* loop of the server and block it when their statement waits for a row    *)
(* lock; the others run in threads.                                        *)
(***************************************************************************)
EXTENDS Naturals

CONSTANTS
    Rows,          \* change_sets
    Drafts,        \* act_patch_drafts, one file each
    Existing,      \* drafts whose file the repository already has
    Clients,       \* requests served at the same time
    MaxPlans,      \* bound on the number of plans written
    Free, NoRow, NoDraft

ASSUME ChangeSetsAssumption ==
    /\ Existing \subseteq Drafts
    /\ MaxPlans \in Nat
    /\ Free \notin Clients /\ NoRow \notin Rows /\ NoDraft \notin Drafts

VARIABLES
    status, plan, patch,   \* columns of change_sets
    approval,      \* approved_at/by: the plan its approver had loaded, or 0
    newer,         \* pairs of rows, the first with the later updated_at
    lock,          \* client that holds the row lock with ACTING uncommitted
    draft,         \* act_patch_drafts.status
    hashed,        \* drafts created with content_hash_before
    disk,          \* drafts whose file is patched in the working tree
    plans,         \* plans written so far
    loop,          \* client that occupies the event loop
    pc, row, doc, seen,    \* of a client: stage, its row and draft, columns loaded
    passed,        \* drafts that passed a validation (auxiliary)
    written,       \* drafts that were applied once (auxiliary)
    overwritten    \* rows written by a request that had loaded an older
                   \* version of them (auxiliary)

columns == <<status, plan, patch, approval, newer>>
patches == <<draft, hashed, disk, passed, written>>
client == <<pc, row, doc, seen>>
vars == <<columns, patches, lock, plans, loop, client, overwritten>>

Terminal == {"CANCELLED", "ROLLED_BACK", "APPLIED"}
RowStatus == Terminal \cup {"none", "PLAN_READY", "PLAN_APPROVED", "ACTING",
                            "PATCH_APPROVED", "PATCH_REJECTED"}
DraftStatus == {"none", "gone", "DRAFT", "REVIEW", "APPROVED", "REJECTED",
                "CONFLICTED", "FAILED", "ROLLED_BACK"}
Stages == {"idle", "edit", "approve", "cancel", "rollback", "restored",
           "validate", "apply", "written", "settle", "delete",
           "plan", "actFlush", "acting", "answered", "repairing", "repaired",
           "unrepaired"}

\* From the flush of ACTING to the end of start_act.
ActStages == {"acting", "answered", "repairing", "repaired", "unrepaired"}

Columns == [status: RowStatus, plan: 0..MaxPlans, patch: Drafts \cup {NoDraft},
            approval: 0..MaxPlans]
Unset == [status |-> "none", plan |-> 0, patch |-> NoDraft, approval |-> 0]

TypeOK ==
    /\ status \in [Rows -> RowStatus]
    /\ plan \in [Rows -> 0..MaxPlans]
    /\ patch \in [Rows -> Drafts \cup {NoDraft}]
    /\ approval \in [Rows -> 0..MaxPlans]
    /\ newer \subseteq Rows \X Rows
    /\ lock \in [Rows -> Clients \cup {Free}]
    /\ draft \in [Drafts -> DraftStatus]
    /\ hashed \subseteq Drafts /\ disk \subseteq Drafts
    /\ plans \in 0..MaxPlans
    /\ loop \in Clients \cup {Free}
    /\ pc \in [Clients -> Stages]
    /\ row \in [Clients -> Rows \cup {NoRow}]
    /\ doc \in [Clients -> Drafts \cup {NoDraft}]
    /\ seen \in [Clients -> Columns]
    /\ passed \subseteq Drafts /\ written \subseteq Drafts
    /\ overwritten \subseteq Rows

Init ==
    /\ status = [r \in Rows |-> "none"]
    /\ plan = [r \in Rows |-> 0]
    /\ patch = [r \in Rows |-> NoDraft]
    /\ approval = [r \in Rows |-> 0]
    /\ newer = {}
    /\ lock = [r \in Rows |-> Free]
    /\ draft = [d \in Drafts |-> "none"]
    /\ hashed = {} /\ disk = {}
    /\ plans = 0
    /\ loop = Free
    /\ pc = [k \in Clients |-> "idle"]
    /\ row = [k \in Clients |-> NoRow]
    /\ doc = [k \in Clients |-> NoDraft]
    /\ seen = [k \in Clients |-> Unset]
    /\ passed = {} /\ written = {} /\ overwritten = {}

-----------------------------------------------------------------------------
(***************************************************************************)
(* Loading and committing.                                                 *)
(***************************************************************************)
Loaded(r) == [status |-> status[r], plan |-> plan[r], patch |-> patch[r],
              approval |-> approval[r]]

\* The value a column has after a commit that loaded `old' and assigned `new'.
Emit(now, old, new) == IF new = old THEN now ELSE new

To(k, stage) == pc' = [pc EXCEPT ![k] = stage]

LoadRow(k, r, stage) ==
    /\ To(k, stage)
    /\ row' = [row EXCEPT ![k] = r]
    /\ seen' = [seen EXCEPT ![k] = Loaded(r)]

Finish(k) ==
    /\ To(k, "idle")
    /\ row' = [row EXCEPT ![k] = NoRow]
    /\ doc' = [doc EXCEPT ![k] = NoDraft]
    /\ seen' = [seen EXCEPT ![k] = Unset]

\* Sync handlers load in their thread.
Load(k, r, stage) ==
    /\ pc[k] = "idle"
    /\ LoadRow(k, r, stage)
    /\ UNCHANGED <<columns, patches, lock, plans, loop, doc, overwritten>>

\* A request that fails before its commit changes nothing.
RequestFails(k) ==
    /\ pc[k] \in {"edit", "approve", "cancel", "validate", "settle", "delete",
                 "rollback", "restored"}
    /\ Finish(k)
    /\ UNCHANGED <<columns, patches, lock, plans, loop, overwritten>>

Touch(r) == newer' = (newer \ (Rows \X {r})) \cup ({r} \X (Rows \ {r}))

\* A touch whose time was taken before a wait: rows touched since stay newer.
TouchEarlier(r) == Touch(r) \/ UNCHANGED newer

Overwrites(k, r) ==
    overwritten' = IF Loaded(r) # seen[k] THEN overwritten \cup {r} ELSE overwritten

StatusTo(k, r, s) == status' = [status EXCEPT ![r] = Emit(@, seen[k].status, s)]
NewPlan(r) == plans < MaxPlans /\ plans' = plans + 1 /\ plan' = [plan EXCEPT ![r] = plans + 1]
ClearApproval(k, r) == approval' = [approval EXCEPT ![r] = Emit(@, seen[k].approval, 0)]

-----------------------------------------------------------------------------
(***************************************************************************)
(* Editing, approving and cancelling a plan.                               *)
(***************************************************************************)
ReadForEdit(k, r) == status[r] \in {"PLAN_READY", "PLAN_APPROVED"} /\ Load(k, r, "edit")

\* Mutant: a manual edit leaves the approval alone.
EditKeepsApproval(k) == LET r == row[k] IN
    /\ pc[k] = "edit"
    /\ lock[r] = Free
    /\ NewPlan(r)
    /\ Touch(r) /\ Overwrites(k, r) /\ Finish(k)
    /\ UNCHANGED <<status, approval, patch, patches, lock, loop>>

\* update_plan_manual withdraws the approval it saw, and none that it did not.
Edit(k) == LET r == row[k] IN
    /\ pc[k] = "edit"
    /\ lock[r] = Free
    /\ NewPlan(r)
    /\ IF seen[k].status = "PLAN_APPROVED"
       THEN StatusTo(k, r, "PLAN_READY") /\ ClearApproval(k, r)
       ELSE UNCHANGED <<status, approval>>
    /\ Touch(r) /\ Overwrites(k, r) /\ Finish(k)
    /\ UNCHANGED <<patch, patches, lock, loop>>

ReadForApprove(k, r) == status[r] = "PLAN_READY" /\ Load(k, r, "approve")

Approve(k) == LET r == row[k] IN
    /\ pc[k] = "approve"
    /\ lock[r] = Free
    /\ StatusTo(k, r, "PLAN_APPROVED")
    /\ approval' = [approval EXCEPT ![r] = seen[k].plan]
    /\ Touch(r) /\ Overwrites(k, r) /\ Finish(k)
    /\ UNCHANGED <<plan, patch, patches, lock, plans, loop>>

\* Mutant: the terminal statuses are not excluded.
ReadForCancelAny(k, r) == status[r] # "none" /\ Load(k, r, "cancel")

ReadForCancel(k, r) == status[r] \notin Terminal \cup {"none"} /\ Load(k, r, "cancel")

Cancel(k) == LET r == row[k] IN
    /\ pc[k] = "cancel"
    /\ lock[r] = Free
    /\ StatusTo(k, r, "CANCELLED")
    /\ Touch(r) /\ Overwrites(k, r) /\ Finish(k)
    /\ UNCHANGED <<plan, patch, approval, patches, lock, plans, loop>>

-----------------------------------------------------------------------------
(***************************************************************************)
(* create_or_update_plan, called with the answer of a PLAN chat message or *)
(* of POST /revise, on the event loop.                                     *)
(***************************************************************************)
Replannable == {"PLAN_READY", "PLAN_APPROVED", "PATCH_REJECTED"}
Open == {r \in Rows : status[r] \notin Terminal \cup {"none"}}

\* get_for_session: ORDER BY updated_at DESC over the open rows.
IsLatest(r) == r \in Open /\ \A q \in Open : <<q, r>> \notin newer

PlanReads(k) ==
    /\ pc[k] = "idle" /\ loop = Free
    /\ loop' = k
    /\ \/ \E r \in Rows : IsLatest(r) /\ LoadRow(k, r, "plan")
       \/ Open = {} /\ To(k, "plan") /\ UNCHANGED <<row, seen>>
    /\ UNCHANGED <<columns, patches, lock, plans, doc, overwritten>>

PlanUpdates(k) == LET r == row[k] IN
    /\ pc[k] = "plan" /\ r # NoRow
    /\ seen[k].status \in Replannable
    /\ lock[r] = Free
    /\ NewPlan(r)
    /\ StatusTo(k, r, "PLAN_READY") /\ ClearApproval(k, r)
    /\ patch' = IF seen[k].status = "PATCH_REJECTED"
                THEN [patch EXCEPT ![r] = Emit(@, seen[k].patch, NoDraft)] ELSE patch
    /\ Touch(r) /\ Overwrites(k, r) /\ Finish(k)
    /\ loop' = Free
    /\ UNCHANGED <<patches, lock>>

PlanCreates(k, r) ==
    /\ pc[k] = "plan"
    /\ seen[k].status \notin Replannable
    /\ status[r] = "none"
    /\ NewPlan(r)
    /\ status' = [status EXCEPT ![r] = "PLAN_READY"]
    /\ Touch(r) /\ Finish(k)
    /\ loop' = Free
    /\ UNCHANGED <<patch, approval, patches, lock, overwritten>>

\* The write fails, or a bound of the model is reached: nothing is stored.
PlanFails(k) ==
    /\ pc[k] = "plan"
    /\ Finish(k)
    /\ loop' = Free
    /\ UNCHANGED <<columns, patches, lock, plans, overwritten>>

-----------------------------------------------------------------------------
(***************************************************************************)
(* POST /act: start_act.                                                   *)
(***************************************************************************)
ActReads(k, r) ==
    /\ pc[k] = "idle" /\ loop = Free
    /\ \/ status[r] = "PLAN_APPROVED"
       \/ status[r] = "PATCH_REJECTED" /\ patch[r] = NoDraft
    /\ LoadRow(k, r, "actFlush")
    /\ loop' = k
    /\ UNCHANGED <<columns, patches, lock, plans, doc, overwritten>>

\* Flushing ACTING takes the row lock; an unlocked row or a blocked loop.
Flush(k, stage) ==
    /\ pc[k] = "actFlush"
    /\ lock[row[k]] = Free
    /\ lock' = [lock EXCEPT ![row[k]] = k]
    /\ Overwrites(k, row[k])
    /\ seen' = [seen EXCEPT ![k].status = "ACTING"]
    /\ To(k, stage)
    /\ UNCHANGED <<columns, patches, plans, row, doc>>

ActAwaits(k) == Flush(k, "acting") /\ loop' = Free
\* The same prompt was answered before: no await, nothing committed.
ActFindsCached(k) == Flush(k, "answered") /\ UNCHANGED loop

Release(k) == lock' = [r \in Rows |-> IF lock[r] = k THEN Free ELSE lock[r]]

\* Where a request goes when the model answers or fails.
Answered == [acting |-> "answered", repairing |-> "repaired"]

\* Recording the answer commits the session and a pending ACTING with it, or
\* fails and rolls both back; then the row is loaded anew.
ActAnswers(k, recorded) == LET r == row[k] IN
    /\ pc[k] \in DOMAIN Answered /\ loop = Free
    /\ loop' = k
    /\ To(k, Answered[pc[k]])
    /\ status' = [status EXCEPT ![r] = IF recorded /\ lock[r] = k THEN "ACTING" ELSE @]
    /\ seen' = [seen EXCEPT ![k] = [Loaded(r) EXCEPT !.status = status'[r]]]
    /\ IF lock[r] = k THEN UNCHANGED overwritten ELSE Overwrites(k, r)
    /\ IF recorded /\ lock[r] = k THEN TouchEarlier(r) ELSE UNCHANGED newer
    /\ Release(k)
    /\ UNCHANGED <<plan, patch, approval, patches, plans, row, doc>>

\* The end of start_act in one commit of the session.  Only after a failed
\* repair the row is still the one loaded before, and an unchanged status is
\* not written.
ActEnds(k, s) == LET r == row[k] IN
    /\ lock[r] \in {Free, k}
    /\ IF pc[k] = "unrepaired" THEN StatusTo(k, r, s) ELSE status' = [status EXCEPT ![r] = s]
    /\ IF lock[r] = k THEN UNCHANGED overwritten /\ TouchEarlier(r)
                      ELSE Overwrites(k, r) /\ UNCHANGED newer
    /\ Release(k)
    /\ loop' = Free
    /\ Finish(k)
    /\ UNCHANGED <<plan, approval, plans>>

\* Mutant: the failure of the model is handled on a thread of its own.
ActRaisesOffLoop(k) ==
    /\ pc[k] = "acting"
    /\ ActEnds(k, "PLAN_APPROVED")
    /\ UNCHANGED <<patch, patches>>

ActRaises(k) ==
    /\ pc[k] = "acting" /\ loop = Free
    /\ ActEnds(k, "PLAN_APPROVED")
    /\ UNCHANGED <<patch, patches>>

\* No patch in the answer: the model is asked once more.
ActRepairs(k) ==
    /\ pc[k] = "answered"
    /\ To(k, "repairing")
    /\ loop' = Free
    /\ UNCHANGED <<columns, patches, lock, plans, row, doc, seen, overwritten>>

RepairRaises(k) ==
    /\ pc[k] = "repairing" /\ loop = Free
    /\ loop' = k
    /\ To(k, "unrepaired")
    /\ UNCHANGED <<columns, patches, lock, plans, row, doc, seen, overwritten>>

ActGivesUp(k) ==
    /\ pc[k] \in {"repaired", "unrepaired"}
    /\ ActEnds(k, "PLAN_APPROVED")
    /\ UNCHANGED <<patch, patches>>

\* Mutant: the verdict of the validation is not looked at.
ActDraftsUnchecked(k, d, ok) ==
    /\ pc[k] \in {"answered", "repaired"}
    /\ draft[d] = "none"
    /\ draft' = [draft EXCEPT ![d] = IF ok THEN "APPROVED" ELSE "REJECTED"]
    /\ passed' = IF ok THEN passed \cup {d} ELSE passed
    /\ patch' = [patch EXCEPT ![row[k]] = d]
    /\ ActEnds(k, "PATCH_APPROVED")
    /\ UNCHANGED <<hashed, disk, written>>

\* The draft is created and validated in the section that ends the request.
ActDrafts(k, d, ok) ==
    /\ pc[k] \in {"answered", "repaired"}
    /\ draft[d] = "none"
    /\ draft' = [draft EXCEPT ![d] = IF ok THEN "APPROVED" ELSE "REJECTED"]
    /\ passed' = IF ok THEN passed \cup {d} ELSE passed
    /\ patch' = [patch EXCEPT ![row[k]] = d]
    /\ ActEnds(k, IF ok THEN "PATCH_APPROVED" ELSE "PATCH_REJECTED")
    /\ UNCHANGED <<hashed, disk, written>>

\* Mutant: the flushed VALIDATING is committed before the validation.
ActRefusedLate(k) ==
    /\ pc[k] \in {"answered", "repaired"}
    /\ status' = [status EXCEPT ![row[k]] = "VALIDATING"]
    /\ Release(k)
    /\ loop' = Free
    /\ Finish(k)
    /\ UNCHANGED <<plan, patch, approval, newer, patches, plans, overwritten>>

\* _validate_patch_internal answers 400 (no local path), or the last commit
\* fails: the session is closed, and an ACTING that was committed stays.
ActRefused(k) ==
    /\ pc[k] \in {"acting", "answered", "repaired", "unrepaired"}
    /\ loop \in {Free, k}
    /\ Release(k)
    /\ loop' = Free
    /\ Finish(k)
    /\ UNCHANGED <<columns, patches, plans, overwritten>>

-----------------------------------------------------------------------------
(***************************************************************************)
(* The patch routes.                                                       *)
(***************************************************************************)
Exists(d) == draft[d] \notin {"none", "gone"}
DraftTo(d, s) == draft' = [draft EXCEPT ![d] = s]

LoadDraft(k, d, stage) ==
    /\ pc[k] = "idle"
    /\ Exists(d)
    /\ To(k, stage)
    /\ doc' = [doc EXCEPT ![k] = d]
    /\ UNCHANGED <<columns, lock, plans, loop, row, seen, overwritten>>

\* A file the repository does not have has no content to hash.
CreateDraft(d, hashes) ==
    /\ draft[d] = "none"
    /\ hashes => d \in Existing
    /\ DraftTo(d, "DRAFT")
    /\ hashed' = IF hashes THEN hashed \cup {d} ELSE hashed
    /\ UNCHANGED <<columns, disk, passed, written, lock, plans, loop, client, overwritten>>

\* Any draft may be validated again, whatever became of it.
ReadForValidate(k, d) ==
    /\ LoadDraft(k, d, "validate")
    /\ DraftTo(d, "REVIEW")
    /\ UNCHANGED <<hashed, disk, passed, written>>

\* A draft deleted meanwhile makes the commit raise, and the request with it.
Validate(k, ok) == LET d == doc[k] IN
    /\ pc[k] = "validate"
    /\ IF Exists(d)
       THEN /\ DraftTo(d, IF ok THEN "APPROVED" ELSE "REJECTED")
            /\ passed' = IF ok THEN passed \cup {d} ELSE passed
       ELSE UNCHANGED <<draft, passed>>
    /\ Finish(k)
    /\ UNCHANGED <<columns, hashed, disk, written, lock, plans, loop, overwritten>>

\* detect_drift: an ADDED file that is there, or a MODIFIED one whose
\* content_hash_before is not the hash of the file; drafts of start_act carry
\* no hash.  The repository may also have moved on, at any time.
Drifted(d) == d \in disk \/ d \in Existing \ hashed

ApplyConflicts(k, d) ==
    /\ pc[k] = "idle"
    /\ Exists(d)
    /\ DraftTo(d, "CONFLICTED")
    /\ UNCHANGED <<columns, hashed, disk, passed, written, lock, plans, loop, client, overwritten>>

ReadForApply(k, d) == ~Drifted(d) /\ LoadDraft(k, d, "apply") /\ UNCHANGED patches

\* Mutant: the files are not written before the change set is settled.
ApplyNothing(k) ==
    /\ pc[k] = "apply"
    /\ To(k, "written")
    /\ UNCHANGED <<columns, patches, lock, plans, loop, row, doc, seen, overwritten>>

Apply(k) ==
    /\ pc[k] = "apply"
    /\ doc[k] \notin disk
    /\ disk' = disk \cup {doc[k]}
    /\ written' = written \cup {doc[k]}
    /\ To(k, "written")
    /\ UNCHANGED <<columns, draft, hashed, passed, lock, plans, loop, row, doc,
                   seen, overwritten>>

\* git apply rejects the diff.
ApplyFails(k) ==
    /\ pc[k] = "apply"
    /\ IF Exists(doc[k]) THEN DraftTo(doc[k], "FAILED") ELSE UNCHANGED draft
    /\ Finish(k)
    /\ UNCHANGED <<columns, hashed, disk, passed, written, lock, plans, loop, overwritten>>

\* create_snapshot is a coroutine function called without await, so the
\* draft's snapshot ids cannot be bound.  If the commit inside
\* queue_repository_indexing is the first to try, its handler rolls back, the
\* draft keeps its status, and the route goes on to the change set ...
ApplyReadsRow(k, r) ==
    /\ pc[k] = "written"
    /\ patch[r] = doc[k] /\ status[r] = "PATCH_APPROVED"
    /\ LoadRow(k, r, "settle")
    /\ UNCHANGED <<columns, patches, lock, plans, loop, doc, overwritten>>

\* ... or finds none to settle; or queueing was refused (409), in which case
\* the route's own commit raises, and the handler's commit with it.
ApplyReturns(k) ==
    /\ pc[k] = "written"
    /\ Finish(k)
    /\ UNCHANGED <<columns, patches, lock, plans, loop, overwritten>>

Settle(k) == LET r == row[k] IN
    /\ pc[k] = "settle"
    /\ lock[r] = Free
    /\ StatusTo(k, r, "APPLIED")
    /\ Touch(r) /\ Overwrites(k, r) /\ Finish(k)
    /\ UNCHANGED <<plan, patch, approval, patches, lock, plans, loop>>

\* cancel_patch_draft refuses an APPLIED draft, a status no draft ever has.
ReadForDelete(k, d) == draft[d] # "APPLIED" /\ LoadDraft(k, d, "delete") /\ UNCHANGED patches

\* change_sets.patch_id is ON DELETE SET NULL.
Delete(k) == LET d == doc[k] IN
    /\ pc[k] = "delete"
    /\ \A r \in Rows : patch[r] = d => lock[r] = Free
    /\ IF Exists(d)
       THEN /\ DraftTo(d, "gone")
            /\ patch' = [r \in Rows |-> IF patch[r] = d THEN NoDraft ELSE patch[r]]
       ELSE UNCHANGED <<draft, patch>>
    /\ Finish(k)
    /\ UNCHANGED <<status, plan, approval, newer, hashed, disk, passed, written,
                   lock, plans, loop, overwritten>>

-----------------------------------------------------------------------------
(***************************************************************************)
(* Rolling back.                                                           *)
(***************************************************************************)
ReadForRollback(k, r) ==
    /\ status[r] = "APPLIED" /\ patch[r] # NoDraft
    /\ Load(k, r, "rollback")

\* git show <base>:<path> per file; where it fails, a warning is all there is.
Restore(k, restored) ==
    /\ pc[k] = "rollback"
    /\ disk' = IF restored THEN disk \ {seen[k].patch} ELSE disk
    /\ To(k, "restored")
    /\ UNCHANGED <<columns, draft, hashed, passed, written, lock, plans, loop, row,
                   doc, seen, overwritten>>

Rollback(k) == LET r == row[k]  d == seen[k].patch IN
    /\ pc[k] = "restored"
    /\ lock[r] = Free
    /\ IF Exists(d)
       THEN /\ DraftTo(d, "ROLLED_BACK")
            /\ StatusTo(k, r, "ROLLED_BACK")
            /\ Touch(r) /\ Overwrites(k, r)
       ELSE UNCHANGED <<draft, status, newer, overwritten>>
    /\ Finish(k)
    /\ UNCHANGED <<plan, patch, approval, hashed, disk, passed, written, lock,
                   plans, loop>>

-----------------------------------------------------------------------------
\* The server restarts: requests end where they are, sessions roll back.
Restart ==
    /\ \E k \in Clients : pc[k] # "idle"
    /\ pc' = [k \in Clients |-> "idle"]
    /\ row' = [k \in Clients |-> NoRow]
    /\ doc' = [k \in Clients |-> NoDraft]
    /\ seen' = [k \in Clients |-> Unset]
    /\ lock' = [r \in Rows |-> Free]
    /\ loop' = Free
    /\ UNCHANGED <<columns, patches, plans, overwritten>>

RowStep(k) ==
    \/ \E r \in Rows :
        \/ ReadForEdit(k, r) \/ ReadForApprove(k, r) \/ ReadForCancel(k, r)
        \/ PlanCreates(k, r) \/ ActReads(k, r)
        \/ ApplyReadsRow(k, r) \/ ReadForRollback(k, r)
    \/ Edit(k) \/ Approve(k) \/ Cancel(k)
    \/ PlanReads(k) \/ PlanUpdates(k) \/ PlanFails(k) \/ RequestFails(k)
    \/ Settle(k) \/ Rollback(k) \/ \E restored \in BOOLEAN : Restore(k, restored)

ActStep(k) ==
    \/ ActAwaits(k) \/ ActFindsCached(k)
    \/ \E recorded \in BOOLEAN : ActAnswers(k, recorded)
    \/ ActRaises(k) \/ ActRepairs(k) \/ RepairRaises(k)
    \/ ActGivesUp(k) \/ ActRefused(k)
    \/ \E d \in Drafts, ok \in BOOLEAN : ActDrafts(k, d, ok)

DraftStep(k) ==
    \/ \E d \in Drafts :
        \/ ReadForValidate(k, d) \/ ApplyConflicts(k, d)
        \/ ReadForApply(k, d) \/ ReadForDelete(k, d)
    \/ \E ok \in BOOLEAN : Validate(k, ok)
    \/ Apply(k) \/ ApplyFails(k) \/ ApplyReturns(k) \/ Delete(k)

Next ==
    \/ \E k \in Clients : RowStep(k) \/ ActStep(k) \/ DraftStep(k)
    \/ \E d \in Drafts, hashes \in BOOLEAN : CreateDraft(d, hashes)
    \/ Restart

Spec == Init /\ [][Next]_vars

-----------------------------------------------------------------------------
(***************************************************************************)
(* Properties.                                                             *)
(***************************************************************************)
\* A change set whose patch is approved, and a draft that is approved, went
\* through a validation that succeeded, however requests on them interleave.
ApprovedWasValidated ==
    /\ \A d \in Drafts : draft[d] = "APPROVED" => d \in passed
    /\ \A r \in Rows : status[r] = "PATCH_APPROVED" => patch[r] \in passed \cup {NoDraft}

\* Unless a request wrote over a version of the row it had not loaded, a plan
\* that may be acted upon, is being acted upon or has its patch approved is
\* the plan its approver had before them.
ApprovedPlanIsCurrent ==
    \A r \in Rows \ overwritten :
        status[r] \in {"PLAN_APPROVED", "ACTING", "PATCH_APPROVED", "APPLIED"} =>
            approval[r] = plan[r]

\* With the same exception, a change set says APPLIED only after the files of
\* its patch were written.
AppliedWasWritten ==
    \A r \in Rows \ overwritten :
        status[r] = "APPLIED" => patch[r] \in written \cup {NoDraft}

\* The requests that run ACT for row r, from the flush of ACTING on.
Acting(r) == {k \in Clients : row[k] = r /\ pc[k] \in ActStages}

\* With the same exception, a cancelled, applied or rolled back change set
\* stays that, but for the rollback of an applied one; and one whose ACTING
\* outlived its request (a restart, a failed last commit) stays ACTING until
\* somebody cancels it: no later request resumes or repairs it.
StatusesStay ==
    [][\A r \in Rows \ overwritten' : status'[r] # status[r] =>
        /\ status[r] \in Terminal =>
              status[r] = "APPLIED" /\ status'[r] = "ROLLED_BACK"
        /\ status[r] = "ACTING" /\ Acting(r) = {} => status'[r] = "CANCELLED"]_vars

\* POST /act for a row whose ACT awaits the model blocks the event loop on the
\* row lock, which only the awaiting request releases, on the same loop: from
\* there on the server answers nothing until it is restarted.
Blocked(k) == pc[k] = "actFlush" /\ lock[row[k]] \notin {Free, k}
BlockedLoopStays ==
    [][\A k \in Clients : Blocked(k) =>
        /\ loop = k
        /\ Restart \/ (Blocked(k)' /\ loop' = k)]_vars

\* ACT runs only a plan that was approved: when a request starts it, the plan
\* is the one the approver had loaded.
ActsOnApprovedPlan ==
    [][\A k \in Clients : pc[k] = "idle" /\ pc'[k] = "actFlush" =>
        approval[row'[k]] = plan[row'[k]]]_vars

\* The DELETE route refuses a draft that was applied: while its file is patched
\* in the working tree, a draft is not deleted.
AppliedNotDeleted ==
    [][\A d \in disk : draft'[d] = "gone" => draft[d] = "gone"]_vars
=============================================================================
