------------------------- MODULE ChangeSetsProofs -------------------------
(***************************************************************************)
(* Proofs about ChangeSets, for every number of rows, drafts, clients and  *)
(* plans: nothing counts as approved that was not validated, and as long   *)
(* as no request writes over a version of a row it had not loaded, the     *)
(* approval belongs to the current plan, APPLIED to written files, and     *)
(* terminal statuses are final.                                            *)
(***************************************************************************)
EXTENDS ChangeSets, TLAPS

Approved == {"PLAN_APPROVED", "ACTING", "PATCH_APPROVED", "PATCH_REJECTED", "APPLIED"}

\* What a request loaded justifies the stage it is in.
ClientInv == \A k \in Clients :
    /\ pc[k] \in {"edit", "approve", "cancel", "rollback", "restored", "settle",
                  "actFlush"} \cup ActStages => row[k] \in Rows
    /\ pc[k] \in {"validate", "apply", "written", "settle", "delete"} => doc[k] \in Drafts
    /\ pc[k] = "edit" => seen[k].status \in {"PLAN_READY", "PLAN_APPROVED"}
    /\ pc[k] = "approve" => seen[k].status = "PLAN_READY"
    /\ pc[k] = "cancel" => seen[k].status \notin Terminal
    /\ pc[k] \in {"rollback", "restored"} => seen[k].status = "APPLIED" /\ seen[k].patch \in Drafts
    /\ pc[k] \in {"written", "settle"} => doc[k] \in written
    /\ pc[k] = "settle" => seen[k].status = "PATCH_APPROVED" /\ seen[k].patch = doc[k]
    /\ pc[k] = "actFlush" => seen[k].status \in {"PLAN_APPROVED", "PATCH_REJECTED"}
    /\ pc[k] \in ActStages =>
          \/ row[k] \in overwritten
          \/ seen[k].status \in {"PLAN_APPROVED", "PATCH_REJECTED", "ACTING"}

\* A row is locked by a request that acts on it, with the status it found.
LockInv == \A r \in Rows :
    lock[r] # Free =>
        /\ row[lock[r]] = r
        /\ pc[lock[r]] \in ActStages
        /\ r \in overwritten \/ status[r] \in {"PLAN_APPROVED", "PATCH_REJECTED"}

\* The approval is that of the current plan also while a patch is rejected.
RowInv == \A r \in Rows \ overwritten :
    /\ status[r] \in Approved => approval[r] = plan[r]
    /\ status[r] = "APPLIED" => patch[r] \in written \cup {NoDraft}

IndInv == TypeOK /\ ClientInv /\ LockInv /\ RowInv /\ ApprovedWasValidated

-----------------------------------------------------------------------------
LEMMA InitInv == Init => IndInv
  BY ChangeSetsAssumption DEF Init, IndInv, TypeOK, ClientInv, LockInv, RowInv, ApprovedWasValidated,
     ActStages, Approved, Columns, Unset, RowStatus, DraftStatus, Stages, Terminal

\* What the helpers write has the type of its column.
LEMMA TouchType ==
  ASSUME TypeOK, NEW r \in Rows, Touch(r) \/ TouchEarlier(r)
  PROVE  newer' \subseteq Rows \X Rows
  BY DEF Touch, TouchEarlier, TypeOK

LEMMA OverwritesType ==
  ASSUME TypeOK, NEW k, NEW r \in Rows, Overwrites(k, r)
  PROVE  overwritten' \subseteq Rows
  BY DEF Overwrites, TypeOK

LEMMA StatusType ==
  ASSUME TypeOK, NEW k, NEW r \in Rows, NEW s \in RowStatus, StatusTo(k, r, s)
  PROVE  status' \in [Rows -> RowStatus]
  BY DEF StatusTo, Emit, TypeOK

LEMMA FinishType ==
  ASSUME TypeOK, NEW k \in Clients, Finish(k)
  PROVE  /\ pc' \in [Clients -> Stages]
         /\ row' \in [Clients -> Rows \cup {NoRow}]
         /\ doc' \in [Clients -> Drafts \cup {NoDraft}]
         /\ seen' \in [Clients -> Columns]
  BY ChangeSetsAssumption DEF Finish, To, TypeOK, Stages, Columns, Unset, RowStatus

LEMMA LoadRowType ==
  ASSUME TypeOK, NEW k \in Clients, NEW r \in Rows, NEW s \in Stages, LoadRow(k, r, s)
  PROVE  /\ pc' \in [Clients -> Stages]
         /\ row' \in [Clients -> Rows \cup {NoRow}]
         /\ seen' \in [Clients -> Columns]
  BY DEF LoadRow, Loaded, To, TypeOK, Columns

LEMMA FlushType ==
  ASSUME TypeOK, NEW k \in Clients, NEW s \in Stages, row[k] \in Rows, Flush(k, s)
  PROVE  /\ lock' \in [Rows -> Clients \cup {Free}]
         /\ pc' \in [Clients -> Stages]
         /\ seen' \in [Clients -> Columns]
         /\ overwritten' \subseteq Rows
  <1>1. overwritten' \subseteq Rows
    BY OverwritesType DEF Flush
  <1>2. lock' \in [Rows -> Clients \cup {Free}] /\ pc' \in [Clients -> Stages]
    BY DEF Flush, To, TypeOK
  <1>3. seen' \in [Clients -> Columns]
    <2>1. ASSUME NEW c \in Columns PROVE [c EXCEPT !.status = "ACTING"] \in Columns
      BY DEF Columns, RowStatus
    <2>2. seen \in [Clients -> Columns]
      BY DEF TypeOK
    <2>3. [seen[k] EXCEPT !.status = "ACTING"] \in Columns
      BY <2>1, <2>2
    <2>4. seen' = [seen EXCEPT ![k] = [seen[k] EXCEPT !.status = "ACTING"]]
      BY DEF Flush
    <2> QED
      BY <2>2, <2>3, <2>4
  <1> QED
    BY <1>1, <1>2, <1>3

LEMMA ReleaseType ==
  ASSUME TypeOK, NEW k, Release(k)
  PROVE  lock' \in [Rows -> Clients \cup {Free}]
  BY DEF Release, TypeOK

LEMMA ActEndsType ==
  ASSUME TypeOK, NEW k \in Clients, row[k] \in Rows, NEW s \in RowStatus, ActEnds(k, s)
  PROVE  /\ status' \in [Rows -> RowStatus]
         /\ newer' \subseteq Rows \X Rows
         /\ lock' \in [Rows -> Clients \cup {Free}]
         /\ overwritten' \subseteq Rows
         /\ pc' \in [Clients -> Stages]
         /\ row' \in [Clients -> Rows \cup {NoRow}]
         /\ doc' \in [Clients -> Drafts \cup {NoDraft}]
         /\ seen' \in [Clients -> Columns]
  <1>1. status' \in [Rows -> RowStatus]
    BY StatusType DEF ActEnds, TypeOK
  <1>2. newer' \subseteq Rows \X Rows /\ overwritten' \subseteq Rows
    BY TouchType, OverwritesType DEF ActEnds, TypeOK
  <1> QED
    BY <1>1, <1>2, FinishType, ReleaseType DEF ActEnds

\* Types: every value a step writes is one the column or the client may hold.
LEMMA StepType == TypeOK /\ ClientInv /\ [Next]_vars => TypeOK'
  <1> SUFFICES ASSUME TypeOK, ClientInv, [Next]_vars PROVE TypeOK'
    OBVIOUS
  <1> USE ChangeSetsAssumption DEF TypeOK, Columns, RowStatus, DraftStatus, Stages, Terminal, Unset, ClientInv, ActStages, vars, columns, patches, client
  <1>1. ASSUME NEW k \in Clients, NEW r \in Rows, ReadForEdit(k, r) PROVE TypeOK'
    BY <1>1 DEF ReadForEdit, Load, LoadRow, Loaded, To
  <1>2. ASSUME NEW k \in Clients, NEW r \in Rows, ReadForApprove(k, r) PROVE TypeOK'
    BY <1>2 DEF ReadForApprove, Load, LoadRow, Loaded, To
  <1>3. ASSUME NEW k \in Clients, NEW r \in Rows, ReadForCancel(k, r) PROVE TypeOK'
    BY <1>3 DEF ReadForCancel, Load, LoadRow, Loaded, To
  <1>4. ASSUME NEW k \in Clients, NEW r \in Rows, PlanCreates(k, r) PROVE TypeOK'
    BY <1>4 DEF PlanCreates, NewPlan, Touch, Finish, To
  <1>5. ASSUME NEW k \in Clients, NEW r \in Rows, ActReads(k, r) PROVE TypeOK'
    BY <1>5 DEF ActReads, LoadRow, Loaded, To
  <1>6. ASSUME NEW k \in Clients, NEW r \in Rows, ApplyReadsRow(k, r) PROVE TypeOK'
    BY <1>6 DEF ApplyReadsRow, LoadRow, Loaded, To
  <1>7. ASSUME NEW k \in Clients, NEW r \in Rows, ReadForRollback(k, r) PROVE TypeOK'
    BY <1>7 DEF ReadForRollback, Load, LoadRow, Loaded, To
  <1>8. ASSUME NEW k \in Clients, Edit(k) PROVE TypeOK'
    <2>1. row[k] \in Rows /\ "PLAN_READY" \in RowStatus
      BY <1>8 DEF Edit
    <2>2. status' \in [Rows -> RowStatus] /\ approval' \in [Rows -> 0..MaxPlans]
      BY <1>8, <2>1, StatusType DEF Edit, ClearApproval, Emit
    <2>3. plan' \in [Rows -> 0..MaxPlans] /\ plans' \in 0..MaxPlans
      BY <1>8, <2>1 DEF Edit, NewPlan
    <2> QED
      BY <1>8, <2>1, <2>2, <2>3, TouchType, OverwritesType, FinishType DEF Edit
  <1>9. ASSUME NEW k \in Clients, Approve(k) PROVE TypeOK'
    BY <1>9 DEF Approve, StatusTo, Emit, Touch, Overwrites, Loaded, Finish, To
  <1>10. ASSUME NEW k \in Clients, Cancel(k) PROVE TypeOK'
    BY <1>10 DEF Cancel, StatusTo, Emit, Touch, Overwrites, Loaded, Finish, To
  <1>11. ASSUME NEW k \in Clients, PlanReads(k) PROVE TypeOK'
    <2>1. CASE \E r \in Rows : LoadRow(k, r, "plan")
      BY <1>11, <2>1, LoadRowType DEF PlanReads
    <2>2. CASE To(k, "plan") /\ UNCHANGED <<row, seen>>
      BY <1>11, <2>2 DEF PlanReads, To
    <2> QED
      BY <1>11, <2>1, <2>2 DEF PlanReads
  <1>12. ASSUME NEW k \in Clients, PlanUpdates(k) PROVE TypeOK'
    BY <1>12 DEF PlanUpdates, Replannable, NewPlan, StatusTo, ClearApproval, Emit, Touch, Overwrites, Loaded, Finish, To
  <1>13. ASSUME NEW k \in Clients, PlanFails(k) PROVE TypeOK'
    BY <1>13 DEF PlanFails, Finish, To
  <1>14. ASSUME NEW k \in Clients, RequestFails(k) PROVE TypeOK'
    BY <1>14 DEF RequestFails, Finish, To
  <1>15. ASSUME NEW k \in Clients, Settle(k) PROVE TypeOK'
    BY <1>15 DEF Settle, StatusTo, Emit, Touch, Overwrites, Loaded, Finish, To
  <1>16. ASSUME NEW k \in Clients, Rollback(k) PROVE TypeOK'
    <2>1. row[k] \in Rows /\ "ROLLED_BACK" \in RowStatus
      BY <1>16 DEF Rollback
    <2>2. draft' \in [Drafts -> DraftStatus]
      BY <1>16 DEF Rollback, DraftTo
    <2>3. /\ status' \in [Rows -> RowStatus] /\ newer' \subseteq Rows \X Rows
          /\ overwritten' \subseteq Rows
      BY <1>16, <2>1, StatusType, TouchType, OverwritesType DEF Rollback
    <2> QED
      BY <1>16, <2>2, <2>3, FinishType DEF Rollback
  <1>17. ASSUME NEW k \in Clients, NEW restored \in BOOLEAN, Restore(k, restored) PROVE TypeOK'
    BY <1>17 DEF Restore, To
  <1>18. ASSUME NEW k \in Clients, ActAwaits(k) PROVE TypeOK'
    BY <1>18, FlushType DEF ActAwaits, Flush
  <1>19. ASSUME NEW k \in Clients, ActFindsCached(k) PROVE TypeOK'
    BY <1>19, FlushType DEF ActFindsCached, Flush
  <1>20. ASSUME NEW k \in Clients, NEW recorded \in BOOLEAN, ActAnswers(k, recorded) PROVE TypeOK'
    BY <1>20 DEF ActAnswers, Answered, Overwrites, Loaded, TouchEarlier, Touch, Release, To
  <1>21. ASSUME NEW k \in Clients, ActRaises(k) PROVE TypeOK'
    <2>1. row[k] \in Rows /\ "PLAN_APPROVED" \in RowStatus
      BY <1>21 DEF ActRaises
    <2> QED
      BY <1>21, <2>1, ActEndsType DEF ActRaises, ActEnds
  <1>22. ASSUME NEW k \in Clients, ActRepairs(k) PROVE TypeOK'
    BY <1>22 DEF ActRepairs, To
  <1>23. ASSUME NEW k \in Clients, RepairRaises(k) PROVE TypeOK'
    BY <1>23 DEF RepairRaises, To
  <1>24. ASSUME NEW k \in Clients, ActGivesUp(k) PROVE TypeOK'
    <2>1. row[k] \in Rows /\ "PLAN_APPROVED" \in RowStatus
      BY <1>24 DEF ActGivesUp
    <2> QED
      BY <1>24, <2>1, ActEndsType DEF ActGivesUp, ActEnds
  <1>25. ASSUME NEW k \in Clients, NEW d \in Drafts, NEW ok \in BOOLEAN, ActDrafts(k, d, ok) PROVE TypeOK'
    <2>1. row[k] \in Rows /\ {"PATCH_APPROVED", "PATCH_REJECTED"} \subseteq RowStatus
      BY <1>25 DEF ActDrafts
    <2>2. /\ draft' \in [Drafts -> DraftStatus] /\ passed' \subseteq Drafts
          /\ patch' \in [Rows -> Drafts \cup {NoDraft}]
      BY <1>25, <2>1 DEF ActDrafts
    <2> QED
      BY <1>25, <2>1, <2>2, ActEndsType DEF ActDrafts, ActEnds
  <1>26. ASSUME NEW k \in Clients, ActRefused(k) PROVE TypeOK'
    BY <1>26 DEF ActRefused, Release, Finish, To
  <1>27. ASSUME NEW k \in Clients, NEW d \in Drafts, ReadForValidate(k, d) PROVE TypeOK'
    BY <1>27 DEF ReadForValidate, LoadDraft, Exists, DraftTo, To
  <1>28. ASSUME NEW k \in Clients, NEW d \in Drafts, ApplyConflicts(k, d) PROVE TypeOK'
    BY <1>28 DEF ApplyConflicts, DraftTo, Exists
  <1>29. ASSUME NEW k \in Clients, NEW d \in Drafts, ReadForApply(k, d) PROVE TypeOK'
    BY <1>29 DEF ReadForApply, LoadDraft, Exists, To
  <1>30. ASSUME NEW k \in Clients, NEW d \in Drafts, ReadForDelete(k, d) PROVE TypeOK'
    BY <1>30 DEF ReadForDelete, LoadDraft, Exists, To
  <1>31. ASSUME NEW k \in Clients, NEW ok \in BOOLEAN, Validate(k, ok) PROVE TypeOK'
    BY <1>31 DEF Validate, Exists, DraftTo, Finish, To
  <1>32. ASSUME NEW k \in Clients, Apply(k) PROVE TypeOK'
    BY <1>32 DEF Apply, To
  <1>33. ASSUME NEW k \in Clients, ApplyFails(k) PROVE TypeOK'
    BY SMTT(30), <1>33 DEF ApplyFails, Exists, DraftTo, Finish, To
  <1>34. ASSUME NEW k \in Clients, ApplyReturns(k) PROVE TypeOK'
    BY <1>34 DEF ApplyReturns, Finish, To
  <1>35. ASSUME NEW k \in Clients, Delete(k) PROVE TypeOK'
    BY SMTT(30), <1>35 DEF Delete, Exists, DraftTo, Finish, To
  <1>36. ASSUME NEW d \in Drafts, NEW hashes \in BOOLEAN, CreateDraft(d, hashes) PROVE TypeOK'
    BY <1>36 DEF CreateDraft, DraftTo
  <1>37. ASSUME Restart PROVE TypeOK'
    BY <1>37 DEF Restart
  <1>38. CASE UNCHANGED vars
    BY <1>38
  <1> HIDE DEF TypeOK, Columns, RowStatus, DraftStatus, Stages, Terminal, Unset, ClientInv, ActStages, vars, columns, patches, client
  <1> QED
    BY <1>1, <1>2, <1>3, <1>4, <1>5, <1>6, <1>7, <1>8, <1>9, <1>10, <1>11, <1>12, <1>13, <1>14, <1>15, <1>16, <1>17, <1>18, <1>19, <1>20, <1>21, <1>22, <1>23, <1>24, <1>25, <1>26, <1>27, <1>28, <1>29, <1>30, <1>31, <1>32, <1>33, <1>34, <1>35, <1>36, <1>37, <1>38 DEF Next, RowStep, ActStep, DraftStep

\* Loading fixes what a stage may rely on, and no other client changes it.
LEMMA StepClient == TypeOK /\ ClientInv /\ LockInv /\ [Next]_vars => ClientInv'
  <1> SUFFICES ASSUME TypeOK, ClientInv, LockInv, [Next]_vars PROVE ClientInv'
    OBVIOUS
  <1> USE ChangeSetsAssumption DEF TypeOK, Columns, RowStatus, DraftStatus, Stages, Terminal, Unset, ClientInv, LockInv, ActStages, vars, columns, patches, client
  <1>1. ASSUME NEW k \in Clients, NEW r \in Rows, ReadForEdit(k, r) PROVE ClientInv'
    BY <1>1 DEF ReadForEdit, Load, LoadRow, Loaded, To
  <1>2. ASSUME NEW k \in Clients, NEW r \in Rows, ReadForApprove(k, r) PROVE ClientInv'
    BY <1>2 DEF ReadForApprove, Load, LoadRow, Loaded, To
  <1>3. ASSUME NEW k \in Clients, NEW r \in Rows, ReadForCancel(k, r) PROVE ClientInv'
    BY <1>3 DEF ReadForCancel, Load, LoadRow, Loaded, To
  <1>4. ASSUME NEW k \in Clients, NEW r \in Rows, PlanCreates(k, r) PROVE ClientInv'
    BY <1>4 DEF PlanCreates, NewPlan, Touch, Finish, To
  <1>5. ASSUME NEW k \in Clients, NEW r \in Rows, ActReads(k, r) PROVE ClientInv'
    BY <1>5 DEF ActReads, LoadRow, Loaded, To
  <1>6. ASSUME NEW k \in Clients, NEW r \in Rows, ApplyReadsRow(k, r) PROVE ClientInv'
    BY <1>6 DEF ApplyReadsRow, LoadRow, Loaded, To
  <1>7. ASSUME NEW k \in Clients, NEW r \in Rows, ReadForRollback(k, r) PROVE ClientInv'
    BY <1>7 DEF ReadForRollback, Load, LoadRow, Loaded, To
  <1>8. ASSUME NEW k \in Clients, Edit(k) PROVE ClientInv'
    BY <1>8 DEF Edit, NewPlan, StatusTo, ClearApproval, Emit, Touch, Overwrites, Loaded, Finish, To
  <1>9. ASSUME NEW k \in Clients, Approve(k) PROVE ClientInv'
    BY <1>9 DEF Approve, StatusTo, Emit, Touch, Overwrites, Loaded, Finish, To
  <1>10. ASSUME NEW k \in Clients, Cancel(k) PROVE ClientInv'
    BY <1>10 DEF Cancel, StatusTo, Emit, Touch, Overwrites, Loaded, Finish, To
  <1>11. ASSUME NEW k \in Clients, PlanReads(k) PROVE ClientInv'
    BY <1>11 DEF PlanReads, IsLatest, Open, LoadRow, Loaded, To
  <1>12. ASSUME NEW k \in Clients, PlanUpdates(k) PROVE ClientInv'
    BY <1>12 DEF PlanUpdates, Replannable, NewPlan, StatusTo, ClearApproval, Emit, Touch, Overwrites, Loaded, Finish, To
  <1>13. ASSUME NEW k \in Clients, PlanFails(k) PROVE ClientInv'
    BY <1>13 DEF PlanFails, Finish, To
  <1>14. ASSUME NEW k \in Clients, RequestFails(k) PROVE ClientInv'
    BY <1>14 DEF RequestFails, Finish, To
  <1>15. ASSUME NEW k \in Clients, Settle(k) PROVE ClientInv'
    BY <1>15 DEF Settle, StatusTo, Emit, Touch, Overwrites, Loaded, Finish, To
  <1>16. ASSUME NEW k \in Clients, Rollback(k) PROVE ClientInv'
    BY <1>16 DEF Rollback, Exists, DraftTo, StatusTo, Emit, Touch, Overwrites, Loaded, Finish, To
  <1>17. ASSUME NEW k \in Clients, NEW restored \in BOOLEAN, Restore(k, restored) PROVE ClientInv'
    BY <1>17 DEF Restore, To
  <1>18. ASSUME NEW k \in Clients, ActAwaits(k) PROVE ClientInv'
    BY <1>18 DEF ActAwaits, Flush, Overwrites, Loaded, To
  <1>19. ASSUME NEW k \in Clients, ActFindsCached(k) PROVE ClientInv'
    BY <1>19 DEF ActFindsCached, Flush, Overwrites, Loaded, To
  <1>20. ASSUME NEW k \in Clients, NEW recorded \in BOOLEAN, ActAnswers(k, recorded) PROVE ClientInv'
    BY <1>20 DEF ActAnswers, Answered, Overwrites, Loaded, TouchEarlier, Touch, Release, To
  <1>21. ASSUME NEW k \in Clients, ActRaises(k) PROVE ClientInv'
    BY <1>21 DEF ActRaises, ActEnds, StatusTo, Emit, TouchEarlier, Touch, Overwrites, Loaded, Release, Finish, To
  <1>22. ASSUME NEW k \in Clients, ActRepairs(k) PROVE ClientInv'
    BY <1>22 DEF ActRepairs, To
  <1>23. ASSUME NEW k \in Clients, RepairRaises(k) PROVE ClientInv'
    BY <1>23 DEF RepairRaises, To
  <1>24. ASSUME NEW k \in Clients, ActGivesUp(k) PROVE ClientInv'
    BY <1>24 DEF ActGivesUp, ActEnds, StatusTo, Emit, TouchEarlier, Touch, Overwrites, Loaded, Release, Finish, To
  <1>25. ASSUME NEW k \in Clients, NEW d \in Drafts, NEW ok \in BOOLEAN, ActDrafts(k, d, ok) PROVE ClientInv'
    BY <1>25 DEF ActDrafts, ActEnds, StatusTo, Emit, TouchEarlier, Touch, Overwrites, Loaded, Release, Finish, To
  <1>26. ASSUME NEW k \in Clients, ActRefused(k) PROVE ClientInv'
    BY <1>26 DEF ActRefused, Release, Finish, To
  <1>27. ASSUME NEW k \in Clients, NEW d \in Drafts, ReadForValidate(k, d) PROVE ClientInv'
    BY <1>27 DEF ReadForValidate, LoadDraft, Exists, DraftTo, To
  <1>28. ASSUME NEW k \in Clients, NEW d \in Drafts, ApplyConflicts(k, d) PROVE ClientInv'
    BY <1>28 DEF ApplyConflicts, DraftTo, Exists
  <1>29. ASSUME NEW k \in Clients, NEW d \in Drafts, ReadForApply(k, d) PROVE ClientInv'
    BY <1>29 DEF ReadForApply, LoadDraft, Exists, To
  <1>30. ASSUME NEW k \in Clients, NEW d \in Drafts, ReadForDelete(k, d) PROVE ClientInv'
    BY <1>30 DEF ReadForDelete, LoadDraft, Exists, To
  <1>31. ASSUME NEW k \in Clients, NEW ok \in BOOLEAN, Validate(k, ok) PROVE ClientInv'
    BY <1>31 DEF Validate, Exists, DraftTo, Finish, To
  <1>32. ASSUME NEW k \in Clients, Apply(k) PROVE ClientInv'
    BY <1>32 DEF Apply, To
  <1>33. ASSUME NEW k \in Clients, ApplyFails(k) PROVE ClientInv'
    BY <1>33 DEF ApplyFails, Exists, DraftTo, Finish, To
  <1>34. ASSUME NEW k \in Clients, ApplyReturns(k) PROVE ClientInv'
    BY <1>34 DEF ApplyReturns, Finish, To
  <1>35. ASSUME NEW k \in Clients, Delete(k) PROVE ClientInv'
    BY <1>35 DEF Delete, Exists, DraftTo, Finish, To
  <1>36. ASSUME NEW d \in Drafts, NEW hashes \in BOOLEAN, CreateDraft(d, hashes) PROVE ClientInv'
    BY <1>36 DEF CreateDraft, DraftTo
  <1>37. ASSUME Restart PROVE ClientInv'
    BY <1>37 DEF Restart
  <1>38. CASE UNCHANGED vars
    BY <1>38
  <1> HIDE DEF TypeOK, Columns, RowStatus, DraftStatus, Stages, Terminal, Unset, ClientInv, LockInv, ActStages, vars, columns, patches, client
  <1> QED
    BY <1>1, <1>2, <1>3, <1>4, <1>5, <1>6, <1>7, <1>8, <1>9, <1>10, <1>11, <1>12, <1>13, <1>14, <1>15, <1>16, <1>17, <1>18, <1>19, <1>20, <1>21, <1>22, <1>23, <1>24, <1>25, <1>26, <1>27, <1>28, <1>29, <1>30, <1>31, <1>32, <1>33, <1>34, <1>35, <1>36, <1>37, <1>38 DEF Next, RowStep, ActStep, DraftStep

\* Only the owner of a row lock changes the row or moves on with it.
LEMMA StepLock == TypeOK /\ ClientInv /\ LockInv /\ [Next]_vars => LockInv'
  <1> SUFFICES ASSUME TypeOK, ClientInv, LockInv, [Next]_vars PROVE LockInv'
    OBVIOUS
  <1> USE ChangeSetsAssumption DEF TypeOK, Columns, RowStatus, DraftStatus, Stages, Terminal, ClientInv, LockInv, ActStages, vars, columns, patches, client
  <1>1. ASSUME NEW k \in Clients, NEW r \in Rows, ReadForEdit(k, r) PROVE LockInv'
    BY <1>1 DEF ReadForEdit, Load, LoadRow, Loaded, To
  <1>2. ASSUME NEW k \in Clients, NEW r \in Rows, ReadForApprove(k, r) PROVE LockInv'
    BY <1>2 DEF ReadForApprove, Load, LoadRow, Loaded, To
  <1>3. ASSUME NEW k \in Clients, NEW r \in Rows, ReadForCancel(k, r) PROVE LockInv'
    BY <1>3 DEF ReadForCancel, Load, LoadRow, Loaded, To
  <1>4. ASSUME NEW k \in Clients, NEW r \in Rows, PlanCreates(k, r) PROVE LockInv'
    BY <1>4 DEF PlanCreates, NewPlan, Touch, Finish, To
  <1>5. ASSUME NEW k \in Clients, NEW r \in Rows, ActReads(k, r) PROVE LockInv'
    BY <1>5 DEF ActReads, LoadRow, Loaded, To
  <1>6. ASSUME NEW k \in Clients, NEW r \in Rows, ApplyReadsRow(k, r) PROVE LockInv'
    BY <1>6 DEF ApplyReadsRow, LoadRow, Loaded, To
  <1>7. ASSUME NEW k \in Clients, NEW r \in Rows, ReadForRollback(k, r) PROVE LockInv'
    BY <1>7 DEF ReadForRollback, Load, LoadRow, Loaded, To
  <1>8. ASSUME NEW k \in Clients, Edit(k) PROVE LockInv'
    BY <1>8 DEF Edit, NewPlan, StatusTo, ClearApproval, Emit, Touch, Overwrites, Loaded, Finish, To
  <1>9. ASSUME NEW k \in Clients, Approve(k) PROVE LockInv'
    BY <1>9 DEF Approve, StatusTo, Emit, Touch, Overwrites, Loaded, Finish, To
  <1>10. ASSUME NEW k \in Clients, Cancel(k) PROVE LockInv'
    BY <1>10 DEF Cancel, StatusTo, Emit, Touch, Overwrites, Loaded, Finish, To
  <1>11. ASSUME NEW k \in Clients, PlanReads(k) PROVE LockInv'
    BY <1>11 DEF PlanReads, IsLatest, Open, LoadRow, Loaded, To
  <1>12. ASSUME NEW k \in Clients, PlanUpdates(k) PROVE LockInv'
    BY <1>12 DEF PlanUpdates, Replannable, NewPlan, StatusTo, ClearApproval, Emit, Touch, Overwrites, Loaded, Finish, To
  <1>13. ASSUME NEW k \in Clients, PlanFails(k) PROVE LockInv'
    BY <1>13 DEF PlanFails, Finish, To
  <1>14. ASSUME NEW k \in Clients, RequestFails(k) PROVE LockInv'
    BY <1>14 DEF RequestFails, Finish, To
  <1>15. ASSUME NEW k \in Clients, Settle(k) PROVE LockInv'
    BY <1>15 DEF Settle, StatusTo, Emit, Touch, Overwrites, Loaded, Finish, To
  <1>16. ASSUME NEW k \in Clients, Rollback(k) PROVE LockInv'
    BY <1>16 DEF Rollback, Exists, DraftTo, StatusTo, Emit, Touch, Overwrites, Loaded, Finish, To
  <1>17. ASSUME NEW k \in Clients, NEW restored \in BOOLEAN, Restore(k, restored) PROVE LockInv'
    BY <1>17 DEF Restore, To
  <1>18. ASSUME NEW k \in Clients, ActAwaits(k) PROVE LockInv'
    BY <1>18 DEF ActAwaits, Flush, Overwrites, Loaded, To
  <1>19. ASSUME NEW k \in Clients, ActFindsCached(k) PROVE LockInv'
    BY <1>19 DEF ActFindsCached, Flush, Overwrites, Loaded, To
  <1>20. ASSUME NEW k \in Clients, NEW recorded \in BOOLEAN, ActAnswers(k, recorded) PROVE LockInv'
    BY <1>20 DEF ActAnswers, Answered, Overwrites, Loaded, TouchEarlier, Touch, Release, To
  <1>21. ASSUME NEW k \in Clients, ActRaises(k) PROVE LockInv'
    BY <1>21 DEF ActRaises, ActEnds, StatusTo, Emit, TouchEarlier, Touch, Overwrites, Loaded, Release, Finish, To
  <1>22. ASSUME NEW k \in Clients, ActRepairs(k) PROVE LockInv'
    BY <1>22 DEF ActRepairs, To
  <1>23. ASSUME NEW k \in Clients, RepairRaises(k) PROVE LockInv'
    BY <1>23 DEF RepairRaises, To
  <1>24. ASSUME NEW k \in Clients, ActGivesUp(k) PROVE LockInv'
    BY <1>24 DEF ActGivesUp, ActEnds, StatusTo, Emit, TouchEarlier, Touch, Overwrites, Loaded, Release, Finish, To
  <1>25. ASSUME NEW k \in Clients, NEW d \in Drafts, NEW ok \in BOOLEAN, ActDrafts(k, d, ok) PROVE LockInv'
    BY <1>25 DEF ActDrafts, ActEnds, StatusTo, Emit, TouchEarlier, Touch, Overwrites, Loaded, Release, Finish, To
  <1>26. ASSUME NEW k \in Clients, ActRefused(k) PROVE LockInv'
    BY <1>26 DEF ActRefused, Release, Finish, To
  <1>27. ASSUME NEW k \in Clients, NEW d \in Drafts, ReadForValidate(k, d) PROVE LockInv'
    BY <1>27 DEF ReadForValidate, LoadDraft, Exists, DraftTo, To
  <1>28. ASSUME NEW k \in Clients, NEW d \in Drafts, ApplyConflicts(k, d) PROVE LockInv'
    BY <1>28 DEF ApplyConflicts, DraftTo, Exists
  <1>29. ASSUME NEW k \in Clients, NEW d \in Drafts, ReadForApply(k, d) PROVE LockInv'
    BY <1>29 DEF ReadForApply, LoadDraft, Exists, To
  <1>30. ASSUME NEW k \in Clients, NEW d \in Drafts, ReadForDelete(k, d) PROVE LockInv'
    BY <1>30 DEF ReadForDelete, LoadDraft, Exists, To
  <1>31. ASSUME NEW k \in Clients, NEW ok \in BOOLEAN, Validate(k, ok) PROVE LockInv'
    BY <1>31 DEF Validate, Exists, DraftTo, Finish, To
  <1>32. ASSUME NEW k \in Clients, Apply(k) PROVE LockInv'
    BY <1>32 DEF Apply, To
  <1>33. ASSUME NEW k \in Clients, ApplyFails(k) PROVE LockInv'
    BY <1>33 DEF ApplyFails, Exists, DraftTo, Finish, To
  <1>34. ASSUME NEW k \in Clients, ApplyReturns(k) PROVE LockInv'
    BY <1>34 DEF ApplyReturns, Finish, To
  <1>35. ASSUME NEW k \in Clients, Delete(k) PROVE LockInv'
    BY <1>35 DEF Delete, Exists, DraftTo, Finish, To
  <1>36. ASSUME NEW d \in Drafts, NEW hashes \in BOOLEAN, CreateDraft(d, hashes) PROVE LockInv'
    BY <1>36 DEF CreateDraft, DraftTo
  <1>37. ASSUME Restart PROVE LockInv'
    BY <1>37 DEF Restart
  <1>38. CASE UNCHANGED vars
    BY <1>38
  <1> HIDE DEF TypeOK, Columns, RowStatus, DraftStatus, Stages, Terminal, ClientInv, LockInv, ActStages, vars, columns, patches, client
  <1> QED
    BY <1>1, <1>2, <1>3, <1>4, <1>5, <1>6, <1>7, <1>8, <1>9, <1>10, <1>11, <1>12, <1>13, <1>14, <1>15, <1>16, <1>17, <1>18, <1>19, <1>20, <1>21, <1>22, <1>23, <1>24, <1>25, <1>26, <1>27, <1>28, <1>29, <1>30, <1>31, <1>32, <1>33, <1>34, <1>35, <1>36, <1>37, <1>38 DEF Next, RowStep, ActStep, DraftStep

\* A commit that overwrites nothing keeps approval and plan together.
LEMMA StepRow == TypeOK /\ ClientInv /\ LockInv /\ RowInv /\ [Next]_vars => RowInv'
  <1> SUFFICES ASSUME TypeOK, ClientInv, LockInv, RowInv, [Next]_vars PROVE RowInv'
    OBVIOUS
  <1> USE ChangeSetsAssumption DEF TypeOK, Columns, RowStatus, DraftStatus, Stages, Terminal, ClientInv, LockInv, RowInv, ActStages, Approved, vars, columns, patches, client
  <1>1. ASSUME NEW k \in Clients, NEW r \in Rows, ReadForEdit(k, r) PROVE RowInv'
    BY <1>1 DEF ReadForEdit, Load, LoadRow, Loaded, To
  <1>2. ASSUME NEW k \in Clients, NEW r \in Rows, ReadForApprove(k, r) PROVE RowInv'
    BY <1>2 DEF ReadForApprove, Load, LoadRow, Loaded, To
  <1>3. ASSUME NEW k \in Clients, NEW r \in Rows, ReadForCancel(k, r) PROVE RowInv'
    BY <1>3 DEF ReadForCancel, Load, LoadRow, Loaded, To
  <1>4. ASSUME NEW k \in Clients, NEW r \in Rows, PlanCreates(k, r) PROVE RowInv'
    BY <1>4 DEF PlanCreates, NewPlan, Touch, Finish, To
  <1>5. ASSUME NEW k \in Clients, NEW r \in Rows, ActReads(k, r) PROVE RowInv'
    BY <1>5 DEF ActReads, LoadRow, Loaded, To
  <1>6. ASSUME NEW k \in Clients, NEW r \in Rows, ApplyReadsRow(k, r) PROVE RowInv'
    BY <1>6 DEF ApplyReadsRow, LoadRow, Loaded, To
  <1>7. ASSUME NEW k \in Clients, NEW r \in Rows, ReadForRollback(k, r) PROVE RowInv'
    BY <1>7 DEF ReadForRollback, Load, LoadRow, Loaded, To
  <1>8. ASSUME NEW k \in Clients, Edit(k) PROVE RowInv'
    BY <1>8 DEF Edit, NewPlan, StatusTo, ClearApproval, Emit, Touch, Overwrites, Loaded, Finish, To
  <1>9. ASSUME NEW k \in Clients, Approve(k) PROVE RowInv'
    BY <1>9 DEF Approve, StatusTo, Emit, Touch, Overwrites, Loaded, Finish, To
  <1>10. ASSUME NEW k \in Clients, Cancel(k) PROVE RowInv'
    BY <1>10 DEF Cancel, StatusTo, Emit, Touch, Overwrites, Loaded, Finish, To
  <1>11. ASSUME NEW k \in Clients, PlanReads(k) PROVE RowInv'
    BY <1>11 DEF PlanReads, IsLatest, Open, LoadRow, Loaded, To
  <1>12. ASSUME NEW k \in Clients, PlanUpdates(k) PROVE RowInv'
    BY <1>12 DEF PlanUpdates, Replannable, NewPlan, StatusTo, ClearApproval, Emit, Touch, Overwrites, Loaded, Finish, To
  <1>13. ASSUME NEW k \in Clients, PlanFails(k) PROVE RowInv'
    BY <1>13 DEF PlanFails, Finish, To
  <1>14. ASSUME NEW k \in Clients, RequestFails(k) PROVE RowInv'
    BY <1>14 DEF RequestFails, Finish, To
  <1>15. ASSUME NEW k \in Clients, Settle(k) PROVE RowInv'
    BY <1>15 DEF Settle, StatusTo, Emit, Touch, Overwrites, Loaded, Finish, To
  <1>16. ASSUME NEW k \in Clients, Rollback(k) PROVE RowInv'
    BY <1>16 DEF Rollback, Exists, DraftTo, StatusTo, Emit, Touch, Overwrites, Loaded, Finish, To
  <1>17. ASSUME NEW k \in Clients, NEW restored \in BOOLEAN, Restore(k, restored) PROVE RowInv'
    BY <1>17 DEF Restore, To
  <1>18. ASSUME NEW k \in Clients, ActAwaits(k) PROVE RowInv'
    BY <1>18 DEF ActAwaits, Flush, Overwrites, Loaded, To
  <1>19. ASSUME NEW k \in Clients, ActFindsCached(k) PROVE RowInv'
    BY <1>19 DEF ActFindsCached, Flush, Overwrites, Loaded, To
  <1>20. ASSUME NEW k \in Clients, NEW recorded \in BOOLEAN, ActAnswers(k, recorded) PROVE RowInv'
    BY <1>20 DEF ActAnswers, Answered, Overwrites, Loaded, TouchEarlier, Touch, Release, To
  <1>21. ASSUME NEW k \in Clients, ActRaises(k) PROVE RowInv'
    BY <1>21 DEF ActRaises, ActEnds, StatusTo, Emit, TouchEarlier, Touch, Overwrites, Loaded, Release, Finish, To
  <1>22. ASSUME NEW k \in Clients, ActRepairs(k) PROVE RowInv'
    BY <1>22 DEF ActRepairs, To
  <1>23. ASSUME NEW k \in Clients, RepairRaises(k) PROVE RowInv'
    BY <1>23 DEF RepairRaises, To
  <1>24. ASSUME NEW k \in Clients, ActGivesUp(k) PROVE RowInv'
    BY <1>24 DEF ActGivesUp, ActEnds, StatusTo, Emit, TouchEarlier, Touch, Overwrites, Loaded, Release, Finish, To
  <1>25. ASSUME NEW k \in Clients, NEW d \in Drafts, NEW ok \in BOOLEAN, ActDrafts(k, d, ok) PROVE RowInv'
    BY <1>25 DEF ActDrafts, ActEnds, StatusTo, Emit, TouchEarlier, Touch, Overwrites, Loaded, Release, Finish, To
  <1>26. ASSUME NEW k \in Clients, ActRefused(k) PROVE RowInv'
    BY <1>26 DEF ActRefused, Release, Finish, To
  <1>27. ASSUME NEW k \in Clients, NEW d \in Drafts, ReadForValidate(k, d) PROVE RowInv'
    BY <1>27 DEF ReadForValidate, LoadDraft, Exists, DraftTo, To
  <1>28. ASSUME NEW k \in Clients, NEW d \in Drafts, ApplyConflicts(k, d) PROVE RowInv'
    BY <1>28 DEF ApplyConflicts, DraftTo, Exists
  <1>29. ASSUME NEW k \in Clients, NEW d \in Drafts, ReadForApply(k, d) PROVE RowInv'
    BY <1>29 DEF ReadForApply, LoadDraft, Exists, To
  <1>30. ASSUME NEW k \in Clients, NEW d \in Drafts, ReadForDelete(k, d) PROVE RowInv'
    BY <1>30 DEF ReadForDelete, LoadDraft, Exists, To
  <1>31. ASSUME NEW k \in Clients, NEW ok \in BOOLEAN, Validate(k, ok) PROVE RowInv'
    BY <1>31 DEF Validate, Exists, DraftTo, Finish, To
  <1>32. ASSUME NEW k \in Clients, Apply(k) PROVE RowInv'
    BY <1>32 DEF Apply, To
  <1>33. ASSUME NEW k \in Clients, ApplyFails(k) PROVE RowInv'
    BY <1>33 DEF ApplyFails, Exists, DraftTo, Finish, To
  <1>34. ASSUME NEW k \in Clients, ApplyReturns(k) PROVE RowInv'
    BY <1>34 DEF ApplyReturns, Finish, To
  <1>35. ASSUME NEW k \in Clients, Delete(k) PROVE RowInv'
    BY <1>35 DEF Delete, Exists, DraftTo, Finish, To
  <1>36. ASSUME NEW d \in Drafts, NEW hashes \in BOOLEAN, CreateDraft(d, hashes) PROVE RowInv'
    BY <1>36 DEF CreateDraft, DraftTo
  <1>37. ASSUME Restart PROVE RowInv'
    BY <1>37 DEF Restart
  <1>38. CASE UNCHANGED vars
    BY <1>38
  <1> HIDE DEF TypeOK, Columns, RowStatus, DraftStatus, Stages, Terminal, ClientInv, LockInv, RowInv, ActStages, Approved, vars, columns, patches, client
  <1> QED
    BY <1>1, <1>2, <1>3, <1>4, <1>5, <1>6, <1>7, <1>8, <1>9, <1>10, <1>11, <1>12, <1>13, <1>14, <1>15, <1>16, <1>17, <1>18, <1>19, <1>20, <1>21, <1>22, <1>23, <1>24, <1>25, <1>26, <1>27, <1>28, <1>29, <1>30, <1>31, <1>32, <1>33, <1>34, <1>35, <1>36, <1>37, <1>38 DEF Next, RowStep, ActStep, DraftStep

\* A patch counts as approved only with its validation.
LEMMA StepValidated == TypeOK /\ ClientInv /\ ApprovedWasValidated /\ [Next]_vars => ApprovedWasValidated'
  <1> SUFFICES ASSUME TypeOK, ClientInv, ApprovedWasValidated, [Next]_vars PROVE ApprovedWasValidated'
    OBVIOUS
  <1> USE ChangeSetsAssumption DEF TypeOK, Columns, RowStatus, DraftStatus, Stages, Terminal, ClientInv, ApprovedWasValidated, vars, columns, patches, client
  <1>1. ASSUME NEW k \in Clients, NEW r \in Rows, ReadForEdit(k, r) PROVE ApprovedWasValidated'
    BY <1>1 DEF ReadForEdit, Load, LoadRow, Loaded, To
  <1>2. ASSUME NEW k \in Clients, NEW r \in Rows, ReadForApprove(k, r) PROVE ApprovedWasValidated'
    BY <1>2 DEF ReadForApprove, Load, LoadRow, Loaded, To
  <1>3. ASSUME NEW k \in Clients, NEW r \in Rows, ReadForCancel(k, r) PROVE ApprovedWasValidated'
    BY <1>3 DEF ReadForCancel, Load, LoadRow, Loaded, To
  <1>4. ASSUME NEW k \in Clients, NEW r \in Rows, PlanCreates(k, r) PROVE ApprovedWasValidated'
    BY <1>4 DEF PlanCreates, NewPlan, Touch, Finish, To
  <1>5. ASSUME NEW k \in Clients, NEW r \in Rows, ActReads(k, r) PROVE ApprovedWasValidated'
    BY <1>5 DEF ActReads, LoadRow, Loaded, To
  <1>6. ASSUME NEW k \in Clients, NEW r \in Rows, ApplyReadsRow(k, r) PROVE ApprovedWasValidated'
    BY <1>6 DEF ApplyReadsRow, LoadRow, Loaded, To
  <1>7. ASSUME NEW k \in Clients, NEW r \in Rows, ReadForRollback(k, r) PROVE ApprovedWasValidated'
    BY <1>7 DEF ReadForRollback, Load, LoadRow, Loaded, To
  <1>8. ASSUME NEW k \in Clients, Edit(k) PROVE ApprovedWasValidated'
    BY <1>8 DEF Edit, NewPlan, StatusTo, ClearApproval, Emit, Touch, Overwrites, Loaded, Finish, To
  <1>9. ASSUME NEW k \in Clients, Approve(k) PROVE ApprovedWasValidated'
    BY <1>9 DEF Approve, StatusTo, Emit, Touch, Overwrites, Loaded, Finish, To
  <1>10. ASSUME NEW k \in Clients, Cancel(k) PROVE ApprovedWasValidated'
    BY <1>10 DEF Cancel, StatusTo, Emit, Touch, Overwrites, Loaded, Finish, To
  <1>11. ASSUME NEW k \in Clients, PlanReads(k) PROVE ApprovedWasValidated'
    BY <1>11 DEF PlanReads, IsLatest, Open, LoadRow, Loaded, To
  <1>12. ASSUME NEW k \in Clients, PlanUpdates(k) PROVE ApprovedWasValidated'
    BY <1>12 DEF PlanUpdates, Replannable, NewPlan, StatusTo, ClearApproval, Emit, Touch, Overwrites, Loaded, Finish, To
  <1>13. ASSUME NEW k \in Clients, PlanFails(k) PROVE ApprovedWasValidated'
    BY <1>13 DEF PlanFails, Finish, To
  <1>14. ASSUME NEW k \in Clients, RequestFails(k) PROVE ApprovedWasValidated'
    BY <1>14 DEF RequestFails, Finish, To
  <1>15. ASSUME NEW k \in Clients, Settle(k) PROVE ApprovedWasValidated'
    BY <1>15 DEF Settle, StatusTo, Emit, Touch, Overwrites, Loaded, Finish, To
  <1>16. ASSUME NEW k \in Clients, Rollback(k) PROVE ApprovedWasValidated'
    BY <1>16 DEF Rollback, Exists, DraftTo, StatusTo, Emit, Touch, Overwrites, Loaded, Finish, To
  <1>17. ASSUME NEW k \in Clients, NEW restored \in BOOLEAN, Restore(k, restored) PROVE ApprovedWasValidated'
    BY <1>17 DEF Restore, To
  <1>18. ASSUME NEW k \in Clients, ActAwaits(k) PROVE ApprovedWasValidated'
    BY <1>18 DEF ActAwaits, Flush, Overwrites, Loaded, To
  <1>19. ASSUME NEW k \in Clients, ActFindsCached(k) PROVE ApprovedWasValidated'
    BY <1>19 DEF ActFindsCached, Flush, Overwrites, Loaded, To
  <1>20. ASSUME NEW k \in Clients, NEW recorded \in BOOLEAN, ActAnswers(k, recorded) PROVE ApprovedWasValidated'
    BY <1>20 DEF ActAnswers, Answered, Overwrites, Loaded, TouchEarlier, Touch, Release, To
  <1>21. ASSUME NEW k \in Clients, ActRaises(k) PROVE ApprovedWasValidated'
    BY <1>21 DEF ActRaises, ActEnds, StatusTo, Emit, TouchEarlier, Touch, Overwrites, Loaded, Release, Finish, To
  <1>22. ASSUME NEW k \in Clients, ActRepairs(k) PROVE ApprovedWasValidated'
    BY <1>22 DEF ActRepairs, To
  <1>23. ASSUME NEW k \in Clients, RepairRaises(k) PROVE ApprovedWasValidated'
    BY <1>23 DEF RepairRaises, To
  <1>24. ASSUME NEW k \in Clients, ActGivesUp(k) PROVE ApprovedWasValidated'
    BY <1>24 DEF ActGivesUp, ActEnds, StatusTo, Emit, TouchEarlier, Touch, Overwrites, Loaded, Release, Finish, To
  <1>25. ASSUME NEW k \in Clients, NEW d \in Drafts, NEW ok \in BOOLEAN, ActDrafts(k, d, ok) PROVE ApprovedWasValidated'
    BY <1>25 DEF ActDrafts, ActEnds, StatusTo, Emit, TouchEarlier, Touch, Overwrites, Loaded, Release, Finish, To
  <1>26. ASSUME NEW k \in Clients, ActRefused(k) PROVE ApprovedWasValidated'
    BY <1>26 DEF ActRefused, Release, Finish, To
  <1>27. ASSUME NEW k \in Clients, NEW d \in Drafts, ReadForValidate(k, d) PROVE ApprovedWasValidated'
    BY <1>27 DEF ReadForValidate, LoadDraft, Exists, DraftTo, To
  <1>28. ASSUME NEW k \in Clients, NEW d \in Drafts, ApplyConflicts(k, d) PROVE ApprovedWasValidated'
    BY <1>28 DEF ApplyConflicts, DraftTo, Exists
  <1>29. ASSUME NEW k \in Clients, NEW d \in Drafts, ReadForApply(k, d) PROVE ApprovedWasValidated'
    BY <1>29 DEF ReadForApply, LoadDraft, Exists, To
  <1>30. ASSUME NEW k \in Clients, NEW d \in Drafts, ReadForDelete(k, d) PROVE ApprovedWasValidated'
    BY <1>30 DEF ReadForDelete, LoadDraft, Exists, To
  <1>31. ASSUME NEW k \in Clients, NEW ok \in BOOLEAN, Validate(k, ok) PROVE ApprovedWasValidated'
    BY <1>31 DEF Validate, Exists, DraftTo, Finish, To
  <1>32. ASSUME NEW k \in Clients, Apply(k) PROVE ApprovedWasValidated'
    BY <1>32 DEF Apply, To
  <1>33. ASSUME NEW k \in Clients, ApplyFails(k) PROVE ApprovedWasValidated'
    BY <1>33 DEF ApplyFails, Exists, DraftTo, Finish, To
  <1>34. ASSUME NEW k \in Clients, ApplyReturns(k) PROVE ApprovedWasValidated'
    BY <1>34 DEF ApplyReturns, Finish, To
  <1>35. ASSUME NEW k \in Clients, Delete(k) PROVE ApprovedWasValidated'
    BY <1>35 DEF Delete, Exists, DraftTo, Finish, To
  <1>36. ASSUME NEW d \in Drafts, NEW hashes \in BOOLEAN, CreateDraft(d, hashes) PROVE ApprovedWasValidated'
    BY <1>36 DEF CreateDraft, DraftTo
  <1>37. ASSUME Restart PROVE ApprovedWasValidated'
    BY <1>37 DEF Restart
  <1>38. CASE UNCHANGED vars
    BY <1>38
  <1> HIDE DEF TypeOK, Columns, RowStatus, DraftStatus, Stages, Terminal, ClientInv, ApprovedWasValidated, vars, columns, patches, client
  <1> QED
    BY <1>1, <1>2, <1>3, <1>4, <1>5, <1>6, <1>7, <1>8, <1>9, <1>10, <1>11, <1>12, <1>13, <1>14, <1>15, <1>16, <1>17, <1>18, <1>19, <1>20, <1>21, <1>22, <1>23, <1>24, <1>25, <1>26, <1>27, <1>28, <1>29, <1>30, <1>31, <1>32, <1>33, <1>34, <1>35, <1>36, <1>37, <1>38 DEF Next, RowStep, ActStep, DraftStep

StatusStep == \A r \in Rows \ overwritten' : status'[r] # status[r] =>
    /\ status[r] \in Terminal =>
          status[r] = "APPLIED" /\ status'[r] = "ROLLED_BACK"
    /\ status[r] = "ACTING" /\ Acting(r) = {} => status'[r] = "CANCELLED"

\* Whoever writes a status had loaded the row before it became terminal, or
\* runs its ACT.
LEMMA StepStatus == TypeOK /\ ClientInv /\ LockInv /\ [Next]_vars => StatusStep
  <1> SUFFICES ASSUME TypeOK, ClientInv, LockInv, [Next]_vars PROVE StatusStep
    OBVIOUS
  <1> USE ChangeSetsAssumption DEF Acting, TypeOK, Columns, RowStatus, DraftStatus, Stages, Terminal, ClientInv, LockInv, ActStages, StatusStep, vars, columns, patches, client
  <1>1. ASSUME NEW k \in Clients, NEW r \in Rows, ReadForEdit(k, r) PROVE StatusStep
    BY <1>1 DEF ReadForEdit, Load, LoadRow, Loaded, To
  <1>2. ASSUME NEW k \in Clients, NEW r \in Rows, ReadForApprove(k, r) PROVE StatusStep
    BY <1>2 DEF ReadForApprove, Load, LoadRow, Loaded, To
  <1>3. ASSUME NEW k \in Clients, NEW r \in Rows, ReadForCancel(k, r) PROVE StatusStep
    BY <1>3 DEF ReadForCancel, Load, LoadRow, Loaded, To
  <1>4. ASSUME NEW k \in Clients, NEW r \in Rows, PlanCreates(k, r) PROVE StatusStep
    BY <1>4 DEF PlanCreates, NewPlan, Touch, Finish, To
  <1>5. ASSUME NEW k \in Clients, NEW r \in Rows, ActReads(k, r) PROVE StatusStep
    BY <1>5 DEF ActReads, LoadRow, Loaded, To
  <1>6. ASSUME NEW k \in Clients, NEW r \in Rows, ApplyReadsRow(k, r) PROVE StatusStep
    BY <1>6 DEF ApplyReadsRow, LoadRow, Loaded, To
  <1>7. ASSUME NEW k \in Clients, NEW r \in Rows, ReadForRollback(k, r) PROVE StatusStep
    BY <1>7 DEF ReadForRollback, Load, LoadRow, Loaded, To
  <1>8. ASSUME NEW k \in Clients, Edit(k) PROVE StatusStep
    BY <1>8 DEF Edit, NewPlan, StatusTo, ClearApproval, Emit, Touch, Overwrites, Loaded, Finish, To
  <1>9. ASSUME NEW k \in Clients, Approve(k) PROVE StatusStep
    BY <1>9 DEF Approve, StatusTo, Emit, Touch, Overwrites, Loaded, Finish, To
  <1>10. ASSUME NEW k \in Clients, Cancel(k) PROVE StatusStep
    BY <1>10 DEF Cancel, StatusTo, Emit, Touch, Overwrites, Loaded, Finish, To
  <1>11. ASSUME NEW k \in Clients, PlanReads(k) PROVE StatusStep
    BY <1>11 DEF PlanReads, IsLatest, Open, LoadRow, Loaded, To
  <1>12. ASSUME NEW k \in Clients, PlanUpdates(k) PROVE StatusStep
    BY <1>12 DEF PlanUpdates, Replannable, NewPlan, StatusTo, ClearApproval, Emit, Touch, Overwrites, Loaded, Finish, To
  <1>13. ASSUME NEW k \in Clients, PlanFails(k) PROVE StatusStep
    BY <1>13 DEF PlanFails, Finish, To
  <1>14. ASSUME NEW k \in Clients, RequestFails(k) PROVE StatusStep
    BY <1>14 DEF RequestFails, Finish, To
  <1>15. ASSUME NEW k \in Clients, Settle(k) PROVE StatusStep
    BY <1>15 DEF Settle, StatusTo, Emit, Touch, Overwrites, Loaded, Finish, To
  <1>16. ASSUME NEW k \in Clients, Rollback(k) PROVE StatusStep
    BY <1>16 DEF Rollback, Exists, DraftTo, StatusTo, Emit, Touch, Overwrites, Loaded, Finish, To
  <1>17. ASSUME NEW k \in Clients, NEW restored \in BOOLEAN, Restore(k, restored) PROVE StatusStep
    BY <1>17 DEF Restore, To
  <1>18. ASSUME NEW k \in Clients, ActAwaits(k) PROVE StatusStep
    BY <1>18 DEF ActAwaits, Flush, Overwrites, Loaded, To
  <1>19. ASSUME NEW k \in Clients, ActFindsCached(k) PROVE StatusStep
    BY <1>19 DEF ActFindsCached, Flush, Overwrites, Loaded, To
  <1>20. ASSUME NEW k \in Clients, NEW recorded \in BOOLEAN, ActAnswers(k, recorded) PROVE StatusStep
    <2>1. CASE recorded /\ lock[row[k]] = k
      <3>1. overwritten' = overwritten /\ \A r \in Rows : r # row[k] => status'[r] = status[r]
        BY <1>20, <2>1 DEF ActAnswers, Answered
      <3>2. row[k] \in Rows => row[k] \in overwritten \/ status[row[k]] \notin Terminal \cup {"ACTING"}
        BY <1>20, <2>1
      <3> QED
        BY <3>1, <3>2
    <2>2. CASE ~(recorded /\ lock[row[k]] = k)
      <3>1. status' = status
        BY <1>20, <2>2 DEF ActAnswers, Answered
      <3> QED
        BY <3>1
    <2> QED
      BY <2>1, <2>2
  <1>21. ASSUME NEW k \in Clients, ActRaises(k) PROVE StatusStep
    BY <1>21 DEF ActRaises, ActEnds, StatusTo, Emit, TouchEarlier, Touch, Overwrites, Loaded, Release, Finish, To
  <1>22. ASSUME NEW k \in Clients, ActRepairs(k) PROVE StatusStep
    BY <1>22 DEF ActRepairs, To
  <1>23. ASSUME NEW k \in Clients, RepairRaises(k) PROVE StatusStep
    BY <1>23 DEF RepairRaises, To
  <1>24. ASSUME NEW k \in Clients, ActGivesUp(k) PROVE StatusStep
    BY <1>24 DEF ActGivesUp, ActEnds, StatusTo, Emit, TouchEarlier, Touch, Overwrites, Loaded, Release, Finish, To
  <1>25. ASSUME NEW k \in Clients, NEW d \in Drafts, NEW ok \in BOOLEAN, ActDrafts(k, d, ok) PROVE StatusStep
    BY <1>25 DEF ActDrafts, ActEnds, StatusTo, Emit, TouchEarlier, Touch, Overwrites, Loaded, Release, Finish, To
  <1>26. ASSUME NEW k \in Clients, ActRefused(k) PROVE StatusStep
    BY <1>26 DEF ActRefused, Release, Finish, To
  <1>27. ASSUME NEW k \in Clients, NEW d \in Drafts, ReadForValidate(k, d) PROVE StatusStep
    BY <1>27 DEF ReadForValidate, LoadDraft, Exists, DraftTo, To
  <1>28. ASSUME NEW k \in Clients, NEW d \in Drafts, ApplyConflicts(k, d) PROVE StatusStep
    BY <1>28 DEF ApplyConflicts, DraftTo, Exists
  <1>29. ASSUME NEW k \in Clients, NEW d \in Drafts, ReadForApply(k, d) PROVE StatusStep
    BY <1>29 DEF ReadForApply, LoadDraft, Exists, To
  <1>30. ASSUME NEW k \in Clients, NEW d \in Drafts, ReadForDelete(k, d) PROVE StatusStep
    BY <1>30 DEF ReadForDelete, LoadDraft, Exists, To
  <1>31. ASSUME NEW k \in Clients, NEW ok \in BOOLEAN, Validate(k, ok) PROVE StatusStep
    BY <1>31 DEF Validate, Exists, DraftTo, Finish, To
  <1>32. ASSUME NEW k \in Clients, Apply(k) PROVE StatusStep
    BY <1>32 DEF Apply, To
  <1>33. ASSUME NEW k \in Clients, ApplyFails(k) PROVE StatusStep
    BY <1>33 DEF ApplyFails, Exists, DraftTo, Finish, To
  <1>34. ASSUME NEW k \in Clients, ApplyReturns(k) PROVE StatusStep
    BY <1>34 DEF ApplyReturns, Finish, To
  <1>35. ASSUME NEW k \in Clients, Delete(k) PROVE StatusStep
    BY <1>35 DEF Delete, Exists, DraftTo, Finish, To
  <1>36. ASSUME NEW d \in Drafts, NEW hashes \in BOOLEAN, CreateDraft(d, hashes) PROVE StatusStep
    BY <1>36 DEF CreateDraft, DraftTo
  <1>37. ASSUME Restart PROVE StatusStep
    BY <1>37 DEF Restart
  <1>38. CASE UNCHANGED vars
    BY <1>38
  <1> HIDE DEF TypeOK, Columns, RowStatus, DraftStatus, Stages, Terminal, ClientInv, LockInv, ActStages, StatusStep, vars, columns, patches, client
  <1> QED
    BY <1>1, <1>2, <1>3, <1>4, <1>5, <1>6, <1>7, <1>8, <1>9, <1>10, <1>11, <1>12, <1>13, <1>14, <1>15, <1>16, <1>17, <1>18, <1>19, <1>20, <1>21, <1>22, <1>23, <1>24, <1>25, <1>26, <1>27, <1>28, <1>29, <1>30, <1>31, <1>32, <1>33, <1>34, <1>35, <1>36, <1>37, <1>38 DEF Next, RowStep, ActStep, DraftStep

-----------------------------------------------------------------------------
(* The event loop. *)

OnLoop == {"plan", "actFlush", "answered", "repaired", "unrepaired"}

\* The event loop is taken exactly by the request that is between two awaits.
LoopInv == \A k \in Clients : pc[k] \in OnLoop <=> loop = k

LEMMA StepLoop == TypeOK /\ ClientInv /\ LoopInv /\ [Next]_vars => LoopInv'
  <1> SUFFICES ASSUME TypeOK, ClientInv, LoopInv, [Next]_vars PROVE LoopInv'
    OBVIOUS
  <1> USE ChangeSetsAssumption DEF TypeOK, ClientInv, LoopInv, OnLoop, ActStages, vars, client
  <1>1. ASSUME NEW k \in Clients, NEW r \in Rows, ReadForEdit(k, r) PROVE LoopInv'
    BY <1>1 DEF ReadForEdit, Load, LoadRow, To
  <1>2. ASSUME NEW k \in Clients, NEW r \in Rows, ReadForApprove(k, r) PROVE LoopInv'
    BY <1>2 DEF ReadForApprove, Load, LoadRow, To
  <1>3. ASSUME NEW k \in Clients, NEW r \in Rows, ReadForCancel(k, r) PROVE LoopInv'
    BY <1>3 DEF ReadForCancel, Load, LoadRow, To
  <1>4. ASSUME NEW k \in Clients, NEW r \in Rows, PlanCreates(k, r) PROVE LoopInv'
    BY <1>4 DEF PlanCreates, Finish, To
  <1>5. ASSUME NEW k \in Clients, NEW r \in Rows, ActReads(k, r) PROVE LoopInv'
    BY <1>5 DEF ActReads, LoadRow, To
  <1>6. ASSUME NEW k \in Clients, NEW r \in Rows, ApplyReadsRow(k, r) PROVE LoopInv'
    BY <1>6 DEF ApplyReadsRow, LoadRow, To
  <1>7. ASSUME NEW k \in Clients, NEW r \in Rows, ReadForRollback(k, r) PROVE LoopInv'
    BY <1>7 DEF ReadForRollback, Load, LoadRow, To
  <1>8. ASSUME NEW k \in Clients, Edit(k) PROVE LoopInv'
    BY <1>8 DEF Edit, Finish, To
  <1>9. ASSUME NEW k \in Clients, Approve(k) PROVE LoopInv'
    BY <1>9 DEF Approve, Finish, To
  <1>10. ASSUME NEW k \in Clients, Cancel(k) PROVE LoopInv'
    BY <1>10 DEF Cancel, Finish, To
  <1>11. ASSUME NEW k \in Clients, PlanReads(k) PROVE LoopInv'
    BY <1>11 DEF PlanReads, LoadRow, To
  <1>12. ASSUME NEW k \in Clients, PlanUpdates(k) PROVE LoopInv'
    BY <1>12 DEF PlanUpdates, Finish, To
  <1>13. ASSUME NEW k \in Clients, PlanFails(k) PROVE LoopInv'
    BY <1>13 DEF PlanFails, Finish, To
  <1>14. ASSUME NEW k \in Clients, RequestFails(k) PROVE LoopInv'
    BY <1>14 DEF RequestFails, Finish, To
  <1>15. ASSUME NEW k \in Clients, Settle(k) PROVE LoopInv'
    BY <1>15 DEF Settle, Finish, To
  <1>16. ASSUME NEW k \in Clients, Rollback(k) PROVE LoopInv'
    BY <1>16 DEF Rollback, Finish, To
  <1>17. ASSUME NEW k \in Clients, NEW restored \in BOOLEAN, Restore(k, restored) PROVE LoopInv'
    BY <1>17 DEF Restore, To
  <1>18. ASSUME NEW k \in Clients, ActAwaits(k) PROVE LoopInv'
    BY <1>18 DEF ActAwaits, Flush, To
  <1>19. ASSUME NEW k \in Clients, ActFindsCached(k) PROVE LoopInv'
    BY <1>19 DEF ActFindsCached, Flush, To
  <1>20. ASSUME NEW k \in Clients, NEW recorded \in BOOLEAN, ActAnswers(k, recorded) PROVE LoopInv'
    BY <1>20 DEF ActAnswers, Answered, Release, To
  <1>21. ASSUME NEW k \in Clients, ActRaises(k) PROVE LoopInv'
    BY <1>21 DEF ActRaises, ActEnds, Release, Finish, To
  <1>22. ASSUME NEW k \in Clients, ActRepairs(k) PROVE LoopInv'
    BY <1>22 DEF ActRepairs, To
  <1>23. ASSUME NEW k \in Clients, RepairRaises(k) PROVE LoopInv'
    BY <1>23 DEF RepairRaises, To
  <1>24. ASSUME NEW k \in Clients, ActGivesUp(k) PROVE LoopInv'
    BY <1>24 DEF ActGivesUp, ActEnds, Release, Finish, To
  <1>25. ASSUME NEW k \in Clients, NEW d \in Drafts, NEW ok \in BOOLEAN, ActDrafts(k, d, ok) PROVE LoopInv'
    BY <1>25 DEF ActDrafts, ActEnds, Release, Finish, To
  <1>26. ASSUME NEW k \in Clients, ActRefused(k) PROVE LoopInv'
    BY <1>26 DEF ActRefused, Release, Finish, To
  <1>27. ASSUME NEW k \in Clients, NEW d \in Drafts, ReadForValidate(k, d) PROVE LoopInv'
    BY <1>27 DEF ReadForValidate, LoadDraft, To
  <1>28. ASSUME NEW k \in Clients, NEW d \in Drafts, ApplyConflicts(k, d) PROVE LoopInv'
    BY <1>28 DEF ApplyConflicts
  <1>29. ASSUME NEW k \in Clients, NEW d \in Drafts, ReadForApply(k, d) PROVE LoopInv'
    BY <1>29 DEF ReadForApply, LoadDraft, To
  <1>30. ASSUME NEW k \in Clients, NEW d \in Drafts, ReadForDelete(k, d) PROVE LoopInv'
    BY <1>30 DEF ReadForDelete, LoadDraft, To
  <1>31. ASSUME NEW k \in Clients, NEW ok \in BOOLEAN, Validate(k, ok) PROVE LoopInv'
    BY <1>31 DEF Validate, Finish, To
  <1>32. ASSUME NEW k \in Clients, Apply(k) PROVE LoopInv'
    BY <1>32 DEF Apply, To
  <1>33. ASSUME NEW k \in Clients, ApplyFails(k) PROVE LoopInv'
    BY <1>33 DEF ApplyFails, Finish, To
  <1>34. ASSUME NEW k \in Clients, ApplyReturns(k) PROVE LoopInv'
    BY <1>34 DEF ApplyReturns, Finish, To
  <1>35. ASSUME NEW k \in Clients, Delete(k) PROVE LoopInv'
    BY <1>35 DEF Delete, Finish, To
  <1>36. ASSUME NEW d \in Drafts, NEW hashes \in BOOLEAN, CreateDraft(d, hashes) PROVE LoopInv'
    BY <1>36 DEF CreateDraft
  <1>37. ASSUME Restart PROVE LoopInv'
    BY <1>37 DEF Restart
  <1>38. CASE UNCHANGED vars
    BY <1>38
  <1> HIDE DEF TypeOK, ClientInv, LoopInv, OnLoop, ActStages, vars, client
  <1> QED
    BY <1>1, <1>2, <1>3, <1>4, <1>5, <1>6, <1>7, <1>8, <1>9, <1>10, <1>11, <1>12, <1>13, <1>14, <1>15, <1>16, <1>17, <1>18, <1>19, <1>20, <1>21, <1>22, <1>23, <1>24, <1>25, <1>26, <1>27, <1>28, <1>29, <1>30, <1>31, <1>32, <1>33, <1>34, <1>35, <1>36, <1>37, <1>38 DEF Next, RowStep, ActStep, DraftStep


\* While a flush waits for the row lock of another ACT nobody else gets the
\* loop, so nobody releases that lock.
BlockedStep == \A k \in Clients : Blocked(k) =>
    /\ loop = k
    /\ Restart \/ (Blocked(k)' /\ loop' = k)

LEMMA StepBlocked == TypeOK /\ ClientInv /\ LockInv /\ LoopInv /\ [Next]_vars => BlockedStep
  <1> SUFFICES ASSUME TypeOK, ClientInv, LockInv, LoopInv, [Next]_vars,
                      NEW b \in Clients, Blocked(b)
               PROVE  loop = b /\ (Restart \/ (Blocked(b)' /\ loop' = b))
    BY DEF BlockedStep
  <1> DEFINE h == lock[row[b]]
  <1>a. row[b] \in Rows /\ h = lock[row[b]] /\ h \in Clients /\ h # b /\ loop = b /\ loop # Free /\ pc[b] = "actFlush"
    BY ChangeSetsAssumption DEF Blocked, TypeOK, ClientInv, LoopInv, OnLoop
  <1> HIDE DEF h
  <1>b. pc[h] \in {"acting", "repairing"} /\ row[h] = row[b]
    <2>1. row[h] = row[b] /\ pc[h] \in ActStages
      BY <1>a, ChangeSetsAssumption DEF LockInv
    <2>2. pc[h] \notin OnLoop
      BY <1>a DEF LoopInv
    <2> QED
      BY <2>1, <2>2 DEF OnLoop, ActStages
  <1>c. \A k \in Clients : pc[k] \in OnLoop => k = b
    BY <1>a DEF LoopInv
  <1> DEFINE Kept == loop' = loop /\ lock'[row[b]] = lock[row[b]] /\ pc'[b] = pc[b] /\ row'[b] = row[b]
  <1>d. ASSUME Kept PROVE Blocked(b)' /\ loop' = b
    BY <1>a, <1>d DEF Blocked
  <1> USE <1>a, <1>b, <1>c, ChangeSetsAssumption DEF TypeOK, OnLoop, ActStages, vars, client
  <1>1. ASSUME NEW k \in Clients, NEW r \in Rows, ReadForEdit(k, r) PROVE Kept
    BY <1>1 DEF ReadForEdit, Load, LoadRow, To
  <1>2. ASSUME NEW k \in Clients, NEW r \in Rows, ReadForApprove(k, r) PROVE Kept
    BY <1>2 DEF ReadForApprove, Load, LoadRow, To
  <1>3. ASSUME NEW k \in Clients, NEW r \in Rows, ReadForCancel(k, r) PROVE Kept
    BY <1>3 DEF ReadForCancel, Load, LoadRow, To
  <1>4. ASSUME NEW k \in Clients, NEW r \in Rows, PlanCreates(k, r) PROVE Kept
    BY <1>4 DEF PlanCreates, Finish, To
  <1>5. ASSUME NEW k \in Clients, NEW r \in Rows, ActReads(k, r) PROVE Kept
    BY <1>5 DEF ActReads, LoadRow, To
  <1>6. ASSUME NEW k \in Clients, NEW r \in Rows, ApplyReadsRow(k, r) PROVE Kept
    BY <1>6 DEF ApplyReadsRow, LoadRow, To
  <1>7. ASSUME NEW k \in Clients, NEW r \in Rows, ReadForRollback(k, r) PROVE Kept
    BY <1>7 DEF ReadForRollback, Load, LoadRow, To
  <1>8. ASSUME NEW k \in Clients, Edit(k) PROVE Kept
    BY <1>8 DEF Edit, Finish, To
  <1>9. ASSUME NEW k \in Clients, Approve(k) PROVE Kept
    BY <1>9 DEF Approve, Finish, To
  <1>10. ASSUME NEW k \in Clients, Cancel(k) PROVE Kept
    BY <1>10 DEF Cancel, Finish, To
  <1>11. ASSUME NEW k \in Clients, PlanReads(k) PROVE Kept
    BY <1>11 DEF PlanReads, LoadRow, To
  <1>12. ASSUME NEW k \in Clients, PlanUpdates(k) PROVE Kept
    BY <1>12 DEF PlanUpdates, Finish, To
  <1>13. ASSUME NEW k \in Clients, PlanFails(k) PROVE Kept
    BY <1>13 DEF PlanFails, Finish, To
  <1>14. ASSUME NEW k \in Clients, RequestFails(k) PROVE Kept
    BY <1>14 DEF RequestFails, Finish, To
  <1>15. ASSUME NEW k \in Clients, Settle(k) PROVE Kept
    BY <1>15 DEF Settle, Finish, To
  <1>16. ASSUME NEW k \in Clients, Rollback(k) PROVE Kept
    BY <1>16 DEF Rollback, Finish, To
  <1>17. ASSUME NEW k \in Clients, NEW restored \in BOOLEAN, Restore(k, restored) PROVE Kept
    BY <1>17 DEF Restore, To
  <1>18. ASSUME NEW k \in Clients, ActAwaits(k) PROVE Kept
    BY <1>18 DEF ActAwaits, Flush, To
  <1>19. ASSUME NEW k \in Clients, ActFindsCached(k) PROVE Kept
    BY <1>19 DEF ActFindsCached, Flush, To
  <1>20. ASSUME NEW k \in Clients, NEW recorded \in BOOLEAN, ActAnswers(k, recorded) PROVE Kept
    BY <1>20 DEF ActAnswers, Answered, Release, To
  <1>21. ASSUME NEW k \in Clients, ActRaises(k) PROVE Kept
    BY <1>21 DEF ActRaises, ActEnds, Release, Finish, To
  <1>22. ASSUME NEW k \in Clients, ActRepairs(k) PROVE Kept
    BY <1>22 DEF ActRepairs, To
  <1>23. ASSUME NEW k \in Clients, RepairRaises(k) PROVE Kept
    BY <1>23 DEF RepairRaises, To
  <1>24. ASSUME NEW k \in Clients, ActGivesUp(k) PROVE Kept
    BY <1>24 DEF ActGivesUp, ActEnds, Release, Finish, To
  <1>25. ASSUME NEW k \in Clients, NEW d \in Drafts, NEW ok \in BOOLEAN, ActDrafts(k, d, ok) PROVE Kept
    BY <1>25 DEF ActDrafts, ActEnds, Release, Finish, To
  <1>26. ASSUME NEW k \in Clients, ActRefused(k) PROVE Kept
    BY <1>26 DEF ActRefused, Release, Finish, To
  <1>27. ASSUME NEW k \in Clients, NEW d \in Drafts, ReadForValidate(k, d) PROVE Kept
    BY <1>27 DEF ReadForValidate, LoadDraft, To
  <1>28. ASSUME NEW k \in Clients, NEW d \in Drafts, ApplyConflicts(k, d) PROVE Kept
    BY <1>28 DEF ApplyConflicts
  <1>29. ASSUME NEW k \in Clients, NEW d \in Drafts, ReadForApply(k, d) PROVE Kept
    BY <1>29 DEF ReadForApply, LoadDraft, To
  <1>30. ASSUME NEW k \in Clients, NEW d \in Drafts, ReadForDelete(k, d) PROVE Kept
    BY <1>30 DEF ReadForDelete, LoadDraft, To
  <1>31. ASSUME NEW k \in Clients, NEW ok \in BOOLEAN, Validate(k, ok) PROVE Kept
    BY <1>31 DEF Validate, Finish, To
  <1>32. ASSUME NEW k \in Clients, Apply(k) PROVE Kept
    BY <1>32 DEF Apply, To
  <1>33. ASSUME NEW k \in Clients, ApplyFails(k) PROVE Kept
    BY <1>33 DEF ApplyFails, Finish, To
  <1>34. ASSUME NEW k \in Clients, ApplyReturns(k) PROVE Kept
    BY <1>34 DEF ApplyReturns, Finish, To
  <1>35. ASSUME NEW k \in Clients, Delete(k) PROVE Kept
    BY <1>35 DEF Delete, Finish, To
  <1>36. ASSUME NEW d \in Drafts, NEW hashes \in BOOLEAN, CreateDraft(d, hashes) PROVE Kept
    BY <1>36 DEF CreateDraft
  <1>38. CASE UNCHANGED vars
    <2>1. Kept
      BY <1>38
    <2> QED
      BY <1>d, <2>1
  <1> HIDE DEF Kept, TypeOK, OnLoop, ActStages, vars, client
  <1> QED
    BY <1>a, <1>d, <1>1, <1>2, <1>3, <1>4, <1>5, <1>6, <1>7, <1>8, <1>9, <1>10, <1>11, <1>12, <1>13, <1>14, <1>15, <1>16, <1>17, <1>18, <1>19, <1>20, <1>21, <1>22, <1>23, <1>24, <1>25, <1>26, <1>27, <1>28, <1>29, <1>30, <1>31, <1>32, <1>33, <1>34, <1>35, <1>36, <1>38 DEF Next, RowStep, ActStep, DraftStep


-----------------------------------------------------------------------------
LEMMA Inductive == Spec => []IndInv
  <1>1. IndInv /\ [Next]_vars => IndInv'
    BY StepType, StepClient, StepLock, StepRow, StepValidated DEF IndInv
  <1> QED
    BY InitInv, <1>1, PTL DEF Spec

\* Every variable keeps its type.
THEOREM TypeCorrect == Spec => []TypeOK
  <1>1. IndInv => TypeOK
    BY DEF IndInv
  <1> QED
    BY Inductive, <1>1, PTL

\* No draft and no change set counts as approved without its validation,
\* however validate, ACT, delete and replanning interleave.
THEOREM ApprovalsAreValidated == Spec => []ApprovedWasValidated
  <1>1. IndInv => ApprovedWasValidated
    BY DEF IndInv
  <1> QED
    BY Inductive, <1>1, PTL

\* The approval of a row belongs to its current plan, unless a request wrote
\* over a version it had not loaded.
THEOREM ApprovalsAreCurrent == Spec => []ApprovedPlanIsCurrent
  <1>1. IndInv => ApprovedPlanIsCurrent
    BY DEF IndInv, RowInv, Approved, ApprovedPlanIsCurrent
  <1> QED
    BY Inductive, <1>1, PTL

\* APPLIED is said of written files only, with the same exception.
THEOREM AppliedAreWritten == Spec => []AppliedWasWritten
  <1>1. IndInv => AppliedWasWritten
    BY DEF IndInv, RowInv, AppliedWasWritten
  <1> QED
    BY Inductive, <1>1, PTL

\* Terminal statuses are final but for a rollback, and an ACTING nobody works
\* on is left only by a cancel, with the same exception.
THEOREM StatusesAreKept == Spec => StatusesStay
  <1>1. IndInv /\ [Next]_vars => [StatusStep]_vars
    BY StepStatus DEF IndInv
  <1> QED
    BY Inductive, <1>1, PTL DEF Spec, StatusesStay, StatusStep

\* POST /act while another ACT of the row awaits the model takes the event
\* loop for good: whatever else happens, only a restart of the server frees
\* it, for any number of requests and rows.
THEOREM BlockedLoopStaysBlocked == Spec => BlockedLoopStays
  <1>1. Init => LoopInv
    BY ChangeSetsAssumption DEF Init, LoopInv, OnLoop
  <1>2. IndInv => TypeOK /\ ClientInv /\ LockInv
    BY DEF IndInv
  <1>3. TypeOK /\ ClientInv /\ LockInv /\ LoopInv /\ [Next]_vars => [BlockedStep]_vars
    BY StepBlocked
  <1>4. Spec => []LoopInv
    BY <1>1, <1>2, StepLoop, Inductive, PTL DEF Spec
  <1> QED
    BY <1>2, <1>3, <1>4, Inductive, PTL DEF Spec, BlockedLoopStays, BlockedStep
=============================================================================
