----------------------------- MODULE PlanReview -----------------------------
(* The plan page and the patch editor: change sets and drafts as the client caches
   them, the buttons it offers from the cache, the requests they send and what their
   answers write back.  The server handles a request in one step, or two where the page
   can see the middle (ChangeSets has the detail).
   Left out: the text of plans, the manual edit and the cancel, which no page calls.  *)
EXTENDS Naturals, QueryCache

CONSTANTS PlanSessions,  \* each has at most one change set, named by its session
          NoPlan, MaxClicks, MaxTurns
ASSUME PlanBounds == MaxClicks \in Nat /\ MaxTurns \in Nat

VARIABLES rows,        \* server: the change set of each session
          drafts,      \* server: the status of its patch draft
          viewed,      \* the active session
          place,       \* "chat" or "plan": what the center shows
          activePlan,  \* the store's activeChangeSetId
          remembered,  \* the change set the chat's effect last ran for
          planQuery, detailQuery, draftQuery,  \* by session, by id, and the patch
          reviewing,   \* the draft of the open patch tab, or NoPlan
          requests,    \* mutations sent and not yet answered
          behind,      \* history: a row changed with no refetch due
          clicks, turns
serverPlanVars == <<rows, drafts>>
cacheVars == <<planQuery, detailQuery, draftQuery>>
viewVars == <<viewed, place, activePlan, remembered, reviewing>>
planVars == <<serverPlanVars, cacheVars, viewVars, requests, behind, clicks, turns>>

Terminal == {"APPLIED", "ROLLED_BACK"}
Row(status, patch, version) == [status |-> status, patch |-> patch, version |-> version]
NoRow == Row("none", FALSE, 0)
OpenRow(row) == row.status \notin Terminal \cup {"none"}
InProgress == {"REVIEW", "APPLYING"}

\* A page opened on a session in any stage of its change set; others start without one.
\* (A plan turn after the set was applied makes another one: left out.)
Stages == {<<NoRow, "none">>, <<Row("PLAN_READY", FALSE, 1), "none">>,
           <<Row("PATCH_REJECTED", TRUE, 1), "REJECTED">>,
           <<Row("PATCH_APPROVED", TRUE, 1), "REVIEW">>,
           <<Row("PATCH_APPROVED", TRUE, 1), "APPROVED">>,
           <<Row("APPLIED", TRUE, 1), "APPROVED">>}

PlanInit ==
  /\ viewed \in PlanSessions /\ place = "chat"
  /\ \E stage \in Stages :
       /\ rows = [s \in PlanSessions |-> IF s = viewed THEN stage[1] ELSE NoRow]
       /\ drafts = [s \in PlanSessions |-> IF s = viewed THEN stage[2] ELSE "none"]
  /\ activePlan = NoPlan /\ remembered = NoPlan /\ reviewing = NoPlan
  /\ planQuery = [s \in PlanSessions |-> EmptyQuery]
  /\ detailQuery = planQuery /\ draftQuery = planQuery
  /\ requests = {} /\ behind = FALSE /\ clicks = 0 /\ turns = 0

-----------------------------------------------------------------------------
(* What the page shows *)

BySession == planQuery[viewed].data
\* useActivePlanChangeSet: the session's open change set, else the one last remembered.
ShownPlan ==
  IF BySession \notin {NoData, NoRow} THEN BySession
  ELSE IF activePlan = NoPlan THEN NoData ELSE detailQuery[activePlan].data
ShownId == IF BySession \notin {NoData, NoRow} THEN viewed ELSE activePlan
PlanVisible == place = "plan" /\ BySession # NoData /\ ShownPlan # NoData

Busy == \E q \in requests : q.by = "page"
PlanButtons(plan) ==
  {b \in {"approve", "revise", "act", "rollback"} :
     CASE b = "approve"  -> plan.status = "PLAN_READY"
       [] b = "revise"   -> plan.status \in {"PLAN_READY", "PLAN_APPROVED"}
       [] b = "act"      -> \/ plan.status = "PLAN_APPROVED"
                            \/ plan.status = "PATCH_REJECTED" /\ ~plan.patch
       [] b = "rollback" -> plan.status = "APPLIED"}

\* The patch editor: a button is disabled while its own request is under way, Validate
\* also while Apply is.
EditorPending(b) == \E q \in requests : q.by = "editor" /\ q.kind = b
EditorButtons(draft) ==
  {b \in {"validate", "apply", "delete"} :
     /\ ~EditorPending(b)
     /\ CASE b = "validate" -> draft \in {"DRAFT", "REJECTED", "FAILED", "CONFLICTED"}
                               /\ ~EditorPending("apply")
          [] b = "apply"    -> draft = "APPROVED"
          [] b = "delete"   -> draft \notin {"APPLIED", "APPLYING", "REVIEW", "none"}}

-----------------------------------------------------------------------------
(* The user *)

Click == clicks < MaxClicks /\ clicks' = clicks + 1 /\ UNCHANGED <<behind, turns>>
Send(kind, s, by) ==
  requests' = requests \cup {[n |-> clicks', kind |-> kind, plan |-> s, by |-> by,
                              phase |-> "sent", answer |-> NoRow]}

PressPlanButton(b) ==
  /\ PlanVisible /\ ~Busy /\ b \in PlanButtons(ShownPlan)
  /\ Click /\ Send(b, ShownId, "page")
  /\ UNCHANGED <<serverPlanVars, cacheVars, viewVars>>

\* Leaving the plan page forgets which of its requests are under way.
ShowChat ==
  /\ place = "plan" /\ place' = "chat" /\ Click
  /\ remembered' = NoPlan
  /\ requests' = {[q EXCEPT !.by = IF @ = "page" THEN "gone" ELSE @] : q \in requests}
  /\ UNCHANGED <<serverPlanVars, cacheVars, viewed, activePlan, reviewing>>
ShowPlanPage ==
  /\ place = "chat" /\ place' = "plan"
  /\ UNCHANGED <<serverPlanVars, cacheVars, viewed, activePlan, remembered, reviewing,
                 requests, behind, clicks, turns>>
ViewSession(s) ==
  /\ s # viewed /\ viewed' = s /\ Click
  /\ UNCHANGED <<serverPlanVars, cacheVars, place, activePlan, remembered, reviewing,
                 requests>>

OpenPatch ==
  /\ PlanVisible /\ ShownPlan.patch /\ ShownPlan.status = "PATCH_APPROVED"
  /\ reviewing = NoPlan /\ reviewing' = ShownId
  /\ UNCHANGED <<serverPlanVars, cacheVars, viewed, place, activePlan, remembered,
                 requests, behind, clicks, turns>>
PressEditorButton(b) ==
  /\ reviewing # NoPlan /\ draftQuery[reviewing].data \notin {NoData, "none"}
  /\ b \in EditorButtons(draftQuery[reviewing].data)
  /\ Click /\ Send(b, reviewing, "editor")
  /\ UNCHANGED <<serverPlanVars, cacheVars, viewVars>>

\* The effect of the chat that remembers the change set of its session.
RememberPlan ==
  /\ place = "chat" /\ BySession \notin {NoData, NoRow} /\ remembered # viewed
  /\ activePlan' = viewed /\ remembered' = viewed
  /\ UNCHANGED <<serverPlanVars, cacheVars, viewed, place, reviewing, requests, behind,
                 clicks, turns>>

-----------------------------------------------------------------------------
(* The server *)

Answer(q, phase, row) == requests' = (requests \ {q}) \cup {[q EXCEPT !.phase = phase, !.answer = row]}
SetRow(s, row) == rows' = [rows EXCEPT ![s] = row]
\* A failure is answered with no refetch, whatever it left in the row.
Refuse(q, row) ==
  /\ SetRow(q.plan, row) /\ Answer(q, "failed", row)
  /\ behind' = (behind \/ row # rows[q.plan])
  /\ UNCHANGED drafts
Accept(q, row) == SetRow(q.plan, row) /\ Answer(q, "ok", row) /\ UNCHANGED behind

Approves(q, row) ==
  /\ q.kind = "approve"
  /\ IF row.status = "PLAN_READY"
     THEN Accept(q, [row EXCEPT !.status = "PLAN_APPROVED"]) /\ UNCHANGED drafts
     ELSE Refuse(q, row)
Revises(q, row) ==
  /\ q.kind = "revise"
  /\ \/ /\ row.status \in {"PLAN_READY", "PLAN_APPROVED", "PATCH_REJECTED"}
        /\ Accept(q, Row("PLAN_READY", row.patch /\ row.status # "PATCH_REJECTED",
                         row.version + 1))
        /\ UNCHANGED drafts
     \/ Refuse(q, row)
Acts(q, row) ==
  /\ q.kind = "act"
  /\ IF row.status = "PLAN_APPROVED" \/ (row.status = "PATCH_REJECTED" /\ ~row.patch)
     THEN /\ SetRow(q.plan, [row EXCEPT !.status = "ACTING"])
          /\ Answer(q, "acting", row)
          /\ UNCHANGED <<drafts, behind>>
     ELSE Refuse(q, row)
EndsAct(q, row) ==
  /\ q.phase = "acting"
  /\ \/ \E ok \in BOOLEAN :
          /\ Accept(q, [row EXCEPT !.status = IF ok THEN "PATCH_APPROVED" ELSE "PATCH_REJECTED",
                                   !.patch = TRUE])
          /\ drafts' = [drafts EXCEPT ![q.plan] = IF ok THEN "APPROVED" ELSE "REJECTED"]
     \/ /\ SetRow(q.plan, [row EXCEPT !.status = "PLAN_APPROVED"])
        /\ Answer(q, "failed", row)
        /\ behind' = TRUE
        /\ UNCHANGED drafts
RollsBack(q, row) ==
  /\ q.kind = "rollback"
  /\ IF row.status = "APPLIED" /\ row.patch
     THEN Accept(q, [row EXCEPT !.status = "ROLLED_BACK"]) /\ UNCHANGED drafts
     ELSE Refuse(q, row)

\* Draft requests: the row is not fetched again, so a change to it goes unseen.
DraftTo(q, status, row) ==
  /\ drafts' = [drafts EXCEPT ![q.plan] = status]
  /\ SetRow(q.plan, row) /\ behind' = (behind \/ row # rows[q.plan])
Validates(q, row) ==
  /\ q.kind = "validate"
  /\ DraftTo(q, IF drafts[q.plan] = "none" THEN "none" ELSE "REVIEW", row)
  /\ Answer(q, "ok", row)
Applies(q, row) ==
  /\ q.kind = "apply"
  /\ \/ \E status \in {"CONFLICTED", "FAILED"} :
          DraftTo(q, status, row) /\ Answer(q, "failed", row)
     \/ /\ DraftTo(q, drafts[q.plan],
                   IF row.status = "PATCH_APPROVED" THEN [row EXCEPT !.status = "APPLIED"] ELSE row)
        /\ Answer(q, "ok", row)
Deletes(q, row) ==
  /\ q.kind = "delete"
  /\ DraftTo(q, "none", [row EXCEPT !.patch = FALSE]) /\ Answer(q, "ok", row)

Handle(q) ==
  /\ LET row == rows[q.plan] IN
       \/ /\ q.phase = "sent"
          /\ \/ Approves(q, row) \/ Revises(q, row) \/ Acts(q, row) \/ RollsBack(q, row)
             \/ drafts[q.plan] # "none" /\ (Validates(q, row) \/ Applies(q, row) \/ Deletes(q, row))
             \/ /\ q.kind \in {"validate", "apply", "delete"} /\ drafts[q.plan] = "none"
                /\ Refuse(q, row)
       \/ EndsAct(q, row)
  /\ UNCHANGED <<cacheVars, viewVars, clicks, turns>>

\* A validation under way, of this page or of another, comes to its end.
SettleDraft(s, ok) ==
  /\ drafts[s] = "REVIEW"
  /\ drafts' = [drafts EXCEPT ![s] = IF ok THEN "APPROVED" ELSE "REJECTED"]
  /\ UNCHANGED <<rows, cacheVars, viewVars, requests, behind, clicks, turns>>

-----------------------------------------------------------------------------
(* Answers *)

\* Mutant: the session's change set is not fetched again.
InvalidateNothing(s) == UNCHANGED <<planQuery, behind>>

\* The change set of session s is fetched again; an older first answer is taken for it.
InvalidatePlan(s) ==
  /\ planQuery' = [planQuery EXCEPT ![s] = Invalidated(@, s = viewed)]
  /\ behind' = (behind \/ planQuery'[s].flight # NoData)

\* Approve, revise, act and roll back answer with the row.
PlanMutationSettles(q) ==
  /\ detailQuery' = [detailQuery EXCEPT ![q.plan] = Written(@, q.answer)]
  /\ InvalidatePlan(q.plan)
  /\ reviewing' = IF q.kind = "act" /\ q.answer.patch THEN q.plan ELSE reviewing
  /\ UNCHANGED draftQuery

\* Validate, apply and delete fetch the draft again; delete closes its tab.
DraftMutationSettles(q) ==
  /\ draftQuery' = [draftQuery EXCEPT ![q.plan] = Invalidated(@, reviewing = q.plan)]
  /\ reviewing' = IF q.kind = "delete" THEN NoPlan ELSE reviewing
  /\ UNCHANGED <<planQuery, detailQuery, behind>>

MutationSettles(q) ==
  /\ q.phase \in {"ok", "failed"} /\ requests' = requests \ {q}
  /\ CASE q.phase = "failed" -> UNCHANGED <<cacheVars, behind, reviewing>>
       [] q.phase = "ok" /\ q.by = "editor" -> DraftMutationSettles(q)
       [] q.phase = "ok" /\ q.by # "editor" -> PlanMutationSettles(q)
  /\ UNCHANGED <<serverPlanVars, viewed, place, activePlan, remembered, clicks, turns>>

\* A PLAN turn of the chat saves a plan, and plan_ready names it.
PlanTurn ==
  /\ turns < MaxTurns /\ turns' = turns + 1 /\ place = "chat"
  /\ IF OpenRow(rows[viewed])
     THEN /\ rows[viewed].status \in {"PLAN_READY", "PLAN_APPROVED", "PATCH_REJECTED"}
          /\ SetRow(viewed, Row("PLAN_READY",
                                rows[viewed].patch /\ rows[viewed].status # "PATCH_REJECTED",
                                rows[viewed].version + 1))
     ELSE /\ rows[viewed] = NoRow
          /\ SetRow(viewed, Row("PLAN_READY", FALSE, 1))
  /\ activePlan' = viewed
  /\ InvalidatePlan(viewed)
  /\ UNCHANGED <<drafts, detailQuery, draftQuery, viewed, place, remembered, reviewing,
                 requests, clicks>>

AskPlan ==
  /\ NeedsFetch(planQuery[viewed])
  /\ planQuery' = [planQuery EXCEPT ![viewed] =
                     Fetched(@, IF OpenRow(rows[viewed]) THEN rows[viewed] ELSE NoRow)]
  /\ UNCHANGED <<serverPlanVars, detailQuery, draftQuery, viewVars, requests, behind,
                 clicks, turns>>
AskDetail ==
  /\ place = "plan" /\ activePlan # NoPlan /\ NeedsFetch(detailQuery[activePlan])
  /\ detailQuery' = [detailQuery EXCEPT ![activePlan] = Fetched(@, rows[activePlan])]
  /\ UNCHANGED <<serverPlanVars, planQuery, draftQuery, viewVars, requests, behind,
                 clicks, turns>>

\* Mutant: the poll stops at the backend's own in-progress status.
AskDraftLegacy ==
  /\ reviewing # NoPlan
  /\ \/ NeedsFetch(draftQuery[reviewing])
     \/ draftQuery[reviewing].data = "APPLYING" /\ ~HasAnswer(draftQuery[reviewing])
  /\ draftQuery' = [draftQuery EXCEPT ![reviewing] = Fetched(@, drafts[reviewing])]
  /\ UNCHANGED <<serverPlanVars, planQuery, detailQuery, viewVars, requests, behind,
                 clicks, turns>>

\* The shown draft is asked for when needed, and every two seconds while in progress.
AskDraft ==
  /\ reviewing # NoPlan
  /\ \/ NeedsFetch(draftQuery[reviewing])
     \/ draftQuery[reviewing].data \in InProgress /\ ~HasAnswer(draftQuery[reviewing])
  /\ draftQuery' = [draftQuery EXCEPT ![reviewing] = Fetched(@, drafts[reviewing])]
  /\ UNCHANGED <<serverPlanVars, planQuery, detailQuery, viewVars, requests, behind,
                 clicks, turns>>

PlanAnswer(s) ==
  /\ \/ /\ HasAnswer(planQuery[s]) /\ planQuery' = [planQuery EXCEPT ![s] = Answered(@)]
        /\ UNCHANGED <<detailQuery, draftQuery>>
     \/ /\ HasAnswer(detailQuery[s]) /\ detailQuery' = [detailQuery EXCEPT ![s] = Answered(@)]
        /\ UNCHANGED <<planQuery, draftQuery>>
     \/ /\ HasAnswer(draftQuery[s]) /\ draftQuery' = [draftQuery EXCEPT ![s] = Answered(@)]
        /\ UNCHANGED <<planQuery, detailQuery>>
  /\ UNCHANGED <<serverPlanVars, viewVars, requests, behind, clicks, turns>>

PlanNext ==
  \/ \E b \in {"approve", "revise", "act", "rollback"} : PressPlanButton(b)
  \/ \E b \in {"validate", "apply", "delete"} : PressEditorButton(b)
  \/ ShowChat \/ ShowPlanPage \/ OpenPatch \/ RememberPlan \/ PlanTurn
  \/ \E q \in requests : Handle(q) \/ MutationSettles(q)
  \/ \E s \in PlanSessions : ViewSession(s) \/ PlanAnswer(s)
  \/ \E s \in PlanSessions, ok \in BOOLEAN : SettleDraft(s, ok)
  \/ AskPlan \/ AskDetail \/ AskDraft

\* The browser fetches and polls, the server answers.
PlanFairness ==
  /\ WF_planVars(AskPlan) /\ WF_planVars(AskDraft)
  /\ WF_planVars(\E q \in requests : Handle(q) \/ MutationSettles(q))
  /\ \A s \in PlanSessions : WF_planVars(PlanAnswer(s))
  /\ \A s \in PlanSessions : WF_planVars(\E ok \in BOOLEAN : SettleDraft(s, ok))

-----------------------------------------------------------------------------
PlanTypeOK ==
  /\ viewed \in PlanSessions /\ place \in {"chat", "plan"}
  /\ {activePlan, remembered, reviewing} \subseteq PlanSessions \cup {NoPlan}
  /\ behind \in BOOLEAN /\ clicks \in 0 .. MaxClicks /\ turns \in 0 .. MaxTurns
  /\ \A q \in requests : q.plan \in PlanSessions /\ q.by \in {"page", "gone", "editor"}
                         /\ q.phase \in {"sent", "acting", "ok", "failed"}

\* Whatever requests and fetches overlap, the page comes to show the open change set of
\* its session as the server has it, unless its row changed with no refetch due.
PlanCatchesUp ==
  <>[](~behind /\ OpenRow(rows[viewed]) => BySession = rows[viewed])

\* What makes it so, whatever is fair: as soon as no request on the change set of a session
\* waits to take effect, a copy that asks for nothing is the open change set.
PlansAtRest ==
  ~behind => \A s \in PlanSessions :
    /\ \A q \in requests : q.plan = s /\ q.by # "editor" => q.phase \notin {"acting", "ok"}
    /\ CacheRests(planQuery[s]) /\ OpenRow(rows[s])
    => planQuery[s].data = rows[s]

\* A draft the editor shows in progress does not stay so once the server is done.
DraftSettles ==
  [](reviewing # NoPlan /\ draftQuery[reviewing].data \in InProgress
       => <>(reviewing = NoPlan \/ draftQuery[reviewing].data \notin InProgress))
=============================================================================
