------------------------------- MODULE MCParts -------------------------------
(* The parts of the browser's code and the guards of the backend, checked side by side:
   they share no state, so a behaviour is one of a single part, chosen at the start,
   while the others stay at rest.                                                     *)
EXTENDS StudioUrl, ChatSession, PlanReview, SessionScope, SessionList, ClientSession,
        JobNotices, PanelFetch, Guards

CONSTANTS r1, r2, s1, s2, f1, l1, q1, w2
VARIABLE part

MCLinks == {EmptyAddress, Address(r1, None, NoTab, None, None),
            Address(r2, None, NoTab, None, "search"),
            Address(r2, None, <<"patch", q1>>, None, None),
            Address(r1, s1, <<"file", f1>>, l1, None)}

partsVars == <<part, storeVars, syncVars, chatVars, planVars, scopeVars, listVars,
               sessionVars, jobVars, patchVars, panelVars, breakerVars, inviteVars, limitVars>>

\* The filter of the model is SelectSeq.
ASSUME FilteredIsSelectSeq ==
  \A n \in 0 .. 4, x \in 1 .. 3 : \A s \in [1 .. n -> 1 .. 3] :
    Filtered(s, {i \in DOMAIN s : s[i] # x}) = SelectSeq(s, LAMBDA t : t # x)

\* The change-set page, also at rest, shows a session.
ASSUME PlanSessionsAssumption == PlanSessions # {}

-----------------------------------------------------------------------------
(* At rest a part has nothing to fetch, and no timer or effect pending. *)

AtRest(data) == [EmptyQuery EXCEPT !.data = data]
UrlRests ==
  /\ url = EmptyAddress /\ nav = None /\ due = {} /\ timer = None /\ picks = 0
PlanRests ==
  /\ viewed = CHOOSE s \in PlanSessions : TRUE
  /\ place = "chat" /\ rows = [s \in PlanSessions |-> NoRow]
  /\ drafts = [s \in PlanSessions |-> "none"]
  /\ activePlan = NoPlan /\ remembered = NoPlan /\ reviewing = NoPlan
  /\ planQuery = [s \in PlanSessions |-> AtRest(NoRow)]
  /\ detailQuery = planQuery /\ draftQuery = planQuery
  /\ requests = {} /\ behind = FALSE /\ clicks = 0 /\ turns = 0
ScopeRests ==
  /\ meta = NoMeta /\ scopeQuery = AtRest(NoMeta) /\ writes = {} /\ turn = "none"
  /\ scopeClicks = 0 /\ scopeTurns = 0 /\ unseen = FALSE
ListRests ==
  /\ sessionRows = [s \in ListSessions |-> Absent]
  /\ lists = [k \in ListKinds |-> AtRest([s \in {} |-> Absent])]
  /\ singles = [s \in ListSessions |-> EmptyQuery]
  /\ chosen = NoSession /\ sidebarShown = TRUE /\ pendingDelete = NoSession
  /\ rowRequests = {} /\ listClicks = 0 /\ missed = FALSE
JobsRest ==
  /\ jobStatus = NoneSeen /\ startClick = NoJob
  /\ jobsQuery = AtRest(NoneSeen) /\ reposQuery = AtRest(NoneSeen)
  /\ progress = [j \in Jobs |-> EmptyQuery]
  /\ seenStatus = NoneSeen /\ lastStatus = NoneSeen
  /\ bell = <<>> /\ dismissed = <<>> /\ reloads = 0 /\ noticed = {} /\ raced = FALSE

\* Bounds: the list starts with one session, and a second one may be begun; alone, the
\* store has one session to choose.
OneSession == Cardinality({s \in ListSessions : ~sessionRows[s].deleted}) = 1 /\ ~sessionRows[s1].deleted
OneStudio == studio.session # s2 /\ studio.repo # r2
\* Of two texts or sessions that differ in name only the first comes first, and the second
\* move is the selection of another session.
FirstTextFirst == sends = 0 /\ sends' = 1 => messages'[1].text = CHOOSE t \in Texts : TRUE
FirstSessionFirst == owner'[s2] # NoChat => owner'[s1] # NoChat
SecondMoveSelects == moves = 1 /\ moves' = 2 => current' \notin {current, NoChat}
\* Both windows show pages and call the server, the first one has the forms in use.
FormsInFirst == login[w2] = NoLogin

\* Of two sessions or repositories that differ in name only, the first is the current one.
PartsInit ==
  /\ part \in {"store", "url", "chat", "plan", "scope", "list", "session", "jobs", "pane",
               "tree", "search", "compare", "patches", "breaker", "invites", "limit"}
  /\ IF part = "url" THEN UrlInit
     ELSE StoreInit /\ UrlRests
  /\ ChatInit /\ repo = CHOOSE r \in ChatRepos : TRUE
  /\ IF part = "plan" THEN PlanInit /\ viewed = CHOOSE s \in PlanSessions : TRUE
     ELSE PlanRests
  /\ IF part = "scope" THEN ScopeInit ELSE ScopeRests
  /\ IF part = "list" THEN ListInit /\ OneSession ELSE ListRests
  /\ IF part = "jobs" THEN JobsInit ELSE JobsRest
  /\ ClientSessionInit
  /\ PatchNoticesInit
  /\ PanelInit /\ BreakerInit /\ InvitesInit /\ LimitInit

KeepStore == UNCHANGED <<storeVars, syncVars>>
KeepBrowser == UNCHANGED <<chatVars, planVars, scopeVars, listVars, sessionVars, jobVars, patchVars>>
KeepGuards == UNCHANGED <<breakerVars, inviteVars, limitVars>>
Parts1 ==
  /\ \/ part = "store" /\ StoreNext /\ OneStudio' /\ UNCHANGED syncVars
     \/ /\ part = "url" /\ UrlNext
  /\ KeepBrowser /\ KeepGuards /\ UNCHANGED panelVars
Parts2 ==
  /\ \/ /\ part = "chat" /\ ChatNext /\ FirstTextFirst /\ FirstSessionFirst /\ SecondMoveSelects
        /\ UNCHANGED <<planVars, scopeVars, listVars, sessionVars, jobVars>>
     \/ /\ part = "plan" /\ PlanNext
        /\ UNCHANGED <<chatVars, scopeVars, listVars, sessionVars, jobVars>>
     \/ /\ part = "scope" /\ ScopeNext
        /\ UNCHANGED <<chatVars, planVars, listVars, sessionVars, jobVars>>
     \/ /\ part = "list" /\ ListNext
        /\ UNCHANGED <<chatVars, planVars, scopeVars, sessionVars, jobVars>>
     \/ /\ part = "session" /\ ClientSessionNext /\ FormsInFirst'
        /\ UNCHANGED <<chatVars, planVars, scopeVars, listVars, jobVars>>
     \/ /\ part = "jobs" /\ JobsNext
        /\ UNCHANGED <<chatVars, planVars, scopeVars, listVars, sessionVars>>
  /\ KeepStore /\ UNCHANGED patchVars /\ KeepGuards /\ UNCHANGED panelVars
Parts3 ==
  /\ \/ part = "pane" /\ PaneNext /\ UNCHANGED compareVars
     \/ part = "tree" /\ TreeNext /\ UNCHANGED compareVars
     \/ part = "search" /\ SearchNext /\ UNCHANGED compareVars
     \/ part = "compare" /\ CompareNext /\ UNCHANGED <<paneVars, treeVars, searchVars>>
  /\ KeepStore /\ KeepBrowser /\ KeepGuards
Parts4 ==
  /\ \/ part = "breaker" /\ BreakerNext /\ UNCHANGED <<inviteVars, limitVars>>
     \/ part = "invites" /\ InvitesNext /\ UNCHANGED <<breakerVars, limitVars>>
     \/ part = "limit" /\ LimitNext /\ UNCHANGED <<breakerVars, inviteVars>>
  /\ KeepStore /\ KeepBrowser /\ UNCHANGED panelVars
Parts5 ==
  /\ part = "patches" /\ PatchNoticesNext
  /\ UNCHANGED <<chatVars, planVars, scopeVars, listVars, sessionVars, panelVars>>
  /\ KeepStore /\ KeepGuards
PartsNext == (Parts1 \/ Parts2 \/ Parts3 \/ Parts4 \/ Parts5) /\ UNCHANGED part

\* Calls keep coming to the breaker, and each ends.
BreakerFairness ==
  /\ WF_breakerVars(part = "breaker" /\ RecoveryElapses)
  /\ \A c \in CallSlots :
       /\ WF_breakerVars(part = "breaker" /\ Admit(c))
       /\ WF_breakerVars(part = "breaker" /\ (RecordFailure(c) \/ RecordSuccess(c)))

\* In a part at rest no fair step is enabled.
PartsSpec ==
  /\ PartsInit /\ [][PartsNext]_partsVars
  /\ UrlFairness /\ ChatFairness /\ PlanFairness /\ ScopeFairness /\ ListFairness
  /\ JobsFairness /\ BreakerFairness

-----------------------------------------------------------------------------
\* Every variable of every part keeps its type.
PartsTypeOK ==
  /\ StoreTypeOK /\ ChatTypeOK /\ PlanTypeOK /\ ScopeTypeOK /\ ListTypeOK
  /\ SessionTypeOK /\ NoticesTypeOK /\ PanelTypeOK /\ GuardsTypeOK
=============================================================================
