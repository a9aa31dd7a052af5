----------------------------- MODULE SessionList -----------------------------
(* The session sidebar: the rows of the user's chat sessions on the server, the two lists
   and the single sessions the client caches, and the requests of the rows' buttons
   (studio-session-sidebar.tsx, studio-v2-shell.tsx, use-chat.ts).
   Left out: search, folders and the repository filter, which only hide rows.         *)
EXTENDS Naturals, FiniteSets, QueryCache

CONSTANTS ListSessions, Titles, Untitled, NoSession, MaxListClicks
ASSUME ListBounds == MaxListClicks \in Nat

VARIABLES sessionRows,   \* server: [title, pinned, archived, deleted] of each session
          lists,         \* cache: the list of active and the list of archived sessions
          singles,       \* cache: chatKeys.session
          chosen,        \* the current session
          sidebarShown,  \* the archived list is asked for by the sidebar only
          pendingDelete, \* the row the dialog is about
          rowRequests,   \* requests not yet answered
          listClicks,
          missed         \* history: a row changed with no refetch of the lists due
listVars == <<sessionRows, lists, singles, chosen, sidebarShown, pendingDelete, rowRequests,
              listClicks, missed>>

Absent == [title |-> Untitled, pinned |-> FALSE, archived |-> FALSE, deleted |-> TRUE]
Fresh == [Absent EXCEPT !.deleted = FALSE]
ListKinds == {"active", "archived"}
\* What the server answers: undeleted rows by their archived flag; one row, or 404.
ListOf(kind) ==
  {s \in ListSessions : ~sessionRows[s].deleted /\ (sessionRows[s].archived <=> kind = "archived")}
Listing(kind) == [s \in ListOf(kind) |-> sessionRows[s]]
SingleOf(s) == sessionRows[s]

InList(kind) == IF lists[kind].data = NoData THEN [s \in {} |-> Absent] ELSE lists[kind].data
Unlisted == chosen # NoSession /\ chosen \notin DOMAIN InList("active")
\* The rows shown: both lists, and the chosen session when the active list lacks it.
RowShown(s) ==
  \/ s \in DOMAIN InList("active")
  \/ sidebarShown /\ s \in DOMAIN InList("archived")
  \/ Unlisted /\ s = chosen /\ singles[s].data # NoData /\ ~singles[s].data.deleted
ShownRow(s) ==
  IF s \in DOMAIN InList("active") THEN InList("active")[s]
  ELSE IF s \in DOMAIN InList("archived") THEN InList("archived")[s] ELSE singles[s].data

ListInit ==
  /\ sessionRows \in [ListSessions -> {Fresh, Absent}]
  /\ lists = [k \in ListKinds |-> EmptyQuery] /\ singles = [s \in ListSessions |-> EmptyQuery]
  /\ chosen = NoSession /\ sidebarShown = TRUE /\ pendingDelete = NoSession
  /\ rowRequests = {} /\ listClicks = 0 /\ missed = FALSE

-----------------------------------------------------------------------------
(* The user *)

ListClick == listClicks < MaxListClicks /\ listClicks' = listClicks + 1
KeepCaches == UNCHANGED <<sessionRows, lists, singles, missed>>
Request(s, change) ==
  /\ sidebarShown /\ pendingDelete = NoSession /\ ListClick
  /\ rowRequests' = rowRequests \cup {[n |-> listClicks', id |-> s, change |-> change, ok |-> FALSE]}
  /\ KeepCaches /\ UNCHANGED <<chosen, sidebarShown, pendingDelete>>
Only(field, value) == [f \in {field} |-> value]

TogglePin(s) == RowShown(s) /\ Request(s, Only("pinned", ~ShownRow(s).pinned))
ToggleArchive(s) == RowShown(s) /\ Request(s, Only("archived", ~ShownRow(s).archived))
Rename(s, title) ==
  RowShown(s) /\ title # ShownRow(s).title /\ Request(s, Only("title", title))

AskDelete(s) ==
  /\ sidebarShown /\ RowShown(s) /\ pendingDelete = NoSession /\ pendingDelete' = s
  /\ KeepCaches /\ UNCHANGED <<chosen, sidebarShown, rowRequests, listClicks>>
CloseDialog(confirmed) ==
  /\ pendingDelete # NoSession /\ pendingDelete' = NoSession
  /\ IF confirmed
     THEN ListClick /\ rowRequests' = rowRequests \cup
            {[n |-> listClicks', id |-> pendingDelete, change |-> Only("deleted", TRUE), ok |-> FALSE]}
     ELSE UNCHANGED <<listClicks, rowRequests>>
  /\ KeepCaches /\ UNCHANGED <<chosen, sidebarShown>>

Choose(s) ==
  /\ sidebarShown /\ RowShown(s) /\ pendingDelete = NoSession /\ ListClick /\ chosen' = s
  /\ KeepCaches /\ UNCHANGED <<sidebarShown, pendingDelete, rowRequests>>
NewSession ==
  /\ sidebarShown /\ chosen # NoSession /\ ListClick /\ chosen' = NoSession
  /\ KeepCaches /\ UNCHANGED <<sidebarShown, pendingDelete, rowRequests>>
\* Another sidebar takes the place of this one; an open dialog goes with it.
SwitchSidebar ==
  /\ ListClick /\ sidebarShown' = ~sidebarShown /\ pendingDelete' = NoSession
  /\ KeepCaches /\ UNCHANGED <<chosen, rowRequests>>

-----------------------------------------------------------------------------
(* The server and the answers *)

\* A request on a deleted row is refused with 404; a deleted row is archived as well.
ServerAnswersRow(q) ==
  /\ ~q.ok
  /\ IF sessionRows[q.id].deleted
     THEN rowRequests' = rowRequests \ {q} /\ UNCHANGED sessionRows
     ELSE /\ rowRequests' = (rowRequests \ {q}) \cup {[q EXCEPT !.ok = TRUE]}
          /\ sessionRows' = [sessionRows EXCEPT ![q.id] =
               [f \in DOMAIN @ |-> IF f \in DOMAIN q.change THEN q.change[f]
                                   ELSE IF f = "archived" /\ "deleted" \in DOMAIN q.change
                                   THEN TRUE ELSE @[f]]]
  /\ UNCHANGED <<lists, singles, chosen, sidebarShown, pendingDelete, listClicks, missed>>

ListShown(kind) == kind = "active" \/ sidebarShown
\* Both lists are fetched again; an older first answer is taken for the new one.
InvalidateLists ==
  /\ lists' = [k \in ListKinds |-> Invalidated(lists[k], ListShown(k))]
  /\ missed' = (missed \/ \E k \in ListKinds : lists'[k].flight # NoData)
InvalidateSingle(s) == singles' = [singles EXCEPT ![s] = Invalidated(@, s = chosen)]

\* Mutant: only the session is fetched again.
RowSettlesForSession(q) ==
  /\ q.ok /\ rowRequests' = rowRequests \ {q} /\ InvalidateSingle(q.id)
  /\ UNCHANGED <<sessionRows, lists, missed, chosen, sidebarShown, pendingDelete, listClicks>>

\* onSuccess: a deletion does not fetch the deleted session again.
RowSettles(q) ==
  /\ q.ok /\ rowRequests' = rowRequests \ {q} /\ InvalidateLists
  /\ IF "deleted" \in DOMAIN q.change THEN UNCHANGED singles ELSE InvalidateSingle(q.id)
  /\ UNCHANGED <<sessionRows, chosen, sidebarShown, pendingDelete, listClicks>>

\* The first event of a chat without a session: the server made one and it is chosen.
ChatStarts(s) ==
  /\ chosen = NoSession /\ sessionRows[s] = Absent /\ ListClick
  /\ sessionRows' = [sessionRows EXCEPT ![s] = Fresh] /\ chosen' = s
  /\ InvalidateLists
  /\ singles' = [singles EXCEPT ![s] = Invalidated(@, FALSE)]
  /\ UNCHANGED <<sidebarShown, pendingDelete, rowRequests>>
\* The recorded answer names an untitled session; only the session is fetched again.
AnswerNames(title) ==
  /\ chosen # NoSession /\ ~sessionRows[chosen].deleted /\ sessionRows[chosen].title = Untitled
  /\ ListClick
  /\ sessionRows' = [sessionRows EXCEPT ![chosen].title = title] /\ missed' = TRUE
  /\ InvalidateSingle(chosen)
  /\ UNCHANGED <<lists, chosen, sidebarShown, pendingDelete, rowRequests>>

FetchList(kind) ==
  /\ ListShown(kind) /\ NeedsFetch(lists[kind])
  /\ lists' = [lists EXCEPT ![kind] = Fetched(@, Listing(kind))]
  /\ UNCHANGED <<sessionRows, singles, chosen, sidebarShown, pendingDelete, rowRequests,
                 listClicks, missed>>
ListArrives(kind) ==
  /\ HasAnswer(lists[kind]) /\ lists' = [lists EXCEPT ![kind] = Answered(@)]
  /\ UNCHANGED <<sessionRows, singles, chosen, sidebarShown, pendingDelete, rowRequests,
                 listClicks, missed>>
FetchSingle ==
  /\ chosen # NoSession /\ NeedsFetch(singles[chosen])
  /\ singles' = [singles EXCEPT ![chosen] = Fetched(@, SingleOf(chosen))]
  /\ UNCHANGED <<sessionRows, lists, chosen, sidebarShown, pendingDelete, rowRequests,
                 listClicks, missed>>
SingleArrives(s) ==
  /\ HasAnswer(singles[s]) /\ singles' = [singles EXCEPT ![s] = Answered(@)]
  /\ UNCHANGED <<sessionRows, lists, chosen, sidebarShown, pendingDelete, rowRequests,
                 listClicks, missed>>

\* The effect of the shell: a chosen session that is neither listed nor found is dropped.
DropOrphan ==
  /\ Unlisted /\ singles[chosen].data # NoData /\ singles[chosen].data.deleted
  /\ chosen' = NoSession
  /\ UNCHANGED <<sessionRows, lists, singles, sidebarShown, pendingDelete, rowRequests,
                 listClicks, missed>>

ListNext ==
  \/ \E s \in ListSessions :
       \/ TogglePin(s) \/ ToggleArchive(s) \/ AskDelete(s) \/ Choose(s) \/ ChatStarts(s)
       \/ SingleArrives(s) \/ \E title \in Titles : Rename(s, title)
  \/ \E confirmed \in BOOLEAN : CloseDialog(confirmed)
  \/ NewSession \/ SwitchSidebar \/ FetchSingle \/ DropOrphan
  \/ \E q \in rowRequests : ServerAnswersRow(q) \/ RowSettles(q)
  \/ \E title \in Titles : AnswerNames(title)
  \/ \E kind \in ListKinds : FetchList(kind) \/ ListArrives(kind)

ListFairness ==
  /\ \A kind \in ListKinds : WF_listVars(FetchList(kind)) /\ WF_listVars(ListArrives(kind))
  /\ WF_listVars(FetchSingle) /\ WF_listVars(DropOrphan)
  /\ \A s \in ListSessions : WF_listVars(SingleArrives(s))
  /\ WF_listVars(\E q \in rowRequests : ServerAnswersRow(q) \/ RowSettles(q))

-----------------------------------------------------------------------------
ListTypeOK ==
  /\ sessionRows \in [ListSessions -> [title : Titles \cup {Untitled}, pinned : BOOLEAN,
                                       archived : BOOLEAN, deleted : BOOLEAN]]
  /\ {chosen, pendingDelete} \subseteq ListSessions \cup {NoSession}
  /\ sidebarShown \in BOOLEAN /\ missed \in BOOLEAN /\ listClicks \in 0 .. MaxListClicks

\* Once the user stops, the sidebar shows the sessions the server has, each in its list and
\* as it is, whatever requests overlapped; a chosen session that is gone is dropped unless
\* its own cached copy is still believed (a deletion does not fetch it again).
SessionListCatchesUp ==
  <>[](~missed =>
        /\ \A kind \in ListKinds : ListShown(kind) => lists[kind].data = Listing(kind)
        /\ chosen # NoSession /\ sessionRows[chosen].deleted =>
             singles[chosen].data # NoData /\ ~singles[chosen].data.deleted)

\* What makes it so, whatever is fair: as soon as no request waits to take effect, a list
\* that asks for nothing is the server's, also one that is not shown.
ListsAtRest ==
  ~missed /\ (\A q \in rowRequests : ~q.ok) =>
    \A kind \in ListKinds : CacheRests(lists[kind]) => lists[kind].data = Listing(kind)
=============================================================================
