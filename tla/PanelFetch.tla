------------------------------ MODULE PanelFetch ------------------------------
(* Four panels of the studio that fetch into state of their own while the user changes
   what they are to show: the file pane (file-tab-content.tsx, monaco-editor-host.tsx, and
   in the same way the plan document), the explorer's list with its "Load more"
   (studio-explorer-panel.tsx), the text search (search-panel.tsx), and the comparison of
   two snapshots (snapshot-timeline.tsx, snapshot-diff-dialog.tsx).
   What a panel is to show is one key: repository, file and commit; repository and
   snapshot; query, options and repository.  Content is the key it was fetched for.
   Left out: highlighting, filtering, and the order within a list.                     *)
EXTENDS Naturals, Sequences, FiniteSets, Functions, Filter

CONSTANTS PanelKeys, NoKey, Pages, MaxChanges, MaxSearches
ASSUME PanelAssumption == NoKey \notin PanelKeys
ASSUME PanelBounds == Pages \in Nat /\ MaxSearches \in Nat

VARIABLES pane,        \* the key of the file pane, NoKey without a repository
          paneShown, paneState, paneFlights, paneDue,
          tree,        \* the key of the explorer's list
          treeCache, treeRows, treeCursor, treeMore, treeDue,
          crossed,     \* history: a page was put below rows it does not continue
          words,       \* the query of the search box, NoKey when blank
          debounce,    \* the query the running timer will search for
          searching, results, newest, searchCount,
          overtaken,   \* history: the last answer is to an older search than another
          listed,      \* the snapshots of the timeline's repository
          compared,    \* the snapshots marked for comparison, in the order of the marks
          comparing,   \* the dialog is open
          fileDiff, diffFlights,
          asked,       \* history: the last file clicked, while the dialog stays mounted
          lateDiff,    \* history: the file shown was answered after another click or Back
          changes
paneVars == <<pane, paneShown, paneState, paneFlights, paneDue>>
treeVars == <<tree, treeCache, treeRows, treeCursor, treeMore, treeDue, crossed>>
searchVars == <<words, debounce, searching, results, newest, searchCount, overtaken>>
compareVars == <<listed, compared, comparing, fileDiff, diffFlights, asked, lateDiff>>
panelVars == <<paneVars, treeVars, searchVars, compareVars, changes>>

Targets == PanelKeys \cup {NoKey}
\* A file of the comparison is one key too; between which snapshots is part of the state.
NoDiff == [file |-> NoKey, pair |-> <<>>, state |-> "none"]
PanelInit ==
  /\ pane = NoKey /\ paneShown = NoKey /\ paneState = "loading" /\ paneFlights = {}
  /\ paneDue = TRUE
  /\ tree = NoKey /\ treeCache = {} /\ treeRows = <<>> /\ treeCursor = 0
  /\ treeMore = NoKey /\ treeDue = FALSE /\ crossed = FALSE
  /\ words = NoKey /\ debounce = NoKey /\ searching = {} /\ results = NoKey
  /\ newest = 0 /\ searchCount = 0 /\ overtaken = FALSE
  /\ listed = PanelKeys /\ compared = <<>> /\ comparing = FALSE
  /\ fileDiff = NoDiff /\ diffFlights = {} /\ asked = NoKey /\ lateDiff = FALSE
  /\ changes = 0

Changes == changes < MaxChanges /\ changes' = changes + 1

-----------------------------------------------------------------------------
(* The file pane: the cleanup of its effect marks the request before as cancelled. *)

ChangePane(k) ==
  /\ ~paneDue /\ k # pane /\ pane' = k /\ paneDue' = TRUE /\ Changes
  /\ UNCHANGED <<paneShown, paneState, paneFlights, treeVars, searchVars>>

\* Mutant: the effect returns no cleanup.
RunPaneEffectUncancelled ==
  /\ paneDue /\ paneDue' = FALSE
  /\ paneState' = IF pane = NoKey THEN "error" ELSE "loading"
  /\ paneFlights' = paneFlights \cup
       (IF pane = NoKey THEN {} ELSE {[key |-> pane, n |-> changes, cancelled |-> FALSE]})
  /\ UNCHANGED <<pane, paneShown, treeVars, searchVars, changes>>

RunPaneEffect ==
  /\ paneDue /\ paneDue' = FALSE
  /\ paneState' = IF pane = NoKey THEN "error" ELSE "loading"
  /\ paneFlights' = {[q EXCEPT !.cancelled = TRUE] : q \in paneFlights} \cup
       (IF pane = NoKey THEN {} ELSE {[key |-> pane, n |-> changes, cancelled |-> FALSE]})
  /\ UNCHANGED <<pane, paneShown, treeVars, searchVars, changes>>

\* A failure leaves the content of before behind the message.
PaneAnswered(q, ok) ==
  /\ ~paneDue /\ q \in paneFlights /\ paneFlights' = paneFlights \ {q}
  /\ IF q.cancelled THEN UNCHANGED <<paneShown, paneState>>
     ELSE /\ paneState' = IF ok THEN "ready" ELSE "error"
          /\ paneShown' = IF ok THEN q.key ELSE paneShown
  /\ UNCHANGED <<pane, paneDue, treeVars, searchVars, changes>>

-----------------------------------------------------------------------------
(* The explorer: the first page is a cached query, further pages are put below it. *)

FirstPage(k) == <<[key |-> k, page |-> 1]>>
After(page) == IF page < Pages THEN page + 1 ELSE 0

\* Another repository or snapshot.
ChangeTree(k) ==
  /\ ~treeDue /\ k # tree /\ tree' = k /\ treeDue' = TRUE /\ Changes
  /\ UNCHANGED <<treeCache, treeRows, treeCursor, treeMore, crossed, paneVars, searchVars>>

\* The first page arrived, or arrived again with other content after an index run.
TreeAnswered ==
  /\ ~treeDue /\ tree # NoKey /\ treeCache' = treeCache \cup {tree} /\ treeDue' = TRUE
  /\ tree \in treeCache => changes < MaxChanges
  /\ changes' = IF tree \in treeCache THEN changes + 1 ELSE changes
  /\ UNCHANGED <<tree, treeRows, treeCursor, treeMore, crossed, paneVars, searchVars>>

RunTreeEffect ==
  /\ treeDue /\ treeDue' = FALSE /\ crossed' = FALSE
  /\ IF tree \in treeCache
     THEN treeRows' = FirstPage(tree) /\ treeCursor' = After(1)
     ELSE treeRows' = <<>> /\ treeCursor' = 0
  /\ UNCHANGED <<tree, treeCache, treeMore, paneVars, searchVars, changes>>

LoadMore ==
  /\ ~treeDue /\ tree # NoKey /\ treeCursor # 0 /\ treeMore = NoKey
  /\ treeMore' = [key |-> tree, page |-> treeCursor]
  /\ UNCHANGED <<tree, treeCache, treeRows, treeCursor, treeDue, crossed, paneVars,
                 searchVars, changes>>

\* The page is put below whatever rows there are by now.
MoreAnswered(ok) ==
  /\ ~treeDue /\ treeMore # NoKey /\ treeMore' = NoKey
  /\ IF ok THEN /\ treeRows' = Append(treeRows, treeMore)
                /\ treeCursor' = After(treeMore.page)
                /\ crossed' = (\/ crossed \/ treeMore.key # tree
                               \/ treeMore.page # Len(treeRows) + 1)
     ELSE UNCHANGED <<treeRows, treeCursor, crossed>>
  /\ UNCHANGED <<tree, treeCache, treeDue, paneVars, searchVars, changes>>

-----------------------------------------------------------------------------
(* Text search: each change of the box or the options starts a timer anew. *)

\* Mutant: the timer that runs is left alone.
TypeWordsKeepingTimer(k) ==
  /\ k # words /\ words' = k /\ Changes
  /\ debounce' = IF debounce # NoKey THEN debounce ELSE k
  /\ UNCHANGED <<searching, results, newest, searchCount, overtaken, paneVars, treeVars>>

TypeWords(k) ==
  /\ k # words /\ words' = k /\ Changes /\ debounce' = k
  /\ UNCHANGED <<searching, results, newest, searchCount, overtaken, paneVars, treeVars>>

Search(k, byTimer) ==
  /\ searchCount < MaxSearches /\ searchCount' = searchCount + 1
  /\ searching' = searching \cup {[key |-> k, n |-> searchCount', byTimer |-> byTimer]}

DebounceEnds ==
  /\ debounce # NoKey /\ Search(debounce, TRUE) /\ debounce' = NoKey
  /\ UNCHANGED <<words, results, newest, overtaken, paneVars, treeVars, changes>>

\* Enter opens the marked result, or searches when there is none.
PressEnter ==
  /\ words # NoKey /\ results = NoKey /\ Search(words, FALSE)
  /\ UNCHANGED <<words, debounce, results, newest, overtaken, paneVars, treeVars, changes>>

\* Answers are taken in the order they come; a failure clears what the timer asked for.
SearchAnswered(q, ok) ==
  /\ q \in searching /\ searching' = searching \ {q}
  /\ results' = IF ok THEN q.key ELSE IF q.byTimer THEN NoKey ELSE results
  /\ IF ok \/ q.byTimer
     THEN /\ overtaken' = (q.n < newest)
          /\ newest' = IF q.n < newest THEN newest ELSE q.n
     ELSE UNCHANGED <<overtaken, newest>>
  /\ UNCHANGED <<words, debounce, searchCount, paneVars, treeVars, changes>>

-----------------------------------------------------------------------------
(* Comparison of two snapshots: the dialog exists while two are marked. *)

\* Another repository: the marks stay, and none of its snapshots is marked.
SwitchTimeline ==
  /\ ~comparing /\ Changes
  /\ listed' = PanelKeys \ listed
  /\ UNCHANGED <<compared, comparing, fileDiff, diffFlights, asked, lateDiff>>

CompareOffered(k) == k \in listed /\ (k \in Range(compared) \/ Len(compared) < 2)
SelectForCompare(k) ==
  /\ ~comparing /\ CompareOffered(k) /\ Changes
  /\ compared' = IF k \in Range(compared)
                 THEN Filtered(compared, {i \in DOMAIN compared : compared[i] # k})
                 ELSE Append(compared, k)
  /\ IF Len(compared) = 2
     THEN fileDiff' = NoDiff /\ diffFlights' = {} /\ asked' = NoKey /\ lateDiff' = FALSE
     ELSE UNCHANGED <<fileDiff, diffFlights, asked, lateDiff>>
  /\ UNCHANGED <<listed, comparing>>

OpenComparison ==
  /\ ~comparing /\ Len(compared) = 2 /\ comparing' = TRUE
  /\ UNCHANGED <<listed, compared, fileDiff, diffFlights, asked, lateDiff, changes>>

\* Without the commits of both snapshots a file cannot be opened.
CommitsKnown == Range(compared) \subseteq listed
DiffShown == comparing /\ fileDiff # NoDiff
OpenFileDiff(f) ==
  /\ comparing /\ ~DiffShown /\ CommitsKnown /\ Changes
  /\ fileDiff' = [file |-> f, pair |-> compared, state |-> "loading"]
  /\ diffFlights' = diffFlights \cup {[file |-> f, pair |-> compared, n |-> changes]}
  /\ asked' = f /\ lateDiff' = FALSE
  /\ UNCHANGED <<listed, compared, comparing>>

\* Both contents, or an error of either, whatever is shown by now.
DiffAnswered(q, ok) ==
  /\ q \in diffFlights /\ diffFlights' = diffFlights \ {q}
  /\ fileDiff' = [file |-> q.file, pair |-> q.pair, state |-> IF ok THEN "ready" ELSE "error"]
  /\ lateDiff' = (lateDiff \/ fileDiff.file # q.file)
  /\ UNCHANGED <<listed, compared, comparing, asked, changes>>

BackToList ==
  /\ DiffShown /\ fileDiff' = NoDiff
  /\ UNCHANGED <<listed, compared, comparing, diffFlights, asked, lateDiff, changes>>

\* Close, and "Open in editor", which also opens a tab.
CloseComparison ==
  /\ comparing /\ comparing' = FALSE /\ fileDiff' = NoDiff
  /\ UNCHANGED <<listed, compared, diffFlights, asked, lateDiff, changes>>

CompareNext ==
  \/ SwitchTimeline \/ OpenComparison \/ BackToList \/ CloseComparison
  \/ \E k \in PanelKeys : SelectForCompare(k) \/ OpenFileDiff(k)
  \/ \E q \in diffFlights, ok \in BOOLEAN : DiffAnswered(q, ok)
PaneNext ==
  \/ \E k \in Targets : ChangePane(k)
  \/ RunPaneEffect \/ \E q \in paneFlights, ok \in BOOLEAN : PaneAnswered(q, ok)
TreeNext ==
  \/ \E k \in Targets : ChangeTree(k)
  \/ TreeAnswered \/ RunTreeEffect \/ LoadMore \/ \E ok \in BOOLEAN : MoreAnswered(ok)
SearchNext ==
  \/ \E k \in Targets : TypeWords(k)
  \/ DebounceEnds \/ PressEnter
  \/ \E q \in searching, ok \in BOOLEAN : SearchAnswered(q, ok)

-----------------------------------------------------------------------------
PanelTypeOK ==
  /\ {pane, paneShown, tree, words, debounce, results} \subseteq Targets
  /\ paneState \in {"loading", "ready", "error"} /\ treeCache \subseteq PanelKeys
  /\ treeCursor \in 0..Pages /\ newest \in 0..MaxSearches
  /\ {paneDue, treeDue, crossed, overtaken, comparing, lateDiff} \subseteq BOOLEAN
  /\ Range(compared) \subseteq PanelKeys /\ Len(compared) <= 2
  /\ fileDiff.file \in Targets /\ fileDiff.state \in {"none", "loading", "ready", "error"}

\* What the file pane shows as loaded is the file it stands for, the explorer's rows are
\* the pages of its own list from the first on, each once, and the comparison shows a file
\* between the two snapshots of its header, the one clicked last, whatever requests made
\* before are still answered.  (A page asked for before the key or the first page changed
\* is put below the new rows all the same, and a file left by Back or Close comes up.)
PanelsShowTheirKey ==
  /\ ~paneDue /\ paneState = "ready" => paneShown = pane
  /\ ~treeDue /\ ~crossed =>
       \A i \in DOMAIN treeRows : treeRows[i] = [key |-> tree, page |-> i]
  /\ fileDiff # NoDiff => fileDiff.pair = compared /\ (lateDiff \/ fileDiff.file = asked)

\* Once the box is at rest and every search was answered, the results are those of its
\* words, or none after a failure, unless the last answer was to an older search.
SearchSettles ==
  words # NoKey /\ debounce = NoKey /\ searching = {} /\ ~overtaken
    => results \in {NoKey, words}
=============================================================================
