----------------------------- MODULE SessionScope -----------------------------
(* The context of a chat session: the scope paths, the attached files and the usage
   totals that its row keeps in one metadata object, the copy of the object in the query
   cache, and the PATCH requests by which the context panel, the composer, the explorer
   and the scope bar change it (use-session-scope.ts).  The hook sends the whole cached
   object with its change; the server overlays it on its own.
   Left out: the order of the paths, other keys, and the server's own race between two
   requests (it handles one in one step).                                             *)
EXTENDS Naturals, FiniteSets, QueryCache

CONSTANTS ScopeFiles, ScopeFolders, MaxScopeClicks, MaxScopeTurns
ASSUME ScopeBounds == MaxScopeClicks \in Nat /\ MaxScopeTurns \in Nat

VARIABLES meta,        \* server: the metadata, keys appear when first written
          scopeQuery,  \* cache: chatKeys.session of the session
          writes,      \* PATCH requests not yet answered
          turn,        \* the streamed turn of the session: "none", "open" or "recorded"
          scopeClicks, scopeTurns,
          unseen       \* history: the row changed with no refetch due
scopeVars == <<meta, scopeQuery, writes, turn, scopeClicks, scopeTurns, unseen>>

Paths == ScopeFiles \cup ScopeFolders
\* What update() of a Python dict and the spread of an object do.
Overlay(old, new) ==
  [k \in DOMAIN old \cup DOMAIN new |-> IF k \in DOMAIN new THEN new[k] ELSE old[k]]
NoMeta == [k \in {} |-> {}]
Entry(m, k) == IF k \in DOMAIN m THEN m[k] ELSE {}
UsageOf(m) == IF "usage" \in DOMAIN m THEN m["usage"] ELSE 0

CachedMeta == IF scopeQuery.data = NoData THEN NoMeta ELSE scopeQuery.data
ScopePaths == Entry(CachedMeta, "scope")
AttachedFiles == Entry(CachedMeta, "attached")
\* The rows of the context panel and of the composer's strip.
InContext == ScopePaths \cup AttachedFiles

ScopeInit ==
  /\ meta = NoMeta /\ scopeQuery = EmptyQuery /\ writes = {} /\ turn = "none"
  /\ scopeClicks = 0 /\ scopeTurns = 0 /\ unseen = FALSE

-----------------------------------------------------------------------------
(* The hook: each function closes over the cached metadata of the last render. *)

\* One click sends a PATCH for each of the changes, each with the rest of the cached copy.
Mutate(changes) ==
  /\ scopeClicks < MaxScopeClicks /\ scopeClicks' = scopeClicks + 1
  /\ writes' = writes \cup
       {[n |-> scopeClicks', change |-> c, body |-> Overlay(CachedMeta, c), done |-> FALSE] :
          c \in changes}

Toggled(set, p) == IF p \in set THEN set \ {p} ELSE set \cup {p}
SetScopePaths(paths) == [k \in {"scope"} |-> paths]
SetAttachedFiles(paths) == [k \in {"attached"} |-> paths]
UpdateScopeMetadata(scope, attached) ==
  [k \in {"scope", "attached"} |-> IF k = "scope" THEN scope ELSE attached]
ToggleScopePath(p) == SetScopePaths(Toggled(ScopePaths, p))
ToggleAttachedFile(p) == SetAttachedFiles(Toggled(AttachedFiles, p))
AddMentionPath(p) ==
  UpdateScopeMetadata(ScopePaths \cup {p}, AttachedFiles \cup (ScopeFiles \cap {p}))

\* What the text of a message mentions: a name with an extension counts as a file.
PartitionMentionPaths(mentioned) ==
  [scope |-> mentioned \cap ScopeFolders, attached |-> mentioned \cap ScopeFiles]

-----------------------------------------------------------------------------
(* The places that call it *)

KeepServer == UNCHANGED <<meta, scopeQuery, turn, scopeTurns, unseen>>

\* The explorer's context toggle, and the cross of the scope bar for a listed path.
ToggleInExplorer(p) == Mutate({ToggleScopePath(p)}) /\ KeepServer

\* A search result, the open file, a dropped path, a mention picked from the menu.
AddToContext(p) == Mutate({AddMentionPath(p)}) /\ KeepServer

\* "Remove from context", or the cross in the strip: from each list that has the path.
Removal(p) ==
  {ToggleAttachedFile(p) : x \in AttachedFiles \cap {p}} \cup
  {ToggleScopePath(p) : x \in ScopePaths \cap {p}}
RemoveFromContext(p) == p \in InContext /\ Mutate(Removal(p)) /\ KeepServer

\* A message: the paths it mentions are merged into the context, then the turn is sent.
SendWithMentions(mentioned) ==
  /\ turn = "none" /\ scopeTurns < MaxScopeTurns
  /\ scopeTurns' = scopeTurns + 1 /\ turn' = "open"
  /\ IF mentioned = {} THEN UNCHANGED <<writes, scopeClicks>>
     ELSE LET paths == PartitionMentionPaths(mentioned) IN
          Mutate({UpdateScopeMetadata(ScopePaths \cup paths.scope,
                                      AttachedFiles \cup paths.attached)})
  /\ UNCHANGED <<meta, scopeQuery, unseen>>

-----------------------------------------------------------------------------
(* The server and the answers *)

\* A PATCH, in any order with the others; one that fails changes nothing.
ServerPatches(w, ok) ==
  /\ ~w.done
  /\ meta' = IF ok THEN Overlay(meta, w.body) ELSE meta
  /\ writes' = IF ok THEN (writes \ {w}) \cup {[w EXCEPT !.done = TRUE]} ELSE writes \ {w}
  /\ UNCHANGED <<scopeQuery, turn, scopeClicks, scopeTurns, unseen>>

\* Answers that are recorded add their usage to the totals (merge_usage_totals).
RecordUsage ==
  /\ turn = "open" /\ turn' = "recorded"
  /\ meta' = Overlay(meta, [k \in {"usage"} |-> UsageOf(meta) + 1])
  /\ UNCHANGED <<scopeQuery, writes, scopeClicks, scopeTurns, unseen>>

\* The session is fetched again; a first answer on its way is taken for the new one.
InvalidateSession ==
  /\ scopeQuery' = Invalidated(scopeQuery, TRUE)
  /\ unseen' = (unseen \/ scopeQuery'.flight # NoData)

\* "done" of the stream; or it was stopped or failed, and the session is not fetched again.
TurnEnds(done) ==
  /\ turn # "none" /\ (done => turn = "recorded") /\ turn' = "none"
  /\ IF done THEN InvalidateSession
     ELSE scopeQuery' = scopeQuery /\ unseen' = (unseen \/ turn = "recorded")
  /\ UNCHANGED <<meta, writes, scopeClicks, scopeTurns>>

\* Mutant: the list of sessions is fetched again, the session is not.
PatchSettlesForList(w) ==
  /\ w.done /\ writes' = writes \ {w}
  /\ UNCHANGED <<meta, scopeQuery, turn, scopeClicks, scopeTurns, unseen>>

\* onSuccess of useUpdateSessionMutation.
PatchSettles(w) ==
  /\ w.done /\ writes' = writes \ {w} /\ InvalidateSession
  /\ UNCHANGED <<meta, turn, scopeClicks, scopeTurns>>

FetchSession ==
  /\ NeedsFetch(scopeQuery) /\ scopeQuery' = Fetched(scopeQuery, meta)
  /\ UNCHANGED <<meta, writes, turn, scopeClicks, scopeTurns, unseen>>
SessionArrives ==
  /\ HasAnswer(scopeQuery) /\ scopeQuery' = Answered(scopeQuery)
  /\ UNCHANGED <<meta, writes, turn, scopeClicks, scopeTurns, unseen>>

ScopeNext ==
  \/ \E p \in Paths : ToggleInExplorer(p) \/ AddToContext(p) \/ RemoveFromContext(p)
  \/ \E mentioned \in SUBSET Paths : SendWithMentions(mentioned)
  \/ \E w \in writes : PatchSettles(w) \/ \E ok \in BOOLEAN : ServerPatches(w, ok)
  \/ RecordUsage \/ \E done \in BOOLEAN : TurnEnds(done)
  \/ FetchSession \/ SessionArrives

\* Requests are answered, streams end, and a shown query is fetched.
ScopeFairness ==
  /\ WF_scopeVars(FetchSession) /\ WF_scopeVars(SessionArrives)
  /\ WF_scopeVars(\E done \in BOOLEAN : TurnEnds(done))
  /\ WF_scopeVars(\E w \in writes : PatchSettles(w) \/ \E ok \in BOOLEAN : ServerPatches(w, ok))

ScopeSpec == ScopeInit /\ [][ScopeNext]_scopeVars

-----------------------------------------------------------------------------
ScopeTypeOK ==
  /\ DOMAIN meta \subseteq {"scope", "attached", "usage"} /\ UsageOf(meta) \in 0 .. MaxScopeTurns
  /\ Entry(meta, "scope") \subseteq Paths /\ Entry(meta, "attached") \subseteq ScopeFiles
  /\ turn \in {"none", "open", "recorded"}
  /\ unseen \in BOOLEAN /\ scopeClicks \in 0 .. MaxScopeClicks

\* Every change of the context, wherever it was made and in whatever order the server saw
\* the requests, comes to be shown: the cached metadata ends equal to the stored one.
ScopeCatchesUp == <>[](~unseen => scopeQuery.data = meta)

\* What makes it so, whatever is fair: as soon as no request waits to take effect and the
\* query asks for nothing, the cached metadata is the stored one.
ScopeAtRest ==
  ~unseen /\ turn # "recorded" /\ (\A w \in writes : ~w.done) /\ CacheRests(scopeQuery)
    => scopeQuery.data = meta
=============================================================================
