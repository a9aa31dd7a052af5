---------------------------- MODULE StudioStore ----------------------------
(* The client's studio store (studio-store.ts): the selected repository, session
   and patch, the sidebar, the editor tabs, and the copy of all this that the
   persist middleware writes after every change and reads back on a page load.
   Every store function is an operator from the old state to the new one, so that
   StudioUrl composes the same functions with the address bar.
   Left out: density, settings dialog, word wrap, minimap, mobile tab and context
   column, which no function reads, and the presentation of a tab (title, view
   mode, search highlight).                                                      *)
EXTENDS Naturals, Sequences, FiniteSets, Filter

CONSTANTS Files, Patches, Repositories, Sessions,
          Places,      \* a line and commit at which a file is opened
          ToolPanels,  \* sidebars other than "sessions" and "tasks"
          MaxTabs,     \* MAX_EDITOR_TABS
          None
ASSUME MaxTabsAssumption == MaxTabs \in Nat \ {0}
ASSUME PanelsAssumption == "explorer" \in ToolPanels

VARIABLES studio,   \* the zustand state
          saved     \* localStorage, studio-storage-v2 of this user
storeVars == <<studio, saved>>

Panels == ToolPanels \cup {"sessions", "tasks"}
TabIds == {<<"welcome", None>>} \cup ({"file"} \X Files) \cup ({"patch"} \X Patches)
Tab(id, place) == [id |-> id, place |-> place]
WelcomeId == <<"welcome", None>>
Welcome == Tab(WelcomeId, None)
IsFile(tab) == tab.id[1] = "file"
IsPatch(tab) == tab.id[1] = "patch"

TabAt(tabs, id) == {i \in DOMAIN tabs : tabs[i].id = id}
HasTab(tabs, id) == TabAt(tabs, id) # {}
TheTab(tabs, id) == tabs[CHOOSE i \in TabAt(tabs, id) : TRUE]
Without(tabs, id) == Filtered(tabs, {i \in DOMAIN tabs : tabs[i].id # id})
Last(tabs) == tabs[Len(tabs)]

NoFile == [path |-> None, place |-> None]
FileOf(tab) == IF IsFile(tab) THEN [path |-> tab.id[2], place |-> tab.place] ELSE NoFile
\* The file follows the tab; a file tab also withdraws the active patch.
SyncActiveFileFromTab(s, tab) ==
  [s EXCEPT !.file = FileOf(tab), !.patch = IF IsFile(tab) THEN None ELSE @]
\* What closing and choosing tabs do: they set the patch as well.
Activate(s, tab) ==
  [SyncActiveFileFromTab(s, tab) EXCEPT
     !.active = tab.id, !.patch = IF IsPatch(tab) THEN tab.id[2] ELSE None]

Defaults ==
  [repo |-> None, session |-> None, patch |-> None, snapshot |-> FALSE,
   sidebar |-> "explorer", collapsed |-> FALSE, ai |-> FALSE, center |-> "editor",
   planTab |-> "overview", tabs |-> <<Welcome>>, active |-> WelcomeId, file |-> NoFile]

\* The snapshot stands for itself and for the search that is reset with it.
SetSelectedRepositoryId(s, r) ==
  IF s.repo = r THEN s
  ELSE [s EXCEPT !.repo = r, !.session = None, !.patch = None, !.snapshot = FALSE]

SetActiveSessionId(s, id) == [s EXCEPT !.session = id]

FocusSidebar(s, panel) ==
  [s EXCEPT !.sidebar = panel, !.collapsed = FALSE, !.ai = (panel = "sessions"),
            !.center = IF panel = "sessions" THEN "chat" ELSE "editor",
            !.planTab = IF panel = "tasks" /\ s.sidebar # "tasks" THEN "overview" ELSE @]

SetAiPanelOpen(s, open) ==
  IF open THEN [s EXCEPT !.ai = TRUE, !.sidebar = "sessions",
                         !.collapsed = FALSE, !.center = "chat"]
          ELSE [s EXCEPT !.ai = FALSE]

\* Adds the welcome tab in front when it is missing.
OpenWelcomeTab(s) ==
  LET withWelcome == IF HasTab(s.tabs, WelcomeId) THEN s.tabs ELSE <<Welcome>> \o s.tabs
  IN [SyncActiveFileFromTab(s, Welcome) EXCEPT !.tabs = withWelcome, !.active = WelcomeId]

\* Beyond the limit the first tab that is neither the welcome tab nor the new one goes.
Evict(tabs, id) ==
  LET removable == {i \in DOMAIN tabs : tabs[i].id \notin {id, WelcomeId}}
      first == CHOOSE i \in removable : \A j \in removable : i <= j
  IN IF Len(tabs) > MaxTabs /\ removable # {} THEN Without(tabs, tabs[first].id) ELSE tabs

OpenFileTab(s, path, place) ==
  LET id == <<"file", path>>
      tab == Tab(id, place)
      tabs == IF HasTab(s.tabs, id)
              THEN [i \in DOMAIN s.tabs |-> IF s.tabs[i].id = id THEN tab ELSE s.tabs[i]]
              ELSE Evict(Append(Without(s.tabs, WelcomeId), tab), id)
  IN [s EXCEPT !.tabs = tabs, !.active = id, !.file = FileOf(tab), !.patch = None,
               !.center = "editor"]

OpenPatchTab(s, p) ==
  LET id == <<"patch", p>>
      tabs == IF HasTab(s.tabs, id) THEN s.tabs
              ELSE Append(Without(s.tabs, WelcomeId), Tab(id, None))
  IN [s EXCEPT !.tabs = tabs, !.active = id, !.patch = p, !.file = NoFile,
               !.center = "editor"]

OrWelcome(tabs) == IF tabs = <<>> THEN <<Welcome>> ELSE tabs

\* Mutant: the patch is not settled with the tab.
CloseTabKeepingPatch(s, id) ==
  LET tabs == OrWelcome(Without(s.tabs, id))
      next == IF s.active = id THEN Last(tabs) ELSE TheTab(tabs, s.active)
  IN IF id = WelcomeId THEN s
     ELSE [SyncActiveFileFromTab(s, next) EXCEPT !.tabs = tabs, !.active = next.id]
CloseTab(s, id) ==
  LET tabs == OrWelcome(Without(s.tabs, id))
      next == IF s.active = id THEN Last(tabs) ELSE TheTab(tabs, s.active)
  IN IF id = WelcomeId THEN s ELSE Activate([s EXCEPT !.tabs = tabs], next)

CloseOtherTabs(s, id) ==
  LET kept == {i \in DOMAIN s.tabs : s.tabs[i].id \in {id, WelcomeId}}
      tabs == OrWelcome(Filtered(s.tabs, kept))
  IN Activate([s EXCEPT !.tabs = tabs],
              IF HasTab(tabs, id) THEN TheTab(tabs, id) ELSE Last(tabs))

CloseAllTabs(s) == Activate([s EXCEPT !.tabs = <<Welcome>>], Welcome)

SetActiveTabId(s, id) == IF HasTab(s.tabs, id) THEN Activate(s, TheTab(s.tabs, id)) ELSE s

-----------------------------------------------------------------------------
(* Persistence: partialize, parse and merge. *)

Partialize(s) ==
  [repo |-> s.repo, session |-> s.session, patch |-> s.patch, snapshot |-> s.snapshot,
   sidebar |-> s.sidebar, collapsed |-> s.collapsed, ai |-> s.ai,
   tabs |-> s.tabs, active |-> s.active]

\* Mutant: a chat in progress counts as idle.
MigrateExplorerFirst(p) ==
  IF p.sidebar = "sessions" /\ p.tabs = <<Welcome>>
  THEN [p EXCEPT !.sidebar = "explorer", !.ai = FALSE] ELSE p
\* A chat sidebar without a chat and without a file gives way to the explorer.
MigrateExplorerFirstIfIdle(p) ==
  IF p.sidebar = "sessions" /\ p.session = None /\ p.tabs = <<Welcome>>
  THEN [p EXCEPT !.sidebar = "explorer", !.ai = FALSE] ELSE p

\* The center and the plan tab are not restored.
Merge(p, current) ==
  LET m == MigrateExplorerFirstIfIdle(p)
  IN [current EXCEPT !.repo = m.repo, !.session = m.session, !.patch = m.patch,
        !.snapshot = m.snapshot, !.sidebar = m.sidebar, !.collapsed = m.collapsed,
        !.ai = m.ai, !.tabs = m.tabs, !.active = m.active]

\* localStorage is synchronous, so the persist middleware reads it inside create(),
\* before its result is bound to studioStoreBase.  The merged state stands, but the
\* first setState of onRehydrateStorage refers to that binding and throws: the copy of
\* version 1 is not migrated, and the file is not derived from the active tab.
Rehydrate(v2) == IF v2 = None THEN Defaults ELSE Merge(v2, Defaults)
-----------------------------------------------------------------------------
(* What the user does. The shell shows the editor and its tabs beside the tool
   sidebars only, the chat beside "sessions" and the plan beside "tasks".        *)

StoreInit == saved = None /\ studio = Rehydrate(saved)

\* Every set() of the store is followed by a write of the persist middleware.
Set(next) == studio' = next /\ saved' = Partialize(next)

EditorShown == studio.sidebar \in ToolPanels

NavRail(panel) == Set(FocusSidebar(studio, panel))
ToggleSidebar == Set([studio EXCEPT !.collapsed = ~@])
PlanStep == studio.sidebar = "tasks" /\ Set([studio EXCEPT !.planTab = "steps"])
PickSnapshot ==
  /\ studio.repo # None /\ studio.sidebar = "explorer"
  /\ Set([studio EXCEPT !.snapshot = ~@])
\* From the explorer, a search hit, a source of an answer, the context column, a plan step.
ClickFile(f, place) == studio.repo # None /\ Set(OpenFileTab(studio, f, place))
ClickPatch(p) ==
  /\ studio.repo # None /\ studio.sidebar \in {"tasks"} \cup ToolPanels
  /\ Set(OpenPatchTab(studio, p))
ChooseTab(id) == EditorShown /\ HasTab(studio.tabs, id) /\ Set(SetActiveTabId(studio, id))
CloseOne(id) == EditorShown /\ HasTab(studio.tabs, id) /\ Set(CloseTab(studio, id))
CloseOthers == EditorShown /\ Set(CloseOtherTabs(studio, studio.active))
CloseAll == EditorShown /\ Set(CloseAllTabs(studio))
\* The effect of the welcome tab when it is mounted.
WelcomeMounts ==
  EditorShown /\ studio.active = WelcomeId /\ Set(OpenWelcomeTab(studio))
\* "New Chat Session" of the command palette.
PaletteNewChat == Set(SetAiPanelOpen(SetActiveSessionId(studio, None), TRUE))
PickSession(id) == studio.sidebar = "sessions" /\ Set(SetActiveSessionId(studio, id))
\* The repository is only ever chosen by an address: here a link that carries nothing else.
FollowRepositoryLink(r) == Set(SetSelectedRepositoryId(studio, r))

\* Reading the copy back writes nothing.
ReloadPage == studio' = Rehydrate(saved) /\ UNCHANGED saved

StoreNext ==
  \/ \E panel \in Panels : NavRail(panel)
  \/ ToggleSidebar \/ PlanStep \/ PickSnapshot \/ WelcomeMounts \/ PaletteNewChat
  \/ \E f \in Files, place \in Places : ClickFile(f, place)
  \/ \E p \in Patches : ClickPatch(p)
  \/ \E id \in TabIds : ChooseTab(id) \/ CloseOne(id)
  \/ CloseOthers \/ CloseAll
  \/ \E s \in Sessions : PickSession(s)
  \/ \E r \in Repositories : FollowRepositoryLink(r)
  \/ ReloadPage

StoreSpec == StoreInit /\ [][StoreNext]_storeVars

-----------------------------------------------------------------------------
StoreTypeOK ==
  /\ studio.repo \in Repositories \cup {None} /\ studio.session \in Sessions \cup {None}
  /\ studio.patch \in Patches \cup {None} /\ studio.sidebar \in Panels
  /\ studio.tabs \in Seq([id : TabIds, place : Places \cup {None}])
  /\ studio.center \in {"chat", "editor"} /\ studio.planTab \in {"overview", "steps"}

\* Tabs, active tab, active file and active patch are separate fields that every
\* function must move together: tabs are distinct, one of them is active, the welcome
\* tab stands alone, a file that is set is the active tab's, and a patch is active only
\* in its own tab.
FileFollows == studio.file = FileOf(TheTab(studio.tabs, studio.active))
TabsAgree ==
  /\ \A i, j \in DOMAIN studio.tabs : studio.tabs[i].id = studio.tabs[j].id => i = j
  /\ HasTab(studio.tabs, studio.active)
  /\ HasTab(studio.tabs, WelcomeId) => Len(studio.tabs) = 1
  /\ studio.file # NoFile => FileFollows
  /\ studio.patch # None => studio.active = <<"patch", studio.patch>>

\* After a reload repository, session, patch, snapshot, tabs and the active one are what
\* they were, only an idle chat sidebar gives way to the explorer; and nothing but a
\* reload parts the active file from the active tab.
ReloadKeepsWork ==
  [][/\ ReloadPage /\ saved # None =>
          /\ \A field \in {"repo", "session", "patch", "snapshot", "tabs", "active"} :
               studio'[field] = studio[field]
          /\ studio'.sidebar # studio.sidebar =>
               studio.sidebar = "sessions" /\ studio.session = None
     /\ FileFollows /\ ~FileFollows' => ReloadPage]_storeVars
=============================================================================
