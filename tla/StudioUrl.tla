----------------------------- MODULE StudioUrl -----------------------------
(* The address bar of the studio and the store that mirrors it
   (use-studio-url-sync.ts, studio-page-client.tsx).  The address overrides the
   store whenever either changes; 300 ms after the repository or the session
   changed, the store is written to the address, and the router commits that
   replacement later.  An effect runs after the render that follows a change and
   before the next event of the user; a timer and a navigation run at any time.  *)
EXTENDS StudioStore

CONSTANTS Links,      \* addresses the user can follow to the studio
          MaxPicks    \* bound on the steps of the user

VARIABLES url,      \* the committed address
          nav,      \* the replacement the router has not committed, or None
          due,      \* what the pending effects depend on
          timer,    \* the repository and session the pending updateUrl closed over
          picks
syncVars == <<url, nav, due, timer, picks>>
urlVars == <<studio, saved, syncVars>>

Address(repo, session, tab, place, panel) ==
  [repo |-> repo, session |-> session, tab |-> tab, place |-> place, panel |-> panel]
NoTab == <<"welcome", None>>
EmptyAddress == Address(None, None, NoTab, None, None)
Addresses == [repo : Repositories \cup {None}, session : Sessions \cup {None}, tab : TabIds,
              place : Places \cup {None}, panel : Panels \cup {None}]
ASSUME LinksAssumption == Links \subseteq Addresses

\* The address in the order of updateUrl: the tab is read when the timer fires, the
\* repository and session are the ones the callback closed over.
AddressOf(closure, s) ==
  Address(closure.repo, closure.session, s.active,
          TheTab(s.tabs, s.active).place, None)

UrlInit ==
  /\ StoreInit
  /\ url \in Links /\ nav = None /\ due = {"store", "params"} /\ timer = None /\ picks = 0

\* Mutant: a session in the address does not override the store.
ReadAddressIgnoringSession(s, a) ==
  LET opened == SetSelectedRepositoryId(s, IF a.repo = None THEN s.repo ELSE a.repo)
  IN IF a.tab[1] = "file" THEN OpenFileTab(opened, a.tab[2], a.place)
     ELSE IF a.tab[1] = "patch" THEN OpenPatchTab(opened, a.tab[2]) ELSE opened

\* The first effect: repository, then file or patch, then session.
ReadAddress(s, a) ==
  LET inRepo == SetSelectedRepositoryId(s, IF a.repo = None THEN s.repo ELSE a.repo)
      opened == CASE a.tab[1] = "file" -> OpenFileTab(inRepo, a.tab[2], a.place)
                  [] a.tab[1] = "patch" -> OpenPatchTab(inRepo, a.tab[2])
                  [] OTHER -> inRepo
  IN IF a.session = None THEN opened ELSE SetActiveSessionId(opened, a.session)

\* The effect of the page, run when the address changed: a file or a patch brings its
\* panel or the explorer, another tool panel is shown as asked.
FollowPanel(s, a) ==
  LET shown == [s EXCEPT !.collapsed = FALSE]
      tool == a.panel \in ToolPanels \cup {"tasks"}
  IN IF a.tab # NoTab THEN FocusSidebar(shown, IF tool THEN a.panel ELSE "explorer")
     ELSE IF tool THEN FocusSidebar(shown, a.panel) ELSE shown

Selection(s) == [repo |-> s.repo, session |-> s.session]

\* Mutant: what the effects set counts as a change even when it is none.
RunEffectsAgain ==
  /\ due # {}
  /\ LET read == ReadAddress(studio, url)
     IN Set(IF "params" \in due THEN FollowPanel(read, url) ELSE read)
  /\ due' = {"store"} /\ timer' = Selection(studio)
  /\ UNCHANGED <<url, nav, picks>>

\* The effects of one render, in order; what they set makes the next render due.
RunEffects ==
  /\ due # {}
  /\ LET read == ReadAddress(studio, url)
         next == IF "params" \in due THEN FollowPanel(read, url) ELSE read
     IN /\ Set(next)
        /\ due' = IF Selection(next) # Selection(studio) THEN {"store"} ELSE {}
        /\ timer' = IF "store" \in due THEN Selection(studio) ELSE timer
        /\ nav' = IF url.panel # None THEN [url EXCEPT !.panel = None] ELSE nav
  /\ UNCHANGED <<url, picks>>

\* The timer of updateUrl.
UpdateUrl ==
  /\ due = {} /\ timer # None
  /\ nav' = IF AddressOf(timer, studio) = url THEN nav ELSE AddressOf(timer, studio)
  /\ timer' = None
  /\ UNCHANGED <<studio, saved, url, due, picks>>

CommitNavigation ==
  /\ due = {} /\ nav # None
  /\ url' = nav /\ nav' = None
  /\ due' = IF nav # url THEN {"params"} ELSE {}
  /\ UNCHANGED <<studio, saved, timer, picks>>

UserStep(next) ==
  /\ due = {} /\ picks < MaxPicks /\ picks' = picks + 1
  /\ Set(next)
  /\ due' = IF Selection(next) # Selection(studio) THEN {"store"} ELSE {}
  /\ UNCHANGED <<url, nav, timer>>

\* Session rows, "New chat", the first event of a streamed answer, files and panels.
PickOrStartSession(id) == UserStep(SetActiveSessionId(studio, id))
OpenFileHere(f, place) == studio.repo # None /\ UserStep(OpenFileTab(studio, f, place))
ShowPanel(panel) == UserStep(FocusSidebar(studio, panel))
\* A link inside the studio page, from a notification for instance.
FollowLink(a) ==
  /\ due = {} /\ picks < MaxPicks /\ picks' = picks + 1
  /\ url' = a /\ nav' = None
  /\ due' = IF a # url THEN {"params"} ELSE {}
  /\ UNCHANGED <<studio, saved, timer>>

UrlNext ==
  \/ RunEffects \/ UpdateUrl \/ CommitNavigation
  \/ \E id \in Sessions \cup {None} : PickOrStartSession(id)
  \/ \E f \in Files, place \in Places : OpenFileHere(f, place)
  \/ \E panel \in Panels : ShowPanel(panel)
  \/ \E a \in Links : FollowLink(a)

\* Effects, timers and navigations are the browser's: none of them waits for ever.
UrlFairness ==
  /\ WF_urlVars(RunEffects) /\ WF_urlVars(UpdateUrl) /\ WF_urlVars(CommitNavigation)

-----------------------------------------------------------------------------
Quiet == due = {} /\ timer = None /\ nav = None

\* When nothing is pending, the store holds the repository and the session the address
\* names, whoever changed last and in whatever order timers and navigations ran.  (The
\* price is that a session picked in the sidebar gives way to the one in the address.)
QuietAgrees ==
  Quiet => /\ url.repo # None => url.repo = studio.repo
           /\ url.session # None => url.session = studio.session

\* Store and address each overwrite the other; they still settle once the user stops.
UrlSettles == <>[]Quiet
=============================================================================
