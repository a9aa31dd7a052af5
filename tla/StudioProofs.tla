---------------------------- MODULE StudioProofs ----------------------------
(***************************************************************************)
(* Proofs about StudioStore and StudioUrl, for every set of repositories,  *)
(* sessions, patches, files and panels: the tab bar, the file and the patch*)
(* of the store never contradict each other, a reload loses no choice and  *)
(* no tab and is all that parts the open file from its tab, and an address *)
(* at rest names the selection it was written from.                        *)
(***************************************************************************)
EXTENDS StudioUrl, SequenceLemmas

UrlSpec == UrlInit /\ [][UrlNext]_urlVars

TabRecord == [id : TabIds, place : Places \cup {None}]
FileRecord == [path : Files \cup {None}, place : Places \cup {None}]
StudioState ==
  [repo : Repositories \cup {None}, session : Sessions \cup {None}, patch : Patches \cup {None},
   snapshot : BOOLEAN, sidebar : Panels, collapsed : BOOLEAN, ai : BOOLEAN,
   center : {"chat", "editor"}, planTab : {"overview", "steps"},
   tabs : Seq(TabRecord), active : TabIds, file : FileRecord]

Distinct(tabs) == \A i, j \in DOMAIN tabs : tabs[i].id = tabs[j].id => i = j
\* What a list of tabs must be, whichever of them is active.
GoodTabs(tabs) ==
  tabs \in Seq(TabRecord) /\ Distinct(tabs) /\ (HasTab(tabs, WelcomeId) => Len(tabs) = 1)
\* FileFollows and TabsAgree of any state of the store.
Follows(s) == s.file = FileOf(TheTab(s.tabs, s.active))
Good(s) ==
  /\ s \in StudioState /\ GoodTabs(s.tabs)
  /\ HasTab(s.tabs, s.active) /\ (s.file # NoFile => Follows(s))
  /\ s.patch # None => s.active = <<"patch", s.patch>>
\* What a function of the store owes: a good state, and no file left behind.
Sound(s, t) == Good(t) /\ (Follows(s) => Follows(t))

-----------------------------------------------------------------------------
(* Tabs *)

LEMMA WelcomeIsTab == WelcomeId \in TabIds /\ Welcome \in TabRecord /\ Welcome.id = WelcomeId
  BY DEF WelcomeId, Welcome, TabIds, TabRecord, Tab

LEMMA IdsOfTabs ==
  /\ \A f \in Files : <<"file", f>> \in TabIds /\ <<"file", f>> # WelcomeId
  /\ \A p \in Patches : <<"patch", p>> \in TabIds /\ <<"patch", p>> # WelcomeId
  /\ \A id \in TabIds : /\ id[1] = "file" => id[2] \in Files
                        /\ id[1] = "patch" => id[2] \in Patches /\ id = <<"patch", id[2]>>
  BY DEF TabIds, WelcomeId

LEMMA HasOwnTab ==
  ASSUME NEW tabs, Distinct(tabs), NEW i \in DOMAIN tabs
  PROVE  HasTab(tabs, tabs[i].id) /\ TheTab(tabs, tabs[i].id) = tabs[i]
  <1>1. TabAt(tabs, tabs[i].id) = {i}
    BY DEF TabAt, Distinct
  <1> QED
    BY <1>1 DEF HasTab, TheTab

LEMMA HasTabIndex ==
  ASSUME NEW tabs, NEW id
  PROVE  HasTab(tabs, id) <=> \E i \in DOMAIN tabs : tabs[i].id = id
  BY DEF HasTab, TabAt

LEMMA TheTabIsTab ==
  ASSUME NEW tabs, GoodTabs(tabs), NEW id, HasTab(tabs, id)
  PROVE  TheTab(tabs, id) \in TabRecord /\ TheTab(tabs, id).id = id
  <1> PICK i \in DOMAIN tabs : tabs[i].id = id
    BY HasTabIndex
  <1> QED
    BY HasOwnTab DEF GoodTabs

LEMMA FileOfType ==
  ASSUME NEW tab \in TabRecord
  PROVE  /\ FileOf(tab) \in FileRecord
         /\ ~IsFile(tab) => FileOf(tab) = NoFile
         /\ IsPatch(tab) => tab.id[2] \in Patches /\ tab.id = <<"patch", tab.id[2]>> /\ ~IsFile(tab)
  BY IdsOfTabs DEF FileOf, IsFile, IsPatch, NoFile, FileRecord, TabRecord

LEMMA OneTab ==
  ASSUME NEW tab \in TabRecord
  PROVE  GoodTabs(<<tab>>) /\ HasTab(<<tab>>, tab.id) /\ TheTab(<<tab>>, tab.id) = tab
  <1>1. GoodTabs(<<tab>>)
    BY DEF GoodTabs, Distinct
  <1>2. 1 \in DOMAIN <<tab>> /\ <<tab>>[1] = tab
    OBVIOUS
  <1> QED
    BY <1>1, <1>2, HasOwnTab DEF GoodTabs

\* Any filter of good tabs is one of good tabs, and has the tabs that stay, no others.
LEMMA FilteredTabs ==
  ASSUME NEW tabs, GoodTabs(tabs), NEW K \in SUBSET DOMAIN tabs
  PROVE  /\ GoodTabs(Filtered(tabs, K))
         /\ \A i \in K : HasTab(Filtered(tabs, K), tabs[i].id)
         /\ \A id : HasTab(Filtered(tabs, K), id) => \E i \in K : tabs[i].id = id
  <1> DEFINE f == Filtered(tabs, K)
  <1>0. tabs \in Seq(TabRecord) /\ DOMAIN tabs \subseteq Nat
    BY DEF GoodTabs
  <1>1. /\ f \in Seq(TabRecord) /\ Len(f) \in 0 .. Len(tabs)
        /\ \A i \in K : Rank(i, K) \in DOMAIN f /\ f[Rank(i, K)] = tabs[i]
        /\ \A k \in DOMAIN f : \E i \in K : Rank(i, K) = k
        /\ \A i, j \in K : i < j => Rank(i, K) < Rank(j, K)
    BY <1>0, FilteredProperties
  <1> HIDE DEF f
  <1>2. \A k \in DOMAIN f : \E i \in K : Rank(i, K) = k /\ f[k] = tabs[i]
    BY <1>1
  <1>3. Distinct(f)
    <2> SUFFICES ASSUME NEW k \in DOMAIN f, NEW l \in DOMAIN f, f[k].id = f[l].id PROVE k = l
      BY DEF Distinct
    <2>1. PICK i \in K : Rank(i, K) = k /\ f[k] = tabs[i]
      BY <1>2
    <2>2. PICK j \in K : Rank(j, K) = l /\ f[l] = tabs[j]
      BY <1>2
    <2>3. i = j
      BY <2>1, <2>2 DEF GoodTabs, Distinct
    <2> QED
      BY <2>1, <2>2, <2>3
  <1>4. \A i \in K : HasTab(f, tabs[i].id)
    BY <1>1, HasTabIndex
  <1>5. ASSUME NEW id, HasTab(f, id) PROVE \E i \in K : tabs[i].id = id
    BY <1>2, <1>5, HasTabIndex
  <1>6. HasTab(f, WelcomeId) => Len(f) = 1
    <2> SUFFICES ASSUME HasTab(f, WelcomeId) PROVE Len(f) = 1
      OBVIOUS
    <2>1. HasTab(tabs, WelcomeId)
      BY <1>5, HasTabIndex
    <2>2. Len(tabs) = 1 /\ Len(f) # 0
      BY <2>1, HasTabIndex, <1>1 DEF GoodTabs
    <2> QED
      BY <2>2, <1>1
  <1> QED
    BY <1>1, <1>3, <1>4, <1>5, <1>6 DEF GoodTabs, f

LEMMA WithoutTabs ==
  ASSUME NEW tabs, GoodTabs(tabs), NEW id
  PROVE  /\ GoodTabs(Without(tabs, id))
         /\ \A other : HasTab(Without(tabs, id), other) <=> HasTab(tabs, other) /\ other # id
  <1> DEFINE K == {i \in DOMAIN tabs : tabs[i].id # id}
  <1>1. /\ GoodTabs(Filtered(tabs, K))
        /\ \A i \in K : HasTab(Filtered(tabs, K), tabs[i].id)
        /\ \A o : HasTab(Filtered(tabs, K), o) => \E i \in K : tabs[i].id = o
    BY FilteredTabs
  <1>2. Filtered(tabs, K) = Without(tabs, id)
    BY DEF Without
  <1> QED
    BY <1>1, <1>2, HasTabIndex

LEMMA AppendedTab ==
  ASSUME NEW tabs, GoodTabs(tabs), ~HasTab(tabs, WelcomeId),
         NEW tab \in TabRecord, ~HasTab(tabs, tab.id), tab.id # WelcomeId
  PROVE  /\ GoodTabs(Append(tabs, tab))
         /\ \A id : HasTab(Append(tabs, tab), id) <=> HasTab(tabs, id) \/ id = tab.id
         /\ TheTab(Append(tabs, tab), tab.id) = tab
  <1> DEFINE new == Append(tabs, tab)
  <1>1. /\ tabs \in Seq(TabRecord) /\ new \in Seq(TabRecord) /\ Len(new) = Len(tabs) + 1
        /\ \A i \in 1 .. Len(tabs) : new[i] = tabs[i]
        /\ new[Len(tabs) + 1] = tab /\ Len(tabs) \in Nat
    BY DEF GoodTabs
  <1> HIDE DEF new
  <1>2. DOMAIN new = DOMAIN tabs \cup {Len(tabs) + 1} /\ DOMAIN tabs = 1 .. Len(tabs)
    BY <1>1
  <1>3. \A i \in DOMAIN tabs : tabs[i].id # tab.id /\ tabs[i].id # WelcomeId
    BY HasTabIndex
  <1>4. Distinct(new)
    BY <1>1, <1>2, <1>3 DEF GoodTabs, Distinct
  <1>5. \A id : HasTab(new, id) <=> HasTab(tabs, id) \/ id = tab.id
    BY <1>1, <1>2, HasTabIndex
  <1>6. GoodTabs(new)
    BY <1>1, <1>4, <1>5 DEF GoodTabs
  <1>7. TheTab(new, tab.id) = tab
    BY <1>1, <1>2, <1>4, HasOwnTab
  <1> QED
    BY <1>5, <1>6, <1>7 DEF new

LEMMA EvictedTabs ==
  ASSUME NEW tabs, GoodTabs(tabs), NEW id, HasTab(tabs, id)
  PROVE  GoodTabs(Evict(tabs, id)) /\ HasTab(Evict(tabs, id), id)
         /\ TheTab(Evict(tabs, id), id) = TheTab(tabs, id)
  <1> DEFINE removable == {i \in DOMAIN tabs : tabs[i].id \notin {id, WelcomeId}}
             first == CHOOSE i \in removable : \A j \in removable : i <= j
             gone == tabs[first].id
  <1>1. CASE Len(tabs) > MaxTabs /\ removable # {}
    <2>1. removable \in SUBSET Nat
      BY DEF GoodTabs
    <2>2. first \in removable
      BY <1>1, <2>1, LeastNatural
    <2>3. gone # id
      BY <2>2
    <2>4. Evict(tabs, id) = Without(tabs, gone)
      BY <1>1 DEF Evict
    <2> HIDE DEF gone
    <2>5. GoodTabs(Without(tabs, gone)) /\ HasTab(Without(tabs, gone), id)
      BY <2>3, WithoutTabs
    <2>6. TheTab(Without(tabs, gone), id) = TheTab(tabs, id)
      <3> DEFINE f == Without(tabs, gone)
                 K == {i \in DOMAIN tabs : tabs[i].id # gone}
      <3>1. PICK i \in DOMAIN tabs : tabs[i].id = id
        BY HasTabIndex
      <3>2. Rank(i, K) \in DOMAIN f /\ f[Rank(i, K)] = tabs[i]
        BY <3>1, <2>3, FilteredProperties DEF Without, GoodTabs
      <3>3. TheTab(f, id) = tabs[i]
        BY <3>1, <3>2, <2>5, HasOwnTab DEF GoodTabs
      <3> QED
        BY <3>1, <3>3, HasOwnTab DEF GoodTabs
    <2> QED
      BY <2>4, <2>5, <2>6
  <1>2. CASE ~(Len(tabs) > MaxTabs /\ removable # {})
    BY <1>2 DEF Evict
  <1> QED
    BY <1>1, <1>2

-----------------------------------------------------------------------------
(* The functions of the store *)

\* A function that moves neither the tabs nor the file, and at most withdraws the patch.
LEMMA TabsUntouched ==
  ASSUME NEW s, Good(s), NEW t \in StudioState, t.tabs = s.tabs, t.active = s.active,
         t.file = s.file, t.patch \in {s.patch, None}
  PROVE  Sound(s, t)
  BY DEF Good, Sound, Follows

LEMMA PanelsOfStore == {"explorer", "sessions", "tasks"} \subseteq Panels
  BY PanelsAssumption DEF Panels

LEMMA SelectedRepository ==
  ASSUME NEW s, Good(s), NEW r \in Repositories \cup {None}
  PROVE  /\ Sound(s, SetSelectedRepositoryId(s, r))
         /\ SetSelectedRepositoryId(s, r).repo = r
         /\ r = s.repo => SetSelectedRepositoryId(s, r) = s
  <1> DEFINE t == SetSelectedRepositoryId(s, r)
  <1>1. t \in StudioState /\ t.repo = r
    BY DEF Good, StudioState, SetSelectedRepositoryId
  <1>2. t.tabs = s.tabs /\ t.active = s.active /\ t.file = s.file /\ t.patch \in {s.patch, None}
    BY DEF Good, StudioState, SetSelectedRepositoryId
  <1>3. r = s.repo => t = s
    BY DEF SetSelectedRepositoryId
  <1> HIDE DEF t
  <1>4. Sound(s, t)
    BY <1>1, <1>2, TabsUntouched
  <1> QED
    BY <1>1, <1>3, <1>4 DEF t

LEMMA ActiveSession ==
  ASSUME NEW s, Good(s), NEW id \in Sessions \cup {None}
  PROVE  /\ Sound(s, SetActiveSessionId(s, id))
         /\ SetActiveSessionId(s, id).session = id /\ SetActiveSessionId(s, id).repo = s.repo
  <1> DEFINE t == SetActiveSessionId(s, id)
  <1>1. /\ t \in StudioState /\ t.session = id /\ t.repo = s.repo
        /\ t.tabs = s.tabs /\ t.active = s.active /\ t.file = s.file /\ t.patch = s.patch
    BY DEF Good, StudioState, SetActiveSessionId
  <1> HIDE DEF t
  <1>2. Sound(s, t)
    BY <1>1, TabsUntouched
  <1> QED
    BY <1>1, <1>2 DEF t

LEMMA FocusedSidebar ==
  ASSUME NEW s, Good(s), NEW panel \in Panels
  PROVE  /\ Sound(s, FocusSidebar(s, panel))
         /\ FocusSidebar(s, panel).repo = s.repo /\ FocusSidebar(s, panel).session = s.session
  <1> DEFINE t == FocusSidebar(s, panel)
  <1>1. /\ t \in StudioState /\ t.session = s.session /\ t.repo = s.repo
        /\ t.tabs = s.tabs /\ t.active = s.active /\ t.file = s.file /\ t.patch = s.patch
    BY DEF Good, StudioState, FocusSidebar
  <1> HIDE DEF t
  <1>2. Sound(s, t)
    BY <1>1, TabsUntouched
  <1> QED
    BY <1>1, <1>2 DEF t

\* Choosing a tab of the list moves file and patch along.
LEMMA ActivatedTab ==
  ASSUME NEW s \in StudioState, GoodTabs(s.tabs), NEW i \in DOMAIN s.tabs
  PROVE  /\ Good(Activate(s, s.tabs[i])) /\ Follows(Activate(s, s.tabs[i]))
         /\ Activate(s, s.tabs[i]).tabs = s.tabs
  <1> DEFINE tab == s.tabs[i]
             t == Activate(s, tab)
  <1>0. tab \in TabRecord
    BY DEF GoodTabs
  <1>1. tab.id \in TabIds
    <2> HIDE DEF tab
    <2> QED
      BY <1>0 DEF TabRecord
  <1>2. /\ FileOf(tab) \in FileRecord
        /\ IsPatch(tab) => tab.id[2] \in Patches /\ tab.id = <<"patch", tab.id[2]>>
    BY <1>0, FileOfType
  <1>3. HasTab(s.tabs, tab.id) /\ TheTab(s.tabs, tab.id) = tab
    BY HasOwnTab DEF GoodTabs
  <1> HIDE DEF tab
  <1>4. /\ t \in StudioState /\ t.tabs = s.tabs /\ t.active = tab.id /\ t.file = FileOf(tab)
        /\ t.patch = IF IsPatch(tab) THEN tab.id[2] ELSE None
    BY <1>0, <1>1, <1>2 DEF StudioState, Activate, SyncActiveFileFromTab
  <1> HIDE DEF t
  <1>5. Good(t) /\ Follows(t)
    BY <1>2, <1>3, <1>4 DEF Good, Follows
  <1> QED
    BY <1>4, <1>5 DEF t, tab

LEMMA OpenedFile ==
  ASSUME NEW s, Good(s), NEW f \in Files, NEW place \in Places \cup {None}
  PROVE  /\ Sound(s, OpenFileTab(s, f, place))
         /\ OpenFileTab(s, f, place).repo = s.repo /\ OpenFileTab(s, f, place).session = s.session
  <1> DEFINE id == <<"file", f>>
             tab == Tab(id, place)
             tabs == IF HasTab(s.tabs, id)
                     THEN [i \in DOMAIN s.tabs |-> IF s.tabs[i].id = id THEN tab ELSE s.tabs[i]]
                     ELSE Evict(Append(Without(s.tabs, WelcomeId), tab), id)
             t == OpenFileTab(s, f, place)
  <1>1. tab \in TabRecord /\ tab.id = id /\ id \in TabIds /\ id # WelcomeId /\ IsFile(tab)
    BY IdsOfTabs DEF Tab, TabRecord, IsFile
  <1>2. FileOf(tab) \in FileRecord
    BY <1>1, FileOfType
  <1>3. GoodTabs(s.tabs) /\ s \in StudioState
    BY DEF Good
  <1> HIDE DEF tab
  <1>4. GoodTabs(tabs) /\ HasTab(tabs, id) /\ TheTab(tabs, id) = tab
    <2>1. CASE HasTab(s.tabs, id)
      <3>1. PICK k \in DOMAIN s.tabs : s.tabs[k].id = id
        BY <2>1, HasTabIndex
      <3>2. tabs = [i \in DOMAIN s.tabs |-> IF s.tabs[i].id = id THEN tab ELSE s.tabs[i]]
        BY <2>1
      <3>3. s.tabs \in Seq(TabRecord) /\ DOMAIN s.tabs = 1 .. Len(s.tabs) /\ Len(s.tabs) \in Nat
        BY <1>3 DEF GoodTabs
      <3>4. \A i \in 1 .. Len(s.tabs) : (IF s.tabs[i].id = id THEN tab ELSE s.tabs[i]) \in TabRecord
        BY <1>1, <3>3
      <3>5. tabs \in Seq(TabRecord) /\ Len(tabs) = Len(s.tabs) /\ DOMAIN tabs = DOMAIN s.tabs
        <4>1. tabs \in [1 .. Len(s.tabs) -> TabRecord]
          BY <3>2, <3>3, <3>4
        <4> QED
          BY <4>1, <3>3, FunctionIsSequence
      <3>6. \A i \in DOMAIN s.tabs : tabs[i].id = s.tabs[i].id
        BY <1>1, <3>2
      <3> HIDE DEF tabs, id
      <3>7. Distinct(tabs)
        BY <1>3, <3>5, <3>6 DEF GoodTabs, Distinct
      <3>8. HasTab(tabs, WelcomeId) <=> HasTab(s.tabs, WelcomeId)
        BY <3>5, <3>6, HasTabIndex
      <3>9. tabs[k] = tab
        BY <3>1, <3>2
      <3>10. HasTab(tabs, id) /\ TheTab(tabs, id) = tab
        BY <1>1, <3>5, <3>7, <3>9, HasOwnTab
      <3> QED
        BY <1>3, <3>5, <3>7, <3>8, <3>10 DEF GoodTabs
    <2>2. CASE ~HasTab(s.tabs, id)
      <3> DEFINE rest == Without(s.tabs, WelcomeId)
      <3>1. GoodTabs(rest) /\ ~HasTab(rest, WelcomeId) /\ ~HasTab(rest, id)
        BY <1>3, <2>2, WithoutTabs
      <3>2. tabs = Evict(Append(rest, tab), id)
        BY <2>2
      <3> HIDE DEF rest, tabs, id
      <3>3. GoodTabs(Append(rest, tab)) /\ HasTab(Append(rest, tab), id)
            /\ TheTab(Append(rest, tab), id) = tab
        BY <1>1, <3>1, AppendedTab
      <3> QED
        BY <3>2, <3>3, EvictedTabs
    <2> QED
      BY <2>1, <2>2
  <1>5. t = [s EXCEPT !.tabs = tabs, !.active = id, !.file = FileOf(tab), !.patch = None,
                      !.center = "editor"]
    BY DEF OpenFileTab, tab
  <1> HIDE DEF tabs, id, t
  <1>6. /\ t \in StudioState /\ t.tabs = tabs /\ t.active = id /\ t.file = FileOf(tab)
        /\ t.patch = None /\ t.repo = s.repo /\ t.session = s.session
    BY <1>1, <1>2, <1>3, <1>4, <1>5 DEF StudioState, GoodTabs
  <1>7. Sound(s, t)
    BY <1>4, <1>6 DEF Good, Follows, Sound
  <1> QED
    BY <1>6, <1>7 DEF t

LEMMA OpenedPatch ==
  ASSUME NEW s, Good(s), NEW p \in Patches
  PROVE  /\ Sound(s, OpenPatchTab(s, p))
         /\ OpenPatchTab(s, p).repo = s.repo /\ OpenPatchTab(s, p).session = s.session
  <1> DEFINE id == <<"patch", p>>
             tabs == IF HasTab(s.tabs, id) THEN s.tabs
                     ELSE Append(Without(s.tabs, WelcomeId), Tab(id, None))
             t == OpenPatchTab(s, p)
  <1>1. /\ Tab(id, None) \in TabRecord /\ Tab(id, None).id = id /\ id \in TabIds
        /\ id # WelcomeId /\ id[1] = "patch" /\ id[2] = p
    BY IdsOfTabs DEF Tab, TabRecord
  <1>2. GoodTabs(s.tabs) /\ s \in StudioState
    BY DEF Good
  <1>3. GoodTabs(tabs) /\ HasTab(tabs, id)
    <2>1. CASE HasTab(s.tabs, id)
      BY <1>2, <2>1
    <2>2. CASE ~HasTab(s.tabs, id)
      <3> DEFINE rest == Without(s.tabs, WelcomeId)
      <3>1. GoodTabs(rest) /\ ~HasTab(rest, WelcomeId) /\ ~HasTab(rest, id)
        BY <1>2, <2>2, WithoutTabs
      <3>2. tabs = Append(rest, Tab(id, None))
        BY <2>2
      <3> HIDE DEF rest, tabs, id
      <3> QED
        BY <1>1, <3>1, <3>2, AppendedTab
    <2> QED
      BY <2>1, <2>2
  <1>4. t = [s EXCEPT !.tabs = tabs, !.active = id, !.patch = p, !.file = NoFile,
                      !.center = "editor"]
    BY DEF OpenPatchTab
  <1> HIDE DEF tabs, t
  <1>5. TheTab(tabs, id) \in TabRecord /\ TheTab(tabs, id).id = id
    BY <1>3, TheTabIsTab
  <1>6. FileOf(TheTab(tabs, id)) = NoFile /\ NoFile \in FileRecord
    BY <1>5 DEF FileOf, IsFile, NoFile, FileRecord
  <1>7. /\ t \in StudioState /\ t.tabs = tabs /\ t.active = id /\ t.file = NoFile
        /\ t.patch = p /\ t.repo = s.repo /\ t.session = s.session
    BY <1>1, <1>2, <1>3, <1>4, <1>6 DEF StudioState, GoodTabs
  <1>8. Sound(s, t)
    BY <1>3, <1>6, <1>7 DEF Good, Follows, Sound
  <1> QED
    BY <1>7, <1>8 DEF t

\* What remains of a filter, or the welcome tab.
LEMMA OrWelcomeTabs ==
  ASSUME NEW tabs, GoodTabs(tabs)
  PROVE  /\ GoodTabs(OrWelcome(tabs))
         /\ \A id : HasTab(tabs, id) => HasTab(OrWelcome(tabs), id)
         /\ Len(OrWelcome(tabs)) \in DOMAIN OrWelcome(tabs)
  <1>1. CASE tabs = <<>>
    <2>1. OrWelcome(tabs) = <<Welcome>>
      BY <1>1 DEF OrWelcome
    <2>2. GoodTabs(<<Welcome>>)
      BY WelcomeIsTab, OneTab
    <2>3. \A id : ~HasTab(tabs, id)
      BY <1>1, HasTabIndex
    <2> QED
      BY <2>1, <2>2, <2>3
  <1>2. CASE tabs # <<>>
    <2>1. OrWelcome(tabs) = tabs
      BY <1>2 DEF OrWelcome
    <2>2. Len(tabs) \in 1 .. Len(tabs)
      BY <1>2 DEF GoodTabs
    <2> QED
      BY <2>1, <2>2 DEF GoodTabs
  <1> QED
    BY <1>1, <1>2

\* Of some list of good tabs the one with a given id, or the last, becomes the active one.
LEMMA ChosenTab ==
  ASSUME NEW s \in StudioState, NEW tabs, GoodTabs(tabs), Len(tabs) \in DOMAIN tabs,
         NEW next, \/ next = Last(tabs)
                   \/ \E id : HasTab(tabs, id) /\ next = TheTab(tabs, id)
  PROVE  \A old : Sound(old, Activate([s EXCEPT !.tabs = tabs], next))
  <1> DEFINE t == [s EXCEPT !.tabs = tabs]
  <1>1. t \in StudioState /\ t.tabs = tabs
    BY DEF StudioState, GoodTabs
  <1>2. PICK i \in DOMAIN tabs : next = tabs[i]
    <2>1. CASE next = Last(tabs)
      BY <2>1 DEF Last
    <2>2. CASE \E id : HasTab(tabs, id) /\ next = TheTab(tabs, id)
      <3>1. PICK id : HasTab(tabs, id) /\ next = TheTab(tabs, id)
        BY <2>2
      <3>2. PICK i \in DOMAIN tabs : tabs[i].id = id
        BY <3>1, HasTabIndex
      <3> QED
        BY <3>1, <3>2, HasOwnTab DEF GoodTabs
    <2> QED
      BY <2>1, <2>2
  <1> HIDE DEF t
  <1>3. Good(Activate(t, t.tabs[i])) /\ Follows(Activate(t, t.tabs[i]))
    BY <1>1, ActivatedTab
  <1> QED
    BY <1>1, <1>2, <1>3 DEF t, Sound

LEMMA ClosedTab ==
  ASSUME NEW s, Good(s), NEW id
  PROVE  Sound(s, CloseTab(s, id))
  <1> DEFINE rest == Without(s.tabs, id)
             tabs == OrWelcome(rest)
             next == IF s.active = id THEN Last(tabs) ELSE TheTab(tabs, s.active)
  <1>1. GoodTabs(rest) /\ (s.active # id => HasTab(rest, s.active))
    BY WithoutTabs DEF Good
  <1> HIDE DEF rest
  <1>2. GoodTabs(tabs) /\ Len(tabs) \in DOMAIN tabs /\ (s.active # id => HasTab(tabs, s.active))
    BY <1>1, OrWelcomeTabs
  <1> HIDE DEF tabs
  <1>3. \/ next = Last(tabs)
        \/ \E x : HasTab(tabs, x) /\ next = TheTab(tabs, x)
    BY <1>2
  <1> HIDE DEF next
  <1>4. s \in StudioState
    BY DEF Good
  <1>5. Sound(s, Activate([s EXCEPT !.tabs = tabs], next))
    BY <1>2, <1>3, <1>4, ChosenTab
  <1> QED
    BY <1>5 DEF CloseTab, Sound, next, tabs, rest

LEMMA ClosedOthers ==
  ASSUME NEW s, Good(s), NEW id
  PROVE  Sound(s, CloseOtherTabs(s, id))
  <1> DEFINE kept == {i \in DOMAIN s.tabs : s.tabs[i].id \in {id, WelcomeId}}
             tabs == OrWelcome(Filtered(s.tabs, kept))
             next == IF HasTab(tabs, id) THEN TheTab(tabs, id) ELSE Last(tabs)
  <1>1. GoodTabs(Filtered(s.tabs, kept))
    BY FilteredTabs DEF Good
  <1> HIDE DEF kept
  <1>2. GoodTabs(tabs) /\ Len(tabs) \in DOMAIN tabs
    BY <1>1, OrWelcomeTabs
  <1> HIDE DEF tabs
  <1>3. \/ next = Last(tabs)
        \/ \E x : HasTab(tabs, x) /\ next = TheTab(tabs, x)
    OBVIOUS
  <1> HIDE DEF next
  <1>4. s \in StudioState
    BY DEF Good
  <1>5. Sound(s, Activate([s EXCEPT !.tabs = tabs], next))
    BY <1>2, <1>3, <1>4, ChosenTab
  <1> QED
    BY <1>5 DEF CloseOtherTabs, next, tabs, kept

LEMMA ClosedAll ==
  ASSUME NEW s, Good(s)
  PROVE  Sound(s, CloseAllTabs(s))
  <1>1. GoodTabs(<<Welcome>>) /\ Len(<<Welcome>>) \in DOMAIN <<Welcome>> /\ Welcome = Last(<<Welcome>>)
    BY WelcomeIsTab, OneTab DEF Last
  <1>2. s \in StudioState
    BY DEF Good
  <1> QED
    BY <1>1, <1>2, ChosenTab DEF CloseAllTabs

LEMMA ChosenActiveTab ==
  ASSUME NEW s, Good(s), NEW id
  PROVE  Sound(s, SetActiveTabId(s, id))
  <1>1. CASE HasTab(s.tabs, id)
    <2>1. PICK i \in DOMAIN s.tabs : s.tabs[i].id = id
      BY <1>1, HasTabIndex
    <2>2. TheTab(s.tabs, id) = s.tabs[i]
      BY <2>1, HasOwnTab DEF Good, GoodTabs
    <2> QED
      BY <1>1, <2>2, ActivatedTab DEF Good, Sound, SetActiveTabId
  <1>2. CASE ~HasTab(s.tabs, id)
    BY <1>2 DEF SetActiveTabId, Sound
  <1> QED
    BY <1>1, <1>2

\* The welcome tab only asks for itself while it is the active one.
LEMMA WelcomeOpened ==
  ASSUME NEW s, Good(s), s.active = WelcomeId
  PROVE  Sound(s, OpenWelcomeTab(s))
  <1> DEFINE t == OpenWelcomeTab(s)
  <1>1. HasTab(s.tabs, WelcomeId) /\ TheTab(s.tabs, WelcomeId).id = WelcomeId
    BY TheTabIsTab DEF Good
  <1>2. FileOf(Welcome) = NoFile /\ s.file = NoFile /\ ~IsFile(Welcome)
    BY <1>1, WelcomeIsTab DEF Good, Follows, FileOf, IsFile, WelcomeId
  <1>3. /\ t \in StudioState /\ t.tabs = s.tabs /\ t.active = s.active /\ t.file = s.file
        /\ t.patch = s.patch
    BY <1>1, <1>2 DEF Good, StudioState, OpenWelcomeTab, SyncActiveFileFromTab
  <1> HIDE DEF t
  <1>4. Sound(s, t)
    BY <1>3, TabsUntouched
  <1> QED
    BY <1>4 DEF t

LEMMA NewChatOfPalette ==
  ASSUME NEW s, Good(s)
  PROVE  Sound(s, SetAiPanelOpen(SetActiveSessionId(s, None), TRUE))
  <1> DEFINE u == SetActiveSessionId(s, None)
             t == SetAiPanelOpen(u, TRUE)
  <1>1. Sound(s, u) /\ Good(u)
    BY ActiveSession DEF Sound
  <1> HIDE DEF u
  <1>2. t \in StudioState /\ t.tabs = u.tabs /\ t.active = u.active /\ t.file = u.file /\ t.patch = u.patch
    BY <1>1, PanelsOfStore DEF Good, StudioState, SetAiPanelOpen
  <1> HIDE DEF t
  <1>3. Sound(u, t)
    BY <1>1, <1>2, TabsUntouched
  <1> QED
    BY <1>1, <1>3 DEF t, u, Sound

-----------------------------------------------------------------------------
(* Persistence *)

LEMMA DefaultsGood == Good(Defaults)
  <1>1. GoodTabs(<<Welcome>>) /\ HasTab(<<Welcome>>, WelcomeId) /\ TheTab(<<Welcome>>, WelcomeId) = Welcome
    BY WelcomeIsTab, OneTab
  <1>2. FileOf(Welcome) = NoFile /\ NoFile \in FileRecord
    BY WelcomeIsTab DEF FileOf, IsFile, WelcomeId, NoFile, FileRecord
  <1>3. Defaults \in StudioState
    BY <1>1, <1>2, WelcomeIsTab, PanelsOfStore DEF Defaults, StudioState, GoodTabs
  <1> QED
    BY <1>1, <1>2, <1>3 DEF Good, Follows, Defaults

Kept == {"repo", "session", "patch", "snapshot", "tabs", "active"}
Copied == [repo : Repositories \cup {None}, session : Sessions \cup {None},
           patch : Patches \cup {None}, snapshot : BOOLEAN, sidebar : Panels,
           collapsed : BOOLEAN, ai : BOOLEAN, tabs : Seq(TabRecord), active : TabIds]

LEMMA CopyType ==
  ASSUME NEW s \in StudioState
  PROVE  Partialize(s) \in Copied
  BY DEF StudioState, Copied, Partialize

LEMMA MigratedCopy ==
  ASSUME NEW p \in Copied
  PROVE  LET m == MigrateExplorerFirstIfIdle(p)
         IN  /\ m \in Copied /\ \A field \in Kept : m[field] = p[field]
             /\ m.sidebar # p.sidebar => p.sidebar = "sessions" /\ p.session = None
             /\ MigrateExplorerFirstIfIdle(m) = m
  BY PanelsOfStore DEF MigrateExplorerFirstIfIdle, Copied, Kept

\* The state a load makes of a copy: no file is active, whatever tab is.
LEMMA MergedState ==
  ASSUME NEW p \in Copied
  PROVE  LET m == MigrateExplorerFirstIfIdle(p)
             t == Merge(p, Defaults)
         IN  /\ t \in StudioState /\ Partialize(t) = m /\ t.file = NoFile
             /\ \A field \in Kept \cup {"sidebar"} : t[field] = m[field]
  <1> DEFINE m == MigrateExplorerFirstIfIdle(p)
             t == Merge(p, Defaults)
  <1>1. m \in Copied
    BY MigratedCopy
  <1>2. Defaults \in StudioState /\ Defaults.file = NoFile
    BY DefaultsGood DEF Good, Defaults
  <1>3. t = [Defaults EXCEPT !.repo = m.repo, !.session = m.session, !.patch = m.patch,
               !.snapshot = m.snapshot, !.sidebar = m.sidebar, !.collapsed = m.collapsed,
               !.ai = m.ai, !.tabs = m.tabs, !.active = m.active]
    BY DEF Merge
  <1> HIDE DEF m, t
  <1>4. /\ t \in StudioState /\ t.repo = m.repo /\ t.session = m.session /\ t.patch = m.patch
        /\ t.snapshot = m.snapshot /\ t.sidebar = m.sidebar /\ t.collapsed = m.collapsed
        /\ t.ai = m.ai /\ t.tabs = m.tabs /\ t.active = m.active /\ t.file = NoFile
    BY <1>1, <1>2, <1>3 DEF Copied, StudioState
  <1>5. Partialize(t) = m
    BY <1>1, <1>4 DEF Partialize, Copied
  <1> QED
    BY <1>4, <1>5 DEF Kept, m, t

\* A good state whose copy was saved, or the state a load made of it, loads again: only
\* the file and an idle chat sidebar are not what they were.
LEMMA Reloaded ==
  ASSUME NEW s, Good(s), NEW p, p \in Copied,
         Partialize(s) \in {p, MigrateExplorerFirstIfIdle(p)}
  PROVE  LET t == Merge(p, Defaults)
         IN  /\ Good(t) /\ Partialize(t) = MigrateExplorerFirstIfIdle(p)
             /\ \A field \in Kept : t[field] = s[field]
             /\ t.sidebar # s.sidebar => s.sidebar = "sessions" /\ s.session = None
  <1> DEFINE m == MigrateExplorerFirstIfIdle(p)
             t == Merge(p, Defaults)
  <1>1. /\ \A field \in Kept : m[field] = p[field]
        /\ m.sidebar # p.sidebar => p.sidebar = "sessions" /\ p.session = None
    BY MigratedCopy
  <1>2. /\ t \in StudioState /\ Partialize(t) = m /\ t.file = NoFile
        /\ \A field \in Kept \cup {"sidebar"} : t[field] = m[field]
    BY MergedState
  <1>3. /\ \A field \in Kept : Partialize(s)[field] = s[field]
        /\ Partialize(s).sidebar = s.sidebar
    BY DEF Partialize, Kept
  <1> HIDE DEF m, t
  <1>4. \A field \in Kept : t[field] = s[field]
    BY <1>1, <1>2, <1>3 DEF m
  <1>5. t.sidebar # s.sidebar => s.sidebar = "sessions" /\ s.session = None
    BY <1>1, <1>2, <1>3 DEF m, Kept
  <1>6. t.tabs = s.tabs /\ t.active = s.active /\ t.patch = s.patch
    BY <1>4 DEF Kept
  <1>7. Good(t)
    BY <1>2, <1>6 DEF Good
  <1> QED
    BY <1>2, <1>4, <1>5, <1>7 DEF m, t

-----------------------------------------------------------------------------
(* The store *)

\* The state is good, and it is the one the copy was made of or is loaded as.
StoreInv ==
  /\ Good(studio)
  /\ saved # None => /\ saved \in Copied
                     /\ Partialize(studio) \in {saved, MigrateExplorerFirstIfIdle(saved)}

LEMMA StoreInvInit == StoreInit => StoreInv
  BY DefaultsGood DEF StoreInit, StoreInv, Rehydrate

\* What a function of the store does once it is set.
Settles == StoreInv' /\ (FileFollows => FileFollows')

LEMMA SetKeepsStore ==
  ASSUME StoreInv, NEW next, Sound(studio, next), Set(next)
  PROVE  Settles
  <1>1. Partialize(next) \in Copied
    BY CopyType DEF Sound, Good
  <1> QED
    BY <1>1 DEF StoreInv, Set, Sound, Settles, Follows, FileFollows

LEMMA ReloadStep ==
  ASSUME StoreInv, ReloadPage
  PROVE  /\ StoreInv'
         /\ saved # None =>
              /\ \A field \in Kept : studio'[field] = studio[field]
              /\ studio'.sidebar # studio.sidebar =>
                   studio.sidebar = "sessions" /\ studio.session = None
  <1>1. CASE saved = None
    BY <1>1, DefaultsGood DEF StoreInv, ReloadPage, Rehydrate
  <1>2. CASE saved # None
    <2>1. studio' = Merge(saved, Defaults) /\ saved' = saved
      BY <1>2 DEF ReloadPage, Rehydrate
    <2> QED
      BY <1>2, <2>1, Reloaded DEF StoreInv
  <1> QED
    BY <1>1, <1>2

\* Every step but a reload settles the file with its tab.
LEMMA StoreStep ==
  ASSUME StoreInv, [StoreNext]_storeVars
  PROVE  Settles \/ ReloadPage
  <1>0. Good(studio) /\ studio \in StudioState
    BY DEF StoreInv, Good
  <1>1. ASSUME NEW panel \in Panels, NavRail(panel) PROVE Settles
    BY <1>0, <1>1, FocusedSidebar, SetKeepsStore DEF NavRail
  <1>2. CASE ToggleSidebar
    <2> DEFINE t == [studio EXCEPT !.collapsed = ~@]
    <2>1. t \in StudioState /\ t.tabs = studio.tabs /\ t.active = studio.active
          /\ t.file = studio.file /\ t.patch = studio.patch
      BY <1>0 DEF StudioState
    <2> HIDE DEF t
    <2>2. Sound(studio, t)
      BY <1>0, <2>1, TabsUntouched
    <2> QED
      BY <1>2, <2>2, SetKeepsStore DEF ToggleSidebar, t
  <1>3. CASE PlanStep
    <2> DEFINE t == [studio EXCEPT !.planTab = "steps"]
    <2>1. t \in StudioState /\ t.tabs = studio.tabs /\ t.active = studio.active
          /\ t.file = studio.file /\ t.patch = studio.patch
      BY <1>0 DEF StudioState
    <2> HIDE DEF t
    <2>2. Sound(studio, t)
      BY <1>0, <2>1, TabsUntouched
    <2> QED
      BY <1>3, <2>2, SetKeepsStore DEF PlanStep, t
  <1>4. CASE PickSnapshot
    <2> DEFINE t == [studio EXCEPT !.snapshot = ~@]
    <2>1. t \in StudioState /\ t.tabs = studio.tabs /\ t.active = studio.active
          /\ t.file = studio.file /\ t.patch = studio.patch
      BY <1>0 DEF StudioState
    <2> HIDE DEF t
    <2>2. Sound(studio, t)
      BY <1>0, <2>1, TabsUntouched
    <2> QED
      BY <1>4, <2>2, SetKeepsStore DEF PickSnapshot, t
  <1>5. CASE WelcomeMounts
    BY <1>0, <1>5, WelcomeOpened, SetKeepsStore DEF WelcomeMounts
  <1>6. CASE PaletteNewChat
    BY <1>0, <1>6, NewChatOfPalette, SetKeepsStore DEF PaletteNewChat
  <1>7. ASSUME NEW f \in Files, NEW place \in Places, ClickFile(f, place) PROVE Settles
    BY <1>0, <1>7, OpenedFile, SetKeepsStore DEF ClickFile
  <1>8. ASSUME NEW p \in Patches, ClickPatch(p) PROVE Settles
    BY <1>0, <1>8, OpenedPatch, SetKeepsStore DEF ClickPatch
  <1>9. ASSUME NEW id \in TabIds, ChooseTab(id) \/ CloseOne(id) PROVE Settles
    BY <1>0, <1>9, ChosenActiveTab, ClosedTab, SetKeepsStore DEF ChooseTab, CloseOne
  <1>10. CASE CloseOthers
    BY <1>0, <1>10, ClosedOthers, SetKeepsStore DEF CloseOthers
  <1>11. CASE CloseAll
    BY <1>0, <1>11, ClosedAll, SetKeepsStore DEF CloseAll
  <1>12. ASSUME NEW s \in Sessions, PickSession(s) PROVE Settles
    BY <1>0, <1>12, ActiveSession, SetKeepsStore DEF PickSession
  <1>13. ASSUME NEW r \in Repositories, FollowRepositoryLink(r) PROVE Settles
    BY <1>0, <1>13, SelectedRepository, SetKeepsStore DEF FollowRepositoryLink
  <1>14. CASE UNCHANGED storeVars
    BY <1>14 DEF storeVars, StoreInv, Settles, FileFollows
  <1> QED
    BY <1>1, <1>2, <1>3, <1>4, <1>5, <1>6, <1>7, <1>8, <1>9, <1>10, <1>11, <1>12, <1>13, <1>14
       DEF StoreNext

LEMMA StoreInvStep == StoreInv /\ [StoreNext]_storeVars => StoreInv'
  BY StoreStep, ReloadStep DEF Settles

\* The state of the store is good, and it is the one the copy was made of or loads as.
THEOREM StoreInvariant == StoreSpec => []StoreInv
  BY StoreInvInit, StoreInvStep, PTL DEF StoreSpec

LEMMA GoodStoreAgrees == Good(studio) => TabsAgree
  BY DEF Good, GoodTabs, Distinct, TabsAgree, Follows, FileFollows

\* Tabs, active tab, file and patch agree, whatever store functions run in whatever order
\* and wherever the page is reloaded.
THEOREM StoreTabsAgree == StoreSpec => []TabsAgree
  BY StoreInvariant, GoodStoreAgrees, PTL DEF StoreInv

\* What a step owes to ReloadKeepsWork.
ReloadKeeps ==
  /\ ReloadPage /\ saved # None =>
       /\ \A field \in {"repo", "session", "patch", "snapshot", "tabs", "active"} :
            studio'[field] = studio[field]
       /\ studio'.sidebar # studio.sidebar =>
            studio.sidebar = "sessions" /\ studio.session = None
  /\ FileFollows /\ ~FileFollows' => ReloadPage

LEMMA ReloadStepKeeps ==
  ASSUME StoreInv, Settles \/ ReloadPage
  PROVE  ReloadKeeps
  BY ReloadStep DEF ReloadKeeps, Kept, Settles

\* A reload of the page takes back no selection and no tab, for any tabs and any copy; it
\* leaves no file active until the user chooses one, and no other step of the store does
\* that to a file (merge and onRehydrateStorage of studio-store.ts).
THEOREM ReloadLosesNothing == StoreSpec => ReloadKeepsWork
  <1>1. StoreInv /\ [StoreNext]_storeVars => [ReloadKeeps]_storeVars
    BY StoreStep, ReloadStepKeeps
  <1>2. StoreSpec => [][ReloadKeeps]_storeVars
    BY <1>1, StoreInvariant, PTL DEF StoreSpec
  <1> QED
    BY <1>2 DEF ReloadKeepsWork, ReloadKeeps
-----------------------------------------------------------------------------
(* The address bar *)

Closures == [repo : Repositories \cup {None}, session : Sessions \cup {None}]
UrlTypes ==
  /\ StoreInv /\ url \in Addresses /\ nav \in Addresses \cup {None}
  /\ timer \in Closures \cup {None}
\* Between two renders, the store holds what the address names: whoever changes either of
\* the two makes an effect due, and the effect settles it or is due again.
SettledAgrees ==
  due = {} => /\ url.repo # None => url.repo = studio.repo
              /\ url.session # None => url.session = studio.session
UrlInv == UrlTypes /\ SettledAgrees

LEMMA AddressRead ==
  ASSUME NEW s, Good(s), NEW a \in Addresses
  PROVE  LET r == ReadAddress(s, a)
         IN  /\ Sound(s, r) /\ r.repo = IF a.repo = None THEN s.repo ELSE a.repo
             /\ a.session # None => r.session = a.session
  <1> DEFINE repo == IF a.repo = None THEN s.repo ELSE a.repo
             inRepo == SetSelectedRepositoryId(s, repo)
             opened == CASE a.tab[1] = "file" -> OpenFileTab(inRepo, a.tab[2], a.place)
                         [] a.tab[1] = "patch" -> OpenPatchTab(inRepo, a.tab[2])
                         [] OTHER -> inRepo
             r == IF a.session = None THEN opened ELSE SetActiveSessionId(opened, a.session)
  <1>1. /\ a.repo \in Repositories \cup {None} /\ a.session \in Sessions \cup {None}
        /\ a.tab \in TabIds /\ a.place \in Places \cup {None}
    BY DEF Addresses
  <1>2. repo \in Repositories \cup {None}
    BY <1>1 DEF Good, StudioState
  <1> HIDE DEF repo
  <1>3. Sound(s, inRepo) /\ Good(inRepo) /\ inRepo.repo = repo
    BY <1>2, SelectedRepository DEF Sound
  <1> HIDE DEF inRepo
  <1>4. Sound(s, opened) /\ Good(opened) /\ opened.repo = repo
    <2>1. CASE a.tab[1] = "file"
      <3>1. a.tab[2] \in Files /\ opened = OpenFileTab(inRepo, a.tab[2], a.place)
        BY <1>1, <2>1, IdsOfTabs
      <3> QED
        BY <1>1, <1>3, <3>1, OpenedFile DEF Sound
    <2>2. CASE a.tab[1] = "patch"
      <3>1. a.tab[2] \in Patches /\ opened = OpenPatchTab(inRepo, a.tab[2])
        BY <1>1, <2>2, IdsOfTabs
      <3> QED
        BY <1>3, <3>1, OpenedPatch DEF Sound
    <2>3. CASE a.tab[1] # "file" /\ a.tab[1] # "patch"
      BY <1>3, <2>3
    <2> QED
      BY <2>1, <2>2, <2>3
  <1> HIDE DEF opened
  <1>5. Sound(s, r) /\ r.repo = repo /\ (a.session # None => r.session = a.session)
    BY <1>1, <1>4, ActiveSession DEF Sound
  <1>6. ReadAddress(s, a) = r
    BY DEF ReadAddress, opened, inRepo, repo
  <1> HIDE DEF r
  <1> QED
    BY <1>5, <1>6 DEF repo

LEMMA PanelFollowed ==
  ASSUME NEW s, Good(s), NEW a \in Addresses
  PROVE  Sound(s, FollowPanel(s, a)) /\ Selection(FollowPanel(s, a)) = Selection(s)
  <1> DEFINE shown == [s EXCEPT !.collapsed = FALSE]
             t == FollowPanel(s, a)
  <1>1. /\ shown \in StudioState /\ shown.tabs = s.tabs /\ shown.active = s.active
        /\ shown.file = s.file /\ shown.patch = s.patch
        /\ shown.repo = s.repo /\ shown.session = s.session
    BY DEF Good, StudioState
  <1> HIDE DEF shown
  <1>2. Sound(s, shown) /\ Good(shown)
    BY <1>1, TabsUntouched DEF Sound
  <1>3. t = shown \/ \E panel \in Panels : t = FocusSidebar(shown, panel)
    <2>1. ToolPanels \cup {"tasks", "explorer"} \subseteq Panels
      BY PanelsOfStore DEF Panels
    <2> QED
      BY <2>1 DEF FollowPanel, shown
  <1> HIDE DEF t
  <1>4. Sound(s, t) /\ t.repo = s.repo /\ t.session = s.session
    BY <1>1, <1>2, <1>3, FocusedSidebar DEF Sound
  <1> QED
    BY <1>4 DEF t, Selection

LEMMA UrlInvInit == UrlInit => UrlInv
  BY StoreInvInit, LinksAssumption DEF UrlInit, UrlInv, UrlTypes, SettledAgrees

LEMMA UserKeepsUrl ==
  ASSUME UrlInv, NEW next, Sound(studio, next), UserStep(next)
  PROVE  UrlInv' /\ Settles
  <1>1. Settles /\ StoreInv'
    BY SetKeepsStore DEF UserStep, UrlInv, UrlTypes, Settles
  <1>2. UrlTypes'
    BY <1>1 DEF UserStep, UrlInv, UrlTypes
  <1>3. SettledAgrees'
    <2> SUFFICES ASSUME due' = {} PROVE studio'.repo = studio.repo /\ studio'.session = studio.session
      BY DEF UserStep, UrlInv, SettledAgrees
    <2>1. studio' = next /\ Selection(next) = Selection(studio)
      BY DEF UserStep, Set
    <2> QED
      BY <2>1 DEF Selection
  <1> QED
    BY <1>1, <1>2, <1>3 DEF UrlInv

LEMMA EffectsKeepUrl ==
  ASSUME UrlInv, RunEffects
  PROVE  UrlInv' /\ Settles
  <1> DEFINE read == ReadAddress(studio, url)
             next == IF "params" \in due THEN FollowPanel(read, url) ELSE read
  <1>1. Good(studio) /\ url \in Addresses
    BY DEF UrlInv, UrlTypes, StoreInv
  <1>2. /\ Sound(studio, read) /\ Good(read) /\ read.repo = IF url.repo = None THEN studio.repo ELSE url.repo
        /\ url.session # None => read.session = url.session
    BY <1>1, AddressRead DEF Sound
  <1> HIDE DEF read
  <1>3. Sound(studio, next) /\ Selection(next) = Selection(read)
    BY <1>1, <1>2, PanelFollowed DEF Sound
  <1>4. /\ Set(next) /\ url' = url
        /\ due' = IF Selection(next) # Selection(studio) THEN {"store"} ELSE {}
        /\ timer' = IF "store" \in due THEN Selection(studio) ELSE timer
        /\ nav' = IF url.panel # None THEN [url EXCEPT !.panel = None] ELSE nav
    BY DEF RunEffects, read
  <1> HIDE DEF next
  <1>5. Settles /\ StoreInv'
    BY <1>3, <1>4, SetKeepsStore DEF UrlInv, UrlTypes, Settles
  <1>6. nav' \in Addresses \cup {None}
    BY <1>1, <1>4 DEF UrlInv, UrlTypes, Addresses
  <1>7. timer' \in Closures \cup {None}
    BY <1>1, <1>4 DEF UrlInv, UrlTypes, Closures, Selection, Good, StudioState
  <1>8. SettledAgrees'
    <2> SUFFICES ASSUME due' = {}
                 PROVE  /\ url.repo # None => url.repo = studio'.repo
                        /\ url.session # None => url.session = studio'.session
      BY <1>4 DEF SettledAgrees
    <2>1. studio' = next /\ next.repo = read.repo /\ next.session = read.session
      BY <1>3, <1>4 DEF Set, Selection
    <2> QED
      BY <1>2, <2>1
  <1> QED
    BY <1>1, <1>4, <1>5, <1>6, <1>7, <1>8 DEF UrlInv, UrlTypes

\* No step of the address bar leaves the file behind.
LEMMA UrlStep ==
  ASSUME UrlInv, [UrlNext]_urlVars
  PROVE  UrlInv' /\ Settles
  <1>0. Good(studio) /\ StoreInv /\ url \in Addresses
    BY DEF UrlInv, UrlTypes, StoreInv
  <1>1. CASE RunEffects
    BY <1>1, EffectsKeepUrl
  <1>2. CASE UpdateUrl
    <2>1. timer \in Closures
      BY <1>2 DEF UpdateUrl, UrlInv, UrlTypes
    <2>2. TheTab(studio.tabs, studio.active) \in TabRecord
      BY <1>0, TheTabIsTab DEF Good
    <2>3. studio.active \in TabIds
      BY <1>0 DEF Good, StudioState
    <2>4. AddressOf(timer, studio) \in Addresses
      BY <2>1, <2>2, <2>3 DEF AddressOf, Address, Addresses, Closures, TabRecord
    <2>5. StoreInv'
      BY <1>0, <1>2 DEF UpdateUrl, StoreInv
    <2> QED
      BY <1>2, <2>4, <2>5 DEF UpdateUrl, UrlInv, UrlTypes, SettledAgrees, Settles, FileFollows
  <1>3. CASE CommitNavigation
    <2>1. StoreInv'
      BY <1>0, <1>3 DEF CommitNavigation, StoreInv
    <2> QED
      BY <1>3, <2>1 DEF CommitNavigation, UrlInv, UrlTypes, SettledAgrees, Settles, FileFollows
  <1>4. ASSUME NEW id \in Sessions \cup {None}, PickOrStartSession(id) PROVE UrlInv' /\ Settles
    BY <1>0, <1>4, ActiveSession, UserKeepsUrl DEF PickOrStartSession
  <1>5. ASSUME NEW f \in Files, NEW place \in Places, OpenFileHere(f, place) PROVE UrlInv' /\ Settles
    BY <1>0, <1>5, OpenedFile, UserKeepsUrl DEF OpenFileHere
  <1>6. ASSUME NEW panel \in Panels, ShowPanel(panel) PROVE UrlInv' /\ Settles
    BY <1>0, <1>6, FocusedSidebar, UserKeepsUrl DEF ShowPanel
  <1>7. ASSUME NEW a \in Links, FollowLink(a) PROVE UrlInv' /\ Settles
    <2>1. StoreInv'
      BY <1>0, <1>7 DEF FollowLink, StoreInv
    <2>2. a \in Addresses
      BY LinksAssumption
    <2> QED
      BY <1>7, <2>1, <2>2 DEF FollowLink, UrlInv, UrlTypes, SettledAgrees, Settles, FileFollows
  <1>8. CASE UNCHANGED urlVars
    BY <1>8 DEF urlVars, syncVars, UrlInv, UrlTypes, StoreInv, SettledAgrees, Settles, FileFollows
  <1> QED
    BY <1>1, <1>2, <1>3, <1>4, <1>5, <1>6, <1>7, <1>8 DEF UrlNext

LEMMA UrlInvStep == UrlInv /\ [UrlNext]_urlVars => UrlInv'
  BY UrlStep

\* The invariant of address bar and store holds always.
THEOREM UrlInvariant == UrlSpec => []UrlInv
  BY UrlInvInit, UrlInvStep, PTL DEF UrlSpec

\* When no effect, timer or navigation is pending, the store holds the repository and the
\* session the address names: for every set of links, and without any fairness.
THEOREM UrlQuietAgrees == UrlSpec => []QuietAgrees
  <1>1. UrlInv => QuietAgrees
    BY DEF UrlInv, SettledAgrees, QuietAgrees, Quiet
  <1> QED
    BY <1>1, UrlInvariant, PTL

\* Links that open files and patches keep tabs, active tab, file and patch together, too.
THEOREM UrlTabsAgree == UrlSpec => []TabsAgree
  <1>1. UrlInv => TabsAgree
    BY GoodStoreAgrees DEF UrlInv, UrlTypes, StoreInv
  <1> QED
    BY <1>1, UrlInvariant, PTL
=============================================================================
