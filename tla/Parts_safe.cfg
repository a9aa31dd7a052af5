SPECIFICATION PartsSpec
CONSTANTS
  r1 = r1  r2 = r2  s1 = s1  s2 = s2  f1 = f1  f2 = f2  l1 = l1  q1 = q1  w2 = w2  None = None
  Files = {f1, f2}  Patches = {q1}  Repositories = {r1, r2}  Sessions = {s1, s2}
  Places = {l1}  ToolPanels = {"explorer", "search"}  MaxTabs = 2
  Links <- MCLinks  MaxPicks = 3
  ChatRepos = {r1, r2}  ChatSessions = {s1, s2}  Texts = {t1, t2}  NoChat = NoChat
  HistoryLimit = 4  MaxSends = 2  MaxMoves = 2  NoData = NoData
  PlanSessions = {s1, s2}  NoPlan = NoPlan  MaxClicks = 2  MaxTurns = 1
  ScopeFiles = {f1}  ScopeFolders = {d1}  MaxScopeClicks = 2  MaxScopeTurns = 1
  ListSessions = {s1, s2}  Titles = {t1}  Untitled = Untitled  NoSession = NoSession
  MaxListClicks = 2
  Windows = {w1, w2}  Users = {adm, usr}  Admins = {adm}  Nobody = Nobody  NoToken = NoToken
  MaxLogins = 2  MaxVisits = 1  MaxCalls = 1  MaxRoleChanges = 1
  Jobs = {j1}  NoJob = NoJob  Started = Started  MaxNotices = 1  MaxDismissed = 2  MaxReloads = 1  MaxPatchSteps = 6
  PanelKeys = {k1, k2}  NoKey = NoKey  Pages = 3  MaxChanges = 4  MaxSearches = 3
  Threshold = 2  CallSlots = {c1, c2}  MaxCancels = 2
  Invites = {i1, i2}  Emails = {e1, e2}  Registrations = {g1, g2}  NoInvite = NoInvite
  Processes = {p1, p2}  Limit = 2  Window = 2  MaxTime = 3
INVARIANTS PartsTypeOK TabsAgree QuietAgrees SendingMatchesStream AnswersUnderQuestions
  RoleIsOfToken DismissedStaysGone PanelsShowTheirKey SearchSettles
  OneAccountPerInvite WindowLimit
PROPERTIES ReloadKeepsWork UrlSettles ChatCatchesUp PlanCatchesUp DraftSettles ScopeCatchesUp
  SessionListCatchesUp ListsCatchUp EndIsNoticed BreakerCloses
CHECK_DEADLOCK FALSE
