--------------------------- MODULE BrowserProofs ----------------------------
(***************************************************************************)
(* Proofs about the parts of the browser that stand by themselves, each for*)
(* every value of its constants and every length of its history:           *)
(* ClientSession (the middleware never trusts the role of another user or  *)
(* log-in, and the walkthrough opens once), JobNotices (a dismissed notice *)
(* stays gone), PanelFetch (what a panel shows is what it stands for),   *)
(* and the copies of SessionScope, SessionList, PlanReview and JobNotices  *)
(* once they rest.                                                         *)
(***************************************************************************)
EXTENDS ClientSession, JobNotices, PanelFetch, SessionScope, SessionList, PlanReview,
        SequenceLemmas

-----------------------------------------------------------------------------
(* ClientSession: who is logged in *)

(* The inductive invariant *)

Auth == [user : Users \cup {Nobody}, role : Roles \cup {""}, hydrated : BOOLEAN]
Tour == [user : Users, isOpen : BOOLEAN] \cup {NoTour}
Seen == {NoToken} \cup ((Users \cup {Nobody}) \X (Roles \cup {""}))
Page == [page : WebPages, auth : Auth, tour : Tour, seen : Seen]
Login == [stage : {"none", "sent", "me"}, user : Users \cup {Nobody},
          token : Tokens \cup {NoToken}, form : {"login", "admin-login"}]
Storage == [token : Tokens \cup {NoToken}, user : Users \cup {Nobody}, role : Roles \cup {""}]
Cookies == [token : Tokens \cup {NoToken}, role : Roles \cup {""}]
Tours == [completed : SUBSET Users, brandNew : SUBSET Users, pending : Users \cup {Nobody}]
Call == [tab : Windows, token : Tokens \cup {NoToken}]

\* SessionTypeOK, with the types of the records a window keeps.
TypeInv ==
  /\ accounts \subseteq Users
  /\ minted \in 0..MaxLogins
  /\ expired \subseteq Tokens
  /\ storage \in Storage
  /\ cookies \in Cookies
  /\ tours \in Tours
  /\ win \in [Windows -> Page]
  /\ login \in [Windows -> Login]
  /\ calls \subseteq Call
  /\ toured \in [Users -> Nat]
RoleTypes ==
  /\ roles \in [Users -> Roles]
  /\ roleChanges \in 0..MaxRoleChanges
  /\ granted \in [1..MaxLogins -> Roles \cup {""}]

\* A log-in under way is of a registered user, and its token is that user's.
LoginInv ==
  \A t \in Windows :
    /\ login[t].stage # "none" => login[t].user \in accounts
    /\ login[t].stage = "me" => login[t].token \in Tokens /\ login[t].token.user = login[t].user

\* A registration leaves one permit for the walkthrough, which is the pending email, then
\* the mark of a brand-new user, then spent.
Permit(u) ==
  /\ u \in accounts \ Admins \/ (toured[u] = 0 /\ u \notin tours.brandNew /\ tours.pending # u)
  /\ toured[u] = 0 \/ (toured[u] = 1 /\ u \notin tours.brandNew /\ tours.pending # u)
  /\ u \in tours.brandNew => tours.pending # u
TourInv == Admins \subseteq accounts /\ \A u \in Users : Permit(u)

SessionInv == TypeInv /\ RoleTypes /\ LoginInv /\ RoleIsOfToken /\ TourInv

-----------------------------------------------------------------------------
LEMMA RedirectedType == ASSUME NEW p \in WebPages PROVE Redirected(p) \in WebPages
  BY DEF Redirected, Home, WebPages, AuthPages, AdminAuthPages

\* What a request leaves of the cookies.
LEMMA RequestedCookies ==
  ASSUME NEW p, Requested(p), UNCHANGED granted, cookies \in Cookies, RoleIsOfToken
  PROVE  cookies' \in Cookies /\ RoleIsOfToken'
  BY DEF Requested, Cookies, RoleIsOfToken

LEMMA ClearedSession ==
  ASSUME ClearAuthSession
  PROVE  storage' \in Storage /\ cookies' \in Cookies /\ RoleIsOfToken'
  BY DEF ClearAuthSession, Storage, Cookies, RoleIsOfToken

LEMMA TokenType ==
  ASSUME storage \in Storage, cookies \in Cookies
  PROVE  GetAccessToken \in Tokens \cup {NoToken}
  BY DEF GetAccessToken, Storage, Cookies

LEMMA LoadedType == ASSUME NEW p \in WebPages PROVE Loaded(p) \in Page
  BY DEF Loaded, SignedOut, NoTour, Page, Auth, Tour, Seen

LEMMA NoTourType == NoTour \in Tour
  BY DEF Tour

\* What the effect of a new user leaves in the window.
LEMMA TourUpdate ==
  ASSUME win \in [Windows -> Page], NEW t \in Windows,
         NEW s \in Seen, NEW x \in Tour
  PROVE  [win EXCEPT ![t].seen = s, ![t].tour = x] \in [Windows -> Page]
  BY DEF Page

LEMMA NoLoginType == NoLogin \in Login
  BY DEF NoLogin, Login

LEMMA LoggedOutWin ==
  ASSUME NEW t \in Windows, LogoutIn(t), win \in [Windows -> Page]
  PROVE  win' \in [Windows -> Page] /\ storage' \in Storage /\ cookies' \in Cookies /\ RoleIsOfToken'
  <1>1. SignedOut \in Auth
    BY DEF SignedOut, Auth
  <1>2. win' \in [Windows -> Page]
    BY ZenonT(40), <1>1 DEF LogoutIn, Page, WebPages, AuthPages, AdminAuthPages
  <1> QED
    BY <1>2, ClearedSession DEF LogoutIn

-----------------------------------------------------------------------------
\* It holds when the windows open.
LEMMA SessionInvInit == ClientSessionInit => SessionInv
  <1> SUFFICES ASSUME ClientSessionInit PROVE SessionInv
    OBVIOUS
  <1> USE ClientSessionAssumption DEF ClientSessionInit
  <1> DEFINE fresh == [Loaded("login") EXCEPT !.auth = SignedOut, !.seen = <<Nobody, "">>]
  <1>1. fresh \in Page
    BY DEF Loaded, SignedOut, NoTour, Page, Auth, Tour, Seen, WebPages, AuthPages
  <1>2. TypeInv
    <2>1. storage \in Storage /\ cookies \in Cookies /\ tours \in Tours
      BY DEF Storage, Cookies, Tours
    <2>2. win = [t \in Windows |-> fresh] /\ login = [t \in Windows |-> NoLogin]
      OBVIOUS
    <2> HIDE DEF fresh
    <2>3. win \in [Windows -> Page]
      BY <1>1, <2>2
    <2>4. login \in [Windows -> Login]
      BY <2>2, NoLoginType
    <2> QED
      <3>1. accounts \subseteq Users /\ expired \subseteq Tokens /\ calls \subseteq Call
        OBVIOUS
      <3>a. minted = 0 /\ toured = [u \in Users |-> 0]
        OBVIOUS
      <3> HIDE DEF ClientSessionInit
      <3>2. minted \in 0..MaxLogins /\ toured \in [Users -> Nat]
        BY <3>a
      <3> QED
        BY <2>1, <2>3, <2>4, <3>1, <3>2 DEF TypeInv
  <1>o. RoleTypes
    <2>a. roleChanges = 0
      OBVIOUS
    <2>1. /\ granted = [n \in 1..MaxLogins |-> ""]
          /\ roles = [u \in Users |-> IF u \in Admins THEN "ADMIN" ELSE "USER"]
      OBVIOUS
    <2> HIDE DEF ClientSessionInit
    <2>2. roles \in [Users -> Roles]
      BY <2>1 DEF Roles
    <2>3. roleChanges \in 0..MaxRoleChanges
      BY <2>a
    <2>4. granted \in [1..MaxLogins -> Roles \cup {""}]
      BY <2>1
    <2> QED
      BY <2>2, <2>3, <2>4 DEF RoleTypes
  <1>3. LoginInv
    BY DEF LoginInv, NoLogin
  <1>4. RoleIsOfToken
    BY DEF RoleIsOfToken
  <1>5. TourInv
    BY DEF TourInv, Permit
  <1> QED
    BY <1>2, <1>o, <1>3, <1>4, <1>5 DEF SessionInv

\* Every step of every window, of the server and of a user keeps it.
LEMMA SessionInvStep == SessionInv /\ [ClientSessionNext]_sessionVars => SessionInv'
  <1> SUFFICES ASSUME SessionInv, [ClientSessionNext]_sessionVars PROVE SessionInv'
    OBVIOUS
  <1> USE ClientSessionAssumption DEF roleVars
  \* What follows when neither log-ins nor walkthroughs are touched.
  <1>l. ASSUME UNCHANGED <<accounts, login>> PROVE LoginInv'
    BY <1>l DEF SessionInv, LoginInv
  <1>t. ASSUME UNCHANGED <<accounts, tours, toured>> PROVE TourInv'
    BY <1>t DEF SessionInv, TourInv, Permit
  <1>r. ASSUME UNCHANGED <<cookies, granted>> PROVE RoleIsOfToken'
    BY <1>r DEF SessionInv, RoleIsOfToken
  <1>o. ASSUME UNCHANGED <<roleVars, granted>> PROVE RoleTypes'
    BY <1>o DEF SessionInv, RoleTypes
  <1>1. CASE \E t \in Windows, p \in WebPages : LoadPage(t, p)
    <2> PICK t \in Windows, p \in WebPages : LoadPage(t, p)
      BY <1>1
    <2>1. cookies' \in Cookies /\ RoleIsOfToken'
      BY RequestedCookies DEF LoadPage, SessionInv, TypeInv
    <2>2. TypeInv'
      BY <2>1, RedirectedType, LoadedType, NoLoginType DEF LoadPage, SessionInv, TypeInv
    <2>3. LoginInv'
      BY DEF LoadPage, SessionInv, TypeInv, LoginInv, NoLogin
    <2> QED
      BY <2>1, <2>2, <2>3, <1>t, <1>o DEF LoadPage, SessionInv
  <1>2. CASE \E t \in Windows, p \in WebPages : FollowNav(t, p)
    <2> PICK t \in Windows, p \in WebPages : FollowNav(t, p)
      BY <1>2
    <2>1. cookies' \in Cookies /\ RoleIsOfToken'
      BY RequestedCookies DEF FollowNav, SessionInv, TypeInv
    <2>2. TypeInv'
      BY <2>1, RedirectedType DEF FollowNav, SessionInv, TypeInv, Page
    <2> QED
      BY <2>1, <2>2, <1>l, <1>t, <1>o DEF FollowNav, SessionInv
  <1>3. CASE \E t \in Windows, u \in Users : RegisterAs(t, u)
    <2> PICK t \in Windows, u \in Users : RegisterAs(t, u)
      BY <1>3
    <2>1. cookies' \in Cookies /\ RoleIsOfToken'
      BY RequestedCookies DEF RegisterAs, SessionInv, TypeInv
    <2>a. "login" \in WebPages
      BY DEF WebPages, AuthPages
    <2>2. TypeInv'
      BY <2>1, <2>a, RedirectedType DEF RegisterAs, SessionInv, TypeInv, Page, Tours
    <2>3. LoginInv'
      BY DEF RegisterAs, SessionInv, LoginInv
    <2>4. TourInv'
      BY DEF RegisterAs, SessionInv, TypeInv, Tours, TourInv, Permit
    <2> QED
      BY <2>1, <2>2, <2>3, <2>4, <1>o DEF RegisterAs, SessionInv
  <1>4. CASE \E t \in Windows, u \in Users : SubmitLogin(t, u)
    <2> PICK t \in Windows, u \in Users : SubmitLogin(t, u)
      BY <1>4
    <2>1. TypeInv'
      BY DEF SubmitLogin, SessionInv, TypeInv, Login
    <2>2. LoginInv'
      BY DEF SubmitLogin, SessionInv, TypeInv, LoginInv
    <2> QED
      BY <2>1, <2>2, <1>t, <1>r, <1>o DEF SubmitLogin, SessionInv
  <1>5. CASE \E t \in Windows : HydrateFromStorage(t)
    <2> PICK t \in Windows : HydrateFromStorage(t)
      BY <1>5
    <2>1. SignedOut \in Auth
      BY DEF SignedOut, Auth
    <2>2. win' \in [Windows -> Page]
      <3>1. [user |-> storage.user, role |-> storage.role, hydrated |-> TRUE] \in Auth
        BY DEF SessionInv, TypeInv, Auth, Storage
      <3>2. \/ win' = [win EXCEPT ![t].auth = [user |-> storage.user, role |-> storage.role,
                                             hydrated |-> TRUE]]
            \/ win' = [win EXCEPT ![t].auth = SignedOut]
        BY DEF HydrateFromStorage
      <3> QED
        BY ZenonT(40), <2>1, <3>1, <3>2 DEF SessionInv, TypeInv, Page
    <2>3. storage' \in Storage /\ cookies' \in Cookies /\ RoleIsOfToken'
      BY <1>r, ClearedSession DEF HydrateFromStorage, SessionInv, TypeInv
    <2>4. TypeInv'
      BY <2>2, <2>3 DEF HydrateFromStorage, SessionInv, TypeInv
    <2> QED
      BY <2>3, <2>4, <1>l, <1>t, <1>o DEF HydrateFromStorage, SessionInv
  <1>6. CASE \E t \in Windows : OnboardingInitializer(t)
    <2> PICK t \in Windows : OnboardingInitializer(t)
      BY <1>6
    <2> DEFINE u == win[t].auth.user
    <2>1. u \in Users \cup {Nobody} /\ Who(t) \in Seen
      BY DEF SessionInv, TypeInv, Page, Auth, Who, Seen
    <2>2. CASE win[t].auth.role = "ADMIN" \/ u = Nobody
      <3>a. /\ UNCHANGED <<tours, toured>>
            /\ \/ win' = [win EXCEPT ![t].seen = Who(t)]
               \/ win' = [win EXCEPT ![t].seen = Who(t), ![t].tour = NoTour]
        BY <2>2 DEF OnboardingInitializer
      <3>1. win' \in [Windows -> Page]
        <4>1. CASE win' = [win EXCEPT ![t].seen = Who(t)]
          BY <2>1, <4>1 DEF SessionInv, TypeInv, Page
        <4>2. CASE win' = [win EXCEPT ![t].seen = Who(t), ![t].tour = NoTour]
          BY <2>1, <4>2, TourUpdate, NoTourType DEF SessionInv, TypeInv
        <4> QED
          BY <3>a, <4>1, <4>2
      <3>2. TypeInv'
        BY <3>1, <3>a DEF OnboardingInitializer, SessionInv, TypeInv
      <3> QED
        BY <3>a, <3>2, <1>l, <1>t, <1>r, <1>o DEF OnboardingInitializer, SessionInv
    <2>3. CASE u \in Users /\ win[t].auth.role # "ADMIN"
      <3>1. InitializeForUser(t, u)
        BY <2>3, ClientSessionAssumption DEF OnboardingInitializer
      <3>a. win' \in [Windows -> Page]
        <4> DEFINE o == ~(u \in tours.completed) /\ u \in tours.brandNew
        <4>1. win' = [win EXCEPT ![t].seen = Who(t), ![t].tour = [user |-> u, isOpen |-> o]]
          BY <3>1 DEF InitializeForUser
        <4>2. [user |-> u, isOpen |-> o] \in Tour
          BY <2>3, ZenonT(30) DEF Tour
        <4> HIDE DEF o
        <4> QED
          BY <2>1, <4>1, <4>2, TourUpdate DEF SessionInv, TypeInv
      <3>b. tours' \in Tours
        BY <2>3, <3>1 DEF InitializeForUser, SessionInv, TypeInv, Tours
      <3>2. win' \in [Windows -> Page] /\ tours' \in Tours /\ toured' \in [Users -> Nat]
        BY <2>3, <3>1, <3>a, <3>b DEF InitializeForUser, SessionInv, TypeInv
      <3>3. TypeInv'
        BY <3>2 DEF OnboardingInitializer, SessionInv, TypeInv
      <3>4. TourInv'
        BY <2>3, <3>1, SMTT(40) DEF OnboardingInitializer, InitializeForUser, SessionInv, TypeInv, Tours,
                          TourInv, Permit
      <3> QED
        BY <3>3, <3>4, <1>l, <1>r, <1>o DEF OnboardingInitializer, SessionInv
    <2> QED
      BY <2>1, <2>2, <2>3
  <1>7. CASE \E t \in Windows : SignOut(t)
    <2> PICK t \in Windows : SignOut(t)
      BY <1>7
    <2>1. TypeInv' /\ RoleIsOfToken'
      BY LoggedOutWin DEF SignOut, SessionInv, TypeInv
    <2> QED
      BY <2>1, <1>l, <1>t, <1>o DEF SignOut, SessionInv
  <1>8. CASE \E t \in Windows : LoginAnswered(t)
    <2> PICK t \in Windows : LoginAnswered(t)
      BY <1>8
    <2>1. login[t].user \in Users /\ minted' \in 1..MaxLogins
      BY DEF LoginAnswered, SessionInv, TypeInv, LoginInv
    <2>2. [user |-> login[t].user, n |-> minted'] \in Tokens
      BY <2>1 DEF Tokens
    <2>a. login' \in [Windows -> Login]
      <3> DEFINE k == [user |-> login[t].user, n |-> minted']
      <3>1. login' = [login EXCEPT ![t].stage = "me", ![t].token = k]
        BY DEF LoginAnswered
      <3>2. k \in Tokens
        BY <2>2
      <3> DEFINE l == [login[t] EXCEPT !.stage = "me", !.token = k]
      <3>3. login \in [Windows -> Login]
        BY DEF SessionInv, TypeInv
      <3>4. l \in Login
        <4> HIDE DEF k
        <4> QED
          BY <3>2, <3>3 DEF Login
      <3>5. login' = [login EXCEPT ![t] = l]
        BY <3>1, <3>3
      <3> HIDE DEF l
      <3> QED
        BY <3>3, <3>4, <3>5
    <2>3. TypeInv'
      BY <2>1, <2>a DEF LoginAnswered, SessionInv, TypeInv
    <2>4. LoginInv'
      BY <2>2 DEF LoginAnswered, SessionInv, TypeInv, Login, LoginInv
    <2> QED
      BY <2>3, <2>4, <1>t, <1>r, <1>o DEF LoginAnswered, SessionInv
  <1>9. CASE \E t \in Windows : MeAnswered(t)
    <2> PICK t \in Windows : MeAnswered(t)
      BY <1>9
    <2> DEFINE u == login[t].user
    <2>1. u \in Users /\ login[t].token \in Tokens /\ login[t].token.user = u
      BY DEF MeAnswered, SessionInv, TypeInv, LoginInv
    <2>a. roles[u] \in Roles /\ login[t].token.n \in 1..MaxLogins
      BY <2>1 DEF SessionInv, TypeInv, RoleTypes, Tokens
    <2>b. granted' = [granted EXCEPT ![login[t].token.n] = roles[u]]
      BY DEF MeAnswered
    <2>c. /\ granted' \in [1..MaxLogins -> Roles \cup {""}]
          /\ granted'[login[t].token.n] = roles[u]
      BY <2>a, <2>b DEF SessionInv, RoleTypes
    <2>d. /\ storage' = [token |-> login[t].token, user |-> u, role |-> roles[u]]
          /\ cookies' = [token |-> login[t].token, role |-> roles[u]]
      BY DEF MeAnswered, SetAuthSession
    <2>2. storage' \in Storage /\ cookies' \in Cookies /\ RoleIsOfToken'
      <3>1. storage' \in Storage /\ cookies' \in Cookies
        BY <2>1, <2>a, <2>d DEF Storage, Cookies
      <3>2. RoleIsOfToken'
        BY <2>a, <2>c, <2>d DEF RoleIsOfToken, Roles
      <3> QED
        BY <3>1, <3>2
    <2>3. win' \in [Windows -> Page]
      <3>1. [user |-> u, role |-> roles[u], hydrated |-> TRUE] \in Auth
        BY <2>1, <2>a DEF Auth
      <3>2. {"admin", Home(roles[u])} \subseteq WebPages
        BY DEF Home, WebPages
      <3> QED
        BY ZenonT(40), <3>1, <3>2 DEF MeAnswered, SessionInv, TypeInv, Page
    <2>4. tours' \in Tours
      BY <2>1 DEF MeAnswered, SessionInv, TypeInv, Tours
    <2>5. TypeInv'
      BY <2>2, <2>3, <2>4, NoLoginType DEF MeAnswered, SessionInv, TypeInv
    <2>6. LoginInv'
      BY DEF MeAnswered, SessionInv, TypeInv, LoginInv, NoLogin
    <2>7. TourInv'
      BY <2>1 DEF MeAnswered, SessionInv, TypeInv, Tours, TourInv, Permit
    <2> QED
      <3>1. RoleTypes'
        BY <2>c DEF MeAnswered, SessionInv, RoleTypes
      <3> QED
        BY <2>2, <2>5, <2>6, <2>7, <3>1 DEF SessionInv
  <1>10. CASE \E t \in Windows : LoginFails(t)
    <2> PICK t \in Windows : LoginFails(t)
      BY <1>10
    <2>1. /\ win' \in [Windows -> Page] /\ storage' \in Storage
          /\ cookies' \in Cookies /\ RoleIsOfToken'
      BY LoggedOutWin, <1>r DEF LoginFails, SessionInv, TypeInv
    <2>2. TypeInv'
      BY <2>1, NoLoginType DEF LoginFails, SessionInv, TypeInv
    <2>3. LoginInv'
      BY DEF LoginFails, SessionInv, TypeInv, LoginInv, NoLogin
    <2> QED
      BY <2>1, <2>2, <2>3, <1>t, <1>o DEF LoginFails, SessionInv
  <1>11. CASE \E t \in Windows : SendCall(t)
    <2> PICK t \in Windows : SendCall(t)
      BY <1>11
    <2>1. TypeInv'
      BY TokenType DEF SendCall, SessionInv, TypeInv, Call
    <2> QED
      BY <2>1, <1>l, <1>t, <1>r, <1>o DEF SendCall, SessionInv
  <1>12. CASE \E t \in Windows : DismissOnboarding(t)
    <2> PICK t \in Windows : DismissOnboarding(t)
      BY <1>12
    <2>1. TypeInv'
      <3>a. win[t].tour \in [user : Users, isOpen : BOOLEAN]
        BY DEF DismissOnboarding, TourShown, SessionInv, TypeInv, Page, Tour, NoTour
      <3>1. win' \in [Windows -> Page]
        <4> DEFINE closed == [win[t].tour EXCEPT !.isOpen = FALSE]
        <4>1. closed \in Tour
          BY <3>a DEF Tour
        <4>2. win' = [win EXCEPT ![t].tour = closed]
          BY DEF DismissOnboarding
        <4> HIDE DEF closed
        <4> QED
          BY <4>1, <4>2 DEF SessionInv, TypeInv, Page
      <3>2. tours' \in Tours
        BY <3>a DEF DismissOnboarding, SessionInv, TypeInv, Tours
      <3> QED
        BY <3>1, <3>2 DEF DismissOnboarding, SessionInv, TypeInv
    <2>2. TourInv'
      BY DEF DismissOnboarding, SessionInv, TypeInv, Tours, TourInv, Permit
    <2> QED
      BY <2>1, <2>2, <1>l, <1>r, <1>o DEF DismissOnboarding, SessionInv
  <1>13. CASE \E c \in calls : CallAnswered(c)
    <2> PICK c \in calls : CallAnswered(c)
      BY <1>13
    <2>1. TypeInv'
      BY DEF CallAnswered, SessionInv, TypeInv
    <2> QED
      BY <2>1, <1>l, <1>t, <1>r, <1>o DEF CallAnswered, SessionInv
  <1>14. CASE \E c \in calls : CallUnauthorized(c)
    <2> PICK c \in calls : CallUnauthorized(c)
      BY <1>14
    <2>1. c.tab \in Windows
      BY DEF SessionInv, TypeInv, Call
    <2>2. TypeInv' /\ RoleIsOfToken'
      BY <2>1, LoggedOutWin DEF CallUnauthorized, SessionInv, TypeInv
    <2> QED
      BY <2>2, <1>l, <1>t, <1>o DEF CallUnauthorized, SessionInv
  <1>15. CASE TokenExpires
    <2>1. TypeInv'
      BY <1>15 DEF TokenExpires, Live, SessionInv, TypeInv, Storage
    <2> QED
      BY <1>15, <2>1, <1>l, <1>t, <1>r, <1>o DEF TokenExpires, SessionInv
  <1>16. CASE \E u \in Users : ChangeRole(u)
    <2> PICK u \in Users : ChangeRole(u)
      BY <1>16
    <2> DEFINE role == IF roles[u] = "ADMIN" THEN "USER" ELSE "ADMIN"
    <2>a. roles' = [roles EXCEPT ![u] = role] /\ role \in Roles
      BY DEF ChangeRole, Roles
    <2>b. roleChanges' = roleChanges + 1 /\ roleChanges < MaxRoleChanges
      BY DEF ChangeRole
    <2> HIDE DEF role
    <2>c. roles' \in [Users -> Roles]
      BY <2>a DEF SessionInv, RoleTypes
    <2>d. roleChanges' \in 0..MaxRoleChanges
      <3>1. roleChanges \in 0..MaxRoleChanges
        BY Zenon DEF SessionInv, RoleTypes
      <3> QED
        BY <2>b, <3>1
    <2>1. RoleTypes'
      BY <2>c, <2>d DEF ChangeRole, SessionInv, RoleTypes
    <2>2. TypeInv'
      BY DEF ChangeRole, SessionInv, TypeInv
    <2> QED
      BY <2>1, <2>2, <1>l, <1>t, <1>r DEF ChangeRole, SessionInv
  <1>17. CASE UNCHANGED sessionVars
    <2>1. TypeInv'
      BY <1>17 DEF sessionVars, SessionInv, TypeInv
    <2> QED
      BY <1>17, <2>1, <1>l, <1>t, <1>r, <1>o DEF sessionVars, SessionInv
  <1> QED
    BY <1>1, <1>2, <1>3, <1>4, <1>5, <1>6, <1>7, <1>8, <1>9, <1>10, <1>11, <1>12, <1>13, <1>14,
       <1>15, <1>16, <1>17 DEF ClientSessionNext

-----------------------------------------------------------------------------
\* The invariant holds always.
THEOREM SessionInvariant == ClientSessionSpec => []SessionInv
  BY SessionInvInit, SessionInvStep, PTL DEF ClientSessionSpec

\* Every variable of the client's session keeps its type, in particular what two windows
\* write to one storage, for any number of windows, users, log-ins and changes of roles.
THEOREM SessionTypes == ClientSessionSpec => []SessionTypeOK
  <1>1. SessionInv => SessionTypeOK
    BY DEF SessionInv, TypeInv, RoleTypes, SessionTypeOK, Storage, Cookies, Tours, Page, Auth, Login
  <1> QED
    BY <1>1, SessionInvariant, PTL

\* The role beside a token in the cookies is the one /me gave with that token, for any number
\* of windows, users, log-ins and changes of roles: the middleware never admits by the role of
\* another user or of another log-in.  That the user still has this role is not claimed: an
\* administrator's change reaches the cookie with the next log-in.
THEOREM RoleFollowsToken == ClientSessionSpec => []RoleIsOfToken
  <1>1. SessionInv => RoleIsOfToken
    BY DEF SessionInv
  <1> QED
    BY <1>1, SessionInvariant, PTL

\* The walkthrough opens at most once for a user and never for one who was an administrator
\* from the start, whatever windows, reloads, log-ins, log-outs and changes of roles interleave.
THEOREM TourOpensOnce == ClientSessionSpec => []TourOnce
  <1>1. SessionInv => TourOnce
    BY DEF SessionInv, TypeInv, TourInv, Permit, TourOnce
  <1> QED
    BY <1>1, SessionInvariant, PTL

-----------------------------------------------------------------------------
(* JobNotices: the bell *)

\* Jobs and the patch draft change in any order, and share the bell.
NoticesNext == (JobsNext /\ UNCHANGED patchVars) \/ PatchNoticesNext
NoticesSpec == JobsInit /\ PatchNoticesInit /\ [][NoticesNext]_<<jobVars, patchVars>>

BellKeys == NoticeKeys \cup {Started}

\* A key that was dismissed is not in the bell, and only the notices without a key of
\* their own are there twice.
BellAgrees(b) ==
  /\ b \in Seq(BellKeys) /\ Len(b) <= MaxNotices
  /\ \A i \in DOMAIN b : b[i] \notin Keys(dismissed)
  /\ \A i, k \in DOMAIN b : b[i] = b[k] /\ i # k => b[i] = Started
BellInv ==
  /\ BellAgrees(bell) /\ Started \notin Keys(dismissed)
  /\ dismissed \in Seq(NoticeKeys) /\ Len(dismissed) <= MaxDismissed

\* The list of dismissed keys loses its oldest ones at most, and none until it is full; the
\* others stay in their order.
OldestGoFirst ==
  \E n \in 0 .. Len(dismissed) :
    /\ n > 0 => Len(dismissed)' = MaxDismissed
    /\ \A i \in DOMAIN dismissed : i > n => /\ i - n \in DOMAIN dismissed'
                                           /\ dismissed'[i - n] = dismissed[i]

\* What a step does to the bell.
BellStep ==
  \/ UNCHANGED <<bell, dismissed>>
  \/ \E key \in BellKeys : bell' = AddNotification(bell, key) /\ UNCHANGED dismissed
  \/ ClearAll
  \/ \E i \in DOMAIN bell : RemoveNotification(i)

\* Whatever hook raises a notice, the bell has one notice added, or is cleared, or loses one.
LEMMA StepsOfBell == [NoticesNext]_<<jobVars, patchVars>> => BellStep
  <1> SUFFICES ASSUME [NoticesNext]_<<jobVars, patchVars>> PROVE BellStep
    OBVIOUS
  <1>0. Jobs \subseteq BellKeys /\ Started \in BellKeys
        /\ \A status \in TerminalPatchStatuses : PatchNotice(status) \in BellKeys
    BY DEF BellKeys, NoticeKeys
  <1>1. CASE FetchJobs \/ FetchRepositories \/ RepositoriesAnswered
    BY <1>1 DEF FetchJobs, FetchRepositories, RepositoriesAnswered, BellStep
  <1>2. CASE JobsAnswered
    <2> DEFINE ended == {j \in Jobs : IsActiveIndexingStatus(seenStatus[j])
                                      /\ IsTerminal(jobsQuery.flight[j])}
               key == CHOOSE j \in ended : TRUE
    <2>1. dismissed' = dismissed /\ bell' = IF ended = {} THEN bell ELSE AddNotification(bell, key)
      BY <1>2 DEF JobsAnswered
    <2>2. ended # {} => key \in Jobs
      OBVIOUS
    <2> HIDE DEF ended, key
    <2> QED
      BY <2>1, <2>2, <1>0 DEF BellStep
  <1>3. CASE IndexStarted
    BY <1>0, <1>3 DEF IndexStarted, BellStep
  <1>4. ASSUME NEW j \in Jobs, FetchProgress(j) \/ ProgressAnswered(j) \/ JobRuns(j)
        PROVE  BellStep
    <2>1. CASE FetchProgress(j)
      BY <2>1 DEF FetchProgress, BellStep
    <2>2. CASE ProgressAnswered(j)
      BY <1>0, <2>2 DEF ProgressAnswered, BellStep
    <2>3. CASE JobRuns(j)
      BY <2>3 DEF JobRuns, BellStep
    <2> QED
      BY <1>4, <2>1, <2>2, <2>3
  <1>5. CASE ReloadDashboard
    BY <1>5 DEF ReloadDashboard, BellStep
  <1>6. CASE ClearAll \/ \E i \in DOMAIN bell : RemoveNotification(i)
    BY <1>6 DEF BellStep
  <1>7. ASSUME NEW j \in Jobs, StartIndex(j) PROVE BellStep
    BY <1>7 DEF StartIndex, BellStep
  <1>8. CASE PatchValidates \/ PressApply \/ FetchPatches
    BY <1>8 DEF PatchValidates, PressApply, FetchPatches, KeepJobsAndDismissed, BellStep
  <1>9. ASSUME NEW ok \in BOOLEAN, PatchApplied(ok) PROVE BellStep
    BY <1>9 DEF PatchApplied, KeepJobsAndDismissed, BellStep
  <1>10. CASE ApplySettles
    <2>1. \E status \in TerminalPatchStatuses : bell' = AddNotification(bell, PatchNotice(status))
      BY <1>10 DEF ApplySettles, TerminalPatchStatuses
    <2> QED
      BY <1>0, <1>10, <2>1 DEF ApplySettles, KeepJobsAndDismissed, BellStep
  <1>11. CASE PatchesAnswered
    BY <1>0, <1>11 DEF PatchesAnswered, KeepJobsAndDismissed, BellStep
  <1>12. CASE UNCHANGED <<jobVars, patchVars>>
    BY <1>12 DEF jobVars, BellStep
  <1> QED
    BY <1>1, <1>2, <1>3, <1>4, <1>5, <1>6, <1>7, <1>8, <1>9, <1>10, <1>11, <1>12
    DEF NoticesNext, JobsNext, JobsSystem, PatchNoticesNext

\* A new notice comes first; the oldest goes when there are too many.
LEMMA NewestProperties ==
  ASSUME NEW S, NEW b \in Seq(S), NEW key \in S
  PROVE  LET n == Newest(<<key>> \o b)
         IN  /\ n \in Seq(S) /\ Len(n) <= MaxNotices /\ DOMAIN n \subseteq Nat
             /\ \A i \in DOMAIN n : n[i] = IF i = 1 THEN key ELSE b[i - 1]
             /\ \A i \in DOMAIN n : i = 1 \/ i - 1 \in DOMAIN b
  <1> DEFINE c == <<key>> \o b
             m == IF Len(c) < MaxNotices THEN Len(c) ELSE MaxNotices
  <1>1. /\ c \in Seq(S) /\ Len(c) = Len(b) + 1 /\ Len(b) \in Nat
        /\ \A i \in 1 .. Len(c) : c[i] = IF i = 1 THEN key ELSE b[i - 1]
    OBVIOUS
  <1>2. m \in 0 .. Len(c) /\ m <= MaxNotices /\ m \in Nat
    BY <1>1, MaxNoticesAssumption
  <1>3. Newest(c) = SubSeq(c, 1, m)
    BY DEF Newest
  <1> HIDE DEF c, m
  <1>4. /\ SubSeq(c, 1, m) \in Seq(S) /\ Len(SubSeq(c, 1, m)) = m
        /\ \A i \in 1 .. m : SubSeq(c, 1, m)[i] = c[i]
    BY <1>1, <1>2
  <1>5. DOMAIN SubSeq(c, 1, m) = 1 .. m
    BY <1>4
  <1> DEFINE n == SubSeq(c, 1, m)
  <1>6. n \in Seq(S) /\ Len(n) <= MaxNotices /\ DOMAIN n \subseteq Nat
    BY <1>2, <1>4, <1>5
  <1>7. \A i \in DOMAIN n : n[i] = IF i = 1 THEN key ELSE b[i - 1]
    BY <1>1, <1>2, <1>4, <1>5
  <1>8. \A i \in DOMAIN n : i = 1 \/ i - 1 \in DOMAIN b
    BY <1>1, <1>2, <1>5
  <1> HIDE DEF n
  <1> QED
    BY <1>3, <1>6, <1>7, <1>8 DEF c, n

\* The dismissed keys after some notices were dismissed.
LEMMA DismissProperties ==
  ASSUME BellInv, NEW notices \in Seq(BellKeys)
  PROVE  LET d == Dismiss(notices)
         IN  /\ d \in Seq(NoticeKeys) /\ Len(d) <= MaxDismissed /\ Started \notin Keys(d)
             /\ Keys(d) \subseteq Keys(dismissed) \cup Keys(notices)
             /\ dismissed' = d => OldestGoFirst
  <1> DEFINE new == {i \in DOMAIN notices :
                       /\ notices[i] \notin Keys(dismissed) \cup {Started}
                       /\ \A k \in 1 .. (i - 1) : notices[k] # notices[i]}
             more == Filtered(notices, new)
             keys == WithKeysOf(notices)
             surplus == IF Len(keys) > MaxDismissed THEN Len(keys) - MaxDismissed ELSE 0
             d == SubSeq(keys, surplus + 1, Len(keys))
  <1>1. /\ dismissed \in Seq(NoticeKeys) /\ Len(dismissed) \in Nat /\ Len(dismissed) <= MaxDismissed
        /\ DOMAIN dismissed = 1 .. Len(dismissed) /\ Started \notin Keys(dismissed)
        /\ MaxDismissed \in Nat
    BY MaxDismissedAssumption DEF BellInv
  <1>2. Dismiss(notices) = d /\ keys = dismissed \o more
    BY DEF Dismiss, WithKeysOf
  <1>3. new \in SUBSET DOMAIN notices
    OBVIOUS
  <1>4. \A i \in new : notices[i] \in NoticeKeys \ {Started}
    BY DEF BellKeys
  <1> HIDE DEF new
  <1>5. /\ more \in Seq(BellKeys)
        /\ \A k \in DOMAIN more : \E i \in new : more[k] = notices[i]
    BY <1>3, FilteredProperties
  <1> HIDE DEF more
  <1>6. /\ \A k \in DOMAIN more : more[k] \in (NoticeKeys \ {Started}) \cap Keys(notices)
        /\ Len(more) \in Nat /\ DOMAIN more = 1 .. Len(more)
    BY <1>3, <1>4, <1>5 DEF Keys
  <1>7. more \in Seq(NoticeKeys)
    <2>1. more \in [1 .. Len(more) -> NoticeKeys]
      BY <1>5, <1>6
    <2> QED
      BY <1>6, <2>1, FunctionIsSequence
  <1>8. /\ keys \in Seq(NoticeKeys) /\ Len(keys) = Len(dismissed) + Len(more)
        /\ \A i \in 1 .. Len(keys) : keys[i] = IF i <= Len(dismissed) THEN dismissed[i]
                                                ELSE more[i - Len(dismissed)]
    BY <1>1, <1>2, <1>7
  <1>9. \A i \in 1 .. Len(keys) : /\ keys[i] \in Keys(dismissed) \cup Keys(notices)
                                  /\ keys[i] # Started
    <2> SUFFICES ASSUME NEW i \in 1 .. Len(keys)
                 PROVE  keys[i] \in Keys(dismissed) \cup Keys(notices) /\ keys[i] # Started
      OBVIOUS
    <2>1. CASE i <= Len(dismissed)
      <3>1. i \in DOMAIN dismissed /\ keys[i] = dismissed[i]
        BY <1>1, <1>8, <2>1
      <3> QED
        BY <1>1, <3>1 DEF Keys
    <2>2. CASE ~(i <= Len(dismissed))
      <3>1. i - Len(dismissed) \in DOMAIN more /\ keys[i] = more[i - Len(dismissed)]
        BY <1>1, <1>6, <1>8, <2>2
      <3> QED
        BY <1>6, <3>1
    <2> QED
      BY <2>1, <2>2
  <1> HIDE DEF keys
  <1>10. surplus \in Nat /\ surplus <= Len(keys) /\ Len(keys) - surplus <= MaxDismissed
         /\ Len(keys) \in Nat /\ (surplus > 0 => Len(keys) - surplus = MaxDismissed)
    BY <1>1, <1>6, <1>8
  <1> HIDE DEF surplus
  <1>11. /\ d \in Seq(NoticeKeys) /\ Len(d) = Len(keys) - surplus
         /\ DOMAIN d = 1 .. (Len(keys) - surplus)
         /\ \A i \in 1 .. (Len(keys) - surplus) : d[i] = keys[i + surplus]
    BY <1>8, <1>10
  <1> HIDE DEF d
  <1>12. Keys(d) \subseteq Keys(dismissed) \cup Keys(notices) /\ Started \notin Keys(d)
    <2>1. \A i \in DOMAIN d : d[i] = keys[i + surplus] /\ i + surplus \in 1 .. Len(keys)
      <3> SUFFICES ASSUME NEW i \in 1 .. (Len(keys) - surplus) PROVE i + surplus \in 1 .. Len(keys)
        BY <1>11
      <3> QED
        BY <1>10
    <2> QED
      BY <1>9, <2>1 DEF Keys
  <1>13. ASSUME dismissed' = d PROVE OldestGoFirst
    <2> DEFINE n == IF surplus <= Len(dismissed) THEN surplus ELSE Len(dismissed)
    <2>1. n \in 0 .. Len(dismissed) /\ (n > 0 => Len(d) = MaxDismissed)
      BY <1>1, <1>10, <1>11
    <2>2. ASSUME NEW i \in DOMAIN dismissed, i > n
          PROVE  i - n \in DOMAIN d /\ d[i - n] = dismissed[i]
      <3>1. n = surplus /\ i \in 1 .. Len(dismissed) /\ i <= Len(keys)
        BY <1>1, <1>6, <1>8, <2>2
      <3>2. i - n \in 1 .. (Len(keys) - surplus) /\ (i - n) + surplus = i
        BY <1>10, <2>2, <3>1
      <3> QED
        BY <1>8, <1>11, <3>1, <3>2
    <2> HIDE DEF n
    <2> QED
      BY <1>13, <2>1, <2>2 DEF OldestGoFirst
  <1> QED
    BY <1>2, <1>10, <1>11, <1>12, <1>13

\* None of these brings a dismissed key back.
LEMMA BellInvStep == BellInv /\ BellStep => BellInv' /\ OldestGoFirst
  <1> SUFFICES ASSUME BellInv, BellStep PROVE BellInv' /\ OldestGoFirst
    OBVIOUS
  <1>0. /\ bell \in Seq(BellKeys) /\ Len(bell) <= MaxNotices /\ Len(bell) \in Nat
        /\ DOMAIN bell = 1 .. Len(bell)
        /\ dismissed \in Seq(NoticeKeys) /\ Len(dismissed) \in Nat
    BY DEF BellInv, BellAgrees
  <1>a. UNCHANGED dismissed => OldestGoFirst
    <2> SUFFICES ASSUME UNCHANGED dismissed
                 PROVE  \E n \in 0 .. Len(dismissed) :
                          /\ n > 0 => Len(dismissed') = MaxDismissed
                          /\ \A i \in DOMAIN dismissed : i > n =>
                               i - n \in DOMAIN dismissed' /\ dismissed'[i - n] = dismissed[i]
      BY DEF OldestGoFirst
    <2>1. 0 \in 0 .. Len(dismissed) /\ \A i \in DOMAIN dismissed : i \in Int /\ i - 0 = i
      BY <1>0
    <2> WITNESS 0 \in 0 .. Len(dismissed)
    <2> QED
      BY <2>1
  <1>1. CASE UNCHANGED <<bell, dismissed>>
    BY <1>a, <1>1 DEF BellInv, BellAgrees, Keys
  <1>2. ASSUME NEW key \in BellKeys, bell' = AddNotification(bell, key), UNCHANGED dismissed
        PROVE  BellInv'
    <2>1. CASE key \in Keys(dismissed) \/ (key # Started /\ key \in Keys(bell))
      BY <1>2, <2>1 DEF AddNotification, BellInv, BellAgrees
    <2>2. CASE ~(key \in Keys(dismissed) \/ (key # Started /\ key \in Keys(bell)))
      <3> DEFINE n == Newest(<<key>> \o bell)
      <3>1. bell' = n
        BY <1>2, <2>2 DEF AddNotification
      <3>2. /\ n \in Seq(BellKeys) /\ Len(n) <= MaxNotices /\ DOMAIN n \subseteq Nat
            /\ \A i \in DOMAIN n : n[i] = IF i = 1 THEN key ELSE bell[i - 1]
            /\ \A i \in DOMAIN n : i = 1 \/ i - 1 \in DOMAIN bell
        BY <1>0, NewestProperties
      <3> HIDE DEF n
      <3>3. key = Started \/ \A i \in DOMAIN bell : bell[i] # key
        BY <2>2 DEF Keys
      <3>4. \A i \in DOMAIN n : n[i] \notin Keys(dismissed)
        BY <2>2, <3>2 DEF BellInv, BellAgrees
      <3>5. ASSUME NEW i \in DOMAIN n, NEW k \in DOMAIN n, n[i] = n[k], i # k
            PROVE  n[i] = Started
        <4>1. CASE i = 1
          BY <4>1, <3>2, <3>3, <3>5
        <4>2. CASE k = 1
          BY <4>2, <3>2, <3>3, <3>5
        <4>3. CASE i # 1 /\ k # 1
          <5>1. i - 1 \in DOMAIN bell /\ k - 1 \in DOMAIN bell /\ i - 1 # k - 1
            BY <4>3, <3>2, <3>5
          <5>2. bell[i - 1] = bell[k - 1] /\ n[i] = bell[i - 1]
            BY <4>3, <3>2, <3>5
          <5> QED
            BY <5>1, <5>2 DEF BellInv, BellAgrees
        <4> QED
          BY <4>1, <4>2, <4>3
      <3> QED
        BY <1>2, <3>1, <3>2, <3>4, <3>5 DEF BellInv, BellAgrees
    <2> QED
      BY <2>1, <2>2
  <1>3. CASE ClearAll
    BY <1>0, <1>3, DismissProperties, MaxNoticesAssumption DEF ClearAll, BellInv, BellAgrees
  <1>4. ASSUME NEW i \in DOMAIN bell, RemoveNotification(i) PROVE BellInv' /\ OldestGoFirst
    <2> DEFINE At(k) == IF k < i THEN k ELSE k + 1
               n == [k \in 1 .. (Len(bell) - 1) |-> bell[At(k)]]
    <2>1. bell' = n
      BY <1>4 DEF RemoveNotification
    <2>2. \A k \in 1 .. (Len(bell) - 1) : At(k) \in DOMAIN bell /\ At(k) # i
      BY <1>0
    <2>3. \A k, l \in 1 .. (Len(bell) - 1) : k # l => At(k) # At(l)
      BY <1>0
    <2> HIDE DEF At
    <2>4. n \in [1 .. (Len(bell) - 1) -> BellKeys] /\ Len(bell) - 1 \in Nat
      BY <1>0, <2>2
    <2>5. n \in Seq(BellKeys) /\ Len(n) = Len(bell) - 1 /\ DOMAIN n = 1 .. (Len(bell) - 1)
      BY <2>4, FunctionIsSequence
    <2>6. \A k \in DOMAIN n : n[k] = bell[At(k)] /\ At(k) \in DOMAIN bell /\ At(k) # i
      BY <2>2, <2>5
    <2> HIDE DEF n
    <2>7. \A k \in DOMAIN n : n[k] \notin Keys(dismissed) /\ (n[k] = bell[i] => bell[i] = Started)
      BY <2>6 DEF BellInv, BellAgrees
    <2>8. \A k, l \in DOMAIN n : n[k] = n[l] /\ k # l => n[k] = Started
      BY <2>3, <2>5, <2>6 DEF BellInv, BellAgrees
    <2>9. /\ dismissed' = Dismiss(<<bell[i]>>) /\ <<bell[i]>> \in Seq(BellKeys)
          /\ Keys(<<bell[i]>>) = {bell[i]}
      BY <1>0, <1>4 DEF RemoveNotification, Keys
    <2>10. /\ dismissed' \in Seq(NoticeKeys) /\ Len(dismissed') <= MaxDismissed
           /\ Started \notin Keys(dismissed') /\ OldestGoFirst
           /\ Keys(dismissed') \subseteq Keys(dismissed) \cup {bell[i]}
      BY <2>9, DismissProperties
    <2>11. \A k \in DOMAIN n : n[k] \notin Keys(dismissed')
      BY <2>7, <2>10
    <2>12. Len(n) <= MaxNotices
      BY <1>0, <2>5, MaxNoticesAssumption
    <2> QED
      BY <2>1, <2>5, <2>8, <2>10, <2>11, <2>12 DEF BellInv, BellAgrees, Keys
  <1> QED
    BY <1>a, <1>1, <1>2, <1>3, <1>4 DEF BellStep

LEMMA BellInvInit == JobsInit => BellInv
  BY MaxNoticesAssumption, MaxDismissedAssumption DEF JobsInit, BellInv, BellAgrees, Keys

\* The bell agrees with the dismissed keys always.
THEOREM BellInvariant == NoticesSpec => []BellInv
  BY BellInvInit, StepsOfBell, BellInvStep, PTL DEF NoticesSpec

\* A notice the user removed or cleared is not in the bell any more, whichever hooks raise it
\* again, and a key has one notice at most.
THEOREM NoticesStayGone == NoticesSpec => []DismissedStaysGone
  <1>1. BellInv => DismissedStaysGone
    BY DEF BellInv, BellAgrees, DismissedStaysGone, Keys
  <1> QED
    BY <1>1, BellInvariant, PTL

\* And it stays so until MaxDismissed keys were dismissed after it: the list of dismissed
\* keys loses one only in a step that leaves it full, and then the oldest.
THEOREM OldestForgottenFirst == NoticesSpec => [][OldestGoFirst]_<<jobVars, patchVars>>
  <1>1. BellInv /\ [NoticesNext]_<<jobVars, patchVars>> =>
          [OldestGoFirst]_<<jobVars, patchVars>>
    BY StepsOfBell, BellInvStep
  <1> QED
    BY <1>1, BellInvariant, PTL DEF NoticesSpec

-----------------------------------------------------------------------------
(* PanelFetch: four panels that fetch *)

\* The four panels of one studio: the steps of each leave the state of the others alone.
PanelNext ==
  \/ (PaneNext \/ TreeNext \/ SearchNext) /\ UNCHANGED compareVars
  \/ CompareNext /\ UNCHANGED <<paneVars, treeVars, searchVars>>
PanelSpec == PanelInit /\ [][PanelNext]_panelVars

-----------------------------------------------------------------------------
(* The inductive invariants, one for each panel *)

\* Of the requests in flight only the last effect's may still write, and it asked for the
\* key of the pane.
PaneFlights == [key : Targets, n : Nat, cancelled : BOOLEAN]
PaneInv ==
  /\ pane \in Targets /\ paneFlights \subseteq PaneFlights
  /\ ~paneDue => /\ \A q \in paneFlights : ~q.cancelled => q.key = pane
                 /\ paneState = "ready" => paneShown = pane

TreeInv ==
  /\ treeRows \in Seq([key : Targets, page : Nat])
  /\ tree \in Targets /\ treeCursor \in Nat
  /\ treeMore \in [key : Targets, page : Nat] \cup {NoKey}
  /\ ~treeDue /\ ~crossed => \A i \in DOMAIN treeRows : treeRows[i] = [key |-> tree, page |-> i]

\* Requests and a file are there only while two snapshots are marked, and are of this pair.
CompareInv ==
  /\ comparing \/ diffFlights # {} \/ fileDiff # NoDiff => Len(compared) = 2
  /\ \A q \in diffFlights : q.file \in PanelKeys /\ q.pair = compared
  /\ fileDiff # NoDiff => fileDiff.pair = compared /\ (lateDiff \/ fileDiff.file = asked)

Searches == [key : Targets, n : Nat, byTimer : BOOLEAN]
SearchTypes ==
  /\ searching \subseteq Searches /\ searchCount \in Nat /\ newest \in Nat
  /\ \A q \in searching : q.n <= searchCount
  /\ words \in Targets /\ debounce \in {NoKey, words}

\* The timer's last search is number n: it and all that follow it ask for the words in the
\* box, and it is either under way or was not overtaken unnoticed.
Settling(n) ==
  /\ \A q \in searching : q.n >= n => q.key = words
  /\ \/ \E q \in searching : q.n = n /\ q.byTimer
     \/ newest >= n /\ (overtaken \/ results \in {NoKey, words})
SearchInv ==
  /\ SearchTypes
  /\ words # NoKey /\ debounce = NoKey => \E n \in Nat : Settling(n)

PanelInv == changes \in Nat /\ PaneInv /\ TreeInv /\ CompareInv /\ SearchInv

-----------------------------------------------------------------------------
LEMMA PanelInvInit == PanelInit => PanelInv
  <1> SUFFICES ASSUME PanelInit PROVE PanelInv
    OBVIOUS
  <1>1. PaneInv
    BY DEF PanelInit, PaneInv, Targets
  <1>2. TreeInv
    BY DEF PanelInit, TreeInv, Targets
  <1>3. CompareInv
    BY DEF PanelInit, CompareInv
  <1>4. SearchInv
    BY DEF PanelInit, SearchInv, SearchTypes, Searches, Targets
  <1> QED
    BY <1>1, <1>2, <1>3, <1>4 DEF PanelInit, PanelInv

\* Each panel's invariant survives the steps of its own panel.
LEMMA PaneStep == ASSUME changes \in Nat, PaneInv, PaneNext PROVE PaneInv'
  <1>1. CASE \E k \in Targets : ChangePane(k)
    BY <1>1 DEF ChangePane, PaneInv
  <1>2. CASE RunPaneEffect
    <2> DEFINE old == {[f EXCEPT !.cancelled = TRUE] : f \in paneFlights}
               asks == IF pane = NoKey THEN {}
                       ELSE {[key |-> pane, n |-> changes, cancelled |-> FALSE]}
    <2>1. \A q \in old : q \in PaneFlights /\ q.cancelled
      BY DEF PaneInv, PaneFlights
    <2>2. \A q \in asks : q \in PaneFlights /\ q.key = pane
      <3>1. CASE pane = NoKey
        BY <3>1
      <3>2. CASE pane # NoKey
        <4> DEFINE ask == [key |-> pane, n |-> changes, cancelled |-> FALSE]
        <4>1. ask \in PaneFlights /\ ask.key = pane
          BY DEF PaneInv, PaneFlights
        <4>2. asks = {ask}
          BY <3>2
        <4> HIDE DEF ask, asks
        <4> QED
          BY <4>1, <4>2
      <3> QED
        BY <3>1, <3>2
    <2>3. /\ paneFlights' = old \cup asks /\ pane' = pane
          /\ paneState' \in {"loading", "error"}
      BY <1>2 DEF RunPaneEffect
    <2> HIDE DEF old, asks
    <2> QED
      BY <2>1, <2>2, <2>3 DEF PaneInv
  <1>3. CASE \E q \in paneFlights, ok \in BOOLEAN : PaneAnswered(q, ok)
    BY <1>3 DEF PaneAnswered, PaneInv, PaneFlights
  <1> QED
    BY <1>1, <1>2, <1>3 DEF PaneNext

\* What a change, an effect or an answer makes of the tree.
LEMMA TreeStep == ASSUME TreeInv, TreeNext PROVE TreeInv'
  <1> USE PanelAssumption
  <1>1. CASE \E k \in Targets : ChangeTree(k)
    BY <1>1 DEF ChangeTree, TreeInv
  <1>2. CASE TreeAnswered
    BY <1>2 DEF TreeAnswered, TreeInv
  <1>3. CASE RunTreeEffect
    <2>1. CASE tree \in treeCache
      <3>1. treeRows' = <<[key |-> tree, page |-> 1]>> /\ treeCursor' \in Nat
        BY <1>3, <2>1 DEF RunTreeEffect, FirstPage, After
      <3>2. treeRows' \in Seq([key : Targets, page : Nat])
        BY <3>1 DEF TreeInv
      <3>3. \A i \in DOMAIN treeRows' : treeRows'[i] = [key |-> tree, page |-> i]
        BY <3>1
      <3> QED
        BY <1>3, <3>1, <3>2, <3>3 DEF RunTreeEffect, TreeInv
    <2>2. CASE tree \notin treeCache
      <3>1. treeRows' = <<>> /\ treeCursor' = 0
        BY <1>3, <2>2 DEF RunTreeEffect
      <3> QED
        BY <1>3, <3>1 DEF RunTreeEffect, TreeInv
    <2> QED
      BY <2>1, <2>2
  <1>4. CASE LoadMore
    BY <1>4 DEF LoadMore, TreeInv
  <1>5. CASE \E ok \in BOOLEAN : MoreAnswered(ok)
    <2> PICK ok \in BOOLEAN : MoreAnswered(ok)
      BY <1>5
    <2>1. CASE ~ok
      BY <2>1 DEF MoreAnswered, TreeInv
    <2>2. CASE ok
      <3>1. treeMore \in [key : Targets, page : Nat]
        BY DEF MoreAnswered, TreeInv
      <3>a. treeRows' = Append(treeRows, treeMore) /\ treeCursor' = After(treeMore.page)
        BY <2>2 DEF MoreAnswered
      <3>b. treeMore.page \in Nat
        BY <3>1
      <3>c. treeCursor' \in Nat
        BY <3>a, <3>b DEF After
      <3>d. treeRows \in Seq([key : Targets, page : Nat])
        BY DEF TreeInv
      <3>2. treeRows' \in Seq([key : Targets, page : Nat]) /\ treeCursor' \in Nat
        BY <3>1, <3>a, <3>c, <3>d
      <3>3. ASSUME ~crossed', ~treeDue'
            PROVE  \A i \in DOMAIN treeRows' : treeRows'[i] = [key |-> tree, page |-> i]
        <4>1. treeMore = [key |-> tree, page |-> Len(treeRows) + 1]
          BY <2>2, <3>1, <3>3 DEF MoreAnswered
        <4>2. treeRows' = Append(treeRows, [key |-> tree, page |-> Len(treeRows) + 1])
          BY <2>2, <4>1 DEF MoreAnswered
        <4>3. \A i \in DOMAIN treeRows : treeRows[i] = [key |-> tree, page |-> i]
          BY <2>2, <3>3 DEF MoreAnswered, TreeInv
        <4> QED
          BY <4>2, <4>3 DEF TreeInv
      <3> QED
        BY <3>2, <3>3 DEF MoreAnswered, TreeInv
    <2> QED
      BY <2>1, <2>2
  <1> QED
    BY <1>1, <1>2, <1>3, <1>4, <1>5 DEF TreeNext

LEMMA CompareStep == ASSUME CompareInv, CompareNext PROVE CompareInv'
  <1>1. CASE SwitchTimeline
    BY <1>1 DEF SwitchTimeline, CompareInv
  <1>2. CASE OpenComparison
    BY <1>2 DEF OpenComparison, CompareInv
  <1>3. CASE BackToList
    BY <1>3 DEF BackToList, CompareInv
  <1>4. CASE CloseComparison
    BY <1>4 DEF CloseComparison, CompareInv
  <1>5. CASE \E k \in PanelKeys : SelectForCompare(k)
    <2>1. diffFlights' = {} /\ fileDiff' = NoDiff /\ ~comparing'
      BY <1>5 DEF SelectForCompare, CompareInv
    <2> QED
      BY <2>1 DEF CompareInv
  <1>6. CASE \E k \in PanelKeys : OpenFileDiff(k)
    BY <1>6 DEF OpenFileDiff, CompareInv
  <1>7. CASE \E q \in diffFlights, ok \in BOOLEAN : DiffAnswered(q, ok)
    <2> PICK q \in diffFlights, ok \in BOOLEAN : DiffAnswered(q, ok)
      BY <1>7
    <2>1. q.file \in PanelKeys /\ q.pair = compared /\ Len(compared) = 2
      BY DEF CompareInv
    <2>2. fileDiff = NoDiff => fileDiff.file # q.file
      BY <2>1, PanelAssumption DEF NoDiff
    <2>3. fileDiff'.pair = compared' /\ fileDiff'.file = q.file /\ asked' = asked
      BY <2>1 DEF DiffAnswered
    <2>4. lateDiff' \/ q.file = asked
      BY <2>2 DEF DiffAnswered, CompareInv
    <2> QED
      BY <2>1, <2>3, <2>4 DEF DiffAnswered, CompareInv
  <1> QED
    BY <1>1, <1>2, <1>3, <1>4, <1>5, <1>6, <1>7 DEF CompareNext

\* The search sent next is above all that are under way.
LEMMA SearchSent ==
  ASSUME SearchTypes, NEW byTimer \in BOOLEAN, Search(words, byTimer)
  PROVE  /\ searching' \subseteq Searches
         /\ searchCount' = searchCount + 1
         /\ \A q \in searching' : \/ q \in searching
                                  \/ q.n = searchCount + 1 /\ q.key = words /\ q.byTimer = byTimer
         /\ \E q \in searching' : q.n = searchCount + 1 /\ q.byTimer = byTimer
         /\ \A q \in searching' : q.n <= searchCount'
  <1> DEFINE sent == [key |-> words, n |-> searchCount + 1, byTimer |-> byTimer]
  <1>1. searchCount' = searchCount + 1 /\ searching' = searching \cup {sent}
    BY DEF Search
  <1>2. sent \in Searches
    BY DEF SearchTypes, Searches
  <1>3. sent.n = searchCount + 1 /\ sent.key = words /\ sent.byTimer = byTimer
    OBVIOUS
  <1>4. \A q \in searching : q.n \in Nat /\ q.n <= searchCount /\ searchCount \in Nat
    BY DEF SearchTypes, Searches
  <1>5. searching \subseteq Searches
    BY DEF SearchTypes
  <1> HIDE DEF sent
  <1>6. searching' \subseteq Searches
    BY <1>1, <1>2, <1>5
  <1>7. \A q \in searching' : q \in searching \/ q = sent
    BY <1>1
  <1>8. \A q \in searching' : q.n <= searchCount'
    <2> TAKE q \in searching'
    <2>1. CASE q \in searching
      <3>1. q.n \in Nat /\ q.n <= searchCount /\ searchCount \in Nat
        BY <1>4, <2>1
      <3> QED
        BY <1>1, <3>1
    <2>2. CASE q = sent
      <3>1. searchCount \in Nat
        BY DEF SearchTypes
      <3> QED
        BY <1>1, <1>3, <2>2, <3>1
    <2> QED
      BY <1>7, <2>1, <2>2
  <1>9. sent \in searching'
    BY <1>1
  <1>10. \A q \in searching' : \/ q \in searching
                               \/ q.n = searchCount + 1 /\ q.key = words /\ q.byTimer = byTimer
    <2> TAKE q \in searching'
    <2>1. CASE q \in searching
      BY <2>1
    <2>2. CASE q = sent
      BY <1>3, <2>2, Zenon
    <2> QED
      BY <1>7, <2>1, <2>2
  <1>11. \E q \in searching' : q.n = searchCount + 1 /\ q.byTimer = byTimer
    BY <1>3, <1>9
  <1> QED
    BY <1>1, <1>6, <1>8, <1>10, <1>11

LEMMA SearchStep == ASSUME SearchInv, SearchNext PROVE SearchInv'
  <1> USE DEF SearchInv
  <1>1. CASE \E k \in Targets : TypeWords(k)
    BY <1>1 DEF TypeWords, SearchTypes
  <1>2. CASE DebounceEnds
    <2>1. debounce = words /\ Search(words, TRUE)
      BY <1>2 DEF DebounceEnds, SearchTypes
    <2>a. UNCHANGED <<words, newest>> /\ debounce' = NoKey /\ searchCount \in Nat
      BY <1>2 DEF DebounceEnds, SearchTypes
    <2>b. /\ searching' \subseteq Searches /\ searchCount' = searchCount + 1
          /\ \A q \in searching' : q.n <= searchCount'
      BY <2>1, SearchSent
    <2>2. SearchTypes'
      BY <2>a, <2>b DEF SearchTypes
    <2>3. ASSUME NEW n \in Nat, n = searchCount + 1 PROVE Settling(n)'
      <3>1. \A q \in searching : q.n \in Nat /\ q.n <= searchCount
        BY DEF SearchTypes, Searches
      <3>2. \A q \in searching' : q \in searching \/ q.key = words
        BY <2>1, SearchSent
      <3>3. \A q \in searching' : q.n >= n => q.key = words'
        BY <2>a, <2>3, <3>1, <3>2
      <3>4. \E q \in searching' : q.n = n /\ q.byTimer
        BY <2>1, <2>3, SearchSent
      <3> QED
        BY <3>3, <3>4 DEF Settling
    <2>4. \E n \in Nat : Settling(n)'
      BY <2>a, <2>3
    <2> QED
      BY <2>2, <2>4
  <1>3. CASE PressEnter
    <2>1. Search(words, FALSE) /\ UNCHANGED <<words, debounce, results, newest, overtaken>>
      BY <1>3 DEF PressEnter
    <2>a. /\ searching' \subseteq Searches /\ searchCount' = searchCount + 1
          /\ \A q \in searching' : q.n <= searchCount'
      BY <2>1, SearchSent
    <2>2. SearchTypes'
      BY <2>1, <2>a DEF SearchTypes
    <2>3. ASSUME NEW n \in Nat, Settling(n) PROVE Settling(n)'
      <3>1. \A q \in searching' : q.n >= n => q.key = words'
        BY <2>1, <2>3, SearchSent DEF Settling
      <3>2. searching \subseteq searching'
        BY <2>1 DEF Search
      <3> QED
        BY <2>1, <2>3, <3>1, <3>2 DEF Settling
    <2> QED
      BY <2>1, <2>2, <2>3
  <1>4. CASE \E q \in searching, ok \in BOOLEAN : SearchAnswered(q, ok)
    <2> PICK q \in searching, ok \in BOOLEAN : SearchAnswered(q, ok)
      BY <1>4
    <2>1. q.n \in Nat /\ newest \in Nat /\ q.byTimer \in BOOLEAN
      BY DEF SearchTypes, Searches
    <2>2. /\ searching' = searching \ {q} /\ UNCHANGED <<words, debounce, searchCount>>
          /\ newest' \in Nat /\ newest' >= newest
      BY <2>1 DEF SearchAnswered
    <2>3. SearchTypes'
      BY <2>2 DEF SearchTypes
    <2>4. ASSUME NEW n \in Nat, Settling(n) PROVE Settling(n)'
      <3>1. \A p \in searching' : p.n >= n => p.key = words'
        BY <2>2, <2>4 DEF Settling
      <3>2. CASE \E p \in searching' : p.n = n /\ p.byTimer
        BY <3>1, <3>2 DEF Settling
      <3>3. CASE q.n = n /\ q.byTimer
        <4>1. q.key = words /\ newest' >= n
          BY <2>1, <2>4, <3>3 DEF Settling, SearchAnswered
        <4>2. results' \in {NoKey, words'}
          BY <2>2, <3>3, <4>1 DEF SearchAnswered
        <4> QED
          BY <3>1, <4>1, <4>2 DEF Settling
      <3>4. CASE newest >= n /\ (overtaken \/ results \in {NoKey, words})
        <4>1. newest' >= n
          BY <2>1, <2>2, <3>4
        <4>2. overtaken' \/ results' \in {NoKey, words'}
          <5>1. CASE ok \/ q.byTimer
            <6>1. CASE q.n < newest
              BY <5>1, <6>1 DEF SearchAnswered
            <6>2. CASE ~(q.n < newest)
              <7>1. q.key = words
                BY <2>1, <2>4, <3>4, <6>2 DEF Settling
              <7> QED
                BY <2>2, <5>1, <7>1 DEF SearchAnswered
            <6> QED
              BY <6>1, <6>2
          <5>2. CASE ~ok /\ ~q.byTimer
            BY <2>2, <3>4, <5>2 DEF SearchAnswered
          <5> QED
            BY <5>1, <5>2
        <4> QED
          BY <3>1, <4>1, <4>2 DEF Settling
      <3> QED
        BY <2>2, <2>4, <3>2, <3>3, <3>4 DEF Settling
    <2> QED
      BY <2>2, <2>3, <2>4
  <1> QED
    BY <1>1, <1>2, <1>3, <1>4 DEF SearchNext

LEMMA ChangesStep == ASSUME changes \in Nat, PanelNext PROVE changes' \in Nat
  <1> SUFFICES changes' = changes \/ Changes
    BY DEF Changes
  <1>1. CASE PaneNext
    BY <1>1 DEF PaneNext, ChangePane, RunPaneEffect, PaneAnswered
  <1>2. CASE TreeNext
    <2>1. CASE TreeAnswered
      BY <2>1 DEF TreeAnswered, Changes
    <2>2. CASE ~TreeAnswered
      BY <1>2, <2>2 DEF TreeNext, ChangeTree, RunTreeEffect, LoadMore, MoreAnswered
    <2> QED
      BY <2>1, <2>2
  <1>3. CASE SearchNext
    BY <1>3 DEF SearchNext, TypeWords, DebounceEnds, PressEnter, SearchAnswered
  <1>4. CASE CompareNext
    BY <1>4 DEF CompareNext, SwitchTimeline, SelectForCompare, OpenComparison, OpenFileDiff,
                DiffAnswered, BackToList, CloseComparison
  <1> QED
    BY <1>1, <1>2, <1>3, <1>4 DEF PanelNext

\* A panel's own steps keep the variables of the others.
LEMMA Apart ==
  /\ PaneNext => UNCHANGED <<treeVars, searchVars>>
  /\ TreeNext => UNCHANGED <<paneVars, searchVars>>
  /\ SearchNext => UNCHANGED <<paneVars, treeVars>>
  <1>1. PaneNext => UNCHANGED <<treeVars, searchVars>>
    BY DEF PaneNext, ChangePane, RunPaneEffect, PaneAnswered
  <1>2. TreeNext => UNCHANGED <<paneVars, searchVars>>
    BY DEF TreeNext, ChangeTree, TreeAnswered, RunTreeEffect, LoadMore, MoreAnswered
  <1>3. SearchNext => UNCHANGED <<paneVars, treeVars>>
    BY DEF SearchNext, TypeWords, DebounceEnds, PressEnter, SearchAnswered
  <1> QED
    BY <1>1, <1>2, <1>3

LEMMA PanelInvStep == PanelInv /\ [PanelNext]_panelVars => PanelInv'
  <1> SUFFICES ASSUME PanelInv, [PanelNext]_panelVars PROVE PanelInv'
    OBVIOUS
  <1>p. ASSUME UNCHANGED paneVars PROVE PaneInv'
    BY <1>p DEF paneVars, PanelInv, PaneInv
  <1>t. ASSUME UNCHANGED treeVars PROVE TreeInv'
    BY <1>t DEF treeVars, PanelInv, TreeInv
  <1>s. ASSUME UNCHANGED searchVars PROVE SearchInv'
    BY <1>s DEF searchVars, PanelInv, SearchInv, SearchTypes, Settling
  <1>c. ASSUME UNCHANGED compareVars PROVE CompareInv'
    BY <1>c DEF compareVars, PanelInv, CompareInv
  <1>1. changes' \in Nat
    BY ChangesStep DEF PanelInv, panelVars
  <1>2. CASE PaneNext /\ UNCHANGED compareVars
    <2>1. PaneInv'
      BY <1>2, PaneStep DEF PanelInv
    <2> QED
      BY <1>1, <1>2, <1>t, <1>s, <1>c, <2>1, Apart DEF PanelInv
  <1>3. CASE TreeNext /\ UNCHANGED compareVars
    <2>1. TreeInv'
      BY <1>3, TreeStep DEF PanelInv
    <2> QED
      BY <1>1, <1>3, <1>p, <1>s, <1>c, <2>1, Apart DEF PanelInv
  <1>4. CASE SearchNext /\ UNCHANGED compareVars
    <2>1. SearchInv'
      BY <1>4, SearchStep DEF PanelInv
    <2> QED
      BY <1>1, <1>4, <1>p, <1>t, <1>c, <2>1, Apart DEF PanelInv
  <1>5. CASE CompareNext /\ UNCHANGED <<paneVars, treeVars, searchVars>>
    <2>1. CompareInv'
      BY <1>5, CompareStep DEF PanelInv
    <2> QED
      BY <1>1, <1>5, <1>p, <1>t, <1>s, <2>1 DEF PanelInv
  <1>6. CASE UNCHANGED panelVars
    BY <1>1, <1>6, <1>p, <1>t, <1>s, <1>c DEF panelVars, PanelInv
  <1> QED
    BY <1>2, <1>3, <1>4, <1>5, <1>6 DEF PanelNext

-----------------------------------------------------------------------------
\* The invariants of the four panels hold always.
THEOREM PanelInvariant == PanelSpec => []PanelInv
  BY PanelInvInit, PanelInvStep, PTL DEF PanelSpec

\* A ready file pane, the rows of the explorer and an open file of a comparison are of the
\* key the panel stands for, however many requests of earlier keys are still answered.
THEOREM PanelsFollowTheirKey == PanelSpec => []PanelsShowTheirKey
  <1>1. PanelInv => PanelsShowTheirKey
    BY DEF PanelInv, PaneInv, TreeInv, CompareInv, PanelsShowTheirKey
  <1> QED
    BY <1>1, PanelInvariant, PTL

\* With no search under way and no timer running, the results are those of the words in
\* the box or none, unless the answer that came last was overtaken.
THEOREM SearchComesToRest == PanelSpec => []SearchSettles
  <1>1. PanelInv => SearchSettles
    BY DEF PanelInv, SearchInv, Settling, SearchSettles
  <1> QED
    BY <1>1, PanelInvariant, PTL

\* What the panels keep besides.  The pages and the numbers of searches stay within bounds,
\* and never more than two snapshots are marked.
PaneTypes ==
  paneShown \in Targets /\ paneState \in {"loading", "ready", "error"} /\ paneDue \in BOOLEAN
TreeTypes ==
  /\ treeCache \subseteq PanelKeys /\ treeCursor \in 0 .. Pages
  /\ treeDue \in BOOLEAN /\ crossed \in BOOLEAN
SearchBounds ==
  /\ results \in Targets /\ overtaken \in BOOLEAN
  /\ searchCount \in 0 .. MaxSearches /\ newest \in 0 .. MaxSearches
CompareTypes ==
  /\ compared \in Seq(PanelKeys) /\ Len(compared) <= 2
  /\ comparing \in BOOLEAN /\ lateDiff \in BOOLEAN
  /\ fileDiff.file \in Targets /\ fileDiff.state \in {"none", "loading", "ready", "error"}
PanelTypes == PaneTypes /\ TreeTypes /\ SearchBounds /\ CompareTypes

LEMMA PaneTypesStep == ASSUME PaneInv, PaneTypes, PaneNext PROVE PaneTypes'
  <1>1. CASE (\E k \in Targets : ChangePane(k)) \/ RunPaneEffect
    BY <1>1 DEF ChangePane, RunPaneEffect, PaneTypes
  <1>2. CASE \E q \in paneFlights, ok \in BOOLEAN : PaneAnswered(q, ok)
    BY <1>2 DEF PaneAnswered, PaneInv, PaneFlights, PaneTypes
  <1> QED
    BY <1>1, <1>2 DEF PaneNext

LEMMA TreeTypesStep == ASSUME TreeInv, TreeTypes, TreeNext PROVE TreeTypes'
  <1>a. \A page \in Nat : After(page) \in 0 .. Pages
    BY PanelBounds DEF After
  <1>1. CASE (\E k \in Targets : ChangeTree(k)) \/ LoadMore
    BY <1>1 DEF ChangeTree, LoadMore, TreeTypes
  <1>2. CASE TreeAnswered
    BY <1>2 DEF TreeAnswered, TreeInv, TreeTypes, Targets
  <1>3. CASE RunTreeEffect
    <2>1. treeCursor' \in 0 .. Pages
      BY <1>3, <1>a, PanelBounds DEF RunTreeEffect
    <2> QED
      BY <1>3, <2>1 DEF RunTreeEffect, TreeTypes
  <1>4. CASE \E ok \in BOOLEAN : MoreAnswered(ok)
    <2>1. treeMore \in [key : Targets, page : Nat]
      BY <1>4 DEF MoreAnswered, TreeInv
    <2>2. treeCursor' \in 0 .. Pages
      BY <1>4, <1>a, <2>1 DEF MoreAnswered, TreeTypes
    <2>3. crossed' \in BOOLEAN /\ UNCHANGED <<treeCache, treeDue>>
      BY <1>4 DEF MoreAnswered, TreeTypes
    <2> QED
      BY <2>2, <2>3 DEF TreeTypes
  <1> QED
    BY <1>1, <1>2, <1>3, <1>4 DEF TreeNext

LEMMA SearchBoundsStep == ASSUME SearchTypes, SearchBounds, SearchNext PROVE SearchBounds'
  <1>1. CASE \E k \in Targets : TypeWords(k)
    BY <1>1 DEF TypeWords, SearchBounds
  <1>2. CASE DebounceEnds \/ PressEnter
    <2>1. /\ searchCount < MaxSearches /\ searchCount' = searchCount + 1
          /\ UNCHANGED <<results, overtaken, newest>>
      BY <1>2 DEF DebounceEnds, PressEnter, Search
    <2>2. searchCount' \in 0 .. MaxSearches
      BY <2>1, PanelBounds DEF SearchBounds
    <2> QED
      BY <2>1, <2>2, Zenon DEF SearchBounds
  <1>3. CASE \E q \in searching, ok \in BOOLEAN : SearchAnswered(q, ok)
    <2> PICK q \in searching, ok \in BOOLEAN : SearchAnswered(q, ok)
      BY <1>3
    <2>1. q.key \in Targets /\ q.n \in Nat /\ q.n <= searchCount
      BY DEF SearchTypes, Searches
    <2>2. newest' \in {newest, q.n} /\ searchCount' = searchCount
      BY DEF SearchAnswered
    <2>3. newest' \in 0 .. MaxSearches
      BY <2>1, <2>2, PanelBounds DEF SearchBounds
    <2>4. results' \in Targets
      BY <2>1 DEF SearchAnswered, SearchBounds, Targets
    <2>5. overtaken' = overtaken \/ overtaken' = (q.n < newest)
      BY DEF SearchAnswered
    <2>6. overtaken' \in BOOLEAN
      <3>1. (q.n < newest) \in BOOLEAN
        BY <2>1 DEF SearchBounds
      <3> QED
        BY <2>5, <3>1, Zenon DEF SearchBounds
    <2> QED
      BY <2>2, <2>3, <2>4, <2>6 DEF SearchBounds
  <1> QED
    BY <1>1, <1>2, <1>3 DEF SearchNext

LEMMA CompareTypesStep == ASSUME CompareInv, CompareTypes, CompareNext PROVE CompareTypes'
  <1>0. NoDiff.file \in Targets /\ NoDiff.state = "none"
    BY DEF NoDiff, Targets
  <1>1. CASE SwitchTimeline \/ OpenComparison \/ BackToList \/ CloseComparison
    BY <1>0, <1>1 DEF SwitchTimeline, OpenComparison, BackToList, CloseComparison, CompareTypes
  <1>2. ASSUME NEW k \in PanelKeys, SelectForCompare(k) PROVE CompareTypes'
    <2>1. compared' \in Seq(PanelKeys) /\ Len(compared') <= 2
      <3>1. compared \in Seq(PanelKeys) /\ Len(compared) <= 2
        BY DEF CompareTypes
      <3>2. CASE k \in Range(compared)
        <4> DEFINE kept == {i \in DOMAIN compared : compared[i] # k}
        <4>1. compared' = Filtered(compared, kept) /\ kept \in SUBSET DOMAIN compared
          BY <1>2, <3>2 DEF SelectForCompare
        <4> HIDE DEF kept
        <4>2. /\ Filtered(compared, kept) \in Seq(PanelKeys)
              /\ Len(Filtered(compared, kept)) \in 0 .. Len(compared)
          BY <3>1, <4>1, FilteredProperties
        <4> QED
          BY <3>1, <4>1, <4>2
      <3>3. CASE k \notin Range(compared)
        <4>1. compared' = Append(compared, k) /\ Len(compared) < 2
          BY <1>2, <3>3 DEF SelectForCompare, CompareOffered
        <4> QED
          BY <3>1, <4>1
      <3> QED
        BY <3>2, <3>3
    <2>2. /\ fileDiff' \in {fileDiff, NoDiff} /\ lateDiff' \in {lateDiff, FALSE}
          /\ comparing' = comparing
      BY <1>2 DEF SelectForCompare
    <2> QED
      BY <1>0, <2>1, <2>2 DEF CompareTypes
  <1>3. ASSUME NEW f \in PanelKeys, OpenFileDiff(f) PROVE CompareTypes'
    <2>1. fileDiff'.file = f /\ fileDiff'.state = "loading" /\ lateDiff' = FALSE
          /\ UNCHANGED <<compared, comparing>>
      BY <1>3 DEF OpenFileDiff
    <2> QED
      BY <2>1 DEF CompareTypes, Targets
  <1>4. ASSUME NEW q \in diffFlights, NEW ok \in BOOLEAN, DiffAnswered(q, ok) PROVE CompareTypes'
    <2>1. q.file \in PanelKeys
      BY DEF CompareInv
    <2>2. fileDiff'.file = q.file /\ fileDiff'.state \in {"ready", "error"}
          /\ UNCHANGED <<compared, comparing>>
      BY <1>4 DEF DiffAnswered
    <2>3. lateDiff' \in BOOLEAN
      BY <1>4 DEF DiffAnswered
    <2> QED
      BY <2>1, <2>2, <2>3 DEF CompareTypes, Targets
  <1> QED
    BY <1>1, <1>2, <1>3, <1>4 DEF CompareNext

LEMMA PanelTypesStep == PanelInv /\ PanelTypes /\ [PanelNext]_panelVars => PanelTypes'
  <1> SUFFICES ASSUME PanelInv, PanelTypes, [PanelNext]_panelVars PROVE PanelTypes'
    OBVIOUS
  <1>p. ASSUME UNCHANGED paneVars PROVE PaneTypes'
    BY <1>p DEF paneVars, PanelTypes, PaneTypes
  <1>t. ASSUME UNCHANGED treeVars PROVE TreeTypes'
    BY <1>t DEF treeVars, PanelTypes, TreeTypes
  <1>s. ASSUME UNCHANGED searchVars PROVE SearchBounds'
    BY <1>s DEF searchVars, PanelTypes, SearchBounds
  <1>c. ASSUME UNCHANGED compareVars PROVE CompareTypes'
    BY <1>c DEF compareVars, PanelTypes, CompareTypes
  <1>0. PaneInv /\ TreeInv /\ SearchTypes /\ CompareInv
    BY DEF PanelInv, SearchInv
  <1>1. CASE PaneNext /\ UNCHANGED compareVars
    BY <1>0, <1>1, <1>t, <1>s, <1>c, PaneTypesStep, Apart DEF PanelTypes
  <1>2. CASE TreeNext /\ UNCHANGED compareVars
    BY <1>0, <1>2, <1>p, <1>s, <1>c, TreeTypesStep, Apart DEF PanelTypes
  <1>3. CASE SearchNext /\ UNCHANGED compareVars
    BY <1>0, <1>3, <1>p, <1>t, <1>c, SearchBoundsStep, Apart DEF PanelTypes
  <1>4. CASE CompareNext /\ UNCHANGED <<paneVars, treeVars, searchVars>>
    BY <1>0, <1>4, <1>p, <1>t, <1>s, CompareTypesStep DEF PanelTypes
  <1>5. CASE UNCHANGED panelVars
    BY <1>5, <1>p, <1>t, <1>s, <1>c DEF panelVars, PanelTypes
  <1> QED
    BY <1>1, <1>2, <1>3, <1>4, <1>5 DEF PanelNext

LEMMA PanelTypesInit == PanelInit => PanelTypes
  <1> SUFFICES ASSUME PanelInit PROVE PanelTypes
    OBVIOUS
  <1>1. /\ paneShown = NoKey /\ paneState = "loading" /\ paneDue = TRUE
        /\ treeCache = {} /\ treeCursor = 0 /\ treeDue = FALSE /\ crossed = FALSE
    BY DEF PanelInit
  <1>a. 0 \in 0 .. Pages /\ 0 \in 0 .. MaxSearches
    BY PanelBounds
  <1>2. PaneTypes /\ TreeTypes
    BY <1>1, <1>a, Zenon DEF PaneTypes, TreeTypes, Targets
  <1>3. /\ results = NoKey /\ newest = 0 /\ searchCount = 0 /\ overtaken = FALSE
        /\ compared = <<>> /\ comparing = FALSE /\ fileDiff = NoDiff /\ lateDiff = FALSE
    BY DEF PanelInit
  <1>4. SearchBounds
    BY <1>3, <1>a, Zenon DEF SearchBounds, Targets
  <1>5. <<>> \in Seq(PanelKeys) /\ Len(<<>>) <= 2
    OBVIOUS
  <1>6. CompareTypes
    BY <1>3, <1>5 DEF CompareTypes, NoDiff, Targets
  <1> QED
    BY <1>2, <1>4, <1>6 DEF PanelTypes

LEMMA PanelTyped == PanelInv /\ PanelTypes => PanelTypeOK
  <1> SUFFICES ASSUME PanelInv, PanelTypes PROVE PanelTypeOK
    OBVIOUS
  <1>1. {pane, paneShown, tree, words, debounce, results} \subseteq Targets
    BY DEF PanelInv, PaneInv, TreeInv, SearchInv, SearchTypes, PanelTypes, PaneTypes,
           SearchBounds, Targets
  <1>2. Range(compared) \subseteq PanelKeys
    BY DEF PanelTypes, CompareTypes, Range
  <1> QED
    BY <1>1, <1>2
    DEF PanelTypes, PaneTypes, TreeTypes, SearchBounds, CompareTypes, PanelTypeOK

\* The four panels keep their types: in particular marks taken back and set again, also
\* across a switch of the repository, never come to more than two.
THEOREM PanelsAreTyped == PanelSpec => []PanelTypeOK
  BY PanelInvInit, PanelInvStep, PanelTypesInit, PanelTypesStep, PanelTyped, PTL DEF PanelSpec

-----------------------------------------------------------------------------
(* The client's copies at rest.  The clicks, requests, turns and fetches of a page overlap
   in any way; a copy that asks for nothing and has nothing on its way is the server's
   nevertheless, unless a change is still to take effect or was made with no refetch due.
   This is the half of ScopeCatchesUp, SessionListCatchesUp, PlanCatchesUp and ListsCatchUp
   that needs no fairness.                                                               *)

IsEntry(q) == \E D : q \in QueryOf(D)
\* Entries stay entries, and asking, answering and invalidating keep them true to v.
LEMMA CacheSteps ==
  ASSUME NEW q, IsEntry(q), NEW v
  PROVE  /\ IsEntry(Fetched(q, v)) /\ IsEntry(Answered(q))
         /\ \A shown \in BOOLEAN : IsEntry(Invalidated(q, shown))
         /\ NeedsFetch(q) => Owes(Fetched(q, v), v)
         /\ HasAnswer(q) /\ Owes(q, v) => Owes(Answered(q), v)
         /\ \A shown \in BOOLEAN :
              Invalidated(q, shown).flight = NoData => Owes(Invalidated(q, shown), v)
         /\ CacheRests(q) /\ Owes(q, v) => q.data = v
  <1> PICK E : q \in QueryOf(E)
    BY DEF IsEntry
  <1> DEFINE D == E \cup {v}
  <1>1. q \in QueryOf(D) /\ v \in D
    BY DEF QueryOf
  <1> HIDE DEF D
  <1>2. /\ Fetched(q, v) \in QueryOf(D) /\ Fetched(q, v).flight = v
        /\ Answered(q) \in QueryOf(D) /\ Answered(q).flight = NoData /\ Answered(q).data = q.flight
    BY <1>1 DEF QueryOf, Fetched, Answered
  <1>3. ASSUME NEW shown \in BOOLEAN
        PROVE  Invalidated(q, shown) \in QueryOf(D) /\ Invalidated(q, shown).invalid = TRUE
    BY <1>1 DEF QueryOf, Invalidated
  <1>4. ASSUME NEW shown \in BOOLEAN
        PROVE  /\ IsEntry(Invalidated(q, shown))
               /\ Invalidated(q, shown).flight = NoData => Owes(Invalidated(q, shown), v)
    BY <1>3 DEF IsEntry, Owes
  <1>5. NeedsFetch(q) => Owes(Fetched(q, v), v)
    BY <1>1, <1>2 DEF NeedsFetch, Owes, QueryOf, Fetched
  <1>6. HasAnswer(q) /\ Owes(q, v) => Owes(Answered(q), v)
    BY <1>2 DEF HasAnswer, Owes
  <1>7. CacheRests(q) /\ Owes(q, v) => q.data = v
    BY <1>1 DEF CacheRests, NeedsFetch, HasAnswer, Owes, QueryOf
  <1>8. IsEntry(Fetched(q, v)) /\ IsEntry(Answered(q))
    BY <1>2 DEF IsEntry
  <1> QED
    BY <1>4, <1>5, <1>6, <1>7, <1>8

\* An entry that was never asked for owes nothing.
LEMMA EmptyEntry == IsEntry(EmptyQuery) /\ \A v : Owes(EmptyQuery, v)
  BY DEF IsEntry, Owes, EmptyQuery, QueryOf

-----------------------------------------------------------------------------
(* SessionScope: the context panel *)

\* A request has changed the metadata and its refetch is still to come.
ScopeWaits == turn = "recorded" \/ \E w \in writes : w.done
IsWrite(w) == \E C, B : w \in [n : {w.n}, change : C, body : B, done : BOOLEAN]
ScopeInv ==
  /\ \A w \in writes : IsWrite(w)
  /\ IsEntry(scopeQuery) /\ unseen \in BOOLEAN
  /\ unseen \/ ScopeWaits \/ Owes(scopeQuery, meta)

\* The requests on the metadata keep their shape.
LEMMA WritesStep ==
  ASSUME \A w \in writes : IsWrite(w), [ScopeNext]_scopeVars
  PROVE  \A w \in writes' : IsWrite(w)
  <1>1. ASSUME NEW made, Mutate(made) PROVE \A w \in writes' : IsWrite(w)
    <2>1. \A c \in made : IsWrite([n |-> scopeClicks', change |-> c,
                                      body |-> Overlay(CachedMeta, c), done |-> FALSE])
      <3> TAKE c \in made
      <3> DEFINE m == CachedMeta
                 v == [n |-> scopeClicks', change |-> c, body |-> Overlay(m, c), done |-> FALSE]
      <3>1. v \in [n : {v.n}, change : {c}, body : {Overlay(m, c)}, done : BOOLEAN]
        OBVIOUS
      <3> QED
        BY <3>1, Zenon DEF IsWrite
    <2> QED
      BY <1>1, <2>1, Zenon DEF Mutate
  <1>2. ASSUME writes' \subseteq writes PROVE \A w \in writes' : IsWrite(w)
    BY <1>2
  <1>3. ASSUME NEW w \in writes, NEW ok \in BOOLEAN, ServerPatches(w, ok)
        PROVE  \A x \in writes' : IsWrite(x)
    <2> DEFINE v == [w EXCEPT !.done = TRUE]
    <2> PICK C, B : w \in [n : {w.n}, change : C, body : B, done : BOOLEAN]
      BY Zenon DEF IsWrite
    <2>1. v \in [n : {v.n}, change : C, body : B, done : BOOLEAN]
      OBVIOUS
    <2>2. IsWrite(v)
      BY <2>1, Zenon DEF IsWrite
    <2> QED
      BY <1>3, <2>2, Zenon DEF ServerPatches
  <1> QED
    BY <1>1, <1>2, <1>3 DEF ScopeNext, ToggleInExplorer, AddToContext, RemoveFromContext,
       SendWithMentions, PatchSettles, RecordUsage, TurnEnds, FetchSession, SessionArrives, scopeVars

\* Every step of the explorer, the chat and the server keeps the copy of the metadata true.
LEMMA ScopeInvStep == ScopeInv /\ [ScopeNext]_scopeVars => ScopeInv'
  <1> SUFFICES ASSUME ScopeInv, [ScopeNext]_scopeVars PROVE ScopeInv'
    OBVIOUS
  <1>0. /\ IsEntry(scopeQuery) /\ unseen \in BOOLEAN
        /\ unseen \/ ScopeWaits \/ Owes(scopeQuery, meta)
        /\ \A w \in writes : IsWrite(w)
        /\ \A w \in writes' : IsWrite(w)
    BY WritesStep DEF ScopeInv
  <1>1. ASSUME UNCHANGED <<meta, scopeQuery, unseen>>, ScopeWaits => ScopeWaits' PROVE ScopeInv'
    BY <1>0, <1>1, Zenon DEF ScopeInv
  \* A refetch that is due makes up for whatever changed, unless it is flagged.
  <1>2. ASSUME InvalidateSession, UNCHANGED meta PROVE ScopeInv'
    <2>1. /\ IsEntry(scopeQuery')
          /\ scopeQuery'.flight = NoData => Owes(scopeQuery', meta)
      BY <1>0, <1>2, CacheSteps DEF InvalidateSession
    <2>2. unseen' \in BOOLEAN /\ (unseen' \/ scopeQuery'.flight = NoData)
      BY <1>0, <1>2 DEF InvalidateSession
    <2> QED
      BY <1>0, <1>2, <2>1, <2>2 DEF ScopeInv
  <1>3. CASE \E p \in Paths : ToggleInExplorer(p) \/ AddToContext(p) \/ RemoveFromContext(p)
    <2>1. KeepServer /\ writes \subseteq writes'
      BY <1>3 DEF ToggleInExplorer, AddToContext, RemoveFromContext, Mutate
    <2> QED
      BY <1>1, <2>1 DEF KeepServer, ScopeWaits
  <1>4. CASE \E mentioned \in SUBSET Paths : SendWithMentions(mentioned)
    <2>1. /\ UNCHANGED <<meta, scopeQuery, unseen>> /\ turn = "none" /\ writes \subseteq writes'
      BY <1>4 DEF SendWithMentions, Mutate
    <2> QED
      BY <1>1, <2>1 DEF ScopeWaits
  <1>5. CASE \E w \in writes : PatchSettles(w)
    BY <1>2, <1>5 DEF PatchSettles
  <1>6. CASE \E w \in writes : \E ok \in BOOLEAN : ServerPatches(w, ok)
    <2> PICK w \in writes, ok \in BOOLEAN : ServerPatches(w, ok)
      BY <1>6
    <2>1. UNCHANGED <<scopeQuery, turn, unseen>> /\ ~w.done
      BY DEF ServerPatches
    <2>2. CASE ok
      <3>1. [w EXCEPT !.done = TRUE] \in writes'
        BY <2>2 DEF ServerPatches
      <3>2. [w EXCEPT !.done = TRUE].done
        BY <1>0 DEF IsWrite
      <3> QED
        BY <1>0, <2>1, <3>1, <3>2 DEF ScopeInv, ScopeWaits
    <2>3. CASE ~ok
      BY <1>1, <2>1, <2>3 DEF ServerPatches, ScopeWaits
    <2> QED
      BY <2>2, <2>3
  <1>7. CASE RecordUsage
    BY <1>0, <1>7 DEF RecordUsage, ScopeInv, ScopeWaits
  <1>8. CASE \E done \in BOOLEAN : TurnEnds(done)
    <2> PICK done \in BOOLEAN : TurnEnds(done)
      BY <1>8
    <2>1. CASE done
      BY <1>2, <2>1 DEF TurnEnds
    <2>2. CASE ~done
      <3>1. UNCHANGED <<meta, scopeQuery, writes>> /\ unseen' = (unseen \/ turn = "recorded")
        BY <2>2 DEF TurnEnds
      <3>2. CASE turn = "recorded"
        BY <1>0, <3>1, <3>2 DEF ScopeInv
      <3>3. CASE turn # "recorded"
        BY <1>1, <3>1, <3>3, <1>0 DEF ScopeWaits
      <3> QED
        BY <3>2, <3>3
    <2> QED
      BY <2>1, <2>2
  <1>9. CASE FetchSession
    <2>1. /\ NeedsFetch(scopeQuery) /\ scopeQuery' = Fetched(scopeQuery, meta)
          /\ UNCHANGED <<meta, unseen>>
      BY <1>9 DEF FetchSession
    <2>2. IsEntry(scopeQuery') /\ Owes(scopeQuery', meta)
      BY <1>0, <2>1, CacheSteps
    <2> QED
      BY <1>0, <2>1, <2>2 DEF ScopeInv
  <1>10. CASE SessionArrives
    <2>1. /\ HasAnswer(scopeQuery) /\ scopeQuery' = Answered(scopeQuery)
          /\ UNCHANGED <<meta, unseen, turn, writes>>
      BY <1>10 DEF SessionArrives
    <2>2. IsEntry(scopeQuery') /\ (Owes(scopeQuery, meta) => Owes(scopeQuery', meta))
      BY <1>0, <2>1, CacheSteps
    <2>3. ScopeWaits => ScopeWaits'
      BY <2>1 DEF ScopeWaits
    <2> QED
      BY <1>0, <2>1, <2>2, <2>3 DEF ScopeInv
  <1>11. CASE UNCHANGED scopeVars
    BY <1>1, <1>11 DEF scopeVars, ScopeWaits
  <1> QED
    BY <1>3, <1>4, <1>5, <1>6, <1>7, <1>8, <1>9, <1>10, <1>11 DEF ScopeNext

\* The context panel is never left behind but where a flag says so: at rest the cached
\* metadata is the stored one, for any number of clicks, turns and overlapping requests.
THEOREM ContextAtRest == ScopeSpec => []ScopeAtRest
  <1>1. ScopeInit => ScopeInv
    BY EmptyEntry DEF ScopeInit, ScopeInv
  <1>2. ScopeInv => ScopeAtRest
    <2> SUFFICES ASSUME ScopeInv, ~unseen, ~ScopeWaits, CacheRests(scopeQuery)
                 PROVE  scopeQuery.data = meta
      BY DEF ScopeAtRest, ScopeWaits
    <2> QED
      BY CacheSteps DEF ScopeInv
  <1> QED
    BY <1>1, <1>2, ScopeInvStep, PTL DEF ScopeSpec


\* The turns whose usage the server may have counted by now.
CountedTurns == IF turn = "open" THEN scopeTurns - 1 ELSE scopeTurns
\* Metadata with paths for its lists, and no more usage than n turns made.
IsMeta(m, n) ==
  /\ DOMAIN m \subseteq {"scope", "attached", "usage"}
  /\ "scope" \in DOMAIN m => m["scope"] \subseteq Paths
  /\ "attached" \in DOMAIN m => m["attached"] \subseteq ScopeFiles
  /\ "usage" \in DOMAIN m => m["usage"] \in 0 .. n
\* However old the copy that a request overlays on the stored metadata, it brings in nothing
\* else: not one turn is counted twice.
ScopeTypes ==
  /\ scopeTurns \in 0 .. MaxScopeTurns /\ scopeClicks \in 0 .. MaxScopeClicks
  /\ turn \in {"none", "open", "recorded"} /\ (turn = "open" => scopeTurns > 0)
  /\ unseen \in BOOLEAN
  /\ IsMeta(meta, CountedTurns)
  /\ scopeQuery.data # NoData => IsMeta(scopeQuery.data, CountedTurns)
  /\ scopeQuery.flight # NoData => IsMeta(scopeQuery.flight, CountedTurns)
  /\ \A w \in writes : IsMeta(w.body, CountedTurns)

LEMMA OverlayIsMeta ==
  ASSUME NEW n, NEW old, IsMeta(old, n), NEW new, IsMeta(new, n)
  PROVE  IsMeta(Overlay(old, new), n)
  <1> DEFINE m == Overlay(old, new)
  <1>1. /\ DOMAIN m = DOMAIN old \cup DOMAIN new
        /\ \A k \in DOMAIN m : m[k] = IF k \in DOMAIN new THEN new[k] ELSE old[k]
    BY DEF Overlay
  <1> HIDE DEF m
  <1>2. IsMeta(m, n)
    BY <1>1 DEF IsMeta
  <1> QED
    BY <1>2 DEF m

\* What one click changes is of the paths the page knows.
LEMMA ChangesAreMeta ==
  ASSUME NEW n, IsMeta(CachedMeta, n), NEW p \in Paths, NEW S \in SUBSET Paths,
         NEW F \in SUBSET ScopeFiles
  PROVE  /\ IsMeta(ToggleScopePath(p), n) /\ IsMeta(AddMentionPath(p), n)
         /\ p \in ScopeFiles => IsMeta(ToggleAttachedFile(p), n)
         /\ IsMeta(UpdateScopeMetadata(ScopePaths \cup S, AttachedFiles \cup F), n)
         /\ ScopePaths \subseteq Paths /\ AttachedFiles \subseteq ScopeFiles
  <1>1. ScopePaths \subseteq Paths /\ AttachedFiles \subseteq ScopeFiles
    BY DEF IsMeta, ScopePaths, AttachedFiles, Entry
  <1>2. Toggled(ScopePaths, p) \subseteq Paths
        /\ (p \in ScopeFiles => Toggled(AttachedFiles, p) \subseteq ScopeFiles)
    BY <1>1 DEF Toggled
  <1>3. \A X \in SUBSET Paths : IsMeta(SetScopePaths(X), n)
    BY DEF SetScopePaths, IsMeta
  <1>4. \A X \in SUBSET ScopeFiles : IsMeta(SetAttachedFiles(X), n)
    BY DEF SetAttachedFiles, IsMeta
  <1>5. \A X \in SUBSET Paths, Y \in SUBSET ScopeFiles : IsMeta(UpdateScopeMetadata(X, Y), n)
    BY DEF UpdateScopeMetadata, IsMeta
  <1>6. IsMeta(ToggleScopePath(p), n) /\ (p \in ScopeFiles => IsMeta(ToggleAttachedFile(p), n))
    BY <1>2, <1>3, <1>4 DEF ToggleScopePath, ToggleAttachedFile
  <1>7. /\ ScopePaths \cup S \in SUBSET Paths /\ AttachedFiles \cup F \in SUBSET ScopeFiles
        /\ ScopePaths \cup {p} \in SUBSET Paths
        /\ AttachedFiles \cup (ScopeFiles \cap {p}) \in SUBSET ScopeFiles
    BY <1>1
  <1>8. /\ IsMeta(AddMentionPath(p), n)
        /\ IsMeta(UpdateScopeMetadata(ScopePaths \cup S, AttachedFiles \cup F), n)
    BY <1>5, <1>7 DEF AddMentionPath
  <1> QED
    BY <1>1, <1>6, <1>8

\* The requests of a click carry such metadata.
LEMMA MutateIsMeta ==
  ASSUME ScopeTypes, NEW changes_, \A c \in changes_ : IsMeta(c, CountedTurns), Mutate(changes_)
  PROVE  /\ \A w \in writes' : IsMeta(w.body, CountedTurns)
         /\ scopeClicks' \in 0 .. MaxScopeClicks
  <1>1. IsMeta(CachedMeta, CountedTurns)
    BY DEF ScopeTypes, CachedMeta, NoMeta, IsMeta
  <1>2. \A c \in changes_ : IsMeta(Overlay(CachedMeta, c), CountedTurns)
    BY <1>1, OverlayIsMeta
  <1>3. \A w \in writes' : w \in writes \/ \E c \in changes_ : w.body = Overlay(CachedMeta, c)
    BY DEF Mutate
  <1>4. \A w \in writes' : IsMeta(w.body, CountedTurns)
    BY <1>2, <1>3 DEF ScopeTypes
  <1>5. scopeClicks' \in 0 .. MaxScopeClicks
    BY ScopeBounds DEF Mutate, ScopeTypes
  <1> QED
    BY <1>4, <1>5

\* Every step keeps the types, and counts the usage of a turn when it is recorded.
LEMMA ScopeTypesStep == ScopeInv /\ ScopeTypes /\ [ScopeNext]_scopeVars => ScopeTypes'
  <1> SUFFICES ASSUME ScopeInv, ScopeTypes, [ScopeNext]_scopeVars PROVE ScopeTypes'
    OBVIOUS
  <1>0. /\ scopeTurns \in Nat /\ CountedTurns \in Nat /\ CountedTurns <= scopeTurns
        /\ IsEntry(scopeQuery) /\ \A w \in writes : IsWrite(w)
    BY ScopeBounds DEF ScopeTypes, CountedTurns, ScopeInv
  <1>a. \A m, n \in Nat : m <= n => \A x : IsMeta(x, m) => IsMeta(x, n)
    BY DEF IsMeta
  <1>b. IsMeta(CachedMeta, CountedTurns)
    BY DEF ScopeTypes, CachedMeta, NoMeta, IsMeta
  \* The count does not fall, and what is new is metadata by the new count.
  <1>1. ASSUME NEW n \in Nat, CountedTurns' = n, CountedTurns <= n,
               scopeTurns' \in 0 .. MaxScopeTurns, scopeClicks' \in 0 .. MaxScopeClicks,
               turn' \in {"none", "open", "recorded"}, turn' = "open" => scopeTurns' > 0,
               unseen' \in BOOLEAN,
               meta' = meta \/ IsMeta(meta', n),
               scopeQuery' = scopeQuery \/
                 (/\ scopeQuery'.data = NoData \/ IsMeta(scopeQuery'.data, n)
                  /\ scopeQuery'.flight = NoData \/ IsMeta(scopeQuery'.flight, n)),
               \A w \in writes' : w \in writes \/ IsMeta(w.body, n)
        PROVE  ScopeTypes'
    <2>1. \A x : IsMeta(x, CountedTurns) => IsMeta(x, n)
      BY <1>0, <1>1, <1>a
    <2>2. IsMeta(meta', n)
      BY <1>1, <2>1 DEF ScopeTypes
    <2>3. /\ scopeQuery'.data # NoData => IsMeta(scopeQuery'.data, n)
          /\ scopeQuery'.flight # NoData => IsMeta(scopeQuery'.flight, n)
      BY <1>1, <2>1 DEF ScopeTypes
    <2>4. \A w \in writes' : IsMeta(w.body, n)
      BY <1>1, <2>1 DEF ScopeTypes
    <2> QED
      BY <1>1, <2>2, <2>3, <2>4 DEF ScopeTypes, IsMeta, Paths
  <1> DEFINE n == CountedTurns
  <1>2. ASSUME NEW p \in Paths, ToggleInExplorer(p) \/ AddToContext(p) \/ RemoveFromContext(p)
        PROVE  ScopeTypes'
    <2>1. /\ IsMeta(ToggleScopePath(p), n) /\ IsMeta(AddMentionPath(p), n)
          /\ p \in ScopeFiles => IsMeta(ToggleAttachedFile(p), n)
          /\ AttachedFiles \subseteq ScopeFiles
      BY <1>b, ChangesAreMeta
    <2>2. \A c \in Removal(p) : IsMeta(c, n)
      BY <2>1 DEF Removal
    <2>3. PICK C : (\A c \in C : IsMeta(c, n)) /\ Mutate(C)
      BY <1>2, <2>1, <2>2, Zenon DEF ToggleInExplorer, AddToContext, RemoveFromContext
    <2>4. (\A w \in writes' : IsMeta(w.body, n)) /\ scopeClicks' \in 0 .. MaxScopeClicks
      BY <2>3, MutateIsMeta
    <2>5. UNCHANGED <<meta, scopeQuery, turn, scopeTurns, unseen>>
      BY <1>2 DEF ToggleInExplorer, AddToContext, RemoveFromContext, KeepServer
    <2>6. CountedTurns' = n
      BY <2>5 DEF CountedTurns
    <2> QED
      BY <1>0, <1>1, <2>4, <2>5, <2>6 DEF ScopeTypes
  <1>3. ASSUME NEW mentioned \in SUBSET Paths, SendWithMentions(mentioned) PROVE ScopeTypes'
    <2>1. /\ turn = "none" /\ turn' = "open" /\ scopeTurns' = scopeTurns + 1
          /\ scopeTurns < MaxScopeTurns /\ UNCHANGED <<meta, scopeQuery, unseen>>
      BY <1>3 DEF SendWithMentions
    <2>2. CountedTurns' = n
      BY <1>0, <2>1 DEF CountedTurns
    <2>3. (\A w \in writes' : IsMeta(w.body, n)) /\ scopeClicks' \in 0 .. MaxScopeClicks
      <3>1. CASE mentioned = {}
        BY <1>3, <3>1 DEF SendWithMentions, ScopeTypes
      <3>2. CASE mentioned # {}
        <4> DEFINE paths == PartitionMentionPaths(mentioned)
                   c == UpdateScopeMetadata(ScopePaths \cup paths.scope,
                                            AttachedFiles \cup paths.attached)
        <4>1. Mutate({c})
          BY <1>3, <3>2 DEF SendWithMentions
        <4>2. paths.scope \in SUBSET Paths /\ paths.attached \in SUBSET ScopeFiles
          BY DEF PartitionMentionPaths, Paths
        <4>3. PICK q \in Paths : TRUE
          BY <3>2
        <4>4. IsMeta(c, n)
          BY <1>b, <4>2, <4>3, ChangesAreMeta
        <4> HIDE DEF c
        <4> QED
          BY <4>1, <4>4, MutateIsMeta
      <3> QED
        BY <3>1, <3>2
    <2> QED
      BY <1>0, <1>1, <2>1, <2>2, <2>3, ScopeBounds DEF ScopeTypes
  <1>4. ASSUME NEW w \in writes, NEW ok \in BOOLEAN, ServerPatches(w, ok) PROVE ScopeTypes'
    <2>1. /\ UNCHANGED <<scopeQuery, turn, scopeClicks, scopeTurns, unseen>>
          /\ meta' = meta \/ meta' = Overlay(meta, w.body)
          /\ writes' \subseteq writes \cup {[w EXCEPT !.done = TRUE]}
      BY <1>4 DEF ServerPatches
    <2>2. CountedTurns' = n
      BY <2>1 DEF CountedTurns
    <2>3. meta' = meta \/ IsMeta(meta', n)
      BY <2>1, OverlayIsMeta DEF ScopeTypes
    <2>4. [w EXCEPT !.done = TRUE].body = w.body
      BY <1>0 DEF IsWrite
    <2>5. \A v \in writes' : v \in writes \/ IsMeta(v.body, n)
      BY <2>1, <2>4 DEF ScopeTypes
    <2> QED
      BY <1>0, <1>1, <2>1, <2>2, <2>3, <2>5 DEF ScopeTypes
  <1>5. ASSUME RecordUsage PROVE ScopeTypes'
    <2>1. /\ turn = "open" /\ turn' = "recorded"
          /\ meta' = Overlay(meta, [k \in {"usage"} |-> UsageOf(meta) + 1])
          /\ UNCHANGED <<scopeQuery, writes, scopeClicks, scopeTurns, unseen>>
      BY <1>5 DEF RecordUsage
    <2>2. CountedTurns' = scopeTurns /\ n = scopeTurns - 1
      BY <2>1 DEF CountedTurns
    <2>3. IsMeta(meta, n) /\ UsageOf(meta) \in 0 .. n
      BY <1>0 DEF ScopeTypes, IsMeta, UsageOf
    <2>4. IsMeta([k \in {"usage"} |-> UsageOf(meta) + 1], scopeTurns)
      BY <1>0, <2>2, <2>3 DEF IsMeta
    <2>5. IsMeta(meta, scopeTurns)
      BY <1>0, <1>a, <2>3
    <2>6. IsMeta(meta', scopeTurns)
      BY <2>1, <2>4, <2>5, OverlayIsMeta
    <2> HIDE DEF n
    <2> QED
      BY <1>0, <1>1, <2>1, <2>2, <2>6 DEF ScopeTypes
  \* The cached entry keeps its data or takes what was on its way.
  <1>6. ASSUME scopeQuery' = Invalidated(scopeQuery, TRUE) \/ scopeQuery' = Answered(scopeQuery)
                 \/ scopeQuery' = scopeQuery
        PROVE  /\ scopeQuery'.data \in {scopeQuery.data, scopeQuery.flight}
               /\ scopeQuery'.flight \in {scopeQuery.flight, NoData}
    <2>1. PICK d, i, f : scopeQuery = [data |-> d, invalid |-> i, flight |-> f]
      BY <1>0 DEF IsEntry, QueryOf
    <2>2. /\ Invalidated(scopeQuery, TRUE).data = d
          /\ Invalidated(scopeQuery, TRUE).flight \in {f, NoData}
          /\ Answered(scopeQuery).data = f /\ Answered(scopeQuery).flight = NoData
      BY <2>1 DEF Invalidated, Answered
    <2>3. scopeQuery.data = d /\ scopeQuery.flight = f
      BY <2>1
    <2> QED
      BY <1>6, <2>2, <2>3
  <1>7. ASSUME scopeQuery' = Invalidated(scopeQuery, TRUE) \/ scopeQuery' = Answered(scopeQuery)
                 \/ scopeQuery' = scopeQuery,
               UNCHANGED <<meta, scopeClicks, scopeTurns>>, writes' \subseteq writes,
               unseen' \in BOOLEAN, turn' = turn \/ (turn # "none" /\ turn' = "none")
        PROVE  ScopeTypes'
    <2>1. PICK m \in Nat : CountedTurns' = m /\ n <= m
      BY <1>0, <1>7 DEF CountedTurns
    <2>2. \A x : IsMeta(x, n) => IsMeta(x, m)
      BY <1>0, <1>a, <2>1
    <2>3. /\ scopeQuery'.data = NoData \/ IsMeta(scopeQuery'.data, m)
          /\ scopeQuery'.flight = NoData \/ IsMeta(scopeQuery'.flight, m)
      BY <1>6, <1>7, <2>2 DEF ScopeTypes
    <2> HIDE DEF n
    <2> QED
      BY <1>0, <1>1, <1>7, <2>1, <2>3 DEF ScopeTypes, n
  <1>8. ASSUME NEW w \in writes, PatchSettles(w) PROVE ScopeTypes'
    BY <1>7, <1>8 DEF PatchSettles, InvalidateSession, ScopeTypes
  <1>9. ASSUME NEW done \in BOOLEAN, TurnEnds(done) PROVE ScopeTypes'
    BY <1>7, <1>9 DEF TurnEnds, InvalidateSession, ScopeTypes
  <1>10. ASSUME FetchSession PROVE ScopeTypes'
    <2>1. /\ scopeQuery' = Fetched(scopeQuery, meta)
          /\ UNCHANGED <<meta, writes, turn, scopeClicks, scopeTurns, unseen>>
      BY <1>10 DEF FetchSession
    <2>2. scopeQuery'.data = scopeQuery.data /\ scopeQuery'.flight = meta
      BY <1>0, <2>1 DEF Fetched, IsEntry, QueryOf
    <2>3. CountedTurns' = n
      BY <2>1 DEF CountedTurns
    <2> QED
      BY <1>0, <1>1, <2>1, <2>2, <2>3 DEF ScopeTypes
  <1>11. ASSUME SessionArrives PROVE ScopeTypes'
    BY <1>7, <1>11 DEF SessionArrives, ScopeTypes
  <1>12. ASSUME UNCHANGED scopeVars PROVE ScopeTypes'
    BY <1>7, <1>12 DEF scopeVars, ScopeTypes
  <1> QED
    BY <1>2, <1>3, <1>4, <1>5, <1>8, <1>9, <1>10, <1>11, <1>12 DEF ScopeNext

\* The context of a session keeps its types, however its requests overlap; in particular the
\* totals never come to more than the turns made: a request that carries an old copy of the
\* whole object may lose usage, it never adds any.
THEOREM ScopeIsTyped == ScopeSpec => []ScopeTypeOK
  <1>1. ScopeInit => ScopeInv /\ ScopeTypes
    <2>1. ScopeInit => ScopeInv
      BY EmptyEntry DEF ScopeInit, ScopeInv
    <2>2. ScopeInit => ScopeTypes
      <3>1. IsMeta(NoMeta, 0)
        BY DEF IsMeta, NoMeta
      <3> SUFFICES ASSUME ScopeInit PROVE ScopeTypes
        OBVIOUS
      <3>2. /\ CountedTurns = 0 /\ scopeQuery.data = NoData /\ scopeQuery.flight = NoData
            /\ meta = NoMeta /\ writes = {} /\ turn = "none" /\ scopeClicks = 0
            /\ scopeTurns = 0 /\ unseen = FALSE
        BY DEF ScopeInit, EmptyQuery, CountedTurns
      <3>3. 0 \in 0 .. MaxScopeTurns /\ 0 \in 0 .. MaxScopeClicks
        BY ScopeBounds
      <3> QED
        BY <3>1, <3>2, <3>3, Zenon DEF ScopeTypes
    <2> QED
      BY <2>1, <2>2
  <1>2. ScopeTypes => ScopeTypeOK
    BY ScopeBounds DEF ScopeTypes, IsMeta, CountedTurns, ScopeTypeOK, UsageOf, Entry
  <1> QED
    BY <1>1, <1>2, ScopeInvStep, ScopeTypesStep, PTL DEF ScopeSpec

-----------------------------------------------------------------------------
(* SessionList: the sidebar *)

\* A request has changed a row and the refetch of the lists is still to come.
ListWaits == \E q \in rowRequests : q.ok
IsRowRequest(q) == \E N, I, C : q \in [n : N, id : I, change : C, ok : BOOLEAN]
ListsInv ==
  /\ \A q \in rowRequests : IsRowRequest(q)
  /\ lists = [k \in ListKinds |-> lists[k]] /\ \A k \in ListKinds : IsEntry(lists[k])
  /\ missed \in BOOLEAN
  /\ missed \/ ListWaits \/ \A k \in ListKinds : Owes(lists[k], Listing(k))

\* The requests on the rows keep their shape.
LEMMA RowRequestsStep ==
  ASSUME \A q \in rowRequests : IsRowRequest(q), [ListNext]_listVars
  PROVE  \A q \in rowRequests' : IsRowRequest(q)
  <1>1. ASSUME NEW s, NEW change,
               rowRequests' = rowRequests \cup
                 {[n |-> listClicks', id |-> s, change |-> change, ok |-> FALSE]}
        PROVE  \A q \in rowRequests' : IsRowRequest(q)
    <2> DEFINE v == [n |-> listClicks', id |-> s, change |-> change, ok |-> FALSE]
    <2>1. v \in [n : {v.n}, id : {s}, change : {change}, ok : BOOLEAN]
      OBVIOUS
    <2>2. IsRowRequest(v)
      BY <2>1, Zenon DEF IsRowRequest
    <2> QED
      BY <1>1, <2>2, Zenon
  <1>2. ASSUME rowRequests' \subseteq rowRequests PROVE \A q \in rowRequests' : IsRowRequest(q)
    BY <1>2
  <1>3. ASSUME NEW s, NEW change, Request(s, change)
        PROVE  \A q \in rowRequests' : IsRowRequest(q)
    BY <1>1, <1>3 DEF Request
  <1>4. ASSUME NEW q \in rowRequests, ServerAnswersRow(q)
        PROVE  \A x \in rowRequests' : IsRowRequest(x)
    <2> DEFINE v == [q EXCEPT !.ok = TRUE]
    <2> PICK N, I, C : q \in [n : N, id : I, change : C, ok : BOOLEAN]
      BY Zenon DEF IsRowRequest
    <2>1. v \in [n : N, id : I, change : C, ok : BOOLEAN]
      OBVIOUS
    <2>2. IsRowRequest(v)
      BY <2>1, Zenon DEF IsRowRequest
    <2>3. rowRequests' = rowRequests \ {q} \/ rowRequests' = (rowRequests \ {q}) \cup {v}
      BY <1>4 DEF ServerAnswersRow
    <2> QED
      BY <2>2, <2>3, Zenon
  <1>5. ASSUME NEW confirmed, CloseDialog(confirmed)
        PROVE  \A q \in rowRequests' : IsRowRequest(q)
    BY <1>1, <1>2, <1>5 DEF CloseDialog
  <1>6. ASSUME NEW s, TogglePin(s) \/ ToggleArchive(s) \/ \E title \in Titles : Rename(s, title)
        PROVE  \A q \in rowRequests' : IsRowRequest(q)
    BY <1>3, <1>6 DEF TogglePin, ToggleArchive, Rename
  <1>7. ASSUME UNCHANGED rowRequests \/ \E q \in rowRequests : RowSettles(q)
        PROVE  \A q \in rowRequests' : IsRowRequest(q)
    BY <1>2, <1>7 DEF RowSettles
  <1> QED
    BY <1>4, <1>5, <1>6, <1>7 DEF ListNext, AskDelete, Choose, ChatStarts, SingleArrives,
       NewSession, SwitchSidebar, FetchSingle, DropOrphan, AnswerNames, FetchList,
       ListArrives, listVars

\* Every step of the sidebar and the server keeps both lists true.
LEMMA ListsInvStep == ListsInv /\ [ListNext]_listVars => ListsInv'
  <1> SUFFICES ASSUME ListsInv, [ListNext]_listVars PROVE ListsInv'
    OBVIOUS
  <1>0. /\ \A q \in rowRequests : IsRowRequest(q)
        /\ \A q \in rowRequests' : IsRowRequest(q)
        /\ lists = [k \in ListKinds |-> lists[k]] /\ \A k \in ListKinds : IsEntry(lists[k])
        /\ missed \in BOOLEAN
        /\ missed \/ ListWaits \/ \A k \in ListKinds : Owes(lists[k], Listing(k))
    BY RowRequestsStep DEF ListsInv
  <1>a. sessionRows' = sessionRows => \A k \in ListKinds : Listing(k)' = Listing(k)
    BY DEF Listing, ListOf
  <1>1. ASSUME UNCHANGED <<sessionRows, lists, missed>>, ListWaits => ListWaits' PROVE ListsInv'
    BY <1>0, <1>1, <1>a, Zenon DEF ListsInv
  <1>2. ASSUME InvalidateLists PROVE ListsInv'
    <2>1. lists' = [k \in ListKinds |-> Invalidated(lists[k], ListShown(k))]
      BY <1>2 DEF InvalidateLists
    <2>2. \A k \in ListKinds : lists'[k] = Invalidated(lists[k], ListShown(k))
      BY <2>1
    <2>3. \A k \in ListKinds : /\ IsEntry(lists'[k])
                               /\ lists'[k].flight = NoData => Owes(lists'[k], Listing(k)')
      <3> TAKE k \in ListKinds
      <3> DEFINE shown == ListShown(k)
                 v == Listing(k)'
      <3>1. shown \in BOOLEAN
        BY DEF ListShown
      <3> HIDE DEF shown, v
      <3>2. lists'[k] = Invalidated(lists[k], shown)
        BY <2>2 DEF shown
      <3>3. IsEntry(lists'[k]) /\ (lists'[k].flight = NoData => Owes(lists'[k], v))
        BY <1>0, <3>1, <3>2, CacheSteps
      <3> QED
        BY <3>3 DEF v
    <2>4. missed' \in BOOLEAN /\ (missed' \/ \A k \in ListKinds : lists'[k].flight = NoData)
      BY <1>0, <1>2 DEF InvalidateLists
    <2>5. lists' = [k \in ListKinds |-> lists'[k]]
      BY <2>1
    <2> QED
      BY <1>0, <2>3, <2>4, <2>5, Zenon DEF ListsInv
  <1>3. ASSUME NEW s, NEW change, Request(s, change) PROVE ListsInv'
    <2>1. UNCHANGED <<sessionRows, lists, missed>> /\ rowRequests \subseteq rowRequests'
      BY <1>3 DEF Request, KeepCaches
    <2> QED
      BY <1>1, <2>1 DEF ListWaits
  <1>4. CASE \E s \in ListSessions :
               TogglePin(s) \/ ToggleArchive(s) \/ \E title \in Titles : Rename(s, title)
    BY <1>3, <1>4 DEF TogglePin, ToggleArchive, Rename
  <1>5. CASE \E confirmed \in BOOLEAN : CloseDialog(confirmed)
    <2>1. UNCHANGED <<sessionRows, lists, missed>> /\ rowRequests \subseteq rowRequests'
      BY <1>5 DEF CloseDialog, KeepCaches
    <2> QED
      BY <1>1, <2>1 DEF ListWaits
  <1>6. CASE \/ NewSession \/ SwitchSidebar \/ FetchSingle \/ DropOrphan \/ UNCHANGED listVars
             \/ \E s \in ListSessions : AskDelete(s) \/ Choose(s) \/ SingleArrives(s)
    <2>1. UNCHANGED <<sessionRows, lists, missed, rowRequests>>
      BY <1>6 DEF NewSession, SwitchSidebar, FetchSingle, DropOrphan, AskDelete, Choose,
                  SingleArrives, KeepCaches, listVars
    <2> QED
      BY <1>1, <2>1 DEF ListWaits
  <1>7. CASE \E q \in rowRequests : ServerAnswersRow(q)
    <2> PICK q \in rowRequests : ServerAnswersRow(q)
      BY <1>7
    <2>1. UNCHANGED <<lists, missed>> /\ ~q.ok
      BY DEF ServerAnswersRow
    <2>2. CASE sessionRows[q.id].deleted
      <3>1. UNCHANGED sessionRows /\ rowRequests' = rowRequests \ {q}
        BY <2>2 DEF ServerAnswersRow
      <3> QED
        BY <1>1, <2>1, <3>1 DEF ListWaits
    <2>3. CASE ~sessionRows[q.id].deleted
      <3>1. [q EXCEPT !.ok = TRUE] \in rowRequests'
        BY <2>3 DEF ServerAnswersRow
      <3>2. [q EXCEPT !.ok = TRUE].ok
        BY <1>0 DEF IsRowRequest
      <3>3. ListWaits'
        BY <3>1, <3>2 DEF ListWaits
      <3> QED
        BY <1>0, <2>1, <3>3, Zenon DEF ListsInv
    <2> QED
      BY <2>2, <2>3
  <1>8. CASE (\E q \in rowRequests : RowSettles(q)) \/ \E s \in ListSessions : ChatStarts(s)
    BY <1>2, <1>8 DEF RowSettles, ChatStarts
  <1>9. CASE \E title \in Titles : AnswerNames(title)
    <2>1. missed' = TRUE /\ UNCHANGED <<lists, rowRequests>>
      BY <1>9 DEF AnswerNames
    <2> QED
      BY <1>0, <2>1 DEF ListsInv
  \* A fetch, or its answer, of one of the lists.
  <1>10. ASSUME NEW kind \in ListKinds, NEW e, lists' = [lists EXCEPT ![kind] = e], IsEntry(e),
                Owes(lists[kind], Listing(kind)) => Owes(e, Listing(kind)),
                UNCHANGED <<sessionRows, missed, rowRequests>>
         PROVE  ListsInv'
    <2>1. /\ lists' = [k \in ListKinds |-> lists'[k]]
          /\ \A k \in ListKinds : lists'[k] = IF k = kind THEN e ELSE lists[k]
      BY <1>0, <1>10
    <2>2. \A k \in ListKinds : /\ IsEntry(lists'[k])
                               /\ Owes(lists[k], Listing(k)) => Owes(lists'[k], Listing(k))
      BY <1>0, <1>10, <2>1
    <2>3. ListWaits' <=> ListWaits
      BY <1>10 DEF ListWaits
    <2> QED
      BY <1>0, <1>10, <1>a, <2>1, <2>2, <2>3, Zenon DEF ListsInv
  <1>11. CASE \E kind \in ListKinds : FetchList(kind)
    <2> PICK kind \in ListKinds : FetchList(kind)
      BY <1>11
    <2> DEFINE e == Fetched(lists[kind], Listing(kind))
    <2>1. /\ lists' = [lists EXCEPT ![kind] = e] /\ NeedsFetch(lists[kind])
          /\ UNCHANGED <<sessionRows, missed, rowRequests>>
      BY DEF FetchList
    <2>2. IsEntry(e) /\ Owes(e, Listing(kind))
      BY <1>0, <2>1, CacheSteps
    <2> QED
      BY <1>10, <2>1, <2>2
  <1>12. CASE \E kind \in ListKinds : ListArrives(kind)
    <2> PICK kind \in ListKinds : ListArrives(kind)
      BY <1>12
    <2> DEFINE e == Answered(lists[kind])
    <2>1. /\ lists' = [lists EXCEPT ![kind] = e] /\ HasAnswer(lists[kind])
          /\ UNCHANGED <<sessionRows, missed, rowRequests>>
      BY DEF ListArrives
    <2>2. IsEntry(e) /\ (Owes(lists[kind], Listing(kind)) => Owes(e, Listing(kind)))
      BY <1>0, <2>1, CacheSteps
    <2> QED
      BY <1>10, <2>1, <2>2
  <1> QED
    BY <1>4, <1>5, <1>6, <1>7, <1>8, <1>9, <1>11, <1>12 DEF ListNext

SessionListSpec == ListInit /\ [][ListNext]_listVars

\* The sidebar is never left behind but where a flag says so: at rest each of its lists is
\* the server's, for any number of sessions, clicks and overlapping requests.
THEOREM SidebarAtRest == SessionListSpec => []ListsAtRest
  <1>1. ListInit => ListsInv
    BY EmptyEntry DEF ListInit, ListsInv, ListKinds
  <1>2. ListsInv => ListsAtRest
    <2> SUFFICES ASSUME ListsInv, ~missed, ~ListWaits, NEW k \in ListKinds, CacheRests(lists[k])
                 PROVE  lists[k].data = Listing(k)
      BY DEF ListsAtRest, ListWaits
    <2> QED
      BY CacheSteps DEF ListsInv
  <1> QED
    BY <1>1, <1>2, ListsInvStep, PTL DEF SessionListSpec

\* What the sidebar keeps besides its lists; a request names a session, and changes fields of
\* its row only to what a row may hold.
RowType == [title : Titles \cup {Untitled}, pinned : BOOLEAN, archived : BOOLEAN, deleted : BOOLEAN]
IsRowChange(c) ==
  \A f \in DOMAIN c : IF f = "title" THEN c[f] \in Titles ELSE c[f] \in BOOLEAN
ListTypes ==
  /\ sessionRows \in [ListSessions -> RowType]
  /\ chosen \in ListSessions \cup {NoSession} /\ pendingDelete \in ListSessions \cup {NoSession}
  /\ sidebarShown \in BOOLEAN /\ listClicks \in 0 .. MaxListClicks
  /\ \A q \in rowRequests : q.id \in ListSessions /\ IsRowChange(q.change)

\* The row after a PATCH or a deletion.
LEMMA ChangedRow ==
  ASSUME NEW row \in RowType, NEW c, IsRowChange(c)
  PROVE  [f \in DOMAIN row |-> IF f \in DOMAIN c THEN c[f]
                               ELSE IF f = "archived" /\ "deleted" \in DOMAIN c
                               THEN TRUE ELSE row[f]] \in RowType
  <1>1. DOMAIN row = {"title", "pinned", "archived", "deleted"}
    BY DEF RowType
  <1>2. /\ "title" \in DOMAIN c => c["title"] \in Titles
        /\ \A f \in {"pinned", "archived", "deleted"} \cap DOMAIN c : c[f] \in BOOLEAN
    BY DEF IsRowChange
  <1> QED
    BY <1>1, <1>2 DEF RowType

LEMMA ListTypesStep == ListsInv /\ ListTypes /\ [ListNext]_listVars => ListTypes'
  <1> SUFFICES ASSUME ListsInv, ListTypes, [ListNext]_listVars PROVE ListTypes'
    OBVIOUS
  <1>0. \A q \in rowRequests : /\ IsRowRequest(q)
                               /\ q.id \in ListSessions /\ IsRowChange(q.change)
    BY DEF ListsInv, ListTypes
  <1>a. ListClick => listClicks' \in 0 .. MaxListClicks
    BY ListBounds DEF ListTypes, ListClick
  \* A step that changes no row and sends nothing.
  <1>1. ASSUME UNCHANGED sessionRows, rowRequests' \subseteq rowRequests,
               chosen' \in ListSessions \cup {NoSession}, sidebarShown' \in BOOLEAN,
               pendingDelete' \in ListSessions \cup {NoSession},
               ListClick \/ UNCHANGED listClicks
        PROVE  ListTypes'
    BY <1>0, <1>1, <1>a DEF ListTypes
  <1>2. ASSUME NEW s \in ListSessions, NEW change, IsRowChange(change),
               rowRequests' = rowRequests \cup
                 {[n |-> listClicks', id |-> s, change |-> change, ok |-> FALSE]},
               UNCHANGED <<sessionRows, chosen, sidebarShown>>,
               pendingDelete' \in {pendingDelete, NoSession}, ListClick
        PROVE  ListTypes'
    BY <1>0, <1>2, <1>a DEF ListTypes
  <1>3. /\ \A t \in Titles : IsRowChange(Only("title", t))
        /\ \A b \in BOOLEAN, f \in {"pinned", "archived", "deleted"} : IsRowChange(Only(f, b))
    BY DEF IsRowChange, Only
  <1>4. ASSUME NEW s \in ListSessions, NEW change, IsRowChange(change), Request(s, change)
        PROVE  ListTypes'
    BY <1>2, <1>4 DEF Request, KeepCaches
  <1>5. ASSUME NEW s \in ListSessions,
               TogglePin(s) \/ ToggleArchive(s) \/ \E title \in Titles : Rename(s, title)
        PROVE  ListTypes'
    BY <1>3, <1>4, <1>5 DEF TogglePin, ToggleArchive, Rename
  <1>6. ASSUME NEW confirmed \in BOOLEAN, CloseDialog(confirmed) PROVE ListTypes'
    <2>1. CASE confirmed
      <3>1. pendingDelete \in ListSessions /\ IsRowChange(Only("deleted", TRUE))
        BY <1>3, <1>6 DEF CloseDialog, ListTypes
      <3> QED
        BY <1>2, <1>6, <2>1, <3>1 DEF CloseDialog, KeepCaches
    <2>2. CASE ~confirmed
      BY <1>1, <1>6, <2>2 DEF CloseDialog, KeepCaches, ListTypes
    <2> QED
      BY <2>1, <2>2
  <1>7. ASSUME NEW s \in ListSessions, AskDelete(s) \/ Choose(s) \/ SingleArrives(s)
        PROVE  ListTypes'
    BY <1>1, <1>7 DEF AskDelete, Choose, SingleArrives, KeepCaches, ListTypes
  <1>8. ASSUME NewSession \/ SwitchSidebar \/ FetchSingle \/ DropOrphan \/ UNCHANGED listVars
        PROVE  ListTypes'
    BY <1>1, <1>8 DEF NewSession, SwitchSidebar, FetchSingle, DropOrphan, KeepCaches, ListTypes,
                      listVars
  <1>9. ASSUME NEW kind, FetchList(kind) \/ ListArrives(kind) PROVE ListTypes'
    BY <1>1, <1>9 DEF FetchList, ListArrives, ListTypes
  <1>10. ASSUME NEW q \in rowRequests, RowSettles(q) PROVE ListTypes'
    BY <1>1, <1>10 DEF RowSettles, ListTypes
  \* One row changes, to a row.
  <1>11. ASSUME NEW s \in ListSessions, NEW row \in RowType,
                sessionRows' = [sessionRows EXCEPT ![s] = row],
                chosen' \in ListSessions \cup {NoSession}, UNCHANGED <<sidebarShown, pendingDelete>>,
                ListClick \/ UNCHANGED listClicks,
                \A q \in rowRequests' : q.id \in ListSessions /\ IsRowChange(q.change)
         PROVE  ListTypes'
    <2>1. sessionRows' \in [ListSessions -> RowType]
      BY <1>11 DEF ListTypes
    <2> QED
      BY <1>11, <1>a, <2>1 DEF ListTypes
  <1>12. ASSUME NEW q \in rowRequests, ServerAnswersRow(q) PROVE ListTypes'
    <2>1. CASE sessionRows[q.id].deleted
      BY <1>1, <1>12, <2>1 DEF ServerAnswersRow, ListTypes
    <2>2. CASE ~sessionRows[q.id].deleted
      <3> DEFINE row == [f \in DOMAIN sessionRows[q.id] |->
                          IF f \in DOMAIN q.change THEN q.change[f]
                          ELSE IF f = "archived" /\ "deleted" \in DOMAIN q.change
                          THEN TRUE ELSE sessionRows[q.id][f]]
      <3>1. sessionRows[q.id] \in RowType
        BY <1>0 DEF ListTypes
      <3>2. row \in RowType
        BY <1>0, <3>1, ChangedRow
      <3>3. sessionRows' = [sessionRows EXCEPT ![q.id] = row]
        BY <1>12, <2>2 DEF ServerAnswersRow
      <3>4. [q EXCEPT !.ok = TRUE].id = q.id /\ [q EXCEPT !.ok = TRUE].change = q.change
        BY <1>0 DEF IsRowRequest
      <3>5. \A x \in rowRequests' : x.id \in ListSessions /\ IsRowChange(x.change)
        BY <1>0, <1>12, <2>2, <3>4 DEF ServerAnswersRow
      <3>6. UNCHANGED <<chosen, sidebarShown, pendingDelete, listClicks>>
        BY <1>12 DEF ServerAnswersRow
      <3> HIDE DEF row
      <3> QED
        BY <1>0, <1>11, <3>2, <3>3, <3>5, <3>6 DEF ListTypes
    <2> QED
      BY <2>1, <2>2
  <1>13. ASSUME NEW s \in ListSessions, ChatStarts(s) PROVE ListTypes'
    <2>1. Fresh \in RowType
      BY DEF Fresh, Absent, RowType
    <2> QED
      BY <1>0, <1>11, <1>13, <2>1 DEF ChatStarts
  <1>14. ASSUME NEW title \in Titles, AnswerNames(title) PROVE ListTypes'
    <2>1. chosen \in ListSessions /\ sessionRows[chosen] \in RowType
      BY <1>14 DEF AnswerNames, ListTypes
    <2>2. [sessionRows[chosen] EXCEPT !.title = title] \in RowType
      BY <2>1 DEF RowType
    <2>3. sessionRows' = [sessionRows EXCEPT ![chosen] = [sessionRows[chosen] EXCEPT !.title = title]]
      BY <1>14 DEF AnswerNames
    <2>4. UNCHANGED <<chosen, sidebarShown, pendingDelete, rowRequests>> /\ ListClick
      BY <1>14 DEF AnswerNames
    <2> QED
      BY <1>0, <1>11, <2>1, <2>2, <2>3, <2>4
  <1> QED
    BY <1>5, <1>6, <1>7, <1>8, <1>9, <1>10, <1>12, <1>13, <1>14 DEF ListNext

\* The sidebar's rows, choices and dialog keep their types, whatever requests overlap.
THEOREM SidebarIsTyped == SessionListSpec => []ListTypeOK
  <1>1. ListInit => ListsInv
    BY EmptyEntry DEF ListInit, ListsInv, ListKinds
  <1>2. ListInit => ListTypes
    <2>1. Fresh \in RowType /\ Absent \in RowType
      BY DEF Fresh, Absent, RowType
    <2>2. [ListSessions -> {Fresh, Absent}] \subseteq [ListSessions -> RowType]
      BY <2>1
    <2> QED
      BY <2>2, ListBounds DEF ListInit, ListTypes
  <1>3. ListsInv /\ ListTypes => ListTypeOK
    BY DEF ListsInv, ListTypes, RowType, ListTypeOK
  <1> QED
    BY <1>1, <1>2, <1>3, ListsInvStep, ListTypesStep, PTL DEF SessionListSpec

-----------------------------------------------------------------------------
(* PlanReview: the change-set page *)

DraftKinds == {"validate", "apply", "delete"}
PlanKinds == {"approve", "revise", "act", "rollback"}
Phases == {"sent", "acting", "ok", "failed"}
\* The editor's requests are about drafts, and none of them acts.
IsPlanRequest(q) ==
  /\ \E N, P, A : q \in [n : N, kind : PlanKinds \cup DraftKinds, plan : P,
                         by : {"page", "gone", "editor"}, phase : Phases, answer : A]
  /\ q.by = "editor" <=> q.kind \in DraftKinds
  /\ q.phase = "acting" => q.by # "editor"

\* A request has changed the change set of s and its refetch is still to come.
PlanWaits(s) == \E q \in requests : q.plan = s /\ q.by # "editor" /\ q.phase \in {"acting", "ok"}
OpenOf(row) == IF OpenRow(row) THEN row ELSE NoRow
PlansInv ==
  /\ \A q \in requests : IsPlanRequest(q)
  /\ rows = [s \in PlanSessions |-> rows[s]]
  /\ planQuery = [s \in PlanSessions |-> planQuery[s]]
  /\ \A s \in PlanSessions : IsEntry(planQuery[s])
  /\ behind \in BOOLEAN /\ viewed \in PlanSessions
  /\ behind \/ \A s \in PlanSessions : PlanWaits(s) \/ Owes(planQuery[s], OpenOf(rows[s]))

\* What the two pages send.
LEMMA SentRequest ==
  ASSUME NEW n, NEW kind, NEW s, NEW by,
         (kind \in PlanKinds /\ by = "page") \/ (kind \in DraftKinds /\ by = "editor")
  PROVE  IsPlanRequest([n |-> n, kind |-> kind, plan |-> s, by |-> by, phase |-> "sent",
                        answer |-> NoRow])
  <1> DEFINE v == [n |-> n, kind |-> kind, plan |-> s, by |-> by, phase |-> "sent",
                   answer |-> NoRow]
  <1>1. v \in [n : {n}, kind : PlanKinds \cup DraftKinds, plan : {s},
               by : {"page", "gone", "editor"}, phase : Phases, answer : {NoRow}]
    BY DEF Phases
  <1>2. v.by = by /\ v.kind = kind /\ v.phase = "sent"
    OBVIOUS
  <1>3. by = "editor" <=> kind \in DraftKinds
    BY DEF PlanKinds, DraftKinds
  <1> QED
    BY <1>1, <1>2, <1>3, Zenon DEF IsPlanRequest

\* A request whose page was left.
LEMMA ForgottenRequest ==
  ASSUME NEW q, IsPlanRequest(q), NEW v, v = [q EXCEPT !.by = IF @ = "page" THEN "gone" ELSE @]
  PROVE  /\ IsPlanRequest(v) /\ v.plan = q.plan /\ v.phase = q.phase
         /\ v.by = "editor" <=> q.by = "editor"
  <1> PICK N, P, A : q \in [n : N, kind : PlanKinds \cup DraftKinds, plan : P,
                            by : {"page", "gone", "editor"}, phase : Phases, answer : A]
    BY Zenon DEF IsPlanRequest
  <1>1. /\ v \in [n : N, kind : PlanKinds \cup DraftKinds, plan : P,
                  by : {"page", "gone", "editor"}, phase : Phases, answer : A]
        /\ v.plan = q.plan /\ v.phase = q.phase /\ v.kind = q.kind
        /\ v.by = IF q.by = "page" THEN "gone" ELSE q.by
    OBVIOUS
  <1>2. v.by = "editor" <=> q.by = "editor"
    BY <1>1
  <1> QED
    BY <1>1, <1>2, Zenon DEF IsPlanRequest

\* Every step of the plan page, the patch editor, the chat and the server keeps the copies of
\* the open change sets true.
LEMMA PlansInvStep == PlansInv /\ [PlanNext]_planVars => PlansInv'
  <1> SUFFICES ASSUME PlansInv, [PlanNext]_planVars PROVE PlansInv'
    OBVIOUS
  <1>0. /\ \A q \in requests : IsPlanRequest(q)
        /\ rows = [s \in PlanSessions |-> rows[s]]
        /\ planQuery = [s \in PlanSessions |-> planQuery[s]]
        /\ \A s \in PlanSessions : IsEntry(planQuery[s])
        /\ behind \in BOOLEAN /\ viewed \in PlanSessions /\ viewed' \in PlanSessions
        /\ behind \/ \A s \in PlanSessions : PlanWaits(s) \/ Owes(planQuery[s], OpenOf(rows[s]))
    <2>1. PlansInv
      OBVIOUS
    <2>2. viewed' \in PlanSessions
      BY DEF PlansInv, PlanNext, PressPlanButton, PressEditorButton, ShowChat, ShowPlanPage,
             OpenPatch, RememberPlan, PlanTurn, Handle, MutationSettles, ViewSession, PlanAnswer,
             SettleDraft, AskPlan, AskDetail, AskDraft, viewVars, planVars
    <2> QED
      BY <2>1, <2>2 DEF PlansInv
  \* Steps that touch neither rows nor copies.
  <1>1. ASSUME UNCHANGED <<rows, planQuery, behind>>, \A q \in requests' : IsPlanRequest(q),
               \A s \in PlanSessions : PlanWaits(s) => PlanWaits(s)'
        PROVE  PlansInv'
    BY <1>0, <1>1, Zenon DEF PlansInv
  <1>2. ASSUME NEW kind, NEW s, NEW by, Send(kind, s, by),
               (kind \in PlanKinds /\ by = "page") \/ (kind \in DraftKinds /\ by = "editor"),
               UNCHANGED <<rows, planQuery, behind>>
        PROVE  PlansInv'
    <2>1. \A q \in requests' : IsPlanRequest(q)
      BY <1>0, <1>2, SentRequest DEF Send
    <2>2. requests \subseteq requests'
      BY <1>2 DEF Send
    <2> QED
      BY <1>1, <1>2, <2>1, <2>2 DEF PlanWaits
  <1>3. CASE \/ \E b \in {"approve", "revise", "act", "rollback"} : PressPlanButton(b)
             \/ \E b \in {"validate", "apply", "delete"} : PressEditorButton(b)
    BY <1>2, <1>3 DEF PressPlanButton, PressEditorButton, PlanKinds, DraftKinds,
                      serverPlanVars, cacheVars, Click
  <1>4. CASE ShowChat
    <2>1. /\ requests' = {[q EXCEPT !.by = IF @ = "page" THEN "gone" ELSE @] : q \in requests}
          /\ UNCHANGED <<rows, planQuery, behind>>
      BY <1>4 DEF ShowChat, serverPlanVars, cacheVars, Click
    <2>2. \A q \in requests' : IsPlanRequest(q)
      BY <1>0, <2>1, ForgottenRequest
    <2>3. ASSUME NEW s \in PlanSessions, PlanWaits(s) PROVE PlanWaits(s)'
      <3> PICK q \in requests : q.plan = s /\ q.by # "editor" /\ q.phase \in {"acting", "ok"}
        BY <2>3 DEF PlanWaits
      <3> DEFINE v == [q EXCEPT !.by = IF @ = "page" THEN "gone" ELSE @]
      <3>1. v \in requests'
        BY <2>1
      <3>2. v.plan = q.plan /\ v.phase = q.phase /\ v.by # "editor"
        BY <1>0, ForgottenRequest
      <3> QED
        BY <3>1, <3>2 DEF PlanWaits
    <2> QED
      BY <1>1, <2>1, <2>2, <2>3
  <1>5. CASE \/ ShowPlanPage \/ OpenPatch \/ RememberPlan \/ AskDetail \/ AskDraft
             \/ (\E s \in PlanSessions : ViewSession(s)) \/ UNCHANGED planVars
             \/ \E s \in PlanSessions, ok \in BOOLEAN : SettleDraft(s, ok)
    <2>1. UNCHANGED <<rows, planQuery, behind, requests>>
      BY <1>5 DEF ShowPlanPage, OpenPatch, RememberPlan, AskDetail, AskDraft, ViewSession,
                  SettleDraft, serverPlanVars, cacheVars, viewVars, planVars, Click
    <2> QED
      BY <1>0, <1>1, <2>1 DEF PlanWaits
  \* A request is handled: nothing changes for other sessions; for its own, the refetch
  \* is to come, or nothing open changed, or the flag is up.
  <1>6. ASSUME NEW q \in requests, NEW phase \in Phases, NEW answer, NEW row,
               Answer(q, phase, answer), SetRow(q.plan, row), planQuery' = planQuery,
               q.phase \in {"sent", "acting"}, phase = "acting" => q.by # "editor",
               behind' \in BOOLEAN, behind => behind',
               \/ behind'
               \/ q.by # "editor" /\ phase \in {"acting", "ok"}
               \/ q.phase = "sent" /\ row = rows[q.plan]
        PROVE  PlansInv'
    <2> PICK v : v = [q EXCEPT !.phase = phase, !.answer = answer]
      OBVIOUS
    <2>1. requests' = (requests \ {q}) \cup {v}
      BY <1>6 DEF Answer
    <2>a. IsPlanRequest(q) /\ (phase = "acting" => q.by # "editor")
      BY <1>0, <1>6
    <2>2. IsPlanRequest(v) /\ v.plan = q.plan /\ v.by = q.by /\ v.phase = phase
      <3> PICK N, P, A : q \in [n : N, kind : PlanKinds \cup DraftKinds, plan : P,
                                by : {"page", "gone", "editor"}, phase : Phases, answer : A]
        BY <2>a, Zenon DEF IsPlanRequest
      <3> DEFINE B == A \cup {answer}
      <3>1. /\ v \in [n : N, kind : PlanKinds \cup DraftKinds, plan : P,
                      by : {"page", "gone", "editor"}, phase : Phases, answer : B]
            /\ v.plan = q.plan /\ v.by = q.by /\ v.phase = phase /\ v.kind = q.kind
        OBVIOUS
      <3>2. /\ q.by = "editor" <=> q.kind \in DraftKinds
            /\ phase = "acting" => q.by # "editor"
        BY <2>a DEF IsPlanRequest
      <3> HIDE DEF B
      <3> QED
        BY <3>1, <3>2, Zenon DEF IsPlanRequest
    <2>3. \A x \in requests' : IsPlanRequest(x)
      BY <1>0, <2>1, <2>2
    <2>4. /\ rows' = [s \in PlanSessions |-> rows'[s]]
          /\ \A s \in PlanSessions : rows'[s] = IF s = q.plan THEN row ELSE rows[s]
      BY <1>0, <1>6 DEF SetRow
    <2>5. ASSUME ~behind', NEW s \in PlanSessions
          PROVE  PlanWaits(s)' \/ Owes(planQuery[s], OpenOf(rows'[s]))
      <3>1. PlanWaits(s) \/ Owes(planQuery[s], OpenOf(rows[s]))
        BY <1>0, <1>6, <2>5
      <3>2. CASE s # q.plan
        <4>1. PlanWaits(s) => PlanWaits(s)'
          BY <2>1, <3>2 DEF PlanWaits
        <4>2. rows'[s] = rows[s]
          BY <2>4, <3>2
        <4> QED
          BY <3>1, <4>1, <4>2
      <3>3. CASE s = q.plan /\ q.by # "editor" /\ phase \in {"acting", "ok"}
        BY <2>1, <2>2, <3>3 DEF PlanWaits
      <3>4. CASE s = q.plan /\ q.phase = "sent" /\ row = rows[q.plan]
        <4>1. PlanWaits(s) => PlanWaits(s)'
          BY <2>1, <3>4 DEF PlanWaits
        <4>2. rows'[s] = rows[s]
          BY <2>4, <3>4
        <4> QED
          BY <3>1, <4>1, <4>2
      <3> QED
        BY <1>6, <2>5, <3>2, <3>3, <3>4
    <2> QED
      BY <1>0, <1>6, <2>3, <2>4, <2>5, Zenon DEF PlansInv
  <1>7. CASE \E q \in requests : Handle(q)
    <2> PICK q \in requests : Handle(q)
      BY <1>7
    <2> DEFINE row == rows[q.plan]
    <2>1. planQuery' = planQuery
      BY DEF Handle, cacheVars
    <2>2. IsPlanRequest(q)
      BY <1>0
    <2>3. q.by = "editor" <=> q.kind \in DraftKinds
      BY <2>2 DEF IsPlanRequest
    <2>4. CASE q.phase = "sent" /\ (Approves(q, row) \/ Revises(q, row) \/ RollsBack(q, row) \/ Acts(q, row))
      <3>1. q.kind \notin DraftKinds
        BY <2>4 DEF Approves, Revises, RollsBack, Acts, DraftKinds
      <3>2. CASE \E to : Accept(q, to)
        <4> PICK to : Accept(q, to)
          BY <3>2
        <4> QED
          BY <1>0, <1>6, <2>1, <2>3, <2>4, <3>1 DEF Accept, Phases
      <3>3. CASE Refuse(q, row)
        BY <1>0, <1>6, <2>1, <2>4, <3>3 DEF Refuse, Phases
      <3>4. CASE Answer(q, "acting", row) /\ UNCHANGED behind /\ \E to : SetRow(q.plan, to)
        BY <1>0, <1>6, <2>1, <2>3, <2>4, <3>1, <3>4 DEF Phases
      <3> QED
        BY <2>4, <3>2, <3>3, <3>4 DEF Approves, Revises, RollsBack, Acts
    <2>5. CASE q.phase = "sent" /\ (Validates(q, row) \/ Applies(q, row) \/ Deletes(q, row))
      <3>1. PICK to, phase :
              /\ phase \in {"ok", "failed"}
              /\ SetRow(q.plan, to) /\ behind' = (behind \/ to # rows[q.plan])
              /\ \E answer : Answer(q, phase, answer)
        BY <2>5 DEF Validates, Applies, Deletes, DraftTo
      <3> QED
        BY <1>0, <1>6, <2>1, <2>5, <3>1 DEF Phases
    <2>6. CASE q.phase = "sent" /\ Refuse(q, row)
      BY <1>0, <1>6, <2>1, <2>6 DEF Refuse, Phases
    <2>7. CASE EndsAct(q, row)
      <3>1. q.phase = "acting" /\ q.by # "editor"
        BY <2>2, <2>7 DEF EndsAct, IsPlanRequest
      <3>2. CASE \E to : Accept(q, to)
        BY <1>0, <1>6, <2>1, <3>1, <3>2 DEF Accept, Phases
      <3>3. CASE behind' = TRUE /\ (\E to : SetRow(q.plan, to)) /\ Answer(q, "failed", row)
        BY <1>0, <1>6, <2>1, <3>1, <3>3 DEF Phases
      <3> QED
        BY <2>7, <3>2, <3>3 DEF EndsAct
    <2> QED
      BY <2>4, <2>5, <2>6, <2>7 DEF Handle
  <1>8. ASSUME NEW s \in PlanSessions, InvalidatePlan(s), requests' \subseteq requests,
               \A t \in PlanSessions \ {s} : rows'[t] = rows[t] /\ (PlanWaits(t) => PlanWaits(t)'),
               rows' = [t \in PlanSessions |-> rows'[t]]
        PROVE  PlansInv'
    <2> DEFINE shown == (s = viewed)
    <2>1. /\ planQuery' = [planQuery EXCEPT ![s] = Invalidated(@, shown)]
          /\ behind' = (behind \/ planQuery'[s].flight # NoData)
      BY <1>8 DEF InvalidatePlan
    <2>2. shown \in BOOLEAN
      OBVIOUS
    <2> HIDE DEF shown
    <2>3. /\ planQuery' = [t \in PlanSessions |-> planQuery'[t]]
          /\ planQuery'[s] = Invalidated(planQuery[s], shown)
          /\ \A t \in PlanSessions \ {s} : planQuery'[t] = planQuery[t]
      BY <1>0, <2>1
    <2>4. /\ IsEntry(planQuery'[s])
          /\ \A v : planQuery'[s].flight = NoData => Owes(planQuery'[s], v)
      <3>1. IsEntry(planQuery[s])
        BY <1>0
      <3>2. /\ IsEntry(Invalidated(planQuery[s], shown))
            /\ \A v : Invalidated(planQuery[s], shown).flight = NoData
                      => Owes(Invalidated(planQuery[s], shown), v)
        BY <2>2, <3>1, CacheSteps, Zenon
      <3> QED
        BY <2>3, <3>2, Zenon
    <2>5. \A t \in PlanSessions : IsEntry(planQuery'[t])
      BY <1>0, <2>3, <2>4
    <2>6. ASSUME ~behind', NEW t \in PlanSessions
          PROVE  PlanWaits(t)' \/ Owes(planQuery'[t], OpenOf(rows'[t]))
      <3>1. ~behind /\ planQuery'[s].flight = NoData
        BY <1>0, <2>1, <2>6
      <3>2. CASE t = s
        BY <2>4, <3>1, <3>2
      <3>3. CASE t # s
        BY <1>0, <1>8, <2>3, <3>1, <3>3
      <3> QED
        BY <3>2, <3>3
    <2>7. behind' \in BOOLEAN
      BY <1>0, <2>1
    <2>8. \A q \in requests' : IsPlanRequest(q)
      BY <1>0, <1>8
    <2>9. behind' \/ \A t \in PlanSessions : PlanWaits(t)' \/ Owes(planQuery'[t], OpenOf(rows'[t]))
      BY <2>6
    <2> QED
      BY <1>0, <1>8, <2>3, <2>5, <2>9, <2>7, <2>8, Zenon DEF PlansInv
  <1>9. CASE \E q \in requests : MutationSettles(q)
    <2> PICK q \in requests : MutationSettles(q)
      BY <1>9
    <2>1. /\ requests' = requests \ {q} /\ UNCHANGED rows /\ q.phase \in {"ok", "failed"}
      BY DEF MutationSettles, serverPlanVars
    <2>2. CASE q.phase = "failed" \/ q.by = "editor"
      <3>1. UNCHANGED <<planQuery, behind>>
        BY <2>1, <2>2 DEF MutationSettles, DraftMutationSettles, cacheVars
      <3>2. \A s \in PlanSessions : PlanWaits(s) => PlanWaits(s)'
        BY <2>1, <2>2 DEF PlanWaits
      <3> QED
        BY <1>0, <1>1, <2>1, <3>1, <3>2
    <2>3. CASE q.phase = "ok" /\ q.by # "editor"
      <3>1. InvalidatePlan(q.plan)
        BY <2>3 DEF MutationSettles, PlanMutationSettles
      <3>2. \A t : t # q.plan /\ PlanWaits(t) => PlanWaits(t)'
        BY <2>1 DEF PlanWaits
      <3>3. CASE q.plan \in PlanSessions
        BY <1>0, <1>8, <2>1, <3>1, <3>2, <3>3
      <3>4. CASE q.plan \notin PlanSessions
        <4>1. planQuery' = planQuery
          BY <1>0, <3>1, <3>4 DEF InvalidatePlan
        <4>2. behind' \in BOOLEAN /\ (behind => behind')
          BY <1>0, <3>1 DEF InvalidatePlan
        <4>3. \A t \in PlanSessions : PlanWaits(t) => PlanWaits(t)'
          BY <3>2, <3>4
        <4>4. \A x \in requests' : IsPlanRequest(x)
          BY <1>0, <2>1
        <4> QED
          BY <1>0, <2>1, <4>1, <4>2, <4>3, <4>4, Zenon DEF PlansInv
      <3> QED
        BY <3>3, <3>4
    <2> QED
      BY <2>1, <2>2, <2>3
  \* The server has the row of s saved by a turn; the flag, or a refetch, makes up for it.
  <1>10. CASE PlanTurn
    <2>1. \E row : SetRow(viewed, row) /\ InvalidatePlan(viewed) /\ requests' = requests
      BY <1>10 DEF PlanTurn
    <2> PICK row : SetRow(viewed, row) /\ InvalidatePlan(viewed) /\ requests' = requests
      BY <2>1
    <2>2. /\ rows' = [t \in PlanSessions |-> rows'[t]]
          /\ \A t \in PlanSessions \ {viewed} : rows'[t] = rows[t]
      BY <1>0 DEF SetRow
    <2>3. \A t : PlanWaits(t) => PlanWaits(t)'
      BY DEF PlanWaits
    <2> QED
      BY <1>0, <1>8, <2>2, <2>3
  \* A fetch, or its answer, of one of the copies.
  <1>11. ASSUME NEW s \in PlanSessions, NEW e, planQuery' = [planQuery EXCEPT ![s] = e],
                IsEntry(e), Owes(planQuery[s], OpenOf(rows[s])) => Owes(e, OpenOf(rows[s])),
                UNCHANGED <<rows, behind, requests>>
         PROVE  PlansInv'
    <2>1. /\ planQuery' = [t \in PlanSessions |-> planQuery'[t]]
          /\ \A t \in PlanSessions : planQuery'[t] = IF t = s THEN e ELSE planQuery[t]
      BY <1>0, <1>11
    <2>2. \A t \in PlanSessions :
             /\ IsEntry(planQuery'[t])
             /\ Owes(planQuery[t], OpenOf(rows[t])) => Owes(planQuery'[t], OpenOf(rows[t]))
      BY <1>0, <1>11, <2>1
    <2>3. \A t : PlanWaits(t)' <=> PlanWaits(t)
      BY <1>11 DEF PlanWaits
    <2> QED
      BY <1>0, <1>11, <2>1, <2>2, <2>3, Zenon DEF PlansInv
  <1>12. CASE AskPlan
    <2> DEFINE e == Fetched(planQuery[viewed], OpenOf(rows[viewed]))
    <2>1. /\ planQuery' = [planQuery EXCEPT ![viewed] = e] /\ NeedsFetch(planQuery[viewed])
          /\ UNCHANGED <<rows, behind, requests>>
      BY <1>12 DEF AskPlan, OpenOf, serverPlanVars
    <2>2. IsEntry(e) /\ Owes(e, OpenOf(rows[viewed]))
      BY <1>0, <2>1, CacheSteps
    <2> HIDE DEF e
    <2> QED
      BY <1>0, <1>11, <2>1, <2>2
  <1>13. CASE \E s \in PlanSessions : PlanAnswer(s)
    <2> PICK s \in PlanSessions : PlanAnswer(s)
      BY <1>13
    <2>1. UNCHANGED <<rows, behind, requests>>
      BY DEF PlanAnswer, serverPlanVars
    <2>2. CASE UNCHANGED planQuery
      BY <1>0, <1>1, <2>1, <2>2 DEF PlanWaits
    <2>3. CASE HasAnswer(planQuery[s]) /\ planQuery' = [planQuery EXCEPT ![s] = Answered(@)]
      <3> DEFINE e == Answered(planQuery[s])
      <3>1. IsEntry(e) /\ (Owes(planQuery[s], OpenOf(rows[s])) => Owes(e, OpenOf(rows[s])))
        BY <1>0, <2>3, CacheSteps
      <3>2. planQuery' = [planQuery EXCEPT ![s] = e]
        BY <2>3
      <3> HIDE DEF e
      <3> QED
        BY <1>11, <2>1, <3>1, <3>2
    <2> QED
      BY <2>2, <2>3 DEF PlanAnswer
  <1> QED
    BY <1>3, <1>4, <1>5, <1>7, <1>9, <1>10, <1>12, <1>13 DEF PlanNext

ChangeSetPageSpec == PlanInit /\ [][PlanNext]_planVars

\* The change-set page is never left behind but where a flag says so: at rest its copy of
\* an open change set is the server's, for any number of sessions, clicks and overlapping
\* requests.
THEOREM ChangeSetAtRest == ChangeSetPageSpec => []PlansAtRest
  <1>1. PlanInit => PlansInv
    BY EmptyEntry DEF PlanInit, PlansInv, OpenOf
  <1>2. PlansInv => PlansAtRest
    <2> SUFFICES ASSUME PlansInv, ~behind, NEW s \in PlanSessions, ~PlanWaits(s),
                        CacheRests(planQuery[s]), OpenRow(rows[s])
                 PROVE  planQuery[s].data = rows[s]
      BY DEF PlansAtRest, PlanWaits
    <2> QED
      BY CacheSteps DEF PlansInv, OpenOf
  <1> QED
    BY <1>1, <1>2, PlansInvStep, PTL DEF ChangeSetPageSpec

\* What the page keeps besides its copies; each request is about a change set it shows.
PlanTypes ==
  /\ place \in {"chat", "plan"} /\ activePlan \in PlanSessions \cup {NoPlan}
  /\ remembered \in PlanSessions \cup {NoPlan} /\ reviewing \in PlanSessions \cup {NoPlan}
  /\ clicks \in 0 .. MaxClicks /\ turns \in 0 .. MaxTurns
  /\ \A q \in requests : q.plan \in PlanSessions

LEMMA PlanTypesStep == PlansInv /\ PlanTypes /\ [PlanNext]_planVars => PlanTypes'
  <1> SUFFICES ASSUME PlansInv, PlanTypes, [PlanNext]_planVars PROVE PlanTypes'
    OBVIOUS
  <1>0. viewed \in PlanSessions /\ \A q \in requests : IsPlanRequest(q) /\ q.plan \in PlanSessions
    BY DEF PlansInv, PlanTypes
  <1>a. Click => clicks' \in 0 .. MaxClicks /\ turns' = turns
    BY PlanBounds DEF Click, PlanTypes
  <1>1. ASSUME place' \in {"chat", "plan"}, activePlan' \in PlanSessions \cup {NoPlan},
               remembered' \in PlanSessions \cup {NoPlan},
               reviewing' \in PlanSessions \cup {NoPlan},
               Click \/ UNCHANGED clicks, Click \/ turns' \in 0 .. MaxTurns,
               \A q \in requests' : q \in requests \/ q.plan \in PlanSessions
        PROVE  PlanTypes'
    BY <1>0, <1>1, <1>a DEF PlanTypes
  <1>2. ASSUME NEW kind, NEW s \in PlanSessions, NEW by, Send(kind, s, by), Click,
               UNCHANGED viewVars
        PROVE  PlanTypes'
    BY <1>1, <1>2 DEF Send, viewVars, PlanTypes
  <1>3. ASSUME NEW b, PressPlanButton(b) PROVE PlanTypes'
    <2>1. ShownId \in PlanSessions
      BY <1>0, <1>3 DEF PressPlanButton, PlanVisible, ShownPlan, ShownId, PlanTypes
    <2> QED
      BY <1>2, <1>3, <2>1 DEF PressPlanButton
  <1>4. ASSUME NEW b, PressEditorButton(b) PROVE PlanTypes'
    BY <1>2, <1>4 DEF PressEditorButton, PlanTypes
  <1>5. ASSUME ShowChat PROVE PlanTypes'
    <2>1. \A q \in requests' : q.plan \in PlanSessions
      BY <1>0, <1>5, ForgottenRequest DEF ShowChat
    <2> QED
      BY <1>1, <1>5, <2>1 DEF ShowChat, PlanTypes
  <1>6. ASSUME ShowPlanPage \/ RememberPlan \/ AskPlan \/ AskDetail \/ AskDraft \/ PlanTurn
        PROVE  PlanTypes'
    <2>1. /\ place' \in {"chat", "plan"} /\ activePlan' \in PlanSessions \cup {NoPlan}
          /\ remembered' \in PlanSessions \cup {NoPlan} /\ UNCHANGED <<reviewing, clicks, requests>>
      BY <1>0, <1>6 DEF ShowPlanPage, RememberPlan, AskPlan, AskDetail, AskDraft, PlanTurn,
                        viewVars, PlanTypes
    <2>2. turns' = turns \/ (turns' = turns + 1 /\ turns < MaxTurns)
      BY <1>6 DEF ShowPlanPage, RememberPlan, AskPlan, AskDetail, AskDraft, PlanTurn
    <2>3. turns' \in 0 .. MaxTurns
      BY <2>2, PlanBounds DEF PlanTypes
    <2> QED
      BY <1>1, <2>1, <2>3 DEF PlanTypes
  <1>7. ASSUME OpenPatch PROVE PlanTypes'
    <2>1. ShownId \in PlanSessions
      BY <1>0, <1>7 DEF OpenPatch, PlanVisible, ShownPlan, ShownId, PlanTypes
    <2> QED
      BY <1>1, <1>7, <2>1 DEF OpenPatch, PlanTypes
  <1>8. ASSUME NEW q \in requests, Handle(q) PROVE PlanTypes'
    <2>1. PICK phase, answer : Answer(q, phase, answer)
      BY <1>8 DEF Handle, Approves, Revises, Acts, RollsBack, Validates, Applies, Deletes,
                  EndsAct, Accept, Refuse
    <2>2. [q EXCEPT !.phase = phase, !.answer = answer].plan = q.plan
      BY <1>0 DEF IsPlanRequest
    <2>3. \A x \in requests' : x \in requests \/ x.plan \in PlanSessions
      BY <1>0, <2>1, <2>2 DEF Answer
    <2> QED
      BY <1>1, <1>8, <2>3 DEF Handle, viewVars, PlanTypes
  <1>9. ASSUME NEW q \in requests, MutationSettles(q) PROVE PlanTypes'
    <2>1. reviewing' \in PlanSessions \cup {NoPlan}
      <3>1. q.phase = "failed" \/ q.phase = "ok"
        BY <1>9 DEF MutationSettles
      <3>2. CASE q.phase = "failed"
        BY <1>9, <3>2 DEF MutationSettles, PlanTypes
      <3>3. CASE q.phase = "ok" /\ q.by = "editor"
        BY <1>9, <3>3 DEF MutationSettles, DraftMutationSettles, PlanTypes
      <3>4. CASE q.phase = "ok" /\ q.by # "editor"
        BY <1>0, <1>9, <3>4 DEF MutationSettles, PlanMutationSettles, PlanTypes
      <3> QED
        BY <3>1, <3>2, <3>3, <3>4
    <2> QED
      BY <1>1, <1>9, <2>1 DEF MutationSettles, PlanTypes
  <1>10. ASSUME NEW s, ViewSession(s) \/ PlanAnswer(s) \/ (\E ok \in BOOLEAN : SettleDraft(s, ok))
         PROVE  PlanTypes'
    BY <1>1, <1>10 DEF ViewSession, PlanAnswer, SettleDraft, viewVars, PlanTypes
  <1>11. ASSUME UNCHANGED planVars PROVE PlanTypes'
    BY <1>1, <1>11 DEF planVars, viewVars, PlanTypes
  <1> QED
    BY <1>3, <1>4, <1>5, <1>6, <1>7, <1>8, <1>9, <1>10, <1>11 DEF PlanNext

\* The pages of a change set keep their types: what they send is about a change set that is
\* there, also when the one shown is the one remembered.
THEOREM PlanIsTyped == ChangeSetPageSpec => []PlanTypeOK
  <1>1. PlanInit => PlansInv
    BY EmptyEntry DEF PlanInit, PlansInv, OpenOf
  <1>2. PlanInit => PlanTypes
    BY PlanBounds DEF PlanInit, PlanTypes
  <1>3. PlansInv /\ PlanTypes => PlanTypeOK
    BY DEF PlansInv, IsPlanRequest, Phases, PlanTypes, PlanTypeOK
  <1> QED
    BY <1>1, <1>2, <1>3, PlansInvStep, PlanTypesStep, PTL DEF ChangeSetPageSpec

-----------------------------------------------------------------------------
(* JobNotices: the lists of jobs *)

\* A copy v of the jobs is of the past, and ended jobs stay as they are: it misses only the
\* job of a click that is still to take effect.
OfThePast(v) ==
  /\ v \in [Jobs -> Statuses]
  /\ \A j \in Jobs : /\ v[j] = Unknown => jobStatus[j] = Unknown \/ startClick = j
                     /\ IsTerminal(v[j]) => v[j] = jobStatus[j]
CopyInv(q) ==
  /\ q.flight # NoData => OfThePast(q.flight)
  /\ q.data # NoData /\ q.invalid = FALSE => OfThePast(q.data)
JobListsInv ==
  /\ jobStatus \in [Jobs -> Statuses] /\ raced \in BOOLEAN
  /\ IsEntry(jobsQuery) /\ IsEntry(reposQuery)
  /\ startClick # NoJob => reposQuery.data # NoData
  /\ CopyInv(reposQuery) /\ (raced \/ CopyInv(jobsQuery))

\* What asking, answering and invalidating make of a copy.
LEMMA CopySteps ==
  ASSUME NEW q, IsEntry(q), CopyInv(q), jobStatus \in [Jobs -> Statuses]
  PROVE  /\ CopyInv(Fetched(q, jobStatus)) /\ Fetched(q, jobStatus).data = q.data
         /\ HasAnswer(q) => CopyInv(Answered(q)) /\ Answered(q).data # NoData
         /\ CopyInv(Invalidated(q, TRUE)) /\ Invalidated(q, TRUE).data = q.data
         /\ Invalidated(q, TRUE).invalid = TRUE
         /\ q.data # NoData => Invalidated(q, TRUE).flight = NoData
         /\ q.data = NoData => Invalidated(q, TRUE).flight = q.flight
  <1> PICK D : q \in QueryOf(D)
    BY DEF IsEntry
  <1>1. /\ Fetched(q, jobStatus).flight = jobStatus /\ Fetched(q, jobStatus).data = q.data
        /\ Fetched(q, jobStatus).invalid = q.invalid
        /\ Answered(q).flight = NoData /\ Answered(q).data = q.flight
        /\ Invalidated(q, TRUE).invalid = TRUE /\ Invalidated(q, TRUE).data = q.data
        /\ Invalidated(q, TRUE).flight = IF q.data # NoData THEN NoData ELSE q.flight
    BY DEF QueryOf, Fetched, Answered, Invalidated
  <1>2. OfThePast(jobStatus)
    BY DEF OfThePast
  <1> QED
    BY <1>1, <1>2 DEF CopyInv, HasAnswer

\* What one of these three makes of an entry.
ListCacheStep(q, new) ==
  \/ new \in {q, Fetched(q, jobStatus), Invalidated(q, TRUE)}
  \/ HasAnswer(q) /\ new = Answered(q)

\* Every step of the button, the polls, the cards and the worker keeps both copies of the past.
LEMMA JobListsStep == JobListsInv /\ [NoticesNext]_<<jobVars, patchVars>> => JobListsInv'
  <1> SUFFICES ASSUME JobListsInv, [NoticesNext]_<<jobVars, patchVars>> PROVE JobListsInv'
    OBVIOUS
  <1>0. /\ jobStatus \in [Jobs -> Statuses] /\ raced \in BOOLEAN
        /\ IsEntry(jobsQuery) /\ IsEntry(reposQuery)
        /\ startClick # NoJob => reposQuery.data # NoData
        /\ CopyInv(reposQuery) /\ (raced \/ CopyInv(jobsQuery))
    BY DEF JobListsInv
  \* The server and the button rest: the copies may be asked for, answered, invalidated.
  <1>1. ASSUME UNCHANGED <<jobStatus, startClick, raced>>,
               ListCacheStep(reposQuery, reposQuery'), ListCacheStep(jobsQuery, jobsQuery')
        PROVE  JobListsInv'
    <2>1. \A v : OfThePast(v)' <=> OfThePast(v)
      BY <1>1 DEF OfThePast
    <2>2. \A q : CopyInv(q)' <=> CopyInv(q)
      BY <2>1 DEF CopyInv
    <2>a. ASSUME NEW q, NEW new, IsEntry(q), ListCacheStep(q, new)
          PROVE  /\ IsEntry(new)
                 /\ CopyInv(q) => CopyInv(new) /\ (q.data # NoData => new.data # NoData)
      <3>1. /\ IsEntry(Fetched(q, jobStatus)) /\ IsEntry(Answered(q))
            /\ IsEntry(Invalidated(q, TRUE))
        BY <2>a, CacheSteps
      <3>2. CASE new = q
        BY <2>a, <3>2
      <3>3. CASE new = Fetched(q, jobStatus) \/ new = Invalidated(q, TRUE)
        BY <1>0, <2>a, <3>1, <3>3, CopySteps
      <3>4. CASE HasAnswer(q) /\ new = Answered(q)
        BY <1>0, <2>a, <3>1, <3>4, CopySteps
      <3> QED
        BY <2>a, <3>2, <3>3, <3>4 DEF ListCacheStep
    <2>3. /\ IsEntry(reposQuery') /\ CopyInv(reposQuery')
          /\ reposQuery.data # NoData => reposQuery'.data # NoData
      BY <1>0, <1>1, <2>a
    <2>4. IsEntry(jobsQuery') /\ (CopyInv(jobsQuery) => CopyInv(jobsQuery'))
      BY <1>0, <1>1, <2>a
    <2>5. CopyInv(reposQuery)' /\ (CopyInv(jobsQuery) => CopyInv(jobsQuery)')
      BY <2>2, <2>3, <2>4
    <2> QED
      BY <1>0, <1>1, <2>3, <2>4, <2>5, Zenon DEF JobListsInv
  <1>2. CASE FetchJobs \/ FetchRepositories \/ RepositoriesAnswered \/ JobsAnswered
    <2>1. UNCHANGED <<jobStatus, startClick, raced>>
      BY <1>2 DEF FetchJobs, FetchRepositories, RepositoriesAnswered, JobsAnswered
    <2>2. ListCacheStep(reposQuery, reposQuery') /\ ListCacheStep(jobsQuery, jobsQuery')
      BY <1>2 DEF FetchJobs, FetchRepositories, RepositoriesAnswered, JobsAnswered, ListCacheStep
    <2> QED
      BY <1>1, <2>1, <2>2
  <1>3. CASE IndexStarted
    <2> DEFINE list == IF Shown(jobsQuery)[startClick] = Unknown
                       THEN [Shown(jobsQuery) EXCEPT ![startClick] = "pending"]
                       ELSE jobsQuery.data
    <2>1. /\ startClick # NoJob /\ startClick' = NoJob /\ UNCHANGED jobStatus
          /\ reposQuery' = Invalidated(reposQuery, TRUE)
          /\ jobsQuery' = [Invalidated(jobsQuery, TRUE) EXCEPT !.data = list]
          /\ raced' = (raced \/ (jobsQuery.data = NoData /\ HasAnswer(jobsQuery)))
      BY <1>3 DEF IndexStarted, InvalidateIndexingCaches
    <2> HIDE DEF list
    <2>2. /\ IsEntry(reposQuery') /\ reposQuery'.invalid = TRUE /\ reposQuery'.flight = NoData
      BY <1>0, <2>1, CacheSteps, CopySteps
    <2>3. /\ IsEntry(jobsQuery') /\ jobsQuery'.invalid = TRUE
          /\ raced' \/ jobsQuery'.flight = NoData
      <3> PICK E : jobsQuery \in QueryOf(E)
        BY <1>0 DEF IsEntry
      <3> DEFINE D == E \cup {list}
      <3>1. /\ jobsQuery' \in QueryOf(D) /\ jobsQuery'.invalid = TRUE
            /\ jobsQuery'.flight = IF jobsQuery.data # NoData THEN NoData ELSE jobsQuery.flight
        BY <2>1 DEF QueryOf, Invalidated
      <3> HIDE DEF D
      <3> QED
        BY <2>1, <3>1 DEF IsEntry, HasAnswer
    <2>4. raced' \in BOOLEAN
      BY <1>0, <2>1
    <2> QED
      BY <1>0, <2>1, <2>2, <2>3, <2>4 DEF JobListsInv, CopyInv
  <1>4. CASE \E j \in Jobs : FetchProgress(j) \/ ProgressAnswered(j)
    <2>1. UNCHANGED <<jobStatus, startClick, raced>>
      BY <1>4 DEF FetchProgress, ProgressAnswered
    <2>2. ListCacheStep(reposQuery, reposQuery') /\ ListCacheStep(jobsQuery, jobsQuery')
      BY <1>4 DEF FetchProgress, ProgressAnswered, ListCacheStep
    <2> QED
      BY <1>1, <2>1, <2>2
  \* The server moves on: what was a copy of the past remains one.
  <1>5. ASSUME jobStatus' \in [Jobs -> Statuses], \A v : OfThePast(v) => OfThePast(v)',
               UNCHANGED <<jobsQuery, reposQuery, raced>>,
               startClick' # NoJob => reposQuery.data # NoData
        PROVE  JobListsInv'
    <2>1. \A q : CopyInv(q) => CopyInv(q)'
      BY <1>5 DEF CopyInv
    <2> QED
      BY <1>0, <1>5, <2>1, Zenon DEF JobListsInv
  <1>6. CASE \E j \in Jobs : JobRuns(j)
    <2> PICK j \in Jobs : JobRuns(j)
      BY <1>6
    <2>1. /\ \E s \in {"running", "completed", "failed"} : jobStatus' = [jobStatus EXCEPT ![j] = s]
          /\ IsActiveIndexingStatus(jobStatus[j])
          /\ UNCHANGED <<startClick, jobsQuery, reposQuery, raced>>
      BY DEF JobRuns, IsActiveIndexingStatus
    <2>2. jobStatus' \in [Jobs -> Statuses] /\ \A k \in Jobs \ {j} : jobStatus'[k] = jobStatus[k]
      BY <1>0, <2>1 DEF Statuses
    <2>3. ASSUME NEW v, OfThePast(v) PROVE OfThePast(v)'
      BY <2>1, <2>2, <2>3 DEF OfThePast, IsActiveIndexingStatus, IsTerminal, Unknown
    <2> QED
      BY <1>0, <1>5, <2>1, <2>2, <2>3
  <1>7. CASE \E j \in Jobs : StartIndex(j)
    <2> PICK j \in Jobs : StartIndex(j)
      BY <1>7
    <2>1. /\ jobStatus' = [jobStatus EXCEPT ![j] = "pending"] /\ jobStatus[j] = Unknown
          /\ startClick = NoJob /\ startClick' = j /\ reposQuery.data # NoData
          /\ UNCHANGED <<jobsQuery, reposQuery, raced>>
      BY DEF StartIndex
    <2>2. jobStatus' \in [Jobs -> Statuses] /\ \A k \in Jobs \ {j} : jobStatus'[k] = jobStatus[k]
      BY <1>0, <2>1 DEF Statuses
    <2>3. ASSUME NEW v, OfThePast(v) PROVE OfThePast(v)'
      BY <2>1, <2>2, <2>3, NoJobAssumption DEF OfThePast, IsTerminal, Unknown
    <2> QED
      BY <1>5, <2>1, <2>2, <2>3
  <1>8. CASE ReloadDashboard
    <2>1. /\ UNCHANGED <<jobStatus, raced>> /\ startClick' = NoJob
          /\ jobsQuery' = EmptyQuery /\ reposQuery' = EmptyQuery
      BY <1>8 DEF ReloadDashboard
    <2>2. EmptyQuery.flight = NoData /\ EmptyQuery.data = NoData /\ IsEntry(EmptyQuery)
      BY EmptyEntry DEF EmptyQuery
    <2> QED
      BY <1>0, <2>1, <2>2 DEF JobListsInv, CopyInv
  <1>9. CASE \/ ClearAll \/ (\E i \in DOMAIN bell : RemoveNotification(i)) \/ PatchNoticesNext
             \/ UNCHANGED <<jobVars, patchVars>>
    <2>1. UNCHANGED <<jobStatus, startClick, raced, jobsQuery, reposQuery>>
      BY <1>9 DEF ClearAll, RemoveNotification, KeepJobs, PatchNoticesNext, PatchValidates,
                  PressApply, ApplySettles, FetchPatches, PatchesAnswered, PatchApplied,
                  KeepJobsAndDismissed, jobVars
    <2> QED
      BY <1>1, <2>1 DEF ListCacheStep
  <1> QED
    BY <1>2, <1>3, <1>4, <1>6, <1>7, <1>8, <1>9 DEF NoticesNext, JobsNext, JobsSystem

\* Polling ends only when there is nothing to wait for: a list that asks for nothing more
\* is the server's, for any number of jobs, clicks and reloads and whichever list or card
\* is answered first, unless a job was put into a list on its first way.
THEOREM DashboardAtRest == NoticesSpec => []JobListsAtRest
  <1>1. JobsInit => JobListsInv
    <2>1. EmptyQuery.flight = NoData /\ EmptyQuery.data = NoData /\ IsEntry(EmptyQuery)
      BY EmptyEntry DEF EmptyQuery
    <2>2. NoneSeen \in [Jobs -> Statuses]
      BY DEF NoneSeen, Statuses
    <2> QED
      BY <2>1, <2>2 DEF JobsInit, JobListsInv, CopyInv
  <1>2. JobListsInv => JobListsAtRest
    <2> SUFFICES ASSUME JobListsInv, startClick = NoJob, NEW q, IsEntry(q), CopyInv(q),
                        CacheRests(q), ~Polls(q)
                 PROVE  q.data = jobStatus
      BY DEF JobListsAtRest, JobListsInv
    <2> PICK D : q \in QueryOf(D)
      BY DEF IsEntry
    <2> DEFINE v == q.data
    <2>1. v # NoData /\ q.flight = NoData /\ q.invalid = FALSE
      BY DEF CacheRests, NeedsFetch, HasAnswer, QueryOf
    <2>2. OfThePast(v) /\ \A j \in Jobs : ~IsActiveIndexingStatus(v[j])
      BY <2>1 DEF CopyInv, Polls, Shown
    <2> HIDE DEF v
    <2>3. \A j \in Jobs : v[j] = jobStatus[j]
      BY <2>2, NoJobAssumption DEF OfThePast, Statuses, IsActiveIndexingStatus, IsTerminal, Unknown
    <2>4. v \in [Jobs -> Statuses] /\ jobStatus \in [Jobs -> Statuses]
      BY <2>2 DEF OfThePast, JobListsInv
    <2> QED
      BY <2>3, <2>4 DEF v
  <1> QED
    BY <1>1, <1>2, JobListsStep, PTL DEF NoticesSpec
-----------------------------------------------------------------------------
(* JobNotices: the end of a job is noticed, and no sooner than it comes *)

\* What was read from the server of a job stays true of it: it exists, and has ended.
OnceTrue(v, now) ==
  /\ v \in [Jobs -> Statuses]
  /\ \A j \in Jobs : /\ v[j] # Unknown => now[j] # Unknown
                     /\ IsTerminal(v[j]) => IsTerminal(now[j])
JobsOnServer ==
  /\ jobStatus \in [Jobs -> Statuses] /\ raced \in BOOLEAN /\ reloads \in Nat
  /\ startClick # NoJob => startClick \in Jobs /\ jobStatus[startClick] # Unknown
\* The ref of the hook knows the jobs that the list shows as active, and the answer on its
\* way, unless that race happened, knows every job that the list shows.
ListInv ==
  /\ IsEntry(jobsQuery)
  /\ jobsQuery.flight # NoData => OnceTrue(jobsQuery.flight, jobStatus)
  /\ jobsQuery.data # NoData =>
       /\ OnceTrue(jobsQuery.data, jobStatus)
       /\ \A j \in Jobs : IsActiveIndexingStatus(jobsQuery.data[j]) =>
                            seenStatus[j] = jobsQuery.data[j]
  /\ ~raced /\ jobsQuery.flight # NoData /\ jobsQuery.data # NoData =>
       \A j \in Jobs : jobsQuery.data[j] # Unknown => jobsQuery.flight[j] # Unknown
CardsInv ==
  /\ progress \in [Jobs -> QueryOf(Statuses)]
  /\ \A j \in Jobs : progress[j].flight # NoData /\ IsTerminal(progress[j].flight) =>
                       IsTerminal(jobStatus[j])
NoticedInv == JobsOnServer /\ ListInv /\ CardsInv /\ NoticedHasEnded

\* The server never forgets a job, and never takes its end back.
LEMMA ServerStep ==
  ASSUME JobsOnServer, [NoticesNext]_<<jobVars, patchVars>>
  PROVE  JobsOnServer' /\ \A v : OnceTrue(v, jobStatus) => OnceTrue(v, jobStatus')
  <1>1. CASE \E j \in Jobs : StartIndex(j) \/ JobRuns(j)
    <2> PICK j \in Jobs : StartIndex(j) \/ JobRuns(j)
      BY <1>1
    <2>1. /\ \E s \in {"pending", "running", "completed", "failed"} :
               jobStatus' = [jobStatus EXCEPT ![j] = s]
          /\ ~IsTerminal(jobStatus[j])
          /\ startClick' = startClick \/ startClick' = j
          /\ UNCHANGED <<raced, reloads>>
      BY DEF StartIndex, JobRuns, IsActiveIndexingStatus, IsTerminal, Unknown
    <2>2. /\ jobStatus' \in [Jobs -> Statuses] /\ jobStatus'[j] # Unknown
          /\ \A k \in Jobs \ {j} : jobStatus'[k] = jobStatus[k]
      BY <2>1 DEF JobsOnServer, Statuses, Unknown
    <2>3. JobsOnServer'
      BY <2>1, <2>2 DEF JobsOnServer
    <2>4. ASSUME NEW v, OnceTrue(v, jobStatus) PROVE OnceTrue(v, jobStatus')
      BY <2>1, <2>2, <2>4 DEF OnceTrue
    <2> QED
      BY <2>3, <2>4
  <1>2. ASSUME jobStatus' = jobStatus, startClick' = startClick \/ startClick' = NoJob,
               raced' \in BOOLEAN, reloads' \in Nat
        PROVE  JobsOnServer' /\ \A v : OnceTrue(v, jobStatus) => OnceTrue(v, jobStatus')
    BY <1>2 DEF JobsOnServer, OnceTrue
  <1>3. CASE IndexStarted \/ ReloadDashboard
    <2>1. raced' \in BOOLEAN
      BY <1>3, Zenon DEF IndexStarted, ReloadDashboard, JobsOnServer
    <2>2. reloads' = reloads \/ reloads' = reloads + 1
      BY <1>3 DEF IndexStarted, ReloadDashboard
    <2>3. jobStatus' = jobStatus /\ startClick' = NoJob
      BY <1>3 DEF IndexStarted, ReloadDashboard
    <2> QED
      BY <1>2, <2>1, <2>2, <2>3 DEF JobsOnServer
  <1>4. CASE \/ FetchJobs \/ FetchRepositories \/ RepositoriesAnswered \/ JobsAnswered
             \/ (\E j \in Jobs : FetchProgress(j) \/ ProgressAnswered(j))
    <2>1. UNCHANGED <<jobStatus, startClick, raced, reloads>>
      BY <1>4 DEF FetchJobs, FetchRepositories, RepositoriesAnswered, JobsAnswered,
                  FetchProgress, ProgressAnswered
    <2> QED
      BY <1>2, <2>1 DEF JobsOnServer
  <1>5. CASE \/ ClearAll \/ (\E i \in DOMAIN bell : RemoveNotification(i)) \/ PatchNoticesNext
             \/ UNCHANGED <<jobVars, patchVars>>
    <2>1. UNCHANGED <<jobStatus, startClick, raced, reloads>>
      BY <1>5 DEF ClearAll, RemoveNotification, KeepJobs, PatchNoticesNext, PatchValidates,
                  PressApply, ApplySettles, FetchPatches, PatchesAnswered, PatchApplied,
                  KeepJobsAndDismissed, jobVars
    <2> QED
      BY <1>2, <2>1 DEF JobsOnServer
  <1> QED
    BY <1>1, <1>3, <1>4, <1>5 DEF NoticesNext, JobsNext, JobsSystem

\* The same for what asking, answering and invalidating make of the fields of an entry.
LEMMA EntryFields ==
  ASSUME NEW q, IsEntry(q)
  PROVE  /\ Answered(q).flight = NoData /\ Answered(q).data = q.flight
         /\ Invalidated(q, TRUE).data = q.data
         /\ Invalidated(q, TRUE).flight = IF q.data # NoData THEN NoData ELSE q.flight
  <1> PICK D : q \in QueryOf(D)
    BY DEF IsEntry
  <1> QED
    BY DEF QueryOf, Answered, Invalidated

\* What the click on the button puts into the list.
LEMMA StartedFields ==
  ASSUME IsEntry(jobsQuery), IndexStarted
  PROVE  LET list == IF Shown(jobsQuery)[startClick] = Unknown
                     THEN [Shown(jobsQuery) EXCEPT ![startClick] = "pending"]
                     ELSE jobsQuery.data
         IN  /\ IsEntry(jobsQuery') /\ jobsQuery'.data = list /\ seenStatus' = list
             /\ jobsQuery'.flight = IF jobsQuery.data # NoData THEN NoData ELSE jobsQuery.flight
  <1> DEFINE list == IF Shown(jobsQuery)[startClick] = Unknown
                     THEN [Shown(jobsQuery) EXCEPT ![startClick] = "pending"]
                     ELSE jobsQuery.data
  <1>1. jobsQuery' = [Invalidated(jobsQuery, TRUE) EXCEPT !.data = list] /\ seenStatus' = list
    BY DEF IndexStarted
  <1> HIDE DEF list
  <1> PICK E : jobsQuery \in QueryOf(E)
    BY DEF IsEntry
  <1> DEFINE D == E \cup {list}
  <1>2. /\ jobsQuery' \in QueryOf(D) /\ jobsQuery'.data = list
        /\ jobsQuery'.flight = IF jobsQuery.data # NoData THEN NoData ELSE jobsQuery.flight
    BY <1>1 DEF QueryOf, Invalidated
  <1> HIDE DEF D
  <1>3. IsEntry(jobsQuery')
    BY <1>2 DEF IsEntry
  <1> QED
    BY <1>1, <1>2, <1>3 DEF list
\* Every step keeps the list, its ref and the answer on its way apart no further than that.
LEMMA ListStep ==
  ASSUME NoticedInv, [NoticesNext]_<<jobVars, patchVars>>
  PROVE  ListInv'
  <1>0. JobsOnServer /\ ListInv /\ CardsInv
    BY DEF NoticedInv
  <1>a. JobsOnServer' /\ \A v : OnceTrue(v, jobStatus) => OnceTrue(v, jobStatus')
    BY <1>0, ServerStep
  \* The list may be asked for or invalidated; nothing is put into it.
  <1>1. ASSUME IsEntry(jobsQuery'), jobsQuery'.data = jobsQuery.data, UNCHANGED <<seenStatus, raced>>,
               \/ jobsQuery'.flight \in {jobsQuery.flight, NoData}
               \/ jobsQuery'.flight = jobStatus /\ jobStatus' = jobStatus
        PROVE  ListInv'
    <2>1. OnceTrue(jobStatus, jobStatus)
      BY <1>0 DEF JobsOnServer, OnceTrue
    <2>2. jobsQuery'.flight # NoData => OnceTrue(jobsQuery'.flight, jobStatus')
      BY <1>0, <1>1, <1>a, <2>1 DEF ListInv
    <2>3. jobsQuery'.data # NoData =>
            /\ OnceTrue(jobsQuery'.data, jobStatus')
            /\ \A j \in Jobs : IsActiveIndexingStatus(jobsQuery'.data[j]) =>
                                 seenStatus'[j] = jobsQuery'.data[j]
      BY <1>0, <1>1, <1>a DEF ListInv
    <2>4. ~raced' /\ jobsQuery'.flight # NoData /\ jobsQuery'.data # NoData =>
            \A j \in Jobs : jobsQuery'.data[j] # Unknown => jobsQuery'.flight[j] # Unknown
      BY <1>0, <1>1 DEF ListInv, OnceTrue
    <2> QED
      BY <1>1, <2>2, <2>3, <2>4 DEF ListInv
  <1>2. CASE FetchJobs
    <2>1. jobsQuery' = Fetched(jobsQuery, jobStatus) /\ UNCHANGED <<seenStatus, raced, jobStatus>>
      BY <1>2 DEF FetchJobs
    <2>a. IsEntry(jobsQuery)
      BY <1>0 DEF ListInv
    <2>b. IsEntry(jobsQuery')
      BY <2>1, <2>a, CacheSteps
    <2>2. jobsQuery'.flight = jobStatus /\ jobsQuery'.data = jobsQuery.data
      BY <2>1, <2>a DEF Fetched, IsEntry, QueryOf
    <2> QED
      BY <1>1, <2>1, <2>b, <2>2
  <1>3. CASE JobsAnswered
    <2> DEFINE list == jobsQuery.flight
    <2>1. /\ jobsQuery' = Answered(jobsQuery) /\ list # NoData /\ UNCHANGED jobStatus
          /\ seenStatus' = [j \in Jobs |-> IF list[j] = Unknown THEN seenStatus[j] ELSE list[j]]
      BY <1>3 DEF JobsAnswered, HasAnswer
    <2>2. IsEntry(jobsQuery') /\ jobsQuery'.flight = NoData /\ jobsQuery'.data = list
      BY <1>0, <2>1, CacheSteps, EntryFields DEF ListInv
    <2>3. OnceTrue(list, jobStatus')
      BY <1>0, <1>a, <2>1 DEF ListInv
    <2>4. \A j \in Jobs : IsActiveIndexingStatus(list[j]) => seenStatus'[j] = list[j]
      BY <2>1 DEF IsActiveIndexingStatus, Unknown
    <2> HIDE DEF list
    <2> QED
      BY <2>2, <2>3, <2>4 DEF ListInv
  <1>4. CASE IndexStarted
    <2> DEFINE list == IF Shown(jobsQuery)[startClick] = Unknown
                       THEN [Shown(jobsQuery) EXCEPT ![startClick] = "pending"]
                       ELSE jobsQuery.data
    <2>1. /\ IsEntry(jobsQuery') /\ jobsQuery'.data = list /\ seenStatus' = list
          /\ jobsQuery'.flight = IF jobsQuery.data # NoData THEN NoData ELSE jobsQuery.flight
      BY <1>0, <1>4, StartedFields DEF ListInv
    <2>2. /\ startClick \in Jobs /\ jobStatus[startClick] # Unknown /\ UNCHANGED jobStatus
          /\ raced' = (raced \/ (jobsQuery.data = NoData /\ jobsQuery.flight # NoData))
      BY <1>0, <1>4 DEF IndexStarted, JobsOnServer, HasAnswer
    <2>3. OnceTrue(Shown(jobsQuery), jobStatus)
      BY <1>0 DEF ListInv, Shown, NoneSeen, OnceTrue, Statuses, IsTerminal, Unknown
    <2>4. list = jobsQuery.data => jobsQuery.data # NoData
      BY <2>2, NoDataAssumption, <2>3 DEF Shown, NoneSeen, OnceTrue, Statuses, Unknown
    <2>5. OnceTrue(list, jobStatus)
      <3>1. CASE Shown(jobsQuery)[startClick] = Unknown
        BY <2>2, <2>3, <3>1 DEF OnceTrue, Statuses, IsTerminal, Unknown
      <3>2. CASE Shown(jobsQuery)[startClick] # Unknown
        BY <1>0, <2>4, <3>2 DEF ListInv
      <3> QED
        BY <3>1, <3>2
    <2> HIDE DEF list
    <2>6. OnceTrue(list, jobStatus')
      BY <1>a, <2>5
    <2>7. jobsQuery'.flight # NoData => OnceTrue(jobsQuery'.flight, jobStatus')
      BY <1>0, <1>a, <2>1 DEF ListInv
    <2>8. raced' \/ jobsQuery'.flight = NoData
      BY <2>1, <2>2
    <2> QED
      BY <2>1, <2>6, <2>7, <2>8 DEF ListInv
  <1>5. CASE \E j \in Jobs : ProgressAnswered(j)
    <2>1. jobsQuery' = jobsQuery \/ jobsQuery' = Invalidated(jobsQuery, TRUE)
      BY <1>5 DEF ProgressAnswered
    <2>2. UNCHANGED <<seenStatus, raced>>
      BY <1>5 DEF ProgressAnswered
    <2>3. /\ IsEntry(jobsQuery') /\ jobsQuery'.data = jobsQuery.data
          /\ jobsQuery'.flight \in {jobsQuery.flight, NoData}
      BY <1>0, <2>1, CacheSteps, EntryFields DEF ListInv
    <2> QED
      BY <1>1, <2>2, <2>3
  <1>6. CASE ReloadDashboard
    <2>1. jobsQuery' = EmptyQuery
      BY <1>6 DEF ReloadDashboard
    <2>2. EmptyQuery.flight = NoData /\ EmptyQuery.data = NoData /\ IsEntry(EmptyQuery)
      BY EmptyEntry DEF EmptyQuery
    <2> QED
      BY <2>1, <2>2 DEF ListInv
  <1>7. CASE UNCHANGED <<jobsQuery, seenStatus, raced>>
    BY <1>0, <1>1, <1>7 DEF ListInv
  <1>8. CASE \/ FetchRepositories \/ RepositoriesAnswered
             \/ (\E j \in Jobs : FetchProgress(j) \/ JobRuns(j) \/ StartIndex(j))
    BY <1>7, <1>8 DEF FetchRepositories, RepositoriesAnswered, FetchProgress, JobRuns, StartIndex
  <1>9. CASE \/ ClearAll \/ (\E i \in DOMAIN bell : RemoveNotification(i)) \/ PatchNoticesNext
             \/ UNCHANGED <<jobVars, patchVars>>
    <2>1. UNCHANGED <<jobsQuery, seenStatus, raced>>
      BY <1>9 DEF ClearAll, RemoveNotification, KeepJobs, PatchNoticesNext, PatchValidates,
                  PressApply, ApplySettles, FetchPatches, PatchesAnswered, PatchApplied,
                  KeepJobsAndDismissed, jobVars
    <2> QED
      BY <1>7, <2>1
  <1> QED
    BY <1>2, <1>3, <1>4, <1>5, <1>6, <1>8, <1>9 DEF NoticesNext, JobsNext, JobsSystem

\* The progress cards.
LEMMA CardsStep ==
  ASSUME NoticedInv, [NoticesNext]_<<jobVars, patchVars>>
  PROVE  CardsInv'
  <1>0. JobsOnServer /\ CardsInv
    BY DEF NoticedInv
  <1>a. \A j \in Jobs : IsTerminal(jobStatus[j]) => IsTerminal(jobStatus'[j])
    <2>1. OnceTrue(jobStatus, jobStatus)
      BY <1>0 DEF JobsOnServer, OnceTrue
    <2> QED
      BY <1>0, <2>1, ServerStep DEF OnceTrue
  \* Each answer on its way is the one before, or none, or what the server says now.
  <1>1. ASSUME progress' \in [Jobs -> QueryOf(Statuses)],
               \A j \in Jobs : \/ progress'[j].flight \in {progress[j].flight, NoData}
                               \/ progress'[j].flight = jobStatus[j]
        PROVE  CardsInv'
    BY <1>0, <1>1, <1>a DEF CardsInv
  <1>2. ASSUME NEW j \in Jobs, FetchProgress(j) PROVE CardsInv'
    <2>1. progress' = [progress EXCEPT ![j] = Fetched(progress[j], jobStatus[j])]
      BY <1>2 DEF FetchProgress
    <2>2. /\ Fetched(progress[j], jobStatus[j]) \in QueryOf(Statuses)
          /\ Fetched(progress[j], jobStatus[j]).flight = jobStatus[j]
      BY <1>0 DEF CardsInv, JobsOnServer, QueryOf, Fetched
    <2>3. progress' \in [Jobs -> QueryOf(Statuses)] /\ progress'[j].flight = jobStatus[j]
          /\ \A k \in Jobs \ {j} : progress'[k] = progress[k]
      BY <1>0, <2>1, <2>2 DEF CardsInv
    <2> QED
      BY <1>1, <2>3
  <1>3. \A q \in QueryOf(Statuses), shown \in BOOLEAN :
          /\ Invalidated(q, shown) \in QueryOf(Statuses)
          /\ Invalidated(q, shown).flight \in {q.flight, NoData}
          /\ q.flight # NoData =>
               Answered(q) \in QueryOf(Statuses) /\ Answered(q).flight = NoData
    BY DEF QueryOf, Invalidated, Answered
  <1>4. \A k \in Jobs : CardShown(k) \in BOOLEAN
    BY DEF CardShown, IsActiveIndexingStatus
  <1>5. ASSUME NEW j \in Jobs, ProgressAnswered(j) PROVE CardsInv'
    <2> DEFINE now == [progress EXCEPT ![j] = Answered(progress[j])]
    <2>1. progress[j].flight # NoData /\ progress[j] \in QueryOf(Statuses)
      BY <1>0, <1>5 DEF ProgressAnswered, HasAnswer, CardsInv
    <2>2. \/ progress' = now
          \/ progress' = [k \in Jobs |-> Invalidated(now[k], CardShown(k))]
      BY <1>5 DEF ProgressAnswered
    <2>3. now \in [Jobs -> QueryOf(Statuses)]
          /\ \A k \in Jobs : now[k].flight \in {progress[k].flight, NoData}
      BY <1>0, <1>3, <2>1 DEF CardsInv
    <2> HIDE DEF now
    <2>4. CASE progress' = now
      BY <1>1, <2>3, <2>4
    <2>5. CASE progress' = [k \in Jobs |-> Invalidated(now[k], CardShown(k))]
      <3>1. \A k \in Jobs : /\ Invalidated(now[k], CardShown(k)) \in QueryOf(Statuses)
                            /\ Invalidated(now[k], CardShown(k)).flight \in {now[k].flight, NoData}
        BY <1>3, <1>4, <2>3
      <3>2. progress' \in [Jobs -> QueryOf(Statuses)]
            /\ \A k \in Jobs : progress'[k].flight \in {now[k].flight, NoData}
        BY <2>5, <3>1
      <3> QED
        BY <1>1, <2>3, <3>2
    <2> QED
      BY <2>2, <2>4, <2>5
  <1>6. CASE IndexStarted
    <2>1. progress' = [k \in Jobs |-> Invalidated(progress[k], CardShown(k))]
      BY <1>6 DEF IndexStarted, InvalidateIndexingCaches
    <2>2. \A k \in Jobs : /\ Invalidated(progress[k], CardShown(k)) \in QueryOf(Statuses)
                          /\ Invalidated(progress[k], CardShown(k)).flight \in {progress[k].flight, NoData}
      BY <1>0, <1>3, <1>4 DEF CardsInv
    <2>3. progress' \in [Jobs -> QueryOf(Statuses)]
          /\ \A k \in Jobs : progress'[k].flight \in {progress[k].flight, NoData}
      BY <2>1, <2>2
    <2> QED
      BY <1>1, <2>3
  <1>7. CASE ReloadDashboard
    <2>1. progress' = [k \in Jobs |-> EmptyQuery]
      BY <1>7 DEF ReloadDashboard
    <2>2. EmptyQuery \in QueryOf(Statuses) /\ EmptyQuery.flight = NoData
      BY DEF EmptyQuery, QueryOf
    <2>3. progress' \in [Jobs -> QueryOf(Statuses)]
          /\ \A k \in Jobs : progress'[k].flight = NoData
      BY <2>1, <2>2
    <2> QED
      BY <1>1, <2>3
  <1>8. CASE UNCHANGED progress
    BY <1>0, <1>1, <1>8 DEF CardsInv
  <1>9. CASE \/ FetchJobs \/ FetchRepositories \/ RepositoriesAnswered \/ JobsAnswered
             \/ (\E j \in Jobs : JobRuns(j) \/ StartIndex(j))
    BY <1>8, <1>9 DEF FetchJobs, FetchRepositories, RepositoriesAnswered, JobsAnswered,
                      JobRuns, StartIndex
  <1>10. CASE \/ ClearAll \/ (\E i \in DOMAIN bell : RemoveNotification(i)) \/ PatchNoticesNext
              \/ UNCHANGED <<jobVars, patchVars>>
    <2>1. UNCHANGED progress
      BY <1>10 DEF ClearAll, RemoveNotification, KeepJobs, PatchNoticesNext, PatchValidates,
                   PressApply, ApplySettles, FetchPatches, PatchesAnswered, PatchApplied,
                   KeepJobsAndDismissed, jobVars
    <2> QED
      BY <1>8, <2>1
  <1> QED
    BY <1>2, <1>5, <1>6, <1>7, <1>9, <1>10 DEF NoticesNext, JobsNext, JobsSystem
\* What adding a notice may put into the bell.
LEMMA AddedKeys ==
  ASSUME BellInv, NEW key \in BellKeys
  PROVE  Keys(AddNotification(bell, key)) \subseteq Keys(bell) \cup {key}
  <1> DEFINE n == Newest(<<key>> \o bell)
  <1>1. bell \in Seq(BellKeys)
    BY DEF BellInv, BellAgrees
  <1>2. /\ n \in Seq(BellKeys) /\ Len(n) <= MaxNotices /\ DOMAIN n \subseteq Nat
        /\ \A i \in DOMAIN n : n[i] = IF i = 1 THEN key ELSE bell[i - 1]
        /\ \A i \in DOMAIN n : i = 1 \/ i - 1 \in DOMAIN bell
    BY <1>1, NewestProperties
  <1> HIDE DEF n
  <1>3. Keys(n) \subseteq Keys(bell) \cup {key}
    BY <1>2 DEF Keys
  <1> QED
    BY <1>3 DEF AddNotification, n

\* A notice of the end of a job is raised by an answer that was read after the end.
LEMMA NoticedStep ==
  ASSUME NoticedInv, BellInv, [NoticesNext]_<<jobVars, patchVars>>
  PROVE  NoticedHasEnded'
  <1>0. JobsOnServer /\ ListInv /\ CardsInv /\ NoticedHasEnded
    BY DEF NoticedInv
  <1>a. \A j \in Jobs : IsTerminal(jobStatus[j]) => IsTerminal(jobStatus'[j])
    <2>1. OnceTrue(jobStatus, jobStatus)
      BY <1>0 DEF JobsOnServer, OnceTrue
    <2> QED
      BY <1>0, <2>1, ServerStep DEF OnceTrue
  <1>b. /\ Jobs \subseteq BellKeys /\ Started \in BellKeys /\ Started \notin Jobs
        /\ \A status \in TerminalPatchStatuses :
             PatchNotice(status) \in BellKeys /\ PatchNotice(status) \notin Jobs
    BY KeysAssumption DEF BellKeys, NoticeKeys
  <1>1. ASSUME \A j \in Jobs : j \in Keys(bell') \cup noticed' =>
                                 j \in Keys(bell) \cup noticed \/ IsTerminal(jobStatus[j])
        PROVE  NoticedHasEnded'
    BY <1>0, <1>1, <1>a DEF NoticedHasEnded
  <1>2. ASSUME NEW key \in BellKeys, key \notin Jobs, noticed' = noticed,
               bell' = AddNotification(bell, key) \/ bell' = bell
        PROVE  NoticedHasEnded'
    BY <1>1, <1>2, AddedKeys
  <1>3. CASE JobsAnswered
    <2> DEFINE list == jobsQuery.flight
               ended == {j \in Jobs : IsActiveIndexingStatus(seenStatus[j]) /\ IsTerminal(list[j])}
               key == CHOOSE j \in ended : TRUE
    <2>1. \A j \in ended : IsTerminal(jobStatus[j])
      BY <1>0, <1>3 DEF JobsAnswered, HasAnswer, ListInv, OnceTrue
    <2>2. /\ noticed' = noticed \cup ended
          /\ bell' = IF ended = {} THEN bell ELSE AddNotification(bell, key)
      BY <1>3 DEF JobsAnswered
    <2>3. ended # {} => key \in ended
      OBVIOUS
    <2>4. ended \subseteq Jobs
      OBVIOUS
    <2> HIDE DEF ended, key
    <2>5. Keys(bell') \subseteq Keys(bell) \cup ended
      <3>1. CASE ended = {}
        BY <2>2, <3>1
      <3>2. CASE ended # {}
        <4>1. Keys(AddNotification(bell, key)) \subseteq Keys(bell) \cup {key}
          BY <1>b, <2>3, <2>4, <3>2, AddedKeys
        <4> QED
          BY <2>2, <2>3, <3>2, <4>1
      <3> QED
        BY <3>1, <3>2
    <2> QED
      BY <1>1, <2>1, <2>2, <2>5
  <1>4. ASSUME NEW j \in Jobs, ProgressAnswered(j) PROVE NoticedHasEnded'
    <2>1. CASE bell' = bell /\ noticed' = noticed
      BY <1>1, <2>1
    <2>2. CASE /\ IsTerminal(progress[j].flight) /\ progress[j].flight # NoData
               /\ bell' = AddNotification(bell, j) /\ noticed' = noticed \cup {j}
      <3>1. IsTerminal(jobStatus[j])
        BY <1>0, <2>2 DEF CardsInv
      <3>2. Keys(AddNotification(bell, j)) \subseteq Keys(bell) \cup {j}
        BY <1>b, AddedKeys
      <3> QED
        BY <1>1, <2>2, <3>1, <3>2
    <2> QED
      BY <1>4, <2>1, <2>2 DEF ProgressAnswered, HasAnswer
  <1>5. CASE IndexStarted
    <2>1. bell' = AddNotification(bell, Started) /\ noticed' = noticed
      BY <1>5 DEF IndexStarted
    <2> QED
      BY <1>2, <1>b, <2>1
  <1>6. CASE ApplySettles \/ PatchesAnswered
    <2>1. /\ noticed' = noticed
          /\ \/ bell' = bell
             \/ \E status \in TerminalPatchStatuses : bell' = AddNotification(bell, PatchNotice(status))
      BY <1>6 DEF ApplySettles, PatchesAnswered, KeepJobsAndDismissed, KeepJobs,
                  TerminalPatchStatuses
    <2> QED
      BY <1>1, <1>2, <1>b, <2>1
  <1>7. CASE ClearAll
    BY <1>1, <1>7 DEF ClearAll, KeepJobs, Keys
  <1>8. ASSUME NEW i \in DOMAIN bell, RemoveNotification(i) PROVE NoticedHasEnded'
    <2>1. DOMAIN bell = 1 .. Len(bell) /\ Len(bell) \in Nat
      BY DEF BellInv, BellAgrees
    <2>2. bell' = [k \in 1 .. (Len(bell) - 1) |-> IF k < i THEN bell[k] ELSE bell[k + 1]]
      BY <1>8 DEF RemoveNotification
    <2>3. \A k \in DOMAIN bell' : \E l \in DOMAIN bell : bell'[k] = bell[l]
      BY <2>1, <2>2
    <2>4. Keys(bell') \subseteq Keys(bell) /\ noticed' = noticed
      BY <1>8, <2>3 DEF Keys, RemoveNotification, KeepJobs
    <2> QED
      BY <1>1, <2>4
  <1>9. CASE UNCHANGED <<bell, noticed>>
    BY <1>1, <1>9
  <1>10. CASE \/ FetchJobs \/ FetchRepositories \/ RepositoriesAnswered \/ ReloadDashboard
              \/ (\E j \in Jobs : FetchProgress(j) \/ JobRuns(j) \/ StartIndex(j))
    BY <1>9, <1>10 DEF FetchJobs, FetchRepositories, RepositoriesAnswered, ReloadDashboard,
                       FetchProgress, JobRuns, StartIndex
  <1>11. CASE \/ PatchValidates \/ PressApply \/ FetchPatches
              \/ (\E ok \in BOOLEAN : PatchApplied(ok)) \/ UNCHANGED <<jobVars, patchVars>>
    BY <1>9, <1>11 DEF PatchValidates, PressApply, FetchPatches, PatchApplied,
                       KeepJobsAndDismissed, KeepJobs, jobVars
  <1> QED
    BY <1>3, <1>4, <1>5, <1>6, <1>7, <1>8, <1>10, <1>11
    DEF NoticesNext, JobsNext, JobsSystem, PatchNoticesNext

\* The list lets go of an active job when an answer arrives that shows its end.
LEMMA LetGoStep ==
  ASSUME NoticedInv, [NoticesNext]_<<jobVars, patchVars>>, NEW j \in Jobs,
         IsActiveIndexingStatus(Shown(jobsQuery)[j]), ~IsActiveIndexingStatus(Shown(jobsQuery)'[j])
  PROVE  j \in noticed' \/ reloads' # reloads \/ raced'
  <1>0. JobsOnServer /\ ListInv
    BY DEF NoticedInv
  <1>1. /\ jobsQuery.data # NoData /\ IsActiveIndexingStatus(jobsQuery.data[j])
        /\ seenStatus[j] = jobsQuery.data[j] /\ jobsQuery.data[j] # Unknown
    BY <1>0 DEF Shown, NoneSeen, IsActiveIndexingStatus, Unknown, ListInv
  <1>2. CASE jobsQuery'.data = jobsQuery.data
    BY <1>2 DEF Shown
  <1>3. CASE FetchJobs \/ (\E k \in Jobs : ProgressAnswered(k))
    <2>1. jobsQuery' \in {jobsQuery, Invalidated(jobsQuery, TRUE), Fetched(jobsQuery, jobStatus)}
      BY <1>3 DEF FetchJobs, ProgressAnswered
    <2>2. IsEntry(jobsQuery)
      BY <1>0 DEF ListInv
    <2>3. Invalidated(jobsQuery, TRUE).data = jobsQuery.data
      BY <2>2, EntryFields
    <2>4. Fetched(jobsQuery, jobStatus).data = jobsQuery.data
      BY <2>2 DEF Fetched, IsEntry, QueryOf
    <2> QED
      BY <1>2, <2>1, <2>3, <2>4
  <1>4. CASE IndexStarted
    <2> DEFINE list == IF Shown(jobsQuery)[startClick] = Unknown
                       THEN [Shown(jobsQuery) EXCEPT ![startClick] = "pending"]
                       ELSE jobsQuery.data
    <2>1. jobsQuery'.data = list
      BY <1>0, <1>4, StartedFields DEF ListInv
    <2>2. startClick \in Jobs
      BY <1>0, <1>4 DEF IndexStarted, JobsOnServer
    <2>3. Shown(jobsQuery) = jobsQuery.data /\ jobsQuery.data \in [Jobs -> Statuses]
      BY <1>0, <1>1 DEF Shown, ListInv, OnceTrue
    <2>4. list \in [Jobs -> Statuses] /\ IsActiveIndexingStatus(list[j])
      BY <1>1, <2>2, <2>3 DEF IsActiveIndexingStatus, Statuses
    <2> HIDE DEF list
    <2> QED
      BY <2>1, <2>4, NoDataAssumption DEF Shown
  <1>5. CASE JobsAnswered
    <2> DEFINE list == jobsQuery.flight
    <2>1. /\ list # NoData /\ jobsQuery' = Answered(jobsQuery) /\ raced' = raced
          /\ noticed' = noticed \cup {k \in Jobs : IsActiveIndexingStatus(seenStatus[k])
                                                   /\ IsTerminal(list[k])}
      BY <1>5 DEF JobsAnswered, HasAnswer
    <2>2. Shown(jobsQuery)' = list
      BY <2>1 DEF Shown, Answered
    <2>3. list \in [Jobs -> Statuses] /\ ~IsActiveIndexingStatus(list[j])
      BY <1>0, <2>1, <2>2 DEF ListInv, OnceTrue
    <2>4. raced \/ list[j] # Unknown
      BY <1>0, <1>1, <2>1 DEF ListInv
    <2>5. list[j] # Unknown => IsTerminal(list[j])
      BY <2>3 DEF Statuses, IsActiveIndexingStatus, IsTerminal, Unknown
    <2> QED
      BY <1>1, <2>1, <2>4, <2>5
  <1>6. CASE ReloadDashboard
    BY <1>0, <1>6 DEF ReloadDashboard, JobsOnServer
  <1>7. CASE \/ FetchRepositories \/ RepositoriesAnswered
             \/ (\E k \in Jobs : FetchProgress(k) \/ JobRuns(k) \/ StartIndex(k))
    BY <1>2, <1>7 DEF FetchRepositories, RepositoriesAnswered, FetchProgress, JobRuns, StartIndex
  <1>8. CASE \/ ClearAll \/ (\E i \in DOMAIN bell : RemoveNotification(i)) \/ PatchNoticesNext
             \/ UNCHANGED <<jobVars, patchVars>>
    <2>1. UNCHANGED jobsQuery
      BY <1>8 DEF ClearAll, RemoveNotification, KeepJobs, PatchNoticesNext, PatchValidates,
                  PressApply, ApplySettles, FetchPatches, PatchesAnswered, PatchApplied,
                  KeepJobsAndDismissed, jobVars
    <2> QED
      BY <1>2, <2>1
  <1> QED
    BY <1>3, <1>4, <1>5, <1>6, <1>7, <1>8 DEF NoticesNext, JobsNext, JobsSystem

\* Every step keeps both: what is known of the jobs, and the bell.
LEMMA NoticesInvStep ==
  NoticedInv /\ BellInv /\ [NoticesNext]_<<jobVars, patchVars>> => NoticedInv' /\ BellInv'
  <1> SUFFICES ASSUME NoticedInv, BellInv, [NoticesNext]_<<jobVars, patchVars>>
               PROVE  NoticedInv' /\ BellInv'
    OBVIOUS
  <1>1. JobsOnServer'
    BY ServerStep DEF NoticedInv
  <1>2. ListInv' /\ CardsInv' /\ NoticedHasEnded'
    BY ListStep, CardsStep, NoticedStep
  <1> QED
    BY <1>1, <1>2, StepsOfBell, BellInvStep DEF NoticedInv

\* What the dashboard knows of the jobs is once true, always.
THEOREM NoticedInvariant == NoticesSpec => [](NoticedInv /\ BellInv)
  <1>1. JobsInit => NoticedInv
    <2>1. EmptyQuery.flight = NoData /\ EmptyQuery.data = NoData /\ IsEntry(EmptyQuery)
      BY EmptyEntry DEF EmptyQuery
    <2>2. NoneSeen \in [Jobs -> Statuses]
      BY DEF NoneSeen, Statuses
    <2>3. EmptyQuery \in QueryOf(Statuses)
      BY DEF EmptyQuery, QueryOf
    <2> SUFFICES ASSUME JobsInit PROVE NoticedInv
      OBVIOUS
    <2>4. JobsOnServer /\ ListInv
      BY <2>1, <2>2 DEF JobsInit, JobsOnServer, ListInv
    <2>5. CardsInv
      BY <2>1, <2>3 DEF JobsInit, CardsInv
    <2>6. NoticedHasEnded
      BY DEF JobsInit, NoticedHasEnded, Keys
    <2> QED
      BY <2>4, <2>5, <2>6 DEF NoticedInv
  <1> QED
    BY <1>1, BellInvInit, NoticesInvStep, PTL DEF NoticesSpec

\* The end of a job that the list showed as active goes past nobody: the list lets go of it
\* only in the step that raises the notice, but for a reload and that race.
THEOREM NoEndIsMissed == NoticesSpec => LetGoIsNoticed
  <1>1. NoticedInv /\ [NoticesNext]_<<jobVars, patchVars>> =>
          [\A j \in Jobs :
             IsActiveIndexingStatus(Shown(jobsQuery)[j]) /\ ~IsActiveIndexingStatus(Shown(jobsQuery)[j])'
               => j \in noticed' \/ reloads' # reloads \/ raced']_jobVars
    BY LetGoStep
  <1> QED
    BY <1>1, NoticedInvariant, PTL DEF NoticesSpec, LetGoIsNoticed

\* And a notice is never early: a job whose end is in the bell has ended on the server.
THEOREM NoNoticeIsEarly == NoticesSpec => []NoticedHasEnded
  BY NoticedInvariant, PTL DEF NoticedInv

\* What the dashboard and the bell keep besides.
JobsTypes ==
  /\ reposQuery \in QueryOf([Jobs -> Statuses]) /\ lastStatus \in [Jobs -> Statuses]
  /\ seenStatus \in [Jobs -> Statuses] /\ noticed \subseteq Jobs
PatchTypes ==
  /\ patchStatus \in PatchStatuses /\ patchQuery \in QueryOf(PatchStatuses)
  /\ seenPatch \in PatchStatuses \cup {"none"}
  /\ applyRequest \in {"none", "sent", "ok", "failed"} /\ patchSteps \in 0..MaxPatchSteps

LEMMA EntryTypes ==
  ASSUME NEW S, NEW q \in QueryOf(S), NEW v \in S
  PROVE  {Fetched(q, v), Answered(q), Invalidated(q, TRUE)} \subseteq QueryOf(S)
  <1>1. Fetched(q, v) \in QueryOf(S)
    BY DEF QueryOf, Fetched
  <1>2. Answered(q) \in QueryOf(S) /\ Invalidated(q, TRUE) \in QueryOf(S)
    BY DEF QueryOf, Answered, Invalidated
  <1> QED
    BY <1>1, <1>2

LEMMA JobsTypesStep ==
  ASSUME NoticedInv, BellInv, JobsTypes, [NoticesNext]_<<jobVars, patchVars>>
  PROVE  JobsTypes'
  <1>0. /\ JobsOnServer /\ ListInv /\ CardsInv /\ jobStatus \in [Jobs -> Statuses]
        /\ IsEntry(jobsQuery)
    BY DEF NoticedInv, JobsOnServer, ListInv
  <1>b. {Fetched(reposQuery, jobStatus), Answered(reposQuery), Invalidated(reposQuery, TRUE)}
          \subseteq QueryOf([Jobs -> Statuses])
    BY <1>0, EntryTypes DEF JobsTypes
  <1>1. ASSUME reposQuery' \in {reposQuery, Fetched(reposQuery, jobStatus), Answered(reposQuery),
                                Invalidated(reposQuery, TRUE)},
               lastStatus' \in [Jobs -> Statuses], seenStatus' \in [Jobs -> Statuses],
               noticed' \subseteq Jobs
        PROVE  JobsTypes'
    BY <1>b, <1>1 DEF JobsTypes
  <1>2. CASE FetchJobs \/ FetchRepositories \/ RepositoriesAnswered
    BY <1>1, <1>2 DEF FetchJobs, FetchRepositories, RepositoriesAnswered, JobsTypes
  <1>3. CASE JobsAnswered
    <2> DEFINE list == jobsQuery.flight
    <2>1. list \in [Jobs -> Statuses]
      BY <1>0, <1>3 DEF JobsAnswered, HasAnswer, ListInv, OnceTrue
    <2>2. /\ seenStatus' = [j \in Jobs |-> IF list[j] = Unknown THEN seenStatus[j] ELSE list[j]]
          /\ lastStatus' = [j \in Jobs |-> IF IsActiveIndexingStatus(list[j])
                                           THEN lastStatus[j] ELSE Unknown]
          /\ noticed' \subseteq Jobs /\ reposQuery' = reposQuery
      BY <1>3 DEF JobsAnswered, JobsTypes
    <2>3. Unknown \in Statuses
      BY DEF Statuses
    <2> HIDE DEF list
    <2>4. seenStatus' \in [Jobs -> Statuses] /\ lastStatus' \in [Jobs -> Statuses]
      BY <2>1, <2>2, <2>3 DEF JobsTypes
    <2> QED
      BY <1>1, <2>2, <2>4
  <1>4. CASE IndexStarted
    <2> DEFINE list == IF Shown(jobsQuery)[startClick] = Unknown
                       THEN [Shown(jobsQuery) EXCEPT ![startClick] = "pending"]
                       ELSE jobsQuery.data
    <2>1. seenStatus' = list
      BY <1>0, <1>4, StartedFields
    <2>2. startClick \in Jobs
      BY <1>0, <1>4 DEF IndexStarted, JobsOnServer
    <2>3. /\ Shown(jobsQuery) \in [Jobs -> Statuses]
          /\ jobsQuery.data # NoData => Shown(jobsQuery) = jobsQuery.data
          /\ jobsQuery.data = NoData => Shown(jobsQuery)[startClick] = Unknown
      BY <1>0, <2>2 DEF Shown, NoneSeen, ListInv, OnceTrue, Statuses, Unknown
    <2>4. list \in [Jobs -> Statuses]
      BY <2>2, <2>3 DEF Statuses
    <2> HIDE DEF list
    <2> QED
      BY <1>1, <1>4, <2>1, <2>4 DEF IndexStarted, InvalidateIndexingCaches, JobsTypes
  <1>5. ASSUME NEW j \in Jobs, ProgressAnswered(j) PROVE JobsTypes'
    <2>1. progress[j].flight # NoData /\ progress[j] \in QueryOf(Statuses)
      BY <1>0, <1>5 DEF ProgressAnswered, HasAnswer, CardsInv
    <2>2. progress[j].flight \in Statuses
      BY <2>1 DEF QueryOf
    <2>3. /\ lastStatus' = lastStatus \/ lastStatus' = [lastStatus EXCEPT ![j] = progress[j].flight]
          /\ noticed' \in {noticed, noticed \cup {j}} /\ seenStatus' = seenStatus
          /\ reposQuery' \in {reposQuery, Invalidated(reposQuery, TRUE)}
      BY <1>5 DEF ProgressAnswered
    <2>4. lastStatus' \in [Jobs -> Statuses] /\ noticed' \subseteq Jobs
      BY <2>2, <2>3 DEF JobsTypes
    <2> QED
      BY <1>1, <2>3, <2>4 DEF JobsTypes
  <1>6. CASE ReloadDashboard
    <2>1. /\ reposQuery' = EmptyQuery /\ seenStatus' = NoneSeen /\ lastStatus' = NoneSeen
          /\ noticed' = noticed
      BY <1>6 DEF ReloadDashboard
    <2>2. EmptyQuery \in QueryOf([Jobs -> Statuses]) /\ NoneSeen \in [Jobs -> Statuses]
      BY DEF EmptyQuery, QueryOf, NoneSeen, Statuses, Unknown
    <2> QED
      BY <2>1, <2>2 DEF JobsTypes
  <1>7. ASSUME UNCHANGED <<reposQuery, lastStatus, seenStatus, noticed>> PROVE JobsTypes'
    BY <1>7 DEF JobsTypes
  <1>8. CASE \E j \in Jobs : FetchProgress(j) \/ JobRuns(j) \/ StartIndex(j)
    BY <1>7, <1>8 DEF FetchProgress, JobRuns, StartIndex
  <1>9. CASE \/ ClearAll \/ (\E i \in DOMAIN bell : RemoveNotification(i)) \/ PatchNoticesNext
             \/ UNCHANGED <<jobVars, patchVars>>
    <2>1. UNCHANGED <<reposQuery, lastStatus, seenStatus, noticed>>
      BY <1>9 DEF ClearAll, RemoveNotification, KeepJobs, PatchNoticesNext, PatchValidates,
                  PressApply, ApplySettles, FetchPatches, PatchesAnswered, PatchApplied,
                  KeepJobsAndDismissed, jobVars
    <2> QED
      BY <1>7, <2>1
  <1> QED
    BY <1>2, <1>3, <1>4, <1>5, <1>6, <1>8, <1>9 DEF NoticesNext, JobsNext, JobsSystem

LEMMA PatchTypesStep ==
  ASSUME PatchTypes, [NoticesNext]_<<jobVars, patchVars>>
  PROVE  PatchTypes'
  <1>0. /\ patchQuery \in QueryOf(PatchStatuses) /\ patchStatus \in PatchStatuses
        /\ patchSteps \in Nat /\ patchSteps <= MaxPatchSteps
    BY PatchStepsAssumption DEF PatchTypes
  <1>a. {Fetched(patchQuery, patchStatus), Answered(patchQuery), Invalidated(patchQuery, TRUE)}
          \subseteq QueryOf(PatchStatuses)
    BY <1>0, EntryTypes
  <1>1. CASE PatchValidates \/ \E ok \in BOOLEAN : PatchApplied(ok)
    <2>1. patchStatus' \in PatchStatuses /\ applyRequest' \in {"none", "sent", "ok", "failed"}
      BY <1>1 DEF PatchValidates, PatchApplied, PatchStatuses, PatchTypes
    <2>2. /\ patchSteps < MaxPatchSteps /\ patchSteps' = patchSteps + 1
          /\ UNCHANGED <<patchQuery, seenPatch>>
      BY <1>1 DEF PatchValidates, PatchApplied
    <2> QED
      BY <2>1, <2>2, PatchStepsAssumption DEF PatchTypes
  <1>2. CASE PressApply \/ ApplySettles \/ FetchPatches
    <2>1. /\ applyRequest' \in {"none", "sent", "ok", "failed"}
          /\ UNCHANGED <<patchStatus, seenPatch, patchSteps>>
          /\ patchQuery' \in {patchQuery, Fetched(patchQuery, patchStatus),
                              Invalidated(patchQuery, TRUE)}
      BY <1>2 DEF PressApply, ApplySettles, FetchPatches, PatchTypes
    <2> QED
      BY <1>a, <2>1 DEF PatchTypes
  <1>3. CASE PatchesAnswered
    <2>1. patchQuery.flight \in PatchStatuses
      BY <1>0, <1>3 DEF PatchesAnswered, HasAnswer, QueryOf
    <2> QED
      BY <1>a, <1>3, <2>1 DEF PatchesAnswered, PatchTypes
  <1>4. CASE UNCHANGED patchVars
    BY <1>4 DEF patchVars, PatchTypes
  <1> QED
    BY <1>1, <1>2, <1>3, <1>4 DEF NoticesNext, PatchNoticesNext

LEMMA NoticesTypesInit == JobsInit /\ PatchNoticesInit => JobsTypes /\ PatchTypes
  <1>1. /\ EmptyQuery \in QueryOf([Jobs -> Statuses]) /\ EmptyQuery \in QueryOf(PatchStatuses)
        /\ NoneSeen \in [Jobs -> Statuses]
    BY DEF EmptyQuery, QueryOf, NoneSeen, Statuses, Unknown
  <1> QED
    BY <1>1, PatchStepsAssumption
    DEF JobsInit, PatchNoticesInit, JobsTypes, PatchTypes, PatchStatuses

LEMMA NoticesTyped == NoticedInv /\ BellInv /\ JobsTypes /\ PatchTypes => NoticesTypeOK
  <1> SUFFICES ASSUME NoticedInv, BellInv, JobsTypes, PatchTypes PROVE NoticesTypeOK
    OBVIOUS
  <1>1. jobsQuery \in QueryOf([Jobs -> Statuses])
    <2> PICK D : jobsQuery \in QueryOf(D)
      BY DEF NoticedInv, ListInv, IsEntry
    <2>1. /\ jobsQuery.flight \in [Jobs -> Statuses] \cup {NoData}
          /\ jobsQuery.data \in [Jobs -> Statuses] \cup {NoData}
      BY DEF NoticedInv, ListInv, OnceTrue
    <2> QED
      BY <2>1 DEF QueryOf
  <1>2. /\ jobStatus \in [Jobs -> Statuses] /\ startClick \in Jobs \cup {NoJob}
        /\ progress \in [Jobs -> QueryOf(Statuses)]
    BY DEF NoticedInv, JobsOnServer, CardsInv
  <1>3. Keys(bell) \subseteq NoticeKeys \cup {Started} /\ Len(bell) <= MaxNotices
    BY DEF BellInv, BellAgrees, BellKeys, Keys
  <1>4. Keys(dismissed) \subseteq NoticeKeys /\ Len(dismissed) <= MaxDismissed
    BY DEF BellInv, Keys
  <1> QED
    BY <1>1, <1>2, <1>3, <1>4 DEF JobsTypes, PatchTypes, NoticesTypeOK

\* The dashboard, the cards and the bell keep their types: what a late answer or a click puts
\* into a list is a list of jobs, and only keys the code raises are ever in the bell.
THEOREM NoticesAreTyped == NoticesSpec => []NoticesTypeOK
  <1>1. JobsTypes /\ PatchTypes /\ NoticedInv /\ BellInv /\ [NoticesNext]_<<jobVars, patchVars>>
          => JobsTypes' /\ PatchTypes'
    BY JobsTypesStep, PatchTypesStep
  <1> QED
    BY <1>1, NoticesTypesInit, NoticesTyped, NoticedInvariant, PTL DEF NoticesSpec
=============================================================================
