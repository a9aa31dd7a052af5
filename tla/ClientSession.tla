---------------------------- MODULE ClientSession ----------------------------
(* The signed-in user in the browser: the token and the user in the local storage and the
   cookies, which all tabs share (lib/auth.ts); the store of each tab, read from there
   once (auth-store.ts); login in two requests (use-auth.ts, use-admin-auth.ts), the second
   of which brings the role, that an administrator may change at any time; the
   middleware that sends each page request where its cookies allow; the 401 answers that
   end the session (client.ts, app-providers.tsx); and the walkthrough offered to a user
   who has just registered (onboarding-store.ts).
   Left out: passwords and their validation, the steps within the walkthrough, the legacy
   copies of the keys (written and removed with the others), and the age at which the
   browser drops the cookies.                                                          *)
EXTENDS Naturals, FiniteSets

CONSTANTS Windows, Users, Admins, Nobody, NoToken,
          MaxLogins, MaxVisits, MaxCalls, MaxRoleChanges

Tokens == [user : Users, n : 1..MaxLogins]

ASSUME ClientSessionAssumption ==
  /\ Admins \subseteq Users /\ Nobody \notin Users /\ NoToken \notin Tokens
  /\ MaxLogins \in Nat /\ MaxVisits \in Nat /\ MaxCalls \in Nat /\ MaxRoleChanges \in Nat

VARIABLES accounts,   \* server: the registered users
          roles,      \* server: the role of each user
          minted,     \* server: the tokens handed out
          expired,    \* server and clock: the tokens that passed their exp
          storage,    \* local storage: token, user and the user's role
          cookies,    \* tm_token and tm_role
          tours,      \* local storage: completed and brand-new users, pending email
          win,        \* tab: the page it shows, its auth store and its walkthrough
          login,      \* tab: the login under way
          calls,      \* API requests not yet answered: tab and token sent
          visits, callCount, roleChanges,
          toured,     \* history: how often the walkthrough opened for a user
          granted     \* history: the role that /me gave with each token
roleVars == <<roles, roleChanges>>
sessionVars == <<accounts, roleVars, minted, expired, storage, cookies, tours, win, login,
                 calls, visits, callCount, toured, granted>>

Roles == {"USER", "ADMIN"}
Live(token) == token # NoToken /\ token \notin expired

AuthPages == {"login", "register"}
AdminAuthPages == {"admin-login"}
WebPages == AuthPages \cup AdminAuthPages \cup {"dashboard", "admin"}

SignedOut == [user |-> Nobody, role |-> "", hydrated |-> TRUE]
NoLogin == [stage |-> "none", user |-> Nobody, token |-> NoToken, form |-> "login"]
NoTour == [user |-> Nobody, isOpen |-> FALSE]
\* What a freshly loaded page starts from; "seen" is what the effects last ran for.
Loaded(p) == [page |-> p, auth |-> [SignedOut EXCEPT !.hydrated = FALSE],
              tour |-> NoTour, seen |-> NoToken]

ClientSessionInit ==
  \* Windows that found nothing stored.
  /\ accounts = Admins /\ minted = 0 /\ expired = {} /\ roleChanges = 0
  /\ roles = [u \in Users |-> IF u \in Admins THEN "ADMIN" ELSE "USER"]
  /\ storage = [token |-> NoToken, user |-> Nobody, role |-> ""]
  /\ cookies = [token |-> NoToken, role |-> ""]
  /\ tours = [completed |-> {}, brandNew |-> {}, pending |-> Nobody]
  /\ win = [t \in Windows |-> [Loaded("login") EXCEPT !.auth = SignedOut,
                                                     !.seen = <<Nobody, "">>]]
  /\ login = [t \in Windows |-> NoLogin]
  /\ calls = {} /\ visits = 0 /\ callCount = 0 /\ toured = [u \in Users |-> 0]
  /\ granted = [n \in 1..MaxLogins |-> ""]

-----------------------------------------------------------------------------
(* lib/auth.ts *)

GetAccessToken == IF storage.token # NoToken THEN storage.token ELSE cookies.token
SetAuthSession(token, u, role) ==
  /\ storage' = [token |-> token, user |-> u, role |-> role]
  /\ cookies' = [token |-> token, role |-> role]
ClearAuthSession ==
  /\ storage' = [token |-> NoToken, user |-> Nobody, role |-> ""]
  /\ cookies' = [token |-> NoToken, role |-> ""]

-----------------------------------------------------------------------------
(* middleware.ts: the page a request ends at, after the redirects it is sent through, and
   the cookies it leaves.  An expired token counts as none and takes both cookies with it,
   except where the admin login page is asked for.                                     *)

Home(role) == IF role = "ADMIN" THEN "admin" ELSE "dashboard"
Redirected(p) ==
  IF ~Live(cookies.token)
  THEN CASE p = "admin" -> "admin-login" [] p = "dashboard" -> "login" [] OTHER -> p
  ELSE CASE p \in AuthPages \cup AdminAuthPages -> Home(cookies.role)
         [] p = "admin" /\ cookies.role # "ADMIN" -> "dashboard"
         [] OTHER -> p
DropsCookies(p) == ~Live(cookies.token) /\ cookies.token # NoToken /\ p \notin AdminAuthPages
Requested(p) ==
  cookies' = IF DropsCookies(p) THEN [token |-> NoToken, role |-> ""] ELSE cookies

\* A typed address or a reload: a new document, whose stores are empty.
LoadPage(t, p) ==
  /\ visits < MaxVisits /\ visits' = visits + 1
  /\ win' = [win EXCEPT ![t] = Loaded(Redirected(p))] /\ Requested(p)
  /\ login' = [login EXCEPT ![t] = NoLogin]
  /\ calls' = {c \in calls : c.tab # t}
  /\ UNCHANGED <<accounts, roleVars, minted, expired, storage, tours, callCount, toured,
                 granted>>

\* A link of the navigation bar or of the form: the stores stay.
FollowNav(t, p) ==
  /\ visits < MaxVisits /\ visits' = visits + 1
  /\ win' = [win EXCEPT ![t].page = Redirected(p)] /\ Requested(p)
  /\ UNCHANGED <<accounts, roleVars, minted, expired, storage, tours, login, calls,
                 callCount, toured, granted>>

-----------------------------------------------------------------------------
(* auth-store.ts and the effects of app-providers.tsx *)

HydrateFromStorage(t) ==
  /\ ~win[t].auth.hydrated
  /\ IF Live(GetAccessToken)
     THEN /\ win' = [win EXCEPT ![t].auth = [user |-> storage.user, role |-> storage.role,
                                          hydrated |-> TRUE]]
          /\ UNCHANGED <<storage, cookies>>
     ELSE win' = [win EXCEPT ![t].auth = SignedOut] /\ ClearAuthSession
  /\ UNCHANGED <<accounts, roleVars, minted, expired, tours, login, calls, visits,
                 callCount, toured, granted>>

\* What the effect of the walkthrough depends on.
Who(t) == <<win[t].auth.user, win[t].auth.role>>

\* initializeForUser, as OnboardingInitializer calls it when the user or the role changed.
InitializeForUser(t, u) ==
  LET done == u \in tours.completed
      brandNew == u \in tours.brandNew
      opens == ~done /\ brandNew IN
  /\ tours' = [tours EXCEPT !.brandNew = @ \ {u},
                            !.completed = IF ~done /\ ~brandNew THEN @ \cup {u} ELSE @]
  /\ win' = [win EXCEPT ![t].seen = Who(t),
                        ![t].tour = [user |-> u, isOpen |-> opens]]
  /\ toured' = IF opens THEN [toured EXCEPT ![u] = @ + 1] ELSE toured

OnboardingInitializer(t) ==
  /\ win[t].auth.hydrated /\ win[t].seen # Who(t)
  /\ CASE win[t].auth.role = "ADMIN" ->
            win' = [win EXCEPT ![t].seen = Who(t)] /\ UNCHANGED <<tours, toured>>
       [] win[t].auth.user = Nobody ->
            /\ win' = [win EXCEPT ![t].seen = Who(t), ![t].tour = NoTour]
            /\ UNCHANGED <<tours, toured>>
       [] OTHER -> InitializeForUser(t, win[t].auth.user)
  /\ UNCHANGED <<accounts, roleVars, minted, expired, storage, cookies, login, calls,
                 visits, callCount, granted>>

\* useLogout, called by the sign-out buttons and for every 401.
LogoutIn(t) ==
  /\ ClearAuthSession
  /\ win' = [win EXCEPT ![t].auth = SignedOut,
                        ![t].page = IF @ = "admin" \/ win[t].auth.role = "ADMIN"
                                       \/ @ \in AdminAuthPages
                                    THEN "admin-login" ELSE "login"]

SignOut(t) ==
  /\ win[t].page \in {"dashboard", "admin"} /\ LogoutIn(t)
  /\ UNCHANGED <<accounts, roleVars, minted, expired, tours, login, calls, visits,
                 callCount, toured, granted>>

-----------------------------------------------------------------------------
(* The forms of auth-form.tsx *)

RegisterAs(t, u) ==
  /\ win[t].page = "register" /\ u \notin accounts
  /\ accounts' = accounts \cup {u} /\ tours' = [tours EXCEPT !.pending = u]
  /\ win' = [win EXCEPT ![t].page = Redirected("login")] /\ Requested("login")
  /\ UNCHANGED <<roleVars, minted, expired, storage, login, calls, visits, callCount,
                 toured, granted>>

SubmitLogin(t, u) ==
  /\ win[t].page \in {"login", "admin-login"} /\ u \in accounts
  /\ login[t].stage = "none" /\ minted < MaxLogins
  /\ login' = [login EXCEPT ![t] = [stage |-> "sent", user |-> u, token |-> NoToken,
                                   form |-> win[t].page]]
  /\ UNCHANGED <<accounts, roleVars, minted, expired, storage, cookies, tours, win, calls,
                 visits, callCount, toured, granted>>

\* The route of the admin form refuses a user who is no administrator.
Admitted(t) == login[t].form = "admin-login" => roles[login[t].user] = "ADMIN"

\* Mutant: the token is stored as soon as it is there, as storeSession does.
LoginAnsweredStoringToken(t) ==
  /\ login[t].stage = "sent" /\ Admitted(t) /\ minted < MaxLogins /\ minted' = minted + 1
  /\ login' = [login EXCEPT ![t].stage = "me",
                            ![t].token = [user |-> login[t].user, n |-> minted']]
  /\ storage' = [storage EXCEPT !.token = login'[t].token]
  /\ cookies' = [cookies EXCEPT !.token = login'[t].token]
  /\ UNCHANGED <<accounts, roleVars, expired, tours, win, calls, visits, callCount, toured,
                 granted>>

\* The first answer brings the token; nothing is stored before /me has answered too.
LoginAnswered(t) ==
  /\ login[t].stage = "sent" /\ Admitted(t) /\ minted < MaxLogins /\ minted' = minted + 1
  /\ login' = [login EXCEPT ![t].stage = "me",
                            ![t].token = [user |-> login[t].user, n |-> minted']]
  /\ UNCHANGED <<storage, cookies>>
  /\ UNCHANGED <<accounts, roleVars, expired, tours, win, calls, visits, callCount, toured,
                 granted>>

\* onSuccess: the session is stored with the role the user has by now, the mark of a pending
\* email becomes a brand-new user, and, if the form is still there, the router replaces the
\* page.
MeAnswered(t) ==
  LET u == login[t].user
      role == roles[u]
      admin == login[t].form = "admin-login"
      p == IF admin THEN "admin" ELSE Home(role) IN
  /\ login[t].stage = "me" /\ Live(login[t].token)
  /\ SetAuthSession(login[t].token, u, role)
  /\ granted' = [granted EXCEPT ![login[t].token.n] = role]
  /\ win' = [win EXCEPT ![t].auth = [user |-> u, role |-> role, hydrated |-> TRUE],
                        ![t].page = IF @ = login[t].form THEN p ELSE @]
  /\ tours' = IF tours.pending = u /\ role = "USER" /\ ~admin
              THEN [tours EXCEPT !.pending = Nobody, !.brandNew = @ \cup {u}] ELSE tours
  /\ login' = [login EXCEPT ![t] = NoLogin]
  /\ UNCHANGED <<accounts, roleVars, minted, expired, calls, visits, callCount, toured>>

\* A wrong password is a 401 too; another error leaves the session alone.
LoginFails(t) ==
  /\ login[t].stage # "none" /\ login' = [login EXCEPT ![t] = NoLogin]
  /\ \/ LogoutIn(t)
     \/ UNCHANGED <<storage, cookies, win>>
  /\ UNCHANGED <<accounts, roleVars, minted, expired, tours, calls, visits, callCount,
                 toured, granted>>

-----------------------------------------------------------------------------
(* client.ts and the proxy of app/api: a request takes the token of the moment it is sent;
   the proxy adds the cookie's when the request brings none.                            *)

SendCall(t) ==
  /\ win[t].auth.hydrated /\ callCount < MaxCalls /\ callCount' = callCount + 1
  /\ calls' = calls \cup {[tab |-> t, token |-> GetAccessToken]}
  /\ UNCHANGED <<accounts, roleVars, minted, expired, storage, cookies, tours, win, login,
                 visits, toured, granted>>

CallAnswered(c) ==
  /\ c \in calls /\ calls' = calls \ {c} /\ Live(c.token)
  /\ UNCHANGED <<accounts, roleVars, minted, expired, storage, cookies, tours, win, login,
                 visits, callCount, toured, granted>>

\* A 401: the handler of the tab logs out whoever is signed in by now.
CallUnauthorized(c) ==
  /\ c \in calls /\ calls' = calls \ {c} /\ ~Live(c.token) /\ LogoutIn(c.tab)
  /\ UNCHANGED <<accounts, roleVars, minted, expired, tours, login, visits, callCount,
                 toured, granted>>

\* The users page of an administrator, wherever signed in; nobody demotes themselves.
ChangeRole(u) ==
  /\ roleChanges < MaxRoleChanges /\ roleChanges' = roleChanges + 1
  /\ u \in accounts /\ \E a \in accounts \ {u} : roles[a] = "ADMIN"
  /\ roles' = [roles EXCEPT ![u] = IF @ = "ADMIN" THEN "USER" ELSE "ADMIN"]
  /\ UNCHANGED <<accounts, minted, expired, storage, cookies, tours, win, login, calls,
                 visits, callCount, toured, granted>>

TokenExpires ==
  /\ Live(storage.token) /\ expired' = expired \cup {storage.token}
  /\ UNCHANGED <<accounts, roleVars, minted, storage, cookies, tours, win, login, calls,
                 visits, callCount, toured, granted>>

-----------------------------------------------------------------------------
(* onboarding-walkthrough.tsx *)

TourShown(t) ==
  /\ win[t].auth.hydrated /\ win[t].auth.user # Nobody /\ win[t].auth.role # "ADMIN"
  /\ win[t].page = "dashboard" /\ win[t].tour.isOpen

\* Skipping, the last step and "Get started" all complete the walkthrough of the user.
DismissOnboarding(t) ==
  /\ TourShown(t)
  /\ win' = [win EXCEPT ![t].tour.isOpen = FALSE]
  /\ tours' = [tours EXCEPT !.completed = @ \cup {win[t].tour.user}]
  /\ UNCHANGED <<accounts, roleVars, minted, expired, storage, cookies, login, calls,
                 visits, callCount, toured, granted>>

ClientSessionNext ==
  \/ \E t \in Windows, p \in WebPages : LoadPage(t, p) \/ FollowNav(t, p)
  \/ \E t \in Windows, u \in Users : RegisterAs(t, u) \/ SubmitLogin(t, u)
  \/ \E t \in Windows : \/ HydrateFromStorage(t) \/ OnboardingInitializer(t) \/ SignOut(t)
                        \/ LoginAnswered(t) \/ MeAnswered(t) \/ LoginFails(t) \/ SendCall(t)
                        \/ DismissOnboarding(t)
  \/ \E c \in calls : CallAnswered(c) \/ CallUnauthorized(c)
  \/ TokenExpires \/ \E u \in Users : ChangeRole(u)

ClientSessionSpec == ClientSessionInit /\ [][ClientSessionNext]_sessionVars

-----------------------------------------------------------------------------
\* Every variable keeps its type, in particular what two windows write to one storage.
SessionTypeOK ==
  /\ roles \in [Users -> Roles] /\ roleChanges \in 0..MaxRoleChanges
  /\ granted \in [1..MaxLogins -> Roles \cup {""}]
  /\ accounts \subseteq Users /\ minted \in 0..MaxLogins /\ expired \subseteq Tokens
  /\ storage \in [token : Tokens \cup {NoToken}, user : Users \cup {Nobody},
                  role : Roles \cup {""}]
  /\ cookies \in [token : Tokens \cup {NoToken}, role : Roles \cup {""}]
  /\ tours \in [completed : SUBSET Users, brandNew : SUBSET Users,
                pending : Users \cup {Nobody}]
  /\ \A t \in Windows :
       /\ win[t].page \in WebPages
       /\ win[t].auth.user \in Users \cup {Nobody} /\ win[t].auth.role \in Roles \cup {""}
       /\ login[t].stage \in {"none", "sent", "me"}

\* The role in the cookie, which the middleware trusts without asking the server, is the
\* one that /me gave with the token beside it, however logins, logouts, late 401 answers,
\* expired tokens and changes of roles interleave: nobody is led to the console by the role
\* of the user before, nor by that of an earlier log-in.  (It is the role at the log-in: an
\* administrator's change reaches the browser with the next one.)
RoleIsOfToken ==
  cookies.token # NoToken => /\ granted[cookies.token.n] # ""
                             /\ cookies.role = granted[cookies.token.n]

\* The walkthrough opens by itself at most once for a user, whatever is reloaded, signed
\* out or opened in other tabs and whatever the role becomes, and only for one who
\* registered in this browser.
TourOnce == \A u \in Users : toured[u] <= IF u \in Admins THEN 0 ELSE 1
=============================================================================
