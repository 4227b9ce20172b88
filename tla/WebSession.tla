----------------------------- MODULE WebSession -----------------------------
(***************************************************************************)
(* The session of the browser application: what its tabs keep in           *)
(* localStorage, the requests they have under way, and the refresh that    *)
(* requests of one tab share when the server answers 401                   *)
(* (services/api/httpClient.js, LoginPage, ProtectedRoute, TopNav).        *)
(*                                                                         *)
(* A token is named by the account it was issued to.  The server may find  *)
(* any token expired, so every request that was not retried may be         *)
(* answered with 401.  A refresh is named by the request that started it.  *)
(***************************************************************************)
EXTENDS Naturals, Web

CONSTANTS
  Tabs,       \* browser tabs: each has its own JavaScript memory
  Requests,   \* numbers of the API requests that can be under way at a time
  Accounts,   \* accounts a user may log in with
  Portals,    \* the portals they may choose, each named by the role it is for
  RoleOf      \* the role of each account

ASSUME WebSessionAssumption == /\ Requests \subseteq Nat
                               /\ Portals \subseteq {"admin", "staff", "customer"}
                               /\ RoleOf \in [Accounts -> Portals]
                               /\ None \notin Accounts /\ None \notin Portals
                               /\ None \notin Requests /\ None \notin Tabs

VARIABLES
  session,        \* localStorage, shared by the tabs: whose values its four keys hold
  at,             \* the page of each tab: a portal or the login page
  loginForm,      \* the login form of each tab: what it waits for
  request,        \* the requests: whose token they carry, and for whom they were first sent
  refreshPromise, \* per tab, the shared refresh of httpClient.js
  refreshing,     \* per refresh under way, the account whose refresh token it presented
  mixed           \* history: somebody logged in or out while requests were under way,
                  \* and ever since some request was

webVars == <<session, at, loginForm, request, refreshPromise, refreshing, mixed>>

Holder == Accounts \cup {None}
Session == [access: Holder, refresh: Holder, role: Portals \cup {None}, name: Holder]
LoggedOut == [access |-> None, refresh |-> None, role |-> None, name |-> None]

\* The answer of login and refresh carries tokens and user; each key is written from it.
persistSession(a) == [access |-> a, refresh |-> a, role |-> RoleOf[a], name |-> a]
saveSession(a)    == [access |-> a, refresh |-> a, role |-> RoleOf[a], name |-> a]

Pages == Portals \cup {"login"}
LoginForm == [stage: {"idle", "register", "login"}, portal: Portals \cup {None}]
FreshForm == [stage |-> "idle", portal |-> None]

Request == [status: {"done", "sent", "waiting"}, tab: Tabs \cup {None}, as: Holder, for: Holder,
            retried: BOOLEAN, on: Requests \cup {None}]
Done == [status |-> "done", tab |-> None, as |-> None, for |-> None, retried |-> FALSE, on |-> None]

WebTypeOK == /\ session \in Session
             /\ at \in [Tabs -> Pages]
             /\ loginForm \in [Tabs -> LoginForm]
             /\ request \in [Requests -> Request]
             /\ refreshPromise \in [Tabs -> Requests \cup {None}]
             /\ refreshing \in [Requests -> Holder]
             /\ mixed \in BOOLEAN

Pending(r) == request[r].status # "done"
SomethingPending == \E r \in Requests : Pending(r)

Mix   == mixed' = SomethingPending
Unmix == mixed' = (mixed /\ SomethingPending')

\* ProtectedRoute: the schedule of customers is public, the other portals need their role.
isAuthenticated == session.access # None
roleHome == IF session.role = None THEN "login" ELSE session.role
Guarded(page) == IF page \in {"login", "customer"} THEN page
                 ELSE IF ~isAuthenticated THEN "login"
                 ELSE IF session.role = page THEN page
                 ELSE roleHome

WebInit == /\ session = LoggedOut
           /\ at = [t \in Tabs |-> "login"]
           /\ loginForm = [t \in Tabs |-> FreshForm]
           /\ request = [r \in Requests |-> Done]
           /\ refreshPromise = [t \in Tabs |-> None]
           /\ refreshing = [r \in Requests |-> None]
           /\ mixed = FALSE

-----------------------------------------------------------------------------
(* Pages.  *)

\* A link or navigate(): the page changes, what is under way goes on.
Visit(t, page) == /\ Guarded(page) # at[t]
                  /\ at' = [at EXCEPT ![t] = Guarded(page)]
                  /\ UNCHANGED <<session, loginForm, request, refreshPromise, refreshing, mixed>>

\* The document of a tab is unloaded: its requests, its refresh and its form are gone.
Unloaded(t) == /\ request' = [r \in Requests |-> IF request[r].tab = t THEN Done ELSE request[r]]
               /\ refreshing' = [r \in Requests |-> IF request[r].tab = t THEN None ELSE refreshing[r]]
               /\ refreshPromise' = [refreshPromise EXCEPT ![t] = None]
               /\ loginForm' = [loginForm EXCEPT ![t] = FreshForm]

\* The user reloads the page (or types an address, and then visits it).
Reload(t) == /\ Unloaded(t)
             /\ at' = [at EXCEPT ![t] = Guarded(@)]
             /\ Unmix
             /\ UNCHANGED session

\* The button of the login page, disabled while loading; bound: one tab logs in at a time.
Submit(t, portal, stage) ==
  /\ at[t] = "login" /\ \A u \in Tabs : loginForm[u].stage = "idle"
  /\ stage = "register" => portal = "customer"
  /\ loginForm' = [loginForm EXCEPT ![t] = [stage |-> stage, portal |-> portal]]
  /\ UNCHANGED <<session, at, request, refreshPromise, refreshing, mixed>>

\* The account is registered; the form logs in with it.
Registered(t) == /\ loginForm[t].stage = "register"
                 /\ loginForm' = [loginForm EXCEPT ![t].stage = "login"]
                 /\ UNCHANGED <<session, at, request, refreshPromise, refreshing, mixed>>

\* The login succeeds and the account has the role of the portal (which account was typed is
\* first told here).
LoggedIn(t, a) == /\ loginForm[t].stage = "login"
                  /\ RoleOf[a] = loginForm[t].portal
                  /\ session' = saveSession(a)
                  /\ at' = [at EXCEPT ![t] = loginForm[t].portal]
                  /\ loginForm' = [loginForm EXCEPT ![t] = FreshForm]
                  /\ Mix
                  /\ UNCHANGED <<request, refreshPromise, refreshing>>

\* A registration or login is refused, fails, or is of another role: a message, nothing stored.
SubmitFails(t) == /\ loginForm[t].stage # "idle"
                  /\ loginForm' = [loginForm EXCEPT ![t] = FreshForm]
                  /\ UNCHANGED <<session, at, request, refreshPromise, refreshing, mixed>>

\* Wrong: the refresh token is left in localStorage.
LogoutKeepingRefresh(t) == /\ at[t] # "login" /\ isAuthenticated
                           /\ session' = [LoggedOut EXCEPT !.refresh = session.refresh]
                           /\ at' = [at EXCEPT ![t] = "login"]
                           /\ Mix
                           /\ UNCHANGED <<loginForm, request, refreshPromise, refreshing>>

\* logout of TopNav: the keys are removed and the login page is shown without a reload.
Logout(t) == /\ at[t] # "login" /\ isAuthenticated
             /\ session' = LoggedOut
             /\ at' = [at EXCEPT ![t] = "login"]
             /\ Mix
             /\ UNCHANGED <<loginForm, request, refreshPromise, refreshing>>

-----------------------------------------------------------------------------
(* Requests and the refresh.  *)

\* A page sends a request; the request interceptor adds the stored token.
Send(t, r) == /\ at[t] # "login" /\ FirstOf(r, {q \in Requests : ~Pending(q)})
              /\ request' = [request EXCEPT ![r] =
                   [status |-> "sent", tab |-> t, as |-> session.access, for |-> session.access,
                    retried |-> FALSE, on |-> None]]
              /\ UNCHANGED <<session, at, loginForm, refreshPromise, refreshing, mixed>>

\* Any answer but a first 401, also none within the timeout: the caller gets it.
Answered(r) == /\ request[r].status = "sent"
               /\ request' = [request EXCEPT ![r] = Done]
               /\ Unmix
               /\ UNCHANGED <<session, at, loginForm, refreshPromise, refreshing>>

FirstUnauthorized(r) == request[r].status = "sent" /\ ~request[r].retried

\* A 401 joins the refresh of its tab ...
Waits(r, on) == request' = [request EXCEPT ![r].status = "waiting", ![r].retried = TRUE, ![r].on = on]

JoinRefresh(r) == /\ FirstUnauthorized(r)
                  /\ refreshPromise[request[r].tab] # None
                  /\ Waits(r, refreshPromise[request[r].tab])
                  /\ UNCHANGED <<session, at, loginForm, refreshPromise, refreshing, mixed>>

\* ... or starts one with the stored refresh token.
StartRefresh(r) == /\ FirstUnauthorized(r)
                   /\ refreshPromise[request[r].tab] = None
                   /\ session.refresh # None
                   /\ Waits(r, r)
                   /\ refreshPromise' = [refreshPromise EXCEPT ![request[r].tab] = r]
                   /\ refreshing' = [refreshing EXCEPT ![r] = session.refresh]
                   /\ UNCHANGED <<session, at, loginForm, mixed>>

\* redirectToLogin in tab t, for the requests rs: storage is cleared; off the login page the
\* document is left, on it only these requests are rejected.
redirectToLogin(t, rs) ==
  /\ session' = LoggedOut
  /\ at' = [at EXCEPT ![t] = "login"]
  /\ IF at[t] # "login"
     THEN Unloaded(t)
     ELSE /\ request' = [r \in Requests |-> IF r \in rs THEN Done ELSE request[r]]
          /\ refreshing' = [r \in Requests |-> IF r \in rs THEN None ELSE refreshing[r]]
          /\ refreshPromise' = [refreshPromise EXCEPT ![t] = None]
          /\ UNCHANGED loginForm
  /\ Unmix

\* A 401 with no refresh token stored.
NothingToRefresh(r) == /\ FirstUnauthorized(r)
                       /\ refreshPromise[request[r].tab] = None
                       /\ session.refresh = None
                       /\ redirectToLogin(request[r].tab, {r})

WaitingOn(r) == {w \in Requests : request[w].status = "waiting" /\ request[w].on = r}

\* Wrong: the promise of the refresh that has ended is kept.
RefreshedKeepingPromise(r) ==
  /\ refreshing[r] # None
  /\ session' = persistSession(refreshing[r])
  /\ refreshing' = [refreshing EXCEPT ![r] = None]
  /\ request' = [w \in Requests |-> IF w \in WaitingOn(r)
                   THEN [request[w] EXCEPT !.status = "sent", !.as = refreshing[r], !.on = None]
                   ELSE request[w]]
  /\ UNCHANGED <<at, loginForm, refreshPromise, mixed>>

\* The refresh succeeds: its answer is stored, the promise is dropped, and every
\* request that waits is sent again with the token now stored.
Refreshed(r) ==
  /\ refreshing[r] # None
  /\ session' = persistSession(refreshing[r])
  /\ refreshPromise' = [refreshPromise EXCEPT ![request[r].tab] = None]
  /\ refreshing' = [refreshing EXCEPT ![r] = None]
  /\ request' = [w \in Requests |-> IF w \in WaitingOn(r)
                   THEN [request[w] EXCEPT !.status = "sent", !.as = refreshing[r], !.on = None]
                   ELSE request[w]]
  /\ UNCHANGED <<at, loginForm, mixed>>

\* The refresh fails, or is not answered in time.
RefreshFails(r) == /\ refreshing[r] # None
                   /\ redirectToLogin(request[r].tab, WaitingOn(r))

Settle(r) == \/ Answered(r) \/ JoinRefresh(r) \/ StartRefresh(r) \/ NothingToRefresh(r)
             \/ Refreshed(r) \/ RefreshFails(r)

WebNext == \/ \E t \in Tabs, page \in Pages : Visit(t, page)
           \/ \E t \in Tabs, portal \in Portals, stage \in {"register", "login"} : Submit(t, portal, stage)
           \/ \E t \in Tabs, a \in Accounts : LoggedIn(t, a)
           \/ \E t \in Tabs : Reload(t) \/ Registered(t) \/ SubmitFails(t) \/ Logout(t)
           \/ \E t \in Tabs, r \in Requests : Send(t, r)
           \/ \E r \in Requests : Settle(r)

WebSpec == WebInit /\ [][WebNext]_webVars

-----------------------------------------------------------------------------
(* Properties.  *)

\* No request waits for nothing: a request that met a 401 waits for a refresh that is
\* under way in its own tab, the one that refreshPromise names, and a tab never has
\* a second refresh under way (the finally that drops the shared promise, and retries
\* of several requests at once).
WaitersAreAnswered ==
  /\ \A r \in Requests : request[r].status = "waiting" =>
       /\ refreshing[request[r].on] # None
       /\ refreshPromise[request[r].tab] = request[r].on
  /\ \A r \in Requests : refreshing[r] # None => refreshPromise[request[r].tab] = r
  /\ \A t \in Tabs : refreshPromise[t] # None =>
       refreshing[refreshPromise[t]] # None /\ request[refreshPromise[t]].tab = t

\* Requests stay with the account that asked, and the keys of the session with one account,
\* unless somebody logs in or out while requests are under way, and until those and the ones
\* sent beside them have settled: otherwise every request carries, and every refresh presents,
\* the account the request was sent for, and what is stored is that account's or nothing.
AccountsMixOnlyByOvertaking ==
  /\ session = LoggedOut \/ \E a \in Accounts : session = saveSession(a)
  /\ ~mixed => \A r \in Requests :
       /\ Pending(r) /\ request[r].for # None =>
            request[r].as = request[r].for /\ session.access \in {None, request[r].for}
       /\ \A w \in Requests : refreshing[r] # None /\ Pending(w) /\ request[w].for # None =>
            refreshing[r] = request[w].for
=============================================================================
