--------------------------- MODULE FrontDeskProofs --------------------------
(***************************************************************************)
(* The session of the browser, the pages that show the booking desk and the *)
(* dialog over them, for any number of tabs, requests, accounts, days, slots, *)
(* bookings, submissions, loads and boards.                                *)
(***************************************************************************)
EXTENDS WebSession, DeskPages, BookingDialog, DataLemmas

-----------------------------------------------------------------------------
(* The session. No request waits for a refresh that is not under way, and  *)
(* requests carry another account than the one they were sent for only after *)
(* somebody has logged in or out beside them.                              *)

\* What is under way belongs to a tab, and a refresh to a request that waits for it.
Tabbed == \A r \in Requests : Pending(r) => request[r].tab \in Tabs
WaitsOnRequest == \A r \in Requests : request[r].status = "waiting" => request[r].on \in Requests
StarterWaits == \A r \in Requests :
                  refreshing[r] # None => request[r].status = "waiting" /\ request[r].on = r
SessionShape == WebTypeOK /\ Tabbed /\ WaitsOnRequest /\ StarterWaits

\* Storage holds one account or none.
SessionIsOne == session = LoggedOut \/ \E a \in Accounts : session = saveSession(a)

\* All that is stored, carried and presented is of account a, or nothing.
AllOf(a) == /\ session.access \in {None, a} /\ session.refresh \in {None, a}
            /\ \A r \in Requests :
                 /\ Pending(r) => /\ request[r].for \in {None, a} /\ request[r].as \in {None, a}
                                  /\ request[r].for # None => request[r].as = request[r].for
                 /\ refreshing[r] \in {None, a}
NothingPending == \A r \in Requests : ~Pending(r)
OneAccount == ~mixed => \E a \in Holder : AllOf(a)

SessionIInv == SessionShape /\ WaitersAreAnswered /\ SessionIsOne /\ OneAccount

-----------------------------------------------------------------------------
(* Types and shape.                                                        *)

\* A page that is asked for leads to a page there is.
LEMMA GuardedIsPage ==
  ASSUME WebTypeOK, NEW page \in Pages
  PROVE  Guarded(page) \in Pages
BY DEF WebTypeOK, Session, Guarded, roleHome, isAuthenticated, Pages

\* What is stored after a login or a refresh is a session.
LEMMA SavedIsSession ==
  ASSUME NEW a \in Accounts
  PROVE  saveSession(a) \in Session /\ persistSession(a) = saveSession(a)
BY WebSessionAssumption DEF saveSession, persistSession, Session, Holder

\* A request that is done waits for nothing.
LEMMA DoneIsRequest == Done \in Request /\ LoggedOut \in Session /\ FreshForm \in LoginForm
BY DEF Done, Request, LoggedOut, Session, Holder, FreshForm, LoginForm

\* Unloading the document of a tab, and reloading it.
LEMMA UnloadedShape ==
  ASSUME SessionShape, NEW t \in Tabs, Unloaded(t)
  PROVE  /\ request' \in [Requests -> Request] /\ loginForm' \in [Tabs -> LoginForm]
         /\ refreshPromise' \in [Tabs -> Requests \cup {None}] /\ refreshing' \in [Requests -> Holder]
         /\ Tabbed' /\ WaitsOnRequest' /\ StarterWaits'
<1>1. /\ request' \in [Requests -> Request] /\ loginForm' \in [Tabs -> LoginForm]
      /\ refreshPromise' \in [Tabs -> Requests \cup {None}] /\ refreshing' \in [Requests -> Holder]
  BY DoneIsRequest DEF SessionShape, WebTypeOK, Unloaded, Holder
<1>2. \A r \in Requests : /\ request[r].tab = t => request'[r] = Done /\ refreshing'[r] = None
                          /\ request[r].tab # t => request'[r] = request[r] /\ refreshing'[r] = refreshing[r]
  BY DEF SessionShape, WebTypeOK, Unloaded
<1>3. Tabbed' /\ WaitsOnRequest' /\ StarterWaits'
  BY <1>2 DEF SessionShape, Tabbed, WaitsOnRequest, StarterWaits, Pending, Done
<1> QED BY <1>1, <1>3

\* The end of a refresh that failed, or that could not start.
LEMMA RedirectShape ==
  ASSUME SessionShape, NEW t \in Tabs, NEW rs \in SUBSET Requests, redirectToLogin(t, rs)
  PROVE  SessionShape'
<1>1. session' \in Session /\ at' \in [Tabs -> Pages] /\ mixed' \in BOOLEAN
  BY DoneIsRequest DEF redirectToLogin, SessionShape, WebTypeOK, Pages, Unmix, SomethingPending
<1>2. CASE at[t] # "login"
  BY <1>1, <1>2, UnloadedShape DEF redirectToLogin, SessionShape, WebTypeOK
<1>3. CASE at[t] = "login"
  <2>1. /\ request' \in [Requests -> Request] /\ loginForm' \in [Tabs -> LoginForm]
        /\ refreshPromise' \in [Tabs -> Requests \cup {None}] /\ refreshing' \in [Requests -> Holder]
    BY <1>3, DoneIsRequest DEF redirectToLogin, SessionShape, WebTypeOK, Holder
  <2>2. \A r \in Requests : /\ r \in rs => request'[r] = Done /\ refreshing'[r] = None
                            /\ r \notin rs => request'[r] = request[r] /\ refreshing'[r] = refreshing[r]
    BY <1>3 DEF redirectToLogin, SessionShape, WebTypeOK
  <2>3. Tabbed' /\ WaitsOnRequest' /\ StarterWaits'
    BY <2>2 DEF SessionShape, Tabbed, WaitsOnRequest, StarterWaits, Pending, Done
  <2> QED BY <1>1, <2>1, <2>3 DEF SessionShape, WebTypeOK
<1> QED BY <1>2, <1>3

\* Requests and refreshes are left alone while pages, forms and storage change.
LEMMA RequestsKeepShape ==
  ASSUME SessionShape, UNCHANGED <<request, refreshPromise, refreshing>>,
         session' \in Session, at' \in [Tabs -> Pages], loginForm' \in [Tabs -> LoginForm],
         mixed' \in BOOLEAN
  PROVE  SessionShape'
BY DEF SessionShape, WebTypeOK, Tabbed, WaitsOnRequest, StarterWaits, Pending

LEMMA InitShape == WebInit => SessionShape
<1> SUFFICES ASSUME WebInit PROVE SessionShape
  OBVIOUS
<1>1. WebTypeOK
  BY DoneIsRequest DEF WebInit, WebTypeOK, Pages, Holder
<1>2. Tabbed /\ WaitsOnRequest /\ StarterWaits
  BY DEF WebInit, Tabbed, WaitsOnRequest, StarterWaits, Pending, Done
<1> QED BY <1>1, <1>2 DEF SessionShape

LEMMA NextShape ==
  ASSUME SessionShape, [WebNext]_webVars
  PROVE  SessionShape'
<1> USE DEF SessionShape
<1>1. ASSUME NEW t \in Tabs, NEW page \in Pages, Visit(t, page) PROVE SessionShape'
  BY <1>1, GuardedIsPage, RequestsKeepShape DEF Visit, WebTypeOK
<1>2. ASSUME NEW t \in Tabs, NEW portal \in Portals, NEW stage \in {"register", "login"},
             Submit(t, portal, stage)
      PROVE  SessionShape'
  BY <1>2, RequestsKeepShape DEF Submit, WebTypeOK, LoginForm
<1>3. ASSUME NEW t \in Tabs, NEW a \in Accounts, LoggedIn(t, a) PROVE SessionShape'
  <2>1. loginForm[t].portal \in Pages
    BY <1>3, WebSessionAssumption DEF LoggedIn, Pages
  <2> QED
    BY <1>3, <2>1, SavedIsSession, DoneIsRequest, RequestsKeepShape
       DEF LoggedIn, WebTypeOK, Mix, SomethingPending
<1>4. ASSUME NEW t \in Tabs, Reload(t) PROVE SessionShape'
  <2>1. at' \in [Tabs -> Pages]
    BY <1>4, GuardedIsPage DEF Reload, WebTypeOK
  <2> QED
    BY <1>4, <2>1, UnloadedShape DEF Reload, WebTypeOK, Unmix, SomethingPending
<1>5. ASSUME NEW t \in Tabs, Registered(t) PROVE SessionShape'
  BY <1>5, RequestsKeepShape DEF Registered, WebTypeOK, LoginForm
<1>6. ASSUME NEW t \in Tabs, SubmitFails(t) PROVE SessionShape'
  BY <1>6, DoneIsRequest, RequestsKeepShape DEF SubmitFails, WebTypeOK
<1>7. ASSUME NEW t \in Tabs, Logout(t) PROVE SessionShape'
  BY <1>7, DoneIsRequest, RequestsKeepShape DEF Logout, WebTypeOK, Mix, SomethingPending, Pages
<1>8. ASSUME NEW t \in Tabs, NEW r \in Requests, Send(t, r) PROVE SessionShape'
  <2>1. request'[r] \in Request /\ request'[r].tab = t /\ request'[r].status = "sent"
    BY <1>8 DEF Send, WebTypeOK, Request, Session, Holder
  <2>2. refreshing[r] = None
    BY <1>8 DEF Send, FirstOf, StarterWaits, Pending
  <2>3. \A q \in Requests : q # r => request'[q] = request[q]
    BY <1>8 DEF Send, WebTypeOK
  <2>4. WebTypeOK'
    BY <1>8, <2>1, <2>3 DEF Send, WebTypeOK
  <2> QED
    BY <1>8, <2>1, <2>2, <2>3, <2>4 DEF Send, Tabbed, WaitsOnRequest, StarterWaits, Pending
<1>9. ASSUME NEW r \in Requests, Answered(r) PROVE SessionShape'
  <2>1. request'[r] = Done /\ refreshing[r] = None
    BY <1>9 DEF Answered, WebTypeOK, StarterWaits
  <2>2. \A q \in Requests : q # r => request'[q] = request[q]
    BY <1>9 DEF Answered, WebTypeOK
  <2>3. WebTypeOK'
    BY <1>9, DoneIsRequest DEF Answered, WebTypeOK, Unmix, SomethingPending
  <2> QED
    BY <1>9, <2>1, <2>2, <2>3 DEF Answered, Tabbed, WaitsOnRequest, StarterWaits, Pending, Done
<1>10. ASSUME NEW r \in Requests, NEW on \in Requests, FirstUnauthorized(r), Waits(r, on)
       PROVE  /\ request' \in [Requests -> Request] /\ Tabbed' /\ WaitsOnRequest'
              /\ request'[r].status = "waiting" /\ request'[r].on = on
              /\ \A q \in Requests : q # r => request'[q] = request[q]
              /\ refreshing[r] = None
  <2>1. request[r] \in Request /\ request[r].status = "sent"
    BY <1>10 DEF FirstUnauthorized, WebTypeOK
  <2>2. request'[r] = [request[r] EXCEPT !.status = "waiting", !.retried = TRUE, !.on = on]
    BY <1>10 DEF Waits, WebTypeOK
  <2>3. /\ request'[r] \in Request /\ request'[r].status = "waiting" /\ request'[r].on = on
        /\ request'[r].tab = request[r].tab
    BY <2>1, <2>2 DEF Request
  <2>4. \A q \in Requests : q # r => request'[q] = request[q]
    BY <1>10 DEF Waits, WebTypeOK
  <2>5. request' \in [Requests -> Request]
    BY <1>10, <2>3, <2>4 DEF Waits, WebTypeOK
  <2> QED
    BY <2>1, <2>3, <2>4, <2>5 DEF Tabbed, WaitsOnRequest, StarterWaits, Pending
<1>11. ASSUME NEW r \in Requests, JoinRefresh(r) PROVE SessionShape'
  <2>1. refreshPromise[request[r].tab] \in Requests
    BY <1>11 DEF JoinRefresh, FirstUnauthorized, Tabbed, Pending, WebTypeOK
  <2> QED
    BY <1>10, <1>11, <2>1 DEF JoinRefresh, WebTypeOK, StarterWaits
<1>12. ASSUME NEW r \in Requests, StartRefresh(r) PROVE SessionShape'
  <2>1. request[r].tab \in Tabs
    BY <1>12 DEF StartRefresh, FirstUnauthorized, Tabbed, Pending
  <2>2. /\ refreshing' \in [Requests -> Holder]
        /\ refreshPromise' \in [Tabs -> Requests \cup {None}]
    BY <1>12, <2>1 DEF StartRefresh, WebTypeOK, Session
  <2> QED
    BY <1>10, <1>12, <2>2 DEF StartRefresh, WebTypeOK, StarterWaits
<1>13. ASSUME NEW r \in Requests, NothingToRefresh(r) PROVE SessionShape'
  <2>1. request[r].tab \in Tabs
    BY <1>13 DEF NothingToRefresh, FirstUnauthorized, Tabbed, Pending
  <2> QED
    BY <1>13, <2>1, RedirectShape DEF NothingToRefresh
<1>14. ASSUME NEW r \in Requests, Refreshed(r) PROVE SessionShape'
  <2>1. refreshing[r] \in Accounts
    BY <1>14 DEF Refreshed, WebTypeOK, Holder
  <2>2. \A w \in Requests : /\ w \in WaitingOn(r) =>
                                 request'[w] = [request[w] EXCEPT !.status = "sent", !.as = refreshing[r], !.on = None]
                            /\ w \notin WaitingOn(r) => request'[w] = request[w]
    BY <1>14 DEF Refreshed, WebTypeOK
  <2>3. \A w \in Requests : w \in WaitingOn(r) =>
           /\ request'[w] \in Request /\ request'[w].status = "sent" /\ request'[w].tab = request[w].tab
    <3> SUFFICES ASSUME NEW w \in Requests, w \in WaitingOn(r)
                 PROVE  /\ request'[w] \in Request /\ request'[w].status = "sent"
                        /\ request'[w].tab = request[w].tab
      OBVIOUS
    <3>1. request[w] \in Request /\ refreshing[r] \in Holder
      BY <2>1 DEF WebTypeOK, Holder
    <3>2. request'[w] = [request[w] EXCEPT !.status = "sent", !.as = refreshing[r], !.on = None]
      BY <2>2
    <3> HIDE DEF SessionShape
    <3> QED BY <3>1, <3>2 DEF Request
  <2>4. request' \in [Requests -> Request]
    BY <1>14, <2>2, <2>3 DEF Refreshed, WebTypeOK
  <2>5. WebTypeOK'
    BY <1>14, <2>1, <2>4, SavedIsSession DEF Refreshed, WebTypeOK, Holder
  <2>6. Tabbed' /\ WaitsOnRequest'
    BY <2>2, <2>3 DEF Tabbed, WaitsOnRequest, Pending, WaitingOn
  <2>7. StarterWaits'
    <3> SUFFICES ASSUME NEW w \in Requests, refreshing'[w] # None
                 PROVE  request'[w].status = "waiting" /\ request'[w].on = w
      BY DEF StarterWaits
    <3>1. w # r /\ refreshing'[w] = refreshing[w]
      BY <1>14 DEF Refreshed, WebTypeOK
    <3>2. request[w].status = "waiting" /\ request[w].on = w
      BY <3>1 DEF StarterWaits
    <3>3. request'[w] = request[w]
      BY <2>2, <3>1, <3>2 DEF WaitingOn
    <3> QED BY <3>2, <3>3
  <2> QED BY <2>5, <2>6, <2>7
<1>15. ASSUME NEW r \in Requests, RefreshFails(r) PROVE SessionShape'
  <2>1. request[r].tab \in Tabs /\ WaitingOn(r) \in SUBSET Requests
    BY <1>15 DEF RefreshFails, StarterWaits, Tabbed, Pending, WaitingOn
  <2> QED
    BY <1>15, <2>1, RedirectShape DEF RefreshFails
<1>16. CASE UNCHANGED webVars
  BY <1>16, RequestsKeepShape DEF webVars, WebTypeOK
<1> QED
  BY <1>1, <1>2, <1>3, <1>4, <1>5, <1>6, <1>7, <1>8, <1>9, <1>11, <1>12, <1>13, <1>14, <1>15, <1>16
     DEF WebNext, Settle

-----------------------------------------------------------------------------
(* Nobody waits for nothing.                                               *)

\* The requests, refreshes and promise of tab t go, those of the other tabs stay.
LEMMA TabCleared ==
  ASSUME SessionShape, WaitersAreAnswered, NEW t \in Tabs, NEW rs \in SUBSET Requests,
         \A w \in rs : request[w].tab = t,
         \A w \in Requests : request[w].status = "waiting" /\ request[w].tab = t => w \in rs,
         refreshPromise' = [refreshPromise EXCEPT ![t] = None],
         request' = [r \in Requests |-> IF r \in rs THEN Done ELSE request[r]],
         refreshing' = [r \in Requests |-> IF r \in rs THEN None ELSE refreshing[r]]
  PROVE  WaitersAreAnswered'
<1> USE DEF SessionShape
<1>1. \A r \in Requests : refreshing[r] # None => request[r].tab \in Tabs
  BY DEF StarterWaits, Tabbed, Pending
<1>2. ASSUME NEW r \in Requests, request'[r].status = "waiting"
      PROVE  /\ refreshing'[request'[r].on] # None
             /\ refreshPromise'[request'[r].tab] = request'[r].on
  <2>1. r \notin rs /\ request'[r] = request[r]
    BY <1>2 DEF Done
  <2>2. request[r].tab \in Tabs \ {t}
    BY <1>2, <2>1 DEF Tabbed, Pending
  <2>3. /\ request[r].on \in Requests /\ refreshing[request[r].on] # None
        /\ refreshPromise[request[r].tab] = request[r].on
    BY <1>2, <2>1 DEF WaitersAreAnswered, WaitsOnRequest
  <2>4. request[request[r].on].tab = request[r].tab
    BY <2>2, <2>3, WebSessionAssumption DEF WaitersAreAnswered, WebTypeOK
  <2> QED BY <2>1, <2>2, <2>3, <2>4 DEF WebTypeOK
<1>3. ASSUME NEW r \in Requests, refreshing'[r] # None
      PROVE  refreshPromise'[request'[r].tab] = r
  <2>1. r \notin rs /\ refreshing[r] # None /\ request'[r] = request[r]
    BY <1>3
  <2>2. request[r].tab \in Tabs \ {t}
    BY <1>1, <2>1 DEF StarterWaits
  <2> QED BY <2>1, <2>2 DEF WaitersAreAnswered, WebTypeOK
<1>4. ASSUME NEW u \in Tabs, refreshPromise'[u] # None
      PROVE  refreshing'[refreshPromise'[u]] # None /\ request'[refreshPromise'[u]].tab = u
  <2>1. u # t /\ refreshPromise'[u] = refreshPromise[u] /\ refreshPromise[u] \in Requests
    BY <1>4 DEF WebTypeOK
  <2>2. refreshing[refreshPromise[u]] # None /\ request[refreshPromise[u]].tab = u
    BY <1>4, <2>1 DEF WaitersAreAnswered
  <2> QED BY <2>1, <2>2
<1> QED BY <1>2, <1>3, <1>4 DEF WaitersAreAnswered

LEMMA UnloadedAnswered ==
  ASSUME SessionShape, WaitersAreAnswered, NEW t \in Tabs, Unloaded(t)
  PROVE  WaitersAreAnswered'
<1> DEFINE rs == {r \in Requests : request[r].tab = t}
<1>1. /\ request' = [r \in Requests |-> IF r \in rs THEN Done ELSE request[r]]
      /\ refreshing' = [r \in Requests |-> IF r \in rs THEN None ELSE refreshing[r]]
  BY DEF Unloaded, SessionShape, WebTypeOK
<1> QED BY <1>1, TabCleared DEF Unloaded

LEMMA RedirectAnswered ==
  ASSUME SessionShape, WaitersAreAnswered, NEW t \in Tabs, NEW rs \in SUBSET Requests,
         \A w \in rs : request[w].tab = t,
         \A w \in Requests : request[w].status = "waiting" /\ request[w].tab = t => w \in rs,
         redirectToLogin(t, rs)
  PROVE  WaitersAreAnswered'
<1>1. CASE at[t] # "login"
  BY <1>1, UnloadedAnswered DEF redirectToLogin
<1>2. CASE at[t] = "login"
  BY <1>2, TabCleared DEF redirectToLogin
<1> QED BY <1>1, <1>2

LEMMA NextAnswered ==
  ASSUME SessionShape, WaitersAreAnswered, [WebNext]_webVars
  PROVE  WaitersAreAnswered'
<1> USE DEF SessionShape
<1>1. CASE UNCHANGED <<request, refreshPromise, refreshing>>
  BY <1>1 DEF WaitersAreAnswered
<1>2. ASSUME NEW t \in Tabs, Reload(t) PROVE WaitersAreAnswered'
  BY <1>2, UnloadedAnswered DEF Reload
<1>3. ASSUME NEW t \in Tabs, NEW r \in Requests, Send(t, r) PROVE WaitersAreAnswered'
  <2>1. request'[r].status = "sent" /\ refreshing[r] = None
    BY <1>3 DEF Send, FirstOf, StarterWaits, Pending, WebTypeOK
  <2>2. \A q \in Requests : q # r => request'[q] = request[q]
    BY <1>3 DEF Send, WebTypeOK
  <2> QED
    BY <1>3, <2>1, <2>2 DEF Send, WaitersAreAnswered, WebTypeOK, WaitsOnRequest
<1>4. ASSUME NEW r \in Requests, Answered(r) PROVE WaitersAreAnswered'
  <2>1. request'[r].status = "done" /\ refreshing[r] = None
    BY <1>4 DEF Answered, StarterWaits, Done, WebTypeOK
  <2>2. \A q \in Requests : q # r => request'[q] = request[q]
    BY <1>4 DEF Answered, WebTypeOK
  <2> QED
    BY <1>4, <2>1, <2>2 DEF Answered, WaitersAreAnswered, WebTypeOK, WaitsOnRequest
<1>5. ASSUME NEW r \in Requests, NEW on \in Requests, FirstUnauthorized(r), Waits(r, on)
      PROVE  /\ request'[r].status = "waiting" /\ request'[r].on = on
             /\ request'[r].tab = request[r].tab /\ request[r].tab \in Tabs
             /\ \A q \in Requests : q # r => request'[q] = request[q]
             /\ refreshing[r] = None
  <2>1. request[r] \in Request /\ request[r].status = "sent"
    BY <1>5 DEF FirstUnauthorized, WebTypeOK
  <2>2. request'[r] = [request[r] EXCEPT !.status = "waiting", !.retried = TRUE, !.on = on]
    BY <1>5 DEF Waits, WebTypeOK
  <2>3. \A q \in Requests : q # r => request'[q] = request[q]
    BY <1>5 DEF Waits, WebTypeOK
  <2>4. /\ request'[r].status = "waiting" /\ request'[r].on = on
        /\ request'[r].tab = request[r].tab
    BY <2>1, <2>2 DEF Request
  <2> QED BY <2>1, <2>3, <2>4 DEF Tabbed, StarterWaits, Pending
<1>6. ASSUME NEW r \in Requests, JoinRefresh(r) PROVE WaitersAreAnswered'
  <2> DEFINE on == refreshPromise[request[r].tab]
  <2>1. on \in Requests /\ refreshing[on] # None /\ request[on].tab = request[r].tab
    BY <1>6 DEF JoinRefresh, FirstUnauthorized, Tabbed, Pending, WebTypeOK, WaitersAreAnswered
  <2>2. /\ request'[r].status = "waiting" /\ request'[r].on = on
        /\ request'[r].tab = request[r].tab
        /\ \A q \in Requests : q # r => request'[q] = request[q]
        /\ refreshing[r] = None
    BY <1>5, <1>6, <2>1 DEF JoinRefresh
  <2> QED
    BY <1>6, <2>1, <2>2 DEF JoinRefresh, WaitersAreAnswered, WebTypeOK
<1>7. ASSUME NEW r \in Requests, StartRefresh(r) PROVE WaitersAreAnswered'
  <2> DEFINE t == request[r].tab
  <2>1. /\ request'[r].status = "waiting" /\ request'[r].on = r
        /\ request'[r].tab = t /\ t \in Tabs
        /\ \A q \in Requests : q # r => request'[q] = request[q]
    BY <1>5, <1>7 DEF StartRefresh
  <2>2. /\ refreshPromise[t] = None /\ refreshPromise'[t] = r
        /\ \A u \in Tabs : u # t => refreshPromise'[u] = refreshPromise[u]
        /\ refreshing'[r] # None
        /\ \A q \in Requests : q # r => refreshing'[q] = refreshing[q]
    BY <1>7, <2>1 DEF StartRefresh, WebTypeOK
  <2>3. \A q \in Requests : q # r /\ Pending(q) => request[q].tab \in Tabs
    BY DEF Tabbed
  <2>4. \A q \in Requests : request[q].status = "waiting" => request[q].tab # t /\ request[q].on # r
    <3>1. refreshing[r] = None
      BY <1>5, <1>7 DEF StartRefresh
    <3> QED BY <2>2, <3>1, WebSessionAssumption DEF WaitersAreAnswered, WaitsOnRequest
  <2>5. ASSUME NEW q \in Requests, request'[q].status = "waiting"
        PROVE  /\ refreshing'[request'[q].on] # None
               /\ refreshPromise'[request'[q].tab] = request'[q].on
    BY <2>1, <2>2, <2>3, <2>4, <2>5 DEF WaitersAreAnswered, WaitsOnRequest, Pending
  <2>6. ASSUME NEW q \in Requests, refreshing'[q] # None
        PROVE  refreshPromise'[request'[q].tab] = q
    BY <2>1, <2>2, <2>3, <2>4, <2>6 DEF WaitersAreAnswered, StarterWaits, Pending
  <2>7. ASSUME NEW u \in Tabs, refreshPromise'[u] # None
        PROVE  refreshing'[refreshPromise'[u]] # None /\ request'[refreshPromise'[u]].tab = u
    BY <2>1, <2>2, <2>7 DEF WaitersAreAnswered, WebTypeOK
  <2> QED BY <2>5, <2>6, <2>7 DEF WaitersAreAnswered
<1>8. ASSUME NEW r \in Requests, NothingToRefresh(r) PROVE WaitersAreAnswered'
  <2>1. request[r].tab \in Tabs
    BY <1>8 DEF NothingToRefresh, FirstUnauthorized, Tabbed, Pending
  <2>2. \A w \in Requests : request[w].status = "waiting" => request[w].tab # request[r].tab
    BY <1>8, WebSessionAssumption DEF NothingToRefresh, WaitersAreAnswered, WaitsOnRequest
  <2> QED
    BY <1>8, <2>1, <2>2, RedirectAnswered DEF NothingToRefresh
<1>9. ASSUME NEW r \in Requests, refreshing[r] # None
      PROVE  /\ request[r].tab \in Tabs /\ refreshPromise[request[r].tab] = r
             /\ \A w \in WaitingOn(r) : request[w].tab = request[r].tab
             /\ \A w \in Requests : request[w].status = "waiting" /\ request[w].tab = request[r].tab
                                      => w \in WaitingOn(r)
  BY <1>9, WebSessionAssumption DEF WaitersAreAnswered, StarterWaits, Tabbed, Pending, WaitingOn
<1>10. ASSUME NEW r \in Requests, RefreshFails(r) PROVE WaitersAreAnswered'
  <2>1. WaitingOn(r) \in SUBSET Requests
    BY DEF WaitingOn
  <2> QED
    BY <1>9, <1>10, <2>1, RedirectAnswered DEF RefreshFails
<1>11. ASSUME NEW r \in Requests, Refreshed(r) PROVE WaitersAreAnswered'
  <2> DEFINE t == request[r].tab
  <2>1. /\ t \in Tabs /\ refreshPromise[t] = r /\ refreshPromise'[t] = None
        /\ \A u \in Tabs : u # t => refreshPromise'[u] = refreshPromise[u]
    BY <1>9, <1>11 DEF Refreshed, WebTypeOK
  <2>2. refreshing'[r] = None /\ \A q \in Requests : q # r => refreshing'[q] = refreshing[q]
    BY <1>11 DEF Refreshed, WebTypeOK
  <2>3. \A w \in Requests :
           /\ w \in WaitingOn(r) => request'[w].status = "sent" /\ request'[w].tab = request[w].tab
           /\ w \notin WaitingOn(r) => request'[w] = request[w]
    <3> SUFFICES ASSUME NEW w \in Requests
                 PROVE  /\ w \in WaitingOn(r) => request'[w].status = "sent" /\ request'[w].tab = request[w].tab
                        /\ w \notin WaitingOn(r) => request'[w] = request[w]
      OBVIOUS
    <3>1. request[w] \in Request
      BY DEF WebTypeOK
    <3>2. /\ w \in WaitingOn(r) =>
               request'[w] = [request[w] EXCEPT !.status = "sent", !.as = refreshing[r], !.on = None]
          /\ w \notin WaitingOn(r) => request'[w] = request[w]
      BY <1>11 DEF Refreshed
    <3> HIDE DEF SessionShape
    <3> QED BY <3>1, <3>2 DEF Request
  <2>4. ASSUME NEW q \in Requests, request'[q].status = "waiting"
        PROVE  /\ refreshing'[request'[q].on] # None
               /\ refreshPromise'[request'[q].tab] = request'[q].on
    <3>1. q \notin WaitingOn(r) /\ request'[q] = request[q]
      BY <2>3, <2>4
    <3>2. request[q].on \in Requests \ {r} /\ request[q].tab \in Tabs \ {t}
      BY <1>9, <1>11, <2>4, <3>1 DEF WaitingOn, WaitsOnRequest, Tabbed, Pending, Refreshed
    <3> QED BY <2>1, <2>2, <2>4, <3>1, <3>2 DEF WaitersAreAnswered
  <2>5. ASSUME NEW q \in Requests, refreshing'[q] # None
        PROVE  refreshPromise'[request'[q].tab] = q
    <3>1. q # r /\ refreshing[q] # None /\ request'[q].tab = request[q].tab
      BY <2>2, <2>3, <2>5
    <3>2. request[q].tab \in Tabs /\ refreshPromise[request[q].tab] = q
      BY <1>9, <3>1
    <3> QED BY <2>1, <3>1, <3>2
  <2>6. ASSUME NEW u \in Tabs, refreshPromise'[u] # None
        PROVE  refreshing'[refreshPromise'[u]] # None /\ request'[refreshPromise'[u]].tab = u
    <3>1. u # t /\ refreshPromise'[u] = refreshPromise[u] /\ refreshPromise[u] \in Requests
      BY <2>1, <2>6 DEF WebTypeOK
    <3>2. refreshing[refreshPromise[u]] # None /\ request[refreshPromise[u]].tab = u
      BY <2>6, <3>1 DEF WaitersAreAnswered
    <3>3. refreshPromise[u] # r
      BY <3>1, <3>2
    <3> QED BY <2>2, <2>3, <3>1, <3>2, <3>3
  <2> QED BY <2>4, <2>5, <2>6 DEF WaitersAreAnswered
<1> QED
  BY <1>1, <1>2, <1>3, <1>4, <1>6, <1>7, <1>8, <1>10, <1>11
     DEF WebNext, Settle, webVars, Visit, Submit, LoggedIn, Registered, SubmitFails, Logout

-----------------------------------------------------------------------------
(* Whose account requests carry.                                           *)

\* When nothing is under way, all is of the account that is stored, if any.
LEMMA SettledIsOne == SessionShape /\ SessionIsOne /\ NothingPending => \E a \in Holder : AllOf(a)
<1> SUFFICES ASSUME SessionShape, SessionIsOne, NothingPending PROVE \E a \in Holder : AllOf(a)
  OBVIOUS
<1>1. \A r \in Requests : ~Pending(r) /\ refreshing[r] = None
  BY DEF SessionShape, StarterWaits, Pending, NothingPending
<1>2. CASE session = LoggedOut
  BY <1>1, <1>2 DEF AllOf, LoggedOut, Holder
<1>3. ASSUME NEW a \in Accounts, session = saveSession(a)
      PROVE  \E b \in Holder : AllOf(b)
  <2>1. session.access = a /\ session.refresh = a
    BY <1>3 DEF saveSession
  <2> QED BY <1>1, <2>1 DEF AllOf, Holder
<1> QED BY <1>2, <1>3 DEF SessionIsOne

\* A step that ends requests, or leaves them alone, mixes nothing.
LEMMA EndingKeepsOne ==
  ASSUME OneAccount, Unmix, SessionShape', SessionIsOne',
         session' \in {session, LoggedOut},
         \A r \in Requests :
           /\ request'[r] = request[r] \/ request'[r] = Done
           /\ refreshing'[r] = refreshing[r] \/ refreshing'[r] = None
  PROVE  OneAccount'
<1> SUFFICES ASSUME ~mixed' PROVE \E a \in Holder : AllOf(a)'
  BY DEF OneAccount
<1>1. CASE ~mixed
  <2>1. PICK a \in Holder : AllOf(a)
    BY <1>1 DEF OneAccount
  <2>2. session'.access \in {None, a} /\ session'.refresh \in {None, a}
    BY <2>1 DEF AllOf, LoggedOut
  <2>3. \A r \in Requests : Pending(r)' => Pending(r) /\ request'[r] = request[r]
    BY DEF Pending, Done
  <2> QED BY <2>1, <2>2, <2>3 DEF AllOf
<1>2. CASE mixed
  <2>1. NothingPending'
    BY <1>2 DEF Unmix, SomethingPending, NothingPending
  <2>2. (\E a \in Holder : AllOf(a))'
    BY <2>1, SettledIsOne, PTL
  <2> QED BY <2>2
<1> QED BY <1>1, <1>2 DEF SessionShape, WebTypeOK

\* The document of a tab is unloaded.
LEMMA UnloadedEnds ==
  ASSUME SessionShape, NEW t, Unloaded(t)
  PROVE  \A r \in Requests : /\ request'[r] = request[r] \/ request'[r] = Done
                             /\ refreshing'[r] = refreshing[r] \/ refreshing'[r] = None
BY DEF Unloaded

LEMMA RedirectKeepsOne ==
  ASSUME SessionShape, SessionShape', OneAccount, NEW t, NEW rs, redirectToLogin(t, rs)
  PROVE  SessionIsOne' /\ OneAccount'
<1>1. \A r \in Requests : /\ request'[r] = request[r] \/ request'[r] = Done
                          /\ refreshing'[r] = refreshing[r] \/ refreshing'[r] = None
  BY UnloadedEnds DEF redirectToLogin
<1>2. session' = LoggedOut /\ SessionIsOne' /\ Unmix
  BY DEF redirectToLogin, SessionIsOne
<1> QED BY <1>1, <1>2, EndingKeepsOne

\* Requests, refreshes and storage are left alone.
LEMMA NothingMixed ==
  ASSUME SessionIsOne, OneAccount, UNCHANGED <<session, request, refreshing, mixed>>
  PROVE  SessionIsOne' /\ OneAccount'
BY DEF SessionIsOne, OneAccount, AllOf, Pending

LEMMA NextOneAccount ==
  ASSUME SessionShape, SessionShape', SessionIsOne, OneAccount, [WebNext]_webVars
  PROVE  SessionIsOne' /\ OneAccount'
<1>1. CASE UNCHANGED <<session, request, refreshing, mixed>>
  BY <1>1, NothingMixed
<1>2. ASSUME SessionIsOne', Mix, UNCHANGED <<request, refreshing>>
      PROVE  OneAccount'
  <2> SUFFICES ASSUME ~mixed' PROVE \E a \in Holder : AllOf(a)'
    BY DEF OneAccount
  <2>1. NothingPending'
    BY <1>2 DEF Mix, SomethingPending, Pending, NothingPending
  <2>2. (\E a \in Holder : AllOf(a))'
    BY <1>2, <2>1, SettledIsOne, PTL
  <2> QED BY <2>2
<1>3. ASSUME NEW t \in Tabs, NEW a \in Accounts, LoggedIn(t, a) PROVE SessionIsOne' /\ OneAccount'
  BY <1>2, <1>3 DEF LoggedIn, SessionIsOne
<1>4. ASSUME NEW t \in Tabs, Logout(t) PROVE SessionIsOne' /\ OneAccount'
  BY <1>2, <1>4 DEF Logout, SessionIsOne
<1>5. ASSUME NEW t \in Tabs, Reload(t) PROVE SessionIsOne' /\ OneAccount'
  <2>1. SessionIsOne' /\ Unmix /\ session' = session
    BY <1>5 DEF Reload, SessionIsOne
  <2> QED BY <1>5, <2>1, UnloadedEnds, EndingKeepsOne DEF Reload
<1>6. ASSUME NEW r \in Requests, Answered(r) PROVE SessionIsOne' /\ OneAccount'
  <2>1. SessionIsOne' /\ Unmix /\ session' = session
    BY <1>6 DEF Answered, SessionIsOne
  <2>2. \A q \in Requests : request'[q] = request[q] \/ request'[q] = Done
    BY <1>6 DEF Answered, SessionShape, WebTypeOK
  <2> QED BY <1>6, <2>1, <2>2, EndingKeepsOne DEF Answered
<1>7. ASSUME NEW t \in Tabs, NEW r \in Requests, Send(t, r) PROVE SessionIsOne' /\ OneAccount'
  <2>1. SessionIsOne' /\ UNCHANGED <<session, refreshing, mixed>>
    BY <1>7 DEF Send, SessionIsOne
  <2>2. /\ request'[r].for = session.access /\ request'[r].as = session.access
        /\ \A q \in Requests : q # r => request'[q] = request[q]
    BY <1>7 DEF Send, SessionShape, WebTypeOK
  <2>3. ASSUME NEW a \in Holder, AllOf(a) PROVE AllOf(a)'
    BY <2>1, <2>2, <2>3 DEF AllOf, Pending
  <2> QED BY <2>1, <2>3 DEF OneAccount
<1>8. ASSUME NEW r \in Requests, NEW on \in Requests, FirstUnauthorized(r), Waits(r, on)
      PROVE  \A q \in Requests : /\ request'[q].for = request[q].for /\ request'[q].as = request[q].as
                                 /\ Pending(q)' => Pending(q)
  <2>1. request[r] \in Request /\ request[r].status = "sent"
    BY <1>8 DEF FirstUnauthorized, SessionShape, WebTypeOK
  <2>2. request'[r] = [request[r] EXCEPT !.status = "waiting", !.retried = TRUE, !.on = on]
    BY <1>8 DEF Waits, SessionShape, WebTypeOK
  <2>3. request'[r].for = request[r].for /\ request'[r].as = request[r].as
    BY <2>1, <2>2 DEF Request
  <2>4. \A q \in Requests : q # r => request'[q] = request[q]
    BY <1>8 DEF Waits, SessionShape, WebTypeOK
  <2> QED BY <2>1, <2>3, <2>4 DEF Pending
<1>9. ASSUME NEW r \in Requests, JoinRefresh(r) PROVE SessionIsOne' /\ OneAccount'
  <2>1. SessionIsOne' /\ UNCHANGED <<session, refreshing, mixed>>
    BY <1>9 DEF JoinRefresh, SessionIsOne
  <2>2. refreshPromise[request[r].tab] \in Requests
    BY <1>9 DEF JoinRefresh, FirstUnauthorized, Tabbed, Pending, SessionShape, WebTypeOK
  <2>3. ASSUME NEW a \in Holder, AllOf(a) PROVE AllOf(a)'
    BY <1>8, <1>9, <2>1, <2>2, <2>3 DEF JoinRefresh, AllOf
  <2> QED BY <2>1, <2>3 DEF OneAccount
<1>10. ASSUME NEW r \in Requests, StartRefresh(r) PROVE SessionIsOne' /\ OneAccount'
  <2>1. SessionIsOne' /\ UNCHANGED <<session, mixed>>
    BY <1>10 DEF StartRefresh, SessionIsOne
  <2>2. \A q \in Requests : refreshing'[q] \in {refreshing[q], session.refresh}
    BY <1>10 DEF StartRefresh, SessionShape, WebTypeOK
  <2>3. ASSUME NEW a \in Holder, AllOf(a) PROVE AllOf(a)'
    BY <1>8, <1>10, <2>1, <2>2, <2>3 DEF StartRefresh, AllOf
  <2> QED BY <2>1, <2>3 DEF OneAccount
<1>11. ASSUME NEW r \in Requests, NothingToRefresh(r) PROVE SessionIsOne' /\ OneAccount'
  BY <1>11, RedirectKeepsOne DEF NothingToRefresh
<1>12. ASSUME NEW r \in Requests, RefreshFails(r) PROVE SessionIsOne' /\ OneAccount'
  BY <1>12, RedirectKeepsOne DEF RefreshFails
<1>13. ASSUME NEW r \in Requests, Refreshed(r) PROVE SessionIsOne' /\ OneAccount'
  <2>1. refreshing[r] \in Accounts /\ refreshing[r] # None
    BY <1>13 DEF Refreshed, SessionShape, WebTypeOK, Holder
  <2>2. session' = saveSession(refreshing[r]) /\ mixed' = mixed
    BY <1>13, <2>1, SavedIsSession DEF Refreshed
  <2>3. SessionIsOne'
    BY <2>1, <2>2 DEF SessionIsOne, saveSession
  <2>4. \A q \in Requests : refreshing'[q] \in {refreshing[q], None}
    BY <1>13 DEF Refreshed, SessionShape, WebTypeOK
  <2>5. \A w \in Requests :
           \/ request'[w] = request[w]
           \/ /\ request[w].status = "waiting" /\ request'[w].for = request[w].for
              /\ request'[w].as = refreshing[r]
    <3> SUFFICES ASSUME NEW w \in Requests, w \in WaitingOn(r)
                 PROVE  /\ request[w].status = "waiting" /\ request'[w].for = request[w].for
                        /\ request'[w].as = refreshing[r]
      BY <1>13 DEF Refreshed, SessionShape, WebTypeOK
    <3>1. request[w] \in Request /\ request[w].status = "waiting"
      BY DEF WaitingOn, SessionShape, WebTypeOK
    <3>2. request'[w] = [request[w] EXCEPT !.status = "sent", !.as = refreshing[r], !.on = None]
      BY <1>13 DEF Refreshed
    <3> QED BY <3>1, <3>2 DEF Request
  <2>6. ASSUME NEW a \in Holder, AllOf(a) PROVE AllOf(a)'
    <3>1. refreshing[r] = a
      BY <2>1, <2>6 DEF AllOf
    <3>2. session'.access = a /\ session'.refresh = a
      BY <2>2, <3>1 DEF saveSession
    <3> QED BY <2>4, <2>5, <2>6, <3>1, <3>2 DEF AllOf, Pending
  <2> QED BY <2>2, <2>3, <2>6 DEF OneAccount
<1> QED
  BY <1>1, <1>3, <1>4, <1>5, <1>6, <1>7, <1>9, <1>10, <1>11, <1>12, <1>13
     DEF WebNext, Settle, webVars, Visit, Submit, Registered, SubmitFails

-----------------------------------------------------------------------------
(* Theorems.                                                               *)

LEMMA SessionInitInv == WebInit => SessionIInv
<1> SUFFICES ASSUME WebInit PROVE SessionIInv
  OBVIOUS
<1>1. SessionShape
  BY InitShape
<1>2. WaitersAreAnswered
  BY DEF WebInit, WaitersAreAnswered, Done
<1>3. SessionIsOne /\ NothingPending
  BY DEF WebInit, SessionIsOne, NothingPending, Pending, Done
<1>4. \E a \in Holder : AllOf(a)
  BY <1>1, <1>3, SettledIsOne
<1> QED BY <1>1, <1>2, <1>3, <1>4 DEF SessionIInv, OneAccount

LEMMA SessionNextInv == SessionIInv /\ [WebNext]_webVars => SessionIInv'
BY NextShape, NextAnswered, NextOneAccount DEF SessionIInv

\* The inductive invariant: types, what is under way belongs to a tab and a refresh to a request
\* that waits for it, nobody waits for nothing, and all is of one account unless mixed.
THEOREM SessionInvariantHolds == WebSpec => []SessionIInv
BY SessionInitInv, SessionNextInv, PTL DEF WebSpec

\* Every variable keeps its type.
THEOREM SessionTypeCorrect == WebSpec => []WebTypeOK
<1>1. SessionIInv => WebTypeOK
  BY DEF SessionIInv, SessionShape
<1> QED BY <1>1, SessionInvariantHolds, PTL

\* A request that met a 401 waits for a refresh that is under way in its own tab, and a tab has
\* one refresh at most, however logins, logouts, reloads, answers and failures interleave.
THEOREM WaitersHaveTheirRefresh == WebSpec => []WaitersAreAnswered
<1>1. SessionIInv => WaitersAreAnswered
  BY DEF SessionIInv
<1> QED BY <1>1, SessionInvariantHolds, PTL

\* Requests and refreshes are of the account that asked unless somebody logged in or out beside
\* them, and the keys in storage are always of one account.
THEOREM AccountsStayApart == WebSpec => []AccountsMixOnlyByOvertaking
<1>1. SessionIInv => AccountsMixOnlyByOvertaking
  <2> SUFFICES ASSUME SessionIInv PROVE AccountsMixOnlyByOvertaking
    OBVIOUS
  <2>1. session = LoggedOut \/ \E a \in Accounts : session = saveSession(a)
    BY DEF SessionIInv, SessionIsOne
  <2>2. ASSUME ~mixed, NEW r \in Requests
        PROVE  /\ Pending(r) /\ request[r].for # None =>
                    request[r].as = request[r].for /\ session.access \in {None, request[r].for}
               /\ \A w \in Requests : refreshing[r] # None /\ Pending(w) /\ request[w].for # None =>
                    refreshing[r] = request[w].for
    <3>1. PICK a \in Holder : AllOf(a)
      BY <2>2 DEF SessionIInv, OneAccount
    <3> QED BY <3>1 DEF AllOf
  <2> QED BY <2>1, <2>2 DEF AccountsMixOnlyByOvertaking
<1> QED BY <1>1, SessionInvariantHolds, PTL

-----------------------------------------------------------------------------
(* The desk pages. The staff desk submits one thing at a time, the buttons *)
(* of both desks come back, and what a desk is told to be canceled is.     *)

\* A submission is a record of its fields, and jobs a function, of whatever values.
IsJob(r) == r = [kind |-> r.kind, stage |-> r.stage, slots |-> r.slots, ids |-> r.ids,
                 todo |-> r.todo, day |-> r.day]
DeskShape == /\ job = [j \in Jobs |-> job[j]] /\ \A j \in Jobs : IsJob(job[j])
         /\ \E S : flights \in Seq(S)
         /\ loading \in BOOLEAN

\* A load that a submission waits for is of one that waits, and of no other.
LoadsAreAwaited ==
  /\ \A i \in DOMAIN flights : flights[i].job # 0 =>
       flights[i].job \in Jobs /\ job[flights[i].job].stage = "reload"
  /\ \A i, k \in DOMAIN flights : flights[i].job = flights[k].job /\ flights[i].job # 0 => i = k

\* The staff desk has one submission at most, and its flag is up meanwhile.
OneAtATime ==
  desk = "staff" => /\ \A i, j \in Busy : i = j
                    /\ Busy # {} => loading

\* What a cancellation has worked off is gone.
CanceledSoFar ==
  \A j \in Jobs : /\ job[j].kind = "cancel" => job[j].ids \subseteq gone \cup job[j].todo
                  /\ job[j].stage = "reload" => job[j].todo = {}

DeskIInv == /\ DeskShape /\ LoadsAreAwaited /\ OneAtATime /\ CanceledSoFar
        /\ CancelNoticeMeansGone /\ DeskComesBack

-----------------------------------------------------------------------------
(* Loads are kept in a sequence; a load that ends leaves the others there. *)

\* The loads that are left, by where they were.
LEMMA LoadRemoved ==
  ASSUME DeskShape, NEW i \in DOMAIN flights, flights' = RemoveAt(flights, i)
  PROVE  /\ \E S : flights' \in Seq(S)
         /\ \A k \in DOMAIN flights' : \E m \in DOMAIN flights : m # i /\ flights'[k] = flights[m]
         /\ \A m \in DOMAIN flights : m # i => \E k \in DOMAIN flights' : flights'[k] = flights[m]
         /\ \A k, l \in DOMAIN flights' : k # l => \E m, n \in DOMAIN flights :
              m # n /\ flights'[k] = flights[m] /\ flights'[l] = flights[n]
<1>1. PICK S : flights \in Seq(S)
  BY DEF DeskShape
<1>2. /\ flights' \in Seq(S) /\ Len(flights') = Len(flights) - 1
      /\ \A k \in 1..(Len(flights) - 1) : flights'[k] = IF k < i THEN flights[k] ELSE flights[k + 1]
  BY <1>1, Removed
<1>3. /\ DOMAIN flights = 1..Len(flights) /\ DOMAIN flights' = 1..(Len(flights) - 1)
      /\ Len(flights) \in Nat /\ i \in 1..Len(flights)
  BY <1>1, <1>2
<1> DEFINE from(k) == IF k < i THEN k ELSE k + 1
<1>4. \A k \in DOMAIN flights' : from(k) \in DOMAIN flights /\ from(k) # i /\ flights'[k] = flights[from(k)]
  BY <1>2, <1>3
<1>5. \A k, l \in DOMAIN flights' : k # l => from(k) # from(l)
  BY <1>3
<1>6. ASSUME NEW m \in DOMAIN flights, m # i PROVE \E k \in DOMAIN flights' : flights'[k] = flights[m]
  <2>1. CASE m < i
    <3>1. m \in DOMAIN flights' /\ flights'[m] = flights[m]
      BY <1>2, <1>3, <2>1
    <3> QED BY <3>1
  <2>2. CASE m > i
    <3>1. m - 1 \in DOMAIN flights' /\ ~(m - 1 < i) /\ (m - 1) + 1 = m
      BY <1>3, <2>2
    <3>2. flights'[m - 1] = flights[m]
      BY <1>2, <1>3, <3>1
    <3> QED BY <3>1, <3>2
  <2>3. m < i \/ m > i
    BY <1>3, <1>6
  <2> QED BY <2>1, <2>2, <2>3
<1> HIDE DEF from
<1> QED BY <1>2, <1>4, <1>5, <1>6

\* One load more.
LEMMA LoadAdded ==
  ASSUME DeskShape, NEW x, flights' = Append(flights, x)
  PROVE  /\ \E S : flights' \in Seq(S)
         /\ \E last \in DOMAIN flights' :
              /\ flights'[last] = x
              /\ \A k \in DOMAIN flights' : k # last => k \in DOMAIN flights /\ flights'[k] = flights[k]
         /\ \A m \in DOMAIN flights : m \in DOMAIN flights' /\ flights'[m] = flights[m]
<1>1. PICK S : flights \in Seq(S)
  BY DEF DeskShape
<1> DEFINE T == S \cup {x}
<1>2. flights \in Seq(T) /\ x \in T
  BY <1>1
<1> HIDE DEF T
<1>3. /\ flights' \in Seq(T) /\ Len(flights') = Len(flights) + 1
      /\ \A k \in 1..Len(flights) : flights'[k] = flights[k]
      /\ flights'[Len(flights) + 1] = x
  BY <1>2, AppendProperties
<1>4. /\ DOMAIN flights = 1..Len(flights) /\ DOMAIN flights' = 1..(Len(flights) + 1)
      /\ Len(flights) \in Nat
  BY <1>2, <1>3
<1>5. Len(flights) + 1 \in DOMAIN flights'
      /\ \A k \in DOMAIN flights' : k # Len(flights) + 1 => k \in DOMAIN flights
  BY <1>4
<1>6. \A m \in DOMAIN flights : m \in DOMAIN flights' /\ flights'[m] = flights[m]
  BY <1>3, <1>4
<1> QED BY <1>3, <1>5, <1>6

\* One submission is changed.
LEMMA JobChanged ==
  ASSUME DeskShape, NEW j \in Jobs, NEW new, IsJob(new), job' = [job EXCEPT ![j] = new]
  PROVE  /\ job' = [i \in Jobs |-> job'[i]] /\ \A i \in Jobs : IsJob(job'[i])
         /\ job'[j] = new /\ \A i \in Jobs : i # j => job'[i] = job[i]
BY DEF DeskShape

LEMMA IdleIsJob == IsJob(Idle) /\ Idle.kind = "none" /\ Idle.stage = "call"
BY DEF IsJob, Idle

-----------------------------------------------------------------------------
(* Every step keeps the invariant.                                         *)

\* Nothing the invariant is about changes, but that more may be gone.
LEMMA NothingKept ==
  ASSUME DeskIInv, UNCHANGED <<desk, flights, loading, job, told>>, gone \subseteq gone'
  PROVE  DeskIInv'
<1>1. DeskShape' /\ LoadsAreAwaited'
  BY DEF DeskIInv, DeskShape, LoadsAreAwaited
<1>2. OneAtATime' /\ DeskComesBack'
  BY DEF DeskIInv, OneAtATime, DeskComesBack, Busy
<1>3. CanceledSoFar' /\ CancelNoticeMeansGone'
  BY DEF DeskIInv, CanceledSoFar, CancelNoticeMeansGone
<1> QED BY <1>1, <1>2, <1>3 DEF DeskIInv

LEMMA SubmittedKeeps ==
  ASSUME DeskIInv, NEW j \in Jobs, NEW new, Submitted(j, new), IsJob(new), new.kind # "none",
         new.stage = "call", new.kind = "cancel" => new.ids \subseteq new.todo
  PROVE  DeskIInv'
<1>1. /\ job' = [job EXCEPT ![j] = new] /\ loading' = TRUE /\ ~loading /\ job[j] = Idle
      /\ UNCHANGED <<desk, gone, flights, told>>
  BY DEF Submitted, FirstOf, server
<1>2. /\ DeskShape' /\ job'[j] = new /\ \A i \in Jobs : i # j => job'[i] = job[i]
  BY <1>1, JobChanged DEF DeskIInv, DeskShape
<1>3. LoadsAreAwaited'
  <2>1. \A i \in DOMAIN flights : flights[i].job # 0 => flights[i].job # j
    BY <1>1, IdleIsJob DEF DeskIInv, LoadsAreAwaited
  <2> QED BY <1>1, <1>2, <2>1 DEF DeskIInv, LoadsAreAwaited
<1>4. OneAtATime'
  <2>1. desk = "staff" => Busy = {}
    BY <1>1 DEF DeskIInv, OneAtATime
  <2>2. desk = "staff" => \A i \in Busy' : i = j
    BY <1>2, <2>1 DEF Busy
  <2> QED BY <1>1, <2>2 DEF OneAtATime
<1>5. CanceledSoFar' /\ CancelNoticeMeansGone'
  BY <1>1, <1>2 DEF DeskIInv, CanceledSoFar, CancelNoticeMeansGone
<1>6. DeskComesBack'
  <2>1. j \in Busy'
    BY <1>2, IdleIsJob DEF Busy
  <2> QED BY <1>1, <1>2, <2>1 DEF DeskIInv, DeskComesBack
<1> QED BY <1>2, <1>3, <1>4, <1>5, <1>6 DEF DeskIInv

LEMMA SubmissionKeeps ==
  ASSUME DeskIInv, NEW j \in Jobs, NEW S, SubmitCreate(j, S) \/ SubmitUpdate(j, S) \/ SubmitCancel(j)
  PROVE  DeskIInv'
<1>1. CASE SubmitCreate(j, S)
  <2>1. PICK new : /\ new = [Idle EXCEPT !.kind = "create", !.slots = S, !.day = day]
                   /\ Submitted(j, new)
    BY <1>1 DEF SubmitCreate
  <2>2. IsJob(new) /\ new.kind = "create" /\ new.stage = "call"
    BY <2>1 DEF IsJob, Idle
  <2> QED BY <2>1, <2>2, SubmittedKeeps
<1>2. CASE SubmitUpdate(j, S)
  <2>1. PICK new : /\ new = [Idle EXCEPT !.kind = "update", !.slots = S, !.day = day, !.ids = Selected]
                   /\ Submitted(j, new)
    BY <1>2 DEF SubmitUpdate
  <2>2. IsJob(new) /\ new.kind = "update" /\ new.stage = "call"
    BY <2>1 DEF IsJob, Idle
  <2> QED BY <2>1, <2>2, SubmittedKeeps
<1>3. CASE SubmitCancel(j)
  <2>1. PICK new : /\ new = [Idle EXCEPT !.kind = "cancel", !.day = day, !.ids = Selected, !.todo = Selected]
                   /\ Submitted(j, new)
    BY <1>3 DEF SubmitCancel
  <2>2. IsJob(new) /\ new.kind = "cancel" /\ new.stage = "call" /\ new.ids = new.todo
    BY <2>1 DEF IsJob, Idle
  <2> QED BY <2>1, <2>2, SubmittedKeeps
<1> QED BY <1>1, <1>2, <1>3

\* A submission ends without a load: after a call that failed, or when another day is shown.
LEMMA IdledKeeps ==
  ASSUME DeskIInv, NEW j \in Jobs, job[j].kind # "none", job[j].stage = "call",
         job' = [job EXCEPT ![j] = Idle], gone \subseteq gone', UNCHANGED <<desk, told>>,
         \/ flights' = flights /\ loading' = FALSE
         \/ /\ \E b : flights' = Append(flights, b) /\ b.job = 0
            /\ loading' = (desk = "admin")
  PROVE  DeskIInv'
<1>1. /\ job' = [i \in Jobs |-> job'[i]] /\ \A i \in Jobs : IsJob(job'[i])
      /\ job'[j] = Idle /\ \A i \in Jobs : i # j => job'[i] = job[i]
  BY JobChanged, IdleIsJob DEF DeskIInv
<1>2. \A i \in DOMAIN flights : flights[i].job # j
  BY DeskAssumption DEF DeskIInv, LoadsAreAwaited
<1>3. Busy' \subseteq Busy \ {j} /\ j \in Busy
  BY <1>1, IdleIsJob DEF Busy
<1>4. OneAtATime'
  BY <1>3 DEF DeskIInv, OneAtATime
<1>5. CanceledSoFar' /\ CancelNoticeMeansGone'
  BY <1>1, IdleIsJob DEF DeskIInv, CanceledSoFar, CancelNoticeMeansGone
<1>6. CASE flights' = flights /\ loading' = FALSE
  <2>1. DeskShape' /\ LoadsAreAwaited'
    BY <1>1, <1>2, <1>6 DEF DeskIInv, DeskShape, LoadsAreAwaited
  <2>2. DeskComesBack'
    BY <1>1, <1>6, IdleIsJob DEF DeskIInv, DeskComesBack
  <2> QED BY <1>4, <1>5, <2>1, <2>2 DEF DeskIInv
<1>7. ASSUME NEW b, flights' = Append(flights, b), b.job = 0, loading' = (desk = "admin")
      PROVE  DeskIInv'
  <2>1. PICK last \in DOMAIN flights' :
          /\ flights'[last] = b
          /\ \A k \in DOMAIN flights' : k # last => k \in DOMAIN flights /\ flights'[k] = flights[k]
    BY <1>7, LoadAdded DEF DeskIInv
  <2>2. \A m \in DOMAIN flights : m \in DOMAIN flights' /\ flights'[m] = flights[m]
    BY <1>7, LoadAdded DEF DeskIInv
  <2>3. DeskShape'
    BY <1>1, <1>7, LoadAdded DEF DeskIInv, DeskShape
  <2>4. LoadsAreAwaited'
    BY <1>1, <1>2, <1>7, <2>1 DEF DeskIInv, LoadsAreAwaited
  <2>5. DeskComesBack'
    <3>1. loading' => desk' = "admin"
      BY <1>7
    <3>2. flights' # <<>>
      BY <2>1
    <3> QED BY <1>1, <2>2, <3>1, <3>2, IdleIsJob DEF DeskIInv, DeskComesBack
  <2> QED BY <1>4, <1>5, <2>3, <2>4, <2>5 DEF DeskIInv
<1> QED BY <1>6, <1>7

\* A submission loads the day again.
LEMMA ReloadKeeps ==
  ASSUME DeskIInv, NEW j \in Jobs, job[j].kind # "none", job[j].stage = "call", ReloadFor(j),
         gone \subseteq gone', job[j].kind = "cancel" => job[j].ids \subseteq gone'
  PROVE  DeskIInv'
<1>0. PICK new : new = [job[j] EXCEPT !.stage = "reload", !.todo = {}]
  OBVIOUS
<1>1. /\ job' = [job EXCEPT ![j] = new] /\ loading' = TRUE /\ UNCHANGED <<desk, told>>
      /\ \E b : flights' = Append(flights, b) /\ b.job = j
  <2>1. loading' = TRUE /\ UNCHANGED <<desk, told>> /\ job' = [job EXCEPT ![j] = new]
    BY <1>0 DEF ReloadFor, DeskIInv, DeskShape
  <2>2. PICK b : /\ b = [day |-> job[j].day, board |-> Board(job[j].day, slotOf'), job |-> j]
                 /\ flights' = Append(flights, b)
    BY DEF ReloadFor, Asked
  <2> QED BY <2>1, <2>2
<1>2. IsJob(new) /\ new.stage = "reload" /\ new.todo = {} /\ new.kind = job[j].kind /\ new.ids = job[j].ids
  <2>1. IsJob(job[j])
    BY DEF DeskIInv, DeskShape
  <2>2. new = [kind |-> job[j].kind, stage |-> "reload", slots |-> job[j].slots, ids |-> job[j].ids,
               todo |-> {}, day |-> job[j].day]
    BY <1>0, <2>1 DEF IsJob
  <2> QED BY <2>2 DEF IsJob
<1>3. /\ job' = [i \in Jobs |-> job'[i]] /\ \A i \in Jobs : IsJob(job'[i])
      /\ job'[j] = new /\ \A i \in Jobs : i # j => job'[i] = job[i]
  BY <1>1, <1>2, JobChanged DEF DeskIInv
<1>4. PICK b : flights' = Append(flights, b) /\ b.job = j
  BY <1>1
<1>5. PICK last \in DOMAIN flights' :
        /\ flights'[last] = b
        /\ \A k \in DOMAIN flights' : k # last => k \in DOMAIN flights /\ flights'[k] = flights[k]
  BY <1>4, LoadAdded DEF DeskIInv
<1>6. \A m \in DOMAIN flights : m \in DOMAIN flights' /\ flights'[m] = flights[m]
  BY <1>4, LoadAdded DEF DeskIInv
<1>7. \A i \in DOMAIN flights : flights[i].job # j
  BY DeskAssumption DEF DeskIInv, LoadsAreAwaited
<1>8. DeskShape'
  BY <1>1, <1>3, <1>4, LoadAdded DEF DeskIInv, DeskShape
<1>9. LoadsAreAwaited'
  BY <1>2, <1>3, <1>4, <1>5, <1>7 DEF DeskIInv, LoadsAreAwaited
<1>10. Busy' = Busy /\ j \in Busy
  BY <1>2, <1>3, IdleIsJob DEF Busy
<1>11. OneAtATime'
  BY <1>1, <1>10 DEF DeskIInv, OneAtATime
<1>12. CanceledSoFar' /\ CancelNoticeMeansGone'
  BY <1>1, <1>2, <1>3 DEF DeskIInv, CanceledSoFar, CancelNoticeMeansGone
<1>13. DeskComesBack'
  BY <1>2, <1>3, <1>4, <1>5, <1>6, <1>10 DEF DeskIInv, DeskComesBack
<1> QED BY <1>8, <1>9, <1>11, <1>12, <1>13 DEF DeskIInv

\* A submission goes on to its next call.
LEMMA WorkingKeeps ==
  ASSUME DeskIInv, NEW j \in Jobs, job[j].kind # "none", job[j].stage = "call", NEW new, IsJob(new),
         new.stage = "call", new.kind = job[j].kind, job' = [job EXCEPT ![j] = new],
         new.kind = "cancel" => new.ids \subseteq gone' \cup new.todo,
         UNCHANGED <<desk, flights, loading, told>>, gone \subseteq gone'
  PROVE  DeskIInv'
<1>1. /\ DeskShape' /\ job'[j] = new /\ \A i \in Jobs : i # j => job'[i] = job[i]
  BY JobChanged DEF DeskIInv, DeskShape
<1>2. LoadsAreAwaited'
  BY <1>1, DeskAssumption DEF DeskIInv, LoadsAreAwaited
<1>3. Busy' = Busy
  BY <1>1, IdleIsJob DEF Busy
<1>4. OneAtATime'
  BY <1>3 DEF DeskIInv, OneAtATime
<1>5. CanceledSoFar' /\ CancelNoticeMeansGone'
  BY <1>1 DEF DeskIInv, CanceledSoFar, CancelNoticeMeansGone
<1>6. DeskComesBack'
  BY <1>1, <1>3 DEF DeskIInv, DeskComesBack
<1> QED BY <1>1, <1>2, <1>4, <1>5, <1>6 DEF DeskIInv

\* A call of a submission fails; what it did on the server, it has done.
LEMMA CallFailsKeeps ==
  ASSUME DeskIInv, NEW j \in Jobs, job[j].kind # "none", job[j].stage = "call", CallFails(j),
         gone \subseteq gone'
  PROVE  DeskIInv'
BY IdledKeeps DEF CallFails

\* What the server is asked for makes nothing reappear.
LEMMA GoneGrows ==
  ASSUME NEW j, NEW b, NEW S, NEW new,
         UNCHANGED <<server, mine>> \/ MadeFor(S, new) \/ Rescheduled(j) \/ Canceled(b)
  PROVE  gone \subseteq gone'
BY DEF server, MadeFor, Rescheduled, Canceled

LEMMA CreateKeeps ==
  ASSUME DeskIInv, NEW j \in Jobs,
         CreateAnswered(j) \/ CreateFails(j) \/ PaymentSaved(j) \/ PaymentFails(j)
  PROVE  DeskIInv'
<1>1. job[j].kind = "create" /\ job[j].stage = "call" /\ IsJob(job[j])
      /\ job = [i \in Jobs |-> job[i]]
  BY DEF CreateAnswered, CreateFails, PaymentSaved, PaymentFails, Calling, DeskIInv, DeskShape
<1>2. CASE CreateAnswered(j)
  <2>1. PICK made : /\ MadeFor(job[j].slots, made)
                    /\ job' = [job EXCEPT ![j].ids = made, ![j].todo = made]
                    /\ UNCHANGED <<desk, flights, loading, told>>
    BY <1>2 DEF CreateAnswered
  <2>2. PICK new : new = [job[j] EXCEPT !.ids = made, !.todo = made]
    OBVIOUS
  <2>3. new = [kind |-> "create", stage |-> "call", slots |-> job[j].slots, ids |-> made, todo |-> made,
               day |-> job[j].day]
    BY <1>1, <2>2 DEF IsJob
  <2>4. IsJob(new) /\ new.stage = "call" /\ new.kind = "create"
    BY <2>3 DEF IsJob
  <2>5. job' = [job EXCEPT ![j] = new]
    BY <1>1, <2>1, <2>2
  <2>6. gone \subseteq gone'
    BY <2>1, GoneGrows
  <2> QED BY <1>1, <2>1, <2>4, <2>5, <2>6, WorkingKeeps
<1>3. CASE CreateFails(j)
  <2>1. gone \subseteq gone' /\ CallFails(j)
    BY <1>3, GoneGrows DEF CreateFails
  <2> QED BY <1>1, <2>1, CallFailsKeeps
<1>4. CASE PaymentSaved(j)
  <2>1. gone' = gone
    BY <1>4 DEF PaymentSaved, server
  <2>2. CASE job[j].todo = {FirstIn(job[j].todo)}
    <3>1. ReloadFor(j)
      BY <1>4, <2>2 DEF PaymentSaved
    <3> QED BY <1>1, <2>1, <3>1, ReloadKeeps
  <2>3. CASE job[j].todo # {FirstIn(job[j].todo)}
    <3>1. PICK rest : rest = job[j].todo \ {FirstIn(job[j].todo)}
      OBVIOUS
    <3>2. PICK new : new = [job[j] EXCEPT !.todo = rest]
      OBVIOUS
    <3>3. job' = [job EXCEPT ![j] = new] /\ UNCHANGED <<desk, flights, loading, told>>
      BY <1>1, <1>4, <2>3, <3>1, <3>2 DEF PaymentSaved
    <3>4. new = [kind |-> "create", stage |-> "call", slots |-> job[j].slots, ids |-> job[j].ids,
                 todo |-> rest, day |-> job[j].day]
      BY <1>1, <3>2 DEF IsJob
    <3>5. IsJob(new) /\ new.stage = "call" /\ new.kind = "create"
      BY <3>4 DEF IsJob
    <3> QED BY <1>1, <2>1, <3>3, <3>5, WorkingKeeps
  <2> QED BY <2>2, <2>3
<1>5. CASE PaymentFails(j)
  <2>1. gone \subseteq gone' /\ CallFails(j)
    BY <1>5 DEF PaymentFails, server
  <2> QED BY <1>1, <2>1, CallFailsKeeps
<1> QED BY <1>2, <1>3, <1>4, <1>5

LEMMA UpdateKeeps ==
  ASSUME DeskIInv, NEW j \in Jobs, UpdateAnswered(j) \/ UpdateFails(j)
  PROVE  DeskIInv'
<1>1. job[j].kind = "update" /\ job[j].stage = "call"
  BY DEF UpdateAnswered, UpdateFails, Calling
<1>2. CASE UpdateAnswered(j)
  <2>1. gone \subseteq gone'
    BY <1>2, GoneGrows DEF UpdateAnswered
  <2>2. CASE ReloadFor(j)
    BY <1>1, <2>1, <2>2, ReloadKeeps
  <2>3. CASE ~ReloadFor(j)
    <3>1. PICK target : /\ job' = [job EXCEPT ![j] = Idle] /\ UNCHANGED <<desk, told>>
                        /\ IF target # day
                           THEN Asked(target, 0) /\ loading' = (desk = "admin")
                           ELSE loading' = FALSE /\ UNCHANGED flights
      BY <1>2, <2>3 DEF UpdateAnswered
    <3>2. CASE target # day
      <4>1. PICK b : /\ b = [day |-> target, board |-> Board(target, slotOf'), job |-> 0]
                     /\ flights' = Append(flights, b)
        BY <3>1, <3>2 DEF Asked
      <4>2. b.job = 0
        BY <4>1
      <4> QED BY <1>1, <2>1, <3>1, <3>2, <4>1, <4>2, IdledKeeps
    <3>3. CASE target = day
      BY <1>1, <2>1, <3>1, <3>3, IdledKeeps
    <3> QED BY <3>2, <3>3
  <2> QED BY <2>2, <2>3
<1>3. CASE UpdateFails(j)
  <2>1. gone \subseteq gone' /\ CallFails(j)
    BY <1>3, GoneGrows DEF UpdateFails
  <2> QED BY <1>1, <2>1, CallFailsKeeps
<1> QED BY <1>2, <1>3

LEMMA CancelKeeps ==
  ASSUME DeskIInv, NEW j \in Jobs, CancelAnswered(j) \/ CancelFails(j)
  PROVE  DeskIInv'
<1>1. job[j].kind = "cancel" /\ job[j].stage = "call" /\ IsJob(job[j])
      /\ job = [i \in Jobs |-> job[i]]
  BY DEF CancelAnswered, CancelFails, Calling, DeskIInv, DeskShape
<1>2. job[j].ids \subseteq gone \cup job[j].todo
  BY <1>1 DEF DeskIInv, CanceledSoFar
<1>3. CASE CancelAnswered(j)
  <2>1. PICK b : b = FirstIn(job[j].todo)
    OBVIOUS
  <2>2. gone' = gone \cup {b}
    BY <1>3, <2>1 DEF CancelAnswered, Canceled
  <2>3. CASE job[j].todo = {b}
    <3>1. ReloadFor(j)
      BY <1>3, <2>1, <2>3 DEF CancelAnswered
    <3>2. job[j].ids \subseteq gone'
      BY <1>2, <2>2, <2>3
    <3> QED BY <1>1, <2>2, <3>1, <3>2, ReloadKeeps
  <2>4. CASE job[j].todo # {b}
    <3>1. PICK new : new = [job[j] EXCEPT !.todo = job[j].todo \ {b}]
      OBVIOUS
    <3>2. job' = [job EXCEPT ![j] = new] /\ UNCHANGED <<desk, flights, loading, told>>
      BY <1>1, <1>3, <2>1, <2>4, <3>1 DEF CancelAnswered
    <3>3. new = [kind |-> "cancel", stage |-> "call", slots |-> job[j].slots, ids |-> job[j].ids,
                 todo |-> job[j].todo \ {b}, day |-> job[j].day]
      BY <1>1, <3>1 DEF IsJob
    <3>4. IsJob(new) /\ new.stage = "call" /\ new.kind = "cancel" /\ new.ids \subseteq gone' \cup new.todo
      BY <1>2, <2>2, <3>3 DEF IsJob
    <3> QED BY <1>1, <2>2, <3>2, <3>4, WorkingKeeps
  <2> QED BY <2>3, <2>4
<1>4. CASE CancelFails(j)
  <2>1. gone \subseteq gone' /\ CallFails(j)
    BY <1>4, GoneGrows DEF CancelFails
  <2> QED BY <1>1, <2>1, CallFailsKeeps
<1> QED BY <1>3, <1>4

\* A load ends, well or not; a submission that was waiting for it ends with it.
LEMMA LoadEndKeeps ==
  ASSUME DeskIInv, NEW i \in DOMAIN flights, loadArrives(i) \/ loadFails(i)
  PROVE  DeskIInv'
<1>1. PICK f : f = flights[i]
  OBVIOUS
<1>2. /\ flights' = RemoveAt(flights, i) /\ loading' = LoadingWhenLoaded(f) /\ JobEnds(f)
      /\ desk' = desk /\ gone' = gone
  BY <1>1 DEF loadArrives, loadFails, server
<1>3. /\ \E S : flights' \in Seq(S)
      /\ \A k \in DOMAIN flights' : \E m \in DOMAIN flights : m # i /\ flights'[k] = flights[m]
      /\ \A m \in DOMAIN flights : m # i => \E k \in DOMAIN flights' : flights'[k] = flights[m]
      /\ \A k, l \in DOMAIN flights' : k # l => \E m, n \in DOMAIN flights :
           m # n /\ flights'[k] = flights[m] /\ flights'[l] = flights[n]
  BY <1>2, LoadRemoved DEF DeskIInv
<1>4. /\ job' = [j \in Jobs |-> job'[j]]
      /\ \A j \in Jobs : job'[j] = IF j = f.job THEN Idle ELSE job[j]
  BY <1>2 DEF JobEnds
<1>5. f.job # 0 => f.job \in Jobs /\ job[f.job].stage = "reload"
  BY <1>1 DEF DeskIInv, LoadsAreAwaited
<1>6. DeskShape'
  <2>1. \A j \in Jobs : IsJob(job'[j])
    BY <1>4, IdleIsJob DEF DeskIInv, DeskShape
  <2>2. loading' \in BOOLEAN
    BY <1>2 DEF LoadingWhenLoaded, DeskIInv, DeskShape
  <2> QED BY <1>3, <1>4, <2>1, <2>2 DEF DeskShape
<1>7. \A m \in DOMAIN flights : m # i /\ flights[m].job # 0 => flights[m].job # f.job
  BY <1>1 DEF DeskIInv, LoadsAreAwaited
<1>8. LoadsAreAwaited'
  <2>1. ASSUME NEW k \in DOMAIN flights', flights'[k].job # 0
        PROVE  flights'[k].job \in Jobs /\ job'[flights'[k].job].stage = "reload"
    <3>1. PICK m \in DOMAIN flights : m # i /\ flights'[k] = flights[m]
      BY <1>3
    <3>2. flights[m].job \in Jobs /\ job[flights[m].job].stage = "reload" /\ flights[m].job # f.job
      BY <1>7, <2>1, <3>1 DEF DeskIInv, LoadsAreAwaited
    <3> QED BY <1>4, <3>1, <3>2
  <2>2. ASSUME NEW k \in DOMAIN flights', NEW l \in DOMAIN flights',
               flights'[k].job = flights'[l].job, flights'[k].job # 0
        PROVE  k = l
    <3>1. SUFFICES ASSUME k # l PROVE FALSE
      OBVIOUS
    <3>2. PICK m, n \in DOMAIN flights : m # n /\ flights'[k] = flights[m] /\ flights'[l] = flights[n]
      BY <1>3, <3>1
    <3> QED BY <2>2, <3>2 DEF DeskIInv, LoadsAreAwaited
  <2> QED BY <2>1, <2>2 DEF LoadsAreAwaited
<1>9. Busy' \subseteq Busy \ {f.job}
  BY <1>4 DEF Busy
<1>10. f.job # 0 => f.job \in Busy
  BY <1>5, IdleIsJob DEF Busy
<1>11. f.job = 0 => Busy' = Busy
  BY <1>4, DeskAssumption DEF Busy
<1>12. OneAtATime'
  <2>1. ASSUME desk = "staff" PROVE \A j, k \in Busy' : j = k
    BY <1>9, <2>1 DEF DeskIInv, OneAtATime
  <2>2. ASSUME desk = "staff", Busy' # {} PROVE loading'
    <3>1. f.job = 0
      BY <1>9, <1>10, <2>2 DEF DeskIInv, OneAtATime
    <3>2. loading
      BY <1>11, <2>2, <3>1 DEF DeskIInv, OneAtATime
    <3>3. loading' = loading
      BY <1>2, <2>2, <3>1 DEF LoadingWhenLoaded
    <3> QED BY <3>2, <3>3
  <2> QED BY <1>2, <2>1, <2>2 DEF OneAtATime
<1>13. CanceledSoFar'
  BY <1>2, <1>4, IdleIsJob DEF DeskIInv, CanceledSoFar
<1>14. CancelNoticeMeansGone'
  <2>1. CASE f.job # 0 /\ job[f.job].kind = "cancel"
    <3>1. told' = told \cup job[f.job].ids
      BY <1>2, <2>1 DEF JobEnds
    <3>2. job[f.job].ids \subseteq gone
      BY <1>5, <2>1 DEF DeskIInv, CanceledSoFar
    <3> QED BY <1>2, <3>1, <3>2 DEF DeskIInv, CancelNoticeMeansGone
  <2>2. CASE ~(f.job # 0 /\ job[f.job].kind = "cancel")
    BY <1>2, <2>2 DEF JobEnds, DeskIInv, CancelNoticeMeansGone
  <2> QED BY <2>1, <2>2
<1>15. DeskComesBack'
  <2>1. loading' => Busy' # {}
    <3>1. loading' => f.job = 0 /\ desk # "admin" /\ loading
      BY <1>2 DEF LoadingWhenLoaded
    <3> QED BY <1>11, <3>1 DEF DeskIInv, DeskComesBack
  <2>2. ASSUME NEW j \in Jobs, job'[j].stage = "reload"
        PROVE  \E k \in DOMAIN flights' : flights'[k].job = j
    <3>1. j # f.job /\ job[j].stage = "reload"
      BY <1>4, <2>2, IdleIsJob
    <3>2. PICK m \in DOMAIN flights : flights[m].job = j
      BY <3>1 DEF DeskIInv, DeskComesBack
    <3>3. m # i
      BY <1>1, <3>1, <3>2
    <3> QED BY <1>3, <3>2, <3>3
  <2> QED BY <2>1, <2>2 DEF DeskComesBack
<1> QED BY <1>6, <1>8, <1>12, <1>13, <1>14, <1>15 DEF DeskIInv

\* Another day is shown: its board is asked for, by no submission.
LEMMA PickDayKeeps ==
  ASSUME DeskIInv, NEW d, PickDay(d)
  PROVE  DeskIInv'
<1>1. PICK b : b = [day |-> d, board |-> Board(d, slotOf'), job |-> 0] /\ flights' = Append(flights, b)
  BY DEF PickDay, Asked
<1>2. b.job = 0
  BY <1>1
<1>3. loading' = LoadingWhenAsked /\ UNCHANGED <<desk, gone, job, told>>
  BY DEF PickDay, server
<1>4. PICK last \in DOMAIN flights' :
        /\ flights'[last] = b
        /\ \A k \in DOMAIN flights' : k # last => k \in DOMAIN flights /\ flights'[k] = flights[k]
  BY <1>1, LoadAdded DEF DeskIInv
<1>5. \A m \in DOMAIN flights : m \in DOMAIN flights' /\ flights'[m] = flights[m]
  BY <1>1, LoadAdded DEF DeskIInv
<1>6. DeskShape'
  BY <1>1, <1>3, LoadAdded DEF DeskIInv, DeskShape, LoadingWhenAsked
<1>7. LoadsAreAwaited'
  BY <1>2, <1>3, <1>4 DEF DeskIInv, LoadsAreAwaited
<1>8. OneAtATime'
  BY <1>3 DEF DeskIInv, OneAtATime, Busy, LoadingWhenAsked
<1>9. CanceledSoFar' /\ CancelNoticeMeansGone'
  BY <1>3 DEF DeskIInv, CanceledSoFar, CancelNoticeMeansGone
<1>10. DeskComesBack'
  <2>1. loading' => Busy' # {} \/ desk' = "admin"
    BY <1>3 DEF DeskIInv, DeskComesBack, Busy, LoadingWhenAsked
  <2>2. flights' # <<>>
    BY <1>4
  <2>3. \A j \in Jobs : job'[j].stage = "reload" => \E k \in DOMAIN flights' : flights'[k].job = j
    BY <1>3, <1>5 DEF DeskIInv, DeskComesBack
  <2> QED BY <2>1, <2>2, <2>3 DEF DeskComesBack
<1> QED BY <1>6, <1>7, <1>8, <1>9, <1>10 DEF DeskIInv

LEMMA DeskInitInv == DeskInit => DeskIInv
<1> SUFFICES ASSUME DeskInit PROVE DeskIInv
  OBVIOUS
<1>1. \A j \in Jobs : job[j] = Idle
  BY DEF DeskInit
<1>2. flights = <<>> /\ DOMAIN flights = {}
  BY DEF DeskInit
<1>3. DeskShape
  <2>1. flights \in Seq({})
    BY <1>2
  <2>2. job = [j \in Jobs |-> job[j]] /\ loading = FALSE
    BY <1>1 DEF DeskInit
  <2> QED BY <1>1, <2>1, <2>2, IdleIsJob DEF DeskShape
<1>4. Busy = {}
  BY <1>1 DEF Busy
<1>5. LoadsAreAwaited /\ OneAtATime
  BY <1>2, <1>4 DEF LoadsAreAwaited, OneAtATime
<1>6. CanceledSoFar
  BY <1>1, IdleIsJob DEF CanceledSoFar
<1>7. CancelNoticeMeansGone /\ DeskComesBack
  BY <1>1, IdleIsJob DEF DeskInit, CancelNoticeMeansGone, DeskComesBack
<1> QED BY <1>3, <1>5, <1>6, <1>7 DEF DeskIInv

LEMMA DeskNextInv == DeskIInv /\ [DeskNext]_deskVars => DeskIInv'
<1> SUFFICES ASSUME DeskIInv, [DeskNext]_deskVars PROVE DeskIInv'
  OBVIOUS
<1>1. CASE UNCHANGED deskVars
  BY <1>1, NothingKept DEF deskVars, server
<1>2. CASE \E d \in Days : PickDay(d)
  BY <1>2, PickDayKeeps
<1>3. CASE LoadEnds
  BY <1>3, LoadEndKeeps DEF LoadEnds
<1>4. CASE (\E s \in Slots : ClickCell(s)) \/ CloseDialog
  BY <1>4, NothingKept DEF ClickCell, CloseDialog, server
<1>5. ASSUME NEW j \in Jobs, NEW S, SubmitCreate(j, S) \/ SubmitUpdate(j, S) \/ SubmitCancel(j)
      PROVE  DeskIInv'
  BY <1>5, SubmissionKeeps
<1>6. ASSUME NEW j \in Jobs, CallEnds(j) PROVE DeskIInv'
  BY <1>6, CreateKeeps, UpdateKeeps, CancelKeeps DEF CallEnds
<1>7. CASE OthersChange
  <2>1. gone \subseteq gone'
    BY <1>7 DEF OthersChange, MadeFor
  <2> QED BY <1>7, <2>1, NothingKept DEF OthersChange
<1> QED BY <1>1, <1>2, <1>3, <1>4, <1>5, <1>6, <1>7 DEF DeskNext

-----------------------------------------------------------------------------
\* The inductive invariant holds at both desks.
THEOREM DeskInvariantHolds == DeskSpec => []DeskIInv
<1>1. DeskInit => DeskIInv
  BY DeskInitInv
<1>2. DeskIInv /\ [DeskNext]_deskVars => DeskIInv'
  BY DeskNextInv
<1> QED BY <1>1, <1>2, PTL DEF DeskSpec

\* The staff desk (StaffPage.jsx) never has two submissions under way, however its loads arrive:
\* the flag that disables the buttons is lowered by submissions alone.
THEOREM StaffDeskSubmitsOnce == DeskSpec => []StaffSubmitsOnce
<1>1. DeskIInv => StaffSubmitsOnce
  <2> SUFFICES ASSUME DeskIInv, desk = "staff" PROVE Cardinality(Busy) <= 1
    BY DEF StaffSubmitsOnce
  <2>1. CASE Busy = {}
    BY <2>1, FS_EmptySet
  <2>2. ASSUME NEW j \in Busy PROVE Cardinality(Busy) <= 1
    <3>1. Busy = {j}
      BY <2>2 DEF DeskIInv, OneAtATime
    <3>2. Cardinality({j}) = 1
      BY FS_Singleton
    <3> QED BY <3>1, <3>2
  <2> QED BY <2>1, <2>2
<1> QED BY <1>1, DeskInvariantHolds, PTL

\* When a desk says that a group was canceled, every booking it had shown of it is, although the
\* calls were made one by one, other loads arrived and others used the server meanwhile.
THEOREM CancelNoticesAreTrue == DeskSpec => []CancelNoticeMeansGone
<1>1. DeskIInv => CancelNoticeMeansGone
  BY DEF DeskIInv
<1> QED BY <1>1, DeskInvariantHolds, PTL

\* The buttons of the dialog are never left disabled: something under way will enable them, also
\* after a call or a load that failed, and no submission waits for a load nobody asked for.
THEOREM ButtonsComeBack == DeskSpec => []DeskComesBack
<1>1. DeskIInv => DeskComesBack
  BY DEF DeskIInv
<1> QED BY <1>1, DeskInvariantHolds, PTL

-----------------------------------------------------------------------------
(* What a desk shows of its own writes.                                    *)

\* A submission whose calls are under way.
InCall(j) == job[j].kind # "none" /\ job[j].stage = "call"

\* A job to move bookings has slots of a day to move them to.
Targets == /\ day \in Days
           /\ \A j \in Jobs : job[j].kind = "update" =>
                job[j].slots # {} /\ \E d \in Days : job[j].slots \subseteq SlotsOf[d]
           /\ dialog = [open |-> dialog.open, mode |-> dialog.mode, key |-> dialog.key, slot |-> dialog.slot]

\* While nothing is overtaken and nobody else interferes, a dialog is open only over a settled
\* board, submissions are made in it one at a time, and the last load brings the board to the
\* schedule.
CallsInDialog ==
  /\ \A j \in Jobs : InCall(j) => dialog.open /\ loading /\ job[j].day = day
  /\ \A i, j \in Jobs : InCall(i) /\ InCall(j) => i = j
  /\ \A j \in Jobs : job[j].kind = "create" => job[j].slots \subseteq SlotsOf[job[j].day]
OpenOverBoard ==
  /\ dialog.open => flights = <<>> /\ dialog.slot \in DOMAIN shown
  /\ flights = <<>> => DOMAIN shown = SlotsOf[day]
BoardIsTrue == flights = <<>> /\ (\A j \in Jobs : ~InCall(j)) => shown = Board(day, slotOf)
LastIsTrue  == flights # <<>> => /\ flights[Len(flights)].day = day
                                 /\ flights[Len(flights)].board = Board(day, slotOf)
Tidy == CallsInDialog /\ OpenOverBoard /\ BoardIsTrue /\ LastIsTrue
BoardInv == DeskIInv /\ Targets /\ (calm => Tidy)

-----------------------------------------------------------------------------
LEMMA TidyBoard == BoardInv => BoardFollowsOwnWrites
<1> SUFFICES ASSUME BoardInv, calm PROVE
      /\ flights = <<>> /\ Busy = {} => shown = Board(day, slotOf)
      /\ dialog.open /\ dialog.mode = "create" => dialog.slot \in SlotsOf[day]
      /\ \A j \in Jobs : job[j].kind = "create" => job[j].slots \subseteq SlotsOf[job[j].day]
  BY DEF BoardFollowsOwnWrites
<1>1. Busy = {} => \A j \in Jobs : ~InCall(j)
  BY IdleIsJob DEF Busy, InCall
<1> QED BY <1>1 DEF BoardInv, Tidy, BoardIsTrue, OpenOverBoard, CallsInDialog

\* An open dialog is to be seen.
LEMMA OpenIsVisible == ASSUME BoardInv, calm, dialog.open PROVE Visible
<1>1. dialog.slot \in DOMAIN shown /\ DOMAIN shown = SlotsOf[day] /\ day \in Days
  BY DEF BoardInv, Tidy, OpenOverBoard, Targets
<1>2. dialog.slot # None
  BY <1>1, DeskAssumption
<1> QED BY <1>1, <1>2 DEF Visible, StartIsKnown

LEMMA BoardsDomain == ASSUME NEW d, NEW of PROVE DOMAIN Board(d, of) = SlotsOf[d]
BY DEF Board

\* A load that is asked for is the last.
LEMMA AskedLast ==
  ASSUME DeskShape, NEW d, NEW j, Asked(d, j)
  PROVE  /\ flights' # <<>> /\ flights'[Len(flights')].day = d
         /\ flights'[Len(flights')].board = Board(d, slotOf')
<1>1. PICK b : b = [day |-> d, board |-> Board(d, slotOf'), job |-> j] /\ flights' = Append(flights, b)
  BY DEF Asked
<1>2. PICK S : flights \in Seq(S)
  BY DEF DeskShape
<1> DEFINE T == S \cup {b}
<1>3. flights \in Seq(T) /\ b \in T
  BY <1>2
<1> HIDE DEF T
<1>4. flights' # <<>> /\ Len(flights') = Len(flights) + 1 /\ flights'[Len(flights) + 1] = b
  BY <1>1, <1>3, AppendProperties
<1> QED BY <1>1, <1>4

LEMMA PickDayTidy ==
  ASSUME BoardInv, NEW d \in Days, PickDay(d)
  PROVE  Targets' /\ (calm' => Tidy')
<1>1. /\ ~Visible /\ day' = d /\ Asked(d, 0) /\ slotOf' = slotOf
      /\ UNCHANGED <<shown, dialog, job, calm>>
  BY DEF PickDay, server
<1>2. Targets'
  BY <1>1 DEF BoardInv, Targets
<1>3. ASSUME calm PROVE Tidy'
  <2>1. ~dialog.open
    BY <1>1, <1>3, OpenIsVisible
  <2>2. CallsInDialog'
    BY <1>1, <1>3, <2>1 DEF BoardInv, Tidy, CallsInDialog, InCall
  <2>3. flights' # <<>> /\ LastIsTrue'
    BY <1>1, AskedLast DEF BoardInv, DeskIInv, LastIsTrue
  <2> QED BY <1>1, <2>1, <2>2, <2>3 DEF Tidy, OpenOverBoard, BoardIsTrue
<1> QED BY <1>1, <1>2, <1>3

\* Loads arrive in order: the last one brings what the page should show.
LEMMA ArrivesTidy ==
  ASSUME BoardInv, NEW i \in DOMAIN flights, loadArrives(i)
  PROVE  Targets' /\ (calm' => Tidy')
<1>1. PICK f : f = flights[i]
  OBVIOUS
<1>2. /\ shown' = f.board /\ flights' = RemoveAt(flights, i) /\ JobEnds(f)
      /\ day' = day /\ slotOf' = slotOf /\ (calm' => calm /\ i = 1)
      /\ loading' = LoadingWhenLoaded(f)
  BY <1>1, Zenon DEF loadArrives, server
<1>3. \A j \in Jobs : job'[j] = IF j = f.job THEN Idle ELSE job[j]
  BY <1>2 DEF JobEnds
<1>4. \A j \in Jobs : job'[j].kind # "none" => job'[j] = job[j]
  BY <1>3, IdleIsJob
<1>5. /\ dialog' = [open |-> dialog'.open, mode |-> dialog'.mode, key |-> dialog'.key, slot |-> dialog'.slot]
      /\ dialog'.open = dialog.open
  BY <1>1 DEF loadArrives, BoardInv, Targets
<1>6. Targets'
  BY <1>2, <1>4, <1>5 DEF BoardInv, Targets
<1>7. ASSUME calm' PROVE Tidy'
  <2>1. calm /\ i = 1 /\ flights # <<>>
    BY <1>2, <1>7
  <2>2. ~dialog.open
    BY <2>1 DEF BoardInv, Tidy, OpenOverBoard
  <2>3. \A j \in Jobs : ~InCall(j)
    BY <2>1, <2>2 DEF BoardInv, Tidy, CallsInDialog
  <2>4. \A j \in Jobs : ~InCall(j)'
    BY <1>4, <2>3 DEF InCall
  <2>5. CallsInDialog'
    BY <1>4, <2>1, <2>4 DEF BoardInv, Tidy, CallsInDialog
  <2>6. PICK S : flights \in Seq(S)
    BY DEF BoardInv, DeskIInv, DeskShape
  <2>7. /\ flights' \in Seq(S) /\ Len(flights') = Len(flights) - 1
        /\ \A k \in 1..(Len(flights) - 1) : flights'[k] = flights[k + 1]
    <3>1. \A k \in 1..(Len(flights) - 1) : ~(k < i)
      BY <2>1
    <3> QED BY <1>2, <2>6, <3>1, Removed
  <2>8. PICK n \in Nat : n = Len(flights) /\ n >= 1 /\ DOMAIN flights = 1..n
    BY <2>1, <2>6
  <2>9. flights[n].day = day /\ flights[n].board = Board(day, slotOf)
    BY <2>1, <2>8 DEF BoardInv, Tidy, LastIsTrue
  <2>10. CASE n = 1
    <3>1. flights' = <<>>
      BY <2>7, <2>8, <2>10
    <3>2. shown' = Board(day, slotOf)
      BY <1>1, <1>2, <2>1, <2>9, <2>10
    <3> QED BY <1>2, <1>5, <2>2, <2>5, <3>1, <3>2, BoardsDomain
            DEF Tidy, OpenOverBoard, BoardIsTrue, LastIsTrue
  <2>11. CASE n > 1
    <3>1. n - 1 \in 1..(n - 1) /\ (n - 1) + 1 = n
      BY <2>8, <2>11
    <3>2. flights'[n - 1] = flights[n] /\ Len(flights') = n - 1
      BY <2>7, <2>8, <3>1
    <3>3. flights' # <<>>
      BY <2>7, <2>8, <2>11, <3>2, EmptySeq
    <3> QED BY <1>2, <1>5, <2>2, <2>5, <2>9, <3>2, <3>3 DEF Tidy, OpenOverBoard, BoardIsTrue, LastIsTrue
  <2> QED BY <2>8, <2>10, <2>11
<1> QED BY <1>6, <1>7

LEMMA LoadFailsTidy ==
  ASSUME BoardInv, NEW i, loadFails(i)
  PROVE  Targets' /\ ~calm'
<1>1. PICK f : f = flights[i]
  OBVIOUS
<1>2. JobEnds(f) /\ UNCHANGED <<day, dialog>> /\ calm' = FALSE
  BY <1>1 DEF loadFails
<1>3. \A j \in Jobs : job'[j].kind # "none" => job'[j] = job[j]
  BY <1>2, IdleIsJob DEF JobEnds
<1> QED BY <1>2, <1>3 DEF BoardInv, Targets

LEMMA DialogTidy ==
  ASSUME BoardInv, CloseDialog \/ \E s \in Slots : ClickCell(s)
  PROVE  Targets' /\ (calm' => Tidy')
<1>1. UNCHANGED <<day, shown, flights, slotOf, job, loading>>
  BY DEF CloseDialog, ClickCell, server
<1>2. CASE CloseDialog
  <2>1. dialog' = [dialog EXCEPT !.open = FALSE] /\ ~loading /\ calm' = calm
    BY <1>2 DEF CloseDialog
  <2>2. Targets' /\ ~dialog'.open
    BY <1>1, <2>1 DEF BoardInv, Targets
  <2>3. calm => Tidy'
    BY <1>1, <2>1, <2>2 DEF BoardInv, Tidy, CallsInDialog, OpenOverBoard, BoardIsTrue, LastIsTrue, InCall
  <2> QED BY <2>1, <2>2, <2>3
<1>3. ASSUME NEW s \in Slots, ClickCell(s) PROVE Targets' /\ (calm' => Tidy')
  <2>1. /\ s \in DOMAIN shown /\ ~Visible /\ dialog'.open /\ dialog'.slot = s
        /\ dialog' = [open |-> dialog'.open, mode |-> dialog'.mode, key |-> dialog'.key, slot |-> dialog'.slot]
    BY <1>3 DEF ClickCell
  <2>2. calm' => calm /\ flights = <<>>
    BY <1>3, Zenon DEF ClickCell
  <2>3. Targets'
    BY <1>1, <2>1 DEF BoardInv, Targets
  <2>4. ASSUME calm' PROVE Tidy'
    BY <1>1, <2>1, <2>2, <2>4 DEF BoardInv, Tidy, CallsInDialog, OpenOverBoard, BoardIsTrue, LastIsTrue, InCall
  <2> QED BY <2>3, <2>4
<1> QED BY <1>2, <1>3

\* A submission is made for the day of the page, a creation with the slot that was clicked.
LEMMA SubmittedTidy ==
  ASSUME BoardInv, NEW j \in Jobs, NEW new, Submitted(j, new), new.stage = "call", new.day = day,
         IsJob(new),
         new.kind = "update" => new.slots # {} /\ \E d \in Days : new.slots \subseteq SlotsOf[d],
         new.kind = "create" => dialog.slot \in new.slots /\ \E d \in Days : new.slots \subseteq SlotsOf[d]
  PROVE  Targets' /\ (calm' => Tidy')
<1>1. /\ Visible /\ ~loading /\ loading' /\ job' = [job EXCEPT ![j] = new]
      /\ UNCHANGED <<day, shown, flights, slotOf, dialog, calm>>
  BY DEF Submitted, server
<1>2. job'[j] = new /\ \A i \in Jobs : i # j => job'[i] = job[i]
  BY <1>1, JobChanged DEF BoardInv, DeskIInv
<1>3. Targets'
  BY <1>1, <1>2 DEF BoardInv, Targets
<1>4. ASSUME calm PROVE Tidy'
  <2>1. dialog.open
    BY <1>1 DEF Visible
  <2>2. \A i \in Jobs : ~InCall(i)
    BY <1>1, <1>4 DEF BoardInv, Tidy, CallsInDialog
  <2>3. flights = <<>> /\ dialog.slot \in SlotsOf[day] /\ day \in Days
    BY <1>4, <2>1 DEF BoardInv, Tidy, OpenOverBoard, Targets
  <2>4. new.kind = "create" => new.slots \subseteq SlotsOf[day]
    BY <2>3, DeskAssumption
  <2>5. \A i \in Jobs : InCall(i)' => i = j
    BY <1>2, <2>2 DEF InCall
  <2>6. CallsInDialog'
    BY <1>1, <1>2, <1>4, <2>1, <2>4, <2>5 DEF BoardInv, Tidy, CallsInDialog
  <2>7. OpenOverBoard' /\ LastIsTrue'
    BY <1>1, <1>4 DEF BoardInv, Tidy, OpenOverBoard, LastIsTrue
  <2>8. BoardIsTrue'
    BY <1>1, <1>4, <2>2 DEF BoardInv, Tidy, BoardIsTrue
  <2> QED BY <2>6, <2>7, <2>8 DEF Tidy
<1> QED BY <1>1, <1>3, <1>4

LEMMA SubmissionTidy ==
  ASSUME BoardInv, NEW j \in Jobs, NEW S, SubmitCreate(j, S) \/ SubmitUpdate(j, S) \/ SubmitCancel(j)
  PROVE  Targets' /\ (calm' => Tidy')
<1>1. CASE SubmitCreate(j, S)
  <2>1. PICK new : /\ new = [Idle EXCEPT !.kind = "create", !.slots = S, !.day = day]
                   /\ Submitted(j, new) /\ dialog.slot \in S /\ \E d \in Days : S \subseteq SlotsOf[d]
    BY <1>1 DEF SubmitCreate
  <2>2. IsJob(new) /\ new.kind = "create" /\ new.stage = "call" /\ new.day = day /\ new.slots = S
    BY <2>1 DEF IsJob, Idle
  <2> QED BY <2>1, <2>2, SubmittedTidy
<1>2. CASE SubmitUpdate(j, S)
  <2>1. PICK new : /\ new = [Idle EXCEPT !.kind = "update", !.slots = S, !.day = day, !.ids = Selected]
                   /\ Submitted(j, new) /\ S # {} /\ \E d \in Days : S \subseteq SlotsOf[d]
    BY <1>2 DEF SubmitUpdate
  <2>2. IsJob(new) /\ new.kind = "update" /\ new.stage = "call" /\ new.day = day /\ new.slots = S
    BY <2>1 DEF IsJob, Idle
  <2> QED BY <2>1, <2>2, SubmittedTidy
<1>3. CASE SubmitCancel(j)
  <2>1. PICK new : /\ new = [Idle EXCEPT !.kind = "cancel", !.day = day, !.ids = Selected, !.todo = Selected]
                   /\ Submitted(j, new)
    BY <1>3 DEF SubmitCancel
  <2>2. IsJob(new) /\ new.kind = "cancel" /\ new.stage = "call" /\ new.day = day
    BY <2>1 DEF IsJob, Idle
  <2> QED BY <2>1, <2>2, SubmittedTidy
<1> QED BY <1>1, <1>2, <1>3

\* A call that fails ends what is looked at.
LEMMA CallFailsTidy ==
  ASSUME BoardInv, NEW j \in Jobs, CallFails(j)
  PROVE  Targets' /\ ~calm'
<1>1. job' = [job EXCEPT ![j] = Idle] /\ UNCHANGED <<day, dialog>> /\ calm' = FALSE
  BY DEF CallFails
<1>2. job'[j] = Idle /\ \A i \in Jobs : i # j => job'[i] = job[i]
  BY <1>1, JobChanged, IdleIsJob DEF BoardInv, DeskIInv
<1> QED BY <1>1, <1>2, IdleIsJob DEF BoardInv, Targets

\* The last call of a submission: the dialog is closed, and the day it was made for, which is
\* that of the page, is loaded again.
LEMMA ReloadTidy ==
  ASSUME BoardInv, NEW j \in Jobs, InCall(j), ReloadFor(j), ~dialog'.open,
         dialog' = [open |-> dialog'.open, mode |-> dialog'.mode, key |-> dialog'.key, slot |-> dialog'.slot]
  PROVE  Targets' /\ (calm' => Tidy')
<1>1. PICK new : new = [job[j] EXCEPT !.stage = "reload", !.todo = {}]
  OBVIOUS
<1>2. /\ Asked(job[j].day, j) /\ UNCHANGED <<day, shown, calm>>
      /\ job' = [job EXCEPT ![j] = new]
  BY <1>1 DEF ReloadFor, BoardInv, DeskIInv, DeskShape
<1>3. /\ IsJob(new) /\ new.stage = "reload" /\ new.kind = job[j].kind /\ new.slots = job[j].slots
      /\ new.day = job[j].day
  <2>1. IsJob(job[j])
    BY DEF BoardInv, DeskIInv, DeskShape
  <2>2. new = [kind |-> job[j].kind, stage |-> "reload", slots |-> job[j].slots, ids |-> job[j].ids,
               todo |-> {}, day |-> job[j].day]
    BY <1>1, <2>1 DEF IsJob
  <2> QED BY <2>2 DEF IsJob
<1>4. job'[j] = new /\ \A i \in Jobs : i # j => job'[i] = job[i]
  BY <1>2, <1>3, JobChanged DEF BoardInv, DeskIInv
<1>5. Targets'
  BY <1>2, <1>3, <1>4 DEF BoardInv, Targets
<1>6. ASSUME calm PROVE Tidy'
  <2>1. \A i \in Jobs : ~InCall(i)'
    BY <1>3, <1>4, <1>6 DEF BoardInv, Tidy, CallsInDialog, InCall
  <2>2. CallsInDialog'
    BY <1>3, <1>4, <1>6, <2>1 DEF BoardInv, Tidy, CallsInDialog
  <2>3. job[j].day = day
    BY <1>6 DEF BoardInv, Tidy, CallsInDialog
  <2>4. flights' # <<>> /\ LastIsTrue'
    BY <1>2, <2>3, AskedLast DEF BoardInv, DeskIInv, LastIsTrue
  <2> QED BY <2>2, <2>4 DEF Tidy, OpenOverBoard, BoardIsTrue
<1> QED BY <1>2, <1>5, <1>6

\* A submission goes on to its next call.
LEMMA WorkingTidy ==
  ASSUME BoardInv, NEW j \in Jobs, InCall(j), NEW new, IsJob(new), new.kind = job[j].kind,
         new.stage = "call", new.slots = job[j].slots, new.day = job[j].day,
         job' = [job EXCEPT ![j] = new], UNCHANGED <<day, shown, flights, loading, dialog, calm>>
  PROVE  Targets' /\ (calm' => Tidy')
<1>1. job'[j] = new /\ \A i \in Jobs : i # j => job'[i] = job[i]
  BY JobChanged DEF BoardInv, DeskIInv
<1>2. Targets'
  BY <1>1 DEF BoardInv, Targets
<1>3. \A i \in Jobs : InCall(i)' <=> InCall(i)
  BY <1>1 DEF InCall
<1>4. ASSUME calm PROVE Tidy'
  <2>1. dialog.open /\ flights = <<>>
    BY <1>4 DEF BoardInv, Tidy, CallsInDialog, OpenOverBoard
  <2>2. CallsInDialog'
    BY <1>1, <1>3, <1>4 DEF BoardInv, Tidy, CallsInDialog
  <2>3. OpenOverBoard'
    BY <1>4 DEF BoardInv, Tidy, OpenOverBoard
  <2> QED BY <1>3, <2>1, <2>2, <2>3 DEF Tidy, BoardIsTrue, LastIsTrue
<1> QED BY <1>2, <1>4

LEMMA CreateTidy ==
  ASSUME BoardInv, NEW j \in Jobs, CreateAnswered(j) \/ PaymentSaved(j)
  PROVE  Targets' /\ (calm' => Tidy')
<1>1. InCall(j) /\ IsJob(job[j]) /\ job = [i \in Jobs |-> job[i]]
  BY DEF CreateAnswered, PaymentSaved, Calling, InCall, BoardInv, DeskIInv, DeskShape
<1>2. CASE CreateAnswered(j)
  <2>1. PICK made : /\ job' = [job EXCEPT ![j].ids = made, ![j].todo = made]
                    /\ UNCHANGED <<day, shown, flights, loading, dialog, calm>>
    BY <1>2 DEF CreateAnswered
  <2>2. PICK new : new = [job[j] EXCEPT !.ids = made, !.todo = made]
    OBVIOUS
  <2>3. new = [kind |-> job[j].kind, stage |-> job[j].stage, slots |-> job[j].slots, ids |-> made, todo |-> made,
               day |-> job[j].day]
    BY <1>1, <2>2 DEF IsJob
  <2>4. IsJob(new) /\ new.stage = "call" /\ new.kind = job[j].kind /\ new.slots = job[j].slots /\ new.day = job[j].day
    BY <1>1, <2>3 DEF IsJob, InCall
  <2>5. job' = [job EXCEPT ![j] = new]
    BY <1>1, <2>1, <2>2
  <2> QED BY <1>1, <2>1, <2>4, <2>5, WorkingTidy
<1>3. CASE PaymentSaved(j)
  <2>1. CASE job[j].todo = {FirstIn(job[j].todo)}
    <3>1. dialog' = Closed /\ ReloadFor(j)
      BY <1>3, <2>1 DEF PaymentSaved
    <3>2. /\ ~dialog'.open
          /\ dialog' = [open |-> dialog'.open, mode |-> dialog'.mode, key |-> dialog'.key, slot |-> dialog'.slot]
      BY <3>1 DEF Closed
    <3> QED BY <1>1, <3>1, <3>2, ReloadTidy
  <2>2. CASE job[j].todo # {FirstIn(job[j].todo)}
    <3>1. PICK rest : rest = job[j].todo \ {FirstIn(job[j].todo)}
      OBVIOUS
    <3>2. PICK new : new = [job[j] EXCEPT !.todo = rest]
      OBVIOUS
    <3>3. job' = [job EXCEPT ![j] = new] /\ UNCHANGED <<day, shown, flights, loading, dialog, calm>>
      BY <1>1, <1>3, <2>2, <3>1, <3>2 DEF PaymentSaved
    <3>4. new = [kind |-> job[j].kind, stage |-> job[j].stage, slots |-> job[j].slots, ids |-> job[j].ids,
                 todo |-> rest, day |-> job[j].day]
      BY <1>1, <3>2 DEF IsJob
    <3>5. IsJob(new) /\ new.stage = "call" /\ new.kind = job[j].kind /\ new.slots = job[j].slots /\ new.day = job[j].day
      BY <1>1, <3>4 DEF IsJob, InCall
    <3> QED BY <1>1, <3>3, <3>5, WorkingTidy
  <2> QED BY <2>1, <2>2
<1> QED BY <1>2, <1>3

\* A group moved to another day: the page goes there, and asks for that day.
LEMMA UpdateTidy ==
  ASSUME BoardInv, NEW j \in Jobs, UpdateAnswered(j)
  PROVE  Targets' /\ (calm' => Tidy')
<1>1. InCall(j) /\ job[j].kind = "update"
  BY DEF UpdateAnswered, Calling, InCall
<1>2. PICK target : target = DayOf(CHOOSE s \in job[j].slots : TRUE)
  OBVIOUS
<1>3. target \in Days
  <2>1. PICK d \in Days : job[j].slots # {} /\ job[j].slots \subseteq SlotsOf[d]
    BY <1>1 DEF BoardInv, Targets
  <2>2. PICK s : s = CHOOSE u \in job[j].slots : TRUE
    OBVIOUS
  <2>3. s \in SlotsOf[d]
    BY <2>1, <2>2
  <2> QED BY <1>2, <2>2, <2>3 DEF DayOf
<1>4. dialog' = [dialog EXCEPT !.open = FALSE, !.key = None, !.slot = IF desk = "admin" THEN None ELSE @]
  BY DEF UpdateAnswered
<1>5. /\ ~dialog'.open
      /\ dialog' = [open |-> dialog'.open, mode |-> dialog'.mode, key |-> dialog'.key, slot |-> dialog'.slot]
  BY <1>4 DEF BoardInv, Targets
<1>6. CASE target = job[j].day
  <2>1. ReloadFor(j)
    BY <1>2, <1>6 DEF UpdateAnswered
  <2> QED BY <1>1, <1>5, <2>1, ReloadTidy
<1>7. CASE target # job[j].day
  <2>1. /\ day' = target /\ job' = [job EXCEPT ![j] = Idle] /\ UNCHANGED <<shown, calm>>
        /\ target # day => Asked(target, 0)
    BY <1>2, <1>7 DEF UpdateAnswered
  <2>2. job'[j] = Idle /\ \A i \in Jobs : i # j => job'[i] = job[i]
    BY <2>1, JobChanged, IdleIsJob DEF BoardInv, DeskIInv
  <2>3. Targets'
    BY <1>3, <1>5, <2>1, <2>2, IdleIsJob DEF BoardInv, Targets
  <2>4. ASSUME calm PROVE Tidy'
    <3>1. job[j].day = day
      BY <1>1, <2>4 DEF BoardInv, Tidy, CallsInDialog
    <3>2. flights' # <<>> /\ LastIsTrue'
      BY <1>7, <2>1, <3>1, AskedLast DEF BoardInv, DeskIInv, LastIsTrue
    <3>3. \A i \in Jobs : ~InCall(i)'
      BY <1>1, <2>2, <2>4, IdleIsJob DEF BoardInv, Tidy, CallsInDialog, InCall
    <3>4. CallsInDialog'
      BY <2>2, <2>4, <3>3, IdleIsJob DEF BoardInv, Tidy, CallsInDialog
    <3> QED BY <1>5, <3>2, <3>4 DEF Tidy, OpenOverBoard, BoardIsTrue
  <2> QED BY <2>1, <2>3, <2>4
<1> QED BY <1>6, <1>7

LEMMA CancelTidy ==
  ASSUME BoardInv, NEW j \in Jobs, CancelAnswered(j)
  PROVE  Targets' /\ (calm' => Tidy')
<1>1. InCall(j) /\ IsJob(job[j]) /\ job = [i \in Jobs |-> job[i]]
  BY DEF CancelAnswered, Calling, InCall, BoardInv, DeskIInv, DeskShape
<1>2. CASE job[j].todo = {FirstIn(job[j].todo)}
  <2>1. dialog' = [dialog EXCEPT !.open = FALSE, !.key = None] /\ ReloadFor(j)
    BY <1>2 DEF CancelAnswered
  <2>2. /\ ~dialog'.open
        /\ dialog' = [open |-> dialog'.open, mode |-> dialog'.mode, key |-> dialog'.key, slot |-> dialog'.slot]
    BY <2>1 DEF BoardInv, Targets
  <2> QED BY <1>1, <2>1, <2>2, ReloadTidy
<1>3. CASE job[j].todo # {FirstIn(job[j].todo)}
  <2>1. PICK rest : rest = job[j].todo \ {FirstIn(job[j].todo)}
    OBVIOUS
  <2>2. PICK new : new = [job[j] EXCEPT !.todo = rest]
    OBVIOUS
  <2>3. job' = [job EXCEPT ![j] = new] /\ UNCHANGED <<day, shown, flights, loading, dialog, calm>>
    BY <1>1, <1>3, <2>1, <2>2 DEF CancelAnswered
  <2>4. new = [kind |-> job[j].kind, stage |-> job[j].stage, slots |-> job[j].slots, ids |-> job[j].ids,
               todo |-> rest, day |-> job[j].day]
    BY <1>1, <2>2 DEF IsJob
  <2>5. IsJob(new) /\ new.stage = "call" /\ new.kind = job[j].kind /\ new.slots = job[j].slots /\ new.day = job[j].day
    BY <1>1, <2>4 DEF IsJob, InCall
  <2> QED BY <1>1, <2>3, <2>5, WorkingTidy
<1> QED BY <1>2, <1>3

LEMMA InitTidy == DeskInit => BoardInv
<1> SUFFICES ASSUME DeskInit PROVE BoardInv
  OBVIOUS
<1>1. \A j \in Jobs : job[j] = Idle
  BY DEF DeskInit
<1>2. \A j \in Jobs : ~InCall(j) /\ job[j].kind = "none"
  BY <1>1, IdleIsJob DEF InCall
<1>3. /\ dialog = Closed /\ flights = <<>> /\ day \in Days /\ shown = Board(day, slotOf)
  BY DEF DeskInit
<1>4. ~dialog.open /\ dialog = [open |-> dialog.open, mode |-> dialog.mode, key |-> dialog.key, slot |-> dialog.slot]
  BY <1>3 DEF Closed
<1>5. Targets
  BY <1>2, <1>3, <1>4 DEF Targets
<1>6. Tidy
  BY <1>2, <1>3, <1>4, BoardsDomain DEF Tidy, CallsInDialog, OpenOverBoard, BoardIsTrue, LastIsTrue
<1> QED BY <1>5, <1>6, DeskInitInv DEF BoardInv

LEMMA NextTidy == BoardInv /\ [DeskNext]_deskVars => BoardInv'
<1> SUFFICES ASSUME BoardInv, [DeskNext]_deskVars PROVE Targets' /\ (calm' => Tidy')
  BY DeskNextInv DEF BoardInv
<1>1. CASE UNCHANGED deskVars
  <2>1. Targets'
    BY <1>1 DEF deskVars, BoardInv, Targets
  <2>2. calm' => Tidy'
    BY <1>1 DEF deskVars, server, BoardInv, Tidy, CallsInDialog, OpenOverBoard, BoardIsTrue, LastIsTrue, InCall
  <2> QED BY <2>1, <2>2
<1>2. CASE \E d \in Days : PickDay(d)
  BY <1>2, PickDayTidy
<1>3. CASE LoadEnds
  BY <1>3, ArrivesTidy, LoadFailsTidy DEF LoadEnds
<1>4. CASE (\E s \in Slots : ClickCell(s)) \/ CloseDialog
  BY <1>4, DialogTidy
<1>5. ASSUME NEW j \in Jobs, NEW S, SubmitCreate(j, S) \/ SubmitUpdate(j, S) \/ SubmitCancel(j)
      PROVE  Targets' /\ (calm' => Tidy')
  BY <1>5, SubmissionTidy
<1>6. ASSUME NEW j \in Jobs, CallEnds(j) PROVE Targets' /\ (calm' => Tidy')
  <2>1. CASE CreateFails(j) \/ PaymentFails(j) \/ UpdateFails(j) \/ CancelFails(j)
    <3>1. CallFails(j)
      BY <2>1 DEF CreateFails, PaymentFails, UpdateFails, CancelFails
    <3> QED BY <3>1, CallFailsTidy
  <2> QED BY <1>6, <2>1, CreateTidy, UpdateTidy, CancelTidy DEF CallEnds
<1>7. CASE OthersChange
  BY <1>7 DEF OthersChange, BoardInv, Targets
<1> QED BY <1>1, <1>2, <1>3, <1>4, <1>5, <1>6, <1>7 DEF DeskNext

\* When all is settled, a desk shows the schedule of its day with everything it has changed
\* itself, and a new booking is of the day the page shows, however many loads and submissions.
THEOREM DeskShowsItsWrites == DeskSpec => []BoardFollowsOwnWrites
<1>1. DeskSpec => []BoardInv
  BY InitTidy, NextTidy, PTL DEF DeskSpec
<1> QED BY <1>1, TidyBoard, PTL

-----------------------------------------------------------------------------
(* The types of the desk pages.                                            *)

ServerTyped == /\ slotOf \in [Bookings -> Slots \cup {None}] /\ keyOf \in [Bookings -> Bookings \cup {0}]
               /\ gone \subseteq Bookings /\ mine \subseteq Bookings
BoardTyped(b, d) == b \in [SlotsOf[d] -> Bookings \cup {None}]
LoadsTyped  == \A i \in DOMAIN flights : /\ flights[i].day \in Days /\ flights[i].job \in Jobs \cup {0}
                                         /\ BoardTyped(flights[i].board, flights[i].day)

\* A submission has a day, and a cancellation something to cancel.
JobTyped(r) == /\ r \in Job /\ (r.kind # "none" => r.day \in Days)
               /\ r.kind = "cancel" /\ r.stage = "call" => r.todo # {}
JobsTyped   == \A j \in Jobs : JobTyped(job[j])
PageTyped   == /\ shown = <<>> \/ \E d \in Days : BoardTyped(shown, d)
               /\ dialog.mode \in {"create", "edit"} /\ dialog.open \in BOOLEAN
               /\ calm \in BOOLEAN /\ told \subseteq Bookings
DeskTyped   == BoardInv /\ ServerTyped /\ LoadsTyped /\ JobsTyped /\ PageTyped

LEMMA DeskTypesHave == DeskTyped => DeskTypeOK
BY DEF DeskTyped, BoardInv, DeskIInv, DeskShape, Targets, ServerTyped, LoadsTyped, JobsTyped, JobTyped, PageTyped,
       BoardTyped, DeskTypeOK

\* The schedule of a day names a booking or none for each slot.
LEMMA BoardIsTyped ==
  ASSUME NEW d \in Days, NEW of \in [Bookings -> Slots \cup {None}]
  PROVE  BoardTyped(Board(d, of), d)
<1>1. ASSUME NEW s PROVE Keeper(s, of) \in Bookings \cup {None}
  <2>1. \E b \in Bookings \cup {None} : IF b = None THEN \A c \in Bookings : of[c] # s ELSE of[b] = s
    BY DeskAssumption
  <2> QED BY <2>1 DEF Keeper
<1> QED BY <1>1 DEF Board, BoardTyped

LEMMA FirstIsIn ==
  ASSUME NEW S \in SUBSET Bookings, S # {}
  PROVE  FirstIn(S) \in S
<1>1. S \subseteq Nat
  BY DeskAssumption
<1>2. \E b \in S : \A c \in S : b <= c
  BY <1>1, LeastNatural
<1> QED BY <1>2 DEF FirstIn

LEMMA OrderTyped ==
  ASSUME NEW S \in SUBSET Nat, IsFiniteSet(S)
  PROVE  InOrder(S) \in Seq(S)
<1>1. PICK R : R = {p \in S \X S : p[1] < p[2]}
  OBVIOUS
<1>2. \A x, y \in S : <<x, y>> \in R <=> x < y
  BY <1>1
<1>3. /\ \A x \in S : <<x, x>> \notin R
      /\ \A x, y \in S : x = y \/ <<x, y>> \in R \/ <<y, x>> \in R
      /\ \A x, y, z \in S : <<x, y>> \in R /\ <<y, z>> \in R => <<x, z>> \in R
  BY <1>2
<1>4. PICK list \in SetToSeqs(S) : \A i, j \in DOMAIN list : i < j => <<list[i], list[j]>> \in R
  BY <1>3, SortedExists
<1>5. \A i, k \in DOMAIN list : i < k => list[i] < list[k]
  <2>1. \A i \in DOMAIN list : list[i] \in S
    BY SeqOfSet
  <2> QED BY <1>2, <1>4, <2>1
<1>6. InOrder(S) \in SetToSeqs(S)
  BY <1>5 DEF InOrder
<1> QED BY <1>6, SeqOfSet

LEMMA MadeTyped ==
  ASSUME ServerTyped, NEW S \in SUBSET Slots, NEW new, MadeFor(S, new)
  PROVE  ServerTyped' /\ new \in SUBSET Bookings
<1>1. new \in SUBSET Bookings
  BY DEF MadeFor, Unused
<1>2. slotOf' \in [Bookings -> Slots \cup {None}]
  <2>1. PICK place \in [new -> S] : slotOf' = [b \in Bookings |-> IF b \in new THEN place[b] ELSE slotOf[b]]
    BY DEF MadeFor
  <2> QED BY <2>1 DEF ServerTyped
<1>3. keyOf' \in [Bookings -> Bookings \cup {0}]
  <2>1. new # {} => FirstIn(new) \in Bookings
    BY <1>1, FirstIsIn
  <2> QED BY <2>1 DEF MadeFor, ServerTyped
<1> QED BY <1>1, <1>2, <1>3 DEF MadeFor, ServerTyped, Slots

LEMMA RescheduledTyped ==
  ASSUME ServerTyped, JobsTyped, Targets, NEW j \in Jobs, job[j].kind = "update", Rescheduled(j)
  PROVE  ServerTyped'
<1>1. PICK from, to : from = InOrder(Members(j)) /\ to = InOrder(job[j].slots)
  OBVIOUS
<1>2. from \in Seq(Bookings)
  <2>1. Members(j) \in SUBSET Nat /\ Members(j) \subseteq Bookings /\ IsFiniteSet(Members(j))
    BY DeskAssumption, FS_Subset DEF Members
  <2>2. from \in Seq(Members(j))
    BY <1>1, <2>1, OrderTyped
  <2> QED BY <2>1, <2>2
<1>3. to \in Seq(Slots)
  <2>1. PICK d \in Days : job[j].slots \subseteq SlotsOf[d]
    BY DEF Targets
  <2>2. job[j].slots \in SUBSET Nat /\ IsFiniteSet(job[j].slots) /\ job[j].slots \subseteq Slots
    BY <2>1, DeskAssumption, FS_Subset DEF Slots
  <2>3. to \in Seq(job[j].slots)
    BY <1>1, <2>2, OrderTyped
  <2> QED BY <2>2, <2>3
<1>4. slotOf' = [b \in Bookings |-> IF b \notin Members(j) THEN slotOf[b]
                                    ELSE IF \E i \in DOMAIN to : from[i] = b
                                    THEN to[CHOOSE i \in DOMAIN to : from[i] = b] ELSE None]
  BY <1>1 DEF Rescheduled
<1>5. \A b : (\E i \in DOMAIN to : from[i] = b) => to[CHOOSE i \in DOMAIN to : from[i] = b] \in Slots
  BY <1>3
<1>6. slotOf' \in [Bookings -> Slots \cup {None}]
  BY <1>4, <1>5 DEF ServerTyped
<1>7. gone' = gone \cup {from[i] : i \in (Len(to) + 1)..Len(from)} /\ UNCHANGED <<keyOf, mine>>
  BY <1>1 DEF Rescheduled
<1>8. \A i \in (Len(to) + 1)..Len(from) : from[i] \in Bookings
  BY <1>2, <1>3
<1> QED BY <1>6, <1>7, <1>8 DEF ServerTyped, Slots

LEMMA CanceledTyped ==
  ASSUME ServerTyped, NEW b \in Bookings, Canceled(b)
  PROVE  ServerTyped'
BY DEF ServerTyped, Canceled, Slots

-----------------------------------------------------------------------------
\* One load more, of a day.
LEMMA AskedTyped ==
  ASSUME DeskShape, LoadsTyped, ServerTyped', NEW d \in Days, NEW j \in Jobs \cup {0}, Asked(d, j)
  PROVE  LoadsTyped'
<1>1. PICK b : b = [day |-> d, board |-> Board(d, slotOf'), job |-> j] /\ flights' = Append(flights, b)
  BY DEF Asked
<1>2. PICK last \in DOMAIN flights' :
        /\ flights'[last] = b
        /\ \A k \in DOMAIN flights' : k # last => k \in DOMAIN flights /\ flights'[k] = flights[k]
  BY <1>1, LoadAdded
<1>3. PICK of : of = slotOf'
  OBVIOUS
<1>4. BoardTyped(Board(d, of), d)
  <2>1. of \in [Bookings -> Slots \cup {None}]
    BY <1>3 DEF ServerTyped, Slots
  <2> QED BY <2>1, BoardIsTyped
<1>5. b.day = d /\ b.job = j /\ BoardTyped(b.board, d)
  BY <1>1, <1>3, <1>4
<1> QED BY <1>2, <1>5 DEF LoadsTyped, BoardTyped

LEMMA JobSetTyped ==
  ASSUME DeskShape, JobsTyped, NEW j \in Jobs, NEW new, JobTyped(new), job' = [job EXCEPT ![j] = new]
  PROVE  JobsTyped'
<1>1. \A i \in Jobs : job'[i] = IF i = j THEN new ELSE job[i]
  BY DEF DeskShape
<1> QED BY <1>1 DEF JobsTyped, JobTyped, Job, Slots

LEMMA IdleTyped == JobTyped(Idle)
BY DEF JobTyped, Idle, Job

\* A submission loads the day again.
LEMMA ReloadTyped ==
  ASSUME DeskTyped, ServerTyped', NEW j \in Jobs, job[j].kind # "none", ReloadFor(j),
         dialog'.mode \in {"create", "edit"}, dialog'.open \in BOOLEAN
  PROVE  LoadsTyped' /\ JobsTyped' /\ PageTyped'
<1>1. JobTyped(job[j]) /\ job[j].day \in Days
  BY DEF DeskTyped, JobsTyped, JobTyped
<1>2. LoadsTyped'
  BY <1>1, AskedTyped DEF ReloadFor, DeskTyped, BoardInv, DeskIInv
<1>3. PICK new : new = [job[j] EXCEPT !.stage = "reload", !.todo = {}]
  OBVIOUS
<1>4. JobTyped(new)
  BY <1>1, <1>3 DEF JobTyped, Job
<1>5. job' = [job EXCEPT ![j] = new]
  BY <1>3 DEF ReloadFor, DeskTyped, BoardInv, DeskIInv, DeskShape
<1>6. JobsTyped'
  BY <1>4, <1>5, JobSetTyped DEF DeskTyped, BoardInv, DeskIInv
<1>7. PageTyped'
  BY DEF ReloadFor, DeskTyped, PageTyped, BoardTyped
<1> QED BY <1>2, <1>6, <1>7

LEMMA CallFailsTyped ==
  ASSUME DeskTyped, NEW j \in Jobs, CallFails(j)
  PROVE  LoadsTyped' /\ JobsTyped' /\ PageTyped'
<1>1. JobsTyped'
  BY IdleTyped, JobSetTyped DEF CallFails, DeskTyped, BoardInv, DeskIInv
<1> QED BY <1>1 DEF CallFails, DeskTyped, LoadsTyped, PageTyped, BoardTyped

\* A submission goes on.
LEMMA WorkingTyped ==
  ASSUME DeskTyped, NEW j \in Jobs, NEW new, JobTyped(new), job' = [job EXCEPT ![j] = new],
         UNCHANGED <<shown, flights, dialog, told, calm>>
  PROVE  LoadsTyped' /\ JobsTyped' /\ PageTyped'
<1>1. JobsTyped'
  BY JobSetTyped DEF DeskTyped, BoardInv, DeskIInv
<1> QED BY <1>1 DEF DeskTyped, LoadsTyped, PageTyped, BoardTyped

\* The bookings of the selected group are bookings.
LEMMA SelectedTyped == DeskTyped => Selected \in SUBSET Bookings
<1> SUFFICES ASSUME DeskTyped PROVE Selected \in SUBSET Bookings
  OBVIOUS
<1>1. \A s \in DOMAIN shown : shown[s] \in Bookings \cup {None}
  BY DEF DeskTyped, PageTyped, BoardTyped
<1> QED BY <1>1 DEF Selected, ShownBookings

LEMMA SubmittedTyped ==
  ASSUME DeskTyped, NEW j \in Jobs, NEW S \in SUBSET Slots,
         SubmitCreate(j, S) \/ SubmitUpdate(j, S) \/ SubmitCancel(j)
  PROVE  ServerTyped' /\ LoadsTyped' /\ JobsTyped' /\ PageTyped'
<1>1. PICK new : /\ JobTyped(new) /\ Submitted(j, new)
  <2>1. day \in Days /\ Selected \in SUBSET Bookings
    BY SelectedTyped DEF DeskTyped, BoardInv, Targets
  <2>2. CASE SubmitCreate(j, S)
    <3>1. JobTyped([Idle EXCEPT !.kind = "create", !.slots = S, !.day = day])
      BY <2>1 DEF JobTyped, Idle, Job
    <3> QED BY <2>2, <3>1 DEF SubmitCreate
  <2>3. CASE SubmitUpdate(j, S)
    <3>1. JobTyped([Idle EXCEPT !.kind = "update", !.slots = S, !.day = day, !.ids = Selected])
      BY <2>1 DEF JobTyped, Idle, Job
    <3> QED BY <2>3, <3>1 DEF SubmitUpdate
  <2>4. CASE SubmitCancel(j)
    <3>1. Selected # {}
      BY <2>4 DEF SubmitCancel
    <3>2. JobTyped([Idle EXCEPT !.kind = "cancel", !.day = day, !.ids = Selected, !.todo = Selected])
      BY <2>1, <3>1 DEF JobTyped, Idle, Job
    <3> QED BY <2>4, <3>2 DEF SubmitCancel
  <2> QED BY <2>2, <2>3, <2>4
<1>2. job' = [job EXCEPT ![j] = new] /\ UNCHANGED <<server, mine, shown, flights, dialog, told, calm>>
  BY <1>1 DEF Submitted
<1>3. ServerTyped'
  BY <1>2 DEF DeskTyped, ServerTyped, server, Slots
<1> QED BY <1>1, <1>2, <1>3, WorkingTyped

LEMMA CreateTyped ==
  ASSUME DeskTyped, NEW j \in Jobs,
         CreateAnswered(j) \/ CreateFails(j) \/ PaymentSaved(j) \/ PaymentFails(j)
  PROVE  ServerTyped' /\ LoadsTyped' /\ JobsTyped' /\ PageTyped'
<1>1. /\ job[j].kind = "create" /\ job[j].stage = "call" /\ JobTyped(job[j]) /\ job[j].slots \in SUBSET Slots
      /\ job = [i \in Jobs |-> job[i]] /\ ServerTyped
  BY DEF CreateAnswered, CreateFails, PaymentSaved, PaymentFails, Calling, DeskTyped, JobsTyped, JobTyped, Job,
         BoardInv, DeskIInv, DeskShape
<1>2. UNCHANGED <<server, mine>> => ServerTyped'
  BY <1>1 DEF ServerTyped, server, Slots
<1>3. CASE CreateAnswered(j)
  <2>1. PICK made : /\ MadeFor(job[j].slots, made)
                    /\ job' = [job EXCEPT ![j].ids = made, ![j].todo = made]
                    /\ UNCHANGED <<shown, flights, dialog, told, calm>>
    BY <1>3 DEF CreateAnswered
  <2>2. ServerTyped' /\ made \in SUBSET Bookings
    BY <1>1, <2>1, MadeTyped
  <2>3. PICK new : new = [job[j] EXCEPT !.ids = made, !.todo = made]
    OBVIOUS
  <2>4. JobTyped(new)
    BY <1>1, <2>2, <2>3 DEF JobTyped, Job
  <2>5. job' = [job EXCEPT ![j] = new]
    BY <1>1, <2>1, <2>3
  <2> QED BY <2>1, <2>2, <2>4, <2>5, WorkingTyped
<1>4. CASE CreateFails(j)
  <2>1. ServerTyped'
    BY <1>1, <1>2, <1>4, MadeTyped DEF CreateFails
  <2> QED BY <1>4, <2>1, CallFailsTyped DEF CreateFails
<1>5. CASE PaymentSaved(j)
  <2>1. ServerTyped'
    BY <1>2, <1>5 DEF PaymentSaved
  <2>2. CASE job[j].todo = {FirstIn(job[j].todo)}
    <3>1. dialog' = Closed /\ ReloadFor(j)
      BY <1>5, <2>2 DEF PaymentSaved
    <3> QED BY <1>1, <2>1, <3>1, ReloadTyped DEF Closed
  <2>3. CASE job[j].todo # {FirstIn(job[j].todo)}
    <3>1. PICK rest : rest = job[j].todo \ {FirstIn(job[j].todo)}
      OBVIOUS
    <3>2. PICK new : new = [job[j] EXCEPT !.todo = rest]
      OBVIOUS
    <3>3. job' = [job EXCEPT ![j] = new] /\ UNCHANGED <<shown, flights, dialog, told, calm>>
      BY <1>1, <1>5, <2>3, <3>1, <3>2 DEF PaymentSaved
    <3>4. JobTyped(new)
      BY <1>1, <3>1, <3>2 DEF JobTyped, Job
    <3> QED BY <2>1, <3>3, <3>4, WorkingTyped
  <2> QED BY <2>2, <2>3
<1>6. CASE PaymentFails(j)
  BY <1>2, <1>6, CallFailsTyped DEF PaymentFails
<1> QED BY <1>3, <1>4, <1>5, <1>6

LEMMA UpdateTyped ==
  ASSUME DeskTyped, NEW j \in Jobs, UpdateAnswered(j) \/ UpdateFails(j)
  PROVE  ServerTyped' /\ LoadsTyped' /\ JobsTyped' /\ PageTyped'
<1>1. /\ job[j].kind = "update" /\ ServerTyped /\ JobsTyped /\ Targets
  BY DEF UpdateAnswered, UpdateFails, Calling, DeskTyped, BoardInv
<1>2. CASE UpdateAnswered(j)
  <2>1. ServerTyped'
    BY <1>1, <1>2, RescheduledTyped DEF UpdateAnswered
  <2>2. dialog'.mode \in {"create", "edit"} /\ dialog'.open \in BOOLEAN
    <3>1. dialog' = [dialog EXCEPT !.open = FALSE, !.key = None, !.slot = IF desk = "admin" THEN None ELSE @]
      BY <1>2 DEF UpdateAnswered
    <3> QED BY <1>1, <3>1 DEF Targets, DeskTyped, PageTyped
  <2>3. CASE ReloadFor(j)
    BY <1>1, <2>1, <2>2, <2>3, ReloadTyped
  <2>4. CASE ~ReloadFor(j)
    <3>1. PICK target : /\ target = DayOf(CHOOSE s \in job[j].slots : TRUE)
                        /\ job' = [job EXCEPT ![j] = Idle] /\ UNCHANGED <<shown, told, calm>>
                        /\ Asked(target, 0) \/ UNCHANGED flights
      BY <1>2, <2>4 DEF UpdateAnswered
    <3>2. target \in Days
      <4>1. PICK d \in Days : job[j].slots # {} /\ job[j].slots \subseteq SlotsOf[d]
        BY <1>1 DEF Targets
      <4>2. PICK s : s = CHOOSE u \in job[j].slots : TRUE
        OBVIOUS
      <4>3. s \in SlotsOf[d]
        BY <4>1, <4>2
      <4> QED BY <3>1, <4>2, <4>3 DEF DayOf
    <3>3. JobsTyped'
      BY <3>1, IdleTyped, JobSetTyped DEF DeskTyped, BoardInv, DeskIInv
    <3>4. LoadsTyped'
      BY <2>1, <3>1, <3>2, AskedTyped DEF DeskTyped, BoardInv, DeskIInv, LoadsTyped, BoardTyped
    <3>5. PageTyped'
      BY <2>2, <3>1 DEF DeskTyped, PageTyped, BoardTyped
    <3> QED BY <2>1, <3>3, <3>4, <3>5
  <2> QED BY <2>3, <2>4
<1>3. CASE UpdateFails(j)
  <2>1. ServerTyped'
    BY <1>1, <1>3, RescheduledTyped DEF UpdateFails, ServerTyped, server, Slots
  <2> QED BY <1>3, <2>1, CallFailsTyped DEF UpdateFails
<1> QED BY <1>2, <1>3

LEMMA CancelTyped ==
  ASSUME DeskTyped, NEW j \in Jobs, CancelAnswered(j) \/ CancelFails(j)
  PROVE  ServerTyped' /\ LoadsTyped' /\ JobsTyped' /\ PageTyped'
<1>1. /\ job[j].kind = "cancel" /\ JobTyped(job[j]) /\ job[j].todo # {} /\ job[j].todo \in SUBSET Bookings
      /\ job = [i \in Jobs |-> job[i]] /\ ServerTyped
  BY DEF CancelAnswered, CancelFails, Calling, DeskTyped, JobsTyped, JobTyped, Job, BoardInv, DeskIInv, DeskShape
<1>2. PICK b \in job[j].todo : b = FirstIn(job[j].todo)
  BY <1>1, FirstIsIn
<1>3. CASE CancelAnswered(j)
  <2>1. ServerTyped'
    BY <1>1, <1>2, <1>3, CanceledTyped DEF CancelAnswered
  <2>2. CASE job[j].todo = {b}
    <3>1. dialog' = [dialog EXCEPT !.open = FALSE, !.key = None] /\ ReloadFor(j)
      BY <1>2, <1>3, <2>2 DEF CancelAnswered
    <3>2. dialog'.mode \in {"create", "edit"} /\ dialog'.open \in BOOLEAN
      BY <3>1 DEF DeskTyped, BoardInv, Targets, PageTyped
    <3> QED BY <1>1, <2>1, <3>1, <3>2, ReloadTyped
  <2>3. CASE job[j].todo # {b}
    <3>1. PICK rest : rest = job[j].todo \ {b}
      OBVIOUS
    <3>2. PICK new : new = [job[j] EXCEPT !.todo = rest]
      OBVIOUS
    <3>3. job' = [job EXCEPT ![j] = new] /\ UNCHANGED <<shown, flights, dialog, told, calm>>
      BY <1>1, <1>2, <1>3, <2>3, <3>1, <3>2 DEF CancelAnswered
    <3>4. rest # {} /\ rest \in SUBSET Bookings
      BY <1>1, <1>2, <2>3, <3>1
    <3>5. JobTyped(new)
      BY <1>1, <3>2, <3>4 DEF JobTyped, Job
    <3> QED BY <2>1, <3>3, <3>5, WorkingTyped
  <2> QED BY <2>2, <2>3
<1>4. CASE CancelFails(j)
  <2>1. ServerTyped'
    BY <1>1, <1>2, <1>4, CanceledTyped DEF CancelFails, ServerTyped, server, Slots
  <2> QED BY <1>4, <2>1, CallFailsTyped DEF CancelFails
<1> QED BY <1>3, <1>4

LEMMA LoadEndTyped ==
  ASSUME DeskTyped, NEW i \in DOMAIN flights, loadArrives(i) \/ loadFails(i)
  PROVE  ServerTyped' /\ LoadsTyped' /\ JobsTyped' /\ PageTyped'
<1>1. PICK f : f = flights[i]
  OBVIOUS
<1>2. flights' = RemoveAt(flights, i) /\ JobEnds(f) /\ UNCHANGED <<server, mine>>
  BY <1>1 DEF loadArrives, loadFails
<1>3. ServerTyped'
  BY <1>2 DEF DeskTyped, ServerTyped, server, Slots
<1>4. LoadsTyped'
  <2>1. \A k \in DOMAIN flights' : \E m \in DOMAIN flights : m # i /\ flights'[k] = flights[m]
    BY <1>2, LoadRemoved DEF DeskTyped, BoardInv, DeskIInv
  <2> QED BY <2>1 DEF DeskTyped, LoadsTyped, BoardTyped
<1>5. f.day \in Days /\ f.job \in Jobs \cup {0} /\ BoardTyped(f.board, f.day)
  BY <1>1 DEF DeskTyped, LoadsTyped
<1>6. JobsTyped'
  <2>1. \A j \in Jobs : job'[j] = IF j = f.job THEN Idle ELSE job[j]
    BY <1>2 DEF JobEnds
  <2> QED BY <2>1, IdleTyped DEF DeskTyped, JobsTyped, JobTyped, Job, Slots
<1>7. told' \subseteq Bookings
  <2>1. f.job # 0 => job[f.job].ids \subseteq Bookings
    BY <1>5 DEF DeskTyped, JobsTyped, JobTyped, Job
  <2> QED BY <1>2, <2>1 DEF JobEnds, DeskTyped, PageTyped
<1>8. dialog'.mode \in {"create", "edit"} /\ dialog'.open \in BOOLEAN /\ calm' \in BOOLEAN
  <2>1. CASE dialog' = dialog
    BY <2>1 DEF loadArrives, loadFails, DeskTyped, PageTyped
  <2>2. CASE dialog' = [dialog EXCEPT !.key = staffKey(f.board)]
    BY <2>2 DEF loadArrives, loadFails, DeskTyped, PageTyped, BoardInv, Targets
  <2> QED BY <1>1, <2>1, <2>2 DEF loadArrives, loadFails
<1>9. shown' = <<>> \/ \E d \in Days : BoardTyped(shown', d)
  BY <1>1, <1>5 DEF loadArrives, loadFails, DeskTyped, PageTyped
<1> QED BY <1>3, <1>4, <1>6, <1>7, <1>8, <1>9 DEF PageTyped, BoardTyped

LEMMA DeskInitTyped == DeskInit => DeskTyped
<1> SUFFICES ASSUME DeskInit PROVE DeskTyped
  OBVIOUS
<1>1. ServerTyped
  <2>1. AtFirst \subseteq Slots /\ FirstBookings \subseteq Bookings
    BY DeskAssumption DEF DeskInit, Slots, FirstBookings
  <2>2. slotOf \in [Bookings -> Slots \cup {None}]
    BY <2>1 DEF DeskInit
  <2>3. keyOf \in [Bookings -> Bookings \cup {0}]
    <3>1. \A b \in FirstBookings : 1 \in FirstBookings
      <4>1. FirstBookings \subseteq Nat /\ FirstBookings = 1..Cardinality(AtFirst)
        BY <2>1, DeskAssumption DEF FirstBookings
      <4>2. \A b \in FirstBookings : 1 <= b /\ b <= Cardinality(AtFirst)
        BY <4>1
      <4>3. PICK d \in Days : AtFirst \subseteq SlotsOf[d]
        BY DEF DeskInit
      <4>4. Cardinality(AtFirst) \in Nat
        BY <4>3, DeskAssumption, FS_Subset, FS_CardinalityType
      <4> QED BY <4>1, <4>2, <4>4
    <3> QED BY <2>1, <3>1 DEF DeskInit
  <2> QED BY <2>2, <2>3 DEF ServerTyped, DeskInit
<1>2. LoadsTyped /\ JobsTyped
  BY IdleTyped DEF DeskInit, LoadsTyped, JobsTyped
<1>3. PageTyped
  <2>1. day \in Days /\ BoardTyped(Board(day, slotOf), day)
    BY <1>1, BoardIsTyped DEF DeskInit, ServerTyped
  <2> QED BY <2>1 DEF DeskInit, PageTyped, Closed
<1> QED BY <1>1, <1>2, <1>3, InitTidy DEF DeskTyped

LEMMA DeskNextTyped == DeskTyped /\ [DeskNext]_deskVars => DeskTyped'
<1> SUFFICES ASSUME DeskTyped, [DeskNext]_deskVars
             PROVE  ServerTyped' /\ LoadsTyped' /\ JobsTyped' /\ PageTyped'
  BY NextTidy DEF DeskTyped
<1>0. UNCHANGED <<server, mine>> => ServerTyped'
  BY DEF DeskTyped, ServerTyped, server, Slots
<1>01. UNCHANGED flights => LoadsTyped'
  BY DEF DeskTyped, LoadsTyped, BoardTyped
<1>02. UNCHANGED job => JobsTyped'
  BY DEF DeskTyped, JobsTyped, JobTyped, Job, Slots
<1>1. CASE UNCHANGED deskVars
  BY <1>0, <1>01, <1>02, <1>1 DEF deskVars, DeskTyped, PageTyped, BoardTyped
<1>2. ASSUME NEW d \in Days, PickDay(d) PROVE ServerTyped' /\ LoadsTyped' /\ JobsTyped' /\ PageTyped'
  <2>1. ServerTyped' /\ JobsTyped'
    BY <1>0, <1>02, <1>2 DEF PickDay
  <2>2. LoadsTyped'
    BY <1>2, <2>1, AskedTyped DEF PickDay, DeskTyped, BoardInv, DeskIInv
  <2> QED BY <1>2, <2>1, <2>2 DEF PickDay, DeskTyped, PageTyped, BoardTyped
<1>3. CASE LoadEnds
  BY <1>3, LoadEndTyped DEF LoadEnds
<1>4. ASSUME NEW s \in Slots, ClickCell(s) PROVE ServerTyped' /\ LoadsTyped' /\ JobsTyped' /\ PageTyped'
  BY <1>0, <1>01, <1>02, <1>4 DEF ClickCell, DeskTyped, PageTyped, BoardTyped
<1>5. CASE CloseDialog
  BY <1>0, <1>01, <1>02, <1>5 DEF CloseDialog, DeskTyped, PageTyped, BoardTyped, BoardInv, Targets
<1>6. ASSUME NEW j \in Jobs, NEW S \in SUBSET Slots, SubmitCreate(j, S) \/ SubmitUpdate(j, S) \/ SubmitCancel(j)
      PROVE  ServerTyped' /\ LoadsTyped' /\ JobsTyped' /\ PageTyped'
  BY <1>6, SubmittedTyped
<1>7. ASSUME NEW j \in Jobs, CallEnds(j) PROVE ServerTyped' /\ LoadsTyped' /\ JobsTyped' /\ PageTyped'
  BY <1>7, CreateTyped, UpdateTyped, CancelTyped DEF CallEnds
<1>8. CASE OthersChange
  <2>1. ASSUME NEW b \in Bookings, slotOf' = [slotOf EXCEPT ![b] = None], gone' = gone \cup {b}, UNCHANGED <<keyOf, mine>>
        PROVE  ServerTyped'
    BY <2>1 DEF DeskTyped, ServerTyped, Slots
  <2>2. ASSUME NEW s \in Slots, NEW new \in SUBSET Unused, MadeFor({s}, new) PROVE ServerTyped'
    BY <2>2, MadeTyped DEF DeskTyped
  <2>3. ServerTyped'
    BY <1>8, <2>1, <2>2 DEF OthersChange
  <2> QED BY <1>01, <1>02, <1>8, <2>3 DEF OthersChange, DeskTyped, PageTyped, BoardTyped
<1>9. {} \in SUBSET Slots
  OBVIOUS
<1> QED BY <1>1, <1>2, <1>3, <1>4, <1>5, <1>6, <1>7, <1>8, <1>9 DEF DeskNext

\* The types of the desk pages: what a page shows, keeps for its submissions and tells the
\* operator is of slots and bookings of the schedule, whatever it was answered and in which order.
THEOREM DeskTypeCorrect == DeskSpec => []DeskTypeOK
BY DeskInitTyped, DeskNextTyped, DeskTypesHave, PTL DEF DeskSpec

-----------------------------------------------------------------------------
(* When a cancellation can be tried again.  It cannot always be            *)
(* (RetryCanSucceed): an attempt that failed half way has canceled some of *)
(* the group, and the dialog still has all of it.                          *)

\* What this desk canceled has no slot any more, and gets none.
CanceledForGood ==
  /\ \A b \in Bookings : Live(b) \/ b \in mine => keyOf[b] # 0
  /\ \A b \in mine : ~Live(b)

\* No cancellation under way is of a booking the desk has canceled.
CancelsTheLive == \A j \in Jobs : Calling(j, "cancel") => job[j].todo \cap mine = {}

RetryInv == DeskTyped /\ CanceledForGood /\ (calm => CancelsTheLive)

\* A booking has its key for good, and only one that has none gets its first slot.
LEMMA MadeKeepsCanceled ==
  ASSUME DeskTyped, CanceledForGood, NEW S, NEW new, MadeFor(S, new)
  PROVE  CanceledForGood'
<1>1. new \in SUBSET Bookings /\ \A c \in new : keyOf[c] = 0
  BY DEF MadeFor, Unused
<1>2. \A c \in new : FirstIn(new) # 0
  BY <1>1, FirstIsIn, DeskAssumption
<1>3. /\ \A c \in Bookings \ new : slotOf'[c] = slotOf[c] /\ keyOf'[c] = keyOf[c]
      /\ \A c \in new : keyOf'[c] # 0
      /\ mine' = mine /\ mine \subseteq Bookings
  BY <1>1, <1>2 DEF MadeFor, DeskTyped, ServerTyped
<1>4. mine \cap new = {}
  BY <1>1, <1>3 DEF CanceledForGood
<1> QED BY <1>3, <1>4 DEF CanceledForGood, Live

LEMMA RescheduledKeepsCanceled ==
  ASSUME DeskTyped, CanceledForGood, NEW j \in Jobs, Rescheduled(j)
  PROVE  CanceledForGood'
<1>1. \A c \in Bookings : c \notin Members(j) => slotOf'[c] = slotOf[c]
  BY DEF Rescheduled
<1>2. UNCHANGED <<keyOf, mine>> /\ mine \subseteq Bookings /\ \A c \in Members(j) : Live(c)
  BY DEF Rescheduled, Members, DeskTyped, ServerTyped
<1> QED BY <1>1, <1>2 DEF CanceledForGood, Live

LEMMA CanceledKeepsCanceled ==
  ASSUME DeskTyped, CanceledForGood, NEW b \in Bookings, Canceled(b), Live(b)
  PROVE  CanceledForGood'
BY DEF Canceled, CanceledForGood, Live, DeskTyped, ServerTyped

\* Over a settled board, the bookings of the selected group are there.
LEMMA SelectedIsLive ==
  ASSUME RetryInv, calm, Visible, ~loading
  PROVE  Selected \cap mine = {}
<1>1. dialog.open /\ \A j \in Jobs : ~InCall(j)
  BY DEF Visible, RetryInv, DeskTyped, BoardInv, Tidy, CallsInDialog
<1>2. shown = Board(day, slotOf) /\ day \in Days
  BY <1>1 DEF RetryInv, DeskTyped, BoardInv, Tidy, OpenOverBoard, BoardIsTrue, Targets
<1>3. ASSUME NEW b \in Selected PROVE Live(b)
  <2>1. PICK s \in SlotsOf[day] : b = Keeper(s, slotOf) /\ b # None
    BY <1>2 DEF Selected, ShownBookings, Board
  <2>2. \E c \in Bookings \cup {None} : IF c = None THEN \A e \in Bookings : slotOf[e] # s ELSE slotOf[c] = s
    BY DeskAssumption
  <2>3. slotOf[b] = s
    BY <2>1, <2>2 DEF Keeper
  <2> QED BY <1>2, <2>1, <2>3, DeskAssumption DEF Live
<1> QED BY <1>3 DEF RetryInv, CanceledForGood

\* Nothing is canceled, and no cancellation begins.
LEMMA OthersLeaveCancels ==
  ASSUME RetryInv, calm' => calm, mine' = mine,
         \A j \in Jobs : Calling(j, "cancel")' => Calling(j, "cancel") /\ job'[j].todo = job[j].todo
  PROVE  calm' => CancelsTheLive'
BY DEF RetryInv, CancelsTheLive

LEMMA SubmissionRetries ==
  ASSUME RetryInv, NEW j \in Jobs, NEW S, SubmitCreate(j, S) \/ SubmitUpdate(j, S) \/ SubmitCancel(j)
  PROVE  calm' => CancelsTheLive'
<1>0. DeskShape
  BY DEF RetryInv, DeskTyped, BoardInv, DeskIInv
<1>1. ASSUME NEW new, Submitted(j, new), IsJob(new), new.kind = "cancel" => new.todo = Selected
      PROVE  calm' => CancelsTheLive'
  <2>1. job'[j] = new /\ \A i \in Jobs : i # j => job'[i] = job[i]
    BY <1>0, <1>1, JobChanged DEF Submitted
  <2>2. UNCHANGED <<calm, mine>> /\ (calm => Selected \cap mine = {})
    BY <1>1, SelectedIsLive DEF Submitted
  <2> QED BY <1>1, <2>1, <2>2 DEF RetryInv, CancelsTheLive, Calling
<1>2. CASE SubmitCreate(j, S)
  <2>1. PICK new : new = [Idle EXCEPT !.kind = "create", !.slots = S, !.day = day] /\ Submitted(j, new)
    BY <1>2 DEF SubmitCreate
  <2>2. IsJob(new) /\ new.kind = "create"
    BY <2>1 DEF IsJob, Idle
  <2> QED BY <1>1, <2>1, <2>2
<1>3. CASE SubmitUpdate(j, S)
  <2>1. PICK new : /\ new = [Idle EXCEPT !.kind = "update", !.slots = S, !.day = day, !.ids = Selected]
                   /\ Submitted(j, new)
    BY <1>3 DEF SubmitUpdate
  <2>2. IsJob(new) /\ new.kind = "update"
    BY <2>1 DEF IsJob, Idle
  <2> QED BY <1>1, <2>1, <2>2
<1>4. CASE SubmitCancel(j)
  <2>1. PICK new : /\ new = [Idle EXCEPT !.kind = "cancel", !.day = day, !.ids = Selected, !.todo = Selected]
                   /\ Submitted(j, new)
    BY <1>4 DEF SubmitCancel
  <2>2. IsJob(new) /\ new.todo = Selected
    BY <2>1 DEF IsJob, Idle
  <2> QED BY <1>1, <2>1, <2>2
<1> QED BY <1>2, <1>3, <1>4

\* A cancellation goes on with the bookings it has not canceled.
LEMMA CancelRetries ==
  ASSUME RetryInv, NEW j \in Jobs, CancelAnswered(j)
  PROVE  calm' => CancelsTheLive'
<1>1. DeskShape /\ job = [i \in Jobs |-> job[i]] /\ IsJob(job[j]) /\ Calling(j, "cancel") /\ InCall(j)
  BY DEF RetryInv, DeskTyped, BoardInv, DeskIInv, DeskShape, CancelAnswered, Calling, InCall
<1>2. PICK b : b = FirstIn(job[j].todo) /\ mine' = mine \cup {b}
  BY DEF CancelAnswered, Canceled
<1>3. calm' = calm
  BY DEF CancelAnswered, ReloadFor
<1>4. calm => \A i \in Jobs : Calling(i, "cancel") => i = j
  BY <1>1 DEF RetryInv, DeskTyped, BoardInv, Tidy, CallsInDialog, InCall, Calling
<1>5. PICK new : /\ job' = [job EXCEPT ![j] = new] /\ IsJob(new)
                 /\ new.stage = "call" => new.todo = job[j].todo \ {b}
  <2>1. CASE job[j].todo = {b}
    <3>1. PICK new : new = [job[j] EXCEPT !.stage = "reload", !.todo = {}]
      OBVIOUS
    <3>2. job' = [job EXCEPT ![j] = new]
      BY <1>1, <1>2, <2>1, <3>1 DEF CancelAnswered, ReloadFor
    <3>3. IsJob(new) /\ new.stage = "reload"
      BY <1>1, <3>1 DEF IsJob
    <3> QED BY <3>2, <3>3
  <2>2. CASE job[j].todo # {b}
    <3>1. PICK new : new = [job[j] EXCEPT !.todo = job[j].todo \ {b}]
      OBVIOUS
    <3>2. job' = [job EXCEPT ![j] = new]
      BY <1>1, <1>2, <2>2, <3>1 DEF CancelAnswered
    <3>3. IsJob(new) /\ new.todo = job[j].todo \ {b}
      BY <1>1, <3>1 DEF IsJob
    <3> QED BY <3>2, <3>3
  <2> QED BY <2>1, <2>2
<1>6. job'[j] = new /\ \A i \in Jobs : i # j => job'[i] = job[i]
  BY <1>1, <1>5, JobChanged
<1> QED BY <1>1, <1>2, <1>3, <1>4, <1>5, <1>6 DEF RetryInv, CancelsTheLive, Calling

LEMMA RetryStep == RetryInv /\ [DeskNext]_deskVars => RetryInv'
<1> SUFFICES ASSUME RetryInv, [DeskNext]_deskVars
             PROVE  CanceledForGood' /\ (calm' => CancelsTheLive')
  BY DeskNextTyped DEF RetryInv
<1>0. DeskTyped /\ CanceledForGood
  BY DEF RetryInv
<1>1. UNCHANGED <<server, mine>> => CanceledForGood'
  BY <1>0 DEF CanceledForGood, Live, server
<1>2. UNCHANGED <<calm, mine, job>> => (calm' => CancelsTheLive')
  BY DEF RetryInv, CancelsTheLive, Calling
<1>3. CASE UNCHANGED deskVars
  BY <1>1, <1>2, <1>3 DEF deskVars
<1>4. CASE (\E d \in Days : PickDay(d)) \/ (\E s \in Slots : ClickCell(s)) \/ CloseDialog
  <2>1. UNCHANGED <<server, mine, job>>
    BY <1>4 DEF PickDay, ClickCell, CloseDialog
  <2>2. calm' => calm
    <3>1. ASSUME NEW s, ClickCell(s), calm' PROVE calm
      BY <3>1, Zenon DEF ClickCell
    <3> QED BY <1>4, <3>1 DEF PickDay, CloseDialog
  <2> QED BY <1>1, <2>1, <2>2, OthersLeaveCancels DEF Calling
<1>5. CASE LoadEnds
  <2>1. PICK i \in DOMAIN flights : loadArrives(i) \/ loadFails(i)
    BY <1>5 DEF LoadEnds
  <2>2. UNCHANGED <<server, mine>> /\ (calm' => calm) /\ JobEnds(flights[i])
    BY <2>1, Zenon DEF loadArrives, loadFails
  <2>3. \A j \in Jobs : Calling(j, "cancel")' => Calling(j, "cancel") /\ job'[j].todo = job[j].todo
    BY <2>2, IdleIsJob DEF JobEnds, Calling
  <2> QED BY <1>1, <2>2, <2>3, OthersLeaveCancels
<1>6. ASSUME NEW j \in Jobs, NEW S, SubmitCreate(j, S) \/ SubmitUpdate(j, S) \/ SubmitCancel(j)
      PROVE  CanceledForGood' /\ (calm' => CancelsTheLive')
  <2>1. UNCHANGED <<server, mine>>
    BY <1>6 DEF SubmitCreate, SubmitUpdate, SubmitCancel, Submitted
  <2> QED BY <1>1, <1>6, <2>1, SubmissionRetries
<1>7. ASSUME NEW j \in Jobs, CreateAnswered(j) \/ PaymentSaved(j) \/ UpdateAnswered(j)
      PROVE  CanceledForGood' /\ (calm' => CancelsTheLive')
  <2>1. CanceledForGood' /\ mine' = mine
    <3>1. CASE PaymentSaved(j)
      BY <1>1, <3>1 DEF PaymentSaved
    <3>2. CASE UpdateAnswered(j)
      <4>1. Rescheduled(j)
        BY <3>2 DEF UpdateAnswered
      <4>2. mine' = mine
        BY <4>1 DEF Rescheduled
      <4> QED BY <1>0, <4>1, <4>2, RescheduledKeepsCanceled
    <3>3. CASE CreateAnswered(j)
      <4>1. PICK S, new : MadeFor(S, new)
        BY <3>3 DEF CreateAnswered
      <4>2. mine' = mine
        BY <4>1 DEF MadeFor
      <4> QED BY <1>0, <4>1, <4>2, MadeKeepsCanceled
    <3> QED BY <1>7, <3>1, <3>2, <3>3
  <2>2. calm' = calm /\ ~Calling(j, "cancel") /\ job[j].stage = "call"
    BY <1>7 DEF CreateAnswered, PaymentSaved, UpdateAnswered, ReloadFor, Calling
  <2>3. /\ \A i \in Jobs : i # j => job'[i] = job[i]
        /\ job'[j].kind # "cancel"
    <3>1. job = [i \in Jobs |-> job[i]] /\ IsJob(job[j]) /\ job[j].kind \in {"create", "update"}
      BY <1>7 DEF RetryInv, DeskTyped, BoardInv, DeskIInv, DeskShape, CreateAnswered, PaymentSaved, UpdateAnswered, Calling
    <3>2. PICK new : job' = [job EXCEPT ![j] = new] /\ new.kind # "cancel"
      <4>1. CASE job' = [job EXCEPT ![j] = Idle]
        BY <4>1, IdleIsJob
      <4>2. CASE ReloadFor(j)
        <5>1. PICK new : new = [job[j] EXCEPT !.stage = "reload", !.todo = {}]
          OBVIOUS
        <5>2. job' = [job EXCEPT ![j] = new] /\ new.kind = job[j].kind
          BY <3>1, <4>2, <5>1 DEF ReloadFor, IsJob
        <5> QED BY <3>1, <5>2
      <4>3. CASE \E ids, todo : job' = [job EXCEPT ![j].ids = ids, ![j].todo = todo]
        <5>1. PICK ids, todo : job' = [job EXCEPT ![j].ids = ids, ![j].todo = todo]
          BY <4>3
        <5>2. PICK new : new = [job[j] EXCEPT !.ids = ids, !.todo = todo]
          OBVIOUS
        <5>3. job' = [job EXCEPT ![j] = new] /\ new.kind = job[j].kind
          BY <3>1, <5>1, <5>2 DEF IsJob
        <5> QED BY <3>1, <5>3
      <4>4. CASE \E todo : job' = [job EXCEPT ![j].todo = todo]
        <5>1. PICK todo : job' = [job EXCEPT ![j].todo = todo]
          BY <4>4
        <5>2. PICK new : new = [job[j] EXCEPT !.todo = todo]
          OBVIOUS
        <5>3. job' = [job EXCEPT ![j] = new] /\ new.kind = job[j].kind
          BY <3>1, <5>1, <5>2 DEF IsJob
        <5> QED BY <3>1, <5>3
      <4> QED BY <1>7, <4>1, <4>2, <4>3, <4>4 DEF CreateAnswered, PaymentSaved, UpdateAnswered
    <3> QED BY <3>1, <3>2
  <2>4. \A i \in Jobs : Calling(i, "cancel")' => Calling(i, "cancel") /\ job'[i].todo = job[i].todo
    BY <2>3 DEF Calling
  <2> QED BY <2>1, <2>2, <2>4, OthersLeaveCancels
<1>8. ASSUME NEW j \in Jobs, CancelAnswered(j) PROVE CanceledForGood' /\ (calm' => CancelsTheLive')
  <2>1. job[j].todo # {} /\ job[j].todo \in SUBSET Bookings
    BY <1>0, <1>8 DEF DeskTyped, JobsTyped, JobTyped, Job, CancelAnswered, Calling
  <2>2. FirstIn(job[j].todo) \in Bookings
    BY <2>1, FirstIsIn
  <2>3. Canceled(FirstIn(job[j].todo)) /\ Live(FirstIn(job[j].todo))
    BY <1>8 DEF CancelAnswered
  <2> QED BY <1>0, <1>8, <2>2, <2>3, CanceledKeepsCanceled, CancelRetries
<1>9. ASSUME NEW j \in Jobs, CreateFails(j) \/ PaymentFails(j) \/ UpdateFails(j) \/ CancelFails(j)
      PROVE  CanceledForGood' /\ (calm' => CancelsTheLive')
  <2>1. ~calm'
    BY <1>9 DEF CreateFails, PaymentFails, UpdateFails, CancelFails, CallFails
  <2>2. CanceledForGood'
    <3>1. CASE \E S, new : MadeFor(S, new)
      BY <1>0, <3>1, MadeKeepsCanceled
    <3>2. CASE Rescheduled(j)
      BY <1>0, <3>2, RescheduledKeepsCanceled
    <3>3. CASE CancelFails(j) /\ Live(FirstIn(job[j].todo)) /\ Canceled(FirstIn(job[j].todo))
      <4>1. job[j].todo # {} /\ job[j].todo \in SUBSET Bookings
        BY <1>0, <3>3 DEF DeskTyped, JobsTyped, JobTyped, Job, CancelFails, Calling
      <4> QED BY <1>0, <3>3, <4>1, FirstIsIn, CanceledKeepsCanceled
    <3> QED BY <1>1, <1>9, <3>1, <3>2, <3>3 DEF CreateFails, PaymentFails, UpdateFails, CancelFails
  <2> QED BY <2>1, <2>2
<1>10. CASE OthersChange
  <2>1. ~calm'
    BY <1>10 DEF OthersChange
  <2>2. ASSUME NEW S, NEW new, MadeFor(S, new) PROVE CanceledForGood'
    BY <1>0, <2>2, MadeKeepsCanceled
  <2>3. ASSUME NEW b \in Bookings, slotOf' = [slotOf EXCEPT ![b] = None], UNCHANGED <<keyOf, mine>>
        PROVE  CanceledForGood'
    BY <1>0, <2>3 DEF CanceledForGood, Live, DeskTyped, ServerTyped
  <2> QED BY <1>10, <2>1, <2>2, <2>3 DEF OthersChange
<1> QED BY <1>3, <1>4, <1>5, <1>6, <1>7, <1>8, <1>9, <1>10 DEF DeskNext, CallEnds

\* At both desks a cancellation meets a booking that the desk itself has canceled only after
\* something went wrong or others interfered: the loop of calls alone, and the loads between two
\* cancellations, never bring such a booking back into the dialog.
THEOREM RetriesFailOnlyAfterFailures == DeskSpec => [](calm => RetryCanSucceed)
<1>1. DeskInit => RetryInv
  <2> SUFFICES ASSUME DeskInit PROVE RetryInv
    OBVIOUS
  <2>1. mine = {} /\ \A j \in Jobs : job[j] = Idle
    BY DEF DeskInit
  <2>2. \A b \in Bookings : Live(b) => keyOf[b] # 0
    BY DEF DeskInit, Live
  <2> QED BY <2>1, <2>2, IdleIsJob, DeskInitTyped DEF RetryInv, CanceledForGood, CancelsTheLive, Calling
<1>2. RetryInv => (calm => RetryCanSucceed)
  <2> SUFFICES ASSUME RetryInv, calm, NEW j \in Jobs, Calling(j, "cancel")
               PROVE  FirstIn(job[j].todo) \notin mine
    BY DEF RetryCanSucceed
  <2>1. job[j].todo # {} /\ job[j].todo \in SUBSET Bookings
    BY DEF RetryInv, DeskTyped, JobsTyped, JobTyped, Job, Calling
  <2> QED BY <2>1, FirstIsIn DEF RetryInv, CancelsTheLive
<1> QED BY <1>1, <1>2, RetryStep, PTL DEF DeskSpec

-----------------------------------------------------------------------------
(* The booking dialog: what it says of the bookings it changes, and at what *)
(* price it offers the new ones.                                           *)

-----------------------------------------------------------------------------
(* Boards.                                                                 *)

LEMMA BoardFacts ==
  ASSUME NEW d \in BoardDays, NEW B \in Boards[d]
  PROVE  /\ IsFiniteSet(B) /\ d \in Nat /\ d # None
         /\ \A s \in B : /\ s.id \in Nat /\ s.id > 0 /\ s.day = d /\ s.court \in Nat /\ s.start \in Nat
                         /\ s.price \in Nat /\ s.paid \in Nat /\ s.customer \in Nat
                         /\ s.booking \in Nat /\ s.group \in Nat
         /\ \A s, t \in B : s.id = t.id => s = t
         /\ \A s, t \in B : s.court = t.court /\ s.start = t.start => s = t
<1>1. /\ IsFiniteSet(B) /\ B \subseteq {s \in Slot : s.day = d /\ s.id > 0}
      /\ \A s, t \in B : s.id = t.id \/ (s.court = t.court /\ s.start = t.start) => s = t
      /\ d \in Nat /\ d # None
  BY BoardsAssumption
<1>2. ASSUME NEW s \in B
      PROVE  /\ s.id \in Nat /\ s.id > 0 /\ s.day = d /\ s.court \in Nat /\ s.start \in Nat
             /\ s.price \in Nat /\ s.paid \in Nat /\ s.customer \in Nat
             /\ s.booking \in Nat /\ s.group \in Nat
  <2>1. s \in Slot /\ s.day = d /\ s.id > 0
    BY <1>1
  <2> QED BY <2>1 DEF Slot
<1> QED BY <1>1, <1>2

\* The price of slots is a sum of natural numbers.
LEMMA PriceIsNat ==
  ASSUME NEW d \in BoardDays, NEW B \in Boards[d], NEW S \in SUBSET B
  PROVE  PriceOf(S) \in Nat
<1>1. IsFiniteSet(S)
  BY BoardFacts, FS_Subset
<1>2. PICK f : f = [s \in S |-> s.price]
  OBVIOUS
<1>3. \A x \in S : f[x] \in Nat
  BY <1>2, BoardFacts
<1>4. SumFunctionOnSet(f, S) \in Nat
  BY <1>1, <1>3, SumNat
<1> QED BY <1>2, <1>4 DEF PriceOf

LEMMA PriceOfOne ==
  ASSUME NEW d \in BoardDays, NEW B \in Boards[d], NEW s \in B
  PROVE  PriceOf({s}) = s.price
<1>1. PICK f : f = [x \in {s} |-> x.price]
  OBVIOUS
<1>2. IsFiniteSet({s}) /\ \A x \in {s} : f[x] \in Int
  <2>1. IsFiniteSet({s})
    BY FS_Singleton
  <2>2. s.price \in Nat
    BY BoardFacts
  <2> QED BY <1>1, <2>1, <2>2
<1>3. SumFunctionOnSet(f, {s}) = f[s] + SumFunctionOnSet(f, {s} \ {s})
  BY <1>2, SumTakeOut
<1>4. {s} \ {s} = {} /\ SumFunctionOnSet(f, {}) = 0
  BY SumEmpty
<1>5. f[s] = s.price /\ s.price \in Int
  BY <1>1, BoardFacts
<1>6. SumFunctionOnSet(f, {s}) = s.price
  BY <1>3, <1>4, <1>5
<1> QED BY <1>1, <1>6 DEF PriceOf

-----------------------------------------------------------------------------
(* The groups of a board.                                                  *)

\* Lists of groups, none empty, of slots of B.
GroupsOf(B) == Seq({g \in Seq(B) : g # <<>>})

Has(groups, s) == \E i \in DOMAIN groups : \E j \in DOMAIN groups[i] : groups[i][j] = s

\* What AddToGroups does to a list of groups: another group, or the last one is longer.
NewGroup(groups, s, r) ==
  LET n == Len(groups) IN
  DOMAIN r = 1..(n + 1) /\ r[n + 1] = <<s>> /\ \A i \in 1..n : r[i] = groups[i]
LongerGroup(groups, s, r) ==
  LET n == Len(groups) IN
  /\ n \in 1..n /\ DOMAIN r = 1..n /\ AddedTo(groups[n], s, r[n])
  /\ \A i \in 1..(n - 1) : r[i] = groups[i]

LEMMA AddShape ==
  ASSUME NEW B, NEW groups \in GroupsOf(B), NEW s \in B
  PROVE  /\ AddToGroups(groups, s) \in GroupsOf(B)
         /\ \/ /\ NewGroup(groups, s, AddToGroups(groups, s))
               /\ groups # <<>> => ~JoinsGroup(s, groups[Len(groups)])
            \/ /\ LongerGroup(groups, s, AddToGroups(groups, s))
               /\ JoinsGroup(s, groups[Len(groups)])
<1>1. PICK G : G = {g \in Seq(B) : g # <<>>}
  OBVIOUS
<1>2. groups \in Seq(G)
  BY <1>1 DEF GroupsOf
<1>3. PICK n \in Nat : n = Len(groups) /\ DOMAIN groups = 1..n
  BY <1>2
<1>4. \A i \in 1..n : groups[i] \in Seq(B) /\ groups[i] # <<>>
  BY <1>1, <1>2, <1>3
<1>5. ASSUME NEW r, r = Append(groups, <<s>>)
      PROVE  r \in GroupsOf(B) /\ NewGroup(groups, s, r)
  <2>1. <<s>> \in G
    BY <1>1
  <2>2. r \in Seq(G) /\ AddedTo(groups, <<s>>, r)
    BY <1>2, <1>5, <2>1, Appended
  <2>3. DOMAIN r = 1..(n + 1) /\ r[n + 1] = <<s>> /\ \A i \in 1..n : r[i] = groups[i]
    BY <1>3, <2>2 DEF AddedTo
  <2> QED BY <1>1, <1>3, <2>2, <2>3 DEF GroupsOf, NewGroup
<1>6. ASSUME NEW r, groups # <<>>, r = Append(Front(groups), Append(Last(groups), s))
      PROVE  r \in GroupsOf(B) /\ LongerGroup(groups, s, r)
  <2>1. n \in 1..n /\ Last(groups) = groups[n]
    BY <1>2, <1>3, <1>6 DEF Last
  <2>2. PICK longer : longer = Append(groups[n], s)
    OBVIOUS
  <2>3. longer \in Seq(B) /\ AddedTo(groups[n], s, longer)
    BY <1>4, <2>1, <2>2, Appended
  <2>4. longer # <<>> /\ longer \in G
    BY <1>1, <1>4, <2>1, <2>2, <2>3
  <2>5. PICK front : front = Front(groups)
    OBVIOUS
  <2>6. front \in Seq(G) /\ Len(front) = n - 1 /\ \A i \in 1..(n - 1) : front[i] = groups[i]
    BY <1>2, <1>3, <2>1, <2>5 DEF Front
  <2>7. r = Append(front, longer)
    BY <1>6, <2>1, <2>2, <2>5
  <2>8. r \in Seq(G) /\ AddedTo(front, longer, r)
    BY <2>4, <2>6, <2>7, Appended
  <2>9. DOMAIN r = 1..n /\ r[n] = longer /\ \A i \in 1..(n - 1) : r[i] = groups[i]
    BY <2>1, <2>6, <2>8 DEF AddedTo
  <2> QED BY <1>1, <1>3, <2>1, <2>3, <2>8, <2>9 DEF GroupsOf, LongerGroup
<1>7. groups # <<>> => Last(groups) = groups[Len(groups)]
  BY DEF Last
<1>8. \/ /\ AddToGroups(groups, s) = Append(groups, <<s>>)
         /\ groups # <<>> => ~JoinsGroup(s, Last(groups))
      \/ /\ groups # <<>> /\ AddToGroups(groups, s) = Append(Front(groups), Append(Last(groups), s))
         /\ JoinsGroup(s, Last(groups))
  BY Zenon DEF AddToGroups
<1> QED BY <1>5, <1>6, <1>7, <1>8

\* A slot is added to the groups, and no other is lost.
LEMMA AddKeeps ==
  ASSUME NEW B, NEW groups \in GroupsOf(B), NEW s \in B, NEW r, r = AddToGroups(groups, s)
  PROVE  /\ r \in GroupsOf(B) /\ Has(r, s)
         /\ \A t \in B : Has(groups, t) => Has(r, t)
<1>1. PICK n \in Nat : n = Len(groups) /\ DOMAIN groups = 1..n
  BY DEF GroupsOf
<1>2. r \in GroupsOf(B) /\ (NewGroup(groups, s, r) \/ LongerGroup(groups, s, r))
  BY AddShape
<1>3. CASE NewGroup(groups, s, r)
  <2>1. DOMAIN r = 1..(n + 1) /\ r[n + 1] = <<s>> /\ \A i \in 1..n : r[i] = groups[i]
    BY <1>1, <1>3 DEF NewGroup
  <2>2. n + 1 \in DOMAIN r /\ 1 \in DOMAIN <<s>> /\ <<s>>[1] = s
    BY <2>1
  <2>3. Has(r, s)
    BY <2>1, <2>2 DEF Has
  <2>4. \A t \in B : Has(groups, t) => Has(r, t)
    BY <1>1, <2>1 DEF Has
  <2> QED BY <1>2, <2>3, <2>4
<1>4. CASE LongerGroup(groups, s, r)
  <2>1. /\ n \in 1..n /\ DOMAIN r = 1..n /\ AddedTo(groups[n], s, r[n])
        /\ \A i \in 1..(n - 1) : r[i] = groups[i]
    BY <1>1, <1>4 DEF LongerGroup
  <2>2. groups[n] \in Seq(B)
    BY <1>1, <2>1 DEF GroupsOf
  <2>3. \E j \in DOMAIN r[n] : r[n][j] = s
    <3>1. Len(groups[n]) + 1 \in DOMAIN r[n]
      BY <2>1, <2>2 DEF AddedTo
    <3> QED BY <2>1, <3>1 DEF AddedTo
  <2>4. Has(r, s)
    BY <2>1, <2>3 DEF Has
  <2>5. ASSUME NEW i \in 1..n, NEW j \in DOMAIN groups[i]
        PROVE  i \in DOMAIN r /\ j \in DOMAIN r[i] /\ r[i][j] = groups[i][j]
    <3>1. CASE i = n
      BY <2>1, <2>2, <2>5, <3>1 DEF AddedTo
    <3>2. CASE i # n
      BY <2>1, <3>2
    <3> QED BY <3>1, <3>2
  <2>6. \A t \in B : Has(groups, t) => Has(r, t)
    BY <1>1, <2>5 DEF Has
  <2> QED BY <1>2, <2>4, <2>6
<1> QED BY <1>2, <1>3, <1>4

\* What the loop keeps of every group: its slots are booked, in order, and of one group or of one
\* customer on one court; and of any two groups: one comes before the other, and bookings made
\* together are in both only if another booking stands between them.
Alike(s, t) == s.group = t.group /\ (s.group = NoGroup => s.court = t.court /\ s.customer = t.customer)
InOneGroup(g) == \A j, k \in DOMAIN g : /\ Booked(g[j]) /\ Alike(g[j], g[k])
                                        /\ j < k => SortedBefore(g[j], g[k])
PartedBy(B, s, t) == \E u \in B : /\ Booked(u) /\ u.group # s.group
                                 /\ SortedBefore(s, u) /\ SortedBefore(u, t)
InTwoGroups(B, g, h) ==
  \A j \in DOMAIN g, k \in DOMAIN h :
    /\ SortedBefore(g[j], h[k])
    /\ g[j].group = h[k].group /\ g[j].group # NoGroup => PartedBy(B, g[j], h[k])
WellGrouped(B, groups) ==
  /\ \A i \in DOMAIN groups : InOneGroup(groups[i])
  /\ \A i, k \in DOMAIN groups : i < k => InTwoGroups(B, groups[i], groups[k])

AllBefore(groups, s) == \A i \in DOMAIN groups : \A j \in DOMAIN groups[i] : SortedBefore(groups[i][j], s)

LEMMA BeforeIsOrder ==
  ASSUME NEW d \in BoardDays, NEW B \in Boards[d]
  PROVE  /\ \A s \in B : ~SortedBefore(s, s)
         /\ \A s, t \in B : SortedBefore(s, t) => s # t /\ ~SortedBefore(t, s)
         /\ \A s, t, u \in B : SortedBefore(s, t) /\ SortedBefore(t, u) => SortedBefore(s, u)
<1>1. \A s \in B : s.court \in Int /\ s.customer \in Int /\ s.start \in Int
  BY BoardFacts
<1> QED BY <1>1 DEF SortedBefore

\* The last slot of the last group comes after all others, and a slot that joins is like it.
LEMMA JoinsTheLike ==
  ASSUME NEW d \in BoardDays, NEW B \in Boards[d], NEW g \in Seq(B), g # <<>>, InOneGroup(g),
         NEW s \in B, JoinsGroup(s, g)
  PROVE  \A j \in DOMAIN g : Alike(g[j], s) /\ Alike(s, g[j])
<1>1. Len(g) \in DOMAIN g /\ 1 \in DOMAIN g /\ Last(g) = g[Len(g)]
  BY DEF Last
<1>2. TAKE j \in DOMAIN g
<1>3. Alike(g[j], g[Len(g)]) /\ Alike(g[Len(g)], g[1]) /\ Alike(g[1], g[j])
  BY <1>1 DEF InOneGroup
<1>4. CASE s.group # NoGroup
  <2>1. g[Len(g)].group = s.group
    BY <1>1, <1>4 DEF JoinsGroup
  <2> QED BY <1>3, <1>4, <2>1 DEF Alike
<1>5. CASE s.group = NoGroup
  <2>1. makeBookingGroupKey(s) = makeBookingGroupKey(g[1])
    BY <1>5 DEF JoinsGroup
  <2>2. makeBookingGroupKey(s) = <<s.court, s.customer>>
    BY <1>5 DEF makeBookingGroupKey
  <2>3. g[1].group = NoGroup
    <3>1. <<g[1].group>> # <<s.court, s.customer>>
      <4>1. Len(<<g[1].group>>) = 1 /\ Len(<<s.court, s.customer>>) = 2
        OBVIOUS
      <4> QED BY <4>1
    <3> QED BY <2>1, <2>2, <3>1 DEF makeBookingGroupKey
  <2>4. g[1].court = s.court /\ g[1].customer = s.customer
    BY <2>1, <2>2, <2>3 DEF makeBookingGroupKey
  <2> QED BY <1>3, <1>5, <2>3, <2>4 DEF Alike
<1> QED BY <1>4, <1>5

LEMMA AddStaysGrouped ==
  ASSUME NEW d \in BoardDays, NEW B \in Boards[d], NEW groups \in GroupsOf(B), NEW s \in B,
         Booked(s), WellGrouped(B, groups), AllBefore(groups, s),
         NEW r, r = AddToGroups(groups, s)
  PROVE  /\ WellGrouped(B, r)
         /\ \A t \in B : AllBefore(groups, t) /\ SortedBefore(s, t) => AllBefore(r, t)
<1>1. PICK n \in Nat : n = Len(groups) /\ DOMAIN groups = 1..n
  BY DEF GroupsOf
<1>2. \A i \in 1..n : /\ groups[i] \in Seq(B) /\ groups[i] # <<>> /\ Len(groups[i]) \in DOMAIN groups[i]
                      /\ \A j \in DOMAIN groups[i] : groups[i][j] \in B
  <2> TAKE i \in 1..n
  <2>1. groups[i] \in Seq(B) /\ groups[i] # <<>>
    BY <1>1 DEF GroupsOf
  <2> QED BY <2>1
<1>3. CASE NewGroup(groups, s, r) /\ (groups # <<>> => ~JoinsGroup(s, groups[n]))
  <2>1. DOMAIN r = 1..(n + 1) /\ r[n + 1] = <<s>> /\ \A i \in 1..n : r[i] = groups[i]
    BY <1>1, <1>3 DEF NewGroup
  <2>2. DOMAIN <<s>> = {1} /\ <<s>>[1] = s
    OBVIOUS
  <2>3. InOneGroup(<<s>>)
    BY <2>2 DEF InOneGroup, Alike
  <2>4. ASSUME NEW i \in 1..n PROVE InTwoGroups(B, groups[i], <<s>>)
    <3> SUFFICES ASSUME NEW j \in DOMAIN groups[i]
                 PROVE  /\ SortedBefore(groups[i][j], s)
                        /\ groups[i][j].group = s.group /\ groups[i][j].group # NoGroup =>
                             PartedBy(B, groups[i][j], s)
      BY <2>2 DEF InTwoGroups
    <3>1. SortedBefore(groups[i][j], s)
      BY <1>1 DEF AllBefore
    <3>2. ASSUME groups[i][j].group = s.group, s.group # NoGroup PROVE PartedBy(B, groups[i][j], s)
      <4>1. n \in 1..n /\ groups # <<>>
        BY <1>1
      <4>2. PICK last \in B : last = groups[n][Len(groups[n])]
        BY <1>2, <4>1
      <4>3. last.group # s.group
        <5>1. Last(groups[n]) = last
          BY <4>2 DEF Last
        <5> QED BY <1>3, <3>2, <4>1, <5>1 DEF JoinsGroup
      <4>4. Booked(last) /\ SortedBefore(last, s)
        BY <1>1, <1>2, <4>1, <4>2 DEF WellGrouped, InOneGroup, AllBefore
      <4>5. SortedBefore(groups[i][j], last)
        <5>1. CASE i = n
          <6>1. j # Len(groups[n])
            BY <3>2, <4>2, <4>3, <5>1
          <6>2. j < Len(groups[n])
            BY <1>2, <4>1, <5>1, <6>1
          <6> QED BY <1>1, <1>2, <4>1, <4>2, <5>1, <6>2 DEF WellGrouped, InOneGroup
        <5>2. CASE i # n
          <6>1. i < n
            BY <5>2
          <6> QED BY <1>1, <1>2, <4>1, <4>2, <6>1 DEF WellGrouped, InTwoGroups
        <5> QED BY <5>1, <5>2
      <4> QED BY <3>2, <4>3, <4>4, <4>5 DEF PartedBy
    <3> QED BY <3>1, <3>2
  <2>5. WellGrouped(B, r)
    BY <1>1, <2>1, <2>3, <2>4 DEF WellGrouped
  <2>6. \A t \in B : AllBefore(groups, t) /\ SortedBefore(s, t) => AllBefore(r, t)
    BY <1>1, <2>1, <2>2 DEF AllBefore
  <2> QED BY <2>5, <2>6
<1>4. CASE LongerGroup(groups, s, r) /\ JoinsGroup(s, groups[n])
  <2>1. /\ n \in 1..n /\ DOMAIN r = 1..n /\ AddedTo(groups[n], s, r[n])
        /\ \A i \in 1..(n - 1) : r[i] = groups[i]
    BY <1>1, <1>4 DEF LongerGroup
  <2>2. PICK g \in Seq(B), m \in Nat : g = groups[n] /\ m = Len(g)
    BY <1>2, <2>1
  <2>3. /\ DOMAIN g = 1..m /\ m \in 1..m /\ DOMAIN r[n] = 1..(m + 1) /\ r[n][m + 1] = s
        /\ \A j \in 1..m : r[n][j] = g[j]
    BY <1>2, <2>1, <2>2 DEF AddedTo
  <2>4. InOneGroup(g) /\ g # <<>> /\ JoinsGroup(s, g)
    BY <1>1, <1>2, <1>4, <2>1, <2>2 DEF WellGrouped
  <2>5. \A j \in 1..m : Alike(g[j], s) /\ Alike(s, g[j]) /\ SortedBefore(g[j], s)
    BY <1>1, <2>1, <2>2, <2>3, <2>4, JoinsTheLike DEF AllBefore
  <2>6. InOneGroup(r[n])
    <3> SUFFICES ASSUME NEW j \in 1..(m + 1), NEW k \in 1..(m + 1)
                 PROVE  /\ Booked(r[n][j]) /\ Alike(r[n][j], r[n][k])
                        /\ j < k => SortedBefore(r[n][j], r[n][k])
      BY <2>3 DEF InOneGroup
    <3>1. CASE j \in 1..m /\ k \in 1..m
      BY <2>3, <2>4, <3>1 DEF InOneGroup
    <3>2. CASE j = m + 1
      BY <2>3, <2>5, <3>2 DEF Alike
    <3>3. CASE j \in 1..m /\ k = m + 1
      BY <2>3, <2>4, <2>5, <3>3 DEF InOneGroup
    <3> QED BY <3>1, <3>2, <3>3
  <2>7. ASSUME NEW i \in 1..(n - 1) PROVE InTwoGroups(B, groups[i], r[n])
    <3>0. i \in DOMAIN groups /\ n \in DOMAIN groups /\ i < n
      BY <1>1, <2>1
    <3>1. InTwoGroups(B, groups[i], g)
      BY <2>2, <3>0 DEF WellGrouped
    <3> SUFFICES ASSUME NEW j \in DOMAIN groups[i], NEW k \in 1..(m + 1)
                 PROVE  /\ SortedBefore(groups[i][j], r[n][k])
                        /\ groups[i][j].group = r[n][k].group /\ groups[i][j].group # NoGroup =>
                             PartedBy(B, groups[i][j], r[n][k])
      BY <2>3 DEF InTwoGroups
    <3>2. CASE k \in 1..m
      BY <2>3, <3>1, <3>2 DEF InTwoGroups
    <3>3. CASE k = m + 1
      <4>1. SortedBefore(groups[i][j], s)
        BY <3>0 DEF AllBefore
      <4>2. ASSUME groups[i][j].group = s.group, s.group # NoGroup PROVE PartedBy(B, groups[i][j], s)
        <5>1. g[m].group = s.group
          BY <2>3, <2>5 DEF Alike
        <5>2. PartedBy(B, groups[i][j], g[m])
          BY <2>3, <3>1, <4>2, <5>1 DEF InTwoGroups
        <5>3. PICK u \in B : /\ Booked(u) /\ u.group # groups[i][j].group
                             /\ SortedBefore(groups[i][j], u) /\ SortedBefore(u, g[m])
          BY <5>2 DEF PartedBy
        <5>4. g[m] \in B /\ SortedBefore(g[m], s)
          BY <2>3, <2>5
        <5>5. SortedBefore(u, s)
          BY <5>3, <5>4, BeforeIsOrder
        <5> QED BY <5>3, <5>5 DEF PartedBy
      <4> QED BY <2>3, <3>3, <4>1, <4>2
    <3> QED BY <3>2, <3>3
  <2>8. WellGrouped(B, r)
    <3>1. ASSUME NEW i \in 1..n PROVE InOneGroup(r[i])
      BY <1>1, <2>1, <2>6 DEF WellGrouped
    <3>2. ASSUME NEW i \in 1..n, NEW k \in 1..n, i < k PROVE InTwoGroups(B, r[i], r[k])
      <4>1. i \in 1..(n - 1) /\ r[i] = groups[i]
        BY <2>1, <3>2
      <4>2. CASE k = n
        BY <2>7, <4>1, <4>2
      <4>3. CASE k # n
        BY <1>1, <2>1, <3>2, <4>1, <4>3 DEF WellGrouped
      <4> QED BY <4>2, <4>3
    <3> QED BY <2>1, <3>1, <3>2 DEF WellGrouped
  <2>9. ASSUME NEW t \in B, AllBefore(groups, t), SortedBefore(s, t) PROVE AllBefore(r, t)
    <3> SUFFICES ASSUME NEW i \in 1..n, NEW j \in DOMAIN r[i] PROVE SortedBefore(r[i][j], t)
      BY <2>1 DEF AllBefore
    <3>1. CASE i # n
      BY <1>1, <2>1, <2>9, <3>1 DEF AllBefore
    <3>2. CASE i = n /\ j \in 1..m
      BY <1>1, <2>1, <2>2, <2>3, <2>9, <3>2 DEF AllBefore
    <3>3. CASE i = n /\ j = m + 1
      BY <2>3, <2>9, <3>3
    <3> QED BY <2>3, <3>1, <3>2, <3>3
  <2> QED BY <2>8, <2>9
<1> QED BY <1>1, <1>3, <1>4, AddShape

IsGrouping(list, g) ==
  g = [T \in SUBSET (DOMAIN list) |->
         IF T = {} THEN <<>> ELSE AddToGroups(g[T \ {Max(T)}], list[Max(T)])]

LEMMA GroupingIsFold ==
  ASSUME NEW list, \E g : IsGrouping(list, g)
  PROVE  \E g : IsGrouping(list, g) /\ FoldLeft(AddToGroups, <<>>, list) = g[DOMAIN list]
<1> DEFINE g == CHOOSE h : IsGrouping(list, h)
<1>1. IsGrouping(list, g)
  OBVIOUS
<1>2. FoldLeft(AddToGroups, <<>>, list) = g[DOMAIN list]
  BY DEF FoldLeft, MapThenFoldSet, IsGrouping
<1> QED BY <1>1, <1>2

LEMMA GroupingExists ==
  ASSUME NEW B, NEW list \in Seq(B)
  PROVE  \E g : IsGrouping(list, g)
<1>1. PICK n \in Nat : n = Len(list) /\ DOMAIN list = 1..n
  OBVIOUS
<1>2. PICK A : A = GroupsOf(B)
  OBVIOUS
<1>3. \A k \in 1..n, a \in A : AddToGroups(a, list[k]) \in A
  BY <1>1, <1>2, AddKeeps
<1>4. PICK G : G = [p \in (1..n) \X A |-> AddToGroups(p[2], list[p[1]])]
  OBVIOUS
<1>5. \A k \in 1..n, a \in A : G[<<k, a>>] = AddToGroups(a, list[k])
  BY <1>4
<1>6. PICK base : base = <<>>
  OBVIOUS
<1>7. base \in A
  BY <1>2, <1>6 DEF GroupsOf
<1>8. \A k \in 1..n, a \in A : G[<<k, a>>] \in A
  BY <1>3, <1>5
<1>9. PICK g : IsLeftFold(base, n, G, g) /\ g \in [SUBSET (1..n) -> A]
  BY <1>7, <1>8, LeftFoldExists, Zenon
<1>10. ASSUME NEW T \in SUBSET (1..n), T # {}
       PROVE  G[<<Max(T), g[T \ {Max(T)}]>>] = AddToGroups(g[T \ {Max(T)}], list[Max(T)])
  <2>1. Max(T) \in 1..n
    BY <1>10, MaxIn
  <2>2. g[T \ {Max(T)}] \in A
    BY <1>9
  <2> QED BY <1>5, <2>1, <2>2
<1>11. [T \in SUBSET (1..n) |-> IF T = {} THEN base ELSE G[<<Max(T), g[T \ {Max(T)}]>>]]
       = [T \in SUBSET (1..n) |-> IF T = {} THEN <<>> ELSE AddToGroups(g[T \ {Max(T)}], list[Max(T)])]
  BY <1>6, <1>10
<1>12. IsGrouping(list, g)
  BY <1>1, <1>9, <1>11 DEF IsGrouping, IsLeftFold
<1> QED BY <1>12

\* The loop of groupBookedSlots puts every slot of the list into a group.
LEMMA GroupingCovers ==
  ASSUME NEW B, NEW list \in Seq(B), NEW g, IsGrouping(list, g)
  PROVE  /\ g[DOMAIN list] \in GroupsOf(B)
         /\ \A i \in DOMAIN list : Has(g[DOMAIN list], list[i])
<1> DEFINE Holds(k) == /\ g[1..k] \in GroupsOf(B)
                       /\ \A i \in 1..k : Has(g[1..k], list[i])
           N == {k \in 0..Len(list) : ~Holds(k)}
<1>0. Len(list) \in Nat /\ DOMAIN list = 1..Len(list)
  OBVIOUS
<1>1. ASSUME N # {} PROVE FALSE
  <2>1. PICK k \in N : \A m \in N : k <= m
    <3> N \subseteq Nat
      BY <1>0
    <3> HIDE DEF N
    <3> QED BY <1>1, LeastNatural
  <2>2. k \in 0..Len(list) /\ ~Holds(k)
    OBVIOUS
  <2>3. CASE k = 0
    <3>1. 1..k = {}
      BY <2>3
    <3>2. g[1..k] = <<>>
      BY <3>1 DEF IsGrouping
    <3> QED BY <2>2, <3>1, <3>2 DEF GroupsOf
  <2>4. CASE k # 0
    <3>1. k \in Nat /\ k - 1 \in 0..Len(list) /\ k - 1 \notin N /\ k \in DOMAIN list
      BY <1>0, <2>1, <2>4
    <3>2. Holds(k - 1)
      BY <3>1
    <3>3. Max(1..k) = k /\ (1..k) \ {k} = 1..(k - 1) /\ 1..k # {}
      BY <2>4, <3>1, InitialSegment
    <3>4. PICK T \in SUBSET (DOMAIN list) : T = 1..k
      BY <1>0, <3>1
    <3> HIDE DEF N
    <3>5. T # {} /\ Max(T) = k /\ T \ {k} = 1..(k - 1)
      BY <3>3, <3>4
    <3>6. g[T] = AddToGroups(g[T \ {Max(T)}], list[Max(T)])
      BY <3>5 DEF IsGrouping
    <3>7. PICK old, new : old = g[1..(k - 1)] /\ new = g[1..k]
      OBVIOUS
    <3>8. new = AddToGroups(old, list[k])
      BY <3>4, <3>5, <3>6, <3>7
    <3>9. old \in GroupsOf(B) /\ \A i \in 1..(k - 1) : Has(old, list[i])
      BY <3>2, <3>7
    <3>10. list[k] \in B /\ \A i \in 1..(k - 1) : list[i] \in B
      BY <1>0, <3>1
    <3>11. new \in GroupsOf(B) /\ Has(new, list[k]) /\ \A i \in 1..(k - 1) : Has(new, list[i])
      BY <3>8, <3>9, <3>10, AddKeeps
    <3>12. \A i \in 1..k : i = k \/ i \in 1..(k - 1)
      BY <3>1
    <3> HIDE DEF Holds
    <3>13. Holds(k)
      BY <3>7, <3>11, <3>12 DEF Holds
    <3> QED BY <2>2, <3>13
  <2> QED BY <2>3, <2>4
<1>2. Len(list) \notin N
  BY <1>1
<1>3. Holds(Len(list))
  BY <1>0, <1>2
<1> QED BY <1>0, <1>3

\* ... and keeps the groups well, if the list is in order.
LEMMA GroupingStaysGrouped ==
  ASSUME NEW d \in BoardDays, NEW B \in Boards[d], NEW list \in Seq(B), NEW g, IsGrouping(list, g),
         \A i \in DOMAIN list : Booked(list[i]),
         \A i, j \in DOMAIN list : i < j => SortedBefore(list[i], list[j])
  PROVE  WellGrouped(B, g[DOMAIN list])
<1> DEFINE Holds(k) == /\ g[1..k] \in GroupsOf(B) /\ WellGrouped(B, g[1..k])
                       /\ \A t \in B : (\A i \in 1..k : SortedBefore(list[i], t)) => AllBefore(g[1..k], t)
           N == {k \in 0..Len(list) : ~Holds(k)}
<1>0. Len(list) \in Nat /\ DOMAIN list = 1..Len(list)
  OBVIOUS
<1>1. ASSUME N # {} PROVE FALSE
  <2>1. PICK k \in N : \A m \in N : k <= m
    <3> N \subseteq Nat
      BY <1>0
    <3> HIDE DEF N
    <3> QED BY <1>1, LeastNatural
  <2>2. k \in 0..Len(list) /\ ~Holds(k)
    OBVIOUS
  <2>3. CASE k = 0
    <3>1. 1..k = {}
      BY <2>3
    <3>2. g[1..k] = <<>>
      BY <3>1 DEF IsGrouping
    <3>3. g[1..k] \in GroupsOf(B) /\ WellGrouped(B, g[1..k]) /\ \A t \in B : AllBefore(g[1..k], t)
      BY <3>2 DEF GroupsOf, WellGrouped, AllBefore
    <3> QED BY <2>2, <3>3
  <2>4. CASE k # 0
    <3>1. k \in Nat /\ k - 1 \in 0..Len(list) /\ k - 1 \notin N /\ k \in DOMAIN list
      BY <1>0, <2>1, <2>4
    <3>2. Holds(k - 1)
      BY <3>1
    <3>3. Max(1..k) = k /\ (1..k) \ {k} = 1..(k - 1) /\ 1..k # {}
      BY <2>4, <3>1, InitialSegment
    <3>4. PICK T \in SUBSET (DOMAIN list) : T = 1..k
      BY <1>0, <3>1
    <3> HIDE DEF N
    <3>5. T # {} /\ Max(T) = k /\ T \ {k} = 1..(k - 1)
      BY <3>3, <3>4
    <3>6. g[T] = AddToGroups(g[T \ {Max(T)}], list[Max(T)])
      BY <3>5 DEF IsGrouping
    <3>7. PICK old, new : old = g[1..(k - 1)] /\ new = g[1..k]
      OBVIOUS
    <3>8. new = AddToGroups(old, list[k])
      BY <3>4, <3>5, <3>6, <3>7
    <3>9. /\ old \in GroupsOf(B) /\ WellGrouped(B, old)
          /\ \A t \in B : (\A i \in 1..(k - 1) : SortedBefore(list[i], t)) => AllBefore(old, t)
      BY <3>2, <3>7
    <3>10. list[k] \in B /\ Booked(list[k]) /\ AllBefore(old, list[k])
      <4>1. list[k] \in B /\ Booked(list[k])
        BY <3>1
      <4>2. \A i \in 1..(k - 1) : i \in DOMAIN list /\ i < k
        BY <1>0, <3>1
      <4> QED BY <3>1, <3>9, <4>1, <4>2
    <3>11. /\ new \in GroupsOf(B) /\ WellGrouped(B, new)
           /\ \A t \in B : AllBefore(old, t) /\ SortedBefore(list[k], t) => AllBefore(new, t)
      BY <3>8, <3>9, <3>10, AddKeeps, AddStaysGrouped
    <3>12. (\A i \in 1..(k - 1) : i \in 1..k) /\ k \in 1..k
      BY <3>1
    <3> HIDE DEF Holds
    <3>13. Holds(k)
      BY <3>7, <3>9, <3>11, <3>12 DEF Holds
    <3> QED BY <2>2, <3>13
  <2> QED BY <2>3, <2>4
<1>2. Len(list) \notin N
  BY <1>1
<1>3. Holds(Len(list))
  BY <1>0, <1>2
<1> QED BY <1>0, <1>3

\* The booked slots of a board can be sorted by court, customer and time.
LEMMA BookedSorted ==
  ASSUME NEW d \in BoardDays, NEW B \in Boards[d]
  PROVE  /\ Sorted({s \in B : Booked(s)}, SortedBefore) \in Seq(B)
         /\ \A s \in B : Booked(s) =>
              \E i \in DOMAIN Sorted({u \in B : Booked(u)}, SortedBefore) :
                Sorted({u \in B : Booked(u)}, SortedBefore)[i] = s
         /\ \A i \in DOMAIN Sorted({u \in B : Booked(u)}, SortedBefore) :
              Booked(Sorted({u \in B : Booked(u)}, SortedBefore)[i])
         /\ \A i, j \in DOMAIN Sorted({u \in B : Booked(u)}, SortedBefore) :
              i < j => SortedBefore(Sorted({u \in B : Booked(u)}, SortedBefore)[i],
                                    Sorted({u \in B : Booked(u)}, SortedBefore)[j])
<1>1. PICK S : S = {s \in B : Booked(s)}
  OBVIOUS
<1>2. S \subseteq B /\ IsFiniteSet(S)
  BY <1>1, BoardFacts, FS_Subset
<1>3. /\ \A x \in S : x.court \in Int /\ x.customer \in Int /\ x.start \in Int
      /\ \A x, y \in S : x.court = y.court /\ x.start = y.start => x = y
  BY <1>2, BoardFacts
<1>4. PICK R : R = {p \in S \X S : SortedBefore(p[1], p[2])}
  OBVIOUS
<1>5. \A x, y \in S : <<x, y>> \in R <=> SortedBefore(x, y)
  BY <1>4
<1>6. /\ \A x \in S : <<x, x>> \notin R
      /\ \A x, y \in S : x = y \/ <<x, y>> \in R \/ <<y, x>> \in R
      /\ \A x, y, z \in S : <<x, y>> \in R /\ <<y, z>> \in R => <<x, z>> \in R
  <2>1. \A x \in S : ~SortedBefore(x, x)
    BY <1>3 DEF SortedBefore
  <2>2. \A x, y \in S : x = y \/ SortedBefore(x, y) \/ SortedBefore(y, x)
    BY <1>3 DEF SortedBefore
  <2>3. \A x, y, z \in S : SortedBefore(x, y) /\ SortedBefore(y, z) => SortedBefore(x, z)
    BY <1>3 DEF SortedBefore
  <2> QED BY <1>5, <2>1, <2>2, <2>3
<1>7. PICK list \in SetToSeqs(S) : \A i, j \in DOMAIN list : i < j => <<list[i], list[j]>> \in R
  BY <1>2, <1>6, SortedExists
<1>8. \A i, j \in DOMAIN list : i < j => SortedBefore(list[i], list[j])
  <2>1. \A i \in DOMAIN list : list[i] \in S
    BY <1>2, SeqOfSet
  <2> QED BY <1>5, <1>7, <2>1
<1>9. PICK chosen : chosen = Sorted(S, SortedBefore)
  OBVIOUS
<1>10. chosen \in SetToSeqs(S) /\ \A i, j \in DOMAIN chosen : i < j => SortedBefore(chosen[i], chosen[j])
  <2>1. chosen = CHOOSE l \in SetToSeqs(S) : \A i, j \in DOMAIN l : i < j => SortedBefore(l[i], l[j])
    BY <1>9, Zenon DEF Sorted
  <2> QED BY <1>8, <2>1
<1>11. chosen \in Seq(S) /\ {chosen[i] : i \in DOMAIN chosen} = S
  BY <1>2, <1>10, SeqOfSet
<1>12. chosen \in Seq(B) /\ \A s \in S : \E i \in DOMAIN chosen : chosen[i] = s
  BY <1>2, <1>11
<1>13. chosen = Sorted({s \in B : Booked(s)}, SortedBefore)
  BY <1>1, <1>9, Zenon
<1>14. \A s \in B : Booked(s) => s \in S
  BY <1>1
<1>15. \A s \in B : Booked(s) => \E i \in DOMAIN chosen : chosen[i] = s
  BY <1>12, <1>14
<1>16. \A i \in DOMAIN chosen : Booked(chosen[i])
  BY <1>1, <1>11
<1> QED BY <1>10, <1>12, <1>13, <1>15, <1>16

\* Sorting the groups by their start keeps them all, each once.
Reordered(groups, r) ==
  \E order \in [DOMAIN groups -> DOMAIN groups] :
    /\ DOMAIN r = DOMAIN groups /\ \A i \in DOMAIN groups : r[i] = groups[order[i]]
    /\ \A i, j \in DOMAIN groups : order[i] = order[j] => i = j

LEMMA ByStartKeeps ==
  ASSUME NEW d \in BoardDays, NEW B \in Boards[d], NEW groups \in GroupsOf(B)
  PROVE  /\ ByStart(groups) \in GroupsOf(B)
         /\ \A s \in B : Has(groups, s) => Has(ByStart(groups), s)
         /\ Reordered(groups, ByStart(groups))
<1>1. PICK G : G = {g \in Seq(B) : g # <<>>}
  OBVIOUS
<1>2. groups \in Seq(G)
  BY <1>1 DEF GroupsOf
<1>3. PICK n \in Nat : n = Len(groups) /\ DOMAIN groups = 1..n
  BY <1>2
<1>4. PICK D : D = 1..n
  OBVIOUS
<1>5. IsFiniteSet(D) /\ D = DOMAIN groups
  <2>1. IsFiniteSet(1..n)
    <3>1. n \in Int
      BY <1>3
    <3> QED BY <3>1, FS_Interval
  <2> QED BY <1>3, <1>4, <2>1, Zenon
<1> DEFINE start == [i \in DOMAIN groups |-> groups[i][1].start]
           order == CHOOSE p \in SetToSeqs(DOMAIN groups) : \A i, j \in DOMAIN p : i < j =>
                      start[p[i]] < start[p[j]] \/ (start[p[i]] = start[p[j]] /\ p[i] < p[j])
           r == [i \in DOMAIN groups |-> groups[order[i]]]
<1>16. r = ByStart(groups)
  BY DEF ByStart, Sorted
<1>15. r = [i \in DOMAIN groups |-> groups[order[i]]]
  OBVIOUS
<1> HIDE DEF r
<1>13. order = CHOOSE p \in SetToSeqs(DOMAIN groups) : \A i, j \in DOMAIN p : i < j =>
         start[p[i]] < start[p[j]] \/ (start[p[i]] = start[p[j]] /\ p[i] < p[j])
  OBVIOUS
<1> HIDE DEF order
<1>6. start = [i \in DOMAIN groups |-> groups[i][1].start]
  OBVIOUS
<1> HIDE DEF start
<1>7. \A i \in D : start[i] \in Int /\ i \in Int
  <2> TAKE i \in D
  <2>1. groups[i] \in Seq(B) /\ groups[i] # <<>>
    BY <1>1, <1>2, <1>5
  <2>2. groups[i][1] \in B
    BY <2>1
  <2>3. start[i] = groups[i][1].start /\ i \in Int
    BY <1>4, <1>5, <1>6
  <2> QED BY <2>2, <2>3, BoardFacts
<1>8. PICK R : R = {p \in D \X D : start[p[1]] < start[p[2]] \/ (start[p[1]] = start[p[2]] /\ p[1] < p[2])}
  OBVIOUS
<1>9. \A x, y \in D : <<x, y>> \in R <=> start[x] < start[y] \/ (start[x] = start[y] /\ x < y)
  BY <1>8
<1>10. /\ \A x \in D : <<x, x>> \notin R
       /\ \A x, y \in D : x = y \/ <<x, y>> \in R \/ <<y, x>> \in R
       /\ \A x, y, z \in D : <<x, y>> \in R /\ <<y, z>> \in R => <<x, z>> \in R
  BY <1>7, <1>9
<1>11. PICK list \in SetToSeqs(D) : \A i, j \in DOMAIN list : i < j => <<list[i], list[j]>> \in R
  BY <1>5, <1>10, SortedExists
<1>12. \A i, j \in DOMAIN list : i < j =>
         start[list[i]] < start[list[j]] \/ (start[list[i]] = start[list[j]] /\ list[i] < list[j])
  <2>1. \A i \in DOMAIN list : list[i] \in D
    BY <1>5, SeqOfSet
  <2> QED BY <1>9, <1>11, <2>1
<1>14. order \in SetToSeqs(D)
  BY <1>5, <1>12, <1>13
<1>17. /\ order \in Seq(D) /\ Len(order) = Cardinality(D)
       /\ {order[i] : i \in DOMAIN order} = D
  BY <1>5, <1>14, SeqOfSet
<1>18. Cardinality(D) = n
  BY <1>4, FS_Interval
<1>19. DOMAIN order = D /\ \A i \in D : order[i] \in D
  BY <1>4, <1>17, <1>18
<1>20. r \in Seq(G)
  <2>1. DOMAIN r = 1..n /\ \A i \in 1..n : r[i] \in G
    BY <1>2, <1>4, <1>5, <1>15, <1>19
  <2>2. r = [i \in 1..n |-> r[i]]
    BY <1>4, <1>5, <1>15
  <2> QED BY <2>1, <2>2
<1>21. \A s \in B : Has(groups, s) => Has(r, s)
  <2> SUFFICES ASSUME NEW s \in B, NEW i \in DOMAIN groups, NEW j \in DOMAIN groups[i], groups[i][j] = s
               PROVE  Has(r, s)
    BY DEF Has
  <2>1. PICK k \in D : order[k] = i
    BY <1>5, <1>17, <1>19
  <2>2. k \in DOMAIN r /\ r[k] = groups[i]
    BY <1>5, <1>15, <2>1
  <2> QED BY <2>2 DEF Has
<1>22. Reordered(groups, r)
  <2>1. order \in [D -> D]
    BY <1>17, <1>19
  <2>2. DOMAIN r = D /\ \A i \in D : r[i] = groups[order[i]]
    BY <1>5, <1>15
  <2>3. \A i, j \in D : order[i] = order[j] => i = j
    <3>1. \A i, j \in DOMAIN order : order[i] = order[j] => i = j
      BY <1>5, <1>14, SeqOfSet
    <3> QED BY <1>19, <3>1
  <2> QED BY <1>5, <2>1, <2>2, <2>3 DEF Reordered
<1> QED BY <1>1, <1>16, <1>20, <1>21, <1>22 DEF GroupsOf

\* Every booked slot of a board is found in one of its groups, and no two of its groups share a
\* slot, or bookings made together that no other booking stands between.
GroupsApart(B, groups) ==
  \A i, k \in DOMAIN groups : i # k =>
    \A s \in B : (\E j \in DOMAIN groups[i] : groups[i][j] = s) =>
      \A l \in DOMAIN groups[k] : /\ groups[k][l] # s
                                  /\ s.group = groups[k][l].group => ~(s.group # NoGroup /\ ~Split(B, s.group))

LEMMA GroupsHaveAll ==
  ASSUME NEW d \in BoardDays, NEW B \in Boards[d], NEW r, r = groupBookedSlots(B)
  PROVE  /\ r \in GroupsOf(B) /\ \A s \in B : Booked(s) => Has(r, s)
         /\ \A i \in DOMAIN r : InOneGroup(r[i])
         /\ GroupsApart(B, r)
<1>1. PICK list : list = Sorted({s \in B : Booked(s)}, SortedBefore)
  OBVIOUS
<1>2. /\ list \in Seq(B) /\ \A s \in B : Booked(s) => \E i \in DOMAIN list : list[i] = s
      /\ \A i \in DOMAIN list : Booked(list[i])
      /\ \A i, j \in DOMAIN list : i < j => SortedBefore(list[i], list[j])
  BY <1>1, BookedSorted, Zenon
<1>3. \E g : IsGrouping(list, g)
  BY <1>2, GroupingExists
<1>4. PICK g : IsGrouping(list, g) /\ FoldLeft(AddToGroups, <<>>, list) = g[DOMAIN list]
  BY <1>3, GroupingIsFold
<1>5. PICK groups : groups = FoldLeft(AddToGroups, <<>>, list)
  OBVIOUS
<1>6. groups \in GroupsOf(B) /\ \A i \in DOMAIN list : Has(groups, list[i])
  BY <1>2, <1>4, <1>5, GroupingCovers
<1>7. r = ByStart(groups)
  BY <1>1, <1>5, Zenon DEF groupBookedSlots
<1>8. \A s \in B : Booked(s) => Has(groups, s)
  BY <1>2, <1>6
<1>9. r \in GroupsOf(B) /\ (\A s \in B : Booked(s) => Has(r, s)) /\ Reordered(groups, r)
  BY <1>6, <1>7, <1>8, ByStartKeeps
<1>10. WellGrouped(B, groups)
  BY <1>2, <1>4, <1>5, GroupingStaysGrouped
<1>11. PICK order \in [DOMAIN groups -> DOMAIN groups] :
         /\ DOMAIN r = DOMAIN groups /\ \A i \in DOMAIN groups : r[i] = groups[order[i]]
         /\ \A i, j \in DOMAIN groups : order[i] = order[j] => i = j
  BY <1>9 DEF Reordered
<1>12. \A i \in DOMAIN r : InOneGroup(r[i])
  BY <1>10, <1>11 DEF WellGrouped
<1>13. GroupsApart(B, r)
  <2> SUFFICES ASSUME NEW i \in DOMAIN r, NEW k \in DOMAIN r, i # k, NEW j \in DOMAIN r[i], NEW l \in DOMAIN r[k],
                      NEW s \in B, r[i][j] = s, NEW t, t = r[k][l]
               PROVE  t # s /\ (s.group = t.group /\ s.group # NoGroup => Split(B, s.group))
    BY DEF GroupsApart
  <2>1. t \in B /\ Booked(s) /\ Booked(t)
    <3>1. r[k] \in Seq(B)
      BY <1>9 DEF GroupsOf
    <3> QED BY <1>12, <3>1 DEF InOneGroup
  <2>2. PICK a \in DOMAIN groups, b \in DOMAIN groups : a # b /\ r[i] = groups[a] /\ r[k] = groups[b]
    BY <1>11
  <2>3. a \in Nat /\ b \in Nat
    BY <1>6 DEF GroupsOf
  <2>4. InTwoGroups(B, r[i], r[k]) \/ InTwoGroups(B, r[k], r[i])
    BY <1>10, <2>2, <2>3 DEF WellGrouped
  <2>5. SortedBefore(s, t) \/ SortedBefore(t, s)
    BY <2>4 DEF InTwoGroups
  <2>6. t # s
    BY <2>1, <2>5, BeforeIsOrder
  <2>7. ASSUME s.group = t.group, s.group # NoGroup PROVE Split(B, s.group)
    <3>1. PartedBy(B, s, t) \/ PartedBy(B, t, s)
      BY <2>4, <2>7 DEF InTwoGroups
    <3>2. CASE PartedBy(B, s, t)
      BY <2>1, <2>7, <3>2 DEF PartedBy, Split
    <3>3. CASE PartedBy(B, t, s)
      BY <2>1, <2>7, <3>3 DEF PartedBy, Split
    <3> QED BY <3>1, <3>2, <3>3
  <2> QED BY <2>6, <2>7
<1> QED BY <1>9, <1>12, <1>13

LEMMA IdsIn ==
  ASSUME NEW seq, NEW x
  PROVE  x \in ToSet(IdsOf(seq)) <=> \E m \in DOMAIN seq : seq[m].id = x
BY DEF ToSet, IdsOf

\* A booked slot that is clicked has its group, which is not empty.
LEMMA FoundGroup ==
  ASSUME NEW d \in BoardDays, NEW B \in Boards[d], NEW s \in B, Booked(s)
  PROVE  /\ findBookingGroupForSlot(groupBookedSlots(B), s) \in Seq(B)
         /\ findBookingGroupForSlot(groupBookedSlots(B), s) # <<>>
         /\ \E i \in DOMAIN findBookingGroupForSlot(groupBookedSlots(B), s) :
              findBookingGroupForSlot(groupBookedSlots(B), s)[i] = s
<1>1. PICK groups : groups = groupBookedSlots(B)
  OBVIOUS
<1>2. groups \in GroupsOf(B) /\ Has(groups, s)
  BY <1>1, GroupsHaveAll
<1>3. PICK hits : hits = {i \in DOMAIN groups : s.id \in ToSet(IdsOf(groups[i]))}
  OBVIOUS
<1>4. findBookingGroupForSlot(groups, s) = FirstFound(groups, hits)
  BY <1>3, Zenon DEF findBookingGroupForSlot
<1>5. /\ hits \subseteq DOMAIN groups /\ DOMAIN groups \subseteq Nat
      /\ \A i \in DOMAIN groups : groups[i] \in Seq(B) /\ groups[i] # <<>>
  BY <1>2, <1>3 DEF GroupsOf
<1>6. hits # {}
  <2>1. PICK k \in DOMAIN groups : \E m \in DOMAIN groups[k] : groups[k][m] = s
    BY <1>2 DEF Has
  <2>2. PICK g : g = groups[k]
    OBVIOUS
  <2>3. s.id \in ToSet(IdsOf(g))
    BY <2>1, <2>2, IdsIn
  <2> QED BY <1>3, <2>1, <2>2, <2>3
<1>7. Min(hits) \in hits
  <2>1. hits \subseteq Nat
    BY <1>5
  <2>2. \E m \in hits : \A k \in hits : m <= k
    BY <1>6, <2>1, LeastNatural
  <2> QED BY <2>2 DEF Min
<1>8. PICK g : g = groups[Min(hits)]
  OBVIOUS
<1>9. g = findBookingGroupForSlot(groups, s)
  BY <1>4, <1>6, <1>8 DEF FirstFound
<1>10. g \in Seq(B) /\ g # <<>> /\ s.id \in ToSet(IdsOf(g))
  BY <1>3, <1>5, <1>7, <1>8
<1>11. PICK m \in DOMAIN g : g[m].id = s.id
  BY <1>10, IdsIn
<1>12. g[m] = s
  BY <1>10, <1>11, BoardFacts
<1> QED BY <1>1, <1>9, <1>10, <1>12

\* The group of a booked slot is found by its key, unless it is split.
LEMMA FoundByKey ==
  ASSUME NEW d \in BoardDays, NEW B \in Boards[d], NEW s \in B, Booked(s), ~Split(B, s.group),
         NEW groups, groups = groupBookedSlots(B), NEW g, g = findBookingGroupForSlot(groups, s)
  PROVE  /\ selectedBooking(groups, groupKey(g)) = g
         /\ g \in Seq(B) /\ g # <<>> /\ InOneGroup(g) /\ \E m \in DOMAIN g : g[m] = s
         /\ s.group # NoGroup => \A t \in B : Booked(t) /\ t.group = s.group => \E m \in DOMAIN g : g[m] = t
<1>1. /\ groups \in GroupsOf(B) /\ \A t \in B : Booked(t) => Has(groups, t)
      /\ \A i \in DOMAIN groups : InOneGroup(groups[i])
      /\ GroupsApart(B, groups)
  BY GroupsHaveAll
<1>2. /\ DOMAIN groups \subseteq Nat
      /\ \A i \in DOMAIN groups : groups[i] \in Seq(B) /\ groups[i] # <<>>
  BY <1>1 DEF GroupsOf
<1>3. g \in Seq(B) /\ g # <<>> /\ \E m \in DOMAIN g : g[m] = s
  BY FoundGroup
<1>4. PICK i \in DOMAIN groups : g = groups[i]
  <2>1. PICK hits : hits = {k \in DOMAIN groups : s.id \in ToSet(IdsOf(groups[k]))}
    OBVIOUS
  <2>2. g = FirstFound(groups, hits)
    BY <2>1, Zenon DEF findBookingGroupForSlot
  <2>3. hits # {}
    BY <1>3, <2>2 DEF FirstFound, NoBooking
  <2>4. g = groups[Min(hits)]
    BY <2>2, <2>3 DEF FirstFound
  <2>5. Min(hits) \in hits
    <3>1. hits \subseteq Nat
      BY <1>2, <2>1
    <3>2. \E m \in hits : \A k \in hits : m <= k
      BY <2>3, <3>1, LeastNatural
    <3> QED BY <3>2 DEF Min
  <2> QED BY <2>1, <2>4, <2>5
<1>5. InOneGroup(g)
  BY <1>1, <1>4
<1>6. ASSUME NEW t \in B, NEW k \in DOMAIN groups, NEW l \in DOMAIN groups[k], t = groups[k][l],
             t = s \/ (t.group = s.group /\ s.group # NoGroup)
      PROVE  k = i
  BY <1>1, <1>3, <1>4, <1>6 DEF GroupsApart
<1>7. ASSUME s.group # NoGroup, NEW t \in B, Booked(t), t.group = s.group
      PROVE  \E m \in DOMAIN g : g[m] = t
  <2>1. PICK k \in DOMAIN groups : \E l \in DOMAIN groups[k] : groups[k][l] = t
    BY <1>1, <1>7 DEF Has
  <2> QED BY <1>4, <1>6, <1>7, <2>1
<1>8. ASSUME NEW k \in DOMAIN groups, groupKey(groups[k]) = groupKey(g)
      PROVE  k = i
  <2>1. PICK h \in Seq(B) : h = groups[k] /\ h # <<>>
    BY <1>2
  <2>2. 1 \in DOMAIN g /\ 1 \in DOMAIN h /\ g[1] \in B /\ h[1] \in B
    BY <1>3, <2>1
  <2>3. g[1].group = s.group
    BY <1>3, <1>5, <2>2 DEF InOneGroup, Alike
  <2>4. Len(<<g[1].group>>) = 1 /\ Len(<<g[1].court, g[1].customer, g[1].start>>) = 3
        /\ Len(<<h[1].group>>) = 1 /\ Len(<<h[1].court, h[1].customer, h[1].start>>) = 3
    OBVIOUS
  <2>5. CASE g[1].group # NoGroup
    <3>1. groupKey(g) = <<g[1].group>>
      BY <2>5 DEF groupKey
    <3>2. h[1].group # NoGroup
      BY <1>8, <2>1, <2>4, <3>1 DEF groupKey
    <3>3. h[1].group = g[1].group
      BY <1>8, <2>1, <3>1, <3>2 DEF groupKey
    <3> QED BY <1>6, <2>1, <2>2, <2>3, <2>5, <3>3
  <2>6. CASE g[1].group = NoGroup
    <3>1. groupKey(g) = <<g[1].court, g[1].customer, g[1].start>>
      BY <2>6 DEF groupKey
    <3>2. h[1].group = NoGroup
      BY <1>8, <2>1, <2>4, <3>1 DEF groupKey
    <3>3. h[1].court = g[1].court /\ h[1].start = g[1].start
      BY <1>8, <2>1, <3>1, <3>2 DEF groupKey
    <3>4. h[1] = g[1]
      BY <2>2, <3>3, BoardFacts
    <3> QED BY <1>1, <1>4, <2>1, <2>2, <3>4 DEF GroupsApart
  <2> QED BY <2>5, <2>6
<1>9. PICK hits : hits = {k \in DOMAIN groups : groupKey(groups[k]) = groupKey(g)}
  OBVIOUS
<1>10. hits = {i}
  BY <1>4, <1>8, <1>9
<1>11. selectedBooking(groups, groupKey(g)) = FirstFound(groups, hits)
  BY <1>9, Zenon DEF selectedBooking
<1>12. Min({i}) = i
  <2>1. i \in Nat
    BY <1>2
  <2> QED BY <2>1 DEF Min
<1>13. selectedBooking(groups, groupKey(g)) = g
  BY <1>4, <1>10, <1>11, <1>12 DEF FirstFound
<1> QED BY <1>3, <1>5, <1>7, <1>13

-----------------------------------------------------------------------------
(* The dialog.                                                             *)

FormFields == {"day", "court", "start", "end", "ids", "total", "status", "amount", "reason", "createEnd"}

\* What a new booking is made of: a free slot of the board, and an end the dialog offers for it.
Creating ==
  mode = "create" =>
    /\ slot \in board /\ ~Booked(slot)
    /\ form.createEnd \in endTimeOptions(board, slot)
    /\ form.status \in {"unpaid", "partial", "paid"} /\ form.amount \in Nat

\* The editor waits for the day that is chosen, and for nothing when no booking is edited.
EditingABooking ==
  /\ mode = "edit" => form.day \in BoardDays
  /\ mode # "edit" => awaiting = None /\ slots = NoSlots
  /\ awaiting # None => awaiting = form.day

DialogInv == /\ board \in Boards[PageDay] /\ mode \in {"closed", "create", "edit"}
             /\ DOMAIN form = FormFields
             /\ Creating /\ EditingABooking

LEMMA SyncedKeeps ==
  ASSUME NEW f, DOMAIN f = FormFields, NEW S
  PROVE  DOMAIN Synced(f, S) = FormFields /\ Synced(f, S).day = f.day
<1>1. PICK ids, total : Synced(f, S) = f \/ Synced(f, S) = [f EXCEPT !.ids = ids, !.total = total]
  BY DEF Synced
<1> QED BY <1>1 DEF FormFields

\* The price of what a new booking would take is a natural number.
LEMMA EstimateIsNat ==
  ASSUME NEW d \in BoardDays, NEW B \in Boards[d], NEW first \in B, NEW endId
  PROVE  estimateCreateTotal(B, first, endId) \in Nat
<1>1. first.price \in Nat
  BY BoardFacts
<1>2. getAvailableRangeEndSlots(B, first) \subseteq B
  BY DEF getAvailableRangeEndSlots, OfCourt
<1>3. PICK ends, S : /\ ends = {s \in getAvailableRangeEndSlots(B, first) : s.id = endId}
                     /\ S = {s \in {first} \cup getAvailableRangeEndSlots(B, first) :
                               \A e \in ends : s.start < e.start}
  OBVIOUS
<1>4. S \in SUBSET B
  BY <1>2, <1>3
<1>5. PriceOf(S) \in Nat
  BY <1>4, PriceIsNat
<1>6. estimateCreateTotal(B, first, endId) = IF endId = Single \/ ends = {} THEN first.price ELSE PriceOf(S)
  BY <1>3, Zenon DEF estimateCreateTotal
<1> QED BY <1>1, <1>5, <1>6

\* Fields that change while a booking is made: the end is one that is offered, the amount a number.
LEMMA FieldsKeep ==
  ASSUME DialogInv, NEW f, Fields(f), DOMAIN f = FormFields, f.day = form.day,
         mode = "create" => /\ f.createEnd \in endTimeOptions(board, slot)
                            /\ f.status \in {"unpaid", "partial", "paid"} /\ f.amount \in Nat
  PROVE  DialogInv'
<1>1. form' = f /\ UNCHANGED <<board, mode, slot, slots, awaiting>>
  BY DEF Fields
<1>2. Creating'
  <2>1. endTimeOptions(board, slot)' = endTimeOptions(board, slot)
    BY <1>1 DEF endTimeOptions, getAvailableRangeEndSlots, OfCourt
  <2> QED BY <1>1, <2>1 DEF DialogInv, Creating
<1>3. EditingABooking'
  BY <1>1 DEF DialogInv, EditingABooking, NoSlots
<1> QED BY <1>1, <1>2, <1>3 DEF DialogInv, BoardDays

LEMMA DialogInitInv == DialogInit => DialogInv
BY DEF DialogInit, DialogInv, Creating, EditingABooking, createBookingForm, FormFields

\* Every step keeps the invariant.
LEMMA DialogStepInv ==
  ASSUME DialogInv, [DialogNext]_dialogVars
  PROVE  DialogInv'
<1> USE DEF DialogInv
<1>0. PageDay \in BoardDays /\ PageDay # None
  BY BoardsAssumption
<1>1. ASSUME NEW s \in board, OpenCreate(s) PROVE DialogInv'
  <2>1. /\ mode' = "create" /\ slot' = s /\ ~Booked(s) /\ UNCHANGED <<board, slots, awaiting>> /\ mode = "closed"
        /\ form' = [createBookingForm EXCEPT !.start = s.id]
    BY <1>1 DEF OpenCreate
  <2>2. /\ DOMAIN form' = FormFields /\ form'.createEnd = Single /\ form'.status = "unpaid" /\ form'.amount = 0
    BY <2>1 DEF createBookingForm, FormFields
  <2>3. Single \in endTimeOptions(board', slot')
    BY DEF endTimeOptions
  <2>4. Creating'
    BY <2>1, <2>2, <2>3 DEF Creating, Booked
  <2>5. EditingABooking'
    BY <2>1 DEF EditingABooking, NoSlots
  <2> QED BY <2>1, <2>2, <2>4, <2>5
<1>2. ASSUME NEW s \in board, OpenEdit(s) PROVE DialogInv'
  <2>1. PICK g : g = findBookingGroupForSlot(groupBookedSlots(board), s)
    OBVIOUS
  <2>2. /\ mode' = "edit" /\ mode = "closed" /\ UNCHANGED <<board, slots>> /\ Booked(s)
        /\ form' = bookingGroupToForm(g) /\ awaiting' = form'.day
    BY <1>2, <2>1 DEF OpenEdit
  <2>3. g \in Seq(board) /\ g # <<>>
    BY <1>0, <2>1, <2>2, FoundGroup
  <2>4. g[1] \in board
    BY <2>3
  <2>5. g[1].day = PageDay
    BY <1>0, <2>4, BoardFacts
  <2>6. PICK end, ids, total, status, amount :
          form' = [createBookingForm EXCEPT !.day = g[1].day, !.court = g[1].court, !.start = g[1].id,
                     !.end = end, !.ids = ids, !.total = total, !.status = status, !.amount = amount]
    BY <2>2 DEF bookingGroupToForm
  <2>7. DOMAIN form' = FormFields /\ form'.day = PageDay
    BY <2>5, <2>6 DEF createBookingForm, FormFields
  <2>8. Creating' /\ EditingABooking'
    BY <1>0, <2>2, <2>7 DEF Creating, EditingABooking, BoardDays
  <2> QED BY <2>2, <2>7, <2>8
<1>3. ASSUME Close PROVE DialogInv'
  <2>1. mode' = "closed" /\ form' = createBookingForm /\ slots' = NoSlots /\ awaiting' = None /\ board' = board
    BY <1>3 DEF Close
  <2>2. DOMAIN form' = FormFields
    BY <2>1 DEF createBookingForm, FormFields
  <2>3. Creating' /\ EditingABooking'
    BY <2>1 DEF Creating, EditingABooking, NoSlots
  <2> QED BY <2>1, <2>2, <2>3
<1>4. ASSUME mode = "edit", UNCHANGED <<board, mode>>, DOMAIN form' = FormFields, form'.day = form.day,
             awaiting' \in {awaiting, None}
      PROVE  DialogInv'
  <2>1. Creating' /\ EditingABooking'
    BY <1>4 DEF Creating, EditingABooking, BoardDays
  <2> QED BY <1>4, <2>1
<1>5. ASSUME DayAnswered PROVE DialogInv'
  <2>1. PICK S \in Boards[awaiting] : form' = Synced(form, S)
    BY <1>5 DEF DayAnswered
  <2>2. mode = "edit" /\ UNCHANGED <<board, mode>> /\ awaiting' = None
    BY <1>5 DEF DayAnswered, EditingABooking
  <2>3. DOMAIN form' = FormFields /\ form'.day = form.day
    BY <2>1, SyncedKeeps
  <2> QED BY <1>4, <2>2, <2>3
<1>6. ASSUME DayFailed PROVE DialogInv'
  BY <1>4, <1>6 DEF DayFailed, EditingABooking
<1>7. ASSUME UNCHANGED <<board, mode, slot, form, slots, awaiting>> PROVE DialogInv'
  <2>1. endTimeOptions(board, slot)' = endTimeOptions(board, slot)
    BY <1>7 DEF endTimeOptions, getAvailableRangeEndSlots, OfCourt
  <2>2. Creating' /\ EditingABooking'
    BY <1>7, <2>1 DEF Creating, EditingABooking, Booked, NoSlots, BoardDays
  <2> QED BY <1>7, <2>2
<1>8. ASSUME NEW d \in BoardDays, changeDay(d) PROVE DialogInv'
  <2>1. /\ mode = "edit" /\ UNCHANGED <<board, mode>> /\ form' = [Cleared(form) EXCEPT !.day = d]
        /\ IF d = form.day THEN awaiting' = awaiting ELSE awaiting' = d
    BY <1>8 DEF changeDay
  <2>2. DOMAIN form' = FormFields /\ form'.day = d
    BY <2>1 DEF Cleared, FormFields
  <2>3. Creating' /\ EditingABooking'
    BY <2>1, <2>2 DEF Creating, EditingABooking, BoardDays
  <2> QED BY <2>1, <2>2, <2>3
<1>9. ASSUME NEW f, Edited(f), DOMAIN f = FormFields, f.day = form.day PROVE DialogInv'
  <2>1. mode = "edit" /\ UNCHANGED <<board, mode, awaiting>> /\ form' = Synced(f, slots.of)
    BY <1>9 DEF Edited
  <2>2. DOMAIN form' = FormFields /\ form'.day = form.day
    BY <1>9, <2>1, SyncedKeeps
  <2> QED BY <1>4, <2>1, <2>2
<1>10. ASSUME NEW c, changeCourt(c) PROVE DialogInv'
  <2>1. PICK f : f = [Cleared(form) EXCEPT !.court = c]
    OBVIOUS
  <2>2. Edited(f)
    BY <1>10, <2>1 DEF changeCourt
  <2>3. DOMAIN f = FormFields /\ f.day = form.day
    BY <2>1 DEF Cleared, FormFields
  <2> QED BY <1>9, <2>2, <2>3
<1>11. ASSUME NEW id, changeStart(id) PROVE DialogInv'
  <2>1. PICK f : f = [form EXCEPT !.start = id, !.end = id, !.ids = <<id>>]
    OBVIOUS
  <2>2. Edited(f)
    BY <1>11, <2>1 DEF changeStart
  <2>3. DOMAIN f = FormFields /\ f.day = form.day
    BY <2>1 DEF FormFields
  <2> QED BY <1>9, <2>2, <2>3
<1>12. ASSUME NEW id, changeEnd(id) PROVE DialogInv'
  <2>1. PICK f : f = [form EXCEPT !.end = id]
    OBVIOUS
  <2>2. Edited(f)
    BY <1>12, <2>1 DEF changeEnd
  <2>3. DOMAIN f = FormFields /\ f.day = form.day
    BY <2>1 DEF FormFields
  <2> QED BY <1>9, <2>2, <2>3
<1>13. ASSUME NEW id, changeCreateEnd(id) PROVE DialogInv'
  <2>1. PICK f : f = [form EXCEPT !.createEnd = id]
    OBVIOUS
  <2>2. Fields(f) /\ mode = "create" /\ id \in endTimeOptions(board, slot)
    BY <1>13, <2>1 DEF changeCreateEnd
  <2>3. DOMAIN f = FormFields /\ f.day = form.day
    BY <2>1 DEF FormFields
  <2>4. f.createEnd = id /\ f.status = form.status /\ f.amount = form.amount
    BY <2>1 DEF FormFields
  <2>5. /\ f.createEnd \in endTimeOptions(board, slot)
        /\ f.status \in {"unpaid", "partial", "paid"} /\ f.amount \in Nat
    BY <2>2, <2>4 DEF Creating
  <2> HIDE DEF DialogInv
  <2> QED BY <2>2, <2>3, <2>5, FieldsKeep
<1>14. ASSUME NEW status \in {"unpaid", "partial", "paid"}, changeStatus(status) PROVE DialogInv'
  <2>1. PICK amount : amount = CASE status = "unpaid" -> 0 [] status = "paid" -> totalPrice
                    [] status = "partial" -> IF form.amount # 0 THEN form.amount ELSE currentPaid
    OBVIOUS
  <2>2. PICK f : f = [form EXCEPT !.status = status, !.amount = amount]
    OBVIOUS
  <2>3. Fields(f)
    BY <1>14, <2>1, <2>2 DEF changeStatus, FormFields
  <2>4. DOMAIN f = FormFields /\ f.day = form.day /\ f.createEnd = form.createEnd
        /\ f.status = status /\ f.amount = amount
    BY <2>2 DEF FormFields
  <2>5. ASSUME mode = "create" PROVE amount \in Nat
    <3>1. totalPrice \in Nat
      BY <1>0, <2>5, EstimateIsNat DEF totalPrice, Creating
    <3>2. currentPaid = 0 /\ form.amount \in Nat
      BY <2>5 DEF currentPaid, Creating
    <3>3. amount \in {0, totalPrice, form.amount, currentPaid}
      BY <2>1
    <3> QED BY <3>1, <3>2, <3>3
  <2>6. mode = "create" => /\ f.createEnd \in endTimeOptions(board, slot)
                           /\ f.status \in {"unpaid", "partial", "paid"} /\ f.amount \in Nat
    BY <2>4, <2>5 DEF Creating
  <2> HIDE DEF DialogInv
  <2> QED BY <2>3, <2>4, <2>6, FieldsKeep
<1>15. ASSUME NEW amount \in Amounts, changeAmount(amount) PROVE DialogInv'
  <2>1. PICK f : f = [form EXCEPT !.amount = amount]
    OBVIOUS
  <2>2. Fields(f) /\ amount \in Nat
    BY <1>15, <2>1, BoardsAssumption DEF changeAmount
  <2>3. DOMAIN f = FormFields /\ f.day = form.day /\ f.createEnd = form.createEnd
        /\ f.status = form.status /\ f.amount = amount
    BY <2>1 DEF FormFields
  <2>4. mode = "create" => /\ f.createEnd \in endTimeOptions(board, slot)
                           /\ f.status \in {"unpaid", "partial", "paid"} /\ f.amount \in Nat
    BY <2>2, <2>3 DEF Creating
  <2> HIDE DEF DialogInv
  <2> QED BY <2>2, <2>3, <2>4, FieldsKeep
<1>16. ASSUME giveReason PROVE DialogInv'
  <2>1. PICK f : f = [form EXCEPT !.reason = TRUE]
    OBVIOUS
  <2>2. Fields(f) /\ mode = "edit"
    BY <1>16, <2>1 DEF giveReason, paymentReduced
  <2>3. DOMAIN f = FormFields /\ f.day = form.day
    BY <2>1 DEF FormFields
  <2> HIDE DEF DialogInv
  <2> QED BY <2>2, <2>3, FieldsKeep
<1>17. ASSUME NEW d, OutdatedAnswer(d) PROVE DialogInv'
  BY <1>7, <1>17 DEF OutdatedAnswer
<1>18. ASSUME UNCHANGED dialogVars PROVE DialogInv'
  BY <1>7, <1>18 DEF dialogVars
<1> HIDE DEF DialogInv
<1> QED BY <1>1, <1>2, <1>3, <1>5, <1>6, <1>8, <1>10, <1>11, <1>12, <1>13, <1>14, <1>15, <1>16, <1>17,
           <1>18 DEF DialogNext

\* The inductive invariant of the dialog: what is made starts at a free slot of the board and
\* ends at an offered one, and an answer is awaited for the day of the form.
THEOREM DialogInvariant == DialogSpec => []DialogInv
BY DialogInitInv, DialogStepInv, PTL DEF DialogSpec

\* The slots whose listed prices the dialog adds up are those the server selects, and they are
\* free.
LEMMA QuotedRange ==
  ASSUME NEW d \in BoardDays, NEW B \in Boards[d], B = board, NEW first \in B, ~Booked(first),
         NEW endId \in endTimeOptions(B, first)
  PROVE  /\ estimateCreateTotal(B, first, endId) = PriceOf(ServerRange(first, endId))
         /\ IsRun(ServerRange(first, endId))
         /\ \A s \in ServerRange(first, endId) : ~Booked(s)
<1>1. CASE endId = Single
  <2>1. ServerRange(first, endId) = {first}
    BY <1>1 DEF ServerRange
  <2>2. estimateCreateTotal(B, first, endId) = first.price
    BY <1>1 DEF estimateCreateTotal
  <2>3. IsRun({first})
    BY BoardFacts DEF IsRun
  <2> QED BY <2>1, <2>2, <2>3, PriceOfOne
<1>2. CASE endId # Single
  <2>1. PICK E : E = getAvailableRangeEndSlots(B, first)
    OBVIOUS
  <2>2. PICK C : C = OfCourt(B, first.court)
    OBVIOUS
  <2>3. C = {s \in B : s.court = first.court}
    BY <2>2 DEF OfCourt
  <2>4. E = {s \in C : /\ s.start > first.start
                       /\ \A t \in (first.start + 1)..s.start : \E u \in C : u.start = t /\ ~Booked(u)}
    BY <2>1, <2>2 DEF getAvailableRangeEndSlots
  <2>5. PICK e \in E : e.id = endId
    BY <1>2, <2>1 DEF endTimeOptions
  <2>6. /\ \A s \in C : s \in B /\ s.court = first.court /\ s.start \in Int
        /\ first \in C
        /\ \A s, t \in C : s.start = t.start => s = t
    BY <2>3, BoardFacts
  <2>7. \A s \in E : s.id = endId => s = e
    BY <2>4, <2>5, <2>6, BoardFacts
  <2>8. PICK ends : ends = {s \in E : s.id = endId}
    OBVIOUS
  <2>9. ends = {e}
    BY <2>5, <2>7, <2>8
  <2>10. PICK S : S = {s \in {first} \cup E : s.start < e.start}
    OBVIOUS
  <2>11. {s \in {first} \cup E : \A x \in ends : s.start < x.start} = S
    BY <2>9, <2>10
  <2>12. estimateCreateTotal(B, first, endId) = PriceOf(S)
    <3>1. estimateCreateTotal(B, first, endId)
            = IF endId = Single \/ ends = {} THEN first.price
              ELSE PriceOf({s \in {first} \cup E : \A x \in ends : s.start < x.start})
      BY <2>1, <2>8, Zenon DEF estimateCreateTotal
    <3> QED BY <1>2, <2>9, <2>11, <3>1
  <2>13. e \in C /\ e.start > first.start
         /\ \A t \in (first.start + 1)..e.start : \E u \in C : u.start = t /\ ~Booked(u)
    BY <2>4
  <2>14. \A u \in C : u.start > first.start /\ u.start < e.start => u \in E /\ ~Booked(u)
    <3> TAKE u \in C
    <3> SUFFICES ASSUME u.start > first.start /\ u.start < e.start PROVE u \in E /\ ~Booked(u)
      OBVIOUS
    <3>1. u.start \in Int /\ first.start \in Int /\ e.start \in Int
      BY <2>6, <2>13
    <3>2. \A t \in (first.start + 1)..u.start : t \in (first.start + 1)..e.start
      BY <3>1
    <3>3. u.start \in (first.start + 1)..e.start
      BY <3>1
    <3>4. ~Booked(u)
      BY <2>6, <2>13, <3>3
    <3>5. \A t \in (first.start + 1)..u.start : \E v \in C : v.start = t /\ ~Booked(v)
      BY <2>13, <3>2
    <3> QED BY <2>4, <3>4, <3>5
  <2>15. ServerRange(first, endId) = {s \in C : s.start >= first.start /\ s.start < e.start}
    <3>1. ServerRange(first, endId)
            = {s \in C : \E x \in B : x.id = endId /\ x.court = first.court
                                      /\ s.start >= first.start /\ s.start < x.start}
      BY <1>2, <2>2 DEF ServerRange
    <3>2. e \in B /\ e.court = first.court /\ \A x \in B : x.id = endId => x = e
      BY <2>5, <2>6, <2>13, BoardFacts
    <3> QED BY <2>5, <3>1, <3>2
  <2>16. ServerRange(first, endId) = S
    <3>1. \A s \in C : s.start >= first.start /\ s.start < e.start => s \in S
      <4> TAKE s \in C
      <4> SUFFICES ASSUME s.start >= first.start /\ s.start < e.start PROVE s \in S
        OBVIOUS
      <4>1. s.start \in Int /\ first.start \in Int
        BY <2>6
      <4>2. s = first \/ s.start > first.start
        BY <2>6, <4>1
      <4> QED BY <2>10, <2>14, <4>2
    <3>2. \A s \in S : s \in C /\ s.start >= first.start /\ s.start < e.start
      <4> TAKE s \in S
      <4>1. s \in C /\ s.start < e.start /\ (s = first \/ s.start > first.start)
        BY <2>4, <2>6, <2>10
      <4> QED BY <2>6, <4>1
    <3> QED BY <2>15, <3>1, <3>2
  <2>17. \A s \in S : ~Booked(s) /\ s \in C /\ s.start >= first.start /\ s.start < e.start
    <3> TAKE s \in S
    <3>1. s \in C /\ s.start >= first.start /\ s.start < e.start
      BY <2>15, <2>16
    <3>2. s = first \/ s.start > first.start
      BY <2>6, <3>1
    <3> QED BY <2>14, <3>1, <3>2
  <2>18. IsRun(S)
    <3>1. \A s, t \in S : s.court = t.court
      BY <2>6, <2>17
    <3>2. ASSUME NEW s \in S, NEW t \in S, NEW u \in s.start..t.start
          PROVE  \E v \in S : v.start = u
      <4>1. s.start \in Int /\ t.start \in Int /\ first.start \in Int /\ e.start \in Int
        BY <2>6, <2>13, <2>17
      <4>2. u \in Int /\ u >= first.start /\ u < e.start
        BY <2>17, <4>1
      <4>3. CASE u = first.start
        BY <2>10, <2>13, <4>1, <4>3
      <4>4. CASE u # first.start
        <5>1. u \in (first.start + 1)..e.start /\ u > first.start
          BY <4>1, <4>2, <4>4
        <5>2. PICK v \in C : v.start = u
          BY <2>13, <5>1
        <5>3. v \in E
          BY <2>14, <4>2, <5>1, <5>2
        <5> QED BY <2>10, <4>2, <5>2, <5>3
      <4> QED BY <4>3, <4>4
    <3> QED BY <3>1, <3>2 DEF IsRun
  <2> QED BY <2>12, <2>16, <2>17, <2>18
<1> QED BY <1>1, <1>2

\* QuoteIsOfTheRange for every board whose slots have ids of their own and no two of one court
\* start together: the total of a new booking is that of the slots the server selects for it, at
\* the prices of the board, and no more is to be paid.  What the server makes of these prices
\* when it books the slots is not the subject of the theorem.
THEOREM NewBookingQuotesItsRange == DialogSpec => []QuoteIsOfTheRange
<1>1. ASSUME DialogInv PROVE QuoteIsOfTheRange
  <2> SUFFICES ASSUME mode = "create"
               PROVE  LET booked == ServerRange(slot, form.createEnd) IN
                        /\ totalPrice = PriceOf(booked)
                        /\ IsRun(booked) /\ \A s \in booked : ~Booked(s)
                        /\ targetPaid <= totalPrice
    BY DEF QuoteIsOfTheRange, MayCreate
  <2>1. /\ PageDay \in BoardDays /\ board \in Boards[PageDay]
        /\ slot \in board /\ ~Booked(slot) /\ form.createEnd \in endTimeOptions(board, slot)
        /\ form.status \in {"unpaid", "partial", "paid"} /\ form.amount \in Nat
    BY <1>1, BoardsAssumption DEF DialogInv, Creating
  <2>2. totalPrice = estimateCreateTotal(board, slot, form.createEnd)
    BY DEF totalPrice
  <2>3. totalPrice \in Nat
    BY <2>1, <2>2, EstimateIsNat
  <2>4. targetPaid <= totalPrice
    <3>1. PICK total \in Nat : total = totalPrice
      BY <2>3
    <3>2. targetPaid = resolvePaymentTotal(form.status, form.amount, total)
      BY <3>1 DEF targetPaid
    <3>3. resolvePaymentTotal(form.status, form.amount, total) <= total
      BY <2>1 DEF resolvePaymentTotal, LesserOf
    <3> QED BY <3>1, <3>2, <3>3
  <2>5. /\ totalPrice = PriceOf(ServerRange(slot, form.createEnd))
        /\ IsRun(ServerRange(slot, form.createEnd))
        /\ \A s \in ServerRange(slot, form.createEnd) : ~Booked(s)
    BY <2>1, <2>2, QuotedRange
  <2> QED BY <2>4, <2>5
<1> QED BY <1>1, DialogInvariant, PTL

\* EditorShowsLatest for any boards: whenever answers arrive, the editor shows the day that was
\* chosen last, or nothing, or what it showed.
THEOREM EditorImplementsLatest == DialogSpec => EditorShowsLatest
<1> DEFINE wanted == IF mode = "edit" THEN form.day ELSE None
<1>1. DialogInit => Latest!Init
  BY DEF DialogInit, Latest!Init, NoSlots
<1>2. ASSUME DialogInv, DialogInv', [DialogNext]_dialogVars
      PROVE  [Latest!Ask \/ Latest!Show]_<<wanted, slots.day>>
  <2>0. None \notin BoardDays
    BY BoardsAssumption
  <2>1. wanted \in BoardDays \cup {None} /\ wanted' \in BoardDays \cup {None}
    BY <1>2 DEF DialogInv, EditingABooking, BoardDays
  <2>2. ASSUME slots.day' \in {slots.day, None} PROVE Latest!Ask
    BY <2>1, <2>2 DEF Latest!Ask
  <2>3. ASSUME DayAnswered PROVE Latest!Show
    <3>1. PICK S \in Boards[awaiting] : slots' = [day |-> awaiting, of |-> S] /\ form' = Synced(form, S)
      BY <2>3 DEF DayAnswered
    <3>2. mode = "edit" /\ mode' = mode /\ awaiting = form.day /\ awaiting # None
      BY <1>2, <2>3 DEF DayAnswered, DialogInv, EditingABooking
    <3>3. form'.day = form.day
      BY <1>2, <3>1, SyncedKeeps DEF DialogInv
    <3>4. slots.day' = awaiting
      BY <3>1
    <3>5. wanted = awaiting /\ wanted' = wanted
      BY <3>2, <3>3
    <3> QED BY <3>2, <3>4, <3>5 DEF Latest!Show
  <2>4. ASSUME ~DayAnswered PROVE slots' \in {slots, NoSlots}
    BY <1>2, <2>4 DEF DialogNext, dialogVars, OpenCreate, OpenEdit, Close, DayFailed, giveReason, Fields,
         OutdatedAnswer, changeDay, changeCourt, Edited, changeStart, changeEnd, changeCreateEnd,
         changeStatus, changeAmount
  <2>5. NoSlots.day = None
    BY DEF NoSlots
  <2> QED BY <2>2, <2>3, <2>4, <2>5
<1> QED BY <1>1, <1>2, DialogInvariant, PTL DEF DialogSpec, EditorShowsLatest, Latest!Spec

-----------------------------------------------------------------------------
(* The group that is edited.                                               *)

\* The group of the slot that was clicked.
Clicked == findBookingGroupForSlot(groupBookedSlots(board), slot)

\* A booking is edited that was clicked, and its group is the one its key finds.
OfClicked ==
  mode = "edit" => /\ slot \in board /\ Booked(slot)
                   /\ group = selectedBooking(groupBookedSlots(board), groupKey(Clicked))

LEMMA ClickedStays ==
  ASSUME UNCHANGED <<board, slot>>
  PROVE  Clicked' = Clicked
BY DEF Clicked

LEMMA OfClickedInit == DialogInit => OfClicked
BY DEF DialogInit, OfClicked

LEMMA OfClickedStep ==
  ASSUME OfClicked, [DialogNext]_dialogVars
  PROVE  OfClicked'
<1>1. ASSUME UNCHANGED <<board, mode, slot, group>> PROVE OfClicked'
  <2>1. Clicked' = Clicked
    BY <1>1, ClickedStays
  <2> QED BY <1>1, <2>1 DEF OfClicked, Booked
<1>2. ASSUME NEW s \in board, OpenCreate(s) PROVE OfClicked'
  BY <1>2 DEF OpenCreate, OfClicked
<1>3. ASSUME NEW s \in board, OpenEdit(s) PROVE OfClicked'
  <2>1. /\ board' = board /\ slot' = s /\ Booked(s)
        /\ group' = selectedBooking(groupBookedSlots(board), groupKey(findBookingGroupForSlot(groupBookedSlots(board), s)))
    BY <1>3 DEF OpenEdit
  <2> QED BY <2>1 DEF OfClicked, Clicked, Booked
<1>4. ASSUME Close PROVE OfClicked'
  BY <1>4 DEF Close, OfClicked
<1> QED BY <1>1, <1>2, <1>3, <1>4 DEF DialogNext, dialogVars, DayAnswered, DayFailed, giveReason, Fields,
         OutdatedAnswer, changeDay, changeCourt, Edited, changeStart, changeEnd, changeCreateEnd,
         changeStatus, changeAmount

LEMMA OfClickedHolds == DialogSpec => []OfClicked
BY OfClickedInit, OfClickedStep, PTL DEF DialogSpec

\* What is known of the group that is edited, unless another booking stands between its bookings.
LEMMA EditedGroup ==
  ASSUME DialogInv, OfClicked, mode = "edit", ~Split(board, slot.group)
  PROVE  /\ PageDay \in BoardDays /\ board \in Boards[PageDay]
         /\ group = Clicked /\ group \in Seq(board) /\ group # <<>> /\ InOneGroup(group)
         /\ \E m \in DOMAIN group : group[m] = slot
         /\ slot.group # NoGroup =>
              \A t \in board : Booked(t) /\ t.group = slot.group => \E m \in DOMAIN group : group[m] = t
<1>1. PageDay \in BoardDays /\ board \in Boards[PageDay]
  BY BoardsAssumption DEF DialogInv
<1>2. slot \in board /\ Booked(slot)
  BY DEF OfClicked
<1>3. PICK groups, g : groups = groupBookedSlots(board) /\ g = findBookingGroupForSlot(groups, slot)
  OBVIOUS
<1>4. /\ selectedBooking(groups, groupKey(g)) = g
      /\ g \in Seq(board) /\ g # <<>> /\ InOneGroup(g) /\ \E m \in DOMAIN g : g[m] = slot
      /\ slot.group # NoGroup => \A t \in board : Booked(t) /\ t.group = slot.group => \E m \in DOMAIN g : g[m] = t
  BY <1>1, <1>2, <1>3, FoundByKey
<1>5. group = g /\ Clicked = g
  BY <1>3, <1>4 DEF OfClicked, Clicked
<1> QED BY <1>1, <1>4, <1>5

\* ClickOpensItsGroup for every board whose slots have ids of their own and no two of one court
\* start together: the bookings that are listed as one are found again by their key.
THEOREM ClickFindsItsGroup == DialogSpec => []ClickOpensItsGroup
<1>1. ASSUME DialogInv, OfClicked PROVE ClickOpensItsGroup
  <2> SUFFICES ASSUME mode = "edit", ~Split(board, slot.group)
               PROVE  /\ slot \in ToSet(group)
                      /\ \A s, t \in ToSet(group) :
                           s.group = t.group /\ (s.group = NoGroup => s.court = t.court /\ s.customer = t.customer)
                      /\ slot.group # NoGroup =>
                           \A s \in board : Booked(s) /\ s.group = slot.group => s \in ToSet(group)
    BY DEF ClickOpensItsGroup
  <2>1. /\ InOneGroup(group) /\ \E m \in DOMAIN group : group[m] = slot
        /\ slot.group # NoGroup =>
             \A t \in board : Booked(t) /\ t.group = slot.group => \E m \in DOMAIN group : group[m] = t
    BY <1>1, EditedGroup
  <2>2. \A s : s \in ToSet(group) <=> \E m \in DOMAIN group : group[m] = s
    BY DEF ToSet
  <2>3. \A s, t \in ToSet(group) : Alike(s, t)
    BY <2>1, <2>2 DEF InOneGroup
  <2> QED BY <2>1, <2>2, <2>3 DEF Alike
<1> QED BY <1>1, DialogInvariant, OfClickedHolds, PTL

-----------------------------------------------------------------------------
(* The slots a choice selects.                                             *)

\* Slots of one court are put in the order of their times.
ByTime(S) == Sorted(S, StartsBefore)

LEMMA RunSorted ==
  ASSUME NEW S, IsFiniteSet(S), \A s \in S : s.start \in Int, \A s, t \in S : s.start = t.start => s = t,
         NEW chosen, chosen = ByTime(S)
  PROVE  /\ chosen \in SetToSeqs(S) /\ chosen \in Seq(S) /\ ToSet(chosen) = S
         /\ \A i, j \in DOMAIN chosen : i < j => chosen[i].start < chosen[j].start
<1>1. PICK R : R = {p \in S \X S : p[1].start < p[2].start}
  OBVIOUS
<1>2. \A x, y \in S : <<x, y>> \in R <=> x.start < y.start
  BY <1>1
<1>3. /\ \A x \in S : <<x, x>> \notin R
      /\ \A x, y \in S : x = y \/ <<x, y>> \in R \/ <<y, x>> \in R
      /\ \A x, y, z \in S : <<x, y>> \in R /\ <<y, z>> \in R => <<x, z>> \in R
  BY <1>2
<1>4. PICK list \in SetToSeqs(S) : \A i, j \in DOMAIN list : i < j => <<list[i], list[j]>> \in R
  BY <1>3, SortedExists
<1>5. \A i, j \in DOMAIN list : i < j => StartsBefore(list[i], list[j])
  <2>1. \A i \in DOMAIN list : list[i] \in S
    BY SeqOfSet
  <2> QED BY <1>2, <1>4, <2>1 DEF StartsBefore
<1>6. chosen \in SetToSeqs(S) /\ \A i, j \in DOMAIN chosen : i < j => StartsBefore(chosen[i], chosen[j])
  <2>1. chosen = CHOOSE l \in SetToSeqs(S) : \A i, j \in DOMAIN l : i < j => StartsBefore(l[i], l[j])
    BY Zenon DEF Sorted, ByTime
  <2> QED BY <1>5, <2>1
<1>7. chosen \in Seq(S) /\ ToSet(chosen) = S
  <2>1. chosen \in Seq(S) /\ {chosen[i] : i \in DOMAIN chosen} = S
    BY <1>6, SeqOfSet
  <2> QED BY <2>1 DEF ToSet
<1> QED BY <1>6, <1>7 DEF StartsBefore

\* The selectable slots that follow a slot without a gap.
Following(B, first, g) ==
  {s \in B : /\ s.court = first.court /\ s.start >= first.start
             /\ \A t \in first.start..s.start : \E u \in B :
                  u.court = first.court /\ u.start = t /\ slotIsSelectable(u, g)}

LEMMA ContiguousFrom ==
  ASSUME NEW d \in BoardDays, NEW B \in Boards[d], NEW g, NEW first \in B,
         NEW run, run = contiguousSlots(B, first.id, g)
  PROVE  run = Following(B, first, g)
<1>1. PICK F : F = {s \in B : s.id = first.id}
  OBVIOUS
<1>2. F = {first}
  BY <1>1, BoardFacts
<1>3. run = UNION {{s \in OfCourt(B, x.court) :
                      /\ s.start >= x.start
                      /\ \A t \in x.start..s.start : \E u \in OfCourt(B, x.court) :
                           u.start = t /\ slotIsSelectable(u, g)} : x \in F}
  BY <1>1, Zenon DEF contiguousSlots
<1>4. run = {s \in OfCourt(B, first.court) :
                      /\ s.start >= first.start
                      /\ \A t \in first.start..s.start : \E u \in OfCourt(B, first.court) :
                           u.start = t /\ slotIsSelectable(u, g)}
  BY <1>2, <1>3
<1> QED BY <1>4 DEF OfCourt, Following

LEMMA NothingFollowsNothing ==
  ASSUME NEW B, NEW id, \A s \in B : s.id # id, NEW endId, NEW g
  PROVE  contiguousSlots(B, id, g) = {} /\ selectedSlots(B, id, endId, g) = <<>>
<1>1. PICK F : F = {s \in B : s.id = id}
  OBVIOUS
<1>2. F = {}
  BY <1>1
<1>3. PICK run : run = contiguousSlots(B, id, g)
  OBVIOUS
<1>4. run = UNION {{s \in OfCourt(B, x.court) :
                      /\ s.start >= x.start
                      /\ \A t \in x.start..s.start : \E u \in OfCourt(B, x.court) :
                           u.start = t /\ slotIsSelectable(u, g)} : x \in F}
  BY <1>1, <1>3, Zenon DEF contiguousSlots
<1>5. run = {}
  BY <1>2, <1>4
<1>6. PICK ends, upTo :
        /\ ends = {s \in run : s.id = endId}
        /\ upTo = IF ends = {} THEN {s \in run : s.id = id} ELSE {s \in run : \E e \in ends : s.start <= e.start}
  OBVIOUS
<1>7. upTo = {}
  BY <1>5, <1>6
<1>8. selectedSlots(B, id, endId, g) = ByTime(upTo)
  BY <1>3, <1>6, Zenon DEF selectedSlots, ByTime
<1>9. PICK none : none = ByTime(upTo)
  OBVIOUS
<1>10. none \in Seq(upTo)
  <2>1. IsFiniteSet(upTo)
    BY <1>7, FS_EmptySet
  <2> QED BY <1>7, <1>9, <2>1, RunSorted
<1>11. none = <<>>
  BY <1>7, <1>10
<1> QED BY <1>3, <1>5, <1>8, <1>9, <1>11

\* The slots that are chosen are a run of selectable ones on the court of the first.
ChosenRun(chosen, upTo, B, first, endId, g) ==
  /\ IsRun(upTo) /\ chosen = ByTime(upTo)
  /\ chosen \in SetToSeqs(upTo) /\ chosen \in Seq(upTo) /\ ToSet(chosen) = upTo
  /\ \A i, j \in DOMAIN chosen : i < j => chosen[i].start < chosen[j].start
  /\ \A s \in upTo : s.court = first.court /\ slotIsSelectable(s, g)
  /\ slotIsSelectable(first, g) /\ (endId = first.id \/ \A s \in B : s.id # endId) => upTo = {first}

\* What a choice selects is a run of selectable slots from the chosen start on.
LEMMA SelectedRun ==
  ASSUME NEW d \in BoardDays, NEW B \in Boards[d], NEW g, NEW first \in B, NEW endId,
         NEW chosen, chosen = selectedSlots(B, first.id, endId, g)
  PROVE  \E upTo \in SUBSET B : ChosenRun(chosen, upTo, B, first, endId, g)
<1>1. PICK run : run = contiguousSlots(B, first.id, g)
  OBVIOUS
<1>2. run = {s \in B : /\ s.court = first.court /\ s.start >= first.start
                       /\ \A t \in first.start..s.start : \E u \in B :
                            u.court = first.court /\ u.start = t /\ slotIsSelectable(u, g)}
  <2>1. run = Following(B, first, g)
    BY <1>1, ContiguousFrom
  <2> QED BY <2>1 DEF Following
<1>3. PICK ends, upTo :
        /\ ends = {s \in run : s.id = endId}
        /\ upTo = IF ends = {} THEN {s \in run : s.id = first.id}
                  ELSE {s \in run : \E e \in ends : s.start <= e.start}
  OBVIOUS
<1>4. chosen = ByTime(upTo)
  BY <1>1, <1>3, Zenon DEF selectedSlots, ByTime
<1>5. /\ \A s \in B : s.start \in Int /\ s.id \in Int
      /\ \A s, t \in B : s.id = t.id => s = t
      /\ \A s, t \in B : s.court = t.court /\ s.start = t.start => s = t
      /\ IsFiniteSet(B)
  BY BoardFacts
<1>6. \A s \in run : slotIsSelectable(s, g) /\ s \in B /\ s.court = first.court /\ s.start >= first.start
  <2> TAKE s \in run
  <2>1. s \in B /\ s.court = first.court /\ s.start >= first.start
    BY <1>2
  <2>2. s.start \in first.start..s.start
    BY <1>5, <2>1
  <2>3. PICK u \in B : u.court = first.court /\ u.start = s.start /\ slotIsSelectable(u, g)
    BY <1>2, <2>2
  <2>4. u = s
    BY <1>5, <2>1, <2>3
  <2> QED BY <2>1, <2>3, <2>4
<1>7. upTo \subseteq run /\ upTo \in SUBSET B
  BY <1>2, <1>3
<1>8. \A s \in upTo, v \in run : v.start <= s.start => v \in upTo
  <2> SUFFICES ASSUME NEW s \in upTo, NEW v \in run, v.start <= s.start PROVE v \in upTo
    OBVIOUS
  <2>1. s \in B /\ v \in B /\ s.start \in Int /\ v.start \in Int
    BY <1>5, <1>6, <1>7
  <2>2. CASE ends = {}
    <3>1. s.id = first.id /\ s = first
      BY <1>3, <1>5, <2>1, <2>2
    <3>2. v.court = first.court /\ v.start >= first.start
      BY <1>6
    <3>3. v = first
      BY <1>5, <2>1, <3>1, <3>2
    <3> QED BY <3>1, <3>3
  <2>3. CASE ends # {}
    <3>1. PICK e \in ends : s.start <= e.start
      BY <1>3, <2>3
    <3>2. e.start \in Int
      BY <1>3, <1>5, <1>6
    <3>3. v.start <= e.start
      BY <2>1, <3>1, <3>2
    <3> QED BY <1>3, <2>3, <3>3
  <2> QED BY <2>2, <2>3
<1>9. IsRun(upTo)
  <2>1. \A s, t \in upTo : s.court = t.court
    BY <1>6, <1>7
  <2>2. ASSUME NEW s \in upTo, NEW t \in upTo, NEW u \in s.start..t.start
        PROVE  \E v \in upTo : v.start = u
    <3>1. s \in run /\ t \in run /\ s.start \in Int /\ t.start \in Int /\ first.start \in Int /\ s.start >= first.start
      BY <1>5, <1>6, <1>7
    <3>2. u \in first.start..t.start /\ u \in Int /\ u <= t.start /\ u >= first.start
      BY <3>1
    <3>3. PICK v \in B : v.court = first.court /\ v.start = u /\ slotIsSelectable(v, g)
      BY <1>2, <3>1, <3>2
    <3>4. \A x \in first.start..u : x \in first.start..t.start
      BY <3>1, <3>2
    <3>5. v \in run
      BY <1>2, <3>1, <3>2, <3>3, <3>4
    <3> QED BY <1>8, <3>2, <3>3, <3>5
  <2> QED BY <2>1, <2>2 DEF IsRun
<1>10. /\ chosen \in SetToSeqs(upTo) /\ chosen \in Seq(upTo) /\ ToSet(chosen) = upTo
       /\ \A i, j \in DOMAIN chosen : i < j => chosen[i].start < chosen[j].start
  <2>1. IsFiniteSet(upTo)
    BY <1>5, <1>7, FS_Subset
  <2>2. \A s \in upTo : s.start \in Int
    BY <1>5, <1>7
  <2>3. \A s, t \in upTo : s.start = t.start => s = t
    BY <1>5, <1>6, <1>7
  <2> QED BY <1>4, <2>1, <2>2, <2>3, RunSorted
<1>11. ASSUME slotIsSelectable(first, g), endId = first.id \/ \A s \in B : s.id # endId
       PROVE  upTo = {first}
  <2>1. first \in run
    <3>1. first.start \in Int
      BY <1>5
    <3>2. \A t \in first.start..first.start : t = first.start
      BY <3>1
    <3> QED BY <1>2, <1>11, <3>1, <3>2
  <2>2. \A s \in run : s.id = first.id => s = first
    BY <1>5, <1>6
  <2>3. CASE endId = first.id
    <3>1. ends = {first}
      BY <1>3, <2>1, <2>2, <2>3
    <3>2. upTo = {s \in run : s.start <= first.start}
      BY <1>3, <3>1
    <3>3. \A s \in run : s.start <= first.start => s = first
      <4> TAKE s \in run
      <4>1. s \in B /\ s.court = first.court /\ s.start >= first.start /\ s.start \in Int /\ first.start \in Int
        BY <1>5, <1>6
      <4> QED BY <1>5, <4>1
    <3>4. first.start <= first.start
      BY <1>5
    <3> QED BY <2>1, <3>2, <3>3, <3>4
  <2>4. CASE \A s \in B : s.id # endId
    <3>1. ends = {}
      BY <1>3, <1>6, <2>4
    <3> QED BY <1>3, <2>1, <2>2, <3>1
  <2> QED BY <1>11, <2>3, <2>4
<1> QED BY <1>4, <1>6, <1>7, <1>9, <1>10, <1>11 DEF ChosenRun

\* A whole choice of slots of S, for the fields f of a dialog that edits g.
WholeIn(f, S, g) ==
  \E R \in SUBSET S :
    /\ IsRun(R)
    /\ IdsOf(ByTime(R)) = f.ids
    /\ \A s \in R : s.day = f.day /\ s.court = f.court /\ slotIsSelectable(s, g)
    /\ f.total = PriceOf(R)

\* The chosen start, if a day has it, is on the chosen court.
StartsIn(f) == \A T \in Boards[f.day] : \A s \in T : s.id = f.start => s.court = f.court

\* What the effect of the editor makes of a choice.
SyncedTo(r, f, S, g) ==
  /\ DOMAIN r = FormFields /\ r.day = f.day /\ r.start = f.start /\ r.court = f.court
  /\ r = f \/ WholeIn(r, S, g)
  /\ f.start \in startOptions(S, f.court, g) /\ f.end = f.start => WholeIn(r, S, g)

\* The effect of the editor leaves a choice that selects nothing, and makes any other whole.
LEMMA SyncedIsWhole ==
  ASSUME NEW d \in BoardDays, NEW S, S = {} \/ S \in Boards[d], NEW f, DOMAIN f = FormFields, f.day = d,
         \A s \in S : s.id = f.start => s.court = f.court, NEW r, r = Synced(f, S)
  PROVE  SyncedTo(r, f, S, group)
<1>1. PICK chosen : chosen = selectedSlots(S, f.start, f.end, group)
  OBVIOUS
<1>2. r = IF chosen = <<>> THEN f ELSE [f EXCEPT !.ids = IdsOf(chosen), !.total = PriceOf(ToSet(chosen))]
  BY <1>1 DEF Synced
<1>3. DOMAIN r = FormFields /\ r.day = f.day /\ r.start = f.start /\ r.court = f.court
  BY <1>2 DEF FormFields
<1>4. CASE \A s \in S : s.id # f.start
  <2>1. chosen = <<>>
    BY <1>1, <1>4, NothingFollowsNothing
  <2>2. f.start \notin startOptions(S, f.court, group)
    BY <1>4 DEF startOptions, OfCourt
  <2> QED BY <1>2, <1>3, <2>1, <2>2 DEF SyncedTo
<1>5. CASE \E s \in S : s.id = f.start
  <2>1. PICK first \in S : first.id = f.start
    BY <1>5
  <2>2. S \in Boards[d]
    BY <2>1
  <2>9. PICK endId, g : endId = f.end /\ g = group
    OBVIOUS
  <2>10. chosen = selectedSlots(S, first.id, endId, g)
    BY <1>1, <2>1, <2>9
  <2>11. PICK upTo \in SUBSET S :
           ChosenRun(chosen, upTo, S, first, endId, g)
    BY <2>2, <2>10, SelectedRun
  <2>3. /\ IsRun(upTo) /\ chosen = ByTime(upTo) /\ ToSet(chosen) = upTo
        /\ \A s \in upTo : s.court = first.court /\ slotIsSelectable(s, group)
        /\ slotIsSelectable(first, group) /\ endId = first.id => upTo = {first}
    BY <2>9, <2>11 DEF ChosenRun
  <2>4. \A s \in upTo : s.day = f.day /\ s.court = f.court /\ slotIsSelectable(s, group)
    BY <2>1, <2>2, <2>3, <2>9, BoardFacts
  <2>5. ASSUME chosen # <<>> PROVE WholeIn(r, S, group)
    <3>1. r.ids = IdsOf(chosen) /\ r.total = PriceOf(ToSet(chosen))
      BY <1>2, <2>5 DEF FormFields
    <3>2. IdsOf(ByTime(upTo)) = r.ids
      BY <2>3, <3>1, Zenon
    <3>3. r.total = PriceOf(upTo)
      BY <2>3, <3>1
    <3> HIDE <1>2
    <3> QED BY <1>3, <2>3, <2>4, <3>2, <3>3, Zenon DEF WholeIn
  <2>6. ASSUME f.start \in startOptions(S, f.court, group), f.end = f.start PROVE chosen # <<>>
    <3>1. PICK u \in S : u.id = f.start /\ slotIsSelectable(u, group)
      BY <2>6 DEF startOptions, OfCourt
    <3>2. u = first
      BY <2>1, <2>2, <3>1, BoardFacts
    <3>3. first \in ToSet(chosen)
      BY <2>1, <2>3, <2>6, <2>9, <3>1, <3>2
    <3> QED BY <3>3 DEF ToSet
  <2> QED BY <1>2, <1>3, <2>5, <2>6 DEF SyncedTo
<1> QED BY <1>4, <1>5

\* What a save would ask for while a booking is edited: nothing, the slots of the group that was
\* clicked, or, when the editor shows the chosen day, a whole choice of its slots.
OfChosenDay == \/ slots = NoSlots
               \/ /\ slots.day \in BoardDays /\ slots.of \in Boards[slots.day]
                  /\ awaiting = None => slots.day = form.day
AskedFor == \/ form.ids = <<>>
            \/ form.ids = IdsOf(Clicked) /\ form.total = PriceOf(ToSet(Clicked))
            \/ awaiting = None /\ WholeIn(form, slots.of, group)
ChoiceInv == mode = "edit" => OfChosenDay /\ StartsIn(form) /\ AskedFor

LEMMA NoSlotHasZero ==
  ASSUME NEW f, f.start = 0, f.day \in BoardDays
  PROVE  StartsIn(f)
BY BoardFacts DEF StartsIn

\* The other fields do not touch the choice.
LEMMA ChoiceKept ==
  ASSUME ChoiceInv, UNCHANGED <<board, mode, slot, group, slots, awaiting>>, form'.day = form.day,
         form'.court = form.court, form'.start = form.start, form'.ids = form.ids, form'.total = form.total
  PROVE  ChoiceInv'
<1>1. Clicked' = Clicked
  BY ClickedStays
<1>2. WholeIn(form, slots.of, group) => WholeIn(form', slots'.of, group')
  BY Zenon DEF WholeIn
<1>3. ASSUME mode = "edit" PROVE AskedFor' /\ OfChosenDay' /\ StartsIn(form')
  <2>1. OfChosenDay /\ StartsIn(form) /\ AskedFor
    BY <1>3 DEF ChoiceInv
  <2>2. OfChosenDay'
    BY <2>1 DEF OfChosenDay, NoSlots, BoardDays
  <2>3. StartsIn(form')
    BY <2>1 DEF StartsIn
  <2>4. AskedFor'
    BY <1>1, <1>2, <2>1 DEF AskedFor
  <2> QED BY <2>2, <2>3, <2>4
<1> QED BY <1>3 DEF ChoiceInv

\* A choice in the editor, which shows the chosen day.
LEMMA EditedChoice ==
  ASSUME DialogInv, ChoiceInv, NEW f, Edited(f), DOMAIN f = FormFields, f.day = form.day, StartsIn(f),
         \/ f.ids = <<>>
         \/ f.ids = form.ids /\ f.total = form.total /\ f.court = form.court
         \/ f.start \in startOptions(slots.of, f.court, group) /\ f.end = f.start
  PROVE  ChoiceInv'
<1>1. /\ mode = "edit" /\ awaiting = None /\ form' = Synced(f, slots.of)
      /\ UNCHANGED <<board, mode, slot, group, slots, awaiting>>
  BY DEF Edited, editorLoading
<1>2. form.day \in BoardDays /\ OfChosenDay /\ AskedFor
  BY <1>1 DEF DialogInv, EditingABooking, ChoiceInv
<1>3. PICK S : S = slots.of
  OBVIOUS
<1>4. S = {} \/ S \in Boards[form.day]
  BY <1>1, <1>2, <1>3 DEF OfChosenDay, NoSlots
<1>5. \A s \in S : s.id = f.start => s.court = f.court
  BY <1>4 DEF StartsIn
<1>13. PICK d \in BoardDays : d = form.day
  BY <1>2
<1>14. (S = {} \/ S \in Boards[d]) /\ f.day = d
  BY <1>4, <1>13
<1>6. PICK r : r = Synced(f, S)
  OBVIOUS
<1>7. /\ r.day = f.day /\ r.start = f.start /\ r.court = f.court
      /\ r = f \/ WholeIn(r, S, group)
      /\ f.start \in startOptions(S, f.court, group) /\ f.end = f.start => WholeIn(r, S, group)
  <2>1. SyncedTo(r, f, S, group)
    BY <1>5, <1>6, <1>14, SyncedIsWhole
  <2> QED BY <2>1 DEF SyncedTo
<1>8. form' = r
  BY <1>1, <1>3, <1>6
<1>9. OfChosenDay'
  BY <1>1, <1>2, <1>7, <1>8 DEF OfChosenDay, NoSlots, BoardDays
<1>10. StartsIn(form')
  BY <1>7, <1>8 DEF StartsIn
<1>11. Clicked' = Clicked
  BY <1>1, ClickedStays
<1>12. AskedFor'
  <2>1. CASE WholeIn(r, S, group)
    BY <1>1, <1>3, <1>8, <2>1 DEF AskedFor
  <2>2. CASE r = f /\ ~WholeIn(r, S, group)
    <3>1. f.ids = <<>> \/ (f.ids = form.ids /\ f.total = form.total /\ f.court = form.court)
      BY <1>3, <1>7, <2>2
    <3>2. CASE f.ids = <<>>
      BY <1>8, <2>2, <3>2 DEF AskedFor
    <3>3. CASE f.ids = form.ids /\ f.total = form.total /\ f.court = form.court
      <4>1. WholeIn(form, S, group) => WholeIn(f, S, group)
        BY <3>3, Zenon DEF WholeIn
      <4> QED BY <1>2, <1>3, <1>8, <1>11, <2>2, <3>3, <4>1 DEF AskedFor
    <3> QED BY <3>1, <3>2, <3>3
  <2> QED BY <1>7, <2>1, <2>2
<1> QED BY <1>9, <1>10, <1>12 DEF ChoiceInv

LEMMA ChoiceInit == DialogInit => ChoiceInv
BY DEF DialogInit, ChoiceInv

LEMMA ChoiceStep ==
  ASSUME DialogInv, ChoiceInv, [DialogNext]_dialogVars
  PROVE  ChoiceInv'
<1>0. PageDay \in BoardDays /\ PageDay # None /\ None \notin BoardDays
  BY BoardsAssumption
<1>1. ASSUME mode' # "edit" PROVE ChoiceInv'
  BY <1>1 DEF ChoiceInv
<1>2. ASSUME NEW s \in board, OpenEdit(s) PROVE ChoiceInv'
  <2>1. PICK g : g = findBookingGroupForSlot(groupBookedSlots(board), s)
    OBVIOUS
  <2>2. /\ mode = "closed" /\ board' = board /\ slot' = s /\ slots' = slots /\ Booked(s)
        /\ form' = bookingGroupToForm(g) /\ awaiting' = form'.day
    BY <1>2, <2>1 DEF OpenEdit
  <2>3. slots = NoSlots /\ board \in Boards[PageDay]
    BY <2>2 DEF DialogInv, EditingABooking
  <2>4. g \in Seq(board) /\ g # <<>>
    BY <1>0, <2>1, <2>2, <2>3, FoundGroup
  <2>5. g[1] \in board /\ g[1].day = PageDay
    BY <1>0, <2>3, <2>4, BoardFacts
  <2>6. PICK end, status, amount :
          form' = [createBookingForm EXCEPT !.day = g[1].day, !.court = g[1].court, !.start = g[1].id,
                     !.end = end, !.ids = IdsOf(g), !.total = PriceOf(ToSet(g)), !.status = status, !.amount = amount]
    BY <2>2 DEF bookingGroupToForm
  <2>7. /\ form'.day = PageDay /\ form'.court = g[1].court /\ form'.start = g[1].id
        /\ form'.ids = IdsOf(g) /\ form'.total = PriceOf(ToSet(g))
    BY <2>5, <2>6 DEF createBookingForm
  <2>8. Clicked' = g
    BY <2>1, <2>2 DEF Clicked
  <2>9. OfChosenDay'
    BY <2>2, <2>3 DEF OfChosenDay, NoSlots
  <2>10. StartsIn(form')
    <3>1. \A T \in Boards[PageDay] : \A t \in T : t.id = g[1].id => t.court = g[1].court
      BY <1>0, <2>3, <2>5, BoardsAssumption
    <3> QED BY <2>7, <3>1 DEF StartsIn
  <2>11. AskedFor'
    BY <2>7, <2>8 DEF AskedFor
  <2> QED BY <2>9, <2>10, <2>11 DEF ChoiceInv
<1>3. ASSUME DayAnswered PROVE ChoiceInv'
  <2>1. PICK S \in Boards[awaiting] : slots' = [day |-> awaiting, of |-> S] /\ form' = Synced(form, S)
    BY <1>3 DEF DayAnswered
  <2>2. /\ mode = "edit" /\ awaiting = form.day /\ awaiting # None /\ awaiting' = None
        /\ UNCHANGED <<board, mode, slot, group>> /\ DOMAIN form = FormFields
    BY <1>3 DEF DayAnswered, DialogInv, EditingABooking
  <2>3. form.day \in BoardDays /\ StartsIn(form) /\ AskedFor
    BY <2>2 DEF DialogInv, EditingABooking, ChoiceInv
  <2>4. PICK d, f, r : d = form.day /\ f = form /\ r = Synced(f, S) /\ d \in BoardDays
    BY <2>3
  <2>5. SyncedTo(r, f, S, group)
    <3>1. S \in Boards[d] /\ f.day = d /\ DOMAIN f = FormFields
      BY <2>1, <2>2, <2>4
    <3>2. \A s \in S : s.id = f.start => s.court = f.court
      BY <2>3, <2>4, <3>1 DEF StartsIn
    <3> QED BY <2>4, <3>1, <3>2, SyncedIsWhole
  <2>6. /\ form' = r /\ r.day = form.day /\ r.start = form.start /\ r.court = form.court
        /\ r = form \/ WholeIn(r, S, group)
    BY <2>1, <2>4, <2>5 DEF SyncedTo
  <2>7. OfChosenDay'
    BY <2>1, <2>2, <2>3, <2>6 DEF OfChosenDay, BoardDays
  <2>8. StartsIn(form')
    BY <2>3, <2>6 DEF StartsIn
  <2>9. Clicked' = Clicked
    BY <2>2, ClickedStays
  <2>10. AskedFor'
    <3>1. slots'.of = S
      BY <2>1
    <3> QED BY <2>2, <2>3, <2>6, <2>9, <3>1 DEF AskedFor
  <2> QED BY <2>7, <2>8, <2>10 DEF ChoiceInv
<1>4. ASSUME DayFailed PROVE ChoiceInv'
  <2>1. /\ awaiting # None /\ slots' = NoSlots /\ UNCHANGED <<board, mode, slot, group, form>>
    BY <1>4 DEF DayFailed
  <2>2. Clicked' = Clicked
    BY <2>1, ClickedStays
  <2>3. OfChosenDay'
    BY <2>1 DEF OfChosenDay, NoSlots
  <2>4. ASSUME mode = "edit" PROVE StartsIn(form') /\ AskedFor'
    <3>1. StartsIn(form) /\ AskedFor
      BY <2>4 DEF ChoiceInv
    <3> QED BY <2>1, <2>2, <3>1 DEF AskedFor
  <2> QED BY <2>1, <2>3, <2>4 DEF ChoiceInv
<1>5. ASSUME NEW d \in BoardDays, changeDay(d) PROVE ChoiceInv'
  <2>1. /\ mode = "edit" /\ UNCHANGED <<board, mode, slot, group, slots>>
        /\ form' = [Cleared(form) EXCEPT !.day = d]
        /\ IF d = form.day THEN awaiting' = awaiting ELSE awaiting' = d
    BY <1>5 DEF changeDay
  <2>2. form'.day = d /\ form'.start = 0 /\ form'.ids = <<>>
    BY <2>1 DEF Cleared, FormFields, DialogInv
  <2>3. OfChosenDay
    BY <2>1 DEF ChoiceInv
  <2>4. OfChosenDay'
    BY <1>0, <2>1, <2>2, <2>3 DEF OfChosenDay, NoSlots, BoardDays
  <2>5. StartsIn(form')
    <3>1. PICK f : f = form'
      OBVIOUS
    <3>2. StartsIn(f)
      BY <2>2, <3>1, NoSlotHasZero
    <3> QED BY <3>1, <3>2
  <2> QED BY <2>2, <2>4, <2>5 DEF ChoiceInv, AskedFor
<1>6. ASSUME NEW c, changeCourt(c) PROVE ChoiceInv'
  <2>1. PICK f : f = [Cleared(form) EXCEPT !.court = c]
    OBVIOUS
  <2>2. Edited(f) /\ mode = "edit"
    BY <1>6, <2>1 DEF changeCourt, Edited
  <2>3. DOMAIN f = FormFields /\ f.day = form.day /\ f.start = 0 /\ f.ids = <<>>
    BY <2>1 DEF Cleared, FormFields, DialogInv
  <2>4. StartsIn(f)
    BY <2>2, <2>3, NoSlotHasZero DEF DialogInv, EditingABooking
  <2> QED BY <2>2, <2>3, <2>4, EditedChoice
<1>7. ASSUME NEW id, changeStart(id) PROVE ChoiceInv'
  <2>1. PICK f : f = [form EXCEPT !.start = id, !.end = id, !.ids = <<id>>]
    OBVIOUS
  <2>2. Edited(f) /\ mode = "edit" /\ awaiting = None /\ id \in startOptions(slots.of, form.court, group)
    BY <1>7, <2>1 DEF changeStart, Edited, editorLoading
  <2>3. DOMAIN f = FormFields /\ f.day = form.day /\ f.court = form.court /\ f.start = id /\ f.end = id
    BY <2>1 DEF FormFields, DialogInv
  <2>4. PICK u \in slots.of : u.id = id /\ u.court = form.court
    BY <2>2 DEF startOptions, OfCourt
  <2>5. form.day \in BoardDays /\ slots.of \in Boards[form.day]
    BY <2>2, <2>4 DEF DialogInv, EditingABooking, ChoiceInv, OfChosenDay, NoSlots
  <2>6. StartsIn(f)
    <3>1. \A T \in Boards[form.day] : \A t \in T : t.id = u.id => t.court = u.court
      BY <2>5, BoardsAssumption
    <3> QED BY <2>3, <2>4, <3>1 DEF StartsIn
  <2> QED BY <2>2, <2>3, <2>6, EditedChoice
<1>8. ASSUME NEW id, changeEnd(id) PROVE ChoiceInv'
  <2>1. PICK f : f = [form EXCEPT !.end = id]
    OBVIOUS
  <2>2. Edited(f) /\ mode = "edit"
    BY <1>8, <2>1 DEF changeEnd, Edited
  <2>3. /\ DOMAIN f = FormFields /\ f.day = form.day /\ f.court = form.court /\ f.start = form.start
        /\ f.ids = form.ids /\ f.total = form.total
    BY <2>1 DEF FormFields, DialogInv
  <2>4. StartsIn(f)
    BY <2>2, <2>3 DEF StartsIn, ChoiceInv
  <2> QED BY <2>2, <2>3, <2>4, EditedChoice
<1>9. ASSUME NEW f, Fields(f), f.day = form.day, f.court = form.court, f.start = form.start, f.ids = form.ids,
             f.total = form.total
      PROVE  ChoiceInv'
  BY <1>9, ChoiceKept DEF Fields
<1>10. ASSUME NEW id, changeCreateEnd(id) PROVE ChoiceInv'
  BY <1>1, <1>10 DEF changeCreateEnd, Fields
<1>11. ASSUME NEW status, changeStatus(status) PROVE ChoiceInv'
  <2>1. PICK amount : Fields([form EXCEPT !.status = status, !.amount = amount])
    BY <1>11 DEF changeStatus
  <2>2. PICK f : f = [form EXCEPT !.status = status, !.amount = amount]
    OBVIOUS
  <2>3. Fields(f) /\ f.day = form.day /\ f.court = form.court /\ f.start = form.start /\ f.ids = form.ids
        /\ f.total = form.total
    BY <2>1, <2>2 DEF FormFields, DialogInv
  <2> QED BY <1>9, <2>3
<1>12. ASSUME NEW amount, changeAmount(amount) PROVE ChoiceInv'
  <2>1. PICK f : f = [form EXCEPT !.amount = amount]
    OBVIOUS
  <2>2. Fields(f) /\ f.day = form.day /\ f.court = form.court /\ f.start = form.start /\ f.ids = form.ids
        /\ f.total = form.total
    BY <1>12, <2>1 DEF changeAmount, FormFields, DialogInv
  <2> QED BY <1>9, <2>2
<1>13. ASSUME giveReason PROVE ChoiceInv'
  <2>1. PICK f : f = [form EXCEPT !.reason = TRUE]
    OBVIOUS
  <2>2. Fields(f) /\ f.day = form.day /\ f.court = form.court /\ f.start = form.start /\ f.ids = form.ids
        /\ f.total = form.total
    BY <1>13, <2>1 DEF giveReason, FormFields, DialogInv
  <2> QED BY <1>9, <2>2
<1>14. ASSUME UNCHANGED <<board, mode, slot, group, form, slots, awaiting>> PROVE ChoiceInv'
  BY <1>14, ChoiceKept
<1>15. ASSUME NEW d, OutdatedAnswer(d) PROVE ChoiceInv'
  BY <1>14, <1>15 DEF OutdatedAnswer
<1>16. ASSUME NEW s, OpenCreate(s) PROVE ChoiceInv'
  BY <1>1, <1>16 DEF OpenCreate
<1>17. ASSUME Close PROVE ChoiceInv'
  BY <1>1, <1>17 DEF Close
<1>18. ASSUME UNCHANGED dialogVars PROVE ChoiceInv'
  BY <1>14, <1>18 DEF dialogVars
<1> QED BY <1>2, <1>3, <1>4, <1>5, <1>6, <1>7, <1>8, <1>10, <1>11, <1>12, <1>13, <1>15, <1>16, <1>17,
           <1>18 DEF DialogNext

LEMMA ChoiceHolds == DialogSpec => []ChoiceInv
BY ChoiceInit, ChoiceStep, DialogInvariant, PTL DEF DialogSpec

\* SavesWholeChoices for all boards and any order of the answers: what a save asks for is the
\* group as it was opened or a run of selectable slots of the chosen day and court, at their
\* price, and, but for bookings of single slots shown as one, no slot of another booking.
THEOREM SavesAskForWholes == DialogSpec => []SavesWholeChoices
<1>1. ASSUME DialogInv, OfClicked, ChoiceInv PROVE SavesWholeChoices
  <2> SUFFICES ASSUME MayUpdate, ~Split(board, slot.group)
               PROVE  /\ WholeGroup \/ WholeRun
                      /\ (group[1].group # NoGroup \/ Len(group) = 1) /\ form.ids # IdsOf(group) =>
                           \A s \in slots.of : s.id \in ToSet(form.ids) => MovesAlong(s)
    BY DEF SavesWholeChoices
  <2>1. mode = "edit" /\ form.ids # <<>>
    BY DEF MayUpdate
  <2>2. PageDay \in BoardDays /\ group = Clicked /\ group \in Seq(board) /\ group # <<>>
    BY <1>1, <2>1, EditedGroup
  <2>3. OfChosenDay /\ AskedFor
    BY <1>1, <2>1 DEF ChoiceInv
  <2>4. WholeGroup \/ (awaiting = None /\ WholeIn(form, slots.of, group))
    BY <2>1, <2>2, <2>3 DEF AskedFor, WholeGroup
  <2>5. WholeIn(form, slots.of, group) => WholeRun
    BY Zenon DEF WholeIn, WholeRun, ByTime
  <2>6. ASSUME group[1].group # NoGroup \/ Len(group) = 1, form.ids # IdsOf(group),
               NEW s \in slots.of, s.id \in ToSet(form.ids)
        PROVE  MovesAlong(s)
    <3>1. WholeIn(form, slots.of, group)
      BY <2>4, <2>6 DEF WholeGroup
    <3>2. PICK S : S = slots.of
      OBVIOUS
    <3>3. slots.day \in BoardDays /\ S \in Boards[slots.day]
      BY <2>3, <2>6, <3>2 DEF OfChosenDay, NoSlots
    <3>4. PICK R \in SUBSET S : IdsOf(ByTime(R)) = form.ids /\ IsRun(R) /\ \A x \in R : slotIsSelectable(x, group)
      BY <3>1, <3>2 DEF WholeIn
    <3>5. PICK list : list = ByTime(R)
      OBVIOUS
    <3>6. /\ IsFiniteSet(S) /\ \A x \in S : x.start \in Int
          /\ \A x, y \in S : x.id = y.id => x = y
          /\ \A x, y \in S : x.court = y.court /\ x.start = y.start => x = y
      BY <3>3, BoardFacts
    <3>7. ToSet(list) = R
      <4>1. IsFiniteSet(R) /\ \A x \in R : x.start \in Int
        BY <3>6, FS_Subset
      <4>2. \A x, y \in R : x.start = y.start => x = y
        BY <3>4, <3>6 DEF IsRun
      <4> QED BY <3>5, <4>1, <4>2, RunSorted
    <3>8. PICK m \in DOMAIN list : list[m].id = s.id
      BY <2>6, <3>4, <3>5, IdsIn
    <3>9. list[m] \in R
      BY <3>7 DEF ToSet
    <3>10. list[m] = s
      BY <3>2, <3>6, <3>8, <3>9
    <3>11. slotIsSelectable(s, group)
      BY <3>4, <3>9, <3>10
    <3>12. 1 \in DOMAIN group
      BY <2>2
    <3>13. \A i \in DOMAIN group : Len(group) = 1 => i = 1
      BY <2>2
    <3> QED BY <2>6, <3>11, <3>12, <3>13 DEF slotIsSelectable, sameBookingGroup, MovesAlong
  <2> QED BY <2>4, <2>5, <2>6
<1> QED BY <1>1, DialogInvariant, OfClickedHolds, ChoiceHolds, PTL

-----------------------------------------------------------------------------
(* A group that is opened and saved as it is.                              *)

\* A group that is a run of one customer is chosen as it is by its first and last slots.
LEMMA GroupIsChosen ==
  ASSUME NEW d \in BoardDays, NEW B \in Boards[d], NEW g \in Seq(B), g # <<>>, InOneGroup(g),
         IsRun(ToSet(g)), \A s, t \in ToSet(g) : s.customer = t.customer,
         NEW chosen, chosen = selectedSlots(B, g[1].id, Last(g).id, g)
  PROVE  chosen = g
<1>1. PICK n, T : n \in Nat /\ n = Len(g) /\ T = ToSet(g)
  OBVIOUS
<1>2. /\ DOMAIN g = 1..n /\ 1 \in 1..n /\ n \in 1..n /\ Last(g) = g[n]
      /\ \A i \in 1..n : g[i] \in B /\ g[i] \in T
      /\ \A s \in T : s \in B /\ \E i \in 1..n : g[i] = s
  BY <1>1 DEF Last, ToSet
<1>3. /\ IsFiniteSet(B) /\ \A s \in B : s.start \in Int /\ s.id \in Int /\ s.court \in Int /\ s.customer \in Int
      /\ \A s, t \in B : s.id = t.id => s = t
      /\ \A s, t \in B : s.court = t.court /\ s.start = t.start => s = t
  BY BoardFacts
<1>4. \A s, t \in T : s.court = t.court /\ s.customer = t.customer
  BY <1>1 DEF IsRun
<1>5. \A i, j \in 1..n : i < j => g[i].start < g[j].start
  <2> TAKE i, j \in 1..n
  <2> SUFFICES ASSUME i < j PROVE g[i].start < g[j].start
    OBVIOUS
  <2>1. SortedBefore(g[i], g[j])
    BY <1>2 DEF InOneGroup
  <2>2. g[i].court = g[j].court /\ g[i].customer = g[j].customer
    BY <1>2, <1>4
  <2> QED BY <1>2, <1>3, <2>1, <2>2 DEF SortedBefore
<1>6. \A i \in 1..n : g[1].start <= g[i].start /\ g[i].start <= g[n].start
  <2> TAKE i \in 1..n
  <2>1. g[1].start \in Int /\ g[i].start \in Int /\ g[n].start \in Int
    BY <1>2, <1>3
  <2>2. i = 1 \/ g[1].start < g[i].start
    BY <1>2, <1>5
  <2>3. i = n \/ g[i].start < g[n].start
    BY <1>2, <1>5
  <2> QED BY <2>1, <2>2, <2>3
<1>7. \A s \in T : slotIsSelectable(s, g)
  <2> TAKE s \in T
  <2>1. PICK i \in 1..n : g[i] = s
    BY <1>2
  <2>2. Booked(s) /\ s.group = g[1].group
    BY <1>2, <2>1 DEF InOneGroup, Alike
  <2>3. \E k \in DOMAIN g : g[k].booking = s.booking
    BY <1>2, <2>1
  <2> QED BY <2>2, <2>3 DEF slotIsSelectable, sameBookingGroup, NoBooking
<1>8. PICK first, last : first = g[1] /\ last = g[n] /\ first \in B /\ last \in B /\ first \in T /\ last \in T
  BY <1>2
<1>9. PICK run : run = contiguousSlots(B, first.id, g)
  OBVIOUS
<1>10. run = {s \in B : /\ s.court = first.court /\ s.start >= first.start
                        /\ \A t \in first.start..s.start : \E u \in B :
                             u.court = first.court /\ u.start = t /\ slotIsSelectable(u, g)}
  <2>1. run = Following(B, first, g)
    BY <1>8, <1>9, ContiguousFrom
  <2> QED BY <2>1 DEF Following
<1>11. T \subseteq run
  <2> SUFFICES ASSUME NEW s \in T PROVE s \in run
    OBVIOUS
  <2>1. s \in B /\ s.court = first.court /\ s.start >= first.start
    <3>1. PICK i \in 1..n : g[i] = s
      BY <1>2
    <3> QED BY <1>2, <1>3, <1>4, <1>6, <1>8, <3>1
  <2>2. ASSUME NEW t \in first.start..s.start
        PROVE  \E u \in B : u.court = first.court /\ u.start = t /\ slotIsSelectable(u, g)
    <3>1. PICK u \in T : u.start = t
      BY <1>1, <1>8 DEF IsRun
    <3> QED BY <1>2, <1>4, <1>7, <1>8, <3>1
  <2> QED BY <1>10, <2>1, <2>2
<1>12. PICK ends, upTo :
        /\ ends = {s \in run : s.id = last.id}
        /\ upTo = IF ends = {} THEN {s \in run : s.id = first.id}
                  ELSE {s \in run : \E e \in ends : s.start <= e.start}
  OBVIOUS
<1>13. ends = {last}
  BY <1>3, <1>8, <1>10, <1>11, <1>12
<1>14. upTo = {s \in run : s.start <= last.start}
  BY <1>12, <1>13
<1>15. upTo = T
  <2>1. \A s \in T : s.start <= last.start
    BY <1>2, <1>6, <1>8
  <2>2. ASSUME NEW s \in run, s.start <= last.start PROVE s \in T
    <3>1. s \in B /\ s.court = first.court /\ s.start >= first.start /\ s.start \in Int
          /\ first.start \in Int /\ last.start \in Int
      BY <1>3, <1>8, <1>10
    <3>2. s.start \in first.start..last.start
      BY <2>2, <3>1
    <3>3. PICK v \in T : v.start = s.start
      BY <1>1, <1>8, <3>2 DEF IsRun
    <3>4. v = s
      BY <1>2, <1>3, <1>4, <1>8, <3>1, <3>3
    <3> QED BY <3>3, <3>4
  <2> QED BY <1>11, <1>14, <2>1, <2>2
<1>16. chosen = ByTime(upTo)
  <2>1. chosen = selectedSlots(B, first.id, last.id, g)
    BY <1>2, <1>8
  <2> QED BY <1>9, <1>12, <2>1, Zenon DEF selectedSlots, ByTime
<1>17. IsFiniteSet(T) /\ g \in SetToSeqs(T)
  <2>1. \A i, j \in DOMAIN g : g[i] = g[j] => i = j
    <3> SUFFICES ASSUME NEW i \in 1..n, NEW j \in 1..n, g[i] = g[j] PROVE i = j
      BY <1>2
    <3>1. g[i].start \in Int
      BY <1>2, <1>3
    <3>2. ~(g[i].start < g[i].start)
      BY <3>1
    <3>3. ~(i < j) /\ ~(j < i)
      BY <1>5, <3>2
    <3> QED BY <3>3
  <2> QED BY <1>1, <2>1, EnumeratesItsSet
<1>18. chosen \in SetToSeqs(T) /\ \A i, j \in DOMAIN chosen : i < j => chosen[i].start < chosen[j].start
       /\ chosen \in Seq(T)
  <2>1. \A s \in T : s.start \in Int
    BY <1>2, <1>3
  <2>2. \A s, t \in T : s.start = t.start => s = t
    BY <1>2, <1>3, <1>4
  <2> QED BY <1>15, <1>16, <1>17, <2>1, <2>2, RunSorted
<1>19. PICK R : R = {p \in T \X T : p[1].start < p[2].start}
  OBVIOUS
<1>20. \A x, y \in T : <<x, y>> \in R <=> x.start < y.start
  BY <1>19
<1>21. \A x, y \in T : <<x, y>> \in R => <<y, x>> \notin R
  BY <1>2, <1>3, <1>20
<1>22. \A i, j \in DOMAIN g : i < j => <<g[i], g[j]>> \in R
  BY <1>2, <1>5, <1>20
<1>23. \A i, j \in DOMAIN chosen : i < j => <<chosen[i], chosen[j]>> \in R
  BY <1>18, <1>20
<1> QED BY <1>17, <1>18, <1>21, <1>22, <1>23, SortedIsUnique

SyncedFor(f, S, g) == LET chosen == selectedSlots(S, f.start, f.end, g) IN
  IF chosen = <<>> THEN f ELSE [f EXCEPT !.ids = IdsOf(chosen), !.total = PriceOf(ToSet(chosen))]

LEMMA SyncedWithNone ==
  ASSUME NEW f, NEW g PROVE SyncedFor(f, {}, g) = f
<1>1. selectedSlots({}, f.start, f.end, g) = <<>>
  BY NothingFollowsNothing
<1> QED BY <1>1 DEF SyncedFor

\* As long as no field is changed, the form is that of the group, with what the effect of the
\* editor makes of it; and nothing is shown before the first answer.
AsOpened ==
  mode = "edit" /\ ~touched =>
    /\ awaiting # None => slots = NoSlots
    /\ form = SyncedFor(bookingGroupToForm(Clicked), slots.of, group)

LEMMA AsOpenedInit == DialogInit => AsOpened
BY DEF DialogInit, AsOpened

LEMMA AsOpenedStep ==
  ASSUME DialogInv, AsOpened, [DialogNext]_dialogVars
  PROVE  AsOpened'
<1>1. ASSUME mode' # "edit" \/ touched' PROVE AsOpened'
  BY <1>1 DEF AsOpened
<1>2. ASSUME UNCHANGED <<board, mode, slot, group, form, slots, awaiting, touched>> PROVE AsOpened'
  <2>1. Clicked' = Clicked
    BY <1>2, ClickedStays
  <2> QED BY <1>2, <2>1 DEF AsOpened, NoSlots
<1>3. ASSUME NEW s \in board, OpenEdit(s) PROVE AsOpened'
  <2>1. PICK g : g = findBookingGroupForSlot(groupBookedSlots(board), s)
    OBVIOUS
  <2>2. /\ mode = "closed" /\ board' = board /\ slot' = s /\ slots' = slots
        /\ form' = bookingGroupToForm(g)
    BY <1>3, <2>1 DEF OpenEdit
  <2>3. slots = NoSlots
    BY <2>2 DEF DialogInv, EditingABooking
  <2>4. Clicked' = g
    BY <2>1, <2>2 DEF Clicked
  <2>5. PICK h : h = group'
    OBVIOUS
  <2>6. SyncedFor(bookingGroupToForm(g), {}, h) = bookingGroupToForm(g)
    BY SyncedWithNone
  <2> QED BY <2>2, <2>3, <2>4, <2>5, <2>6 DEF AsOpened, NoSlots
<1>4. ASSUME DayAnswered PROVE AsOpened'
  <2>1. PICK S \in Boards[awaiting] : slots' = [day |-> awaiting, of |-> S] /\ form' = Synced(form, S)
    BY <1>4 DEF DayAnswered
  <2>2. /\ mode = "edit" /\ awaiting # None /\ awaiting' = None
        /\ UNCHANGED <<board, mode, slot, group, touched>>
    BY <1>4 DEF DayAnswered, DialogInv, EditingABooking
  <2>3. Clicked' = Clicked
    BY <2>2, ClickedStays
  <2>4. ASSUME ~touched PROVE form' = SyncedFor(bookingGroupToForm(Clicked), S, group)
    <3>1. slots.of = {} /\ form = SyncedFor(bookingGroupToForm(Clicked), slots.of, group)
      BY <2>2, <2>4 DEF AsOpened, NoSlots
    <3>2. PICK f, g : f = bookingGroupToForm(Clicked) /\ g = group
      OBVIOUS
    <3>3. form = f
      BY <3>1, <3>2, SyncedWithNone
    <3>4. form' = SyncedFor(form, S, group)
      BY <2>1, Zenon DEF Synced, SyncedFor
    <3> QED BY <3>2, <3>3, <3>4
  <2> QED BY <2>1, <2>2, <2>3, <2>4 DEF AsOpened
<1>5. ASSUME DayFailed PROVE AsOpened'
  <2>1. /\ awaiting # None /\ awaiting' = None /\ slots' = NoSlots
        /\ UNCHANGED <<board, mode, slot, group, form, touched>>
    BY <1>5 DEF DayFailed
  <2>2. Clicked' = Clicked
    BY <2>1, ClickedStays
  <2> QED BY <2>1, <2>2 DEF AsOpened, NoSlots
<1>6. ASSUME NEW d, OutdatedAnswer(d) PROVE AsOpened'
  BY <1>2, <1>6 DEF OutdatedAnswer
<1>7. ASSUME UNCHANGED dialogVars PROVE AsOpened'
  BY <1>2, <1>7 DEF dialogVars
<1>8. ASSUME NEW s, OpenCreate(s) PROVE AsOpened'
  BY <1>1, <1>8 DEF OpenCreate
<1>9. ASSUME Close PROVE AsOpened'
  BY <1>1, <1>9 DEF Close
<1>10. CASE \E s \in board : OpenCreate(s) \/ OpenEdit(s)
  BY <1>3, <1>8, <1>10
<1>11. CASE Close \/ DayAnswered \/ DayFailed
  BY <1>4, <1>5, <1>9, <1>11
<1>12. CASE \E d \in BoardDays : OutdatedAnswer(d)
  BY <1>6, <1>12
<1>13. CASE touched'
  BY <1>1, <1>13
<1>14. ASSUME DialogNext
       PROVE  \/ \E s \in board : OpenCreate(s) \/ OpenEdit(s)
              \/ Close \/ DayAnswered \/ DayFailed
              \/ \E d \in BoardDays : OutdatedAnswer(d)
              \/ touched'
  BY <1>14 DEF DialogNext, giveReason, Fields, changeDay, changeCourt, Edited, changeStart, changeEnd,
     changeCreateEnd, changeStatus, changeAmount
<1> QED BY <1>7, <1>10, <1>11, <1>12, <1>13, <1>14

LEMMA AsOpenedHolds == DialogSpec => []AsOpened
BY AsOpenedInit, AsOpenedStep, DialogInvariant, PTL DEF DialogSpec

LEMMA PaidIsNat ==
  ASSUME NEW d \in BoardDays, NEW B \in Boards[d], NEW S \in SUBSET B
  PROVE  PaidOf(S) \in Nat
<1>1. IsFiniteSet(S)
  BY BoardFacts, FS_Subset
<1>2. PICK f : f = [s \in S |-> s.paid]
  OBVIOUS
<1>3. \A x \in S : f[x] \in Nat
  BY <1>2, BoardFacts
<1>4. SumFunctionOnSet(f, S) \in Nat
  BY <1>1, <1>3, SumNat
<1> QED BY <1>2, <1>4 DEF PaidOf

\* The status of a payment that is no larger than the price gives the payment back.
LEMMA StatusGivesPaid ==
  ASSUME NEW paid \in Nat, NEW total \in Nat, paid <= total
  PROVE  resolvePaymentTotal(paymentStatusFromTotals(paid, total), paid, total) = paid
BY DEF resolvePaymentTotal, paymentStatusFromTotals, LesserOf

\* ReopeningChangesNothing for all boards: what the dialog makes of a group gives back the same
\* slots, price and payment, before and after the editor has loaded the day.
THEOREM ReopeningKeepsTheBooking == DialogSpec => []ReopeningChangesNothing
<1>1. ASSUME DialogInv, OfClicked, AsOpened PROVE ReopeningChangesNothing
  <2> SUFFICES ASSUME mode = "edit", ~touched, slots.of \in {{}, board}, ~Split(board, slot.group),
                      PaidOf(ToSet(group)) <= PriceOf(ToSet(group)), IsRun(ToSet(group)),
                      \A s, t \in ToSet(group) : s.customer = t.customer
               PROVE  form.ids = IdsOf(group) /\ totalPrice = PriceOf(ToSet(group)) /\ targetPaid = currentPaid
    BY DEF ReopeningChangesNothing
  <2>1. /\ PageDay \in BoardDays /\ board \in Boards[PageDay]
        /\ group = Clicked /\ group \in Seq(board) /\ group # <<>> /\ InOneGroup(group)
    BY <1>1, EditedGroup
  <2>2. PICK B, g, f, S : B = board /\ g = group /\ f = bookingGroupToForm(g) /\ S = slots.of
    OBVIOUS
  <2>3. form = SyncedFor(f, S, g)
    BY <1>1, <2>1, <2>2 DEF AsOpened
  <2>4. PICK paid, total : paid = PaidOf(ToSet(g)) /\ total = PriceOf(ToSet(g))
    OBVIOUS
  <2>5. f = [createBookingForm EXCEPT !.day = g[1].day, !.court = g[1].court, !.start = g[1].id,
               !.end = Last(g).id, !.ids = IdsOf(g), !.total = total,
               !.status = paymentStatusFromTotals(paid, total), !.amount = paid]
    BY <2>2, <2>4 DEF bookingGroupToForm
  <2>6. /\ DOMAIN f = FormFields /\ f.start = g[1].id /\ f.end = Last(g).id
        /\ f.ids = IdsOf(g) /\ f.total = total
        /\ f.status = paymentStatusFromTotals(paid, total) /\ f.amount = paid
    BY <2>5 DEF createBookingForm, FormFields
  <2>7. form.ids = IdsOf(g) /\ form.total = total /\ form.status = f.status /\ form.amount = f.amount
    <3>1. CASE S = {}
      BY <2>3, <2>6, <3>1, SyncedWithNone
    <3>2. CASE S = B
      <4>1. PICK chosen : chosen = selectedSlots(S, f.start, f.end, g)
        OBVIOUS
      <4>2. chosen = selectedSlots(B, g[1].id, Last(g).id, g)
        BY <2>6, <3>2, <4>1
      <4>3. PICK d \in BoardDays : B \in Boards[d]
        BY <2>1, <2>2
      <4>4. /\ g \in Seq(B) /\ g # <<>> /\ InOneGroup(g) /\ IsRun(ToSet(g))
            /\ \A s, t \in ToSet(g) : s.customer = t.customer
        BY <2>1, <2>2
      <4>5. chosen = g
        BY <4>2, <4>3, <4>4, GroupIsChosen
      <4>6. form = IF chosen = <<>> THEN f
                   ELSE [f EXCEPT !.ids = IdsOf(chosen), !.total = PriceOf(ToSet(chosen))]
        BY <2>3, <4>1 DEF SyncedFor
      <4>7. form = [f EXCEPT !.ids = IdsOf(g), !.total = total]
        BY <2>4, <4>4, <4>5, <4>6
      <4> QED BY <2>6, <4>7 DEF FormFields
    <3> QED BY <2>2, <3>1, <3>2
  <2>8. ToSet(g) \in SUBSET board
    BY <2>1, <2>2 DEF ToSet
  <2>9. paid \in Nat /\ total \in Nat /\ paid <= total
    <3>1. PaidOf(ToSet(g)) \in Nat /\ PriceOf(ToSet(g)) \in Nat
      BY <2>1, <2>8, PaidIsNat, PriceIsNat
    <3> QED BY <2>2, <2>4, <3>1
  <2>10. totalPrice = total
    BY <2>2, <2>4, <2>7 DEF totalPrice
  <2>11. targetPaid = paid
    <3>1. targetPaid = resolvePaymentTotal(f.status, f.amount, total)
      BY <2>7, <2>10 DEF targetPaid
    <3> QED BY <2>6, <2>9, <3>1, StatusGivesPaid
  <2>12. currentPaid = paid
    BY <2>2, <2>4 DEF currentPaid
  <2> QED BY <2>2, <2>4, <2>7, <2>10, <2>11, <2>12
<1> QED BY <1>1, DialogInvariant, OfClickedHolds, AsOpenedHolds, PTL
-----------------------------------------------------------------------------
(* The types of the dialog.                                                *)

LEMMA SelectedIsGroup ==
  ASSUME NEW d \in BoardDays, NEW B \in Boards[d], NEW key
  PROVE  selectedBooking(groupBookedSlots(B), key) \in Seq(B)
<1>1. PICK groups, hits : groups = groupBookedSlots(B) /\ hits = {i \in DOMAIN groups : groupKey(groups[i]) = key}
  OBVIOUS
<1>2. groups \in GroupsOf(B)
  BY <1>1, GroupsHaveAll
<1>3. selectedBooking(groups, key) = FirstFound(groups, hits)
  BY <1>1, Zenon DEF selectedBooking
<1>4. CASE hits = {}
  BY <1>1, <1>3, <1>4 DEF FirstFound, NoBooking
<1>5. CASE hits # {}
  <2>1. DOMAIN groups \subseteq Nat /\ \A i \in DOMAIN groups : groups[i] \in Seq(B)
    BY <1>2 DEF GroupsOf
  <2>2. hits \subseteq Nat
    BY <1>1, <2>1
  <2>3. \E m \in hits : \A k \in hits : m <= k
    BY <1>5, <2>2, LeastNatural
  <2>4. Min(hits) \in hits
    BY <2>3 DEF Min
  <2>5. FirstFound(groups, hits) = groups[Min(hits)]
    BY <1>5 DEF FirstFound
  <2>6. groups[Min(hits)] \in Seq(B)
    BY <1>1, <2>1, <2>4
  <2> QED BY <1>1, <1>3, <2>5, <2>6
<1> QED BY <1>4, <1>5

\* The ids and the price of slots of a day are numbers.
LEMMA ChosenTypes ==
  ASSUME NEW d \in BoardDays, NEW B \in Boards[d], NEW g \in Seq(B)
  PROVE  /\ IdsOf(g) \in Seq(Nat) /\ ToSet(g) \in SUBSET B
         /\ PriceOf(ToSet(g)) \in Nat /\ PaidOf(ToSet(g)) \in Nat
<1>1. \A i \in DOMAIN g : g[i] \in B /\ g[i].id \in Nat
  BY BoardFacts
<1>2. IdsOf(g) \in Seq(Nat)
  BY <1>1 DEF IdsOf
<1>3. ToSet(g) \in SUBSET B
  BY DEF ToSet
<1> QED BY <1>2, <1>3, PriceIsNat, PaidIsNat

LEMMA SyncedIsForm ==
  ASSUME NEW d \in BoardDays, NEW S, S = {} \/ S \in Boards[d], NEW f \in DialogForm
  PROVE  Synced(f, S) \in DialogForm
<1>1. PICK chosen : chosen = selectedSlots(S, f.start, f.end, group)
  OBVIOUS
<1>2. Synced(f, S) = IF chosen = <<>> THEN f
                     ELSE [f EXCEPT !.ids = IdsOf(chosen), !.total = PriceOf(ToSet(chosen))]
  BY <1>1 DEF Synced
<1>3. CASE \A s \in S : s.id # f.start
  <2>1. chosen = <<>>
    BY <1>1, <1>3, NothingFollowsNothing
  <2> QED BY <1>2, <2>1
<1>4. CASE \E s \in S : s.id = f.start
  <2>1. PICK first \in S : first.id = f.start
    BY <1>4
  <2>2. PICK endId, g : endId = f.end /\ g = group
    OBVIOUS
  <2>3. S \in Boards[d] /\ chosen = selectedSlots(S, first.id, endId, g)
    BY <1>1, <2>1, <2>2
  <2>4. PICK upTo \in SUBSET S : ChosenRun(chosen, upTo, S, first, endId, g)
    BY <2>3, SelectedRun
  <2>5. chosen \in Seq(S)
    <3>1. chosen \in Seq(upTo)
      BY <2>4 DEF ChosenRun
    <3> QED BY <3>1
  <2>6. PICK ids, total : ids = IdsOf(chosen) /\ total = PriceOf(ToSet(chosen))
    OBVIOUS
  <2>7. ids \in Seq(Nat) /\ total \in Nat
    BY <2>3, <2>5, <2>6, ChosenTypes
  <2>8. [f EXCEPT !.ids = ids, !.total = total] \in DialogForm
    BY <2>7 DEF DialogForm
  <2> QED BY <1>2, <2>6, <2>8
<1> QED BY <1>3, <1>4

LEMMA FormOfGroup ==
  ASSUME NEW d \in BoardDays, NEW B \in Boards[d], NEW g \in Seq(B), g # <<>>
  PROVE  bookingGroupToForm(g) \in DialogForm /\ bookingGroupToForm(g).day = d
<1>1. PICK paid, total, ids, status : /\ total = PriceOf(ToSet(g)) /\ paid = PaidOf(ToSet(g)) /\ ids = IdsOf(g)
                                      /\ status = paymentStatusFromTotals(paid, total)
  OBVIOUS
<1>2. total \in Nat /\ paid \in Nat /\ ids \in Seq(Nat)
  BY <1>1, ChosenTypes
<1>3. status \in {"unpaid", "partial", "paid"}
  BY <1>1 DEF paymentStatusFromTotals
<1>4. PICK a, b : a = g[1] /\ b = Last(g) /\ a \in B /\ b \in B
  <2>1. g[1] \in B /\ g[Len(g)] \in B
    OBVIOUS
  <2> QED BY <2>1 DEF Last
<1>5. a.day = d /\ a.court \in Nat /\ a.id \in Nat /\ b.id \in Nat
  BY <1>4, BoardFacts
<1>6. bookingGroupToForm(g) =
        [createBookingForm EXCEPT !.day = a.day, !.court = a.court, !.start = a.id, !.end = b.id,
           !.ids = ids, !.total = total, !.status = status, !.amount = paid]
  BY <1>1, <1>4 DEF bookingGroupToForm
<1>7. bookingGroupToForm(g) = [day |-> d, court |-> a.court, start |-> a.id, end |-> b.id, ids |-> ids,
        total |-> total, status |-> status, amount |-> paid, reason |-> FALSE, createEnd |-> Single]
  BY <1>5, <1>6 DEF createBookingForm
<1> QED BY <1>2, <1>3, <1>5, <1>7 DEF DialogForm, Single

LEMMA FreshIsForm == createBookingForm \in DialogForm
BY BoardsAssumption DEF createBookingForm, DialogForm, Single

LEMMA DialogInitTypes == DialogInit => DialogTypeOK
<1> SUFFICES ASSUME DialogInit PROVE DialogTypeOK
  OBVIOUS
<1>1. createBookingForm \in DialogForm /\ <<>> \in Seq(board)
  BY FreshIsForm
<1> QED BY <1>1 DEF DialogInit, DialogTypeOK, NoBooking

\* The days and slots of the editor, and its group, when only the form changes.
LEMMA FormTyped ==
  ASSUME DialogTypeOK, UNCHANGED <<board, mode, slot, group, slots>>, form' \in DialogForm,
         awaiting' \in BoardDays \cup {None}, outdated' \subseteq BoardDays
  PROVE  DialogTypeOK'
BY DEF DialogTypeOK, DialogForm, NoSlots, BoardDays, createBookingForm

LEMMA EditorSlots ==
  ASSUME DialogTypeOK
  PROVE  \E d \in BoardDays : slots.of = {} \/ slots.of \in Boards[d]
BY BoardsAssumption DEF DialogTypeOK, NoSlots

\* What the editor writes to the form.
LEMMA EditedTyped ==
  ASSUME DialogTypeOK, NEW f \in DialogForm, Edited(f)
  PROVE  DialogTypeOK'
<1>1. Synced(f, slots.of) \in DialogForm
  BY EditorSlots, SyncedIsForm
<1> QED BY <1>1, FormTyped DEF Edited, DialogTypeOK

LEMMA ClearedIsForm ==
  ASSUME NEW f \in DialogForm
  PROVE  Cleared(f) \in DialogForm
<1>1. <<>> \in Seq(Nat) /\ 0 \in Nat
  OBVIOUS
<1> QED BY <1>1 DEF Cleared, DialogForm

LEMMA FieldsTyped ==
  ASSUME DialogTypeOK, NEW f \in DialogForm, Fields(f)
  PROVE  DialogTypeOK'
BY FormTyped DEF Fields, DialogTypeOK

\* The price and the payment the dialog computes are numbers.
LEMMA TotalsTyped ==
  ASSUME DialogTypeOK, DialogInv, mode # "closed"
  PROVE  totalPrice \in Nat /\ currentPaid \in Nat
<1>1. PageDay \in BoardDays /\ board \in Boards[PageDay] /\ group \in Seq(board)
  BY BoardsAssumption DEF DialogTypeOK
<1>2. PriceOf(ToSet(group)) \in Nat /\ PaidOf(ToSet(group)) \in Nat
  BY <1>1, ChosenTypes
<1>3. CASE mode = "edit"
  BY <1>2, <1>3 DEF totalPrice, currentPaid, DialogTypeOK, DialogForm
<1>4. CASE mode = "create"
  <2>1. slot \in board
    BY <1>4 DEF DialogInv, Creating
  <2>2. estimateCreateTotal(board, slot, form.createEnd) \in Nat
    BY <1>1, <2>1, EstimateIsNat
  <2> QED BY <1>4, <2>2 DEF totalPrice, currentPaid
<1> QED BY <1>3, <1>4 DEF DialogInv

\* Every step keeps the types of the dialog.
LEMMA DialogStepTypes ==
  ASSUME DialogInv, DialogTypeOK, [DialogNext]_dialogVars
  PROVE  DialogTypeOK'
<1>0. /\ PageDay \in BoardDays /\ PageDay # None /\ board \in Boards[PageDay]
      /\ form \in DialogForm /\ awaiting \in BoardDays \cup {None} /\ outdated \subseteq BoardDays
  BY BoardsAssumption DEF DialogTypeOK
<1>1. ASSUME NEW s \in board, OpenCreate(s) PROVE DialogTypeOK'
  <2>1. s.id \in Nat
    BY <1>0, BoardFacts
  <2>2. form' \in DialogForm
    BY <1>1, <2>1, FreshIsForm DEF OpenCreate, DialogForm
  <2> QED BY <1>1, <2>2 DEF OpenCreate, DialogTypeOK, DialogForm, NoSlots, BoardDays
<1>2. ASSUME NEW s \in board, OpenEdit(s) PROVE DialogTypeOK'
  <2>1. PICK groups, g : groups = groupBookedSlots(board) /\ g = findBookingGroupForSlot(groups, s)
    OBVIOUS
  <2>2. /\ mode' = "edit" /\ slot' = s /\ UNCHANGED <<board, slots, outdated>> /\ Booked(s)
        /\ group' = selectedBooking(groups, groupKey(g))
        /\ form' = bookingGroupToForm(g) /\ awaiting' = form'.day
    BY <1>2, <2>1 DEF OpenEdit
  <2>3. g \in Seq(board) /\ g # <<>>
    BY <1>0, <2>1, <2>2, FoundGroup
  <2>4. form' \in DialogForm /\ form'.day = PageDay
    BY <1>0, <2>2, <2>3, FormOfGroup
  <2>5. group' \in Seq(board)
    BY <1>0, <2>1, <2>2, SelectedIsGroup
  <2> QED BY <1>0, <2>2, <2>4, <2>5 DEF DialogTypeOK, DialogForm, NoSlots, BoardDays
<1>3. ASSUME Close PROVE DialogTypeOK'
  <2>1. /\ mode' = "closed" /\ slot' = <<>> /\ group' = <<>> /\ form' = createBookingForm
        /\ slots' = NoSlots /\ awaiting' = None /\ board' = board
        /\ outdated' = (outdated \cup {awaiting}) \ {None}
    BY <1>3 DEF Close, NoBooking
  <2>2. form' \in DialogForm /\ <<>> \in Seq(board)
    BY <2>1, FreshIsForm
  <2>3. outdated' \subseteq BoardDays
    BY <1>0, <2>1
  <2> QED BY <1>0, <2>1, <2>2, <2>3 DEF DialogTypeOK, DialogForm, NoSlots, BoardDays
<1>4. ASSUME DayAnswered PROVE DialogTypeOK'
  <2>1. PICK S \in Boards[awaiting] : slots' = [day |-> awaiting, of |-> S] /\ form' = Synced(form, S)
    BY <1>4 DEF DayAnswered
  <2>2. awaiting \in BoardDays /\ awaiting' = None /\ UNCHANGED <<board, mode, slot, group, outdated>>
    BY <1>0, <1>4 DEF DayAnswered
  <2>3. form' \in DialogForm
    BY <1>0, <2>1, <2>2, SyncedIsForm
  <2>4. \E d \in BoardDays : slots'.day = d /\ slots'.of \in Boards[d]
    BY <2>1, <2>2
  <2> QED BY <2>2, <2>3, <2>4 DEF DialogTypeOK, DialogForm, NoSlots, BoardDays
<1>5. ASSUME DayFailed PROVE DialogTypeOK'
  BY <1>5 DEF DayFailed, DialogTypeOK, DialogForm, NoSlots, BoardDays
<1>6. ASSUME NEW d \in BoardDays, OutdatedAnswer(d) PROVE DialogTypeOK'
  BY <1>0, <1>6, FormTyped DEF OutdatedAnswer
<1>7. ASSUME NEW d \in BoardDays, changeDay(d) PROVE DialogTypeOK'
  <2>1. form' = [Cleared(form) EXCEPT !.day = d] /\ UNCHANGED <<board, mode, slot, group, slots>>
    BY <1>7 DEF changeDay
  <2>2. PICK f \in DialogForm : f = Cleared(form)
    BY <1>0, ClearedIsForm
  <2>4. form' \in DialogForm
    BY <2>1, <2>2 DEF DialogForm
  <2>3. awaiting' \in BoardDays \cup {None} /\ outdated' \subseteq BoardDays
    BY <1>0, <1>7 DEF changeDay
  <2> QED BY <2>1, <2>3, <2>4, FormTyped
<1>8. ASSUME NEW c, changeCourt(c) PROVE DialogTypeOK'
  <2>1. PICK f : f = [Cleared(form) EXCEPT !.court = c]
    OBVIOUS
  <2>2. Edited(f) /\ c \in uniqueCourtOptions(slots.of)
    BY <1>8, <2>1 DEF changeCourt
  <2>3. c \in Nat
    BY <2>2, EditorSlots, BoardFacts DEF uniqueCourtOptions
  <2>4. PICK g \in DialogForm : g = Cleared(form)
    BY <1>0, ClearedIsForm
  <2>5. f \in DialogForm
    BY <2>1, <2>3, <2>4 DEF DialogForm
  <2> QED BY <2>2, <2>5, EditedTyped
<1>9. ASSUME NEW id, changeStart(id) PROVE DialogTypeOK'
  <2>1. PICK f : f = [form EXCEPT !.start = id, !.end = id, !.ids = <<id>>]
    OBVIOUS
  <2>2. Edited(f) /\ id \in startOptions(slots.of, form.court, group)
    BY <1>9, <2>1 DEF changeStart
  <2>3. \E s \in slots.of : id = s.id
    BY <2>2 DEF startOptions, OfCourt
  <2>4. id \in Nat /\ <<id>> \in Seq(Nat)
    <3>1. id \in Nat
      BY <2>3, EditorSlots, BoardFacts
    <3> QED BY <3>1
  <2>5. f \in DialogForm
    BY <1>0, <2>1, <2>4 DEF DialogForm
  <2> QED BY <2>2, <2>5, EditedTyped
<1>10. ASSUME NEW id, changeEnd(id) PROVE DialogTypeOK'
  <2>1. PICK f : f = [form EXCEPT !.end = id]
    OBVIOUS
  <2>2. Edited(f) /\ id \in {s.id : s \in contiguousSlots(slots.of, form.start, group)}
    BY <1>10, <2>1 DEF changeEnd
  <2>3. \E s \in slots.of : id = s.id
    BY <2>2 DEF contiguousSlots, OfCourt
  <2>4. id \in Nat
    BY <2>3, EditorSlots, BoardFacts
  <2>5. f \in DialogForm
    BY <1>0, <2>1, <2>4 DEF DialogForm
  <2> QED BY <2>2, <2>5, EditedTyped
<1>11. ASSUME NEW id, changeCreateEnd(id) PROVE DialogTypeOK'
  <2>1. PICK f : f = [form EXCEPT !.createEnd = id]
    OBVIOUS
  <2>2. Fields(f) /\ id \in endTimeOptions(board, slot)
    BY <1>11, <2>1 DEF changeCreateEnd
  <2>3. id = Single \/ \E s \in board : id = s.id
    BY <2>2 DEF endTimeOptions, getAvailableRangeEndSlots, OfCourt
  <2>4. id \in Nat
    BY <1>0, <2>3, BoardFacts DEF Single
  <2>5. f \in DialogForm
    BY <1>0, <2>1, <2>4 DEF DialogForm
  <2> QED BY <2>2, <2>5, FieldsTyped
<1>12. ASSUME NEW status \in {"unpaid", "partial", "paid"}, changeStatus(status) PROVE DialogTypeOK'
  <2>1. PICK amount : amount = CASE status = "unpaid" -> 0 [] status = "paid" -> totalPrice
                    [] status = "partial" -> IF form.amount # 0 THEN form.amount ELSE currentPaid
    OBVIOUS
  <2>2. PICK f : f = [form EXCEPT !.status = status, !.amount = amount]
    OBVIOUS
  <2>3. Fields(f) /\ mode # "closed"
    BY <1>0, <1>12, <2>1, <2>2 DEF changeStatus, DialogForm
  <2>4. amount \in Nat
    <3>1. totalPrice \in Nat /\ currentPaid \in Nat /\ form.amount \in Nat
      BY <1>0, <2>3, TotalsTyped DEF DialogForm
    <3>2. amount \in {0, totalPrice, form.amount, currentPaid}
      BY <2>1
    <3> QED BY <3>1, <3>2
  <2>5. f \in DialogForm
    BY <1>0, <2>2, <2>4 DEF DialogForm
  <2> QED BY <2>3, <2>5, FieldsTyped
<1>13. ASSUME NEW amount \in Amounts, changeAmount(amount) PROVE DialogTypeOK'
  <2>1. PICK f : f = [form EXCEPT !.amount = amount]
    OBVIOUS
  <2>2. Fields(f) /\ amount \in Nat
    BY <1>13, <2>1, BoardsAssumption DEF changeAmount
  <2>3. f \in DialogForm
    BY <1>0, <2>1, <2>2 DEF DialogForm
  <2> QED BY <2>2, <2>3, FieldsTyped
<1>14. ASSUME giveReason PROVE DialogTypeOK'
  <2>1. PICK f : f = [form EXCEPT !.reason = TRUE]
    OBVIOUS
  <2>2. Fields(f)
    BY <1>14, <2>1 DEF giveReason
  <2>3. f \in DialogForm
    BY <1>0, <2>1 DEF DialogForm
  <2> QED BY <2>2, <2>3, FieldsTyped
<1>15. ASSUME UNCHANGED dialogVars PROVE DialogTypeOK'
  BY <1>0, <1>15, FormTyped DEF dialogVars
<1> QED BY <1>1, <1>2, <1>3, <1>4, <1>5, <1>6, <1>7, <1>8, <1>9, <1>10, <1>11, <1>12, <1>13, <1>14, <1>15
   DEF DialogNext

\* The types of the dialog: what it hands the page are numbers, whatever was clicked, chosen,
\* answered or left unanswered; the group it edits is one of the board.
THEOREM DialogTypeCorrect == DialogSpec => []DialogTypeOK
BY DialogInitTypes, DialogStepTypes, DialogInvariant, PTL DEF DialogSpec
=============================================================================
