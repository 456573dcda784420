---------------------------- MODULE PortalClient ----------------------------
(* The HTTP client of the web portals: the axios interceptors that hold and  *)
(* replay requests around one POST /auth/refresh (src/frontend, src/partner  *)
(* and src/admin, lib/api/client.ts), the cookie jar the tabs of a browser   *)
(* share, and the refresh tokens of the backend that the cookies name.       *)
(*                                                                           *)
(* A token number stands for an access/refresh pair minted together, 0 for   *)
(* no cookie.  A tab runs its callbacks one at a time, so what JavaScript    *)
(* does between two awaits is one step; what the network and the backend do  *)
(* in between are steps of their own.                                        *)
EXTENDS Naturals, FiniteSets

CONSTANTS
    Tabs,           \* tabs of one browser
    Requests,       \* requests the pages send, each once
    ProbesSession,  \* TRUE for the admin client: it asks /auth/session before
                    \* it gives up on a failed refresh
    MaxExpiries     \* bound on access tokens that run out during the run

ASSUME PortalAssumption ==
    /\ Tabs # {}
    /\ ProbesSession \in BOOLEAN
    /\ MaxExpiries \in Nat

VARIABLES
    request,      \* request[r]: phase, kind, tab, retry flag, cookies carried
    isRefreshing, \* isRefreshing[t]: the client's flag
    failedQueue,  \* failedQueue[t]: requests parked until the refresh is over
    refresh,      \* refresh[t]: the POST /auth/refresh in flight
    page,         \* page[t]: an application page, or the login page
    cookies,      \* the cookie jar: one pair of access and refresh tokens
    live,         \* refresh tokens the backend has not revoked
    rotatedBy,    \* pairs <<tab, token>>: the refreshes the backend performed
    lost,         \* tokens whose refresh was answered by a network error
    expired,      \* access tokens that have run out
    issued        \* how many pairs the backend has minted

clientVars  == <<request, isRefreshing, failedQueue, refresh, page>>
backendVars == <<live, rotatedBy, issued>>
vars == <<request, isRefreshing, failedQueue, refresh, page, cookies,
          live, rotatedBy, lost, expired, issued>>

Kinds   == {"data", "session", "signIn", "signOut"}
Queued  == {"gated", "waiting"}
Settled == {"fulfilled", "rejected"}
Phases  == {"idle", "sent", "ok", "unauthorized", "refreshing"}
           \cup Queued \cup Settled

NoRefresh == [phase |-> "none", by |-> "none", token |-> 0, next |-> 0]

Init ==
    /\ request = [r \in Requests |-> [phase |-> "idle", kind |-> "data",
                     tab |-> CHOOSE t \in Tabs : TRUE, retry |-> FALSE,
                     access |-> 0, token |-> 0]]
    /\ isRefreshing = [t \in Tabs |-> FALSE]
    /\ failedQueue = [t \in Tabs |-> {}]
    /\ refresh = [t \in Tabs |-> NoRefresh]
    /\ page = [t \in Tabs |-> "app"]
    /\ cookies = [access |-> 1, refresh |-> 1]
    /\ live = {1}
    /\ rotatedBy = {}
    /\ lost = {}
    /\ expired = {}
    /\ issued = 1

(* A request leaves with the cookies of that moment.                         *)
Sent(req, jar) ==
    [req EXCEPT !.phase = "sent", !.access = jar.access, !.token = jar.refresh]

(* Session probes pass the gate of the request interceptor.                  *)
Exempt(k) == k = "session"

(* Variant: the parked request itself is stored, not its resolver.           *)
GateConfig(r, t, req) ==
    IF isRefreshing[t] /\ ~Exempt(req.kind)
    THEN /\ request' = [request EXCEPT ![r] = [req EXCEPT !.phase = "gated"]]
         /\ failedQueue' = [failedQueue EXCEPT ![t] = @ \cup {req}]
    ELSE /\ request' = [request EXCEPT ![r] = Sent(req, cookies)]
         /\ UNCHANGED failedQueue

(* The request interceptor: a request made during a refresh is parked.       *)
Gate(r, t, req) ==
    IF isRefreshing[t] /\ ~Exempt(req.kind)
    THEN /\ request' = [request EXCEPT ![r] = [req EXCEPT !.phase = "gated"]]
         /\ failedQueue' = [failedQueue EXCEPT ![t] = @ \cup {r}]
    ELSE /\ request' = [request EXCEPT ![r] = Sent(req, cookies)]
         /\ UNCHANGED failedQueue

(* A page of tab t makes a request: sign-in from the login page, the others  *)
(* from the pages behind it.                                                 *)
Issue(r, t, k) ==
    /\ request[r].phase = "idle"
    /\ (k = "signIn") <=> (page[t] = "login")
    /\ Gate(r, t, [request[r] EXCEPT !.kind = k, !.tab = t])
    /\ UNCHANGED <<isRefreshing, refresh, page, cookies, backendVars, lost, expired>>

(* An access token opens the protected routes until it runs out.             *)
Authorized(a) == a # 0 /\ a \notin expired

(* The backend reads a request: a protected route wants a valid access       *)
(* token, the login a good password, the logout nothing.                     *)
ServeProtected(r) ==
    /\ request[r].phase = "sent"
    /\ request[r].kind \in {"data", "session"}
    /\ request' = [request EXCEPT ![r].phase =
            IF Authorized(request[r].access) THEN "ok" ELSE "unauthorized"]
    /\ UNCHANGED <<isRefreshing, failedQueue, refresh, page, cookies,
                   backendVars, lost, expired>>

ServeSignIn(r) ==
    /\ request[r].phase = "sent"
    /\ request[r].kind = "signIn"
    /\ \/ /\ issued' = issued + 1
          /\ live' = live \cup {issued'}
          /\ request' = [request EXCEPT ![r].phase = "ok", ![r].token = issued']
       \/ /\ request' = [request EXCEPT ![r].phase = "unauthorized"]
          /\ UNCHANGED <<live, issued>>
    /\ UNCHANGED <<isRefreshing, failedQueue, refresh, page, cookies,
                   rotatedBy, lost, expired>>

(* Only the refresh token of the cookie is revoked, if it still is live.     *)
ServeSignOut(r) ==
    /\ request[r].phase = "sent"
    /\ request[r].kind = "signOut"
    /\ live' = live \ {request[r].token}
    /\ request' = [request EXCEPT ![r].phase = "ok"]
    /\ UNCHANGED <<isRefreshing, failedQueue, refresh, page, cookies,
                   rotatedBy, issued, lost, expired>>

(* A 2xx answer: the browser stores its cookies, the promise is fulfilled.   *)
Fulfil(r) ==
    /\ request[r].phase = "ok"
    /\ request' = [request EXCEPT ![r].phase = "fulfilled"]
    /\ cookies' = CASE request[r].kind = "signIn" ->
                         [access |-> request[r].token, refresh |-> request[r].token]
                    [] request[r].kind = "signOut" -> [access |-> 0, refresh |-> 0]
                    [] OTHER -> cookies
    /\ page' = CASE request[r].kind = "signIn"  -> [page EXCEPT ![request[r].tab] = "app"]
                 [] request[r].kind = "signOut" -> [page EXCEPT ![request[r].tab] = "login"]
                 [] OTHER -> page
    /\ UNCHANGED <<isRefreshing, failedQueue, refresh, backendVars, lost, expired>>

(* No answer within the client's timeout, or an error other than 401: the    *)
(* response interceptor passes it on.                                        *)
Fail(r) ==
    /\ request[r].phase \in {"sent", "ok", "unauthorized"}
    /\ request' = [request EXCEPT ![r].phase = "rejected"]
    /\ UNCHANGED <<isRefreshing, failedQueue, refresh, page, cookies,
                   backendVars, lost, expired>>

(* The response interceptor on a 401.  A replay that fails again is given    *)
(* up; ...                                                                   *)
GiveUp(r) ==
    /\ request[r].phase = "unauthorized"
    /\ request[r].retry
    /\ request' = [request EXCEPT ![r].phase = "rejected"]
    /\ UNCHANGED <<isRefreshing, failedQueue, refresh, page, cookies,
                   backendVars, lost, expired>>

(* Variant: a request that meets a refresh in flight is not put in the queue. *)
WaitUnqueued(r) ==
    LET t == request[r].tab IN
    /\ request[r].phase = "unauthorized"
    /\ ~request[r].retry
    /\ isRefreshing[t]
    /\ request' = [request EXCEPT ![r].phase = "waiting"]
    /\ UNCHANGED <<isRefreshing, failedQueue, refresh, page, cookies,
                   backendVars, lost, expired>>

(* ... while a refresh is in flight the request waits for it (its retry flag *)
(* stays as it was); ...                                                     *)
Wait(r) ==
    LET t == request[r].tab IN
    /\ request[r].phase = "unauthorized"
    /\ ~request[r].retry
    /\ isRefreshing[t]
    /\ request' = [request EXCEPT ![r].phase = "waiting"]
    /\ failedQueue' = [failedQueue EXCEPT ![t] = @ \cup {r}]
    /\ UNCHANGED <<isRefreshing, refresh, page, cookies, backendVars, lost, expired>>

(* Variant: the flag is not looked at before a refresh is started.           *)
StartRefreshUnguarded(r) ==
    LET t == request[r].tab IN
    /\ request[r].phase = "unauthorized"
    /\ ~request[r].retry
    /\ request' = [request EXCEPT ![r].phase = "refreshing", ![r].retry = TRUE]
    /\ isRefreshing' = [isRefreshing EXCEPT ![t] = TRUE]
    /\ refresh' = [refresh EXCEPT ![t] =
                     [phase |-> "sent", by |-> r, token |-> cookies.refresh, next |-> 0]]
    /\ UNCHANGED <<failedQueue, page, cookies, backendVars, lost, expired>>

(* Variant: the request is not marked as one that has been retried.          *)
StartRefreshUnmarked(r) ==
    LET t == request[r].tab IN
    /\ request[r].phase = "unauthorized"
    /\ ~request[r].retry
    /\ ~isRefreshing[t]
    /\ request' = [request EXCEPT ![r].phase = "refreshing"]
    /\ isRefreshing' = [isRefreshing EXCEPT ![t] = TRUE]
    /\ refresh' = [refresh EXCEPT ![t] =
                     [phase |-> "sent", by |-> r, token |-> cookies.refresh, next |-> 0]]
    /\ UNCHANGED <<failedQueue, page, cookies, backendVars, lost, expired>>

(* ... otherwise it starts the refresh, with the cookie of this moment.      *)
StartRefresh(r) ==
    LET t == request[r].tab IN
    /\ request[r].phase = "unauthorized"
    /\ ~request[r].retry
    /\ ~isRefreshing[t]
    /\ request' = [request EXCEPT ![r].phase = "refreshing", ![r].retry = TRUE]
    /\ isRefreshing' = [isRefreshing EXCEPT ![t] = TRUE]
    /\ refresh' = [refresh EXCEPT ![t] =
                     [phase |-> "sent", by |-> r, token |-> cookies.refresh, next |-> 0]]
    /\ UNCHANGED <<failedQueue, page, cookies, backendVars, lost, expired>>

(* The backend looks the refresh token up, without locking its row, ...      *)
ReadToken(t) ==
    /\ refresh[t].phase = "sent"
    /\ refresh' = [refresh EXCEPT ![t].phase =
                     IF refresh[t].token \in live THEN "valid" ELSE "refused"]
    /\ UNCHANGED <<request, isRefreshing, failedQueue, page, cookies,
                   backendVars, lost, expired>>

(* ... then revokes it and mints the next pair in one transaction.           *)
Rotate(t) ==
    /\ refresh[t].phase = "valid"
    /\ issued' = issued + 1
    /\ live' = (live \ {refresh[t].token}) \cup {issued'}
    /\ rotatedBy' = rotatedBy \cup {<<t, refresh[t].token>>}
    /\ refresh' = [refresh EXCEPT ![t].phase = "renewed", ![t].next = issued']
    /\ UNCHANGED <<request, isRefreshing, failedQueue, page, cookies, lost, expired>>

(* processQueue(null) and the replay: everybody parked in tab t, and the     *)
(* request that started the refresh, leave with the new cookies.             *)
Replayed(t, jar) ==
    [r \in Requests |->
        IF r \in failedQueue[t] \/ r = refresh[t].by
        THEN Sent(request[r], jar) ELSE request[r]]

(* processQueue(error): everybody parked in tab t is rejected.               *)
Flushed(t) ==
    [r \in Requests |-> IF r \in failedQueue[t]
                        THEN [request[r] EXCEPT !.phase = "rejected"]
                        ELSE request[r]]

(* Variant: the queue is thrown away without being replayed.                 *)
ReplayedFirst(t, jar) ==
    [r \in Requests |-> IF r = refresh[t].by THEN Sent(request[r], jar) ELSE request[r]]

(* Variant: the flag is lowered and the queue is left for the next refresh.  *)
RefreshSucceedsUnflushed(t) ==
    LET jar == [access |-> refresh[t].next, refresh |-> refresh[t].next] IN
    /\ refresh[t].phase = "renewed"
    /\ cookies' = jar
    /\ request' = ReplayedFirst(t, jar)
    /\ isRefreshing' = [isRefreshing EXCEPT ![t] = FALSE]
    /\ refresh' = [refresh EXCEPT ![t] = NoRefresh]
    /\ UNCHANGED <<failedQueue, page, backendVars, lost, expired>>

RefreshSucceeds(t) ==
    LET jar == [access |-> refresh[t].next, refresh |-> refresh[t].next] IN
    /\ refresh[t].phase = "renewed"
    /\ cookies' = jar
    /\ request' = Replayed(t, jar)
    /\ failedQueue' = [failedQueue EXCEPT ![t] = {}]
    /\ isRefreshing' = [isRefreshing EXCEPT ![t] = FALSE]
    /\ refresh' = [refresh EXCEPT ![t] = NoRefresh]
    /\ UNCHANGED <<page, backendVars, lost, expired>>

(* Variant: the finally block is gone.                                       *)
EndRefreshStuck(t, after, stay) ==
    LET r == refresh[t].by IN
    /\ request' = [after EXCEPT ![r].phase = "rejected"]
    /\ refresh' = [refresh EXCEPT ![t] = NoRefresh]
    /\ page' = IF stay \/ Exempt(request[r].kind) THEN page
               ELSE [page EXCEPT ![t] = "login"]
    /\ UNCHANGED isRefreshing

(* The refresh is over without a session: the request behind it is rejected, *)
(* the flag comes down and, unless it was a probe, the page moves to login.  *)
EndRefresh(t, after, stay) ==
    LET r == refresh[t].by IN
    /\ request' = [after EXCEPT ![r].phase = "rejected"]
    /\ isRefreshing' = [isRefreshing EXCEPT ![t] = FALSE]
    /\ refresh' = [refresh EXCEPT ![t] = NoRefresh]
    /\ page' = IF stay \/ Exempt(request[r].kind) THEN page
               ELSE [page EXCEPT ![t] = "login"]

(* The catch block.  The customer and partner clients end the refresh at     *)
(* once; the admin client first asks whether the cookies open a session.     *)
RefreshFailed(t) ==
    /\ failedQueue' = [failedQueue EXCEPT ![t] = {}]
    /\ IF ProbesSession
       THEN /\ request' = Flushed(t)
            /\ refresh' = [refresh EXCEPT ![t].phase = "probing",
                                          ![t].next = cookies.access]
            /\ UNCHANGED <<isRefreshing, page>>
       ELSE EndRefresh(t, Flushed(t), FALSE)

RefreshRefused(t) ==
    /\ refresh[t].phase = "refused"
    /\ RefreshFailed(t)
    /\ UNCHANGED <<cookies, backendVars, lost, expired>>

(* The answer of the refresh is lost, whatever the backend did.              *)
RefreshLost(t) ==
    /\ refresh[t].phase \in {"sent", "valid", "renewed", "refused"}
    /\ RefreshFailed(t)
    /\ lost' = lost \cup {refresh[t].token}
    /\ UNCHANGED <<cookies, backendVars, expired>>

(* hasActiveCookieSession answers: with an active session the tab stays.     *)
Probed(t) ==
    /\ refresh[t].phase = "probing"
    /\ \/ EndRefresh(t, request, Authorized(refresh[t].next))
       \/ EndRefresh(t, request, FALSE)
    /\ UNCHANGED <<failedQueue, cookies, backendVars, lost, expired>>

(* The access token of the jar runs out.                                     *)
ExpireAccess ==
    /\ cookies.access \notin expired \cup {0}
    /\ Cardinality(expired) < MaxExpiries
    /\ expired' = expired \cup {cookies.access}
    /\ UNCHANGED <<clientVars, cookies, backendVars, lost>>

Serve(r)   == ServeProtected(r) \/ ServeSignIn(r) \/ ServeSignOut(r)
Answer(r)  == Fulfil(r) \/ Fail(r) \/ GiveUp(r) \/ Wait(r) \/ StartRefresh(r)
Refresh(t) == ReadToken(t) \/ Rotate(t) \/ RefreshSucceeds(t)
              \/ RefreshRefused(t) \/ RefreshLost(t) \/ Probed(t)

Next ==
    \/ \E r \in Requests, t \in Tabs, k \in Kinds : Issue(r, t, k)
    \/ \E r \in Requests : Serve(r) \/ Answer(r)
    \/ \E t \in Tabs : Refresh(t)
    \/ ExpireAccess

(* The network answers or times out: every call in flight comes to an end.   *)
Fairness ==
    /\ \A r \in Requests : WF_vars(Serve(r)) /\ WF_vars(Answer(r))
    /\ \A t \in Tabs : WF_vars(Refresh(t))

Spec == Init /\ [][Next]_vars /\ Fairness

-----------------------------------------------------------------------------
(* Type invariant.                                                           *)
TypeOK ==
    /\ request \in [Requests -> [phase : Phases, kind : Kinds, tab : Tabs,
                                 retry : BOOLEAN, access : Nat, token : Nat]]
    /\ isRefreshing \in [Tabs -> BOOLEAN]
    /\ failedQueue \in [Tabs -> SUBSET Requests]
    /\ refresh \in [Tabs -> [phase : {"none", "sent", "valid", "renewed",
                                      "refused", "probing"},
                             by : Requests \cup {"none"}, token : Nat, next : Nat]]
    /\ page \in [Tabs -> {"app", "login"}]
    /\ cookies \in [access : Nat, refresh : Nat]
    /\ live \subseteq Nat
    /\ rotatedBy \subseteq Tabs \X Nat
    /\ lost \subseteq Nat
    /\ expired \subseteq Nat
    /\ issued \in Nat

(* Nobody is left behind: a parked request is in the queue of its own tab    *)
(* and a refresh of that tab is in flight that will empty the queue (the     *)
(* two interceptors and processQueue of client.ts).                          *)
NobodyLeftBehind ==
    \A r \in Requests :
        request[r].phase \in Queued =>
            /\ r \in failedQueue[request[r].tab]
            /\ isRefreshing[request[r].tab]
            /\ refresh[request[r].tab].phase # "probing"

(* The flag of the client is the lock of the refresh: it is up exactly while *)
(* a refresh is in flight, and the request that started it is held by it     *)
(* (client.ts, isRefreshing raised before the await, lowered in finally).    *)
FlagIsTheRefresh ==
    \A t \in Tabs :
        /\ isRefreshing[t] <=> (refresh[t].phase # "none")
        /\ isRefreshing[t] => \E r \in Requests :
               /\ refresh[t].by = r
               /\ request[r].phase = "refreshing"
               /\ request[r].tab = t

(* A tab is never refused a refresh token because it had spent that token    *)
(* itself, unless the answer that carried the next one was lost: rotation    *)
(* (refresh_token.py) is safe for a client that refreshes one at a time.     *)
OwnRotationAccepted ==
    \A t \in Tabs :
        refresh[t].phase = "refused" =>
            \/ <<t, refresh[t].token>> \notin rotatedBy
            \/ refresh[t].token \in lost

(* Every request a page makes is settled in the end, whatever refreshes,     *)
(* sign-outs, expiries and lost answers it meets (client.ts, the promises of *)
(* the two interceptors).                                                    *)
EveryRequestSettles ==
    \A r \in Requests :
        (request[r].phase # "idle") ~> (request[r].phase \in Settled)

(* What the interceptors are for, without flag and queue: a request leads    *)
(* the refresh of its tab or waits for it, by its own phase.                 *)
Leading == [t \in Tabs |->
    {r \in Requests : request[r].phase = "refreshing" /\ request[r].tab = t}]
Parked == [t \in Tabs |->
    {r \in Requests : request[r].phase \in Queued /\ request[r].tab = t}]
Led      == {r \in Requests : request[r].retry}
Rejected == {r \in Requests : request[r].phase = "rejected"}

Flight == INSTANCE SingleFlight WITH
    Tab <- Tabs, Request <- Requests,
    leading <- Leading, parked <- Parked, led <- Led, rejected <- Rejected

(* One request at a time leads the refresh of a tab, those that wait for it  *)
(* leave with it and share its fate, and nobody leads twice, so a session    *)
(* that cannot be renewed is not asked for again and again (client.ts,       *)
(* isRefreshing, failedQueue, _retry and processQueue).                      *)
ImplementsSingleFlight == Flight!Spec

=============================================================================
