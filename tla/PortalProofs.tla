----------------------------- MODULE PortalProofs -----------------------------
(***************************************************************************)
(* Theorems about PortalClient, for every number of tabs, requests and     *)
(* expiries: the flag of a tab is the lock of its refresh, a client that   *)
(* ends a failed refresh at once leaves no request parked and implements   *)
(* SingleFlight, and no tab is refused a token because it has rotated it.  *)
(***************************************************************************)
EXTENDS PortalClient, TLAPS

RequestRec == [phase : Phases, kind : Kinds, tab : Tabs,
               retry : BOOLEAN, access : Nat, token : Nat]
RefreshRec == [phase : {"none", "sent", "valid", "renewed", "refused", "probing"},
               by : Requests \cup {"none"}, token : Nat, next : Nat]

-----------------------------------------------------------------------------
(* Type correctness.                                                       *)

LEMMA SentRequest ==
  ASSUME NEW q \in RequestRec, NEW jar \in [access : Nat, refresh : Nat]
  PROVE  /\ Sent(q, jar) \in RequestRec
         /\ Sent(q, jar).phase = "sent"
         /\ Sent(q, jar).kind = q.kind
         /\ Sent(q, jar).tab = q.tab
         /\ Sent(q, jar).retry = q.retry
         /\ Sent(q, jar).token = jar.refresh
<1> DEFINE a == [q EXCEPT !.phase = "sent"]
           b == [a EXCEPT !.access = jar.access]
<1>1. /\ a \in RequestRec /\ a.phase = "sent"
      /\ a.kind = q.kind /\ a.tab = q.tab /\ a.retry = q.retry
  BY DEF RequestRec, Phases
<1>2. Sent(q, jar) = [b EXCEPT !.token = jar.refresh]
  BY Zenon DEF Sent
<1> HIDE DEF a
<1>3. /\ b \in RequestRec /\ b.phase = "sent"
      /\ b.kind = q.kind /\ b.tab = q.tab /\ b.retry = q.retry
  BY <1>1 DEF RequestRec
<1> HIDE DEF b
<1> QED
  BY <1>2, <1>3 DEF RequestRec

LEMMA PhasedRequest ==
  ASSUME NEW q \in RequestRec, NEW p \in Phases
  PROVE  /\ [q EXCEPT !.phase = p] \in RequestRec
         /\ [q EXCEPT !.phase = p].phase = p
         /\ [q EXCEPT !.phase = p].kind = q.kind
         /\ [q EXCEPT !.phase = p].tab = q.tab
         /\ [q EXCEPT !.phase = p].retry = q.retry
         /\ [q EXCEPT !.phase = p].token = q.token
  BY DEF RequestRec

LEMMA NoRefreshRec ==
  /\ NoRefresh \in RefreshRec
  /\ NoRefresh.phase = "none"
  BY DEF NoRefresh, RefreshRec

\* TypeOK, with the record types named.
Types == /\ request \in [Requests -> RequestRec]
         /\ isRefreshing \in [Tabs -> BOOLEAN]
         /\ failedQueue \in [Tabs -> SUBSET Requests]
         /\ refresh \in [Tabs -> RefreshRec]
         /\ page \in [Tabs -> {"app", "login"}]
         /\ cookies \in [access : Nat, refresh : Nat]
         /\ live \subseteq Nat
         /\ rotatedBy \subseteq Tabs \X Nat
         /\ lost \subseteq Nat
         /\ expired \subseteq Nat
         /\ issued \in Nat

LEMMA TypesIsTypeOK == TypeOK <=> Types
  BY Zenon DEF TypeOK, Types, RequestRec, RefreshRec

LEMMA TypesInit == Init => Types
<1> SUFFICES ASSUME Init PROVE Types
  OBVIOUS
<1>1. (CHOOSE t \in Tabs : TRUE) \in Tabs
  BY PortalAssumption
<1> DEFINE q == [phase |-> "idle", kind |-> "data", tab |-> CHOOSE t \in Tabs : TRUE,
                 retry |-> FALSE, access |-> 0, token |-> 0]
<1>2. q \in RequestRec
  BY <1>1 DEF RequestRec, Phases, Kinds
<1>3. request = [r \in Requests |-> q]
  BY Zenon DEF Init
<1> HIDE DEF q
<1>4. request \in [Requests -> RequestRec]
  BY <1>2, <1>3
<1>5. refresh \in [Tabs -> RefreshRec]
  BY NoRefreshRec DEF Init
<1> QED
  BY <1>4, <1>5 DEF Init, Types


\* One request moves to a phase.
LEMMA Moved ==
  ASSUME Types, NEW r \in Requests, NEW p \in Phases,
         request' = [request EXCEPT ![r].phase = p]
  PROVE  /\ request' \in [Requests -> RequestRec]
         /\ request'[r].phase = p
         /\ request'[r].kind = request[r].kind
         /\ request'[r].tab = request[r].tab
         /\ request'[r].retry = request[r].retry
         /\ request'[r].token = request[r].token
         /\ \A q \in Requests \ {r} : request'[q] = request[q]
<1>1. request[r] \in RequestRec
  BY DEF Types
<1>2. request' = [request EXCEPT ![r] = [request[r] EXCEPT !.phase = p]]
  BY Zenon
<1> QED
  BY <1>1, <1>2, PhasedRequest DEF Types

LEMMA IssueTypes ==
  ASSUME Types, NEW r \in Requests, NEW t \in Tabs, NEW k \in Kinds, Issue(r, t, k)
  PROVE  /\ Types'
         /\ request'[r].kind = k /\ request'[r].tab = t
         /\ request'[r].retry = request[r].retry
         /\ request'[r].phase \in {"gated", "sent"}
         /\ request'[r].phase = "gated" =>
               isRefreshing[t] /\ failedQueue' = [failedQueue EXCEPT ![t] = @ \cup {r}]
         /\ request'[r].phase = "sent" => failedQueue' = failedQueue
         /\ \A q \in Requests \ {r} : request'[q] = request[q]
<1> DEFINE q == [request[r] EXCEPT !.kind = k, !.tab = t]
<1>0. request[r] \in RequestRec
  BY DEF Types
<1>1. q \in RequestRec /\ q.kind = k /\ q.tab = t /\ q.retry = request[r].retry
  <2> DEFINE a == [request[r] EXCEPT !.kind = k]
  <2>1. a \in RequestRec /\ a.kind = k /\ a.retry = request[r].retry
    BY <1>0 DEF RequestRec
  <2>2. q = [a EXCEPT !.tab = t]
    BY Zenon
  <2> HIDE DEF a, q
  <2> QED
    BY <2>1, <2>2 DEF RequestRec
<1>2. Gate(r, t, q)
  BY Zenon DEF Issue
<1>3. UNCHANGED <<isRefreshing, refresh, page, cookies, live, rotatedBy, issued, lost, expired>>
  BY DEF Issue, backendVars
<1> HIDE DEF q
<1>4. CASE isRefreshing[t] /\ ~Exempt(q.kind)
  <2> DEFINE g == [q EXCEPT !.phase = "gated"]
  <2>1. /\ g \in RequestRec /\ g.phase = "gated"
        /\ g.kind = k /\ g.tab = t /\ g.retry = request[r].retry
    BY <1>1, PhasedRequest DEF Phases, Queued
  <2>2. request' = [request EXCEPT ![r] = g]
    BY <1>2, <1>4 DEF Gate
  <2>3. failedQueue' = [failedQueue EXCEPT ![t] = @ \cup {r}]
    BY <1>2, <1>4 DEF Gate
  <2> HIDE DEF g
  <2> QED
    BY <1>3, <1>4, <2>1, <2>2, <2>3 DEF Types
<1>5. CASE ~(isRefreshing[t] /\ ~Exempt(q.kind))
  <2> DEFINE g == Sent(q, cookies)
  <2>1. /\ g \in RequestRec /\ g.phase = "sent"
        /\ g.kind = k /\ g.tab = t /\ g.retry = request[r].retry
    BY <1>1, SentRequest DEF Types
  <2>2. request' = [request EXCEPT ![r] = g] /\ failedQueue' = failedQueue
    BY <1>2, <1>5 DEF Gate
  <2> HIDE DEF g
  <2> QED
    BY <1>3, <2>1, <2>2 DEF Types
<1> QED
  BY <1>4, <1>5

LEMMA StartRefreshTypes ==
  ASSUME Types, NEW r \in Requests, StartRefresh(r)
  PROVE  /\ Types'
         /\ request'[r].phase = "refreshing"
         /\ request'[r].tab = request[r].tab
         /\ request'[r].retry
         /\ \A q \in Requests \ {r} : request'[q] = request[q]
         /\ refresh' = [refresh EXCEPT ![request[r].tab] =
               [phase |-> "sent", by |-> r, token |-> cookies.refresh, next |-> 0]]
         /\ isRefreshing' = [isRefreshing EXCEPT ![request[r].tab] = TRUE]
<1> DEFINE a == [request[r] EXCEPT !.phase = "refreshing"]
           b == [a EXCEPT !.retry = TRUE]
<1>1. a \in RequestRec /\ a.phase = "refreshing" /\ a.tab = request[r].tab
  BY PhasedRequest DEF Types, Phases
<1>2. request' = [request EXCEPT ![r] = b]
  BY Zenon DEF StartRefresh
<1> HIDE DEF a
<1>3. b \in RequestRec /\ b.phase = "refreshing" /\ b.tab = request[r].tab /\ b.retry = TRUE
  BY <1>1 DEF RequestRec
<1> HIDE DEF b
<1>4. [phase |-> "sent", by |-> r, token |-> cookies.refresh, next |-> 0] \in RefreshRec
  BY DEF Types, RefreshRec
<1> QED
  BY <1>2, <1>3, <1>4 DEF StartRefresh, Types, backendVars

LEMMA ServeSignInTypes ==
  ASSUME Types, NEW r \in Requests, ServeSignIn(r)
  PROVE  /\ Types'
         /\ request'[r].kind = request[r].kind
         /\ request'[r].tab = request[r].tab
         /\ request'[r].retry = request[r].retry
         /\ \A q \in Requests \ {r} : request'[q] = request[q]
         /\ \/ /\ request'[r].phase = "ok"
               /\ request'[r].token = issued + 1
               /\ issued' = issued + 1
               /\ live' = live \cup {issued + 1}
            \/ /\ request'[r].phase = "unauthorized"
               /\ live' = live /\ issued' = issued
<1>1. CASE /\ issued' = issued + 1
           /\ live' = live \cup {issued'}
           /\ request' = [request EXCEPT ![r].phase = "ok", ![r].token = issued']
  <2> DEFINE a == [request[r] EXCEPT !.phase = "ok"]
             b == [a EXCEPT !.token = issued + 1]
  <2>1. /\ a \in RequestRec /\ a.phase = "ok" /\ a.tab = request[r].tab
        /\ a.kind = request[r].kind /\ a.retry = request[r].retry
    BY PhasedRequest DEF Types, Phases
  <2>2. request' = [request EXCEPT ![r] = b]
    BY <1>1, Zenon
  <2> HIDE DEF a
  <2>3. /\ b \in RequestRec /\ b.phase = "ok" /\ b.tab = request[r].tab
        /\ b.kind = request[r].kind /\ b.retry = request[r].retry /\ b.token = issued + 1
    BY <2>1 DEF RequestRec, Types
  <2> HIDE DEF b
  <2>4. /\ request' \in [Requests -> RequestRec] /\ request'[r] = b
        /\ \A q \in Requests \ {r} : request'[q] = request[q]
    BY <2>2, <2>3 DEF Types
  <2>5. /\ UNCHANGED <<isRefreshing, failedQueue, refresh, page, cookies,
                       rotatedBy, lost, expired>>
        /\ live' = live \cup {issued + 1} /\ issued' = issued + 1
    BY <1>1 DEF ServeSignIn
  <2> QED
    BY <2>3, <2>4, <2>5 DEF Types
<1>2. CASE /\ request' = [request EXCEPT ![r].phase = "unauthorized"]
           /\ UNCHANGED <<live, issued>>
  BY <1>2, Moved DEF ServeSignIn, Types, Phases
<1> QED
  BY <1>1, <1>2 DEF ServeSignIn


\* The end of a refresh lets its own request and the parked ones go, and
\* touches no other.
LetGo(t) ==
  /\ request' \in [Requests -> RequestRec]
  /\ \A r \in Requests : /\ request'[r].tab = request[r].tab
                         /\ request'[r].retry = request[r].retry
  /\ \A r \in failedQueue[t] : request'[r].phase \in {"sent", "rejected"}
  /\ \A r \in Requests \ failedQueue[t] :
        r # refresh[t].by => request'[r] = request[r]

LEMMA RefreshSucceedsTypes ==
  ASSUME Types, NEW t \in Tabs, RefreshSucceeds(t)
  PROVE  /\ Types' /\ LetGo(t)
         /\ refresh[t].by \in Requests => request'[refresh[t].by].phase = "sent"
         /\ \A r \in failedQueue[t] : request'[r].phase = "sent"
         /\ cookies'.refresh = refresh[t].next
<1> DEFINE jar == [access |-> refresh[t].next, refresh |-> refresh[t].next]
<1>1. refresh[t].next \in Nat
  BY DEF Types, RefreshRec
<1>2. jar \in [access : Nat, refresh : Nat] /\ jar.refresh = refresh[t].next
  BY <1>1
<1>3. cookies' = jar /\ request' = Replayed(t, jar)
  BY Zenon DEF RefreshSucceeds
<1> HIDE DEF jar
<1>4. \A r \in Requests : /\ Sent(request[r], jar) \in RequestRec
                          /\ Sent(request[r], jar).phase = "sent"
                          /\ Sent(request[r], jar).tab = request[r].tab
                          /\ Sent(request[r], jar).retry = request[r].retry
  BY <1>2, SentRequest DEF Types
<1>5. /\ request' \in [Requests -> RequestRec]
      /\ \A r \in Requests : r \in failedQueue[t] \/ r = refresh[t].by
             => request'[r] = Sent(request[r], jar)
      /\ \A r \in Requests : ~(r \in failedQueue[t] \/ r = refresh[t].by)
             => request'[r] = request[r]
  BY <1>3, <1>4 DEF Replayed, Types
<1>6. /\ LetGo(t)
      /\ refresh[t].by \in Requests => request'[refresh[t].by].phase = "sent"
      /\ \A r \in failedQueue[t] : request'[r].phase = "sent"
  <2>1. failedQueue[t] \subseteq Requests
    BY DEF Types
  <2> QED
    BY <1>4, <1>5, <2>1 DEF LetGo
<1>7. /\ failedQueue' = [failedQueue EXCEPT ![t] = {}]
      /\ isRefreshing' = [isRefreshing EXCEPT ![t] = FALSE]
      /\ refresh' = [refresh EXCEPT ![t] = NoRefresh]
      /\ UNCHANGED <<page, live, rotatedBy, issued, lost, expired>>
  BY DEF RefreshSucceeds, backendVars
<1> QED
  BY <1>2, <1>3, <1>5, <1>6, <1>7, NoRefreshRec DEF Types

LEMMA FlushedRequests ==
  ASSUME Types, NEW t \in Tabs
  PROVE  /\ Flushed(t) \in [Requests -> RequestRec]
         /\ \A r \in Requests : /\ Flushed(t)[r].tab = request[r].tab
                                /\ Flushed(t)[r].retry = request[r].retry
         /\ \A r \in failedQueue[t] : Flushed(t)[r].phase = "rejected"
         /\ \A r \in Requests \ failedQueue[t] : Flushed(t)[r] = request[r]
<1>1. \A r \in Requests : /\ [request[r] EXCEPT !.phase = "rejected"] \in RequestRec
                          /\ [request[r] EXCEPT !.phase = "rejected"].phase = "rejected"
                          /\ [request[r] EXCEPT !.phase = "rejected"].tab = request[r].tab
                          /\ [request[r] EXCEPT !.phase = "rejected"].retry = request[r].retry
  BY PhasedRequest DEF Types, Phases, Settled
<1>2. failedQueue[t] \subseteq Requests
  BY DEF Types
<1> QED
  BY <1>1, <1>2 DEF Flushed, Types

LEMMA EndRefreshTypes ==
  ASSUME Types, NEW t \in Tabs, NEW after, NEW stay \in BOOLEAN, refresh[t].by \in Requests,
         after \in [Requests -> RequestRec],
         EndRefresh(t, after, stay)
  PROVE  /\ request' \in [Requests -> RequestRec]
         /\ \A r \in Requests : /\ request'[r].tab = after[r].tab
                                /\ request'[r].retry = after[r].retry
         /\ request'[refresh[t].by].phase = "rejected"
         /\ \A r \in Requests \ {refresh[t].by} : request'[r] = after[r]
         /\ isRefreshing' = [isRefreshing EXCEPT ![t] = FALSE]
         /\ refresh' = [refresh EXCEPT ![t] = NoRefresh]
         /\ page' \in [Tabs -> {"app", "login"}]
<1> DEFINE b == refresh[t].by
           q == [after[b] EXCEPT !.phase = "rejected"]
<1>1. /\ q \in RequestRec /\ q.phase = "rejected"
      /\ q.tab = after[b].tab /\ q.retry = after[b].retry
  BY PhasedRequest DEF Phases, Settled
<1>2. request' = [after EXCEPT ![b] = q]
  BY Zenon DEF EndRefresh
<1>3. /\ isRefreshing' = [isRefreshing EXCEPT ![t] = FALSE]
      /\ refresh' = [refresh EXCEPT ![t] = NoRefresh]
  BY Zenon DEF EndRefresh
<1>4. page' \in [Tabs -> {"app", "login"}]
  BY DEF EndRefresh, Types
<1> HIDE DEF q
<1> QED
  BY <1>1, <1>2, <1>3, <1>4

\* The catch block, both ways.
LEMMA RefreshFailedTypes ==
  ASSUME Types, NEW t \in Tabs, refresh[t].by \in Requests, refresh[t].phase # "none",
         RefreshFailed(t)
  PROVE  /\ request' \in [Requests -> RequestRec]
         /\ page' \in [Tabs -> {"app", "login"}]
         /\ failedQueue' = [failedQueue EXCEPT ![t] = {}]
         /\ LetGo(t)
         /\ IF ProbesSession
            THEN /\ refresh' \in [Tabs -> RefreshRec]
                 /\ refresh'[t].phase = "probing" /\ refresh'[t].by = refresh[t].by
                 /\ \A u \in Tabs \ {t} : refresh'[u] = refresh[u]
                 /\ isRefreshing' = isRefreshing
                 /\ refresh[t].by \notin failedQueue[t] =>
                       request'[refresh[t].by] = request[refresh[t].by]
            ELSE /\ refresh' = [refresh EXCEPT ![t] = NoRefresh]
                 /\ isRefreshing' = [isRefreshing EXCEPT ![t] = FALSE]
                 /\ request'[refresh[t].by].phase = "rejected"
                 /\ \A r \in failedQueue[t] : request'[r].phase = "rejected"
<1>1. failedQueue' = [failedQueue EXCEPT ![t] = {}]
  BY DEF RefreshFailed
<1>2. failedQueue[t] \subseteq Requests
  BY DEF Types
<1>3. CASE ProbesSession
  <2>1. request' = Flushed(t) /\ UNCHANGED <<isRefreshing, page>>
    BY <1>3, Zenon DEF RefreshFailed
  <2> DEFINE a == [refresh[t] EXCEPT !.phase = "probing"]
             b == [a EXCEPT !.next = cookies.access]
  <2>2. a \in RefreshRec /\ a.phase = "probing" /\ a.by = refresh[t].by
    BY DEF Types, RefreshRec
  <2>3. refresh' = [refresh EXCEPT ![t] = b]
    BY <1>3, Zenon DEF RefreshFailed
  <2> HIDE DEF a
  <2>4. b \in RefreshRec /\ b.phase = "probing" /\ b.by = refresh[t].by
    BY <2>2 DEF Types, RefreshRec
  <2> HIDE DEF b
  <2>5. LetGo(t)
    BY <1>2, <2>1, FlushedRequests DEF LetGo
  <2> QED
    BY <1>1, <1>3, <2>1, <2>3, <2>4, <2>5, FlushedRequests DEF Types
<1>4. CASE ~ProbesSession
  <2>1. EndRefresh(t, Flushed(t), FALSE)
    BY <1>4 DEF RefreshFailed
  <2>2. Flushed(t) \in [Requests -> RequestRec]
    BY FlushedRequests
  <2> DEFINE f == Flushed(t)
  <2>3. /\ request' \in [Requests -> RequestRec]
        /\ \A r \in Requests : request'[r].tab = f[r].tab /\ request'[r].retry = f[r].retry
        /\ request'[refresh[t].by].phase = "rejected"
        /\ \A r \in Requests \ {refresh[t].by} : request'[r] = f[r]
        /\ isRefreshing' = [isRefreshing EXCEPT ![t] = FALSE]
        /\ refresh' = [refresh EXCEPT ![t] = NoRefresh]
        /\ page' \in [Tabs -> {"app", "login"}]
    BY <2>1, <2>2, EndRefreshTypes
  <2>4. /\ \A r \in Requests : f[r].tab = request[r].tab /\ f[r].retry = request[r].retry
        /\ \A r \in failedQueue[t] : f[r].phase = "rejected"
        /\ \A r \in Requests \ failedQueue[t] : f[r] = request[r]
    BY FlushedRequests
  <2> HIDE DEF f
  <2>5. LetGo(t)
    BY <1>2, <2>3, <2>4 DEF LetGo
  <2>6. \A r \in failedQueue[t] : request'[r].phase = "rejected"
    BY <1>2, <2>3, <2>4
  <2> QED
    BY <1>1, <1>4, <2>3, <2>5, <2>6
<1> QED
  BY <1>3, <1>4


-----------------------------------------------------------------------------
(* The lock.  The queue of a tab holds exactly its parked requests, and the *)
(* flag of a tab is up exactly while a refresh of a request of that tab is  *)
(* in flight.                                                               *)

QueueExact ==
  \A t \in Tabs, r \in Requests :
     r \in failedQueue[t] <=> (request[r].phase \in Queued /\ request[r].tab = t)

Lock == Types /\ QueueExact /\ FlagIsTheRefresh

LEMMA LockInit == Init => Lock
<1> SUFFICES ASSUME Init PROVE QueueExact /\ FlagIsTheRefresh
  BY TypesInit DEF Lock
<1>1. \A r \in Requests : request[r].phase = "idle"
  BY DEF Init
<1> QED
  BY <1>1 DEF Init, QueueExact, FlagIsTheRefresh, Queued, NoRefresh

\* A step of one request that stays out of the queue and of the refreshes.
LEMMA LockOutside ==
  ASSUME Lock, Types', NEW r \in Requests,
         request[r].phase \notin Queued \cup {"refreshing"},
         request'[r].phase \notin Queued \cup {"refreshing"},
         \A q \in Requests \ {r} : request'[q] = request[q],
         UNCHANGED <<failedQueue, isRefreshing, refresh>>
  PROVE  Lock'
<1>1. QueueExact'
  BY DEF Lock, QueueExact
<1>2. FlagIsTheRefresh'
  BY DEF Lock, FlagIsTheRefresh
<1> QED
  BY <1>1, <1>2 DEF Lock

\* A request is parked in the queue of its tab.
LEMMA LockPark ==
  ASSUME Lock, Types', NEW r \in Requests, NEW t \in Tabs,
         request[r].phase \notin Queued \cup {"refreshing"},
         request'[r].phase \in Queued, request'[r].tab = t,
         \A q \in Requests \ {r} : request'[q] = request[q],
         failedQueue' = [failedQueue EXCEPT ![t] = @ \cup {r}],
         UNCHANGED <<isRefreshing, refresh>>
  PROVE  Lock'
<1>1. QueueExact'
  <2> SUFFICES ASSUME NEW u \in Tabs, NEW q \in Requests
               PROVE  q \in failedQueue'[u] <=>
                         (request'[q].phase \in Queued /\ request'[q].tab = u)
    BY DEF QueueExact
  <2>1. failedQueue'[u] = IF u = t THEN failedQueue[t] \cup {r} ELSE failedQueue[u]
    BY DEF Lock, Types
  <2>2. q \in failedQueue[u] <=> (request[q].phase \in Queued /\ request[q].tab = u)
    BY DEF Lock, QueueExact
  <2> QED
    BY <2>1, <2>2
<1>2. FlagIsTheRefresh'
  BY DEF Lock, FlagIsTheRefresh, Queued
<1> QED
  BY <1>1, <1>2 DEF Lock

\* The refresh of tab t ends.
LEMMA LockEnd ==
  ASSUME Lock, Types', NEW t \in Tabs, refresh[t].phase # "none",
         LetGo(t), request'[refresh[t].by].phase \in {"sent", "rejected"},
         failedQueue' = [failedQueue EXCEPT ![t] = {}],
         isRefreshing' = [isRefreshing EXCEPT ![t] = FALSE],
         refresh' = [refresh EXCEPT ![t] = NoRefresh]
  PROVE  Lock'
<1>1. PICK b \in Requests : refresh[t].by = b /\ request[b].phase = "refreshing"
                            /\ request[b].tab = t
  BY DEF Lock, FlagIsTheRefresh
<1>2. b \notin failedQueue[t]
  BY <1>1 DEF Lock, QueueExact, Queued
<1>3. \A u \in Tabs \ {t} : /\ failedQueue'[u] = failedQueue[u]
                             /\ isRefreshing'[u] = isRefreshing[u]
                             /\ refresh'[u] = refresh[u]
  BY DEF Lock, Types
<1>4. failedQueue'[t] = {} /\ isRefreshing'[t] = FALSE /\ refresh'[t].phase = "none"
  BY NoRefreshRec DEF Lock, Types
<1>5. QueueExact'
  <2> SUFFICES ASSUME NEW u \in Tabs, NEW q \in Requests
               PROVE  q \in failedQueue'[u] <=>
                         (request'[q].phase \in Queued /\ request'[q].tab = u)
    BY DEF QueueExact
  <2>1. /\ q \in failedQueue[u] <=> (request[q].phase \in Queued /\ request[q].tab = u)
        /\ q \in failedQueue[t] <=> (request[q].phase \in Queued /\ request[q].tab = t)
    BY DEF Lock, QueueExact
  <2>2. CASE q \in failedQueue[t] \/ q = b
    BY <1>1, <1>3, <1>4, <2>1, <2>2 DEF LetGo, Queued
  <2>3. CASE ~(q \in failedQueue[t] \/ q = b)
    BY <1>1, <1>3, <1>4, <2>1, <2>3 DEF LetGo
  <2> QED
    BY <2>2, <2>3
<1>6. FlagIsTheRefresh'
  <2> SUFFICES ASSUME NEW u \in Tabs
               PROVE  /\ isRefreshing'[u] <=> (refresh'[u].phase # "none")
                      /\ isRefreshing'[u] => \E r \in Requests :
                            /\ refresh'[u].by = r
                            /\ request'[r].phase = "refreshing"
                            /\ request'[r].tab = u
    BY DEF FlagIsTheRefresh
  <2>1. CASE u = t
    BY <1>4, <2>1
  <2>2. CASE u # t /\ isRefreshing[u]
    <3>1. PICK c \in Requests : /\ refresh[u].by = c /\ request[c].phase = "refreshing"
                                /\ request[c].tab = u
      BY <2>2 DEF Lock, FlagIsTheRefresh
    <3>2. c # b /\ c \notin failedQueue[t]
      BY <1>1, <2>2, <3>1 DEF Lock, QueueExact, Queued
    <3>3. request'[c] = request[c]
      BY <1>1, <3>2 DEF LetGo
    <3> QED
      BY <1>3, <2>2, <3>1, <3>3 DEF Lock, FlagIsTheRefresh
  <2>3. CASE u # t /\ ~isRefreshing[u]
    BY <1>3, <2>3 DEF Lock, FlagIsTheRefresh
  <2> QED
    BY <2>1, <2>2, <2>3
<1> QED
  BY <1>5, <1>6 DEF Lock

\* The admin client turns a failed refresh into a probe.
LEMMA LockProbe ==
  ASSUME Lock, Types', NEW t \in Tabs, refresh[t].phase # "none",
         LetGo(t), request'[refresh[t].by] = request[refresh[t].by],
         failedQueue' = [failedQueue EXCEPT ![t] = {}],
         isRefreshing' = isRefreshing,
         refresh'[t].phase = "probing", refresh'[t].by = refresh[t].by,
         \A u \in Tabs \ {t} : refresh'[u] = refresh[u]
  PROVE  Lock'
<1>1. PICK b \in Requests : refresh[t].by = b /\ request[b].phase = "refreshing"
                            /\ request[b].tab = t
  BY DEF Lock, FlagIsTheRefresh
<1>2. \A r \in Requests \ failedQueue[t] : request'[r] = request[r]
  BY DEF LetGo
<1>3. QueueExact'
  <2> SUFFICES ASSUME NEW u \in Tabs, NEW q \in Requests
               PROVE  q \in failedQueue'[u] <=>
                         (request'[q].phase \in Queued /\ request'[q].tab = u)
    BY DEF QueueExact
  <2>1. /\ q \in failedQueue[u] <=> (request[q].phase \in Queued /\ request[q].tab = u)
        /\ q \in failedQueue[t] <=> (request[q].phase \in Queued /\ request[q].tab = t)
    BY DEF Lock, QueueExact
  <2>2. failedQueue'[u] = IF u = t THEN {} ELSE failedQueue[u]
    BY DEF Lock, Types
  <2>3. CASE q \in failedQueue[t]
    BY <2>1, <2>2, <2>3 DEF LetGo, Queued
  <2>4. CASE q \notin failedQueue[t]
    BY <1>2, <2>1, <2>2, <2>4
  <2> QED
    BY <2>3, <2>4
<1>4. FlagIsTheRefresh'
  <2> SUFFICES ASSUME NEW u \in Tabs
               PROVE  /\ isRefreshing'[u] <=> (refresh'[u].phase # "none")
                      /\ isRefreshing'[u] => \E r \in Requests :
                            /\ refresh'[u].by = r
                            /\ request'[r].phase = "refreshing"
                            /\ request'[r].tab = u
    BY DEF FlagIsTheRefresh
  <2>1. /\ refresh'[u].by = refresh[u].by
        /\ refresh'[u].phase = "none" <=> refresh[u].phase = "none"
    OBVIOUS
  <2>2. CASE isRefreshing[u]
    <3>1. PICK c \in Requests : /\ refresh[u].by = c /\ request[c].phase = "refreshing"
                                /\ request[c].tab = u
      BY <2>2 DEF Lock, FlagIsTheRefresh
    <3>2. c \notin failedQueue[t]
      BY <3>1 DEF Lock, QueueExact, Queued
    <3> QED
      BY <1>2, <2>1, <2>2, <3>1, <3>2 DEF Lock, FlagIsTheRefresh
  <2>3. CASE ~isRefreshing[u]
    BY <2>1, <2>3 DEF Lock, FlagIsTheRefresh
  <2> QED
    BY <2>2, <2>3
<1> QED
  BY <1>3, <1>4 DEF Lock


LEMMA LockStep == Lock /\ [Next]_vars => Lock'
<1> SUFFICES ASSUME Lock, [Next]_vars PROVE Lock'
  OBVIOUS
<1> USE DEF Phases, Queued, Settled
<1>0. Types
  BY DEF Lock
<1>1. ASSUME NEW r \in Requests, NEW t \in Tabs, NEW k \in Kinds, Issue(r, t, k)
      PROVE  Lock'
  <2>1. request[r].phase = "idle" /\ UNCHANGED <<isRefreshing, refresh>>
    BY <1>1 DEF Issue
  <2>2. CASE request'[r].phase = "gated"
    BY <1>0, <1>1, <2>1, <2>2, IssueTypes, LockPark
  <2>3. CASE request'[r].phase = "sent"
    BY <1>0, <1>1, <2>1, <2>3, IssueTypes, LockOutside
  <2> QED
    BY <1>0, <1>1, <2>2, <2>3, IssueTypes
<1>2. ASSUME NEW r \in Requests, ServeProtected(r) PROVE Lock'
  <2>1. PICK p \in {"ok", "unauthorized"} : request' = [request EXCEPT ![r].phase = p]
    BY <1>2 DEF ServeProtected
  <2>2. /\ request[r].phase = "sent"
        /\ UNCHANGED <<isRefreshing, failedQueue, refresh, page, cookies,
                       live, rotatedBy, issued, lost, expired>>
    BY <1>2 DEF ServeProtected, backendVars
  <2>3. Types'
    BY <1>0, <2>1, <2>2, Moved DEF Types
  <2> QED
    BY <1>0, <2>1, <2>2, <2>3, Moved, LockOutside
<1>3. ASSUME NEW r \in Requests, ServeSignIn(r) PROVE Lock'
  BY <1>0, <1>3, ServeSignInTypes, LockOutside DEF ServeSignIn
<1>4. ASSUME NEW r \in Requests, ServeSignOut(r) PROVE Lock'
  <2>1. request' = [request EXCEPT ![r].phase = "ok"] /\ request[r].phase = "sent"
    BY <1>4 DEF ServeSignOut
  <2>2. Types'
    BY <1>0, <1>4, <2>1, Moved DEF ServeSignOut, Types
  <2> QED
    BY <1>0, <1>4, <2>1, <2>2, Moved, LockOutside DEF ServeSignOut
<1>5. ASSUME NEW r \in Requests, Fulfil(r) PROVE Lock'
  <2>1. request' = [request EXCEPT ![r].phase = "fulfilled"] /\ request[r].phase = "ok"
    BY <1>5 DEF Fulfil
  <2>2. request[r].token \in Nat /\ request[r].tab \in Tabs
    BY <1>0 DEF Types, RequestRec
  <2>3. cookies' \in [access : Nat, refresh : Nat]
    BY <1>0, <1>5, <2>2 DEF Fulfil, Types
  <2>4. page' \in [Tabs -> {"app", "login"}]
    BY <1>0, <1>5, <2>2 DEF Fulfil, Types
  <2>5. Types'
    BY <1>0, <1>5, <2>1, <2>3, <2>4, Moved DEF Fulfil, Types, backendVars
  <2> QED
    BY <1>0, <1>5, <2>1, <2>5, Moved, LockOutside DEF Fulfil
<1>6. ASSUME NEW r \in Requests, Fail(r) PROVE Lock'
  <2>1. /\ request' = [request EXCEPT ![r].phase = "rejected"]
        /\ request[r].phase \in {"sent", "ok", "unauthorized"}
        /\ UNCHANGED <<isRefreshing, failedQueue, refresh, page, cookies,
                       live, rotatedBy, issued, lost, expired>>
    BY <1>6 DEF Fail, backendVars
  <2>2. Types'
    BY <1>0, <2>1, Moved DEF Types
  <2> QED
    BY <1>0, <2>1, <2>2, Moved, LockOutside
<1>7. ASSUME NEW r \in Requests, GiveUp(r) PROVE Lock'
  <2>1. /\ request' = [request EXCEPT ![r].phase = "rejected"]
        /\ request[r].phase = "unauthorized"
        /\ UNCHANGED <<isRefreshing, failedQueue, refresh, page, cookies,
                       live, rotatedBy, issued, lost, expired>>
    BY <1>7 DEF GiveUp, backendVars
  <2>2. Types'
    BY <1>0, <2>1, Moved DEF Types
  <2> QED
    BY <1>0, <2>1, <2>2, Moved, LockOutside
<1>8. ASSUME NEW r \in Requests, Wait(r) PROVE Lock'
  <2>1. /\ request' = [request EXCEPT ![r].phase = "waiting"]
        /\ request[r].phase = "unauthorized"
        /\ failedQueue' = [failedQueue EXCEPT ![request[r].tab] = @ \cup {r}]
        /\ UNCHANGED <<isRefreshing, refresh, page, cookies,
                       live, rotatedBy, issued, lost, expired>>
    BY <1>8 DEF Wait, backendVars
  <2>2. request[r].tab \in Tabs
    BY <1>0 DEF Types, RequestRec
  <2>3. request' \in [Requests -> RequestRec]
    BY <1>0, <2>1, Moved
  <2>4. failedQueue' \in [Tabs -> SUBSET Requests]
    BY <1>0, <2>1, <2>2 DEF Types
  <2>5. Types'
    BY <1>0, <2>1, <2>3, <2>4 DEF Types
  <2> QED
    BY <1>0, <2>1, <2>2, <2>5, Moved, LockPark
<1>9. ASSUME NEW r \in Requests, StartRefresh(r) PROVE Lock'
  <2> DEFINE t == request[r].tab
  <2>1. /\ request[r].phase = "unauthorized" /\ ~isRefreshing[t]
        /\ failedQueue' = failedQueue
    BY <1>9 DEF StartRefresh
  <2>2. t \in Tabs
    BY <1>0 DEF Types, RequestRec
  <2>3. /\ Types' /\ request'[r].phase = "refreshing" /\ request'[r].tab = t
        /\ \A q \in Requests \ {r} : request'[q] = request[q]
        /\ isRefreshing'[t] /\ refresh'[t].by = r /\ refresh'[t].phase = "sent"
        /\ \A u \in Tabs \ {t} : isRefreshing'[u] = isRefreshing[u] /\ refresh'[u] = refresh[u]
    <3>1. /\ Types' /\ request'[r].phase = "refreshing" /\ request'[r].tab = t
          /\ \A q \in Requests \ {r} : request'[q] = request[q]
          /\ refresh' = [refresh EXCEPT ![t] =
                [phase |-> "sent", by |-> r, token |-> cookies.refresh, next |-> 0]]
          /\ isRefreshing' = [isRefreshing EXCEPT ![t] = TRUE]
      BY <1>0, <1>9, StartRefreshTypes
    <3>2. isRefreshing'[t] /\ refresh'[t].by = r /\ refresh'[t].phase = "sent"
      BY <1>0, <2>2, <3>1 DEF Types
    <3>3. \A u \in Tabs \ {t} : isRefreshing'[u] = isRefreshing[u] /\ refresh'[u] = refresh[u]
      BY <1>0, <2>2, <3>1 DEF Types
    <3> QED
      BY <3>1, <3>2, <3>3
  <2> HIDE DEF t
  <2>4. QueueExact'
    BY <2>1, <2>3 DEF Lock, QueueExact
  <2>5. FlagIsTheRefresh'
    BY <2>1, <2>2, <2>3 DEF Lock, FlagIsTheRefresh
  <2> QED
    BY <2>3, <2>4, <2>5 DEF Lock
<1>10. ASSUME NEW t \in Tabs, ReadToken(t) PROVE Lock'
  <2>1. PICK p \in {"valid", "refused"} : refresh' = [refresh EXCEPT ![t].phase = p]
    BY <1>10 DEF ReadToken
  <2>2. /\ refresh[t].phase = "sent" /\ refresh[t] \in RefreshRec
        /\ UNCHANGED <<request, isRefreshing, failedQueue, page, cookies,
                       live, rotatedBy, issued, lost, expired>>
    BY <1>0, <1>10 DEF ReadToken, backendVars, Types
  <2>3. /\ [refresh[t] EXCEPT !.phase = p] \in RefreshRec
        /\ [refresh[t] EXCEPT !.phase = p].phase = p
        /\ [refresh[t] EXCEPT !.phase = p].by = refresh[t].by
    BY <2>2 DEF RefreshRec
  <2>4. refresh' \in [Tabs -> RefreshRec] /\ refresh'[t].phase = p /\ refresh'[t].by = refresh[t].by
        /\ \A u \in Tabs \ {t} : refresh'[u] = refresh[u]
    BY <1>0, <2>1, <2>3 DEF Types
  <2>5. Types'
    BY <1>0, <2>2, <2>4 DEF Types
  <2>6. QueueExact' /\ FlagIsTheRefresh'
    BY <2>2, <2>4 DEF Lock, QueueExact, FlagIsTheRefresh
  <2> QED
    BY <2>5, <2>6 DEF Lock
<1>11. ASSUME NEW t \in Tabs, Rotate(t) PROVE Lock'
  <2> DEFINE a == [refresh[t] EXCEPT !.phase = "renewed"]
             b == [a EXCEPT !.next = issued + 1]
  <2>1. /\ refresh[t].phase = "valid" /\ refresh[t] \in RefreshRec
        /\ issued' = issued + 1
        /\ live' = (live \ {refresh[t].token}) \cup {issued + 1}
        /\ rotatedBy' = rotatedBy \cup {<<t, refresh[t].token>>}
        /\ UNCHANGED <<request, isRefreshing, failedQueue, page, cookies, lost, expired>>
    BY <1>0, <1>11 DEF Rotate, Types
  <2>2. a \in RefreshRec /\ a.phase = "renewed" /\ a.by = refresh[t].by
    BY <2>1 DEF RefreshRec
  <2>3. refresh' = [refresh EXCEPT ![t] = b]
    BY <1>11, Zenon DEF Rotate
  <2> HIDE DEF a
  <2>4. b \in RefreshRec /\ b.phase = "renewed" /\ b.by = refresh[t].by
    BY <1>0, <2>2 DEF RefreshRec, Types
  <2> HIDE DEF b
  <2>5. refresh' \in [Tabs -> RefreshRec] /\ refresh'[t] = b
        /\ \A u \in Tabs \ {t} : refresh'[u] = refresh[u]
    BY <1>0, <2>3, <2>4 DEF Types
  <2>6. refresh[t].token \in Nat
    BY <2>1 DEF RefreshRec
  <2>7. Types'
    <3>1. issued' \in Nat /\ live' \subseteq Nat
      <4>1. live \subseteq Nat /\ issued + 1 \in Nat
        BY <1>0 DEF Types
      <4>2. live' = (live \ {refresh[t].token}) \cup {issued + 1} /\ issued' = issued + 1
        BY <2>1
      <4> QED
        BY <4>1, <4>2, Zenon
    <3>2. rotatedBy' \subseteq Tabs \X Nat
      BY <1>0, <2>1, <2>6 DEF Types
    <3> QED
      BY <1>0, <2>1, <2>5, <3>1, <3>2 DEF Types
  <2>8. QueueExact' /\ FlagIsTheRefresh'
    BY <2>1, <2>4, <2>5 DEF Lock, QueueExact, FlagIsTheRefresh
  <2> QED
    BY <2>7, <2>8 DEF Lock
<1>12. ASSUME NEW t \in Tabs, RefreshSucceeds(t) PROVE Lock'
  <2>1. /\ refresh[t].phase # "none"
        /\ failedQueue' = [failedQueue EXCEPT ![t] = {}]
        /\ isRefreshing' = [isRefreshing EXCEPT ![t] = FALSE]
        /\ refresh' = [refresh EXCEPT ![t] = NoRefresh]
    BY <1>12 DEF RefreshSucceeds
  <2>2. refresh[t].by \in Requests
    BY <2>1 DEF Lock, FlagIsTheRefresh
  <2> QED
    BY <1>0, <1>12, <2>1, <2>2, RefreshSucceedsTypes, LockEnd
<1>13. ASSUME NEW t \in Tabs, refresh[t].phase # "none", RefreshFailed(t),
              UNCHANGED <<cookies, live, rotatedBy, issued, expired>>, lost' \subseteq Nat
       PROVE  Lock'
  <2>1. refresh[t].by \in Requests /\ refresh[t].by \notin failedQueue[t]
    BY <1>13 DEF Lock, FlagIsTheRefresh, QueueExact
  <2>2. CASE ProbesSession
    <3>1. /\ request' \in [Requests -> RequestRec]
          /\ page' \in [Tabs -> {"app", "login"}]
          /\ failedQueue' = [failedQueue EXCEPT ![t] = {}]
          /\ LetGo(t)
          /\ refresh' \in [Tabs -> RefreshRec]
          /\ refresh'[t].phase = "probing" /\ refresh'[t].by = refresh[t].by
          /\ \A u \in Tabs \ {t} : refresh'[u] = refresh[u]
          /\ isRefreshing' = isRefreshing
          /\ request'[refresh[t].by] = request[refresh[t].by]
      BY <1>0, <1>13, <2>1, <2>2, RefreshFailedTypes
    <3>2. Types'
      BY <1>0, <1>13, <3>1 DEF Types
    <3> QED
      BY <1>13, <3>1, <3>2, LockProbe
  <2>3. CASE ~ProbesSession
    <3>1. /\ request' \in [Requests -> RequestRec]
          /\ page' \in [Tabs -> {"app", "login"}]
          /\ failedQueue' = [failedQueue EXCEPT ![t] = {}]
          /\ LetGo(t)
          /\ refresh' = [refresh EXCEPT ![t] = NoRefresh]
          /\ isRefreshing' = [isRefreshing EXCEPT ![t] = FALSE]
          /\ request'[refresh[t].by].phase = "rejected"
      BY <1>0, <1>13, <2>1, <2>3, RefreshFailedTypes
    <3>2. Types'
      BY <1>0, <1>13, <3>1, NoRefreshRec DEF Types
    <3> QED
      BY <1>13, <3>1, <3>2, LockEnd
  <2> QED
    BY <2>2, <2>3
<1>14. ASSUME NEW t \in Tabs, RefreshRefused(t) PROVE Lock'
  BY <1>0, <1>13, <1>14 DEF RefreshRefused, Types, backendVars
<1>15. ASSUME NEW t \in Tabs, RefreshLost(t) PROVE Lock'
  <2>1. lost' \subseteq Nat
    BY <1>0, <1>15 DEF RefreshLost, Types, RefreshRec
  <2> QED
    BY <1>13, <1>15, <2>1 DEF RefreshLost, backendVars
<1>16. ASSUME NEW t \in Tabs, Probed(t) PROVE Lock'
  <2>1. /\ refresh[t].phase = "probing"
        /\ UNCHANGED <<failedQueue, cookies, live, rotatedBy, issued, lost, expired>>
    BY <1>16 DEF Probed, backendVars
  <2>2. refresh[t].by \in Requests /\ request[refresh[t].by].tab = t
    BY <2>1 DEF Lock, FlagIsTheRefresh
  <2>3. PICK stay \in BOOLEAN : EndRefresh(t, request, stay)
    BY <1>16 DEF Probed, Authorized
  <2>4. /\ request' \in [Requests -> RequestRec]
        /\ \A r \in Requests : request'[r].tab = request[r].tab
        /\ request'[refresh[t].by].phase = "rejected"
        /\ \A r \in Requests \ {refresh[t].by} : request'[r] = request[r]
        /\ isRefreshing' = [isRefreshing EXCEPT ![t] = FALSE]
        /\ refresh' = [refresh EXCEPT ![t] = NoRefresh]
        /\ page' \in [Tabs -> {"app", "login"}]
    BY <1>0, <2>2, <2>3, EndRefreshTypes DEF Types
  <2>5. Types'
    BY <1>0, <2>1, <2>4, NoRefreshRec DEF Types
  <2>6. refresh'[t] = NoRefresh /\ ~isRefreshing'[t]
        /\ \A u \in Tabs \ {t} : refresh'[u] = refresh[u] /\ isRefreshing'[u] = isRefreshing[u]
    BY <1>0, <2>4 DEF Types
  <2>7. request[refresh[t].by].phase = "refreshing"
    BY <2>1 DEF Lock, FlagIsTheRefresh
  <2>8. QueueExact'
    BY <2>1, <2>4, <2>7 DEF Lock, QueueExact
  <2>9. FlagIsTheRefresh'
    BY <2>2, <2>4, <2>6, NoRefreshRec DEF Lock, FlagIsTheRefresh
  <2> QED
    BY <2>5, <2>8, <2>9 DEF Lock
<1>17. ASSUME ExpireAccess PROVE Lock'
  <2>1. /\ UNCHANGED <<request, isRefreshing, failedQueue, refresh, page, cookies,
                        live, rotatedBy, issued, lost>>
        /\ expired' = expired \cup {cookies.access}
    BY <1>17 DEF ExpireAccess, clientVars, backendVars
  <2>2. Types'
    BY <1>0, <2>1 DEF Types
  <2> QED
    BY <2>1, <2>2 DEF Lock, QueueExact, FlagIsTheRefresh
<1>18. ASSUME UNCHANGED vars PROVE Lock'
  BY <1>18 DEF vars, Lock, Types, QueueExact, FlagIsTheRefresh
<1> QED
  BY <1>1, <1>2, <1>3, <1>4, <1>5, <1>6, <1>7, <1>8, <1>9, <1>10, <1>11, <1>12,
     <1>14, <1>15, <1>16, <1>17, <1>18 DEF Next, Serve, Answer, Refresh

THEOREM LockInvariant == Spec => []Lock
<1>1. Init => Lock
  BY LockInit
<1>2. Lock /\ [Next]_vars => Lock'
  BY LockStep
<1> QED
  BY <1>1, <1>2, PTL DEF Spec

(* Type correctness.                                                       *)
THEOREM TypeCorrect == Spec => []TypeOK
<1>1. Lock => TypeOK
  BY TypesIsTypeOK DEF Lock
<1> QED
  BY <1>1, LockInvariant, PTL

(* The flag isRefreshing of a tab is up exactly while a refresh of that    *)
(* tab is in flight, and the request that started it is held by it.        *)
THEOREM FlagIsTheLock == Spec => []FlagIsTheRefresh
<1>1. Lock => FlagIsTheRefresh
  BY DEF Lock
<1> QED
  BY <1>1, LockInvariant, PTL

-----------------------------------------------------------------------------
(* Nobody is left behind.                                                  *)

\* A client that does not probe: the queue fills only while the flag is up.
Held == \A t \in Tabs : /\ refresh[t].phase # "probing"
                        /\ failedQueue[t] # {} => isRefreshing[t]

LEMMA HeldStep ==
  ASSUME ProbesSession = FALSE, Lock, Held, [Next]_vars
  PROVE  Held'
<1>0. Types /\ Types'
  BY LockStep DEF Lock
<1>1. ASSUME NEW r \in Requests, NEW t \in Tabs, NEW k \in Kinds, Issue(r, t, k)
      PROVE  Held'
  <2>1. UNCHANGED <<isRefreshing, refresh>>
    BY <1>1 DEF Issue
  <2>2. failedQueue' = failedQueue
        \/ (isRefreshing[t] /\ failedQueue' = [failedQueue EXCEPT ![t] = @ \cup {r}])
    BY <1>1 DEF Issue, Gate
  <2> QED
    BY <1>0, <2>1, <2>2 DEF Held, Types
<1>2. ASSUME NEW r \in Requests, Serve(r) \/ Fulfil(r) \/ Fail(r) \/ GiveUp(r)
      PROVE  Held'
  <2>1. UNCHANGED <<isRefreshing, refresh, failedQueue>>
    BY <1>2 DEF Serve, ServeProtected, ServeSignIn, ServeSignOut, Fulfil, Fail, GiveUp
  <2> QED
    BY <2>1 DEF Held
<1>3. ASSUME NEW r \in Requests, Wait(r) PROVE Held'
  <2>1. /\ UNCHANGED <<isRefreshing, refresh>>
        /\ isRefreshing[request[r].tab]
        /\ failedQueue' = [failedQueue EXCEPT ![request[r].tab] = @ \cup {r}]
    BY <1>3 DEF Wait
  <2> QED
    BY <1>0, <2>1 DEF Held, Types
<1>4. ASSUME NEW r \in Requests, StartRefresh(r) PROVE Held'
  <2> DEFINE t == request[r].tab
  <2>1. /\ failedQueue' = failedQueue
        /\ isRefreshing' = [isRefreshing EXCEPT ![t] = TRUE]
        /\ refresh' = [refresh EXCEPT ![t] =
              [phase |-> "sent", by |-> r, token |-> cookies.refresh, next |-> 0]]
    BY <1>4 DEF StartRefresh
  <2> HIDE DEF t
  <2>2. \A u \in Tabs : refresh'[u].phase = "sent" \/ refresh'[u] = refresh[u]
    BY <1>0, <2>1 DEF Types
  <2>3. \A u \in Tabs : isRefreshing[u] => isRefreshing'[u]
    BY <1>0, <2>1 DEF Types
  <2> QED
    BY <2>1, <2>2, <2>3 DEF Held
<1>5. ASSUME NEW t \in Tabs, ReadToken(t) PROVE Held'
  <2>1. /\ UNCHANGED <<isRefreshing, failedQueue>>
        /\ refresh' = [refresh EXCEPT ![t].phase =
              IF refresh[t].token \in live THEN "valid" ELSE "refused"]
    BY <1>5 DEF ReadToken
  <2>2. \A u \in Tabs : \/ refresh'[u].phase \in {"valid", "refused"}
                        \/ refresh'[u] = refresh[u]
    BY <1>0, <2>1 DEF Types, RefreshRec
  <2> QED
    BY <2>1, <2>2 DEF Held
<1>6. ASSUME NEW t \in Tabs, Rotate(t) PROVE Held'
  <2> DEFINE a == [refresh[t] EXCEPT !.phase = "renewed"]
  <2>1. UNCHANGED <<isRefreshing, failedQueue>>
    BY <1>6 DEF Rotate
  <2>2. refresh' = [refresh EXCEPT ![t] = [a EXCEPT !.next = issued']]
    BY <1>6, Zenon DEF Rotate
  <2>0. refresh[t] \in RefreshRec
    BY <1>0 DEF Types
  <2>3. a \in RefreshRec /\ a.phase = "renewed"
    BY <2>0 DEF RefreshRec
  <2> HIDE DEF a
  <2>4. [a EXCEPT !.next = issued'].phase = "renewed"
    BY <2>3 DEF RefreshRec
  <2>5. \A u \in Tabs : refresh'[u].phase = "renewed" \/ refresh'[u] = refresh[u]
    BY <1>0, <2>2, <2>4 DEF Types
  <2> QED
    BY <2>1, <2>5 DEF Held
<1>7. ASSUME NEW t \in Tabs,
             failedQueue' = [failedQueue EXCEPT ![t] = {}],
             isRefreshing' = [isRefreshing EXCEPT ![t] = FALSE],
             refresh' = [refresh EXCEPT ![t] = NoRefresh]
      PROVE  Held'
  <2>1. \A u \in Tabs : \/ failedQueue'[u] = {} /\ refresh'[u] = NoRefresh
                        \/ /\ failedQueue'[u] = failedQueue[u]
                           /\ isRefreshing'[u] = isRefreshing[u]
                           /\ refresh'[u] = refresh[u]
    BY <1>0, <1>7 DEF Types
  <2> QED
    BY <2>1, NoRefreshRec DEF Held
<1>8. ASSUME NEW t \in Tabs, RefreshSucceeds(t) PROVE Held'
  BY <1>7, <1>8 DEF RefreshSucceeds
<1>9. ASSUME NEW t \in Tabs, RefreshRefused(t) \/ RefreshLost(t) PROVE Held'
  BY <1>7, <1>9 DEF RefreshRefused, RefreshLost, RefreshFailed, EndRefresh
<1>10. ASSUME NEW t \in Tabs, Probed(t) PROVE Held'
  BY <1>10 DEF Probed, Held
<1>11. ASSUME ExpireAccess PROVE Held'
  BY <1>11 DEF ExpireAccess, clientVars, Held
<1>12. ASSUME UNCHANGED vars PROVE Held'
  BY <1>12 DEF vars, Held
<1> QED
  BY <1>1, <1>2, <1>3, <1>4, <1>5, <1>6, <1>8, <1>9, <1>10, <1>11, <1>12
     DEF Next, Answer, Refresh

(* In the clients that end a failed refresh at once (customer and partner  *)
(* portals) a parked request always sits in the queue of a refresh that is *)
(* going to release it.                                                    *)
THEOREM NobodyIsLeftBehind == (ProbesSession = FALSE) => (Spec => []NobodyLeftBehind)
<1> SUFFICES ASSUME ProbesSession = FALSE PROVE Spec => []NobodyLeftBehind
  OBVIOUS
<1>1. Init => Held
  BY DEF Init, Held, NoRefresh
<1>2. Lock /\ Held /\ [Next]_vars => Held'
  BY HeldStep
<1>3. Lock /\ Held => NobodyLeftBehind
  BY DEF Lock, Types, RequestRec, Held, NobodyLeftBehind, QueueExact
<1> QED
  BY <1>1, <1>2, <1>3, LockInvariant, PTL DEF Spec

-----------------------------------------------------------------------------
(* One renewal at a time.  A client that ends a failed refresh at once      *)
(* implements SingleFlight: its flags, queues and promises keep one leader  *)
(* per tab, and who waits for it.                                           *)

\* A request that was not sent has not led, and the one that leads is the
\* request its refresh names.
Unled == \A r \in Requests : request[r].phase = "idle" => ~request[r].retry
Leads == \A r \in Requests : request[r].phase = "refreshing" =>
            /\ refresh[request[r].tab].phase # "none"
            /\ refresh[request[r].tab].by = r

Course == Lock /\ Held /\ Unled /\ Leads

LEMMA LeadersAndParked ==
  ASSUME Lock, Leads, NEW t \in Tabs
  PROVE  /\ Leading[t] = IF isRefreshing[t] THEN {refresh[t].by} ELSE {}
         /\ Parked[t] = failedQueue[t]
<1>1. Parked[t] = failedQueue[t]
  BY DEF Lock, Types, QueueExact, Parked
<1>2. CASE isRefreshing[t]
  <2>1. /\ refresh[t].by \in Requests
        /\ request[refresh[t].by].phase = "refreshing"
        /\ request[refresh[t].by].tab = t
    BY <1>2 DEF Lock, FlagIsTheRefresh
  <2>2. \A r \in Requests : request[r].phase = "refreshing" /\ request[r].tab = t
                            => r = refresh[t].by
    BY DEF Leads
  <2>3. Leading[t] = {refresh[t].by}
    BY <2>1, <2>2 DEF Leading
  <2> QED
    BY <1>1, <1>2, <2>3
<1>3. CASE ~isRefreshing[t]
  <2>1. refresh[t].phase = "none"
    BY <1>3 DEF Lock, FlagIsTheRefresh
  <2>2. \A r \in Requests : ~(request[r].phase = "refreshing" /\ request[r].tab = t)
    BY <2>1 DEF Leads
  <2>3. Leading[t] = {}
    BY <2>2 DEF Leading
  <2> QED
    BY <1>1, <1>3, <2>3
<1> QED
  BY <1>1, <1>2, <1>3

LEMMA FlightStutters ==
  ASSUME Types, Types',
         \A q \in Requests :
            \/ request'[q] = request[q]
            \/ /\ request[q].phase \notin Queued \cup {"refreshing", "rejected"}
               /\ request'[q].phase \notin Queued \cup {"refreshing", "rejected"}
               /\ request'[q].retry = request[q].retry
  PROVE  UNCHANGED Flight!vars
<1>1. Leading' = Leading /\ Parked' = Parked
  BY DEF Leading, Parked, Queued
<1>2. Led' = Led /\ Rejected' = Rejected
  BY DEF Led, Rejected
<1> QED
  BY <1>1, <1>2 DEF Flight!vars

\* A request outside the queue and the refreshes.
Outside(r) == request[r].phase \notin Queued \cup {"refreshing", "rejected"}

LEMMA OutsideIsAtLarge ==
  ASSUME NEW r \in Requests, Outside(r)
  PROVE  Flight!AtLarge(r)
  BY DEF Outside, Leading, Parked, Rejected, Flight!AtLarge

LEMMA FlightJoins ==
  ASSUME Course, Types', NEW r \in Requests, NEW t \in Tabs, isRefreshing[t],
         Outside(r), ~request[r].retry,
         request'[r].phase \in Queued, request'[r].tab = t, ~request'[r].retry,
         \A q \in Requests \ {r} : request'[q] = request[q]
  PROVE  Flight!Join(t, r)
<1>1. Leading[t] # {}
  BY LeadersAndParked DEF Course
<1>2. Flight!AtLarge(r)
  BY OutsideIsAtLarge
<1>3. r \notin Led
  BY DEF Led
<1>4. Leading' = Leading
  BY DEF Leading, Outside, Queued
<1>5. Parked' = [Parked EXCEPT ![t] = @ \cup {r}]
  <2>1. \A u \in Tabs : Parked'[u] = IF u = t THEN Parked[u] \cup {r} ELSE Parked[u]
    BY DEF Parked, Outside
  <2>2. Parked = [u \in Tabs |-> Parked[u]] /\ Parked' = [u \in Tabs |-> Parked'[u]]
    BY DEF Parked
  <2> QED
    BY <2>1, <2>2
<1>6. Led' = Led /\ Rejected' = Rejected
  BY DEF Led, Rejected, Outside, Queued
<1> QED
  BY <1>1, <1>2, <1>3, <1>4, <1>5, <1>6 DEF Flight!Join

LEMMA FlightTakesOff ==
  ASSUME Course, Types', NEW r \in Requests, NEW t \in Tabs, ~isRefreshing[t],
         Outside(r), ~request[r].retry,
         request'[r].phase = "refreshing", request'[r].tab = t, request'[r].retry,
         \A q \in Requests \ {r} : request'[q] = request[q]
  PROVE  Flight!TakeOff(t, r)
<1>1. Leading[t] = {}
  BY LeadersAndParked DEF Course
<1>2. Flight!AtLarge(r)
  BY OutsideIsAtLarge
<1>3. r \notin Led
  BY DEF Led
<1>4. Leading' = [Leading EXCEPT ![t] = {r}]
  <2>1. \A q \in Requests : ~(request[q].phase = "refreshing" /\ request[q].tab = t)
    BY <1>1 DEF Leading
  <2> QED
    BY <2>1 DEF Leading, Outside
<1>5. Parked' = Parked
  BY DEF Parked, Outside, Queued
<1>6. Led' = Led \cup {r} /\ Rejected' = Rejected
  BY DEF Led, Rejected, Outside
<1> QED
  BY <1>1, <1>2, <1>3, <1>4, <1>5, <1>6 DEF Flight!TakeOff

LEMMA FlightRejects ==
  ASSUME Types, Types', NEW r \in Requests, Outside(r),
         request'[r].phase = "rejected", request'[r].retry = request[r].retry,
         \A q \in Requests \ {r} : request'[q] = request[q]
  PROVE  Flight!Reject(r)
<1>1. Flight!AtLarge(r)
  BY OutsideIsAtLarge
<1>2. Leading' = Leading /\ Parked' = Parked
  BY DEF Leading, Parked, Outside, Queued
<1>3. Led' = Led /\ Rejected' = Rejected \cup {r}
  BY DEF Led, Rejected
<1> QED
  BY <1>1, <1>2, <1>3 DEF Flight!Reject

LEMMA FlightLands ==
  ASSUME Course, Types', NEW t \in Tabs, refresh[t].phase # "none", LetGo(t),
         NEW p \in {"sent", "rejected"},
         \A q \in failedQueue[t] \cup {refresh[t].by} : request'[q].phase = p
  PROVE  Flight!Land(t)
<1>1. isRefreshing[t] /\ refresh[t].by \in Requests
  BY DEF Course, Lock, FlagIsTheRefresh
<1> DEFINE gone == failedQueue[t] \cup {refresh[t].by}
<1>2. gone = Leading[t] \cup Parked[t] /\ gone \subseteq Requests
  BY <1>1, LeadersAndParked DEF Course, Lock, Types
<1>3. \A q \in Requests \ gone : request'[q] = request[q]
  BY DEF LetGo
<1>4. \A q \in gone : /\ request'[q].phase = p
                      /\ request[q].phase \in Queued \cup {"refreshing"}
                      /\ request[q].tab = t
  BY <1>2 DEF Leading, Parked
<1>5. \A q \in Requests : request'[q].tab = request[q].tab
                          /\ request'[q].retry = request[q].retry
  BY DEF LetGo
<1>6. \A q \in Requests : request[q].phase \in Queued \cup {"refreshing"} /\ request[q].tab = t
                          => q \in gone
  BY <1>2 DEF Leading, Parked
<1>7. Leading[t] # {}
  BY <1>1, LeadersAndParked DEF Course
<1> HIDE DEF gone
<1>8. Leading' = [Leading EXCEPT ![t] = {}]
  BY <1>3, <1>4, <1>6 DEF Leading
<1>9. Parked' = [Parked EXCEPT ![t] = {}]
  BY <1>3, <1>4, <1>6 DEF Parked, Queued
<1>10. Led' = Led
  BY <1>5 DEF Led
<1>11. Rejected' \in {Rejected, Rejected \cup Leading[t] \cup Parked[t]}
  <2>1. CASE p = "sent"
    BY <1>3, <1>4, <2>1 DEF Rejected, Queued
  <2>2. CASE p = "rejected"
    BY <1>2, <1>3, <1>4, <2>2 DEF Rejected, Queued
  <2> QED
    BY <2>1, <2>2
<1> QED
  BY <1>7, <1>8, <1>9, <1>10, <1>11 DEF Flight!Land

LEMMA LeadsOutside ==
  ASSUME Course, Types', NEW r \in Requests,
         request'[r].phase \notin {"idle", "refreshing"},
         \A q \in Requests \ {r} : request'[q] = request[q],
         \A t \in Tabs : /\ refresh'[t].by = refresh[t].by
                         /\ refresh[t].phase # "none" => refresh'[t].phase # "none"
  PROVE  Unled' /\ Leads'
<1>1. Unled'
  BY DEF Course, Unled
<1>2. Leads'
  BY DEF Course, Leads, Types, RequestRec
<1> QED
  BY <1>1, <1>2

LEMMA LeadsLanded ==
  ASSUME Course, Types', NEW t \in Tabs, refresh[t].phase # "none", LetGo(t),
         request'[refresh[t].by].phase \in {"sent", "rejected"},
         refresh' = [refresh EXCEPT ![t] = NoRefresh]
  PROVE  Unled' /\ Leads'
<1>1. refresh[t].by \in Requests
  BY DEF Course, Lock, FlagIsTheRefresh
<1>2. \A q \in Requests : \/ request'[q] = request[q] /\ q # refresh[t].by
                          \/ request'[q].phase \in {"sent", "rejected"}
  BY <1>1 DEF LetGo
<1>3. Unled'
  BY <1>2 DEF Course, Unled
<1>4. Leads'
  <2> SUFFICES ASSUME NEW q \in Requests, request'[q].phase = "refreshing"
               PROVE  /\ refresh'[request'[q].tab].phase # "none"
                      /\ refresh'[request'[q].tab].by = q
    BY DEF Leads
  <2>1. request'[q] = request[q] /\ q # refresh[t].by
    BY <1>2
  <2>2. /\ refresh[request[q].tab].phase # "none"
        /\ refresh[request[q].tab].by = q
    BY <2>1 DEF Course, Leads
  <2>3. request[q].tab # t /\ request[q].tab \in Tabs
    BY <2>1, <2>2 DEF Course, Lock, Types, RequestRec
  <2> QED
    BY <2>1, <2>2, <2>3 DEF Course, Lock, Types
<1> QED
  BY <1>3, <1>4

LEMMA FlightStep ==
  ASSUME ProbesSession = FALSE, Course, [Next]_vars
  PROVE  Unled' /\ Leads' /\ [Flight!Next]_(Flight!vars)
<1>0. Types /\ Types' /\ Lock /\ Held /\ Unled /\ Leads
  BY LockStep DEF Course, Lock
<1> USE DEF Phases, Queued, Settled
\* A request the backend or the network deals with stays outside.
<1>1. ASSUME NEW r \in Requests, request[r].phase \notin Queued \cup {"refreshing", "rejected"},
             request'[r].phase \in {"sent", "ok", "unauthorized", "fulfilled"},
             request'[r].retry = request[r].retry,
             \A q \in Requests \ {r} : request'[q] = request[q], refresh' = refresh
      PROVE  Unled' /\ Leads' /\ [Flight!Next]_(Flight!vars)
  <2>1. Unled' /\ Leads'
    BY <1>0, <1>1, LeadsOutside
  <2>2. UNCHANGED Flight!vars
    BY <1>0, <1>1, FlightStutters
  <2> QED
    BY <2>1, <2>2
<1>2. ASSUME NEW r \in Requests, NEW t \in Tabs, NEW k \in Kinds, Issue(r, t, k)
      PROVE  Unled' /\ Leads' /\ [Flight!Next]_(Flight!vars)
  <2>1. request[r].phase = "idle" /\ ~request[r].retry /\ refresh' = refresh
    BY <1>0, <1>2 DEF Issue, Unled
  <2>2. CASE request'[r].phase = "sent"
    BY <1>0, <1>1, <1>2, <2>1, <2>2, IssueTypes
  <2>3. CASE request'[r].phase = "gated"
    <3>1. Unled' /\ Leads'
      BY <1>0, <1>2, <2>1, <2>3, IssueTypes, LeadsOutside
    <3>2. Flight!Join(t, r)
      BY <1>0, <1>2, <2>1, <2>3, IssueTypes, FlightJoins DEF Outside
    <3> QED
      BY <3>1, <3>2 DEF Flight!Next
  <2> QED
    BY <1>0, <1>2, <2>2, <2>3, IssueTypes
<1>3. ASSUME NEW r \in Requests, ServeProtected(r)
      PROVE  Unled' /\ Leads' /\ [Flight!Next]_(Flight!vars)
  <2>1. PICK p \in {"ok", "unauthorized"} : request' = [request EXCEPT ![r].phase = p]
    BY <1>3 DEF ServeProtected
  <2>2. request[r].phase = "sent" /\ refresh' = refresh
    BY <1>3 DEF ServeProtected
  <2> QED
    BY <1>0, <1>1, <2>1, <2>2, Moved
<1>4. ASSUME NEW r \in Requests, ServeSignIn(r)
      PROVE  Unled' /\ Leads' /\ [Flight!Next]_(Flight!vars)
  <2>1. request[r].phase = "sent" /\ refresh' = refresh
    BY <1>4 DEF ServeSignIn
  <2> QED
    BY <1>0, <1>1, <1>4, <2>1, ServeSignInTypes
<1>5. ASSUME NEW r \in Requests, ServeSignOut(r) \/ Fulfil(r)
      PROVE  Unled' /\ Leads' /\ [Flight!Next]_(Flight!vars)
  <2>1. PICK p \in {"ok", "fulfilled"} : request' = [request EXCEPT ![r].phase = p]
    BY <1>5 DEF ServeSignOut, Fulfil
  <2>2. request[r].phase \in {"sent", "ok"} /\ refresh' = refresh
    BY <1>5 DEF ServeSignOut, Fulfil
  <2> QED
    BY <1>0, <1>1, <2>1, <2>2, Moved
<1>6. ASSUME NEW r \in Requests, Fail(r) \/ GiveUp(r)
      PROVE  Unled' /\ Leads' /\ [Flight!Next]_(Flight!vars)
  <2>1. /\ request' = [request EXCEPT ![r].phase = "rejected"]
        /\ Outside(r) /\ refresh' = refresh
    BY <1>6 DEF Fail, GiveUp, Outside
  <2>2. /\ request'[r].phase = "rejected" /\ request'[r].retry = request[r].retry
        /\ \A q \in Requests \ {r} : request'[q] = request[q]
    BY <1>0, <2>1, Moved
  <2>3. Unled' /\ Leads'
    BY <1>0, <2>1, <2>2, LeadsOutside
  <2>4. Flight!Reject(r)
    BY <1>0, <2>1, <2>2, FlightRejects
  <2> QED
    BY <2>3, <2>4 DEF Flight!Next
<1>7. ASSUME NEW r \in Requests, Wait(r)
      PROVE  Unled' /\ Leads' /\ [Flight!Next]_(Flight!vars)
  <2> DEFINE t == request[r].tab
  <2>1. /\ request' = [request EXCEPT ![r].phase = "waiting"]
        /\ Outside(r) /\ ~request[r].retry /\ isRefreshing[t] /\ refresh' = refresh
    BY <1>7 DEF Wait, Outside
  <2>2. /\ t \in Tabs
        /\ request'[r].phase = "waiting" /\ request'[r].tab = t /\ ~request'[r].retry
        /\ \A q \in Requests \ {r} : request'[q] = request[q]
    BY <1>0, <2>1, Moved DEF Types, RequestRec
  <2> HIDE DEF t
  <2>3. Unled' /\ Leads'
    BY <1>0, <2>1, <2>2, LeadsOutside
  <2>4. Flight!Join(t, r)
    BY <1>0, <2>1, <2>2, FlightJoins
  <2> QED
    BY <2>2, <2>3, <2>4 DEF Flight!Next
<1>8. ASSUME NEW r \in Requests, StartRefresh(r)
      PROVE  Unled' /\ Leads' /\ [Flight!Next]_(Flight!vars)
  <2> DEFINE t == request[r].tab
  <2>1. Outside(r) /\ ~request[r].retry /\ ~isRefreshing[t]
    BY <1>8 DEF StartRefresh, Outside
  <2>2. /\ request'[r].phase = "refreshing" /\ request'[r].tab = t /\ request'[r].retry
        /\ \A q \in Requests \ {r} : request'[q] = request[q]
        /\ refresh' = [refresh EXCEPT ![t] =
              [phase |-> "sent", by |-> r, token |-> cookies.refresh, next |-> 0]]
    BY <1>0, <1>8, StartRefreshTypes
  <2>3. t \in Tabs
    BY <1>0 DEF Types, RequestRec
  <2> HIDE DEF t
  <2>4. /\ refresh'[t].phase = "sent" /\ refresh'[t].by = r
        /\ \A u \in Tabs \ {t} : refresh'[u] = refresh[u]
    BY <1>0, <2>2, <2>3 DEF Types
  <2>5. refresh[t].phase = "none"
    BY <1>0, <2>1, <2>3 DEF Lock, FlagIsTheRefresh
  <2>6. Unled'
    BY <1>0, <2>2 DEF Unled
  <2>7. Leads'
    BY <1>0, <2>2, <2>4, <2>5 DEF Leads, Types, RequestRec
  <2>8. Flight!TakeOff(t, r)
    BY <1>0, <2>1, <2>2, <2>3, FlightTakesOff
  <2> QED
    BY <2>3, <2>6, <2>7, <2>8 DEF Flight!Next
\* The backend's half of a refresh.
<1>9. ASSUME NEW t \in Tabs, ReadToken(t) \/ Rotate(t)
      PROVE  Unled' /\ Leads' /\ [Flight!Next]_(Flight!vars)
  <2>1. /\ request' = request
        /\ \A u \in Tabs : /\ refresh'[u].by = refresh[u].by
                           /\ refresh[u].phase # "none" => refresh'[u].phase # "none"
    BY <1>0, <1>9 DEF ReadToken, Rotate, Types, RefreshRec
  <2>2. Unled' /\ Leads'
    BY <1>0, <2>1 DEF Unled, Leads, Types, RequestRec
  <2>3. UNCHANGED Flight!vars
    BY <1>0, <2>1, FlightStutters
  <2> QED
    BY <2>2, <2>3
<1>10. ASSUME NEW t \in Tabs, NEW p \in {"sent", "rejected"},
              refresh[t].phase # "none", LetGo(t),
              \A q \in failedQueue[t] \cup {refresh[t].by} : request'[q].phase = p,
              refresh' = [refresh EXCEPT ![t] = NoRefresh]
       PROVE  Unled' /\ Leads' /\ [Flight!Next]_(Flight!vars)
  <2>1. Unled' /\ Leads'
    BY <1>0, <1>10, LeadsLanded
  <2>2. Flight!Land(t)
    BY <1>0, <1>10, FlightLands
  <2> QED
    BY <2>1, <2>2 DEF Flight!Next
<1>11. ASSUME NEW t \in Tabs, RefreshSucceeds(t)
       PROVE  Unled' /\ Leads' /\ [Flight!Next]_(Flight!vars)
  <2>1. refresh[t].phase # "none" /\ refresh' = [refresh EXCEPT ![t] = NoRefresh]
    BY <1>11 DEF RefreshSucceeds
  <2>2. refresh[t].by \in Requests
    BY <1>0, <2>1 DEF Lock, FlagIsTheRefresh
  <2>3. /\ LetGo(t)
        /\ \A q \in failedQueue[t] \cup {refresh[t].by} : request'[q].phase = "sent"
    BY <1>0, <1>11, <2>2, RefreshSucceedsTypes
  <2> QED
    BY <1>10, <2>1, <2>3
<1>12. ASSUME NEW t \in Tabs, RefreshRefused(t) \/ RefreshLost(t)
       PROVE  Unled' /\ Leads' /\ [Flight!Next]_(Flight!vars)
  <2>1. refresh[t].phase # "none" /\ RefreshFailed(t)
    BY <1>12 DEF RefreshRefused, RefreshLost
  <2>2. refresh[t].by \in Requests
    BY <1>0, <2>1 DEF Lock, FlagIsTheRefresh
  <2>3. /\ LetGo(t) /\ refresh' = [refresh EXCEPT ![t] = NoRefresh]
        /\ \A q \in failedQueue[t] \cup {refresh[t].by} : request'[q].phase = "rejected"
    BY <1>0, <2>1, <2>2, RefreshFailedTypes
  <2> QED
    BY <1>10, <2>1, <2>3
<1>13. ASSUME NEW t \in Tabs, Probed(t) PROVE FALSE
  BY <1>0, <1>13 DEF Probed, Held
<1>14. ASSUME ExpireAccess \/ UNCHANGED vars
       PROVE  Unled' /\ Leads' /\ [Flight!Next]_(Flight!vars)
  <2>1. request' = request /\ refresh' = refresh
    BY <1>14 DEF ExpireAccess, clientVars, vars
  <2>2. UNCHANGED Flight!vars
    BY <1>0, <2>1, FlightStutters
  <2> QED
    BY <1>0, <2>1, <2>2 DEF Unled, Leads
<1> QED
  BY <1>2, <1>3, <1>4, <1>5, <1>6, <1>7, <1>8, <1>9, <1>11, <1>12, <1>13, <1>14
     DEF Next, Serve, Answer, Refresh

(* The clients that end a failed refresh at once implement SingleFlight:   *)
(* in each tab one request at a time leads the refresh, those parked by    *)
(* the two interceptors leave with it and share its fate, and no request   *)
(* leads twice.                                                            *)
THEOREM Implementation == (ProbesSession = FALSE) => (Spec => ImplementsSingleFlight)
<1> SUFFICES ASSUME ProbesSession = FALSE PROVE Spec => ImplementsSingleFlight
  OBVIOUS
<1>1. Init => Course
  <2> SUFFICES ASSUME Init PROVE Held /\ Unled /\ Leads
    BY LockInit DEF Course
  <2>1. \A r \in Requests : request[r].phase = "idle" /\ ~request[r].retry
    BY DEF Init
  <2> QED
    BY <2>1 DEF Init, Held, Unled, Leads, NoRefresh
<1>2. Course /\ [Next]_vars => Course'
  BY LockStep, HeldStep, FlightStep DEF Course
<1>3. Init => Flight!Init
  <2> SUFFICES ASSUME Init PROVE Flight!Init
    OBVIOUS
  <2>1. \A r \in Requests : request[r].phase = "idle" /\ ~request[r].retry
    BY DEF Init
  <2> QED
    BY <2>1 DEF Flight!Init, Leading, Parked, Led, Rejected, Queued
<1>4. Course /\ [Next]_vars => [Flight!Next]_(Flight!vars)
  BY FlightStep
<1> QED
  BY <1>1, <1>2, <1>3, <1>4, PTL DEF Spec, ImplementsSingleFlight, Flight!Spec

-----------------------------------------------------------------------------
(* A tab is not refused a token it has spent itself.  A token is in use     *)
(* when the jar, a refresh or the record of the rotations names it; a pair  *)
(* on its way to the jar names a token nobody uses, so a token a tab has    *)
(* rotated cannot come back to it.                                          *)

Minting(r)  == request[r].kind = "signIn" /\ request[r].phase = "ok"
Renewing(t) == refresh[t].phase = "renewed"
Carried(t)  == refresh[t].phase \in {"sent", "valid", "renewed", "refused"}
InUse(x)    == \/ cookies.refresh = x
               \/ \E t \in Tabs : Carried(t) /\ refresh[t].token = x
               \/ \E t \in Tabs : <<t, x>> \in rotatedBy

Numbered == /\ \A x \in Nat : InUse(x) => x <= issued
            /\ \A x \in live : x >= 1 /\ x <= issued
            /\ \A t \in Tabs : refresh[t].phase = "valid" => refresh[t].token >= 1
            /\ \A t \in Tabs, x \in Nat : <<t, x>> \in rotatedBy => x >= 1

\* x may still arrive in the jar: a number handed out that nobody uses yet.
OnItsWay(x) == x >= 1 /\ x <= issued /\ ~InUse(x)

Deliveries ==
  /\ \A r \in Requests : Minting(r) => OnItsWay(request[r].token)
  /\ \A t \in Tabs : Renewing(t) => OnItsWay(refresh[t].next)
  /\ \A r \in Requests : Minting(r) =>
        \A q \in Requests \ {r} : Minting(q) => request[q].token # request[r].token
  /\ \A t \in Tabs : Renewing(t) =>
        \A u \in Tabs \ {t} : Renewing(u) => refresh[u].next # refresh[t].next
  /\ \A r \in Requests, t \in Tabs :
        Minting(r) /\ Renewing(t) => request[r].token # refresh[t].next

\* A token tab t has spent: its answer is lost, or on its way, or the token
\* is gone from the jar and from the refresh of t.
Gone(t, x) == /\ cookies.refresh # x
              /\ refresh[t].phase \in {"sent", "valid", "refused"} => refresh[t].token # x

Spent == \A t \in Tabs, x \in Nat : <<t, x>> \in rotatedBy =>
            \/ x \in lost
            \/ Renewing(t) /\ refresh[t].token = x
            \/ Gone(t, x)

Own == Numbered /\ Deliveries /\ Spent

LEMMA OwnInit == Init => Own
<1> SUFFICES ASSUME Init PROVE Own
  OBVIOUS
<1>1. /\ \A r \in Requests : ~Minting(r)
      /\ \A t \in Tabs : refresh[t].phase = "none"
      /\ cookies.refresh = 1 /\ live = {1} /\ rotatedBy = {} /\ issued = 1
  BY DEF Init, Minting, NoRefresh
<1> QED
  BY <1>1 DEF Own, Numbered, Deliveries, Spent, Renewing, InUse, Carried

\* A step that mints nothing and does not touch the jar.
LEMMA OwnQuiet ==
  ASSUME Types, Own,
         UNCHANGED <<cookies, rotatedBy, issued>>, live' \subseteq live, lost \subseteq lost',
         \A r \in Requests : Minting(r)' =>
            Minting(r) /\ request'[r].token = request[r].token,
         \A t \in Tabs :
            \/ refresh'[t] = refresh[t]
            \/ /\ refresh'[t].phase \in {"none", "probing"}
               /\ Renewing(t) => refresh[t].token \in lost'
            \/ /\ refresh[t].phase = "sent" /\ refresh'[t].token = refresh[t].token
               /\ refresh'[t].phase \in {"valid", "refused"}
               /\ refresh'[t].phase = "valid" => refresh[t].token \in live
  PROVE  Own'
<1>1. \A x \in Nat : InUse(x)' => InUse(x)
  BY DEF InUse, Carried
<1>2. \A t \in Tabs : Renewing(t)' => Renewing(t) /\ refresh'[t] = refresh[t]
  BY DEF Renewing
<1>3. \A r \in Requests : request[r].token \in Nat
  BY DEF Types, RequestRec
<1>4. \A t \in Tabs : refresh[t].token \in Nat /\ refresh[t].next \in Nat
  BY DEF Types, RefreshRec
<1>5. Numbered'
  BY <1>1 DEF Own, Numbered
<1>6. \A x \in Nat : OnItsWay(x) => OnItsWay(x)'
  BY <1>1 DEF OnItsWay
<1>7. Deliveries'
  <2>1. \A r \in Requests : Minting(r)' => OnItsWay(request[r].token)'
    BY <1>3, <1>6 DEF Own, Deliveries
  <2>2. \A t \in Tabs : Renewing(t)' => OnItsWay(refresh[t].next)'
    BY <1>2, <1>4, <1>6 DEF Own, Deliveries
  <2> QED
    BY <1>2, <2>1, <2>2 DEF Own, Deliveries
<1>8. Spent'
  <2> SUFFICES ASSUME NEW t \in Tabs, NEW x \in Nat, <<t, x>> \in rotatedBy, x \notin lost'
               PROVE  (Renewing(t)' /\ refresh'[t].token = x) \/ Gone(t, x)'
    BY DEF Spent
  <2>1. (Renewing(t) /\ refresh[t].token = x) \/ Gone(t, x)
    BY DEF Own, Spent
  <2> QED
    BY <2>1 DEF Renewing, Gone
<1> QED
  BY <1>5, <1>7, <1>8 DEF Own

\* A sign-in mints a pair.
LEMMA OwnSignIn ==
  ASSUME Types, Own, NEW r \in Requests, ServeSignIn(r), issued' = issued + 1
  PROVE  Own'
<1>1. /\ \A q \in Requests \ {r} : request'[q] = request[q]
      /\ request'[r].token = issued + 1 /\ live' = live \cup {issued + 1}
  <2>1. issued' # issued
    BY DEF Types
  <2> QED
    BY <2>1, ServeSignInTypes
<1>2. UNCHANGED <<cookies, refresh, rotatedBy, lost>>
  BY DEF ServeSignIn
<1>3. \A x : InUse(x)' <=> InUse(x)
  BY <1>2 DEF InUse, Carried
<1>4. /\ issued \in Nat
      /\ \A q \in Requests : request[q].token \in Nat
      /\ \A t \in Tabs : refresh[t].token \in Nat /\ refresh[t].next \in Nat
      /\ live \subseteq Nat
  BY DEF Types, RequestRec, RefreshRec
<1>5. Numbered'
  BY <1>1, <1>2, <1>3, <1>4 DEF Own, Numbered
<1>6. ~InUse(issued + 1)
  BY <1>4 DEF Own, Numbered
<1>7. \A x \in Nat : OnItsWay(x) => OnItsWay(x)' /\ x # issued + 1
  BY <1>3, <1>4 DEF OnItsWay
<1>8. \A x \in Nat : x = issued + 1 => OnItsWay(x)'
  BY <1>3, <1>4, <1>6 DEF OnItsWay
<1>9. \A q \in Requests \ {r} : Minting(q)' <=> Minting(q)
  BY <1>1 DEF Minting
<1>10. \A t \in Tabs : Renewing(t)' <=> Renewing(t)
  BY <1>2 DEF Renewing
<1>11. /\ \A q \in Requests : Minting(q) => OnItsWay(request[q].token)
       /\ \A t \in Tabs : Renewing(t) => OnItsWay(refresh[t].next)
  BY DEF Own, Deliveries
<1>12. Deliveries'
  <2>1. \A q \in Requests : Minting(q)' => OnItsWay(request[q].token)'
    BY <1>1, <1>4, <1>7, <1>8, <1>9, <1>11
  <2>2. \A t \in Tabs : Renewing(t)' => OnItsWay(refresh[t].next)'
    BY <1>2, <1>4, <1>7, <1>10, <1>11
  <2>3. \A p \in Requests : Minting(p)' =>
           \A q \in Requests \ {p} : Minting(q)' => request'[q].token # request'[p].token
    BY <1>1, <1>4, <1>7, <1>9, <1>11 DEF Own, Deliveries
  <2>4. \A t \in Tabs : Renewing(t)' =>
           \A u \in Tabs \ {t} : Renewing(u)' => refresh'[u].next # refresh'[t].next
    BY <1>2, <1>10 DEF Own, Deliveries
  <2>5. \A q \in Requests, t \in Tabs :
           Minting(q)' /\ Renewing(t)' => request'[q].token # refresh'[t].next
    BY <1>1, <1>2, <1>4, <1>7, <1>9, <1>10, <1>11 DEF Own, Deliveries
  <2> QED
    BY <2>1, <2>2, <2>3, <2>4, <2>5 DEF Deliveries
<1>13. Spent'
  BY <1>2 DEF Own, Spent, Renewing, Gone
<1> QED
  BY <1>5, <1>12, <1>13 DEF Own

\* The jar takes a pair: one that was on its way, or none after a sign-out.
LEMMA OwnStored ==
  ASSUME Types, Types', Own, UNCHANGED <<rotatedBy, issued, live, lost>>,
         \A r \in Requests : Minting(r)' =>
            /\ Minting(r) /\ request'[r].token = request[r].token
            /\ request[r].token # cookies'.refresh,
         \A t \in Tabs :
            \/ refresh'[t] = refresh[t]
            \/ refresh'[t].phase = "none" /\ Renewing(t) /\ refresh[t].next = cookies'.refresh,
         \A t \in Tabs : Renewing(t)' => refresh[t].next # cookies'.refresh,
         cookies'.refresh = 0 \/ OnItsWay(cookies'.refresh)
  PROVE  Own'
<1> DEFINE c == cookies'.refresh
<1>1. /\ c \in Nat /\ issued \in Nat
      /\ \A q \in Requests : request[q].token \in Nat
      /\ \A t \in Tabs : refresh[t].token \in Nat /\ refresh[t].next \in Nat
  BY DEF Types, RequestRec, RefreshRec
<1>2. \A x \in Nat : InUse(x)' => InUse(x) \/ x = c
  BY DEF InUse, Carried
<1>3. \A t \in Tabs : Renewing(t)' => Renewing(t) /\ refresh'[t] = refresh[t]
  BY DEF Renewing
<1>4. c <= issued
  BY <1>1 DEF OnItsWay
<1>5. Numbered'
  BY <1>1, <1>2, <1>4 DEF Own, Numbered
<1>6. \A x \in Nat : OnItsWay(x) /\ x # c => OnItsWay(x)'
  BY <1>2 DEF OnItsWay
<1>7. /\ \A q \in Requests : Minting(q) => OnItsWay(request[q].token)
      /\ \A t \in Tabs : Renewing(t) => OnItsWay(refresh[t].next)
  BY DEF Own, Deliveries
<1>8. Deliveries'
  <2>1. \A q \in Requests : Minting(q)' => OnItsWay(request[q].token)'
    BY <1>1, <1>6, <1>7
  <2>2. \A t \in Tabs : Renewing(t)' => OnItsWay(refresh[t].next)'
    BY <1>1, <1>3, <1>6, <1>7
  <2> QED
    BY <1>3, <2>1, <2>2 DEF Own, Deliveries
<1>9. \A t \in Tabs, x \in Nat : <<t, x>> \in rotatedBy => x # c
  BY DEF Own, Numbered, OnItsWay, InUse
<1>10. Spent'
  <2> SUFFICES ASSUME NEW t \in Tabs, NEW x \in Nat, <<t, x>> \in rotatedBy, x \notin lost
               PROVE  (Renewing(t)' /\ refresh'[t].token = x) \/ Gone(t, x)'
    BY DEF Spent
  <2>1. (Renewing(t) /\ refresh[t].token = x) \/ Gone(t, x)
    BY DEF Own, Spent
  <2>2. x # c
    BY <1>9
  <2> QED
    BY <2>1, <2>2 DEF Renewing, Gone
<1> QED
  BY <1>5, <1>8, <1>10 DEF Own

LEMMA OwnFulfil ==
  ASSUME Types, Types', Own, NEW r \in Requests, Fulfil(r)
  PROVE  Own'
<1>1. /\ request'[r].phase = "fulfilled"
      /\ \A q \in Requests \ {r} : request'[q] = request[q]
  BY Moved DEF Fulfil, Phases, Settled
<1>2. UNCHANGED <<refresh, live, rotatedBy, issued, lost>> /\ request[r].phase = "ok"
  BY DEF Fulfil, backendVars
<1>3. \A q \in Requests : Minting(q)' => q # r /\ Minting(q) /\ request'[q] = request[q]
  BY <1>1 DEF Minting
<1>4. \A t \in Tabs : Renewing(t)' <=> Renewing(t)
  BY <1>2 DEF Renewing
<1>5. /\ \A q \in Requests : Minting(q) => OnItsWay(request[q].token)
      /\ \A t \in Tabs : Renewing(t) => OnItsWay(refresh[t].next)
  BY DEF Own, Deliveries
<1>6. CASE request[r].kind = "signIn"
  <2>1. cookies'.refresh = request[r].token /\ Minting(r)
    BY <1>2, <1>6 DEF Fulfil, Minting
  <2>2. \A q \in Requests : Minting(q)' => request[q].token # cookies'.refresh
    BY <1>3, <2>1 DEF Own, Deliveries
  <2>3. \A t \in Tabs : Renewing(t)' => refresh[t].next # cookies'.refresh
    BY <1>4, <2>1 DEF Own, Deliveries
  <2> QED
    BY <1>2, <1>3, <1>5, <2>1, <2>2, <2>3, OwnStored
<1>7. CASE request[r].kind = "signOut"
  <2>1. cookies'.refresh = 0
    BY <1>7 DEF Fulfil
  <2>2. \A x \in Nat : OnItsWay(x) => x # 0
    BY DEF OnItsWay
  <2>3. \A q \in Requests : request[q].token \in Nat
    BY DEF Types, RequestRec
  <2>4. \A t \in Tabs : refresh[t].next \in Nat
    BY DEF Types, RefreshRec
  <2> QED
    BY <1>2, <1>3, <1>4, <1>5, <2>1, <2>2, <2>3, <2>4, OwnStored
<1>8. CASE request[r].kind \notin {"signIn", "signOut"}
  <2>1. cookies' = cookies
    BY <1>8 DEF Fulfil
  <2> QED
    BY <1>2, <1>3, <2>1, OwnQuiet
<1> QED
  BY <1>6, <1>7, <1>8

LEMMA OwnSucceeds ==
  ASSUME Types, Types', Own, NEW t \in Tabs, RefreshSucceeds(t), refresh[t].by \in Requests
  PROVE  Own'
<1>1. /\ LetGo(t) /\ request'[refresh[t].by].phase = "sent"
      /\ cookies'.refresh = refresh[t].next
  BY RefreshSucceedsTypes
<1>2. /\ UNCHANGED <<live, rotatedBy, issued, lost>> /\ Renewing(t)
      /\ refresh' = [refresh EXCEPT ![t] = NoRefresh]
  BY DEF RefreshSucceeds, backendVars, Renewing
<1>3. /\ refresh'[t].phase = "none"
      /\ \A u \in Tabs \ {t} : refresh'[u] = refresh[u]
  BY <1>2, NoRefreshRec DEF Types
<1>4. \A q \in Requests : Minting(q)' => Minting(q) /\ request'[q] = request[q]
  BY <1>1 DEF Minting, LetGo
<1>5. \A u \in Tabs : Renewing(u)' => u # t /\ Renewing(u)
  BY <1>3 DEF Renewing
<1>6. OnItsWay(refresh[t].next)
  BY <1>2 DEF Own, Deliveries
<1>7. \A q \in Requests : Minting(q)' => request[q].token # cookies'.refresh
  BY <1>1, <1>2, <1>4 DEF Own, Deliveries
<1>8. \A u \in Tabs : Renewing(u)' => refresh[u].next # cookies'.refresh
  BY <1>1, <1>2, <1>5 DEF Own, Deliveries
<1> QED
  BY <1>1, <1>2, <1>3, <1>4, <1>6, <1>7, <1>8, OwnStored

\* A refresh leaves with the token of the jar.
LEMMA OwnStart ==
  ASSUME Types, Own, NEW r \in Requests, StartRefresh(r),
         refresh[request[r].tab].phase = "none"
  PROVE  Own'
<1> DEFINE t == request[r].tab
<1>1. t \in Tabs
  BY DEF Types, RequestRec
<1>2. UNCHANGED <<cookies, live, rotatedBy, issued, lost>>
  BY DEF StartRefresh, backendVars
<1>3. /\ request'[r].phase = "refreshing"
      /\ \A q \in Requests \ {r} : request'[q] = request[q]
      /\ refresh' = [refresh EXCEPT ![t] =
            [phase |-> "sent", by |-> r, token |-> cookies.refresh, next |-> 0]]
  BY StartRefreshTypes
<1> HIDE DEF t
<1>4. /\ refresh'[t].phase = "sent" /\ refresh'[t].token = cookies.refresh
      /\ \A u \in Tabs \ {t} : refresh'[u] = refresh[u]
  BY <1>1, <1>3 DEF Types
<1>5. \A q \in Requests : Minting(q)' => Minting(q) /\ request'[q] = request[q]
  BY <1>3 DEF Minting
<1>6. \A u \in Tabs : Renewing(u)' => Renewing(u) /\ refresh'[u] = refresh[u]
  BY <1>4 DEF Renewing
<1>7. \A x \in Nat : InUse(x)' => InUse(x)
  BY <1>2, <1>4 DEF InUse, Carried
<1>8. /\ \A q \in Requests : request[q].token \in Nat
      /\ \A u \in Tabs : refresh[u].token \in Nat /\ refresh[u].next \in Nat
  BY DEF Types, RequestRec, RefreshRec
<1>9. Numbered'
  BY <1>2, <1>4, <1>7 DEF Own, Numbered
<1>10. \A x \in Nat : OnItsWay(x) => OnItsWay(x)'
  BY <1>2, <1>7 DEF OnItsWay
<1>11. Deliveries'
  <2>1. \A q \in Requests : Minting(q)' => OnItsWay(request[q].token)'
    BY <1>5, <1>8, <1>10 DEF Own, Deliveries
  <2>2. \A u \in Tabs : Renewing(u)' => OnItsWay(refresh[u].next)'
    BY <1>6, <1>8, <1>10 DEF Own, Deliveries
  <2> QED
    BY <1>5, <1>6, <2>1, <2>2 DEF Own, Deliveries
<1>12. refresh[t].phase = "none"
  BY DEF t
<1>13. Spent'
  <2> SUFFICES ASSUME NEW u \in Tabs, NEW x \in Nat, <<u, x>> \in rotatedBy, x \notin lost
               PROVE  (Renewing(u)' /\ refresh'[u].token = x) \/ Gone(u, x)'
    BY <1>2 DEF Spent
  <2>1. (Renewing(u) /\ refresh[u].token = x) \/ Gone(u, x)
    BY DEF Own, Spent
  <2> QED
    BY <1>2, <1>4, <1>12, <2>1 DEF Renewing, Gone
<1> QED
  BY <1>9, <1>11, <1>13 DEF Own

\* A rotation spends one token and mints the next.
LEMMA OwnRotate ==
  ASSUME Types, Own, NEW t \in Tabs, Rotate(t)
  PROVE  Own'
<1> DEFINE y == refresh[t].token
           a == [refresh[t] EXCEPT !.phase = "renewed"]
           b == [a EXCEPT !.next = issued + 1]
<1>1. /\ refresh[t].phase = "valid"
      /\ issued' = issued + 1
      /\ live' = (live \ {y}) \cup {issued + 1}
      /\ rotatedBy' = rotatedBy \cup {<<t, y>>}
      /\ UNCHANGED <<request, cookies, lost>>
  BY DEF Rotate
<1>2. refresh[t] \in RefreshRec /\ issued \in Nat
  BY DEF Types
<1>3. a \in RefreshRec /\ a.phase = "renewed" /\ a.token = y
  BY <1>2 DEF RefreshRec
<1>4. refresh' = [refresh EXCEPT ![t] = b]
  BY <1>1, Zenon DEF Rotate
<1> HIDE DEF a
<1>5. b.phase = "renewed" /\ b.token = y /\ b.next = issued + 1
  BY <1>2, <1>3 DEF RefreshRec
<1> HIDE DEF b
<1>6. /\ refresh'[t].phase = "renewed" /\ refresh'[t].token = y
      /\ refresh'[t].next = issued + 1
      /\ \A u \in Tabs \ {t} : refresh'[u] = refresh[u]
  BY <1>4, <1>5 DEF Types
<1>7. y \in Nat /\ y >= 1 /\ y <= issued /\ InUse(y)
  <2>1. y \in Nat
    BY <1>2 DEF RefreshRec
  <2>2. y >= 1
    BY <1>1 DEF Own, Numbered
  <2>3. InUse(y)
    BY <1>1 DEF InUse, Carried
  <2> QED
    BY <2>1, <2>2, <2>3 DEF Own, Numbered
<1> HIDE DEF y
<1>8. \A x \in Nat : InUse(x)' => InUse(x)
  <2> SUFFICES ASSUME NEW x \in Nat, InUse(x)' PROVE InUse(x)
    OBVIOUS
  <2>1. CASE x = y
    BY <1>7, <2>1
  <2>2. CASE x # y
    BY <1>1, <1>6, <2>2 DEF InUse, Carried
  <2> QED
    BY <2>1, <2>2
<1>9. /\ \A q \in Requests : request[q].token \in Nat
      /\ \A u \in Tabs : refresh[u].token \in Nat /\ refresh[u].next \in Nat
      /\ live \subseteq Nat
  BY DEF Types, RequestRec, RefreshRec
<1>10. Numbered'
  <2>1. \A x \in Nat : InUse(x)' => x <= issued'
    BY <1>1, <1>2, <1>8 DEF Own, Numbered
  <2>2. \A x \in live' : x >= 1 /\ x <= issued'
    BY <1>1, <1>2, <1>9 DEF Own, Numbered
  <2>3. \A u \in Tabs : refresh'[u].phase = "valid" => refresh'[u].token >= 1
    BY <1>6 DEF Own, Numbered
  <2>4. \A u \in Tabs, x \in Nat : <<u, x>> \in rotatedBy' => x >= 1
    BY <1>1, <1>7 DEF Own, Numbered
  <2> QED
    BY <2>1, <2>2, <2>3, <2>4 DEF Numbered
<1>11. ~InUse(issued + 1)
  BY <1>2 DEF Own, Numbered
<1>12. \A x \in Nat : OnItsWay(x) => OnItsWay(x)' /\ x # issued + 1
  BY <1>1, <1>2, <1>8 DEF OnItsWay
<1>13. \A x \in Nat : x = issued + 1 => OnItsWay(x)'
  BY <1>1, <1>2, <1>8, <1>11 DEF OnItsWay
<1>14. \A q \in Requests : Minting(q)' <=> Minting(q)
  BY <1>1 DEF Minting
<1>15. \A u \in Tabs \ {t} : Renewing(u)' <=> Renewing(u)
  BY <1>6 DEF Renewing
<1>16. /\ \A q \in Requests : Minting(q) => OnItsWay(request[q].token)
       /\ \A u \in Tabs : Renewing(u) => OnItsWay(refresh[u].next)
  BY DEF Own, Deliveries
<1>17. Deliveries'
  <2>1. \A q \in Requests : Minting(q)' => OnItsWay(request[q].token)'
    BY <1>1, <1>9, <1>12, <1>14, <1>16
  <2>2. \A u \in Tabs : Renewing(u)' => OnItsWay(refresh[u].next)'
    <3>1. OnItsWay(refresh[t].next)'
      BY <1>2, <1>6, <1>13
    <3>2. ASSUME NEW u \in Tabs \ {t}, Renewing(u)' PROVE OnItsWay(refresh[u].next)'
      <4>1. Renewing(u) /\ refresh'[u].next = refresh[u].next /\ refresh[u].next \in Nat
        BY <1>6, <1>9, <1>15, <3>2
      <4> QED
        BY <1>12, <1>16, <4>1
    <3> QED
      BY <3>1, <3>2
  <2>3. \A p \in Requests : Minting(p)' =>
           \A q \in Requests \ {p} : Minting(q)' => request'[q].token # request'[p].token
    BY <1>1, <1>14 DEF Own, Deliveries
  <2>4. \A v \in Tabs : Renewing(v)' =>
           \A u \in Tabs \ {v} : Renewing(u)' => refresh'[u].next # refresh'[v].next
    BY <1>6, <1>9, <1>12, <1>15, <1>16 DEF Own, Deliveries
  <2>5. \A q \in Requests, u \in Tabs :
           Minting(q)' /\ Renewing(u)' => request'[q].token # refresh'[u].next
    BY <1>1, <1>6, <1>9, <1>12, <1>14, <1>15, <1>16 DEF Own, Deliveries
  <2> QED
    BY <2>1, <2>2, <2>3, <2>4, <2>5 DEF Deliveries
<1>18. Spent'
  <2> SUFFICES ASSUME NEW u \in Tabs, NEW x \in Nat, <<u, x>> \in rotatedBy', x \notin lost
               PROVE  (Renewing(u)' /\ refresh'[u].token = x) \/ Gone(u, x)'
    BY <1>1 DEF Spent
  <2>1. CASE u = t /\ x = y
    BY <1>6, <2>1 DEF Renewing
  <2>2. CASE ~(u = t /\ x = y)
    <3>1. <<u, x>> \in rotatedBy
      BY <1>1, <2>2
    <3>2. (Renewing(u) /\ refresh[u].token = x) \/ Gone(u, x)
      BY <3>1 DEF Own, Spent
    <3> QED
      BY <1>1, <1>6, <3>2 DEF Renewing, Gone
  <2> QED
    BY <2>1, <2>2
<1> QED
  BY <1>10, <1>17, <1>18 DEF Own

LEMMA OwnStep == Lock /\ Own /\ [Next]_vars => Own'
<1> SUFFICES ASSUME Lock, Own, [Next]_vars PROVE Own'
  OBVIOUS
<1>0. Types /\ Types'
  BY LockStep DEF Lock
<1> USE DEF Phases, Queued, Settled
<1>1. ASSUME NEW r \in Requests, NEW t \in Tabs, NEW k \in Kinds, Issue(r, t, k)
      PROVE  Own'
  <2>1. UNCHANGED <<refresh, cookies, live, rotatedBy, issued, lost>>
    BY <1>1 DEF Issue, backendVars
  <2>2. \A q \in Requests : Minting(q)' => Minting(q) /\ request'[q] = request[q]
    <3>1. /\ request'[r].phase \in {"gated", "sent"}
          /\ \A q \in Requests \ {r} : request'[q] = request[q]
      BY <1>0, <1>1, IssueTypes
    <3> QED
      BY <3>1 DEF Minting
  <2> QED
    BY <1>0, <2>1, <2>2, OwnQuiet
\* A request moves to a phase from which the jar takes nothing.
<1>2. ASSUME NEW r \in Requests, NEW p \in Phases,
             request' = [request EXCEPT ![r].phase = p],
             p = "ok" => request[r].kind # "signIn",
             UNCHANGED <<refresh, cookies, rotatedBy, issued, lost>>, live' \subseteq live
      PROVE  Own'
  <2>1. /\ request'[r].phase = p /\ request'[r].kind = request[r].kind
        /\ \A q \in Requests \ {r} : request'[q] = request[q]
    BY <1>0, <1>2, Moved
  <2>2. \A q \in Requests : Minting(q)' => Minting(q) /\ request'[q] = request[q]
    BY <1>2, <2>1 DEF Minting
  <2> QED
    BY <1>0, <1>2, <2>2, OwnQuiet
<1>3. ASSUME NEW r \in Requests, ServeProtected(r) PROVE Own'
  <2>1. PICK p \in {"ok", "unauthorized"} : request' = [request EXCEPT ![r].phase = p]
    BY <1>3 DEF ServeProtected
  <2> QED
    BY <1>2, <1>3, <2>1 DEF ServeProtected, backendVars
<1>4. ASSUME NEW r \in Requests, ServeSignIn(r) PROVE Own'
  <2>1. CASE issued' = issued + 1
    BY <1>0, <1>4, <2>1, OwnSignIn
  <2>2. CASE request' = [request EXCEPT ![r].phase = "unauthorized"]
             /\ UNCHANGED <<live, issued>>
    BY <1>2, <1>4, <2>2 DEF ServeSignIn
  <2> QED
    BY <1>4, <2>1, <2>2 DEF ServeSignIn
<1>5. ASSUME NEW r \in Requests, ServeSignOut(r) PROVE Own'
  BY <1>2, <1>5 DEF ServeSignOut
<1>6. ASSUME NEW r \in Requests, Fulfil(r) PROVE Own'
  BY <1>0, <1>6, OwnFulfil
<1>7. ASSUME NEW r \in Requests, Fail(r) \/ GiveUp(r) PROVE Own'
  BY <1>2, <1>7 DEF Fail, GiveUp, backendVars
<1>8. ASSUME NEW r \in Requests, Wait(r) PROVE Own'
  BY <1>2, <1>8 DEF Wait, backendVars
<1>9. ASSUME NEW r \in Requests, StartRefresh(r) PROVE Own'
  <2>1. request[r].tab \in Tabs /\ ~isRefreshing[request[r].tab]
    BY <1>0, <1>9 DEF StartRefresh, Types, RequestRec
  <2>2. refresh[request[r].tab].phase = "none"
    BY <2>1 DEF Lock, FlagIsTheRefresh
  <2> QED
    BY <1>0, <1>9, <2>2, OwnStart
<1>10. ASSUME NEW t \in Tabs, ReadToken(t) PROVE Own'
  <2> DEFINE p == IF refresh[t].token \in live THEN "valid" ELSE "refused"
  <2>1. /\ refresh' = [refresh EXCEPT ![t].phase = p] /\ refresh[t].phase = "sent"
        /\ UNCHANGED <<request, cookies, live, rotatedBy, issued, lost>>
    BY <1>10 DEF ReadToken, backendVars
  <2>2. /\ refresh'[t].phase = p /\ refresh'[t].token = refresh[t].token
        /\ \A u \in Tabs \ {t} : refresh'[u] = refresh[u]
    BY <1>0, <2>1 DEF Types, RefreshRec
  <2>3. \A q \in Requests : Minting(q)' <=> Minting(q)
    BY <2>1 DEF Minting
  <2>4. p \in {"valid", "refused"} /\ (p = "valid" => refresh[t].token \in live)
    OBVIOUS
  <2> HIDE DEF p
  <2> QED
    BY <1>0, <2>1, <2>2, <2>3, <2>4, OwnQuiet
<1>11. ASSUME NEW t \in Tabs, Rotate(t) PROVE Own'
  BY <1>0, <1>11, OwnRotate
<1>12. ASSUME NEW t \in Tabs, RefreshSucceeds(t) PROVE Own'
  <2>1. refresh[t].by \in Requests
    BY <1>12 DEF RefreshSucceeds, Lock, FlagIsTheRefresh
  <2> QED
    BY <1>0, <1>12, <2>1, OwnSucceeds
<1>13. ASSUME NEW t \in Tabs, RefreshFailed(t), refresh[t].phase # "none",
              UNCHANGED <<cookies, live, rotatedBy, issued>>, lost \subseteq lost',
              Renewing(t) => refresh[t].token \in lost'
       PROVE  Own'
  <2>1. refresh[t].by \in Requests
    BY <1>13 DEF Lock, FlagIsTheRefresh
  <2>2. LetGo(t)
    BY <1>0, <1>13, <2>1, RefreshFailedTypes
  <2>3. \A u \in Tabs : \/ refresh'[u] = refresh[u]
                        \/ u = t /\ refresh'[u].phase \in {"none", "probing"}
    <3>1. CASE ProbesSession
      BY <1>0, <1>13, <2>1, <3>1, RefreshFailedTypes
    <3>2. CASE ~ProbesSession
      <4>1. refresh' = [refresh EXCEPT ![t] = NoRefresh]
        BY <1>0, <1>13, <2>1, <3>2, RefreshFailedTypes
      <4> QED
        BY <1>0, <4>1, NoRefreshRec DEF Types
    <3> QED
      BY <3>1, <3>2
  <2>4. request'[refresh[t].by].phase # "ok"
    <3>1. request[refresh[t].by].phase = "refreshing"
      BY <1>13 DEF Lock, FlagIsTheRefresh
    <3>2. refresh[t].by \notin failedQueue[t]
      BY <2>1, <3>1 DEF Lock, QueueExact
    <3>3. CASE ProbesSession
      BY <1>0, <1>13, <2>1, <3>1, <3>2, <3>3, RefreshFailedTypes
    <3>4. CASE ~ProbesSession
      BY <1>0, <1>13, <2>1, <3>4, RefreshFailedTypes
    <3> QED
      BY <3>3, <3>4
  <2>5. \A q \in Requests : Minting(q)' => Minting(q) /\ request'[q] = request[q]
    BY <2>2, <2>4 DEF Minting, LetGo
  <2> QED
    BY <1>0, <1>13, <2>3, <2>5, OwnQuiet
<1>14. ASSUME NEW t \in Tabs, RefreshRefused(t) PROVE Own'
  BY <1>13, <1>14 DEF RefreshRefused, Renewing, backendVars
<1>15. ASSUME NEW t \in Tabs, RefreshLost(t) PROVE Own'
  BY <1>13, <1>15 DEF RefreshLost, backendVars
<1>16. ASSUME NEW t \in Tabs, Probed(t) PROVE Own'
  <2>1. /\ refresh[t].phase = "probing"
        /\ UNCHANGED <<cookies, live, rotatedBy, issued, lost>>
    BY <1>16 DEF Probed, backendVars
  <2>2. refresh[t].by \in Requests
    BY <2>1 DEF Lock, FlagIsTheRefresh
  <2>3. PICK stay \in BOOLEAN : EndRefresh(t, request, stay)
    BY <1>16 DEF Probed, Authorized
  <2>4. /\ request'[refresh[t].by].phase = "rejected"
        /\ \A r \in Requests \ {refresh[t].by} : request'[r] = request[r]
        /\ refresh' = [refresh EXCEPT ![t] = NoRefresh]
    BY <1>0, <2>2, <2>3, EndRefreshTypes DEF Types
  <2>5. \A u \in Tabs : refresh'[u] = refresh[u] \/ (u = t /\ refresh'[u].phase = "none")
    BY <1>0, <2>4, NoRefreshRec DEF Types
  <2>6. \A q \in Requests : Minting(q)' => Minting(q) /\ request'[q] = request[q]
    BY <2>4 DEF Minting
  <2> QED
    BY <1>0, <2>1, <2>5, <2>6, OwnQuiet DEF Renewing
<1>17. ASSUME ExpireAccess \/ UNCHANGED vars PROVE Own'
  <2>1. UNCHANGED <<request, refresh, cookies, live, rotatedBy, issued, lost>>
    BY <1>17 DEF ExpireAccess, clientVars, backendVars, vars
  <2>2. \A q \in Requests : Minting(q)' <=> Minting(q)
    BY <2>1 DEF Minting
  <2> QED
    BY <1>0, <2>1, <2>2, OwnQuiet
<1> QED
  BY <1>1, <1>3, <1>4, <1>5, <1>6, <1>7, <1>8, <1>9, <1>10, <1>11, <1>12, <1>14,
     <1>15, <1>16, <1>17 DEF Next, Serve, Answer, Refresh

(* A tab is refused only a token it has not rotated itself, or one whose   *)
(* answer was lost: the one refresh at a time of client.ts is enough for   *)
(* the rotation of refresh_token.py, whatever other tabs, sign-ins and     *)
(* sign-outs do to the cookies they share.                                 *)
THEOREM OwnRotationIsAccepted == Spec => []OwnRotationAccepted
<1>1. Init => Own
  BY OwnInit
<1>2. Lock /\ Own /\ [Next]_vars => Own'
  BY OwnStep
<1>3. Lock /\ Own => OwnRotationAccepted
  <2> SUFFICES ASSUME Lock, Own, NEW t \in Tabs, refresh[t].phase = "refused",
                      <<t, refresh[t].token>> \in rotatedBy
               PROVE  refresh[t].token \in lost
    BY DEF OwnRotationAccepted
  <2>1. refresh[t].token \in Nat
    BY DEF Lock, Types, RefreshRec
  <2> QED
    BY <2>1 DEF Own, Spent, Renewing, Gone
<1> QED
  BY <1>1, <1>2, <1>3, LockInvariant, PTL DEF Spec

=============================================================================
