-------------------------------- MODULE Inbox --------------------------------
(* The customer's message inbox: the query cache of the web page, the server *)
(* sent events that tell it to refetch, the REST recovery it falls back on   *)
(* (src/frontend useCustomerMessaging.ts), and the backend's dispatcher and  *)
(* bounded subscriber queues (sse_manager.py, nats_messaging_runtime.py).    *)
(*                                                                           *)
(* Every committed change of the inbox is a version, and is about one        *)
(* conversation or notification; a hint says that a version was committed    *)
(* and carries no data.  The page has up to three queries mounted: the lists *)
(* of conversations and of notifications, and the open conversation.         *)
EXTENDS Naturals, Sequences, FiniteSets

CONSTANTS
    Others,       \* conversations other than the open one
    Notifications,
    Pages,        \* the sets of queries a page may have mounted
    MaxVersion,   \* bound on the changes committed
    Cached,       \* the sets of queries a page may start with an answer of
    QueueSize,    \* messaging_realtime_queue_size
    MaxUpsets     \* bound on broken streams, failed calls, offline spells and
                  \* clicks on the refresh button

Open    == "open"
Items   == {Open} \cup Others \cup Notifications
Queries == {"conversations", "detail", "notifications"}
Lists   == {"conversations", "notifications"}

(* What query q shows.                                                       *)
Scope(q) == CASE q = "conversations" -> {Open} \cup Others
              [] q = "detail"        -> {Open}
              [] q = "notifications" -> Notifications

ASSUME InboxAssumption ==
    /\ Pages \subseteq SUBSET Queries
    /\ MaxVersion \in Nat \ {0}
    /\ Cached \subseteq SUBSET Queries
    /\ QueueSize \in Nat \ {0}
    /\ MaxUpsets \in Nat

VARIABLES
    about,       \* the changes committed by the backend: what each is about
    undelivered, \* changes whose event is in the outbox or in the broker
    stream,      \* server side of the event stream: phase and queue
    overflowed,  \* changes pushed out of the queue and not yet announced
    online,      \* navigator.onLine
    status,      \* what the page says of the connection
    sync,        \* sync[c]: the REST recovery in flight, automatic or manual
    mounted,     \* the queries of the page
    view,        \* view[q]: the set of changes the cached answer shows
    loaded,      \* queries whose cache entry holds data
    fetch,       \* fetch[q]: the request behind query q
    told,        \* told[q]: the latest version q was told to refetch for
    missed,      \* missed[q]: changes q was told of in vain (history)
    mutation,    \* the write of the customer in flight
    upsets       \* how many so far

serverVars == <<about, undelivered>>
cacheVars  == <<mounted, view, loaded, fetch, told, missed>>
vars == <<about, undelivered, stream, overflowed, online, status, sync,
          mounted, view, loaded, fetch, told, missed, mutation, upsets>>

Calls    == {"auto", "manual"}
Statuses == {"connecting", "connected", "syncing", "reconnecting", "offline"}
SyncRequired == 0                 \* the sync_required event; hints are >= 1
version  == Len(about)

(* What an answer for q shows that was read when there were v changes.       *)
Answer(q, v) == {u \in 1..v : about[u] \in Scope(q)}

NoSync   == [phase |-> "none", at |-> 0, awaits |-> {}]
Stopped(p) == [phase |-> p, queue |-> <<>>]
Idle     == [phase |-> "none", at |-> 0]
Sent     == [phase |-> "sent", at |-> 0]
NoMutation == [kind |-> "none", at |-> 0]

(* The page opens on an inbox with one change, its queries answered or still *)
(* on their way.                                                             *)
Init ==
    /\ mounted \in Pages
    /\ \E i \in Items : about = <<i>> /\ ("detail" \in mounted => i = Open)
    /\ undelivered = {}
    /\ stream = Stopped("down")
    /\ overflowed = {}
    /\ online = TRUE
    /\ status = "connecting"
    /\ sync = [c \in Calls |-> NoSync]
    /\ \E c \in Cached : loaded = c \cap mounted
    /\ view = [q \in Queries |-> IF q \in loaded THEN Answer(q, 1) ELSE {}]
    /\ fetch = [q \in Queries |-> IF q \in mounted \ loaded THEN Sent ELSE Idle]
    /\ told = [q \in Queries |-> 0]
    /\ missed = [q \in Queries |-> {}]
    /\ mutation = NoMutation
    /\ upsets = 0

(* The backend.                                                              *)
Commit(i) ==
    /\ version < MaxVersion
    /\ about' = Append(about, i)
    /\ undelivered' = undelivered \cup {version + 1}

(* A member of staff writes, a notification is created, ...: something the   *)
(* page shows changes.                                                       *)
Change ==
    /\ \E i \in UNION {Scope(q) : q \in mounted} : Commit(i)
    /\ UNCHANGED <<stream, overflowed, online, status, sync, cacheVars, mutation, upsets>>

(* Variant: the oldest event makes room for the newest, silently.            *)
EnqueuedSilently(queue, e) ==
    IF Len(queue) < QueueSize THEN Append(queue, e) ELSE Append(Tail(queue), e)

(* Variant: sync_required is put without making room.                        *)
EnqueuedBeyond(queue, e) ==
    IF Len(queue) < QueueSize THEN Append(queue, e) ELSE Append(queue, SyncRequired)

(* broadcast_event: a full queue loses its oldest entry and, instead of the  *)
(* event, gets sync_required.                                                *)
Enqueued(queue, e) ==
    IF Len(queue) < QueueSize THEN Append(queue, e)
    ELSE Append(Tail(queue), SyncRequired)

(* The dispatcher hands an event to the queue of the customer's stream, and  *)
(* to nobody when no stream is subscribed.  Events come in any order.        *)
Dispatch ==
    \E e \in undelivered :
        /\ undelivered' = undelivered \ {e}
        /\ IF stream.phase = "open"
           THEN /\ stream' = [stream EXCEPT !.queue = Enqueued(@, e)]
                /\ overflowed' = IF Len(stream.queue) < QueueSize THEN overflowed
                                 ELSE overflowed \cup ({Head(stream.queue), e} \ {SyncRequired})
           ELSE UNCHANGED <<stream, overflowed>>
        /\ UNCHANGED <<about, online, status, sync, cacheVars, mutation, upsets>>

(* The event stream: the generator yields "connected" first, and subscribes  *)
(* when the response asks for the next chunk.  The page shows "connected"    *)
(* and fetches nothing.                                                      *)
Connect ==
    /\ stream.phase = "down"
    /\ online
    /\ stream' = [stream EXCEPT !.phase = "greeted"]
    /\ status' = "connected"
    /\ UNCHANGED <<serverVars, overflowed, online, sync, cacheVars, mutation, upsets>>

Subscribe ==
    /\ stream.phase = "greeted"
    /\ stream' = [stream EXCEPT !.phase = "open"]
    /\ UNCHANGED <<serverVars, overflowed, online, status, sync, cacheVars, mutation, upsets>>

(* Variant: a refetch is only started for an idle query (cancelRefetch off). *)
RestartedIfIdle(data) == {q \in Queries : fetch[q].phase \in {"none", "failed"}}

(* invalidateQueries: react-query cancels the fetch of a query that has data *)
(* and starts it again (who waits for the old one waits for the new one); a  *)
(* first load goes on as it is.                                              *)
Restarted(data) == {q \in Queries : q \in data \/ fetch[q].phase \in {"none", "failed"}}

(* What a first load that has read already will not show of the changes up   *)
(* to v.                                                                     *)
TooLateFor(q, data, v) ==
    IF q \notin data /\ fetch[q].phase = "read"
    THEN {u \in Answer(q, v) : u > fetch[q].at} ELSE {}

(* The queries qs are invalidated, because of version v.                     *)
Invalidate(qs, data, v) ==
    /\ fetch' = [q \in Queries |->
          IF q \in qs \cap mounted \cap Restarted(data) THEN Sent ELSE fetch[q]]
    /\ told' = [q \in Queries |-> IF q \in qs \cap mounted /\ v > told[q] THEN v ELSE told[q]]
    /\ missed' = [q \in Queries |->
          IF q \in qs \cap mounted THEN missed[q] \cup TooLateFor(q, data, v) ELSE missed[q]]
    /\ UNCHANGED mounted

(* recoverFromRest, from its call to its await.                              *)
Recover ==
    IF sync["auto"].phase = "none"
    THEN /\ sync' = [sync EXCEPT !["auto"] = [phase |-> "asked", at |-> 0, awaits |-> {}]]
         /\ status' = IF online' THEN "syncing" ELSE "offline"
    ELSE UNCHANGED <<sync, status>>

(* The page hears a hint: it refetches everything.                           *)
HearHint ==
    /\ stream.phase = "open"
    /\ stream.queue # <<>>
    /\ Head(stream.queue) # SyncRequired
    /\ Invalidate(Queries, loaded, Head(stream.queue))
    /\ stream' = [stream EXCEPT !.queue = Tail(@)]
    /\ UNCHANGED <<serverVars, overflowed, online, status, sync, view, loaded, mutation, upsets>>

HearSyncRequired ==
    /\ stream.phase = "open"
    /\ stream.queue # <<>>
    /\ Head(stream.queue) = SyncRequired
    /\ stream' = [stream EXCEPT !.queue = Tail(@)]
    /\ overflowed' = IF \E i \in 2..Len(stream.queue) : stream.queue[i] = SyncRequired
                     THEN overflowed ELSE {}
    /\ UNCHANGED online
    /\ Recover
    /\ UNCHANGED <<serverVars, cacheVars, mutation, upsets>>

(* The stream breaks with what was in its queue, or an attempt to connect    *)
(* fails.  The error handler tells the page and recovers.  EventSource goes  *)
(* on connecting by itself, but not after an answer other than 200.          *)
Break ==
    /\ stream.phase # "closed"
    /\ upsets < MaxUpsets
    /\ upsets' = upsets + 1
    /\ \/ stream' = Stopped("down")
       \/ stream.phase = "down" /\ stream' = Stopped("closed")
    /\ overflowed' = {}
    /\ UNCHANGED online
    /\ IF sync["auto"].phase = "none" THEN Recover
       ELSE /\ status' = IF online THEN "reconnecting" ELSE "offline"
            /\ UNCHANGED sync
    /\ UNCHANGED <<serverVars, cacheVars, mutation>>

(* navigator.onLine and its two events.                                      *)
GoOffline ==
    /\ online
    /\ upsets < MaxUpsets
    /\ upsets' = upsets + 1
    /\ online' = FALSE
    /\ status' = "offline"
    /\ UNCHANGED <<serverVars, stream, overflowed, sync, cacheVars, mutation>>

GoOnline ==
    /\ ~online
    /\ online' = TRUE
    /\ Recover
    /\ UNCHANGED <<serverVars, stream, overflowed, cacheVars, mutation, upsets>>

(* The refresh button refetches the lists and starts a recovery of its own.  *)
RecoverByHand ==
    /\ sync["manual"].phase = "none"
    /\ upsets < MaxUpsets
    /\ upsets' = upsets + 1
    /\ sync' = [sync EXCEPT !["manual"].phase = "asked"]
    /\ Invalidate(Lists, loaded, 0)
    /\ UNCHANGED <<serverVars, stream, overflowed, online, status, view, loaded, mutation>>

(* GET /realtime/sync reads a snapshot, whatever cursor it is given.         *)
SyncRead(c) ==
    /\ sync[c].phase = "asked"
    /\ sync' = [sync EXCEPT ![c] = [@ EXCEPT !.phase = "answered", !.at = version]]
    /\ UNCHANGED <<serverVars, stream, overflowed, online, status, cacheVars, mutation, upsets>>

(* updateMessagingCachesFromSync puts the conversations and notifications of *)
(* the snapshot in the cached lists (no messages: the backend sends none);   *)
(* no list is made of an empty snapshot.  Then everything is refetched and   *)
(* the call waits for that.                                                  *)
SyncArrives(c) ==
    LET lists == {q \in Lists \cap mounted : q \in loaded \/ Answer(q, sync[c].at) # {}}
    IN  /\ sync[c].phase = "answered"
        /\ view' = [q \in Queries |-> IF q \in lists THEN Answer(q, sync[c].at) ELSE view[q]]
        /\ loaded' = loaded \cup lists
        /\ Invalidate(Queries, loaded', sync[c].at)
        /\ sync' = [sync EXCEPT ![c] = [phase |-> "refetching", at |-> 0, awaits |-> mounted]]
        /\ UNCHANGED <<serverVars, stream, overflowed, online, status, mutation, upsets>>

(* Variant: the finally block is gone from the way out of a success.         *)
SyncEndsHeld(c) ==
    /\ sync[c].phase = "refetching"
    /\ sync[c].awaits = {}
    /\ UNCHANGED sync
    /\ status' = "connected"
    /\ UNCHANGED <<serverVars, stream, overflowed, online, cacheVars, mutation, upsets>>

SyncEnds(c) ==
    /\ sync[c].phase = "refetching"
    /\ sync[c].awaits = {}
    /\ sync' = [sync EXCEPT ![c] = NoSync]
    /\ status' = "connected"
    /\ UNCHANGED <<serverVars, stream, overflowed, online, cacheVars, mutation, upsets>>

(* Variant: the catch block without its setStatus.                           *)
SyncFailsSilently(c) ==
    /\ sync[c].phase \in {"asked", "answered"}
    /\ upsets < MaxUpsets
    /\ upsets' = upsets + 1
    /\ sync' = [sync EXCEPT ![c] = NoSync]
    /\ UNCHANGED status
    /\ UNCHANGED <<serverVars, stream, overflowed, online, cacheVars, mutation>>

(* The recovery fails; the manual one leaves the status as it is.            *)
SyncFails(c) ==
    /\ sync[c].phase \in {"asked", "answered"}
    /\ upsets < MaxUpsets
    /\ upsets' = upsets + 1
    /\ sync' = [sync EXCEPT ![c] = NoSync]
    /\ status' = IF c = "manual" THEN status
                 ELSE IF online THEN "reconnecting" ELSE "offline"
    /\ UNCHANGED <<serverVars, stream, overflowed, online, cacheVars, mutation>>

(* A query's request reads the database, and its answer replaces the cache.  *)
FetchRead(q) ==
    /\ fetch[q].phase = "sent"
    /\ fetch' = [fetch EXCEPT ![q] = [phase |-> "read", at |-> version]]
    /\ UNCHANGED <<serverVars, stream, overflowed, online, status, sync, mounted, view,
                   loaded, told, missed, mutation, upsets>>

Awaited(q) == [c \in Calls |-> [sync[c] EXCEPT !.awaits = @ \ {q}]]

FetchArrives(q) ==
    /\ fetch[q].phase = "read"
    /\ view' = [view EXCEPT ![q] = Answer(q, fetch[q].at)]
    /\ missed' = [missed EXCEPT ![q] = @ \ Answer(q, fetch[q].at)]
    /\ loaded' = loaded \cup {q}
    /\ fetch' = [fetch EXCEPT ![q] = Idle]
    /\ sync' = Awaited(q)
    /\ UNCHANGED <<serverVars, stream, overflowed, online, status, mounted, told,
                   mutation, upsets>>

(* The retries of shouldRetryQuery are used up: the query shows an error.    *)
FetchFails(q) ==
    /\ fetch[q].phase \in {"sent", "read"}
    /\ upsets < MaxUpsets
    /\ upsets' = upsets + 1
    /\ fetch' = [fetch EXCEPT ![q] = [phase |-> "failed", at |-> 0]]
    /\ sync' = Awaited(q)
    /\ UNCHANGED <<serverVars, stream, overflowed, online, status, mounted, view, loaded,
                   told, missed, mutation>>

(* The customer replies in the open conversation, or it is marked as read.   *)
Write(kind) ==
    /\ mutation = NoMutation
    /\ "detail" \in mounted
    /\ Commit(Open)
    /\ mutation' = [kind |-> kind, at |-> version + 1]
    /\ UNCHANGED <<stream, overflowed, online, status, sync, cacheVars, upsets>>

(* The customer marks notification n as read, or dismisses it.               *)
Click(n) ==
    /\ mutation = NoMutation
    /\ "notifications" \in mounted
    /\ Commit(n)
    /\ mutation' = [kind |-> "click", at |-> version + 1]
    /\ UNCHANGED <<stream, overflowed, online, status, sync, cacheVars, upsets>>

(* The changes of the item that the mutation was about, and those up to it.  *)
OfItem    == {u \in 1..version : about[u] = about[mutation.at]}
AsOfWrite == {u \in OfItem : u <= mutation.at}

(* What a merge leaves out of what query q was told of: changes of the item  *)
(* after the write, and those only the error of a failed fetch stood for.    *)
LostByMerge(q) ==
    (view[q] \cap (OfItem \ AsOfWrite))
        \cup (IF fetch[q].phase = "failed" THEN Answer(q, told[q]) \ view[q] ELSE {})

(* setQueriesData: the item as of the write replaces the one in a list, and  *)
(* makes a list of its own if there is none; the message of a reply joins    *)
(* the conversation.  No fetch is started or stopped, and the error of a     *)
(* failed one is gone.                                                       *)
Merge(qs) ==
    /\ view' = [q \in Queries |->
          IF q \notin qs THEN view[q]
          ELSE IF q \in Lists THEN (view[q] \ OfItem) \cup AsOfWrite
          ELSE view[q] \cup {mutation.at}]
    /\ loaded' = loaded \cup qs
    /\ fetch' = [q \in Queries |->
          IF q \in qs /\ fetch[q].phase = "failed" THEN Idle ELSE fetch[q]]
    /\ missed' = [q \in Queries |->
          IF q \in qs THEN missed[q] \cup LostByMerge(q) ELSE missed[q]]
    /\ mutation' = NoMutation
    /\ UNCHANGED <<serverVars, stream, overflowed, online, status, sync, mounted, told, upsets>>

(* onSuccess of the reply: the open conversation, if it is loaded, and its   *)
(* summary in the list.                                                      *)
ReplySucceeds ==
    /\ mutation.kind = "reply"
    /\ Merge(({"conversations"} \cap mounted) \cup ({"detail"} \cap loaded))

(* onSuccess of a click on a notification.                                   *)
ClickSucceeds ==
    /\ mutation.kind = "click"
    /\ Merge({"notifications"})

(* onSuccess of mark-as-read: the conversations are fetched again.           *)
MarkReadSucceeds ==
    /\ mutation.kind = "markRead"
    /\ Invalidate({"conversations"}, loaded, mutation.at)
    /\ mutation' = NoMutation
    /\ UNCHANGED <<serverVars, stream, overflowed, online, status, sync, view, loaded, upsets>>

(* The answer of a write is lost.                                            *)
WriteFails ==
    /\ mutation # NoMutation
    /\ upsets < MaxUpsets
    /\ upsets' = upsets + 1
    /\ mutation' = NoMutation
    /\ UNCHANGED <<serverVars, stream, overflowed, online, status, sync, cacheVars>>

Call(c)  == SyncRead(c) \/ SyncArrives(c) \/ SyncEnds(c) \/ SyncFails(c)
Fetch(q) == FetchRead(q) \/ FetchArrives(q) \/ FetchFails(q)
Hear     == HearHint \/ HearSyncRequired
Answered == ReplySucceeds \/ ClickSucceeds \/ MarkReadSucceeds
Mutation ==
    \/ \E k \in {"reply", "markRead"} : Write(k)
    \/ \E n \in Notifications : Click(n)
    \/ Answered \/ WriteFails

Next ==
    \/ Change \/ Dispatch
    \/ Connect \/ Subscribe \/ Hear \/ Break \/ GoOffline \/ GoOnline
    \/ RecoverByHand \/ \E c \in Calls : Call(c)
    \/ \E q \in Queries : Fetch(q)
    \/ Mutation

(* Calls are answered or time out.                                           *)
Fairness ==
    /\ \A c \in Calls : WF_vars(Call(c))
    /\ \A q \in Queries : WF_vars(Fetch(q))

Spec == Init /\ [][Next]_vars /\ Fairness

-----------------------------------------------------------------------------
(* Type invariant.                                                           *)
TypeOK ==
    /\ about \in Seq(Items) /\ version \in 1..MaxVersion
    /\ undelivered \subseteq 1..MaxVersion
    /\ stream \in [phase : {"down", "greeted", "open", "closed"}, queue : Seq(0..MaxVersion)]
    /\ Len(stream.queue) <= QueueSize
    /\ overflowed \subseteq 1..MaxVersion
    /\ online \in BOOLEAN
    /\ status \in Statuses
    /\ sync \in [Calls -> [phase : {"none", "asked", "answered", "refetching"},
                           at : 0..MaxVersion, awaits : SUBSET Queries]]
    /\ mounted \subseteq Queries
    /\ view \in [Queries -> SUBSET (1..MaxVersion)]
    /\ loaded \subseteq Queries
    /\ fetch \in [Queries -> [phase : {"none", "sent", "read", "failed"}, at : 0..MaxVersion]]
    /\ told \in [Queries -> 0..MaxVersion]
    /\ missed \in [Queries -> SUBSET (1..MaxVersion)]
    /\ mutation \in [kind : {"none", "reply", "markRead", "click"}, at : 0..MaxVersion]
    /\ upsets \in 0..MaxUpsets

(* Query q shows change u, or is about to: its request has not read the      *)
(* database yet or has read late enough.  A failed one says so.              *)
Shows(q, u) ==
    \/ u \in view[q]
    \/ fetch[q].phase \in {"sent", "failed"}
    \/ fetch[q].phase = "read" /\ fetch[q].at >= u

(* A change the page was told of, by a hint, a recovery or its own write, is *)
(* shown or is being fetched, whatever fetches, recoveries and writes        *)
(* overlap (useCustomerMessaging.ts).  The code makes two exceptions, which  *)
(* "missed" records until an answer shows the change: a first load that had  *)
(* read already is not repeated, and the merge of a write's answer puts back *)
(* an older item and hides a failed fetch.                                   *)
ToldIsShown ==
    \A q \in mounted : \A u \in Answer(q, told[q]) \ missed[q] : Shows(q, u)

(* An overflow is announced: while a change pushed out of the queue has not  *)
(* been made up for, a sync_required is waiting in it (broadcast_event).     *)
OverflowIsAnnounced ==
    overflowed # {} => \E i \in 1..Len(stream.queue) : stream.queue[i] = SyncRequired

(* A page that says it is restoring is doing so: the recovery it announced   *)
(* is still in flight (recoverFromRest sets and leaves "syncing").           *)
SyncingIsTrue == status = "syncing" => sync["auto"].phase # "none"

(* A recovery comes to an end and frees the guard for the next one, however  *)
(* many hints restart the fetches it waits for (recoverFromRest, finally).   *)
RecoveriesEnd == \A c \in Calls : (sync[c].phase # "none") ~> (sync[c].phase = "none")

=============================================================================
