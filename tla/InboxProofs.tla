----------------------------- MODULE InboxProofs -----------------------------
(***************************************************************************)
(* Theorems about Inbox, for every number of changes and upsets and every  *)
(* capacity of the subscriber's queue: whatever hints, recoveries, fetches *)
(* and mutations overlap, the page shows, is fetching or reports as failed *)
(* what it was told of, and an overflow of its queue is announced.         *)
(***************************************************************************)
EXTENDS Inbox, TLAPS

-----------------------------------------------------------------------------
(* The inductive invariant.                                                *)

\* Whatever names a change names one that was committed.
Known ==
  /\ undelivered \subseteq 1..version
  /\ \A i \in 1..Len(stream.queue) : stream.queue[i] <= version
  /\ \A c \in Calls : sync[c].at <= version
  /\ \A q \in Queries : told[q] <= version /\ fetch[q].at <= version
  /\ mutation.at <= version /\ (mutation.kind = "none" \/ mutation.at > 0)

\* What a query was told of and has not missed is in the answer on its way,
\* or is shown if nothing is on its way.
Fetched ==
  \A q \in Queries : \A u \in Answer(q, told[q]) \ missed[q] :
    /\ fetch[q].phase = "read" => u <= fetch[q].at
    /\ fetch[q].phase = "none" => u \in view[q]

\* The types, named.
Version   == 0..MaxVersion
StreamRec == [phase : {"down", "greeted", "open", "closed"}, queue : Seq(Version)]
SyncRec   == [phase : {"none", "asked", "answered", "refetching"},
              at : Version, awaits : SUBSET Queries]
FetchRec  == [phase : {"none", "sent", "read", "failed"}, at : Version]
MutationRec == [kind : {"none", "reply", "markRead", "click"}, at : Version]

\* TypeOK, with its parts named.
ServerTypes == about \in Seq(Items) /\ version \in 1..MaxVersion /\ undelivered \subseteq 1..MaxVersion
StreamTypes == stream \in StreamRec /\ Len(stream.queue) <= QueueSize
CacheTypes  == /\ mounted \subseteq Queries
               /\ view \in [Queries -> SUBSET (1..MaxVersion)]
               /\ loaded \subseteq Queries
               /\ fetch \in [Queries -> FetchRec]
               /\ told \in [Queries -> Version]
               /\ missed \in [Queries -> SUBSET (1..MaxVersion)]
Types ==
  /\ ServerTypes /\ StreamTypes /\ CacheTypes
  /\ overflowed \subseteq 1..MaxVersion
  /\ online \in BOOLEAN
  /\ status \in Statuses
  /\ sync \in [Calls -> SyncRec]
  /\ mutation \in MutationRec
  /\ upsets \in 0..MaxUpsets

\* An inductive invariant.
IInv == Types /\ Known /\ Fetched /\ OverflowIsAnnounced /\ SyncingIsTrue

\* The named parts are the type invariant of the model.
LEMMA TypesIsTypeOK == TypeOK <=> Types
  BY DEF TypeOK, Types, ServerTypes, StreamTypes, CacheTypes, Version, StreamRec, SyncRec,
     FetchRec, MutationRec

\* An answer shows changes.
LEMMA AnswerType == \A q : \A v \in Version : Answer(q, v) \subseteq 1..MaxVersion
  BY InboxAssumption DEF Answer, Version

\* The initial records have their types.
LEMMA Records ==
  /\ \A p \in {"down", "closed"} : Stopped(p) \in StreamRec /\ Stopped(p).queue = <<>>
  /\ NoSync \in SyncRec /\ NoSync.phase = "none" /\ NoSync.at = 0
  /\ Idle \in FetchRec /\ Idle.phase = "none" /\ Idle.at = 0
  /\ Sent \in FetchRec /\ Sent.phase = "sent" /\ Sent.at = 0
  /\ NoMutation \in MutationRec /\ NoMutation.kind = "none" /\ NoMutation.at = 0
<1>1. <<>> \in Seq(Version) /\ 0 \in Version
  BY InboxAssumption DEF Version
<1> QED
  BY <1>1 DEF Stopped, NoSync, Idle, Sent, NoMutation, StreamRec, SyncRec, FetchRec, MutationRec

-----------------------------------------------------------------------------
(* What the parts of the actions do.                                       *)

\* A commit names the next change, and says what it is about.
LEMMA Committed ==
  ASSUME Types, Known, NEW i \in Items, Commit(i)
  PROVE  /\ ServerTypes' /\ version' = version + 1 /\ version' \in Version
         /\ undelivered' \subseteq 1..version'
         /\ \A u \in 1..version : about'[u] = about[u]
<1>1. /\ about \in Seq(Items) /\ version \in 1..MaxVersion /\ version < MaxVersion
      /\ undelivered \subseteq 1..version /\ about' = Append(about, i)
      /\ undelivered' = undelivered \cup {version + 1}
  BY DEF Types, Known, ServerTypes, Commit
<1>2. about' \in Seq(Items) /\ version' = version + 1 /\ \A u \in 1..version : about'[u] = about[u]
  BY <1>1 DEF version
<1>3. version' \in 1..MaxVersion /\ version' \in Version
  BY <1>1, <1>2, InboxAssumption DEF Version
<1>4. undelivered' \subseteq 1..version' /\ undelivered' \subseteq 1..MaxVersion
  <2>1. \A u \in undelivered' : u \in 1..version \/ u = version + 1
    BY <1>1
  <2> QED
    BY <1>1, <1>2, <2>1, InboxAssumption
<1> QED
  BY <1>2, <1>3, <1>4 DEF ServerTypes

\* A queue entry is taken from the front.
LEMMA Taken ==
  ASSUME Types, stream.queue # <<>>, stream' = [stream EXCEPT !.queue = Tail(@)]
  PROVE  /\ StreamTypes'
         /\ Head(stream.queue) \in Version /\ Head(stream.queue) = stream.queue[1]
         /\ Len(stream'.queue) = Len(stream.queue) - 1
         /\ \A i \in 1..Len(stream'.queue) : stream'.queue[i] = stream.queue[i + 1]
<1> DEFINE q == stream.queue
<1>1. q \in Seq(Version) /\ q # <<>> /\ Len(q) <= QueueSize
  BY DEF Types, StreamTypes, StreamRec
<1>2. stream' \in [phase : {"down", "greeted", "open", "closed"}, queue : {Tail(q)}]
      /\ stream'.queue = Tail(q)
  BY DEF Types, StreamTypes, StreamRec
<1> HIDE DEF q
<1>3. /\ Tail(q) \in Seq(Version) /\ Len(Tail(q)) = Len(q) - 1 /\ Len(q) \in Nat \ {0}
      /\ Head(q) \in Version /\ Head(q) = q[1]
      /\ \A i \in 1..Len(Tail(q)) : Tail(q)[i] = q[i + 1]
  BY <1>1
<1>4. stream' \in StreamRec
  BY <1>2, <1>3 DEF StreamRec
<1>5. Len(stream'.queue) <= QueueSize
  BY <1>1, <1>2, <1>3, InboxAssumption
<1>6. StreamTypes'
  BY <1>4, <1>5 DEF StreamTypes
<1> QED
  BY <1>2, <1>3, <1>6 DEF q

\* An entry is put at the end, in place of the oldest one if need be.
LEMMA Put ==
  ASSUME NEW q \in Seq(Version), Len(q) <= QueueSize, NEW e \in Version
  PROVE  /\ Enqueued(q, e) \in Seq(Version) /\ Len(Enqueued(q, e)) <= QueueSize
         /\ Len(q) < QueueSize =>
               /\ Len(Enqueued(q, e)) = Len(q) + 1
               /\ \A i \in 1..Len(q) : Enqueued(q, e)[i] = q[i]
               /\ Enqueued(q, e)[Len(q) + 1] = e
         /\ ~(Len(q) < QueueSize) =>
               /\ q # <<>> /\ Head(q) \in Version
               /\ Len(Enqueued(q, e)) = Len(q)
               /\ \A i \in 1..Len(q) - 1 : Enqueued(q, e)[i] = q[i + 1]
               /\ Enqueued(q, e)[Len(q)] = SyncRequired
<1>1. CASE Len(q) < QueueSize
  <2>1. Enqueued(q, e) = Append(q, e)
    BY <1>1 DEF Enqueued
  <2> QED
    BY <1>1, <2>1, InboxAssumption
<1>2. CASE ~(Len(q) < QueueSize)
  <2>1. Enqueued(q, e) = Append(Tail(q), SyncRequired)
    BY <1>2 DEF Enqueued
  <2>2. q # <<>> /\ Len(q) = QueueSize /\ SyncRequired \in Version
    BY <1>2, InboxAssumption DEF SyncRequired, Version
  <2>3. /\ Head(q) \in Version
        /\ Tail(q) \in Seq(Version) /\ Len(Tail(q)) = Len(q) - 1 /\ Len(q) \in Nat \ {0}
        /\ \A i \in 1..Len(Tail(q)) : Tail(q)[i] = q[i + 1]
    BY <2>2
  <2> DEFINE u == Tail(q)
  <2> HIDE DEF u
  <2>4. /\ Append(u, SyncRequired) \in Seq(Version)
        /\ Len(Append(u, SyncRequired)) = Len(u) + 1
        /\ \A i \in 1..Len(u) : Append(u, SyncRequired)[i] = u[i]
        /\ Append(u, SyncRequired)[Len(u) + 1] = SyncRequired
    BY <2>2, <2>3 DEF u
  <2> QED
    BY <1>2, <2>1, <2>2, <2>3, <2>4 DEF u
<1> QED
  BY <1>1, <1>2

\* Queries are told of a version and fetched again.
LEMMA Invalidated ==
  ASSUME Types, Known, Fetched, NEW qs, NEW data, NEW v \in Version, v <= version,
         Invalidate(qs, data, v), about' = about
  PROVE  /\ fetch' \in [Queries -> FetchRec] /\ told' \in [Queries -> Version]
         /\ missed' \in [Queries -> SUBSET (1..MaxVersion)] /\ mounted' \subseteq Queries
         /\ \A q \in Queries :
               /\ told'[q] <= version /\ fetch'[q].at <= version
               /\ fetch'[q].phase = "read" =>
                     \A u \in Answer(q, told'[q]) \ missed'[q] : u <= fetch'[q].at
               /\ fetch'[q].phase = "none" =>
                     /\ fetch[q].phase = "none" /\ q \notin qs \cap mounted
                     /\ told'[q] = told[q] /\ missed'[q] = missed[q]
<1>1. /\ fetch \in [Queries -> FetchRec] /\ told \in [Queries -> Version]
      /\ missed \in [Queries -> SUBSET (1..MaxVersion)] /\ mounted \subseteq Queries
      /\ version \in Nat /\ Sent \in FetchRec /\ Sent.phase = "sent" /\ Sent.at = 0
      /\ Version \subseteq Nat
  BY Records DEF Types, CacheTypes, ServerTypes, Version
<1>2. \A q \in Queries : fetch'[q] = IF q \in qs \cap mounted \cap Restarted(data)
                                     THEN Sent ELSE fetch[q]
  BY DEF Invalidate
<1>3. \A q \in Queries : told'[q] = IF q \in qs \cap mounted /\ v > told[q] THEN v ELSE told[q]
  BY DEF Invalidate
<1>4. \A q \in Queries : missed'[q] = IF q \in qs \cap mounted
                                      THEN missed[q] \cup TooLateFor(q, data, v) ELSE missed[q]
  BY DEF Invalidate
<1>5. \A q \in Queries : TooLateFor(q, data, v) \subseteq 1..MaxVersion
  BY AnswerType DEF TooLateFor
<1>6. fetch' \in [Queries -> FetchRec] /\ told' \in [Queries -> Version]
  BY <1>1 DEF Invalidate
<1>7. missed' \in [Queries -> SUBSET (1..MaxVersion)]
  BY <1>1, <1>5 DEF Invalidate
<1>8. ASSUME NEW q \in Queries
      PROVE  /\ told'[q] <= version /\ fetch'[q].at <= version
             /\ fetch'[q].phase = "read" =>
                   \A u \in Answer(q, told'[q]) \ missed'[q] : u <= fetch'[q].at
             /\ fetch'[q].phase = "none" =>
                   /\ fetch[q].phase = "none" /\ q \notin qs \cap mounted
                   /\ told'[q] = told[q] /\ missed'[q] = missed[q]
  <2>1. /\ told[q] <= version /\ fetch[q].at <= version /\ fetch[q].at \in Nat
        /\ fetch[q].phase = "read" =>
              \A u \in Answer(q, told[q]) \ missed[q] : u <= fetch[q].at
    BY <1>1, <1>8 DEF Known, Fetched, FetchRec
  <2>2. q \in Restarted(data) <=> q \in data \/ fetch[q].phase \in {"none", "failed"}
    BY <1>8 DEF Restarted
  <2>3. told'[q] <= version /\ fetch'[q].at <= version
    BY <1>1, <1>2, <1>3, <1>8, <2>1
  <2>4. CASE q \in qs \cap mounted \cap Restarted(data)
    BY <1>1, <1>2, <1>8, <2>3, <2>4
  <2>5. CASE q \notin qs \cap mounted
    BY <1>2, <1>3, <1>4, <1>8, <2>1, <2>3, <2>5
  <2>6. CASE q \in (qs \cap mounted) \ Restarted(data)
    <3>1. /\ fetch'[q] = fetch[q] /\ q \notin data /\ fetch[q].phase \notin {"none", "failed"}
          /\ told'[q] \in {v, told[q]}
          /\ missed'[q] = missed[q] \cup TooLateFor(q, data, v)
      BY <1>2, <1>3, <1>4, <1>8, <2>2, <2>6
    <3>2. ASSUME fetch'[q].phase = "read", NEW u \in Answer(q, told'[q]) \ missed'[q]
          PROVE  u <= fetch'[q].at
      <4>1. CASE told'[q] = told[q]
        BY <2>1, <3>1, <3>2, <4>1
      <4>2. CASE told'[q] = v
        <5>1. u \in Answer(q, v) /\ u \notin TooLateFor(q, data, v) /\ u \in Nat
          BY <1>1, <3>1, <3>2, <4>2 DEF Answer
        <5> QED
          BY <2>1, <3>1, <3>2, <5>1 DEF TooLateFor
      <4> QED
        BY <3>1, <4>1, <4>2
    <3> QED
      BY <2>3, <3>1, <3>2
  <2> QED
    BY <2>4, <2>5, <2>6
<1>9. mounted' \subseteq Queries
  BY <1>1 DEF Invalidate
<1> QED
  BY <1>6, <1>7, <1>8, <1>9

\* A recovery starts, unless one is under way.
LEMMA Recovered ==
  ASSUME Types, Known, SyncingIsTrue, Recover, online' \in BOOLEAN
  PROVE  /\ sync' \in [Calls -> SyncRec] /\ status' \in Statuses
         /\ \A c \in Calls : sync'[c].at <= version
         /\ SyncingIsTrue'
<1>1. [phase |-> "asked", at |-> 0, awaits |-> {}] \in SyncRec /\ version \in Nat
  BY InboxAssumption DEF SyncRec, Version, Types, ServerTypes
<1>2. CASE sync["auto"].phase = "none"
  <2> DEFINE asked == [phase |-> "asked", at |-> 0, awaits |-> {}]
  <2>1. /\ sync' = [sync EXCEPT !["auto"] = asked]
        /\ status' \in {"syncing", "offline"}
    BY <1>2 DEF Recover
  <2>2. /\ sync' \in [Calls -> SyncRec] /\ sync'["auto"] = asked
        /\ \A c \in Calls : sync'[c] \in {asked, sync[c]}
    BY <1>1, <2>1 DEF Types, Calls
  <2>3. 0 <= version /\ \A c \in Calls : sync[c].at <= version
    BY <1>1 DEF Known
  <2>4. \A c \in Calls : sync'[c].at <= version
    BY <2>2, <2>3
  <2> QED
    BY <2>1, <2>2, <2>4 DEF SyncingIsTrue, Statuses
<1>3. CASE sync["auto"].phase # "none"
  BY <1>3 DEF Recover, Types, Known, SyncingIsTrue
<1> QED
  BY <1>2, <1>3

\* A call that waits for query q no longer does.
LEMMA AwaitedType ==
  ASSUME Types, NEW q \in Queries
  PROVE  /\ Awaited(q) \in [Calls -> SyncRec]
         /\ \A c \in Calls : Awaited(q)[c].phase = sync[c].phase /\ Awaited(q)[c].at = sync[c].at
<1>1. \A c \in Calls : sync[c] \in SyncRec
  BY DEF Types
<1> QED
  BY <1>1 DEF Awaited, SyncRec

-----------------------------------------------------------------------------
(* The invariant.                                                          *)

\* The page opens with nothing told, heard or lost.
LEMMA InitIInv == Init => IInv
<1> SUFFICES ASSUME Init PROVE IInv
  OBVIOUS
<1> USE InboxAssumption, Records
<1>0. PICK i \in Items : about = <<i>>
  BY DEF Init
<1>1. /\ about \in Seq(Items) /\ version = 1
      /\ undelivered = {} /\ stream = Stopped("down") /\ overflowed = {}
      /\ \A c \in Calls : sync[c] = NoSync
      /\ \A q \in Queries : told[q] = 0 /\ fetch[q] \in {Idle, Sent}
      /\ mutation = NoMutation /\ status = "connecting"
      /\ mounted \subseteq Queries /\ loaded \subseteq Queries
  BY <1>0 DEF Init, version
<1>2. Types
  <2>1. ServerTypes /\ StreamTypes
    BY <1>1 DEF ServerTypes, StreamTypes
  <2>2. CacheTypes
    <3>1. view \in [Queries -> SUBSET (1..MaxVersion)]
      <4>1. \A q \in Queries : Answer(q, 1) \subseteq 1..MaxVersion
        BY DEF Answer
      <4> QED
        BY <4>1 DEF Init
    <3>2. fetch \in [Queries -> FetchRec]
      BY DEF Init
    <3>3. told \in [Queries -> Version]
      BY DEF Init, Version
    <3>4. missed \in [Queries -> SUBSET (1..MaxVersion)]
      BY DEF Init
    <3> QED
      BY <1>1, <3>1, <3>2, <3>3, <3>4 DEF CacheTypes
  <2>3. /\ overflowed \subseteq 1..MaxVersion /\ online \in BOOLEAN /\ status \in Statuses
        /\ sync \in [Calls -> SyncRec] /\ upsets \in 0..MaxUpsets
    BY DEF Init, Statuses
  <2>4. mutation \in MutationRec
    BY DEF Init, MutationRec, Version
  <2> QED
    BY <2>1, <2>2, <2>3, <2>4 DEF Types
<1>3. Known
  BY <1>1 DEF Known
<1>4. Fetched
  BY <1>1 DEF Fetched, Answer
<1>5. OverflowIsAnnounced /\ SyncingIsTrue
  BY <1>1 DEF OverflowIsAnnounced, SyncingIsTrue
<1> QED
  BY <1>2, <1>3, <1>4, <1>5 DEF IInv

\* A change is committed, with or without a mutation of the customer.
LEMMA CommitStep ==
  ASSUME IInv, NEW i \in Items, Commit(i),
         UNCHANGED <<stream, overflowed, online, status, sync, cacheVars, upsets>>,
         \/ UNCHANGED mutation
         \/ mutation' \in MutationRec /\ mutation'.at = version'
  PROVE  IInv'
<1>0. Types /\ Known /\ Fetched /\ OverflowIsAnnounced /\ SyncingIsTrue
  BY DEF IInv
<1>1. /\ ServerTypes' /\ version' = version + 1 /\ version' \in Version
      /\ undelivered' \subseteq 1..version'
      /\ \A u \in 1..version : about'[u] = about[u]
  BY <1>0, Committed
<1>2. Types'
  BY <1>0, <1>1 DEF Types, StreamTypes, CacheTypes, cacheVars
<1>3. Known'
  <2>1. /\ version \in Nat /\ version' = version + 1
        /\ \A c \in Calls : sync[c].at \in Nat
        /\ \A q \in Queries : told[q] \in Nat /\ fetch[q].at \in Nat
        /\ mutation.at \in Nat
        /\ \A k \in 1..Len(stream.queue) : stream.queue[k] \in Nat
    <3>1. version \in Nat /\ version' = version + 1
      BY <1>0, <1>1 DEF Types, ServerTypes
    <3>2. \A c \in Calls : sync[c].at \in Nat
      BY <1>0 DEF Types, SyncRec, Version
    <3>3. \A q \in Queries : told[q] \in Nat /\ fetch[q].at \in Nat
      BY <1>0 DEF Types, CacheTypes, FetchRec, Version
    <3>4. mutation.at \in Nat
      BY <1>0 DEF Types, MutationRec, Version
    <3>5. \A k \in 1..Len(stream.queue) : stream.queue[k] \in Nat
      <4>1. stream.queue \in Seq(Version) /\ Version \subseteq Nat
        BY <1>0 DEF Types, StreamTypes, StreamRec, Version
      <4>2. \A k \in 1..Len(stream.queue) : stream.queue[k] \in Version
        BY <4>1
      <4> QED
        BY <4>1, <4>2
    <3> QED
      BY <3>1, <3>2, <3>3, <3>4, <3>5
  <2>2. mutation'.at <= version' /\ (mutation'.kind = "none" \/ mutation'.at > 0)
    BY <1>0, <2>1 DEF Known
  <2> QED
    BY <1>0, <1>1, <2>1, <2>2 DEF Known, cacheVars
<1>4. Fetched'
  <2>1. \A q \in Queries : Answer(q, told[q])' \subseteq Answer(q, told[q])
    <3>1. \A q \in Queries : told'[q] = told[q] /\ told[q] <= version /\ told[q] \in Nat
      BY <1>0 DEF cacheVars, Known, Types, CacheTypes, Version
    <3>2. version \in Nat
      BY <1>0 DEF Types, ServerTypes
    <3> QED
      BY <1>1, <3>1, <3>2 DEF Answer
  <2> QED
    BY <1>0, <2>1 DEF Fetched, cacheVars
<1>5. OverflowIsAnnounced' /\ SyncingIsTrue'
  BY <1>0 DEF OverflowIsAnnounced, SyncingIsTrue
<1> QED
  BY <1>2, <1>3, <1>4, <1>5 DEF IInv

\* An event reaches the queue, or nobody.
LEMMA DispatchStep ==
  ASSUME IInv, Dispatch
  PROVE  IInv'
<1>0. Types /\ Known /\ Fetched /\ OverflowIsAnnounced /\ SyncingIsTrue
  BY DEF IInv
<1>1. PICK e \in undelivered :
        /\ undelivered' = undelivered \ {e}
        /\ IF stream.phase = "open"
           THEN /\ stream' = [stream EXCEPT !.queue = Enqueued(@, e)]
                /\ overflowed' = IF Len(stream.queue) < QueueSize THEN overflowed
                                 ELSE overflowed \cup ({Head(stream.queue), e} \ {SyncRequired})
           ELSE UNCHANGED <<stream, overflowed>>
        /\ UNCHANGED <<about, online, status, sync, cacheVars, mutation, upsets>>
  BY DEF Dispatch
<1>2. Fetched' /\ SyncingIsTrue'
  BY <1>0, <1>1 DEF Fetched, Answer, cacheVars, SyncingIsTrue
<1>3. /\ e \in 1..version /\ e \in Version /\ e # SyncRequired /\ version \in Nat
      /\ stream \in StreamRec /\ stream.queue \in Seq(Version) /\ Len(stream.queue) <= QueueSize
  <2>1. stream \in StreamRec /\ stream.queue \in Seq(Version) /\ Len(stream.queue) <= QueueSize
    BY <1>0 DEF Types, StreamTypes, StreamRec
  <2>2. version \in 1..MaxVersion /\ e \in 1..version
    BY <1>0 DEF Known, Types, ServerTypes
  <2>3. e \in Version /\ e # SyncRequired /\ version \in Nat
    BY <2>2, InboxAssumption DEF Version, SyncRequired
  <2> QED
    BY <2>1, <2>2, <2>3
<1>4. CASE stream.phase # "open"
  <2>1. Types'
    BY <1>0, <1>1, <1>4 DEF Types, ServerTypes, StreamTypes, CacheTypes, cacheVars, version
  <2>2. Known' /\ OverflowIsAnnounced'
    BY <1>0, <1>1, <1>4 DEF Known, cacheVars, OverflowIsAnnounced, version
  <2> QED
    BY <1>2, <2>1, <2>2 DEF IInv
<1>5. CASE stream.phase = "open"
  <2> DEFINE q == stream.queue
             p == stream'.queue
  <2>1. p = Enqueued(q, e) /\ stream' = [stream EXCEPT !.queue = p]
    BY <1>1, <1>3, <1>5 DEF StreamRec
  <2>2. /\ p \in Seq(Version) /\ Len(p) <= QueueSize
        /\ Len(q) < QueueSize =>
              /\ Len(p) = Len(q) + 1
              /\ \A i \in 1..Len(q) : p[i] = q[i]
              /\ p[Len(q) + 1] = e
        /\ ~(Len(q) < QueueSize) =>
              /\ q # <<>> /\ Head(q) \in Version
              /\ Len(p) = Len(q)
              /\ \A i \in 1..Len(q) - 1 : p[i] = q[i + 1]
              /\ p[Len(q)] = SyncRequired
    <3>1. q \in Seq(Version) /\ Len(q) <= QueueSize /\ e \in Version
      BY <1>3
    <3> HIDE DEF q, p
    <3> QED
      BY <2>1, <3>1, Put
  <2>3. overflowed' = IF Len(q) < QueueSize THEN overflowed
                      ELSE overflowed \cup ({Head(q), e} \ {SyncRequired})
    BY <1>1, <1>5
  <2>4. /\ overflowed # {} => \E i \in 1..Len(q) : q[i] = SyncRequired
        /\ \A i \in 1..Len(q) : q[i] <= version
    BY <1>0 DEF OverflowIsAnnounced, Known
  <2>5. stream' \in StreamRec
    BY <1>3, <2>1, <2>2 DEF StreamRec
  <2>6. Len(q) \in Nat /\ q \in Seq(Version)
    BY <1>3
  <2> HIDE DEF q, p
  <2>7. Len(q) = 0 <=> q = <<>>
    BY <2>6
  <2>8. \A i \in 1..Len(p) : p[i] <= version
    <3>1. CASE Len(q) < QueueSize
      BY <1>3, <2>2, <2>4, <2>6, <3>1
    <3>2. CASE ~(Len(q) < QueueSize)
      <4>1. SyncRequired <= version
        BY <1>3 DEF SyncRequired
      <4> QED
        BY <1>3, <2>2, <2>4, <2>6, <3>2, <4>1
    <3> QED
      BY <3>1, <3>2
  <2>9. overflowed' # {} => \E i \in 1..Len(p) : p[i] = SyncRequired
    BY <2>2, <2>3, <2>4, <2>6, <2>7
  <2>10. overflowed' \subseteq 1..MaxVersion
    <3>1. \A x \in Version : x # SyncRequired => x \in 1..MaxVersion
      BY InboxAssumption DEF Version, SyncRequired
    <3>2. overflowed \subseteq 1..MaxVersion
      BY <1>0 DEF Types
    <3> QED
      BY <1>3, <2>2, <2>3, <3>1, <3>2
  <2>11. Types'
    BY <1>0, <1>1, <2>2, <2>5, <2>10 DEF Types, ServerTypes, StreamTypes, CacheTypes, cacheVars, version, p
  <2>12. Known' /\ OverflowIsAnnounced'
    BY <1>0, <1>1, <2>8, <2>9 DEF Known, cacheVars, OverflowIsAnnounced, version, p
  <2> QED
    BY <1>2, <2>11, <2>12 DEF IInv
<1> QED
  BY <1>4, <1>5

\* The stream moves on, breaks or is heard; nothing is fetched.
LEMMA StreamStep ==
  ASSUME IInv, UNCHANGED <<serverVars, cacheVars, mutation>>,
         StreamTypes', overflowed' \subseteq 1..MaxVersion, online' \in BOOLEAN,
         status' \in Statuses, sync' \in [Calls -> SyncRec], upsets' \in 0..MaxUpsets,
         \A i \in 1..Len(stream'.queue) : stream'.queue[i] <= version,
         \A c \in Calls : sync'[c].at <= version,
         OverflowIsAnnounced', SyncingIsTrue'
  PROVE  IInv'
<1>1. Types'
  BY DEF IInv, Types, ServerTypes, CacheTypes, serverVars, cacheVars, version
<1>2. Known' /\ Fetched'
  BY DEF IInv, Known, Fetched, Answer, serverVars, cacheVars, version
<1> QED
  BY <1>1, <1>2 DEF IInv

\* A step of the cache: queries are told, sent, answered or given up.
LEMMA CacheStep ==
  ASSUME IInv, UNCHANGED <<serverVars, overflowed, online>>,
         StreamTypes', \A i \in 1..Len(stream'.queue) : stream'.queue[i] <= version,
         OverflowIsAnnounced',
         status' \in Statuses, sync' \in [Calls -> SyncRec], upsets' \in 0..MaxUpsets,
         \A c \in Calls : sync'[c].at <= version, SyncingIsTrue',
         CacheTypes', mutation' \in MutationRec, mutation'.at <= version,
         mutation'.kind = "none" \/ mutation'.at > 0,
         \A q \in Queries : told'[q] <= version /\ fetch'[q].at <= version,
         Fetched'
  PROVE  IInv'
<1>1. Types'
  BY DEF IInv, Types, ServerTypes, serverVars, version
<1>2. Known'
  BY DEF IInv, Known, serverVars, version
<1> QED
  BY <1>1, <1>2 DEF IInv

-----------------------------------------------------------------------------
(* The stream: what it says, loses and announces.                          *)

\* What a page hears from its stream leaves the rest of the queue.
LEMMA HeardQueue ==
  ASSUME IInv, stream.queue # <<>>, stream' = [stream EXCEPT !.queue = Tail(@)]
  PROVE  /\ StreamTypes' /\ Head(stream.queue) \in Version /\ Head(stream.queue) <= version
         /\ \A i \in 1..Len(stream'.queue) : stream'.queue[i] <= version
         /\ \A i \in 2..Len(stream.queue) : \E j \in 1..Len(stream'.queue) :
               stream'.queue[j] = stream.queue[i]
<1>0. Types /\ Known
  BY DEF IInv
<1>1. /\ StreamTypes' /\ Head(stream.queue) \in Version
      /\ Head(stream.queue) = stream.queue[1]
      /\ Len(stream'.queue) = Len(stream.queue) - 1
      /\ \A i \in 1..Len(stream'.queue) : stream'.queue[i] = stream.queue[i + 1]
  BY <1>0, Taken
<1>2. Len(stream.queue) \in Nat \ {0}
  BY <1>0 DEF Types, StreamTypes, StreamRec
<1>3. \A i \in 1..Len(stream.queue) : stream.queue[i] <= version
  BY <1>0 DEF Known
<1>4. ASSUME NEW i \in 2..Len(stream.queue)
      PROVE  \E j \in 1..Len(stream'.queue) : stream'.queue[j] = stream.queue[i]
  <2>1. i - 1 \in 1..Len(stream'.queue) /\ (i - 1) + 1 = i
    BY <1>1, <1>2, <1>4
  <2> QED
    BY <1>1, <2>1
<1> QED
  BY <1>1, <1>2, <1>3, <1>4

\* The stream says hello, subscribes or breaks.
LEMMA StreamMoves ==
  ASSUME IInv, Connect \/ Subscribe
  PROVE  IInv'
<1>1. stream \in StreamRec /\ Len(stream.queue) <= QueueSize /\ Types /\ Known
  BY DEF IInv, Types, StreamTypes
<1>2. PICK p \in {"greeted", "open"} : stream' = [stream EXCEPT !.phase = p]
  BY DEF Connect, Subscribe
<1>3. StreamTypes' /\ stream'.queue = stream.queue
  BY <1>1, <1>2 DEF StreamTypes, StreamRec
<1>4. /\ UNCHANGED <<serverVars, overflowed, online, sync, cacheVars, mutation, upsets>>
      /\ status' \in {"connected", status}
  BY DEF Connect, Subscribe
<1>5. OverflowIsAnnounced' /\ SyncingIsTrue'
  BY <1>3, <1>4 DEF IInv, OverflowIsAnnounced, SyncingIsTrue
<1>6. /\ overflowed' \subseteq 1..MaxVersion /\ online' \in BOOLEAN
      /\ status' \in Statuses /\ sync' \in [Calls -> SyncRec] /\ upsets' \in 0..MaxUpsets
  BY <1>1, <1>4 DEF Types, Statuses
<1>7. /\ \A i \in 1..Len(stream'.queue) : stream'.queue[i] <= version
      /\ \A c \in Calls : sync'[c].at <= version
  BY <1>1, <1>3, <1>4 DEF Known
<1> QED
  BY <1>3, <1>4, <1>5, <1>6, <1>7, StreamStep

\* A broken stream loses its queue, and the recovery makes up for it.
LEMMA BreakStep ==
  ASSUME IInv, Break
  PROVE  IInv'
<1>0. Types /\ Known /\ SyncingIsTrue
  BY DEF IInv
<1>1. PICK p \in {"down", "closed"} : stream' = Stopped(p)
  BY DEF Break
<1>2. StreamTypes' /\ stream'.queue = <<>>
  BY <1>1, Records, InboxAssumption DEF StreamTypes
<1>3. /\ overflowed' = {} /\ online' = online /\ upsets' = upsets + 1 /\ upsets < MaxUpsets
      /\ UNCHANGED <<serverVars, cacheVars, mutation>>
  BY DEF Break
<1>4. online' \in BOOLEAN /\ upsets' \in 0..MaxUpsets
  BY <1>0, <1>3, InboxAssumption DEF Types
<1>5. /\ sync' \in [Calls -> SyncRec] /\ status' \in Statuses
      /\ \A c \in Calls : sync'[c].at <= version
      /\ SyncingIsTrue'
  <2>1. CASE sync["auto"].phase = "none"
    <3>1. Recover
      BY <2>1 DEF Break
    <3> QED
      BY <1>0, <1>4, <3>1, Recovered
  <2>2. CASE sync["auto"].phase # "none"
    <3>1. sync' = sync /\ status' \in {"reconnecting", "offline"}
      BY <2>2 DEF Break
    <3> QED
      BY <1>0, <3>1 DEF Types, Known, SyncingIsTrue, Statuses
  <2> QED
    BY <2>1, <2>2
<1>6. OverflowIsAnnounced'
  BY <1>3 DEF OverflowIsAnnounced
<1> QED
  BY <1>2, <1>3, <1>4, <1>5, <1>6, StreamStep

\* The browser goes offline, and says so.
LEMMA GoOfflineStep ==
  ASSUME IInv, GoOffline
  PROVE  IInv'
<1>1. /\ UNCHANGED <<serverVars, stream, overflowed, sync, cacheVars, mutation>>
      /\ online' = FALSE /\ status' = "offline" /\ upsets' = upsets + 1 /\ upsets < MaxUpsets
  BY DEF GoOffline
<1>2. StreamTypes' /\ OverflowIsAnnounced' /\ SyncingIsTrue'
  <2>1. StreamTypes'
    BY <1>1 DEF IInv, Types, StreamTypes
  <2>2. OverflowIsAnnounced' /\ SyncingIsTrue'
    BY <1>1 DEF IInv, OverflowIsAnnounced, SyncingIsTrue
  <2> QED
    BY <2>1, <2>2
<1>4. /\ overflowed' \subseteq 1..MaxVersion /\ online' \in BOOLEAN /\ status' \in Statuses
      /\ sync' \in [Calls -> SyncRec]
  BY <1>1 DEF IInv, Types, Statuses
<1>5. upsets' \in 0..MaxUpsets
  BY <1>1, InboxAssumption DEF IInv, Types
<1>3. /\ \A i \in 1..Len(stream'.queue) : stream'.queue[i] <= version
      /\ \A c \in Calls : sync'[c].at <= version
  BY <1>1 DEF IInv, Known
<1> QED
  BY <1>1, <1>2, <1>3, <1>4, <1>5, StreamStep

\* The browser is online again, and recovers.
LEMMA GoOnlineStep ==
  ASSUME IInv, GoOnline
  PROVE  IInv'
<1>1. /\ UNCHANGED <<serverVars, stream, overflowed, cacheVars, mutation, upsets>>
      /\ online' \in BOOLEAN /\ Recover
  BY DEF GoOnline
<1>2. /\ sync' \in [Calls -> SyncRec] /\ status' \in Statuses
      /\ \A c \in Calls : sync'[c].at <= version
      /\ SyncingIsTrue'
  BY <1>1, Recovered DEF IInv
<1>3. /\ StreamTypes' /\ OverflowIsAnnounced'
      /\ overflowed' \subseteq 1..MaxVersion /\ upsets' \in 0..MaxUpsets
  BY <1>1 DEF IInv, Types, StreamTypes, OverflowIsAnnounced
<1>4. \A i \in 1..Len(stream'.queue) : stream'.queue[i] <= version
  BY <1>1 DEF IInv, Known
<1> QED
  BY <1>1, <1>2, <1>3, <1>4, StreamStep

\* The page hears sync_required: what was pushed out is made up for, unless
\* another sync_required follows.
LEMMA HearSyncRequiredStep ==
  ASSUME IInv, HearSyncRequired
  PROVE  IInv'
<1>1. /\ UNCHANGED <<serverVars, cacheVars, mutation, upsets, online>>
      /\ Recover /\ stream.queue # <<>> /\ stream' = [stream EXCEPT !.queue = Tail(@)]
      /\ overflowed' = IF \E i \in 2..Len(stream.queue) : stream.queue[i] = SyncRequired
                       THEN overflowed ELSE {}
  BY DEF HearSyncRequired
<1>2. online' \in BOOLEAN /\ overflowed' \subseteq 1..MaxVersion /\ upsets' \in 0..MaxUpsets
  BY <1>1 DEF IInv, Types
<1>3. /\ sync' \in [Calls -> SyncRec] /\ status' \in Statuses
      /\ \A c \in Calls : sync'[c].at <= version
      /\ SyncingIsTrue'
  BY <1>1, <1>2, Recovered DEF IInv
<1>4. /\ StreamTypes'
      /\ \A i \in 1..Len(stream'.queue) : stream'.queue[i] <= version
      /\ \A i \in 2..Len(stream.queue) : \E j \in 1..Len(stream'.queue) :
            stream'.queue[j] = stream.queue[i]
  BY <1>1, HeardQueue
<1>5. OverflowIsAnnounced'
  BY <1>1, <1>4 DEF OverflowIsAnnounced, SyncRequired
<1> QED
  BY <1>1, <1>2, <1>3, <1>4, <1>5, StreamStep

-----------------------------------------------------------------------------
(* Invalidations: queries are told of a version and fetched again.         *)

\* The parts of an invariant that speak of the stream, when it is left alone.
LEMMA StreamKept ==
  ASSUME IInv, UNCHANGED <<serverVars, stream, overflowed, online>>
  PROVE  /\ StreamTypes' /\ OverflowIsAnnounced'
         /\ \A i \in 1..Len(stream'.queue) : stream'.queue[i] <= version
<1>1. StreamTypes'
  BY DEF IInv, Types, StreamTypes
<1>2. OverflowIsAnnounced'
  BY DEF IInv, OverflowIsAnnounced
<1>3. \A i \in 1..Len(stream'.queue) : stream'.queue[i] <= version
  BY DEF IInv, Known
<1> QED
  BY <1>1, <1>2, <1>3

\* ... and of the recoveries.
LEMMA SyncKept ==
  ASSUME IInv, UNCHANGED <<status, sync>>
  PROVE  /\ status' \in Statuses /\ sync' \in [Calls -> SyncRec]
         /\ \A c \in Calls : sync'[c].at <= version
         /\ SyncingIsTrue'
  BY DEF IInv, Types, Known, SyncingIsTrue

\* Queries are told and sent, and nothing they show is lost.
LEMMA InvalidateStep ==
  ASSUME IInv, NEW qs, NEW data, NEW v \in Version, v <= version, Invalidate(qs, data, v),
         UNCHANGED <<serverVars, overflowed, online, view, loaded>>,
         StreamTypes', \A i \in 1..Len(stream'.queue) : stream'.queue[i] <= version,
         OverflowIsAnnounced',
         status' \in Statuses, sync' \in [Calls -> SyncRec], upsets' \in 0..MaxUpsets,
         \A c \in Calls : sync'[c].at <= version, SyncingIsTrue',
         mutation' \in {mutation, NoMutation}
  PROVE  IInv'
<1>0. Types /\ Known /\ Fetched /\ about' = about
  BY DEF IInv, serverVars
<1>1. /\ fetch' \in [Queries -> FetchRec] /\ told' \in [Queries -> Version]
      /\ missed' \in [Queries -> SUBSET (1..MaxVersion)] /\ mounted' \subseteq Queries
      /\ \A q \in Queries :
            /\ told'[q] <= version /\ fetch'[q].at <= version
            /\ fetch'[q].phase = "read" =>
                  \A u \in Answer(q, told'[q]) \ missed'[q] : u <= fetch'[q].at
            /\ fetch'[q].phase = "none" =>
                  /\ fetch[q].phase = "none" /\ q \notin qs \cap mounted
                  /\ told'[q] = told[q] /\ missed'[q] = missed[q]
  BY <1>0, Invalidated
<1>2. CacheTypes'
  BY <1>0, <1>1 DEF Types, CacheTypes
<1>3. Fetched'
  BY <1>0, <1>1 DEF Fetched, Answer
<1>4. mutation' \in MutationRec /\ mutation'.at <= version
      /\ (mutation'.kind = "none" \/ mutation'.at > 0)
  <2>1. 0 <= version
    BY <1>0 DEF Types, ServerTypes
  <2> QED
    BY <1>0, <2>1, Records DEF Types, Known
<1> QED
  BY <1>1, <1>2, <1>3, <1>4, CacheStep

\* The page hears a hint and refetches; a sync_required stays in the queue.
LEMMA HearHintStep ==
  ASSUME IInv, HearHint
  PROVE  IInv'
<1>1. /\ UNCHANGED <<serverVars, overflowed, online, status, sync, view, loaded, mutation, upsets>>
      /\ stream.queue # <<>> /\ stream' = [stream EXCEPT !.queue = Tail(@)]
      /\ Head(stream.queue) # SyncRequired
      /\ Invalidate(Queries, loaded, Head(stream.queue))
  BY DEF HearHint
<1>2. /\ StreamTypes' /\ Head(stream.queue) \in Version /\ Head(stream.queue) <= version
      /\ \A i \in 1..Len(stream'.queue) : stream'.queue[i] <= version
      /\ \A i \in 2..Len(stream.queue) : \E j \in 1..Len(stream'.queue) :
            stream'.queue[j] = stream.queue[i]
  BY <1>1, HeardQueue
<1>3. OverflowIsAnnounced'
  <2>1. SUFFICES ASSUME overflowed' # {}
                 PROVE  \E j \in 1..Len(stream'.queue) : stream'.queue[j] = SyncRequired
    BY DEF OverflowIsAnnounced, SyncRequired
  <2>2. PICK i \in 1..Len(stream.queue) : stream.queue[i] = SyncRequired
    BY <1>1, <2>1 DEF IInv, OverflowIsAnnounced
  <2>3. stream.queue \in Seq(Version)
    BY DEF IInv, Types, StreamTypes, StreamRec
  <2>4. i # 1
    BY <1>1, <2>2, <2>3
  <2>5. i \in 2..Len(stream.queue)
    BY <2>2, <2>3, <2>4
  <2> QED
    BY <1>2, <2>2, <2>5
<1>4. /\ status' \in Statuses /\ sync' \in [Calls -> SyncRec]
      /\ \A c \in Calls : sync'[c].at <= version
      /\ SyncingIsTrue'
  BY <1>1, SyncKept
<1>5. upsets' \in 0..MaxUpsets
  BY <1>1 DEF IInv, Types
<1> QED
  BY <1>1, <1>2, <1>3, <1>4, <1>5, InvalidateStep

\* The refresh button leaves the automatic recovery alone.
LEMMA RecoverByHandStep ==
  ASSUME IInv, RecoverByHand
  PROVE  IInv'
<1>1. /\ UNCHANGED <<serverVars, stream, overflowed, online, status, view, loaded, mutation>>
      /\ upsets < MaxUpsets /\ upsets' = upsets + 1
      /\ sync' = [sync EXCEPT !["manual"].phase = "asked"]
      /\ Invalidate(Lists, loaded, 0)
  BY DEF RecoverByHand
<1>2. /\ sync \in [Calls -> SyncRec] /\ \A c \in Calls : sync[c].at <= version
      /\ SyncingIsTrue /\ status \in Statuses
  BY DEF IInv, Types, Known
<1>3. /\ sync' \in [Calls -> SyncRec] /\ \A c \in Calls : sync'[c].at = sync[c].at
      /\ sync'["auto"] = sync["auto"]
  BY <1>1, <1>2 DEF Calls, SyncRec
<1>4. SyncingIsTrue' /\ status' \in Statuses /\ \A c \in Calls : sync'[c].at <= version
  BY <1>1, <1>2, <1>3 DEF SyncingIsTrue
<1>5. upsets' \in 0..MaxUpsets
  BY <1>1, InboxAssumption DEF IInv, Types
<1>6. 0 \in Version /\ 0 <= version
  BY InboxAssumption DEF IInv, Types, ServerTypes, Version
<1>7. /\ StreamTypes' /\ OverflowIsAnnounced'
      /\ \A i \in 1..Len(stream'.queue) : stream'.queue[i] <= version
  BY <1>1, StreamKept
<1> QED
  BY <1>1, <1>3, <1>4, <1>5, <1>6, <1>7, InvalidateStep

\* A mark-as-read tells the list of its version.
LEMMA MarkReadSucceedsStep ==
  ASSUME IInv, MarkReadSucceeds
  PROVE  IInv'
<1>1. /\ UNCHANGED <<serverVars, stream, overflowed, online, status, sync, view, loaded, upsets>>
      /\ mutation' = NoMutation
      /\ Invalidate({"conversations"}, loaded, mutation.at)
  BY DEF MarkReadSucceeds
<1>2. mutation.at <= version /\ mutation.at \in Version
  BY DEF IInv, Types, Known, MutationRec
<1>3. /\ StreamTypes' /\ OverflowIsAnnounced'
      /\ \A i \in 1..Len(stream'.queue) : stream'.queue[i] <= version
  BY <1>1, StreamKept
<1>4. /\ status' \in Statuses /\ sync' \in [Calls -> SyncRec]
      /\ \A c \in Calls : sync'[c].at <= version
      /\ SyncingIsTrue'
  BY <1>1, SyncKept
<1>5. upsets' \in 0..MaxUpsets
  BY <1>1 DEF IInv, Types
<1> QED
  BY <1>1, <1>2, <1>3, <1>4, <1>5, InvalidateStep

-----------------------------------------------------------------------------
(* Recoveries, requests and mutations.                                     *)

\* A recovery reads a snapshot.
LEMMA SyncReadStep ==
  ASSUME IInv, NEW c \in Calls, SyncRead(c)
  PROVE  IInv'
<1>1. /\ UNCHANGED <<serverVars, stream, overflowed, online, status, cacheVars, mutation, upsets>>
      /\ sync[c].phase = "asked"
      /\ sync' = [sync EXCEPT ![c] = [@ EXCEPT !.phase = "answered", !.at = version]]
  BY DEF SyncRead
<1>2. /\ sync \in [Calls -> SyncRec] /\ status \in Statuses /\ version \in Version
      /\ \A d \in Calls : sync[d].at <= version
      /\ SyncingIsTrue
  BY DEF IInv, Types, Known, ServerTypes, Version
<1>3. /\ sync' \in [Calls -> SyncRec]
      /\ \A d \in Calls : sync'[d].at \in {version, sync[d].at}
      /\ \A d \in Calls : sync[d].phase # "none" => sync'[d].phase # "none"
  BY <1>1, <1>2 DEF SyncRec
<1>4. version <= version
  BY <1>2 DEF Version
<1>5. SyncingIsTrue' /\ status' \in Statuses /\ \A d \in Calls : sync'[d].at <= version
  BY <1>1, <1>2, <1>3, <1>4 DEF SyncingIsTrue, Calls
<1>6. /\ StreamTypes' /\ OverflowIsAnnounced'
      /\ \A i \in 1..Len(stream'.queue) : stream'.queue[i] <= version
  BY <1>1, StreamKept
<1>7. overflowed' \subseteq 1..MaxVersion /\ online' \in BOOLEAN /\ upsets' \in 0..MaxUpsets
  BY <1>1 DEF IInv, Types
<1> QED
  BY <1>1, <1>3, <1>5, <1>6, <1>7, StreamStep

\* A recovery is over, and the automatic one takes its "syncing" back.
LEMMA SyncOverStep ==
  ASSUME IInv, NEW c \in Calls,
         UNCHANGED <<serverVars, stream, overflowed, online, cacheVars, mutation>>,
         sync' = [sync EXCEPT ![c] = NoSync],
         status' \in Statuses, upsets' \in 0..MaxUpsets,
         status' = "syncing" => c # "auto" /\ status = "syncing"
  PROVE  IInv'
<1>1. sync \in [Calls -> SyncRec] /\ (\A d \in Calls : sync[d].at <= version) /\ SyncingIsTrue
  BY DEF IInv, Types, Known
<1>2. /\ sync' \in [Calls -> SyncRec]
      /\ \A d \in Calls : sync'[d].at \in {0, sync[d].at}
  BY <1>1, Records
<1>3. 0 <= version
  BY DEF IInv, Types, ServerTypes
<1>4. \A d \in Calls : sync'[d].at <= version
  BY <1>1, <1>2, <1>3
<1>5. SyncingIsTrue'
  BY <1>1 DEF SyncingIsTrue, Calls
<1>6. /\ StreamTypes' /\ OverflowIsAnnounced'
      /\ \A i \in 1..Len(stream'.queue) : stream'.queue[i] <= version
  BY StreamKept
<1>7. overflowed' \subseteq 1..MaxVersion /\ online' \in BOOLEAN
  BY DEF IInv, Types
<1> QED
  BY <1>2, <1>4, <1>5, <1>6, <1>7, StreamStep

\* A recovery ends well.
LEMMA SyncEndsStep ==
  ASSUME IInv, NEW c \in Calls, SyncEnds(c)
  PROVE  IInv'
<1>1. status' = "connected" /\ status' \in Statuses
  BY DEF SyncEnds, Statuses
<1>2. upsets' \in 0..MaxUpsets
  BY DEF SyncEnds, IInv, Types
<1> QED
  BY <1>1, <1>2, SyncOverStep DEF SyncEnds

\* A recovery fails.
LEMMA SyncFailsStep ==
  ASSUME IInv, NEW c \in Calls, SyncFails(c)
  PROVE  IInv'
<1>1. status' = IF c = "manual" THEN status
                ELSE IF online THEN "reconnecting" ELSE "offline"
  BY DEF SyncFails
<1>2. status' \in Statuses /\ (status' = "syncing" => c # "auto" /\ status = "syncing")
  BY <1>1 DEF IInv, Types, Statuses, Calls
<1>3. upsets' \in 0..MaxUpsets
  BY InboxAssumption DEF SyncFails, IInv, Types
<1> QED
  BY <1>2, <1>3, SyncOverStep DEF SyncFails

\* The snapshot of a recovery replaces the lists, which are fetched again.
LEMMA SyncArrivesStep ==
  ASSUME IInv, NEW c \in Calls, SyncArrives(c)
  PROVE  IInv'
<1>0. Types /\ Known /\ Fetched /\ SyncingIsTrue
  BY DEF IInv
<1> DEFINE lists == {q \in Lists \cap mounted : q \in loaded \/ Answer(q, sync[c].at) # {}}
<1>1. /\ UNCHANGED <<serverVars, stream, overflowed, online, status, mutation, upsets>>
      /\ view' = [q \in Queries |-> IF q \in lists THEN Answer(q, sync[c].at) ELSE view[q]]
      /\ loaded' = loaded \cup lists
      /\ Invalidate(Queries, loaded', sync[c].at)
      /\ sync' = [sync EXCEPT ![c] = [phase |-> "refetching", at |-> 0, awaits |-> mounted]]
  BY DEF SyncArrives
<1>a. lists \subseteq mounted
  OBVIOUS
<1> HIDE DEF lists
<1>2. sync[c].at \in Version /\ sync[c].at <= version /\ about' = about
      /\ mounted \subseteq Queries
  BY <1>0, <1>1 DEF Types, CacheTypes, Known, SyncRec, serverVars
<1>3. /\ fetch' \in [Queries -> FetchRec] /\ told' \in [Queries -> Version]
      /\ missed' \in [Queries -> SUBSET (1..MaxVersion)] /\ mounted' \subseteq Queries
      /\ \A q \in Queries :
            /\ told'[q] <= version /\ fetch'[q].at <= version
            /\ fetch'[q].phase = "read" =>
                  \A u \in Answer(q, told'[q]) \ missed'[q] : u <= fetch'[q].at
            /\ fetch'[q].phase = "none" =>
                  /\ fetch[q].phase = "none" /\ q \notin Queries \cap mounted
                  /\ told'[q] = told[q] /\ missed'[q] = missed[q]
  BY <1>0, <1>1, <1>2, Invalidated
<1>4. CacheTypes'
  <2>1. view' \in [Queries -> SUBSET (1..MaxVersion)]
    BY <1>0, <1>1, <1>2, AnswerType DEF Types, CacheTypes
  <2>2. loaded' \subseteq Queries
    BY <1>0, <1>1, <1>2, <1>a DEF Types, CacheTypes
  <2> QED
    BY <1>3, <2>1, <2>2 DEF CacheTypes
<1>5. Fetched'
  <2>1. \A q \in Queries : fetch'[q].phase = "none" => view'[q] = view[q]
    BY <1>1, <1>3, <1>a
  <2> QED
    BY <1>0, <1>2, <1>3, <2>1 DEF Fetched, Answer
<1>6. /\ sync' \in [Calls -> SyncRec]
      /\ \A d \in Calls : sync'[d].at \in {0, sync[d].at}
      /\ \A d \in Calls : sync[d].phase # "none" => sync'[d].phase # "none"
  BY <1>0, <1>1, <1>2, InboxAssumption DEF Types, SyncRec, Version
<1>7. \A d \in Calls : sync'[d].at <= version
  <2>1. 0 <= version
    BY <1>0 DEF Types, ServerTypes
  <2> QED
    BY <1>0, <1>6, <2>1 DEF Known
<1>8. SyncingIsTrue' /\ status' \in Statuses
  BY <1>0, <1>1, <1>6 DEF SyncingIsTrue, Types, Calls
<1>9. /\ StreamTypes' /\ OverflowIsAnnounced'
      /\ \A i \in 1..Len(stream'.queue) : stream'.queue[i] <= version
  BY <1>1, StreamKept
<1>10. upsets' \in 0..MaxUpsets /\ mutation' \in MutationRec /\ mutation'.at <= version
       /\ (mutation'.kind = "none" \/ mutation'.at > 0)
  BY <1>0, <1>1 DEF Types, Known
<1> QED
  BY <1>1, <1>3, <1>4, <1>5, <1>6, <1>7, <1>8, <1>9, <1>10, CacheStep

\* A request reads at least what its query was told of: all there is.
LEMMA FetchReadStep ==
  ASSUME IInv, NEW q \in Queries, FetchRead(q)
  PROVE  IInv'
<1>0. Types /\ Known /\ Fetched
  BY DEF IInv
<1>1. /\ UNCHANGED <<serverVars, stream, overflowed, online, status, sync, mounted, view,
                     loaded, told, missed, mutation, upsets>>
      /\ fetch' = [fetch EXCEPT ![q] = [phase |-> "read", at |-> version]]
  BY DEF FetchRead
<1>2. version \in Version /\ version \in Nat /\ told \in [Queries -> Version] /\ Version \subseteq Nat
  BY <1>0 DEF Types, ServerTypes, CacheTypes, Version
<1>3. fetch' \in [Queries -> FetchRec]
  BY <1>0, <1>1, <1>2 DEF Types, CacheTypes, FetchRec
<1>4. CacheTypes'
  BY <1>0, <1>1, <1>3 DEF Types, CacheTypes
<1>5. \A p \in Queries : fetch'[p] = IF p = q THEN [phase |-> "read", at |-> version] ELSE fetch[p]
  BY <1>0, <1>1 DEF Types, CacheTypes
<1>6. \A p \in Queries : told'[p] <= version /\ fetch'[p].at <= version
  BY <1>0, <1>1, <1>2, <1>5 DEF Known
<1>7. Fetched'
  <2>1. ASSUME NEW p \in Queries, NEW u \in Answer(p, told[p])
        PROVE  u <= version
    <3>1. told[p] \in Nat /\ told[p] <= version
      BY <1>0, <1>2 DEF Known
    <3> QED
      BY <1>2, <2>1, <3>1 DEF Answer
  <2>2. \A p \in Queries : Answer(p, told[p])' = Answer(p, told[p])
    BY <1>1 DEF Answer, serverVars
  <2> QED
    BY <1>0, <1>1, <1>5, <2>1, <2>2 DEF Fetched
<1>8. /\ StreamTypes' /\ OverflowIsAnnounced'
      /\ \A i \in 1..Len(stream'.queue) : stream'.queue[i] <= version
  BY <1>1, StreamKept
<1>9. /\ status' \in Statuses /\ sync' \in [Calls -> SyncRec]
      /\ \A c \in Calls : sync'[c].at <= version
      /\ SyncingIsTrue'
  BY <1>1, SyncKept
<1>10. upsets' \in 0..MaxUpsets /\ mutation' \in MutationRec /\ mutation'.at <= version
       /\ (mutation'.kind = "none" \/ mutation'.at > 0)
  BY <1>0, <1>1 DEF Types, Known
<1> QED
  BY <1>1, <1>4, <1>6, <1>7, <1>8, <1>9, <1>10, CacheStep

\* Nobody waits any longer for a query that was answered or given up.
LEMMA AwaitedKept ==
  ASSUME IInv, NEW q \in Queries, sync' = Awaited(q), status' = status
  PROVE  /\ status' \in Statuses /\ sync' \in [Calls -> SyncRec]
         /\ \A c \in Calls : sync'[c].at <= version
         /\ SyncingIsTrue'
<1>1. /\ Awaited(q) \in [Calls -> SyncRec]
      /\ \A c \in Calls : Awaited(q)[c].phase = sync[c].phase /\ Awaited(q)[c].at = sync[c].at
  BY AwaitedType DEF IInv
<1> QED
  BY <1>1 DEF IInv, Types, Known, SyncingIsTrue, Calls

\* An answer replaces what the query shows with something recent enough.
LEMMA FetchArrivesStep ==
  ASSUME IInv, NEW q \in Queries, FetchArrives(q)
  PROVE  IInv'
<1>0. Types /\ Known /\ Fetched
  BY DEF IInv
<1>1. /\ UNCHANGED <<serverVars, stream, overflowed, online, status, mounted, told,
                     mutation, upsets>>
      /\ fetch[q].phase = "read"
      /\ view' = [view EXCEPT ![q] = Answer(q, fetch[q].at)]
      /\ missed' = [missed EXCEPT ![q] = @ \ Answer(q, fetch[q].at)]
      /\ loaded' = loaded \cup {q}
      /\ fetch' = [fetch EXCEPT ![q] = Idle]
      /\ sync' = Awaited(q)
  BY DEF FetchArrives
<1>2. /\ fetch[q].at \in Version /\ told[q] \in Version /\ Version \subseteq Nat
      /\ \A u \in Answer(q, told[q]) \ missed[q] : u <= fetch[q].at
  BY <1>0, <1>1 DEF Types, CacheTypes, FetchRec, Fetched, Version
<1>3. CacheTypes'
  <2>1. view' \in [Queries -> SUBSET (1..MaxVersion)]
    BY <1>0, <1>1, <1>2, AnswerType DEF Types, CacheTypes
  <2>2. fetch' \in [Queries -> FetchRec]
    BY <1>0, <1>1, Records DEF Types, CacheTypes
  <2>3. missed' \in [Queries -> SUBSET (1..MaxVersion)]
    BY <1>0, <1>1 DEF Types, CacheTypes
  <2> QED
    BY <1>0, <1>1, <2>1, <2>2, <2>3 DEF Types, CacheTypes
<1>4. /\ fetch'[q] = Idle /\ view'[q] = Answer(q, fetch[q].at)
      /\ missed'[q] = missed[q] \ Answer(q, fetch[q].at)
      /\ \A p \in Queries : p # q => fetch'[p] = fetch[p] /\ view'[p] = view[p]
                                     /\ missed'[p] = missed[p]
  BY <1>0, <1>1 DEF Types, CacheTypes
<1>5. Answer(q, told[q]) \ missed'[q] \subseteq view'[q]
  BY <1>2, <1>4 DEF Answer
<1>a. \A p \in Queries : Answer(p, told[p])' = Answer(p, told[p])
  BY <1>1 DEF Answer, serverVars
<1>6. \A p \in Queries : told'[p] <= version /\ fetch'[p].at <= version
  <2>1. 0 <= version
    BY <1>0 DEF Types, ServerTypes
  <2> QED
    BY <1>0, <1>1, <1>4, <2>1, Records DEF Known
<1>7. Fetched'
  <2>1. ASSUME NEW p \in Queries, NEW u \in Answer(p, told[p]) \ missed'[p]
        PROVE  /\ fetch'[p].phase = "read" => u <= fetch'[p].at
               /\ fetch'[p].phase = "none" => u \in view'[p]
    <3>1. CASE p = q
      BY <1>4, <1>5, <2>1, <3>1, Records
    <3>2. CASE p # q
      BY <1>0, <1>4, <2>1, <3>2 DEF Fetched
    <3> QED
      BY <3>1, <3>2
  <2> QED
    BY <1>1, <1>a, <2>1 DEF Fetched
<1>8. /\ StreamTypes' /\ OverflowIsAnnounced'
      /\ \A i \in 1..Len(stream'.queue) : stream'.queue[i] <= version
  BY <1>1, StreamKept
<1>9. /\ status' \in Statuses /\ sync' \in [Calls -> SyncRec]
      /\ \A c \in Calls : sync'[c].at <= version
      /\ SyncingIsTrue'
  BY <1>1, AwaitedKept
<1>10. upsets' \in 0..MaxUpsets /\ mutation' \in MutationRec /\ mutation'.at <= version
       /\ (mutation'.kind = "none" \/ mutation'.at > 0)
  BY <1>0, <1>1 DEF Types, Known
<1> QED
  BY <1>1, <1>3, <1>6, <1>7, <1>8, <1>9, <1>10, CacheStep

\* A request is given up.
LEMMA FetchFailsStep ==
  ASSUME IInv, NEW q \in Queries, FetchFails(q)
  PROVE  IInv'
<1>0. Types /\ Known /\ Fetched
  BY DEF IInv
<1> DEFINE failed == [phase |-> "failed", at |-> 0]
<1>1. /\ UNCHANGED <<serverVars, stream, overflowed, online, status, mounted, view, loaded,
                     told, missed, mutation>>
      /\ upsets < MaxUpsets /\ upsets' = upsets + 1
      /\ fetch' = [fetch EXCEPT ![q] = failed]
      /\ sync' = Awaited(q)
  BY DEF FetchFails
<1>2. failed \in FetchRec /\ 0 <= version
  BY <1>0, InboxAssumption DEF Types, ServerTypes, FetchRec, Version
<1>3. CacheTypes'
  BY <1>0, <1>1, <1>2 DEF Types, CacheTypes
<1>4. \A p \in Queries : fetch'[p] = IF p = q THEN failed ELSE fetch[p]
  BY <1>0, <1>1 DEF Types, CacheTypes
<1>5. \A p \in Queries : told'[p] <= version /\ fetch'[p].at <= version
  BY <1>0, <1>1, <1>2, <1>4 DEF Known
<1>6. Fetched'
  BY <1>0, <1>1, <1>4 DEF Fetched, Answer, serverVars
<1>7. /\ StreamTypes' /\ OverflowIsAnnounced'
      /\ \A i \in 1..Len(stream'.queue) : stream'.queue[i] <= version
  BY <1>1, StreamKept
<1>8. /\ status' \in Statuses /\ sync' \in [Calls -> SyncRec]
      /\ \A c \in Calls : sync'[c].at <= version
      /\ SyncingIsTrue'
  BY <1>1, AwaitedKept
<1>9. /\ mutation' \in MutationRec /\ mutation'.at <= version
       /\ (mutation'.kind = "none" \/ mutation'.at > 0)
  BY <1>0, <1>1 DEF Types, Known
<1>10. upsets' \in 0..MaxUpsets
  BY <1>0, <1>1, InboxAssumption DEF Types
<1> QED
  BY <1>1, <1>3, <1>5, <1>6, <1>7, <1>8, <1>9, <1>10, CacheStep

\* What a write was about, up to it, joins what some queries show; what they
\* lose by that is missed.
LEMMA MergeStep ==
  ASSUME IInv, NEW qs \in SUBSET Queries, mutation.kind # "none", Merge(qs)
  PROVE  IInv'
<1>0. Types /\ Known /\ Fetched
  BY DEF IInv
<1>1. /\ UNCHANGED <<serverVars, stream, overflowed, online, status, sync, mounted, told, upsets>>
      /\ loaded' = loaded \cup qs /\ mutation' = NoMutation
  BY DEF Merge
<1>2. /\ view' = [q \in Queries |->
            IF q \notin qs THEN view[q]
            ELSE IF q \in Lists THEN (view[q] \ OfItem) \cup AsOfWrite
            ELSE view[q] \cup {mutation.at}]
      /\ fetch' = [q \in Queries |->
            IF q \in qs /\ fetch[q].phase = "failed" THEN Idle ELSE fetch[q]]
      /\ missed' = [q \in Queries |->
            IF q \in qs THEN missed[q] \cup LostByMerge(q) ELSE missed[q]]
  BY DEF Merge
<1>3. /\ version \in 1..MaxVersion /\ mutation.at \in 1..MaxVersion
      /\ view \in [Queries -> SUBSET (1..MaxVersion)] /\ told \in [Queries -> Version]
      /\ fetch \in [Queries -> FetchRec] /\ missed \in [Queries -> SUBSET (1..MaxVersion)]
      /\ loaded \subseteq Queries
  BY <1>0, InboxAssumption DEF Types, Known, ServerTypes, CacheTypes, MutationRec, Version
<1>4. OfItem \subseteq 1..MaxVersion /\ AsOfWrite \subseteq 1..MaxVersion
  BY <1>3, InboxAssumption DEF OfItem, AsOfWrite
<1>5. \A q \in Queries : LostByMerge(q) \subseteq 1..MaxVersion
  BY <1>3, <1>4, AnswerType DEF LostByMerge
<1>6. CacheTypes'
  <2>1. view' \in [Queries -> SUBSET (1..MaxVersion)]
    BY <1>2, <1>3, <1>4
  <2>2. fetch' \in [Queries -> FetchRec]
    BY <1>2, <1>3, Records
  <2>3. missed' \in [Queries -> SUBSET (1..MaxVersion)]
    BY <1>2, <1>3, <1>5
  <2> QED
    BY <1>0, <1>1, <1>3, <2>1, <2>2, <2>3 DEF Types, CacheTypes
<1>7. \A q \in Queries : told'[q] <= version /\ fetch'[q].at <= version
  <2>1. 0 <= version
    BY <1>3
  <2> QED
    BY <1>0, <1>1, <1>2, <2>1, Records DEF Known
<1>8. Fetched'
  <2>1. \A q \in Queries : Answer(q, told[q])' = Answer(q, told[q])
    BY <1>1 DEF Answer, serverVars
  <2>2. ASSUME NEW q \in Queries, NEW u \in Answer(q, told[q]) \ missed'[q]
        PROVE  /\ fetch'[q].phase = "read" => u <= fetch'[q].at
               /\ fetch'[q].phase = "none" => u \in view'[q]
    <3>1. /\ u \notin missed[q]
          /\ fetch[q].phase = "read" => u <= fetch[q].at
          /\ fetch[q].phase = "none" => u \in view[q]
      BY <1>0, <1>2, <2>2 DEF Fetched
    <3>2. CASE q \notin qs
      BY <1>2, <2>2, <3>1, <3>2
    <3>3. CASE q \in qs
      <4>1. /\ fetch'[q] = IF fetch[q].phase = "failed" THEN Idle ELSE fetch[q]
            /\ u \notin LostByMerge(q)
        BY <1>2, <2>2, <3>3
      <4>2. fetch'[q].phase = "read" => u <= fetch'[q].at
        BY <3>1, <4>1, Records
      <4>3. ASSUME fetch'[q].phase = "none" PROVE u \in view'[q]
        <5>1. u \in view[q]
          BY <2>2, <3>1, <4>1, <4>3 DEF LostByMerge
        <5>2. u \notin OfItem \ AsOfWrite
          BY <4>1, <5>1 DEF LostByMerge
        <5> QED
          BY <1>2, <3>3, <5>1, <5>2
      <4> QED
        BY <4>2, <4>3
    <3> QED
      BY <3>2, <3>3
  <2> QED
    BY <1>1, <2>1, <2>2 DEF Fetched
<1>9. /\ StreamTypes' /\ OverflowIsAnnounced'
      /\ \A i \in 1..Len(stream'.queue) : stream'.queue[i] <= version
  BY <1>1, StreamKept
<1>10. /\ status' \in Statuses /\ sync' \in [Calls -> SyncRec]
       /\ \A c \in Calls : sync'[c].at <= version
       /\ SyncingIsTrue'
  BY <1>1, SyncKept
<1>11. /\ upsets' \in 0..MaxUpsets /\ mutation' \in MutationRec /\ mutation'.at <= version
       /\ mutation'.kind = "none"
  BY <1>0, <1>1, <1>3, Records DEF Types
<1> QED
  BY <1>1, <1>6, <1>7, <1>8, <1>9, <1>10, <1>11, CacheStep

\* A reply or a click is answered.
LEMMA MergedStep ==
  ASSUME IInv, ReplySucceeds \/ ClickSucceeds
  PROVE  IInv'
<1>1. CASE ReplySucceeds
  <2> DEFINE qs == ({"conversations"} \cap mounted) \cup ({"detail"} \cap loaded)
  <2>1. qs \in SUBSET Queries
    BY DEF Queries
  <2>2. mutation.kind # "none" /\ Merge(qs)
    BY <1>1 DEF ReplySucceeds
  <2> QED
    BY <2>1, <2>2, MergeStep
<1>2. CASE ClickSucceeds
  <2>1. {"notifications"} \in SUBSET Queries
    BY DEF Queries
  <2>2. mutation.kind # "none" /\ Merge({"notifications"})
    BY <1>2 DEF ClickSucceeds
  <2> QED
    BY <2>1, <2>2, MergeStep
<1> QED
  BY <1>1, <1>2

\* The answer of a write is lost.
LEMMA WriteFailsStep ==
  ASSUME IInv, WriteFails
  PROVE  IInv'
<1>0. Types /\ Known /\ Fetched
  BY DEF IInv
<1>1. /\ UNCHANGED <<serverVars, stream, overflowed, online, status, sync, cacheVars>>
      /\ upsets < MaxUpsets /\ upsets' = upsets + 1 /\ mutation' = NoMutation
  BY DEF WriteFails
<1>2. CacheTypes' /\ Fetched'
  BY <1>0, <1>1 DEF Types, CacheTypes, Fetched, Answer, cacheVars, serverVars
<1>3. /\ upsets' \in 0..MaxUpsets /\ mutation' \in MutationRec /\ mutation'.at <= version
      /\ mutation'.kind = "none"
      /\ \A q \in Queries : told'[q] <= version /\ fetch'[q].at <= version
  <2>1. 0 <= version
    BY <1>0 DEF Types, ServerTypes
  <2> QED
    BY <1>0, <1>1, <2>1, Records, InboxAssumption DEF Types, Known, cacheVars
<1>4. /\ StreamTypes' /\ OverflowIsAnnounced'
      /\ \A i \in 1..Len(stream'.queue) : stream'.queue[i] <= version
  BY <1>1, StreamKept
<1>5. /\ status' \in Statuses /\ sync' \in [Calls -> SyncRec]
      /\ \A c \in Calls : sync'[c].at <= version
      /\ SyncingIsTrue'
  BY <1>1, SyncKept
<1> QED
  BY <1>1, <1>2, <1>3, <1>4, <1>5, CacheStep

-----------------------------------------------------------------------------
(* Every step.                                                             *)

\* A change of the backend.
LEMMA ChangeStep ==
  ASSUME IInv, Change
  PROVE  IInv'
<1>1. PICK i \in UNION {Scope(q) : q \in mounted} : Commit(i)
  BY DEF Change
<1>2. \A q \in Queries : Scope(q) \subseteq Items
  BY DEF Scope, Queries, Items
<1>3. i \in Items
  BY <1>2 DEF IInv, Types, CacheTypes
<1> QED
  BY <1>1, <1>3, CommitStep DEF Change

\* The customer's own change.
LEMMA WriteStep ==
  ASSUME IInv, (\E k \in {"reply", "markRead"} : Write(k)) \/ \E n \in Notifications : Click(n)
  PROVE  IInv'
<1>1. PICK i \in Items, k \in {"reply", "markRead", "click"} :
        /\ Commit(i) /\ mutation' = [kind |-> k, at |-> version + 1]
        /\ UNCHANGED <<stream, overflowed, online, status, sync, cacheVars, upsets>>
  BY DEF Write, Click, Items
<1>2. version' \in Version /\ version' = version + 1
  BY <1>1, Committed DEF IInv
<1>3. mutation' \in MutationRec /\ mutation'.at = version'
  BY <1>1, <1>2 DEF MutationRec
<1> QED
  BY <1>1, <1>3, CommitStep

\* The invariant is inductive.
LEMMA NextIInv == IInv /\ [Next]_vars => IInv'
<1> SUFFICES ASSUME IInv, [Next]_vars PROVE IInv'
  OBVIOUS
<1>1. CASE \/ Change
           \/ \E k \in {"reply", "markRead"} : Write(k)
           \/ \E n \in Notifications : Click(n)
  BY <1>1, ChangeStep, WriteStep
<1>2. CASE Dispatch
  BY <1>2, DispatchStep
<1>3. CASE Connect \/ Subscribe \/ Break
  BY <1>3, StreamMoves, BreakStep
<1>4. CASE Hear
  BY <1>4, HearHintStep, HearSyncRequiredStep DEF Hear
<1>5. CASE GoOffline \/ GoOnline
  BY <1>5, GoOfflineStep, GoOnlineStep
<1>6. CASE RecoverByHand
  BY <1>6, RecoverByHandStep
<1>7. ASSUME NEW c \in Calls, Call(c)
      PROVE  IInv'
  BY <1>7, SyncReadStep, SyncArrivesStep, SyncEndsStep, SyncFailsStep DEF Call
<1>8. ASSUME NEW q \in Queries, Fetch(q)
      PROVE  IInv'
  BY <1>8, FetchReadStep, FetchArrivesStep, FetchFailsStep DEF Fetch
<1>9. CASE Answered \/ WriteFails
  BY <1>9, MergedStep, MarkReadSucceedsStep, WriteFailsStep DEF Answered
<1>10. CASE UNCHANGED vars
  <2>1. Types'
    BY <1>10 DEF vars, cacheVars, IInv, Types, ServerTypes, StreamTypes, CacheTypes, version
  <2>2. Known' /\ Fetched' /\ OverflowIsAnnounced' /\ SyncingIsTrue'
    BY <1>10 DEF vars, cacheVars, IInv, Known, Fetched, Answer, OverflowIsAnnounced,
                 SyncingIsTrue, version
  <2> QED
    BY <2>1, <2>2 DEF IInv
<1> QED
  BY <1>1, <1>2, <1>3, <1>4, <1>5, <1>6, <1>7, <1>8, <1>9, <1>10 DEF Next, Mutation

\* Every reachable state satisfies the invariant: whatever names a change
\* names a committed one, and an answer on its way is as recent as what its
\* query was told of (useCustomerMessaging.ts, sse_manager.py).
THEOREM Invariance == Spec => []IInv
<1> QED
  BY InitIInv, NextIInv, PTL DEF Spec

-----------------------------------------------------------------------------
(* What the page may rely on.                                              *)

\* Every variable keeps its type, and the subscriber's queue never outgrows
\* messaging_realtime_queue_size (broadcast_event).
THEOREM TypeCorrect == Spec => []TypeOK
<1>1. IInv => TypeOK
  BY TypesIsTypeOK DEF IInv
<1> QED
  BY <1>1, Invariance, PTL

\* A change the page was told of, by a hint, a recovery or its own write, is
\* shown, on its way or reported as failed, whatever hints, recoveries,
\* fetches and writes overlap (useCustomerMessaging.ts), but for the changes
\* "missed" records: those a first load had read too early for, and those the
\* merge of a write's answer took out of a list or hid the failed fetch of.
THEOREM ToldStaysShown == Spec => []ToldIsShown
<1>1. IInv => ToldIsShown
  <2> SUFFICES ASSUME IInv, NEW q \in mounted, NEW u \in Answer(q, told[q]) \ missed[q]
               PROVE  Shows(q, u)
    BY DEF ToldIsShown
  <2>1. q \in Queries /\ fetch[q].phase \in {"none", "sent", "read", "failed"}
    BY DEF IInv, Types, CacheTypes, FetchRec
  <2>2. /\ fetch[q].phase = "read" => fetch[q].at >= u
        /\ fetch[q].phase = "none" => u \in view[q]
    <3>1. /\ fetch[q].phase = "read" => u <= fetch[q].at
          /\ fetch[q].phase = "none" => u \in view[q]
      BY <2>1 DEF IInv, Fetched
    <3>2. u \in Nat /\ fetch[q].at \in Nat
      BY <2>1 DEF IInv, Types, CacheTypes, FetchRec, Version, Answer
    <3> QED
      BY <3>1, <3>2
  <2> QED
    BY <2>1, <2>2 DEF Shows
<1> QED
  BY <1>1, Invariance, PTL

\* While a change pushed out of the subscriber's queue is not made up for, a
\* sync_required is waiting in that queue (broadcast_event), however often it
\* overflows.
THEOREM OverflowsAreAnnounced == Spec => []OverflowIsAnnounced
<1>1. IInv => OverflowIsAnnounced
  BY DEF IInv
<1> QED
  BY <1>1, Invariance, PTL

\* A page that says it is restoring has its automatic recovery in flight
\* (recoverFromRest).
THEOREM SyncingStaysTrue == Spec => []SyncingIsTrue
<1>1. IInv => SyncingIsTrue
  BY DEF IInv
<1> QED
  BY <1>1, Invariance, PTL

==============================================================================
