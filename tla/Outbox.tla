-------------------------------- MODULE Outbox --------------------------------
(***************************************************************************)
(* The transactional outbox: every event has one publication per consumer. *)
(*                                                                         *)
(* Runs of the task worker claim batches of publications under a lease     *)
(* (SELECT ... FOR UPDATE SKIP LOCKED), fan each one out into the database *)
(* in the transaction that marks it published, and mark it failed in a new *)
(* transaction when anything goes wrong.  The backend's dispatcher serves  *)
(* other consumers from the same tables: it claims without a row lock,     *)
(* sends to NATS and records the outcome under its lease.                  *)
(*                                                                         *)
(* Both derive the event's status from the statuses of its publications,   *)
(* read before the event's row is locked.  External clients of the         *)
(* reporting API do what the dispatcher does, in transactions of their own.*)
(***************************************************************************)
EXTENDS Naturals, FiniteSets

CONSTANTS
  Publication,     \* rows of outbox_publications
  Event,           \* rows of outbox_events
  EventOf,         \* the event a publication belongs to
  Worker,          \* task-worker runs (each is a lease owner)
  Dispatcher,      \* dispatch loops of backend processes (lease owners too)
  Nobody,          \* no lease owner, no lock holder, no publication
  WorkerPub,       \* publications whose consumer the task worker serves
  DispatcherPub,   \* publications whose consumer the dispatcher serves
  MaxAttempts,     \* dead_letter_after_attempts
  Crashes          \* may a worker or a backend process die?

Actor == Worker \cup Dispatcher

ASSUME EventAssumption == EventOf \in [Publication -> Event]
ASSUME PublicationAssumption == WorkerPub \cup DispatcherPub = Publication
ASSUME ActorAssumption ==
  Worker \cap Dispatcher = {} /\ Nobody \notin Actor \cup Publication
ASSUME BoundAssumption == MaxAttempts \in Nat \ {0} /\ Crashes \in BOOLEAN

VARIABLES
  row,         \* committed publications rows
  event,       \* committed status of each event
  receipt,     \* publications with a row in outbox_consumer_receipts
  delivered,   \* per publication, committed fan-outs into the database
  stream,      \* publications JetStream has (deduplicated by Nats-Msg-Id)
  pc,          \* each actor's step
  todo,        \* claimed publications a worker's run has still to look at
  work,        \* the publication and transaction an actor is busy with
  rowHolder, eventHolder   \* row locks

outcome == <<receipt, delivered, stream>>
locks == <<rowHolder, eventHolder>>
vars == <<row, event, outcome, pc, todo, work, locks>>

Row == [status : {"pending", "claimed", "published", "failed", "dead_letter"},
        owner : Actor \cup {Nobody},
        lease : {"none", "running", "expired"},
        attempts : Nat]
EventStatus == {"pending_publication", "partially_published", "published", "failed"}
Label == {"idle", "next", "receipt", "claiming", "sending", "loading", "publish",
          "event", "commit", "failing", "markfailed"}

NewRow == [status |-> "pending", owner |-> Nobody, lease |-> "none", attempts |-> 0]

\* p: the publication; old: its row as the transaction loaded it; new: the row
\* it will commit; seen: the event status it loaded; verdict: the one it
\* derived; fanout: does the commit deliver?; after: where to go next.
Work == [p : Publication \cup {Nobody}, old : Row, new : Row, seen : EventStatus,
         verdict : EventStatus, fanout : BOOLEAN, after : {"idle", "next", "sending"}]
NoWork == [p |-> Nobody, old |-> NewRow, new |-> NewRow, seen |-> "pending_publication",
           verdict |-> "pending_publication", fanout |-> FALSE, after |-> "idle"]

TypeOK ==
  /\ row \in [Publication -> Row]
  /\ event \in [Event -> EventStatus]
  /\ receipt \subseteq Publication
  /\ delivered \in [Publication -> Nat]
  /\ stream \subseteq Publication
  /\ pc \in [Actor -> Label]
  /\ todo \in [Actor -> SUBSET Publication]
  /\ work \in [Actor -> Work]
  /\ rowHolder \in [Publication -> Actor \cup {Nobody}]
  /\ eventHolder \in [Event -> Actor \cup {Nobody}]

\* OutboxService.append_event has committed every event with its publications.
Init ==
  /\ row = [p \in Publication |-> NewRow]
  /\ event = [e \in Event |-> "pending_publication"]
  /\ receipt = {} /\ delivered = [p \in Publication |-> 0] /\ stream = {}
  /\ pc = [a \in Actor |-> "idle"]
  /\ todo = [a \in Actor |-> {}]
  /\ work = [a \in Actor |-> NoWork]
  /\ rowHolder = [p \in Publication |-> Nobody]
  /\ eventHolder = [e \in Event |-> Nobody]

-----------------------------------------------------------------------------
(* Rows, leases and the status of an event.                                *)

\* Variant: a claim whose lease has expired may be taken over.
ClaimableExpired(r) == r.status \in {"pending", "failed", "claimed"} /\ r.lease # "running"

\* Due publications; when next_attempt_at comes is left open.
Claimable(r) == r.status \in {"pending", "failed"} /\ r.lease # "running"

\* Variant: the attempt is not counted.
ClaimedUncounted(r, a) == [r EXCEPT !.status = "claimed", !.owner = a, !.lease = "running"]

Claimed(r, a) ==
  [r EXCEPT !.status = "claimed", !.owner = a, !.lease = "running", !.attempts = @ + 1]

HoldsLease(r, a) == r.owner = a /\ r.lease # "expired"

Released(r, status) == [r EXCEPT !.status = status, !.owner = Nobody, !.lease = "none"]

FailureStatus(r) == IF r.attempts >= MaxAttempts THEN "dead_letter" ELSE "failed"

\* An UPDATE of an object loaded as `old` writes only the columns that differ.
Written(current, old, new) ==
  [c \in DOMAIN current |-> IF new[c] = old[c] THEN current[c] ELSE new[c]]

\* Variant: one published publication is enough.
AggregateAny(statuses) ==
  IF "published" \in statuses THEN "published"
  ELSE IF "claimed" \in statuses THEN "partially_published"
  ELSE IF statuses \subseteq {"failed", "dead_letter"} THEN "failed" ELSE "pending_publication"

\* Variant: the event takes its publications' word for dead letters.
AggregateDead(statuses) ==
  IF statuses = {"published"} THEN "published"
  ELSE IF statuses \cap {"claimed", "published"} # {} THEN "partially_published"
  ELSE IF statuses = {"dead_letter"} THEN "dead_letter" ELSE "pending_publication"

Aggregate(statuses) ==
  IF statuses = {"published"} THEN "published"
  ELSE IF statuses \cap {"claimed", "published"} # {} THEN "partially_published"
  ELSE IF statuses \subseteq {"failed", "dead_letter"} THEN "failed" ELSE "pending_publication"

\* What a transaction about to write r for p derives for p's event: its own
\* row and the committed rows of the others.
Derived(p, r) ==
  Aggregate({IF q = p THEN r.status ELSE row[q].status :
               q \in {q \in Publication : EventOf[q] = EventOf[p]}})

-----------------------------------------------------------------------------

Goto(a, label) == pc' = [pc EXCEPT ![a] = label]

Unlock(a) ==
  /\ rowHolder' = [p \in Publication |-> IF rowHolder[p] = a THEN Nobody ELSE rowHolder[p]]
  /\ eventHolder' = [e \in Event |-> IF eventHolder[e] = a THEN Nobody ELSE eventHolder[e]]

\* a reads the publication and its event without a lock.
LoadInto(a, p) ==
  work' = [work EXCEPT ![a] =
    [p |-> p, old |-> row[p], new |-> NewRow, seen |-> event[EventOf[p]],
     verdict |-> "pending_publication", fanout |-> FALSE,
     after |-> IF a \in Worker THEN "next" ELSE "idle"]]

\* The UPDATE of the publication and the SELECT of its event's statuses.  A
\* worker compares its verdict with the event it loaded and touches the event
\* (updated_at) in any case; the dispatcher reloads the event and updates it
\* only when the status changes.
WriteRow(a, new, after) ==
  LET p == work[a].p
      written == Written(row[p], work[a].old, new)
      verdict == Derived(p, written)
      seen == IF a \in Worker THEN work[a].seen ELSE event[EventOf[p]]
  IN /\ rowHolder[p] = Nobody
     /\ rowHolder' = [rowHolder EXCEPT ![p] = a]
     /\ work' = [work EXCEPT ![a] =
          [p |-> p, old |-> NewRow, new |-> written, seen |-> seen,
           verdict |-> verdict, fanout |-> work[a].fanout, after |-> after]]
     /\ Goto(a, IF a \in Worker \/ verdict # seen THEN "event" ELSE "commit")
     /\ UNCHANGED <<row, event, outcome, todo, eventHolder>>

\* The UPDATE of the event takes its row lock.
WriteEvent(a) ==
  /\ pc[a] = "event"
  /\ eventHolder[EventOf[work[a].p]] = Nobody
  /\ eventHolder' = [eventHolder EXCEPT ![EventOf[work[a].p]] = a]
  /\ Goto(a, "commit")
  /\ UNCHANGED <<row, event, outcome, todo, work, rowHolder>>

\* Variant: the receipt is not stored.
DeliverUnrecorded(a) ==
  /\ delivered' = IF work[a].fanout THEN [delivered EXCEPT ![work[a].p] = @ + 1] ELSE delivered
  /\ UNCHANGED receipt

\* The fan-out and its receipt are part of the transaction.
Deliver(a) ==
  /\ delivered' = IF work[a].fanout THEN [delivered EXCEPT ![work[a].p] = @ + 1] ELSE delivered
  /\ receipt' = IF work[a].fanout THEN receipt \cup {work[a].p} ELSE receipt

\* A COMMIT takes effect.  While publishing, the session may still see an error
\* for it (`lost`: the connection broke) and go on as after any failure; at any
\* other time such an error ends the run (Crash).
Commit(a, lost) ==
  /\ pc[a] = "commit"
  /\ row' = [row EXCEPT ![work[a].p] = work[a].new]
  /\ event' = [event EXCEPT ![EventOf[work[a].p]] =
       IF work[a].verdict # work[a].seen THEN work[a].verdict ELSE @]
  /\ Deliver(a)
  /\ Unlock(a)
  /\ work' = [work EXCEPT ![a] = [NoWork EXCEPT !.p = IF lost \/ work[a].after = "sending"
                                                     THEN work[a].p ELSE Nobody]]
  /\ IF lost THEN work[a].new.status = "published" /\ Goto(a, "failing")
     ELSE Goto(a, work[a].after)
  /\ UNCHANGED <<todo, stream>>

\* Any statement of the publishing transaction may fail, the fan-out too: it is
\* rolled back and the publication is to be marked failed.
Fail(a) ==
  /\ pc[a] \in {"receipt", "publish", "event", "commit"}
  /\ work[a].new.status \in {"pending", "published"}
  /\ Unlock(a)
  /\ work' = [work EXCEPT ![a] = [NoWork EXCEPT !.p = work[a].p]]
  /\ Goto(a, "failing")
  /\ UNCHANGED <<row, event, outcome, todo>>

\* The process dies, or an error escapes the run: what it had claimed stays
\* claimed.
Crash(a) ==
  /\ Crashes
  /\ pc[a] # "idle"
  /\ Unlock(a)
  /\ work' = [work EXCEPT ![a] = NoWork]
  /\ todo' = [todo EXCEPT ![a] = {}]
  /\ Goto(a, "idle")
  /\ UNCHANGED <<row, event, outcome>>

MarkFailed(a) ==
  /\ pc[a] = "markfailed"
  /\ WriteRow(a, Released(work[a].old, FailureStatus(work[a].old)), work[a].after)

-----------------------------------------------------------------------------
(* A run of the task worker.                                               *)

\* _claim_publications: rows locked by somebody are skipped, and the claim is
\* committed at once.  The event's status is not touched.
Claim(w, batch) ==
  /\ pc[w] = "idle"
  /\ \A p \in batch : Claimable(row[p]) /\ rowHolder[p] = Nobody
  /\ row' = [p \in Publication |-> IF p \in batch THEN Claimed(row[p], w) ELSE row[p]]
  /\ todo' = [todo EXCEPT ![w] = batch]
  /\ Goto(w, "next")
  /\ UNCHANGED <<event, outcome, work, locks>>

\* The next publication of the batch; without a valid lease it is a failure.
Load(w, p) ==
  /\ pc[w] = "next"
  /\ p \in todo[w]
  /\ todo' = [todo EXCEPT ![w] = @ \ {p}]
  /\ LoadInto(w, p)
  /\ Goto(w, IF HoldsLease(row[p], w) THEN "receipt" ELSE "failing")
  /\ UNCHANGED <<row, event, outcome, locks>>

EndRun(w) ==
  /\ pc[w] = "next"
  /\ todo[w] = {}
  /\ Goto(w, "idle")
  /\ UNCHANGED <<row, event, outcome, todo, work, locks>>

\* With a receipt there is nothing left to fan out.
CheckReceipt(w) ==
  /\ pc[w] = "receipt"
  /\ work' = [work EXCEPT ![w].fanout = work[w].p \notin receipt]
  /\ Goto(w, "publish")
  /\ UNCHANGED <<row, event, outcome, todo, locks>>

\* The receipt is unique: a second INSERT fails (Fail).
PublishRow(a) ==
  /\ pc[a] = "publish"
  /\ work[a].fanout => work[a].p \notin receipt
  /\ WriteRow(a, Released(work[a].old, "published"), work[a].after)

\* _mark_publication_failed reads the row again, whoever owns it by now.
LoadFailed(w) ==
  /\ pc[w] = "failing"
  /\ LoadInto(w, work[w].p)
  /\ Goto(w, "markfailed")
  /\ UNCHANGED <<row, event, outcome, todo, locks>>

-----------------------------------------------------------------------------
(* The backend's dispatcher, one publication at a time, and NATS.          *)

\* The claim is a SELECT without FOR UPDATE ...
Select(d, p) ==
  /\ pc[d] = "idle"
  /\ Claimable(row[p])
  /\ LoadInto(d, p)
  /\ Goto(d, "claiming")
  /\ UNCHANGED <<row, event, outcome, todo, locks>>

\* ... and an UPDATE of what it returned.
ClaimSelected(d) ==
  /\ pc[d] = "claiming"
  /\ WriteRow(d, Claimed(work[d].old, d), "sending")

\* The message reaches JetStream (again, perhaps), or sending it fails; an
\* acknowledgement may be lost.
Send(d) ==
  /\ pc[d] = "sending"
  /\ \/ stream' = stream \cup {work[d].p} /\ Goto(d, "loading")
     \/ stream' \in {stream, stream \cup {work[d].p}} /\ Goto(d, "failing")
  /\ UNCHANGED <<row, event, receipt, delivered, todo, work, locks>>

\* mark_publication_submitted and mark_publication_published share one
\* transaction: only their sum is ever committed.
LoadSent(d) ==
  /\ pc[d] = "loading"
  /\ LoadInto(d, work[d].p)
  /\ Goto(d, IF HoldsLease(row[work[d].p], d) THEN "publish" ELSE "failing")
  /\ UNCHANGED <<row, event, outcome, todo, locks>>

\* Without a valid lease the failure cannot be recorded either: the error ends
\* this round of the dispatch loop.
LoadUnsent(d) ==
  /\ pc[d] = "failing"
  /\ IF HoldsLease(row[work[d].p], d)
     THEN LoadInto(d, work[d].p) /\ Goto(d, "markfailed")
     ELSE work' = [work EXCEPT ![d] = NoWork] /\ Goto(d, "idle")
  /\ UNCHANGED <<row, event, outcome, todo, locks>>

\* The NATS consumer of the publication stores its receipt.
Consume(p) ==
  /\ p \in stream \ receipt
  /\ receipt' = receipt \cup {p}
  /\ UNCHANGED <<row, event, delivered, stream, pc, todo, work, locks>>

\* Time passes leased_until.
Expire(p) ==
  /\ row[p].lease = "running"
  /\ row' = [row EXCEPT ![p].lease = "expired"]
  /\ UNCHANGED <<event, outcome, pc, todo, work, locks>>

Next ==
  \/ \E w \in Worker :
       \/ \E batch \in SUBSET WorkerPub \ {{}} : Claim(w, batch)
       \/ \E p \in WorkerPub : Load(w, p)
       \/ EndRun(w) \/ CheckReceipt(w) \/ LoadFailed(w)
  \/ \E d \in Dispatcher :
       \/ \E p \in DispatcherPub : Select(d, p)
       \/ ClaimSelected(d) \/ Send(d) \/ LoadSent(d) \/ LoadUnsent(d)
  \/ \E a \in Actor :
       \/ PublishRow(a) \/ MarkFailed(a) \/ WriteEvent(a)
       \/ Commit(a, FALSE) \/ Commit(a, TRUE) \/ Fail(a) \/ Crash(a)
  \/ \E p \in Publication : Consume(p) \/ Expire(p)

\* An actor's next step when nothing goes wrong.
Proceed(a) ==
  \/ PublishRow(a) \/ MarkFailed(a) \/ WriteEvent(a) \/ Commit(a, FALSE)
  \/ a \in Worker /\ (EndRun(a) \/ CheckReceipt(a) \/ LoadFailed(a)
                        \/ \E p \in WorkerPub : Load(a, p))
  \/ a \in Dispatcher /\ (ClaimSelected(a) \/ LoadSent(a) \/ LoadUnsent(a) \/ Send(a))

\* What is under way goes on while its process lives and PostgreSQL serves lock
\* waiters; the scheduler starts runs again and again, and the claim query
\* takes the longest waiting publications first.
Fairness ==
  /\ \A a \in Actor : SF_vars(Proceed(a))
  /\ \A p \in WorkerPub :
       SF_vars(\E w \in Worker, batch \in SUBSET WorkerPub : p \in batch /\ Claim(w, batch))

Spec == Init /\ [][Next]_vars /\ Fairness

-----------------------------------------------------------------------------
(* Properties.                                                             *)

\* The publications a run of the worker has claimed and not finished.
Holding(a) == todo[a] \cup ({work[a].p} \ {Nobody})

\* However often a publication is claimed, retried or its COMMIT reported
\* lost, its fan-out is committed at most once (_process_publication stores
\* the receipt in the transaction of the fan-out).
DeliveredOnce == \A p \in Publication : delivered[p] <= 1

\* No two runs of the worker ever work on one publication, although leases
\* run out and nothing renews them (_claim_publications takes only rows
\* nobody has claimed).  A publication that the dispatcher serves as well is
\* no such row: the dispatcher claims without a lock, and what it commits can
\* make the row claimable under a run that holds it.
OneRunPerPublication ==
  \A v, w \in Worker : v # w => Holding(v) \cap Holding(w) \subseteq DispatcherPub

\* A publication is marked published, and an event reported published, only
\* when every consumer concerned has been served: fanned out by the worker or
\* accepted by JetStream.
Served(p) == delivered[p] = 1 \/ p \in stream

PublishedIsServed ==
  /\ \A p \in Publication : row[p].status = "published" => Served(p)
  /\ \A e \in Event : event[e] = "published" =>
       \A p \in Publication : EventOf[p] = e => Served(p)

\* Nobody will look at the publication again: it is claimed, its claimer is
\* gone, and claim queries pass over it.
Stranded(p) == row[p].status = "claimed" /\ \A a \in Actor : p \notin Holding(a)

\* Retries end: every publication of the worker ends up published, dead or
\* stranded (dead_letter_after_attempts).
RetriesEnd ==
  \A p \in WorkerPub : <>[](row[p].status \in {"published", "dead_letter"} \/ Stranded(p))

=============================================================================
