# CyberVPN in TLA+

TLA+ modules for the parts of CyberVPN where concurrent or failing steps can go wrong: the wallet
and its withdrawals, the checkout that pays with it, the transactional outbox, the message inbox it
feeds, the HTTP client of the web portals, the connection of the desktop client, and the daemon of a
Helix node. TLC checks the modules on small instances; much of it is also proved with TLAPS for every
value of the constants. Paths below are relative to the repository root; `backend/` stands for
`backend/src/`.

1. [The system](#1-the-system)
2. [Modules](#2-modules)
3. [How the code becomes a model](#3-how-the-code-becomes-a-model)
4. [Runs](#4-runs)
5. [What the violated runs show](#5-what-the-violated-runs-show)
6. [Proofs](#6-proofs)
7. [Not modelled, and why](#7-not-modelled-and-why)
8. [Plan](#8-plan)

## 1. The system

| component | state it keeps | operations | interacts with |
|---|---|---|---|
| wallet (`wallet_repo.py`) | `wallets` row (balance, frozen), `wallet_transactions` ledger | credit, debit, freeze, unfreeze | every flow that moves money, through one database session each |
| withdrawals (`use_cases/wallet`) | `withdrawal_requests` rows | request, approve, reject, admin top-up | wallet |
| checkout and webhooks (`use_cases/payments`) | `payments`, advisory lock per idempotency key, Redis marks | quote, commit checkout, zero-gateway, paid / failed webhook, post-payment | wallet, CryptoBot, Redis |
| payment attempts (`use_cases/payment_attempts`) | `payment_attempts` of an order | create, settled by webhooks | checkout |
| messaging outbox worker (task-worker) | leases on `outbox_publications`, `outbox_consumer_receipts` | claim, fan out, publish, fail, dead-letter | shares the tables with the backend |
| backend outbox and NATS runtimes | `outbox_events`, `outbox_publications` | append, claim, submit, publish, fail, refresh status, consume | worker, JetStream |
| partner payouts (`use_cases/settlement`) | instructions, executions | create, approve, reject, execute, complete | wallets of partners, maker and checker |
| growth codes and reservations | reservations per code | reserve, consume, release | checkout, post-payment |
| web API clients (`src/{frontend,partner,admin}/src/lib/api/client.ts`) | refresh flag and queue of a tab, cookie jar of the browser | send, hold, refresh, replay, give up | backend sessions |
| backend sessions (`use_cases/auth`) | refresh tokens | login, rotate, log out | web API clients |
| customer message inbox (`useCustomerMessaging.ts`, `sse_manager.py`) | query cache, recovery guard, subscriber queues | hear a hint, recover, refetch, reply, mark as read, click a notification | backend outbox |
| desktop connection (`src-tauri/src/ipc`, `engine/manager.rs`) | attempt counter, status, process slot, exit flag, system proxy | connect, disconnect, watch, crash | VPN core processes |
| helix node daemon (Rust) | bundle files, snapshot in memory and on disk, running server | stage, apply, health gate, roll back, restart | helix adapter |
| helix adapter (Rust) | nodes, rollouts, heartbeats | assign, observe, gate a canary | helix nodes |
| identity and roles, API surface, schedules, node fleet controller, Telegram bot | request-scoped look-ups, or I/O | | backend |
| beep and verta protocols, helix runtime | transport sessions | | clients and nodes |
| web pages, mobile and TV clients, desktop pages, infrastructure, SDK | none of their own that others rely on | | backend API |

Where these parts are hard, and what makes them correct:

* **Wallet and withdrawals.** Any number of requests work on one row. The row lock (`SELECT ... FOR
  UPDATE`) serialises the arithmetic, but the status of a request is read before the lock and never
  again. Correct means: the hold never exceeds the balance, the balance is what the ledger adds up
  to, a completed request was paid, once, and each hold ends once.
* **Checkout.** The share is quoted without a lock, an external invoice is created inside a database
  transaction, webhooks come at least once and from several deliveries at a time, and Redis may be
  down. Correct means: one payment per idempotency key and checkout mode, money leaves only with the
  payment that it pays, a crash between commit and mark loses nothing, nobody waits in a circle.
* **Outbox.** Leases expire while their holder works, a COMMIT may succeed although the client sees
  an error, a process may die after its claim. Correct means: one fan-out per publication, one worker
  run per publication, published only when served, retries that end, no publication forgotten.

* **Web API clients.** A burst of requests meets one expired token: one refresh, everybody else
  waits for it. The flag of a tab does not reach the other tabs, the cookies do. Correct means: one
  refresh per tab, nobody parked without a refresh that will release him, every promise settled, no
  tab a victim of its own rotation.
* **Inbox.** Hints carry no data and come in any order; fetches, recoveries and the customer's own
  writes put answers of different ages into one cache. Correct means: what the page was told of is
  shown or on its way, lost hints are announced, recoveries end and the status tells the truth.
* **Desktop connection.** Commands run side by side and share a status, a slot and one exit flag;
  a superseded connect finds out at its next look at a counter; a process handle may be dropped with
  the process alive. Correct means: no core unwatched, none out of reach, none left after a
  disconnect, no proxy without a core.
* **Helix node.** Crashes come in the middle of a file replacement, the restored snapshot speaks of
  a server that is gone, sockets outlive their server. Correct means: ready is served, the known
  good bundle was proven and is at hand, the node ends up serving its assignment.

`PROJECT.json` lists every component with the reason for what is left out, and under `hazards` the
places in the code where these things could go wrong, each with the properties that cover it.

## 2. Modules

| module | models | uses |
|---|---|---|
| `Wallet` | the row, its four operations, the row lock, and how a session's flushed changes are committed or rolled back | |
| `Withdrawals` | request, review, top-up as interleaved sessions | extends `Wallet`; refines `Account` |
| `Account` | the abstract promise: deposits, and holds that are captured or released exactly once | |
| `Checkout` | quote, idempotency lock, freeze, invoice, webhooks, post-payment debit, Redis mark | extends `Wallet` |
| `Outbox` | worker runs and the dispatcher over publications, leases, receipts and event status | |
| `PortalClient` | the two interceptors of the API client, in tabs over one cookie jar, and the refresh tokens behind them | refines `SingleFlight` |
| `SingleFlight` | the abstract promise of the interceptors: one leader renews the session of a tab, the others join it and leave with it | |
| `Inbox` | the page's query cache, stream and recoveries, and the backend's dispatcher and queue | |
| `Desktop` | connect and disconnect commands, process manager, watchdogs, system proxy | |
| `HelixNode` | control loop, bundle store, supervisor and rollback of a node | |
| `MCCheckout`, `MCOutbox`, `MCHelixNode` | instances for TLC: a symmetry set, the publications and events of a small outbox, four documents of two bundle versions | |
| `WalletProofs`, `WithdrawalsProofs`, `OutboxProofs`, `PortalProofs`, `DesktopProofs`, `HelixProofs`, `CheckoutProofs`, `InboxProofs` | the theorems of section 6 | |

Operators with the comment "Variant:" are not part of the model. Each is one of its definitions
with a plausible mistake in it (a dropped check, an uncounted attempt, a lock kept or skipped); the
`mutants` of `PROJECT.json` put it in the definition's place and name the property that TLC then
finds violated. They show that every property depends on the code it is about.

## 3. How the code becomes a model

**Sessions and transactions.** Each HTTP request runs in one `AsyncSession`, committed when its
route returns and rolled back when it raises (`infrastructure/database/session.py`). A session is a
process with a program counter. What it has flushed is its own (`draft`, or `work[a].new` in
`Outbox`) until a commit step publishes it; `Abort` / `Crash` may strike at every step and throws it
away with the locks. Isolation is PostgreSQL's READ COMMITTED: unlocked reads see committed rows,
and a read of a locked row is a step of its own, so whatever the code reads before it locks can be
stale when it is used. One step stands for several statements only if all but one of them concern
rows nobody else can change meanwhile.

**Wallet.** `wallet` is the committed row, extended by two histories: `ledger` (the sum of the
`wallet_transactions`) and `debited` (how much was debited for each reference). `holder` is the
session that holds the row lock. `Credit`, `Debit`, `Freeze`, `Unfreeze` with `CanDebit`,
`CanFreeze`, `CanUnfreeze` are `wallet_repo.py:43-140`: a debit asks for `balance - frozen`, freezes
do the same, an unfreeze asks for `frozen`. Amounts are integers; the `Decimal`s of the code never
overflow and are only added, subtracted and compared.

**Withdrawals.** `Review` is the unlocked look at the request, `Approve` (debit, then unfreeze) and
`Reject` wait for the row and flush, `Refuse` is the debit or unfreeze that raises. `Commit` writes
the request's status as the code does, without looking at it again, so a second review of a request
that is still in hand may undo what the first has decided. `contested` is a history: the requests that
two sessions have had under review at once.

**Checkout.** `Quote` takes its share from an unlocked read. `LockKey` is `pg_advisory_xact_lock` on
the key alone, after which `KeyUsed` looks for a payment of the key *in the same checkout mode*
(`payment_repo.py:64`): a `Retry` is a key with a mode. A new one goes on to `FreezeShare`, then
`CreateInvoice` while the wallet row is still locked, then `CommitCheckout`; a checkout with nothing
left to pay at the gateway goes from `CreateZeroGateway` straight into post-payment. Two details of
SQLAlchemy decide what the debits see. Its identity map is weak: the wallet read by the quote
(`checkout.py:267`, dropped at once) is gone when `freeze` selects the row for update, so the freeze
sees fresh values (`draft`). `post_payment.py:443` keeps the wallet it read in a local variable; the
locking SELECT inside `debit` returns that object without refreshing it, and the new balance is
computed from `copy`. Only columns that changed are written. CryptoBot is an environment:
`SettleInvoice` pays or closes an invoice, and while the duplicate check lets it through
`ReceiveWebhook` may deliver its outcome any number of times and to several sessions. `LatePayment`
says whether an invoice CryptoBot closed can still be reported paid, `RedisOutage` whether the
duplicate check may fail and be skipped. An error anywhere is an `Abort` or, inside one of the `try`
blocks of post-payment processing that swallow it (`post_payment.py:441-461` for the wallet),
`StatementFails`: PostgreSQL has aborted the transaction, the COMMIT of `payment_webhook.py:131`
rolls it back without an error, and the webhook is marked all the same (line 75). The failure may be
any: a deadlock, a constraint, a timeout. The history `undone` names the payments that was done to.

**Outbox.** A worker run claims with `FOR UPDATE SKIP LOCKED` and commits at once (`Claim`), then
takes its publications one by one: `Load` with the lease check, `CheckReceipt`, `PublishRow`,
`WriteEvent`, `Commit`. Anything that raises leads to `LoadFailed` and `MarkFailed` in a new
transaction, without a lease check. The dispatcher (`nats_messaging_runtime.py` over
`outbox_repo.py`) selects without a lock (`Select`), claims what it selected (`ClaimSelected`),
sends, and records the outcome if it still holds the lease; otherwise the error ends its round
(`LoadUnsent`). `Written` is what an ORM update does: only the columns that differ from the loaded
object reach the row. A lease is `none`, `running` or `expired`, and `Expire` may come at any time;
when a retry is due is left open, so every delay is covered. `stream` is a set because JetStream
drops a message whose `Nats-Msg-Id` it has seen; its deduplication window is taken to be long
enough. `receipt` is unique per consumer and event, so a second insert is a failure. The dispatcher may
serve the worker's consumers too (`DispatcherPub` and `WorkerPub` may overlap).

**PortalClient.** JavaScript runs to the next await, so what an interceptor does between two awaits
is one action: `Gate` (with `Issue`) is the request interceptor, `GiveUp`, `Wait`, `StartRefresh`,
`RefreshSucceeds`, `RefreshRefused`, `RefreshLost` the branches of the response interceptor.
`failedQueue` holds both requests parked at the gate and requests that came back with 401; both
leave with the cookies of the moment they are replayed. The three portals share the code, except
that the admin client awaits `hasActiveCookieSession` before it gives up a session (`ProbesSession`,
`Probed`). A number stands for a pair of tokens; `ReadToken` and `Rotate` are two actions since
`refresh_token.py` reads the token's row without a lock. `rotatedBy` and `lost` are histories.
Requests that answer other errors than 401, or none, fail (`Fail`).

**Inbox.** A change is a version, and `about` says which conversation or notification it concerns; a
hint says that one was committed. The page mounts the list of conversations, the open conversation
and the list of notifications, or some of them. `view[q]` is the set of changes the cached answer of
a query shows: `Answer(q, v)` when the query read version `v`, with holes once `Merge` has put the
answer of a write into it. `Merge` is the `setQueryData` of the `onSuccess` callbacks: it replaces
the one conversation or notification that was written, in a list that may be newer, starts no fetch,
and takes a query that had failed out of its error. Marking a conversation as read has no merge, its
list is invalidated (`MarkReadSucceeds`). `Restarted` is react-query's `invalidateQueries`: a query
with data is cancelled and fetched again, a first load goes on. `Dispatch` takes the events in any
order and finds no subscriber until the generator of the stream is asked for its second chunk
(`Connect`, `Subscribe`). `told`, `missed` and `overflowed` are histories: what each query has been
told to show; which of these changes the code then lets it miss, because a first load had read its
answer before the hint (`TooLateFor`) or because a merge took the change out or wiped the error that
stood for it (`LostByMerge`), until a later answer shows them; and which changes the queue has lost
without a word so far.

**Desktop.** A command is a process whose number is its attempt id. It may be interrupted wherever
the Rust code takes a lock of its own, and every access to `status`, the slot, `expected_exit` and
the counter is an action. Errors between two accesses are one action with several origins (`Fail`).
`StopThen` remembers where a command goes on after `ProcessManager.stop`, of which `ExpectExit`,
`Take` and `Kill` are the three accesses. A core may survive in two ways the code allows:
`CaptureFails` is a start that returns an error after `command.spawn()` has succeeded
(`manager.rs:510-520`, always so for the pkexec command of lines 483-493, which pipes no output),
and `KillFails` is `child.kill()` failing at line 700; the history `abandoned` names these cores.
`Watchdog` is the task `start` spawns for each core; it looks into the slot, whoever's core is in
it. Whether the user wants the proxy set is left open, and so is whether a probe succeeds as long as
some core runs.

**HelixNode.** One loop, so `pc` is a single program counter; a step ends where the daemon may die
or the world may change: at a file replacement, a spawn, the health gate. `Save` writes memory and
file together; `CrashInSave` and `CrashInStage` are the death between `remove_file` and `rename`. A
document stands for its fingerprint; documents of one bundle version may differ, and `staged` keeps
one of them per version. `lingering` are the sockets of a server whose shutdown was signalled but
not awaited. `proven` and `torn` are histories.

## 4. Runs

Every module with state has one type invariant; the other properties are these.

| run | instance | properties | states |
|---|---|---|---|
| `withdrawals` | 2 admins, 1 client, 3 requests, amounts 1 and 2, opening balance 2, top-ups up to 3 | `TypeOK`, `HoldsCovered`, `LedgerAgrees`, `CompletedIsPaid`, `HoldsExact`, `PaidOnce`, `ImplementsAccount`, `ReviewsEnd` | 192 009 |
| `checkout_keys` | 2 sessions, 2 payments, 1 key in 2 modes, shares 0 and 1, every invoice has one outcome | `OnePaymentPerKey`, `DebitCompletes` | 5 701 301 |
| `checkout` | 2 sessions, 2 payments, 1 mode, share 1, invoices reported both closed and paid, Redis outages | `TypeOK`, `MarkedIsSettled`, `CyclesOnlyWhenLate`, `NonNegative` | 7 269 513 |
| `outbox` | 2 worker runs, 1 dispatcher, one event with a publication for each, 2 attempts, crashes | `TypeOK`, `DeliveredOnce`, `OneRunPerPublication`, `PublishedIsServed`, `RetriesEnd` | 140 757 |
| `portal_client` | 1 tab, 3 requests, 2 expiries, no session probe | `TypeOK`, `NobodyLeftBehind`, `EveryRequestSettles`, `ImplementsSingleFlight` | 284 987 |
| `portal_tabs` | 2 tabs, 3 requests, 1 expiry, with the probe | `FlagIsTheRefresh`, `OwnRotationAccepted` | 1 728 540 |
| `inbox` | two pages (conversations with one of them open; notifications), 3 changes, a queue of 1, 1 upset, some answers cached | `TypeOK`, `ToldIsShown`, `OverflowIsAnnounced`, `SyncingIsTrue`, `RecoveriesEnd` | 687 204 |
| `desktop` | 3 commands, 1 mishap (a core dies, survives its start, or survives its kill) | `TypeOK`, `Watched`, `NoOrphan`, `NoCoreAfterDisconnect` | 6 118 615 |
| `helix` | 4 documents (2 of one version, 1 paused), 2 changes, 3 upsets | `TypeOK`, `ReadyIsServed`, `KnownGoodWasProven`, `KnownGoodIsLocal`, `Converges` | 163 706 |

What they show:

* `withdrawals`: the row lock is enough to keep the wallet itself sound (`HoldsCovered`,
  `LedgerAgrees`) and to have a committed debit behind every completed request
  (`CompletedIsPaid`), even though two admins may process one request. What a double review breaks is
  contained: every request that two sessions have not had in hand at once is paid once or never
  (`PaidOnce`), whatever happened to other requests; until the first such request the wallet freezes
  exactly the pending ones (`HoldsExact`), and the specification refines `Account`
  (`ImplementsAccount`). Every review ends (`ReviewsEnd`). Section 5 tells what the double review does.
* `checkout_keys`: an idempotency key names one payment of each checkout mode whatever is retried, and
  wallet money leaves only in the transaction that completes a payment.
* `checkout`: an invoice Redis calls processed has its outcome in the database, unless a swallowed
  error has undone just this payment (`undone`; section 5); the wallet has
  no negative amount even after stale debits, and sessions wait for each other in a circle
  only over a payment reported both closed and paid (the two webhooks lock wallet and payment in
  opposite order).
* `outbox`: a publication is fanned out once although leases expire, fan-outs fail, COMMITs are lost
  and processes die; two worker runs never share a publication that only the worker serves; what is
  called published was served; and every publication of the worker ends up published, dead-lettered
  or stranded by a crash.
* `portal_client`: in the customer and partner portals a parked request always has a refresh in
  flight that will release it, and each request is fulfilled or rejected in the end, whatever
  expires, is refused or gets lost. The client implements `SingleFlight` (`ImplementsSingleFlight`):
  without flag, queue or promise, a tab has at most one request that leads a renewal, those that
  join it leave with it and share its fate, and none leads twice, so a session that cannot be
  renewed is not asked for for ever. The admin client does not: a failed refresh rejects the parked
  requests while the request behind it still awaits the session probe. `portal_tabs`: the flag of a
  tab is up exactly while its refresh is in flight, in the admin client too, and a tab is refused a
  token it has rotated itself only after a lost answer. That another tab may be refused one is how
  the code is.
* `inbox`: hints may be late, out of order or dropped by a full queue, fetches may be restarted and
  recoveries overlap: a change the page was told of, by a hint, a recovery or its own write, is shown or
  being fetched, but for the `missed` ones of section 3; a dropped hint is announced, "syncing" means
  a recovery is in flight, and each recovery ends.
* `desktop`: three commands in any interleaving with each other, with the watchdogs and a mishap
  leave no core unwatched, and none out of reach or running after a disconnect that went through,
  except a core whose handle the code has dropped (`abandoned`; section 5).
* `helix`: a node that says ready serves what it says; the version it calls known good has passed
  the gate and is on its disk, crashes in a file replacement excepted; and once the assignment stays
  and the faults end, the node serves exactly the assigned document and says so (`Converges`).

**Bounds.** `MaxBalance` caps top-ups at one unit above an opening balance of 2; with amounts 1 and
2 the cases "exactly enough", "too much" and "only because frozen" all occur. Three requests are
needed for a double review to eat the hold of another request; two admins are the smallest double
review, and the row lock and the status check treat any number of sessions alike (section 6 proves
it for any). Two sessions and two payments give every pair of interleaved checkouts and webhooks,
among them two deliveries of one webhook and a webhook of each outcome; one key with two checkouts
in two modes, plus requests without a key, is all that mutual exclusion on a key can show. `MaxRuns`
stops webhooks for a payment that was post-processed twice; one more run of it repeats the same
steps. A lock cycle of three sessions is out of the bound of `checkout`. In the outbox two attempts
give a first failure, a retry and a dead letter; the dispatcher's publication shares the event,
which is what the event's status needs. Runs claim batches of one there: the batch in the model is a
set in any order, and what a longer batch brings, a lease that expires before its publication's
turn, is `Expire` between `Claim` and `Load`. In `portal_client` one request starts a refresh, a
second waits for it after a 401 and a third is held at the gate; two expiries let a replay fail
again. Two tabs are the smallest race for a cookie jar. In `inbox` three versions are enough for two
hints in the wrong order, for an overflow of a queue of one and for a write that meets a change of
the same and one of another conversation; one upset is one fault between any two of these. The
queries of one page do not wait for each other but in a recovery, so the notifications have a page
of their own. In `desktop` one bound, `MaxMishaps`, counts dead, uncaptured and unkilled cores
together, and three commands are a connect that is superseded by a disconnect or a connect that is
superseded again; the theorems cover more of both. In `helix` two changes give a good document, one
that replaces it under the same version or another, and the way back; three upsets are a failed
apply, a crash and a lingering socket in one behaviour.

**Fairness.** Safety properties need none. `ReviewsEnd` assumes weak fairness of `Commit` (a route
that has returned commits) and strong fairness of `Approve`, `Reject` and `Refuse`: PostgreSQL
queues the waiters of a row lock, so one of them is served if the lock is free again and again, and
the backend sets neither `statement_timeout` nor `lock_timeout`. `RetriesEnd` assumes strong
fairness of each actor's next step (`Proceed`; lock waiters again), and of claiming each publication
of the worker: the scheduler starts the task at a fixed interval, and the claim query orders by
`next_attempt_at`, so a publication cannot be passed over for ever. No fairness makes a crash, an
error, an expiry or a lost commit happen or not happen. `EveryRequestSettles` assumes weak fairness
of the answer to each request and each refresh: the client's timeout (`timeout: 10000`) turns
silence into an error, and callbacks run when their promise is settled. `RecoveriesEnd` assumes that
calls and fetches are answered or fail, for the same reason, and nothing of the stream. `Converges`
assumes that the service manager restarts a dead daemon, that the control loop goes on, and that
stopped listeners close; failed polls, launches and gates stay possible up to their bound. `Desktop`
states none: it has no liveness property, since nothing in the code limits how long a probe or a
profile download takes.

## 5. What the violated runs show

Each of these runs checks one statement of the repository and finds a behaviour of the code against
it. The quotations are in `PROJECT.json` under `findings`.

| run | statement | what happens |
|---|---|---|
| `checkout_marked` | a paid webhook is marked "only after safe paid side effects finished" (`MarkedAfterSideEffects`) | a statement of post-payment processing fails, the error is swallowed, the COMMIT rolls back without an error, the mark is set: later deliveries are dismissed and the paid payment stays pending |
| `portal_stranded` | requests are queued while a refresh is in progress, and settled after it (`EveryRequestSettles`) | the admin client empties the queue, awaits the session probe, then lowers the flag; a request parked during the probe is never released |
| `desktop_proxy` | the proxy does not stay active while the core is dead (`ProxyOnlyWithCore`) | the readiness probes fail, the core is stopped, the error is returned, and the proxy set just before stays set |

Other statements of the repository that the models were seen to contradict. No run checks them; each
can be reproduced by stating the property against the module named.

* `Withdrawals`: "The frozen amount prevents the user from spending funds that are pending
  withdrawal" (`request_withdrawal.py:19-20`). Two admins review one request, both pass the unlocked
  status check (`process_withdrawal.py:23`), and the second releases money frozen for another one.
* `Withdrawals`: "Debit the frozen amount from wallet" (`process_withdrawal.py:28`). The debit comes
  before the unfreeze and does not count frozen money, so a request for more than half of the balance
  cannot be approved.
* `Checkout`: "SELECT ... FOR UPDATE to prevent concurrent wallet modifications"
  (`wallet_repo.py:27`). Post-payment computes the balance from an object loaded before the lock
  (`post_payment.py:443`), and a concurrent debit is lost.
* `Checkout`: "Duplicate invoice processing prevention (idempotency)" (`webhook_handler.py:5`). Two
  deliveries both read the payment pending (`payment_webhook.py:94`); the Redis mark comes after the
  commit.
* `Checkout`: "On webhook success: debit frozen amount"
  (`docs/InviteRefferalPartnersPromo-codes/reactive-booping-mist.md:168`). The frozen share counts as
  unavailable, the refusal is swallowed (`post_payment.py:456`), the payment completes without it.
* `Checkout`: "Find a recent checkout payment created for the same customer retry key"
  (`payment_repo.py:49`), and a second use answers "Idempotency-Key was already used for a different
  checkout request" (`commit_checkout.py:109`). The look-up also asks for the checkout mode
  (`payment_repo.py:64`), so an upgrade and an add-on checkout under one key do not find each other,
  and both create a payment.
* `Outbox`: "dispatcher outage must create backlog, not silent event loss"
  (`docs/api/platform-foundation-outbox-contract.md:144`). A publication whose claimer died stays
  claimed for ever.
* `Outbox`: "Aggregate event status is derived from publication rows" (line 113 there). Worker and
  dispatcher publish the last two publications at once, each reads the other's as claimed, and the
  event stays partially published.
* `PortalClient`: "Queue requests while a token refresh is in progress"
  (`frontend/src/lib/api/client.ts:149`). The flag is the tab's, the cookie jar is the browser's:
  two tabs refresh with one token, and the one that comes second is refused and gives up a session
  that has just been renewed.
* `Inbox`: "Clients must call the REST sync endpoint after connect"
  (`docs/realtime/messaging-gateway.md:29`). The page only shows "connected"
  (`useCustomerMessaging.ts:499-508`); a change between its first fetch and the subscription is not
  shown until the next hint.
* `Desktop`: after a disconnect while connecting "final state is truthful"
  (`docs/plans/2026-04-19-desktop-client-ux-regression-matrix.md:49`, UX-05, pending). A superseded
  connect writes "connecting" before its first look at the counter (`ipc/mod.rs:958`, `994`) and
  nothing takes it back.
* `Desktop`: "wrap the command in pkexec to seamlessly prompt for user password" (`manager.rs:485`). The
  pkexec command pipes no output, so the start fails at "Failed to capture stdout" (line 515) after it
  has spawned the process and drops the handle, which does not end it: the user is told that the
  connect failed, and once he has typed his password a core runs that no disconnect reaches. A kill
  that fails (line 700) leaves one too.
* `HelixNode`: "roll back to last-known-good bundle" (`services/helix-node/README.md:10`). Staging
  overwrites the file of the known good version when a new document has the same version
  (`runtime/mod.rs:147`); the rollback then starts the document that has just failed.

## 6. Proofs

8638 obligations, all discharged by SMT (Z3), Zenon and the PTL backend. The only assumptions are
those declared in the modules, and TLC evaluates them in the runs. `Wallet` and `Withdrawals`:
`NoSession` is not a session, admins are sessions, amounts are positive integers, the opening
balance and the bounds are natural numbers. `Outbox`: every publication has an event and a consumer,
a process is a worker or a dispatcher, and `Nobody` is neither of these nor a publication.
`Checkout`: shares are natural numbers, `NoKey` is not a key with a mode, the bound on job runs is a
natural number, the two flags are Boolean, and there are at most 200 payments, as many as the
look-up of a key reads. `PortalClient`: at least one tab, a Boolean for the probe, a natural bound.
`Desktop`: natural bounds. `HelixNode`: natural bounds, at least one document, a bundle for each,
none of them called like the bootstrap bundle or like no bundle. `Inbox`: pages and cached queries
are sets of the queries there are, at least one change, a queue of at least one event, a natural
bound on upsets. Two theorems of `PortalProofs` are about the clients without the session probe, and
say so.

* `WalletProofs`. Lemmas on what each operation returns, and `OperationsAreSound`: applied where its
  check allows it, an operation keeps the row *sound*, that is, covered (`0 <= frozen <= balance`)
  and in agreement with its ledger.
* `WithdrawalsProofs`. `TypeCorrect` is `Spec => []TypeOK`. `HoldsCovered`, `LedgerAgrees` and
  `CompletedIsPaid` are not inductive: they say nothing about what a session holding the lock is
  going to commit. `IInv` adds `LockInv` (only a session that waits to commit holds the lock, and
  without one the draft is the committed row), `FlushedInv` (an approval that is about to commit has
  the debit of its request in the draft), and soundness of both the draft and the committed row.
  `Invariance` is `Spec => []IInv`; from it follow `HoldsStayCovered`, `LedgerStaysExact` and
  `CompletedMeansPaid`. The steps that flush, the steps that touch neither row, the commit and the
  abort each have a lemma; one step per action applies it. Nothing stops two admins from reviewing
  one request, so the status read before the lock may be stale after it; it is not as long as the
  request is not contested (`ReviewInv`), and two sessions with one request in hand have contested
  it (`ContestInv`). `WorkflowInv` adds these two, that a request about to be inserted is new
  (`RequestInv`), and what the draft of each kind of session adds to the committed row (`DraftInv`).
  `PaidAtMostOnce` is `Spec => []PaidOnce`, for any number of reviewers: each request that is not
  contested is paid once or never. `Implementation` is `Spec => ImplementsAccount`: with the mapping
  of `AbstractAccount` a commit is one step of `Account` (a deposit, a placed hold, a capture or a
  release) and every other action is a stutter; it claims nothing of the steps from the first
  contested request on. `HoldsStayExact` is `Spec => []HoldsExact`. The sum in `HoldsExact` is a
  recursive function over sets that takes its elements in no given order; it is shown to be the size
  of a set of units, as many for each pending request as its amount (`TotalIsUnits`, by a smallest
  counterexample among the finite sets of requests), and the facts on finite cardinality do the
  rest. `ExactInv` adds that only finitely many requests are pending; of the commits only those that
  insert or settle a request change hold or status, and they change both (`CommitExact`).

* `OutboxProofs`. `OutboxTypeCorrect` needs `PlaceInv`: an actor names a publication exactly while
  it is busy with one, so it never writes a row it has not loaded. `RunsKeptApart` is the first
  property that is not inductive: a claim takes what is pending or failed, so `RunInv` adds that
  nothing a run holds has one of these statuses, but for what a dispatcher may write as well
  (`HeldInv`), and that everybody works on publications of consumers he serves (`OwnConsumers`). The
  one hard step is the commit that gives a row back to the claim query: its session held the
  publication, hence no other run does. Where the dispatcher serves the worker's consumers two runs
  may share a publication, and the property excepts exactly these. `FanoutsDeliveredOnce` and
  `PublishedMeansServed` hold there too. They do not rest on `RunInv` but on the row lock
  (`LockInv`: who has written a publication holds its row until the commit) and on `OutcomeInv`: a
  receipt stands for a fan-out or for a message in the stream (`ReceiptInv`); a transaction that is
  going to fan out finds nothing delivered when it has locked the row, and one that is going to call
  a publication or its event published leaves every publication concerned served when it commits
  (`ActorInv`). All of it holds for any number of workers and dispatchers and whatever consumers
  they share; the runs have one dispatcher that shares none.

* `PortalProofs`. For any tabs and requests. `FlagIsTheRefresh` is inductive once the types are
  known: only the request that starts a refresh is in phase `refreshing`, and only the end of the
  refresh takes it out. `NobodyLeftBehind` needs that no refresh is waiting for the session probe
  and that a queue is non-empty only while the flag of its tab is up (`Held`), and assumes
  `ProbesSession = FALSE`: with the probe it is false. `OwnRotationAccepted` says nothing of how a
  token could come back to a tab that has rotated it, so `Own` does: a pair on its way to the jar,
  minted by a sign-in or by a rotation, carries a number that no jar, refresh or past rotation names
  and no other such pair has (`Deliveries`), and a token that a tab has rotated is lost, in the
  answer on its way, or gone from the jar and from the refresh of that tab (`Spent`).
  `Implementation` is `(ProbesSession = FALSE) => (Spec => ImplementsSingleFlight)`. It takes the
  lock, `Held` and two facts about requests: one that was never sent has no retry mark (`Unled`),
  and one in phase `refreshing` is the one its tab's refresh names (`Leads`), whence the flag of a
  tab is up exactly while the abstract flight has its leader (`LeadersAndParked`). A 401 that starts
  a refresh takes off, one that waits and a request stopped at the gate join, the three ends of a
  refresh land, an error rejects, everything else is a stutter.
* `DesktopProofs`. For any number of commands and mishaps, except for the cores in `abandoned`. The
  invariant adds two facts to `Watched` and `NoOrphan`. `FlagIsMeant`: while a core is in the slot
  the exit flag is up only between a stop's raising it and its taking the core, because a launch
  lowers the flag under the slot's lock. `LeftoverIsDoomed`: once the last command is a disconnect
  that is past its own stop, a core still in the slot has a command that will stop it, one already
  stopping or a superseded connect that has not looked at the counter since (`WillStop`).
  `DisconnectIsFinal` is the case where nothing is under way.
* `HelixProofs`. For any documents, versions and bounds. The invariant adds what each stage of a
  sync has in hand: the bundle of the staged document is on disk until the sync is over
  (`InHandIsLocal`), that of a rollback is when it goes back to one (`TargetIsLocal`), and `Serving`
  strengthens `ReadyIsServed` by three facts: a process that has not synced yet runs no server, the
  snapshot is not ready while a document is applied, and the gate looks at the server of the
  document in hand.
* `CheckoutProofs`. For any number of sessions, keys, modes and shares, and up to 200 payments. `Locked` says where a
  holder of each lock can be; `KeyGuarded` that a checkout past `LockKey` holds its key and past
  `NewKey` finds no payment of it; `ChargedAtCommit` that a flushed debit belongs to a session at
  its commit; `NeverNegative` extends `NonNegative` to drafts and copies; `Payments` says what a job
  knows of its payment: a checkout's is its own and absent, a webhook's exists once it was read, and
  its invoice has reported the webhook's event. `MarksSettled` adds to `MarkedIsSettled` that a
  webhook about to mark works on a settled payment or on one in `undone`; the hard steps are
  `StatementFails`, which goes on to mark although its transaction is lost, and the commit of a
  later delivery, which takes its payment out of `undone` only by settling it. `DeadlocksAreLate` is
  about circles of any length: whoever starts one leads within two steps to a holder of the wallet
  row that waits, which only the failing webhook does (`DeadlockIsLate`).
* `InboxProofs`. For any number of changes and upsets and any capacity of the queue.
  `OverflowIsAnnounced` and `SyncingIsTrue` are inductive with the types. `ToldIsShown` is not: it lets
  a query that is being fetched show anything, so the invariant must say what the answer will be.
  `Fetched` does, change by change: of what a query was told of and has not missed, an answer on its way
  shows all, and so does the cache when none is on its way. It needs
  `Known`: no hint, queue entry, recovery, fetch or mutation names a change that was not committed,
  so an answer that is read now covers all of them.

`IInv`, `WorkflowInv`, `ExactInv`, `RunInv`, `OutcomeInv` and the invariants of the last five
modules were themselves checked as invariants by TLC on instances like those of the runs.

Model-checked only: the liveness properties `ReviewsEnd`, `RetriesEnd`, `EveryRequestSettles`,
`RecoveriesEnd` and `Converges` (TLAPS does not prove liveness under fairness). The properties that
the runs refute are of course not theorems.

## 7. Not modelled, and why

* Wallet: creation of a missing wallet row (two first credits may race for it); commissions and
  refunds that credit the wallets of other users during post-payment.
* Withdrawals: the fee and the kill switch, which change no state.
* Checkout: post-payment sections other than the wallet share (subscription, invites, commissions,
  promo codes, growth-code reservations); partner earnings, which credit the partner's wallet in the
  same transaction and may add a lock cycle of their own; Telegram Stars payments; the expiry of
  Redis marks; users with more than 200 payments, whose older ones the look-up by idempotency key
  does not see (`LookupAssumption`); the look-up of an active attempt when an order is paid.
* Outbox: the reporting API, whose clients do the dispatcher's steps in separate transactions;
  batches of the dispatcher, where one failed lease check also leaves the rest of the batch claimed;
  the partner backbone, the same code with other consumers. Two competing dispatchers, and the
  messaging backbone switched on for the worker's own consumers (`messaging_event_backbone_enabled`,
  off by default), where `DispatcherPub` overlaps `WorkerPub`, are in the module and in the proofs,
  but in no run. A fan-out is one effect; the notifications it writes are not told apart.
* Web API clients: telemetry, request ids, rate limits and the Mini App's own restore; the redirect
  of the page unloads its other requests, which the model lets go on. Backend sessions: TOTP, magic
  links, realms, revocation of access tokens.
* Inbox: the WebSocket transport and the admin console; presence; pagination; the payloads of
  notifications and the unread counts; a click that marks several notifications at once; queries
  that are not mounted, and navigation between conversations; the pause of react-query while the
  browser is offline, during which a fetch waits instead of failing. One customer has one page here;
  pages share nothing but the server.
* Desktop: the Helix sidecar with its fallback loop, the elevated process of Windows, the TUN driver
  and DNS; closing the application, which clears the proxy (`lib.rs:452`).
* Helix node: heartbeats, metrics and the simulated failure modes of its tests; that two documents
  may ask for the same port of another process is one of the upsets.
* The remaining components, for the reasons in `PROJECT.json`. By far most lines of the repository
  are generated API types (three copies of 50 000 lines), pages, components and their tests,
  translations and configuration: they render what the backend answers and keep no state across
  steps that could go wrong in the sense of these modules. The parts of the web code that do keep
  such state, the API clients and the inbox, are modelled; payouts, orders, growth-code reservations
  and the control plane of helix are on the plan.

## 8. Plan

In this order, the most consequential behaviour first; the first ten are done.

1. `Wallet`, `Withdrawals`, `Account`: one row, many sessions. Proved.
2. `Checkout`: the wallet under unreliable webhooks.
3. `Outbox`: leases, receipts, event status.
4. `WalletProofs`, `WithdrawalsProofs`.
5. `OutboxProofs`: what is published was served, and each fan-out is committed once.
6. `PortalClient`, `SingleFlight` and `PortalProofs`: one refresh for a burst of requests.
7. `Inbox` and `InboxProofs`: hints, recoveries and a cache.
8. `Desktop` and `DesktopProofs`: commands that supersede each other.
9. `HelixNode` and `HelixProofs`: apply, health gate, rollback and restart.
10. `CheckoutProofs`: keys, marks, debits, and lock cycles of any length.
11. `Payouts`: maker-checker instructions and executions. Properties: no instruction both rejected
    and executed, one successful execution per instruction.
12. `Outbox` with two dispatchers and with the backbone on; `Orders` over `Checkout` (the active
    attempt of an order); `Reservations` of growth codes; the Helix control plane over `HelixNode`.
