------------------------------- MODULE Checkout -------------------------------
(***************************************************************************)
(* Paying for a subscription, partly or wholly from the wallet.            *)
(*                                                                         *)
(* A checkout quotes the wallet share without a lock, serialises on its    *)
(* idempotency key with an advisory lock, and then either completes on the *)
(* spot (nothing left for the gateway) or freezes the share, creates an    *)
(* invoice at CryptoBot and stores a pending payment.  CryptoBot reports   *)
(* the outcome by webhooks, delivered at least once and possibly several   *)
(* at a time; they complete or fail the payment and settle the share.      *)
(*                                                                         *)
(* Post-payment processing reads the wallet once before it locks it, and   *)
(* SQLAlchemy does not refresh an object it has already loaded: `copy` is  *)
(* that object, and the debit is computed from it.                         *)
(***************************************************************************)
EXTENDS Wallet, FiniteSets

CONSTANTS Key, NoKey,   \* idempotency keys of one user, and a request with none
          Mode,         \* checkout modes: a new purchase, an upgrade, add-ons...
          Share,        \* wallet shares a quote may come to (0: none asked for)
          LatePayment,  \* may CryptoBot still report paid an invoice it closed?
          RedisOutage,  \* may the duplicate check fail and be skipped?
          MaxRuns       \* bound: a payment post-processed more often gets no more webhooks

ASSUME ShareAssumption == Share \subseteq Nat
ASSUME KeyAssumption == NoKey \notin Key \X Mode
ASSUME FlagAssumption == LatePayment \in BOOLEAN /\ RedisOutage \in BOOLEAN
ASSUME MaxRunsAssumption == MaxRuns \in Nat

Payment == Ref   \* ids of payments rows; an invoice goes by its payment's id
Retry == Key \X Mode   \* what a request with a key is known by, and its payment after it

\* The look-up of a key reads the user's 200 latest payments.
ASSUME LookupAssumption == IsFiniteSet(Payment) /\ Cardinality(Payment) <= 200

VARIABLES
  pc, job,    \* each session's step and what it works on
  copy,       \* post-payment's copy of the wallet row, per session
  keyHolder,  \* advisory lock per idempotency key, whatever the mode
  pay,        \* committed payments rows
  payHolder,  \* row lock per payment (its UPDATE is flushed, not committed)
  attempt,    \* status of the payment attempt that owns the payment, if any
  invoice,    \* CryptoBot's own record of each invoice
  marked,     \* invoices whose cryptobot:processed: key is set in Redis
  fulfilled,  \* per payment, committed runs of post-payment processing
  undone      \* history: payments last completed by a commit that rolled back instead

dbVars == <<pay, attempt, fulfilled>>
lockVars == <<keyHolder, payHolder>>
vars == <<walletVars, pc, job, copy, lockVars, dbVars, invoice, marked, undone>>

NoPayment == [status |-> "absent", used |-> 0, key |-> NoKey]
PaymentRow == [status : {"absent", "pending", "completed", "failed"},
               used : Nat, key : Retry \cup {NoKey}]
NoJob == [op |-> "none"]
Copy == [balance : Int, frozen : Int]
NoCopy == [balance |-> 0, frozen |-> 0]
\* The ids a session may be working on: none yet is Session's own NoSession.
CheckoutJob == [op : {"gateway", "zero"}, key : Retry \cup {NoKey}, used : Nat,
                ordered : BOOLEAN, p : Payment \cup {NoSession}]
WebhookJob == [op : {"paid", "closed"}, p : Payment, used : Nat,
               attempt : {"none", "pending", "succeeded", "closed"}]

Label == {"idle", "quoted", "keyed", "priced", "invoicing", "reading", "attempt",
          "completing", "loading", "debiting", "releasing", "closing", "commit", "marking"}

TypeOK ==
  /\ WalletTypeOK
  /\ pc \in [Session -> Label]
  /\ \A s \in Session :
       job[s] \in IF pc[s] = "idle" THEN {NoJob} ELSE CheckoutJob \cup WebhookJob
  /\ copy \in [Session -> Copy]
  /\ keyHolder \in [Key -> Session \cup {NoSession}]
  /\ pay \in [Payment -> PaymentRow]
  /\ payHolder \in [Payment -> Session \cup {NoSession}]
  /\ attempt \in [Payment -> {"none", "pending", "succeeded", "closed"}]
  /\ invoice \in [Payment -> {"none", "open", "paid", "closed", "late"}]
  /\ marked \subseteq Payment
  /\ fulfilled \in [Payment -> Nat]
  /\ undone \subseteq Payment

Init ==
  /\ WalletInit
  /\ pc = [s \in Session |-> "idle"]
  /\ job = [s \in Session |-> NoJob]
  /\ copy = [s \in Session |-> NoCopy]
  /\ keyHolder = [k \in Key |-> NoSession]
  /\ pay = [p \in Payment |-> NoPayment]
  /\ payHolder = [p \in Payment |-> NoSession]
  /\ attempt = [p \in Payment |-> "none"]
  /\ invoice = [p \in Payment |-> "none"]
  /\ marked = {}
  /\ fulfilled = [p \in Payment |-> 0]
  /\ undone = {}

-----------------------------------------------------------------------------

Goto(s, label) == pc' = [pc EXCEPT ![s] = label] /\ UNCHANGED job

\* The session ends: the copy dies with it and its locks are given back.
End(s) ==
  /\ pc' = [pc EXCEPT ![s] = "idle"]
  /\ job' = [job EXCEPT ![s] = NoJob]
  /\ copy' = [copy EXCEPT ![s] = NoCopy]

Unlock(s) ==
  /\ keyHolder' = [k \in Key |-> IF keyHolder[k] = s THEN NoSession ELSE keyHolder[k]]
  /\ payHolder' = [p \in Payment |-> IF payHolder[p] = s THEN NoSession ELSE payHolder[p]]

Rollback(s) == RollbackWallet(s) /\ Unlock(s) /\ End(s) /\ UNCHANGED dbVars

\* A payment id no row, invoice or session uses yet.
Fresh(p) ==
  /\ pay[p].status = "absent"
  /\ invoice[p] = "none"
  /\ \A t \in Session : pc[t] # "idle" => job[t].p # p

-----------------------------------------------------------------------------
(* Checkout.                                                               *)

\* CheckoutUseCase: the share is at most what an unlocked read of the wallet
\* says is available.  With nothing left to pay the gateway is skipped.  An
\* order's payment attempt brings no idempotency key to the checkout.
Quote(s, op, k, used, ordered) ==
  /\ pc[s] = "idle"
  /\ used = 0 \/ used <= Available(wallet)
  /\ ordered => k = NoKey
  /\ pc' = [pc EXCEPT ![s] = "quoted"]
  /\ job' = [job EXCEPT ![s] = [op |-> op, key |-> k, used |-> used, ordered |-> ordered,
                                p |-> NoSession]]
  /\ UNCHANGED <<walletVars, copy, lockVars, dbVars, invoice, marked, undone>>

\* Variant: no advisory lock, as on a database that has none.
SkipKeyLock(s) ==
  /\ pc[s] = "quoted"
  /\ Goto(s, "keyed")
  /\ UNCHANGED <<walletVars, copy, lockVars, dbVars, invoice, marked, undone>>

\* pg_advisory_xact_lock on the idempotency key, when the request has one: the
\* lock is on the key alone.
LockKey(s) ==
  /\ pc[s] = "quoted"
  /\ IF job[s].key = NoKey THEN UNCHANGED keyHolder
     ELSE /\ keyHolder[job[s].key[1]] = NoSession
          /\ keyHolder' = [keyHolder EXCEPT ![job[s].key[1]] = s]
  /\ Goto(s, "keyed")
  /\ UNCHANGED <<walletVars, copy, payHolder, dbVars, invoice, marked, undone>>

\* The look-up, unlike the lock, asks for the key in the mode of the request.
KeyUsed(k) == k # NoKey /\ \E p \in Payment : pay[p].status # "absent" /\ pay[p].key = k

\* The key has a payment: it is returned, or the request is refused because
\* its payload differs; either way the session writes nothing.
ReuseKey(s) ==
  /\ pc[s] = "keyed"
  /\ KeyUsed(job[s].key)
  /\ Rollback(s)
  /\ UNCHANGED <<invoice, marked, undone>>

\* The key is new: go on to freeze the share, or straight to the invoice.
NewKey(s) ==
  /\ pc[s] = "keyed"
  /\ ~KeyUsed(job[s].key)
  /\ Goto(s, IF job[s].op = "gateway" /\ job[s].used = 0 THEN "invoicing" ELSE "priced")
  /\ UNCHANGED <<walletVars, copy, lockVars, dbVars, invoice, marked, undone>>

FreezeShare(s) ==
  /\ pc[s] = "priced"
  /\ job[s].op = "gateway"
  /\ LockWallet(s)
  /\ CanFreeze(draft, job[s].used)
  /\ draft' = Freeze(draft, job[s].used)
  /\ Goto(s, "invoicing")
  /\ UNCHANGED <<wallet, copy, lockVars, dbVars, invoice, marked, undone>>

\* The share is gone since it was quoted: the checkout fails.
FreezeRefused(s) ==
  /\ pc[s] = "priced"
  /\ job[s].op = "gateway"
  /\ holder = NoSession
  /\ ~CanFreeze(draft, job[s].used)
  /\ Rollback(s)
  /\ UNCHANGED <<invoice, marked, undone>>

\* create_invoice at CryptoBot, with the wallet row still locked.
CreateInvoice(s, p) ==
  /\ pc[s] = "invoicing"
  /\ Fresh(p)
  /\ invoice' = [invoice EXCEPT ![p] = "open"]
  /\ job' = [job EXCEPT ![s].p = p]
  /\ pc' = [pc EXCEPT ![s] = "commit"]
  /\ UNCHANGED <<walletVars, copy, lockVars, dbVars, marked, undone>>

\* CompleteZeroGatewayUseCase: a completed payment, then post-payment.
CreateZeroGateway(s, p) ==
  /\ pc[s] = "priced"
  /\ job[s].op = "zero"
  /\ Fresh(p)
  /\ job' = [job EXCEPT ![s].p = p]
  /\ pc' = [pc EXCEPT ![s] = IF job[s].used > 0 THEN "loading" ELSE "commit"]
  /\ UNCHANGED <<walletVars, copy, lockVars, dbVars, invoice, marked, undone>>

-----------------------------------------------------------------------------
(* Post-payment processing, section 5: the wallet share.                   *)

\* get_balance: an unlocked read; the object stays in the session.
LoadWallet(s) ==
  /\ pc[s] = "loading"
  /\ copy' = [copy EXCEPT ![s] = [balance |-> wallet.balance, frozen |-> wallet.frozen]]
  /\ Goto(s, "debiting")
  /\ UNCHANGED <<walletVars, lockVars, dbVars, invoice, marked, undone>>

\* debit, then unfreeze when the copy has that much frozen: the row is locked
\* but the values come from the copy, and only what changed is written.
Charged(s) ==
  [Debit(draft, job[s].used, job[s].p) EXCEPT
     !.balance = copy[s].balance - job[s].used,
     !.frozen = IF CanUnfreeze(copy[s], job[s].used)
                THEN Unfreeze(copy[s], job[s].used).frozen ELSE @]

\* Variant: the debit is committed on its own.
DebitShareCommitting(s) ==
  /\ pc[s] = "debiting"
  /\ holder = NoSession
  /\ CanDebit(copy[s], job[s].used)
  /\ draft' = Charged(s)
  /\ wallet' = draft'
  /\ Goto(s, "commit")
  /\ UNCHANGED <<holder, copy, lockVars, dbVars, invoice, marked, undone>>

DebitShare(s) ==
  /\ pc[s] = "debiting"
  /\ LockWallet(s)
  /\ CanDebit(copy[s], job[s].used)
  /\ draft' = Charged(s)
  /\ Goto(s, "commit")
  /\ UNCHANGED <<wallet, copy, lockVars, dbVars, invoice, marked, undone>>

\* The debit is refused: the exception is logged and swallowed.
DebitSwallowed(s) ==
  /\ pc[s] = "debiting"
  /\ LockWallet(s)
  /\ ~CanDebit(copy[s], job[s].used)
  /\ Goto(s, "commit")
  /\ UNCHANGED <<wallet, draft, copy, lockVars, dbVars, invoice, marked, undone>>

-----------------------------------------------------------------------------
(* CryptoBot and its webhooks.                                             *)

\* An invoice is paid, or it expires, is cancelled or fails.
SettleInvoice(p) ==
  /\ \/ invoice[p] = "open" /\ \E outcome \in {"paid", "closed"} :
          invoice' = [invoice EXCEPT ![p] = outcome]
     \/ LatePayment /\ invoice[p] = "closed" /\ invoice' = [invoice EXCEPT ![p] = "late"]
  /\ UNCHANGED <<walletVars, pc, job, copy, lockVars, dbVars, marked, undone>>

Reported(p, event) ==
  invoice[p] \in IF event = "paid" THEN {"paid", "late"} ELSE {"closed", "late"}

\* Variant: the mark is set first, as a SET NX lock would.
ReceiveMarking(s, p, event) ==
  /\ pc[s] = "idle"
  /\ Reported(p, event)
  /\ p \notin marked
  /\ fulfilled[p] <= MaxRuns
  /\ pc' = [pc EXCEPT ![s] = "reading"]
  /\ job' = [job EXCEPT ![s] = [op |-> event, p |-> p, used |-> 0, attempt |-> "none"]]
  /\ marked' = marked \cup {p}
  /\ UNCHANGED <<walletVars, copy, lockVars, dbVars, invoice, undone>>

\* is_duplicate_invoice: a Redis error counts as "not processed yet".
SeemsNew(p) == p \notin marked \/ RedisOutage

\* A signed webhook that passes the duplicate check in Redis.
ReceiveWebhook(s, p, event) ==
  /\ pc[s] = "idle"
  /\ Reported(p, event)
  /\ SeemsNew(p)
  /\ fulfilled[p] <= MaxRuns
  /\ pc' = [pc EXCEPT ![s] = "reading"]
  /\ job' = [job EXCEPT ![s] = [op |-> event, p |-> p, used |-> 0,
                                attempt |-> "none"]]
  /\ UNCHANGED <<walletVars, copy, lockVars, dbVars, invoice, marked, undone>>

Terminal(op) == IF op = "paid" THEN {"completed"} ELSE {"completed", "failed"}

\* get_by_external_id: an unlocked read of the payment.
ReadPayment(s) ==
  /\ pc[s] = "reading"
  /\ pay[job[s].p].status \notin {"absent"} \cup Terminal(job[s].op)
  /\ pc' = [pc EXCEPT ![s] = "attempt"]
  /\ job' = [job EXCEPT ![s].used = pay[job[s].p].used]
  /\ UNCHANGED <<walletVars, copy, lockVars, dbVars, invoice, marked, undone>>

\* No payment yet (acknowledged, not marked) or already processed (marked
\* again when it was a paid webhook).
IgnoreWebhook(s) ==
  /\ pc[s] = "reading"
  /\ \/ /\ pay[job[s].p].status = "absent" \/ job[s].op = "closed"
        /\ pay[job[s].p].status \in {"absent"} \cup Terminal(job[s].op)
        /\ Rollback(s)
     \/ /\ job[s].op = "paid"
        /\ pay[job[s].p].status \in Terminal("paid")
        /\ Goto(s, "marking")
        /\ UNCHANGED <<walletVars, copy, lockVars, dbVars>>
  /\ UNCHANGED <<invoice, marked, undone>>

\* get_by_payment_id: another unlocked read.  A paid webhook stops at an
\* attempt that already ended without success.
ReadAttempt(s) ==
  /\ pc[s] = "attempt"
  /\ job' = [job EXCEPT ![s].attempt = attempt[job[s].p]]
  /\ pc' = [pc EXCEPT ![s] =
       IF job[s].op = "paid"
       THEN IF attempt[job[s].p] = "closed" THEN "marking" ELSE "completing"
       ELSE IF job[s].used > 0 THEN "releasing" ELSE "closing"]
  /\ UNCHANGED <<walletVars, copy, lockVars, dbVars, invoice, marked, undone>>

\* UPDATE payments takes the payment's row lock.
LockPayment(s) ==
  /\ payHolder[job[s].p] = NoSession
  /\ payHolder' = [payHolder EXCEPT ![job[s].p] = s]

CompletePayment(s) ==
  /\ pc[s] = "completing"
  /\ LockPayment(s)
  /\ Goto(s, IF job[s].used > 0 THEN "loading" ELSE "commit")
  /\ UNCHANGED <<walletVars, copy, keyHolder, dbVars, invoice, marked, undone>>

\* Release the share of an abandoned invoice; a refusal is swallowed.
ReleaseShare(s) ==
  /\ pc[s] = "releasing"
  /\ LockWallet(s)
  /\ draft' = IF CanUnfreeze(draft, job[s].used) THEN Unfreeze(draft, job[s].used) ELSE draft
  /\ Goto(s, "closing")
  /\ UNCHANGED <<wallet, copy, lockVars, dbVars, invoice, marked, undone>>

FailPayment(s) ==
  /\ pc[s] = "closing"
  /\ LockPayment(s)
  /\ Goto(s, "commit")
  /\ UNCHANGED <<walletVars, copy, keyHolder, dbVars, invoice, marked, undone>>

-----------------------------------------------------------------------------
(* The end of a session.                                                   *)

\* CreatePaymentAttemptUseCase records how the checkout of an order went.
AttemptAfter(work) ==
  IF ~work.ordered THEN "none" ELSE IF work.op = "zero" THEN "succeeded" ELSE "pending"

CommitCheckout(s) ==
  /\ pc[s] = "commit"
  /\ job[s].op \in {"gateway", "zero"}
  /\ LET zero == job[s].op = "zero" IN
     /\ pay' = [pay EXCEPT ![job[s].p] =
          [status |-> IF zero THEN "completed" ELSE "pending",
           used |-> job[s].used, key |-> job[s].key]]
     /\ attempt' = [attempt EXCEPT ![job[s].p] = AttemptAfter(job[s])]
     /\ fulfilled' = [fulfilled EXCEPT ![job[s].p] = IF zero THEN @ + 1 ELSE @]
  /\ CommitWallet(s) /\ Unlock(s) /\ End(s)
  /\ UNCHANGED <<invoice, marked, undone>>

CommitPaid(s) ==
  /\ pc[s] = "commit"
  /\ job[s].op = "paid"
  /\ pay' = [pay EXCEPT ![job[s].p].status = "completed"]
  /\ attempt' = [attempt EXCEPT ![job[s].p] =
       IF job[s].attempt = "none" THEN @ ELSE "succeeded"]
  /\ fulfilled' = [fulfilled EXCEPT ![job[s].p] = @ + 1]
  /\ undone' = undone \ {job[s].p}
  /\ CommitWallet(s) /\ Unlock(s) /\ Goto(s, "marking")
  /\ UNCHANGED <<copy, invoice, marked>>

\* Variant: the payment takes the webhook's word for its status.
CommitClosed(s) ==
  /\ pc[s] = "commit"
  /\ job[s].op = "closed"
  /\ pay' = [pay EXCEPT ![job[s].p].status = "expired"]
  /\ CommitWallet(s) /\ Unlock(s) /\ End(s)
  /\ UNCHANGED <<attempt, fulfilled, invoice, marked, undone>>

CommitFailed(s) ==
  /\ pc[s] = "commit"
  /\ job[s].op = "closed"
  /\ pay' = [pay EXCEPT ![job[s].p].status = "failed"]
  /\ attempt' = [attempt EXCEPT ![job[s].p] =
       IF job[s].attempt = "pending" THEN "closed" ELSE @]
  /\ undone' = undone \ {job[s].p}
  /\ CommitWallet(s) /\ Unlock(s) /\ End(s)
  /\ UNCHANGED <<fulfilled, invoice, marked>>

\* mark_invoice_processed, after the result (a Redis error is swallowed and
\* leaves the invoice unmarked: Abort).
MarkProcessed(s) ==
  /\ pc[s] = "marking"
  /\ marked' = marked \cup {job[s].p}
  /\ Rollback(s)
  /\ UNCHANGED <<invoice, undone>>

\* A statement fails and the error is raised, at once or by SQLAlchemy at the
\* commit after a failed flush; the gateway call fails; the process dies.  For a
\* zero-gateway checkout a swallowed error ends like this too.
Abort(s) ==
  /\ pc[s] # "idle"
  /\ Rollback(s)
  /\ UNCHANGED <<invoice, marked, undone>>

\* s waits for a lock t holds.
Waits(s, t) ==
  \/ pc[s] = "quoted" /\ job[s].key # NoKey /\ keyHolder[job[s].key[1]] = t
  \/ pc[s] \in {"priced", "debiting", "releasing"} /\ holder = t
     /\ (pc[s] = "priced" => job[s].op = "gateway")
  \/ pc[s] \in {"completing", "closing"} /\ payHolder[job[s].p] = t

\* A statement of post-payment processing fails: a timeout, a lock cycle that
\* PostgreSQL breaks...  PostgreSQL aborts the transaction and drops its locks,
\* the section's handler logs the error and swallows it, the COMMIT that follows
\* rolls back without an error, and the webhook is marked.
StatementFails(s) ==
  /\ pc[s] \in {"loading", "debiting", "commit"}
  /\ job[s].op = "paid"
  /\ RollbackWallet(s) /\ Unlock(s)
  /\ undone' = undone \cup {job[s].p}
  /\ Goto(s, "marking")
  /\ UNCHANGED <<copy, dbVars, invoice, marked>>

Next ==
  \/ \E p \in Payment : SettleInvoice(p)
  \/ \E s \in Session :
       \/ \E op \in {"gateway", "zero"}, k \in Retry \cup {NoKey}, used \in Share,
            ordered \in BOOLEAN : Quote(s, op, k, used, ordered)
       \/ LockKey(s) \/ ReuseKey(s) \/ NewKey(s)
       \/ FreezeShare(s) \/ FreezeRefused(s)
       \/ \E p \in Payment : CreateInvoice(s, p) \/ CreateZeroGateway(s, p)
       \/ LoadWallet(s) \/ DebitShare(s) \/ DebitSwallowed(s)
       \/ \E p \in Payment, event \in {"paid", "closed"} : ReceiveWebhook(s, p, event)
       \/ ReadPayment(s) \/ IgnoreWebhook(s) \/ ReadAttempt(s)
       \/ CompletePayment(s) \/ ReleaseShare(s) \/ FailPayment(s)
       \/ CommitCheckout(s) \/ CommitPaid(s) \/ CommitFailed(s)
       \/ MarkProcessed(s) \/ Abort(s) \/ StatementFails(s)

Spec == Init /\ [][Next]_vars

-----------------------------------------------------------------------------
(* Properties.                                                             *)

Settled(p) == pay[p].status \in {"completed", "failed"}

\* However checkouts of one user interleave, retry or crash, an idempotency key
\* names at most one payment of each checkout mode (commit_checkout reads the
\* payments of the key only once it holds the key's advisory lock).
OnePaymentPerKey ==
  \A p, q \in Payment :
    p # q /\ pay[p].status # "absent" /\ pay[q].status # "absent" /\ pay[p].key # NoKey
      => pay[p].key # pay[q].key

\* Redis answers "already processed" only for payments whose outcome is in the
\* database: a crash between the two loses a mark, never a payment
\* (payment_webhook marks after the commit).  The exceptions are the payments
\* whose completion a swallowed error has rolled back: see StatementFails.
MarkedIsSettled == \A p \in marked : Settled(p) \/ p \in undone

\* What payment_webhook says of the mark: it is set "only after safe paid side
\* effects finished".
MarkedAfterSideEffects == \A p \in marked : Settled(p)

\* Wallet money leaves for a payment only in the transaction that completes
\* it, so no failed or lost webhook charges the wallet.
DebitCompletes ==
  [][\A p \in Payment :
       wallet'.debited[p] # wallet.debited[p] => pay'[p].status = "completed"]_vars

\* Sessions wait for each other in a circle only over a payment reported both
\* closed and paid: the completing webhook locks payment then wallet, the
\* failing one wallet then payment.
CyclesOnlyWhenLate ==
  \A circle \in (SUBSET Session) \ {{}} :
    (\A s \in circle : \E t \in circle : Waits(s, t))
      => \E s \in circle : job[s].p # NoSession /\ invoice[job[s].p] = "late"

\* Whatever it was computed from, a committed wallet has no negative balance
\* and no negative hold.
NonNegative == wallet.balance >= 0 /\ wallet.frozen >= 0

=============================================================================
