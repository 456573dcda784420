--------------------------- MODULE CheckoutProofs ---------------------------
(***************************************************************************)
(* What Checkout keeps for any number of sessions, payments, keys and      *)
(* wallet shares: each part of the inductive invariant IInv first, then    *)
(* the theorems.                                                           *)
(***************************************************************************)
EXTENDS Checkout, WalletProofs

-----------------------------------------------------------------------------
(* The inductive invariant, in parts.                                      *)

\* The job a session can have at each label.
Fits(label, j) ==
  /\ label = "idle" => j = NoJob
  /\ label \in {"quoted", "keyed", "priced"} => j \in CheckoutJob /\ j.p = NoSession
  /\ label = "invoicing" => j \in CheckoutJob /\ j.p = NoSession /\ j.op = "gateway"
  /\ label \in {"reading", "attempt"} => j \in WebhookJob
  /\ label \in {"completing", "marking"} => j \in WebhookJob /\ j.op = "paid"
  /\ label \in {"releasing", "closing"} => j \in WebhookJob /\ j.op = "closed"
  /\ label \in {"loading", "debiting"} =>
       \/ j \in CheckoutJob /\ j.op = "zero" /\ j.p \in Payment
       \/ j \in WebhookJob /\ j.op = "paid"
  /\ label = "commit" => (j \in CheckoutJob /\ j.p \in Payment) \/ j \in WebhookJob

Job == {NoJob} \cup CheckoutJob \cup WebhookJob

TypeCorrect ==
  /\ TypeOK
  /\ job \in [Session -> Job]
  /\ \A s \in Session : Fits(pc[s], job[s])

IsCheckout(s) == pc[s] # "idle" /\ job[s].op \in {"gateway", "zero"}
IsWebhook(s, event) == pc[s] # "idle" /\ job[s].op = event

\* Where in its session a lock holder can be, and what it works on.
WalletLocked ==
  /\ holder \in Session => pc[holder] \in {"invoicing", "commit", "closing"}
  /\ holder = NoSession => draft = wallet

KeyLocked ==
  \A k \in Key, s \in Session :
    keyHolder[k] = s => IsCheckout(s) /\ pc[s] # "quoted"

PaymentLocked ==
  \A p \in Payment, s \in Session :
    payHolder[p] = s =>
      /\ job[s].p = p
      /\ \/ IsWebhook(s, "paid") /\ pc[s] \in {"loading", "debiting", "commit"}
         \/ IsWebhook(s, "closed") /\ pc[s] = "commit"

Locked == WalletLocked /\ KeyLocked /\ PaymentLocked

\* A checkout past its advisory lock holds it, and past the lookup of the
\* key's payments there is none.
GuardsKey(s, k) == keyHolder[k[1]] = s /\ (pc[s] # "keyed" => ~KeyUsed(k))

KeyGuarded ==
  \A s \in Session, k \in Retry :
    IsCheckout(s) /\ pc[s] # "quoted" /\ job[s].key = k => GuardsKey(s, k)

\* A debit that is flushed and not committed belongs to a session about to
\* commit the payment as completed.
ChargedAtCommit ==
  \A p \in Payment :
    draft.debited[p] # wallet.debited[p] =>
      /\ holder \in Session
      /\ pc[holder] = "commit"
      /\ job[holder].op \in {"zero", "paid"}
      /\ job[holder].p = p

\* No version of the row, stale or not, is negative.
NeverNegative ==
  /\ NonNegative
  /\ draft.balance >= 0 /\ draft.frozen >= 0
  /\ \A s \in Session : copy[s].frozen >= 0

\* Where the payment of a checkout and the payment of a webhook stand.
Assigned(s) == IsCheckout(s) /\ pc[s] \in {"loading", "debiting", "commit"}

FreshPayments ==
  /\ \A s \in Session : Assigned(s) => pay[job[s].p].status = "absent"
  /\ \A s, t \in Session : Assigned(s) /\ Assigned(t) /\ s # t => job[s].p # job[t].p

KnownPayments ==
  \A s \in Session :
    (IsWebhook(s, "paid") \/ IsWebhook(s, "closed")) /\ pc[s] # "reading"
      => pay[job[s].p].status # "absent"

WebhooksReport ==
  /\ \A s \in Session, p \in Payment, event \in {"paid", "closed"} :
       IsWebhook(s, event) /\ job[s].p = p => Reported(p, event)
  /\ \A p \in Payment : invoice[p] # "none" => p # NoSession

Payments == FreshPayments /\ KnownPayments /\ WebhooksReport

SettledOrUndone(p) == Settled(p) \/ p \in undone

MarksSettled ==
  /\ MarkedIsSettled
  /\ \A s \in Session, p \in Payment :
       pc[s] = "marking" /\ job[s].p = p => SettledOrUndone(p)
  /\ \A p \in Payment : attempt[p] = "closed" => Settled(p)

IInv ==
  /\ TypeCorrect
  /\ Locked
  /\ KeyGuarded
  /\ OnePaymentPerKey
  /\ ChargedAtCommit
  /\ NeverNegative
  /\ Payments
  /\ MarksSettled

-----------------------------------------------------------------------------
(* Types.                                                                  *)

\* What the label of a session says of its job's fields.
LEMMA JobFields ==
  ASSUME TypeCorrect, NEW s \in Session, pc[s] # "idle"
  PROVE  /\ job[s].used \in Nat
         /\ job[s].op \in {"gateway", "zero", "paid", "closed"}
         /\ job[s].op \in {"gateway", "zero"} => job[s] \in CheckoutJob
         /\ job[s].op \in {"paid", "closed"} => job[s] \in WebhookJob
         /\ pc[s] \in {"quoted", "keyed", "priced", "invoicing"} =>
              job[s] \in CheckoutJob /\ job[s].p = NoSession
         /\ pc[s] \in {"completing", "releasing", "closing", "loading", "debiting",
                       "commit", "marking", "reading", "attempt"} => job[s].p \in Payment
<1>1. job[s] \in CheckoutJob \cup WebhookJob /\ Fits(pc[s], job[s]) /\ pc[s] \in Label
  BY DEF TypeCorrect, TypeOK
<1> QED
  BY <1>1 DEF Fits, CheckoutJob, WebhookJob, Label

\* A session that moves to a label with a job that fits leaves the others alone.
LEMMA Moves ==
  ASSUME TypeCorrect, NEW s \in Session, NEW label \in Label,
         pc' = [pc EXCEPT ![s] = label],
         job' \in [Session -> Job],
         \A t \in Session \ {s} : job'[t] = job[t],
         Fits(label, job'[s])
  PROVE  /\ pc' \in [Session -> Label]
         /\ \A t \in Session : Fits(pc'[t], job'[t])
         /\ \A t \in Session :
              job'[t] \in IF pc'[t] = "idle" THEN {NoJob} ELSE CheckoutJob \cup WebhookJob
<1>1. pc \in [Session -> Label] /\ \A t \in Session : Fits(pc[t], job[t])
  BY DEF TypeCorrect, TypeOK
<1>2. pc' \in [Session -> Label]
  BY <1>1
<1>3. \A t \in Session : Fits(pc'[t], job'[t])
  <2> SUFFICES ASSUME NEW t \in Session PROVE Fits(pc'[t], job'[t])
    OBVIOUS
  <2>1. CASE t = s
    BY <1>1, <2>1
  <2>2. CASE t # s
    <3>1. pc'[t] = pc[t] /\ job'[t] = job[t]
      BY <1>1, <2>2
    <3> QED
      BY <1>1, <3>1
  <2> QED
    BY <2>1, <2>2
<1>4. \A t \in Session :
        job'[t] \in IF pc'[t] = "idle" THEN {NoJob} ELSE CheckoutJob \cup WebhookJob
  BY <1>2, <1>3 DEF Fits, Label
<1> QED
  BY <1>2, <1>3, <1>4

\* The same when the job stays.
LEMMA GoesTo ==
  ASSUME TypeCorrect, NEW s \in Session, NEW label \in Label,
         Goto(s, label), Fits(label, job[s])
  PROVE  /\ pc' \in [Session -> Label]
         /\ job' \in [Session -> Job]
         /\ \A t \in Session : Fits(pc'[t], job'[t])
         /\ \A t \in Session :
              job'[t] \in IF pc'[t] = "idle" THEN {NoJob} ELSE CheckoutJob \cup WebhookJob
<1>1. pc' = [pc EXCEPT ![s] = label] /\ job' = job /\ job \in [Session -> Job]
  BY DEF Goto, TypeCorrect
<1> QED
  BY <1>1, Moves

\* A session that ends.
LEMMA EndsTyped ==
  ASSUME TypeCorrect, NEW s \in Session, End(s)
  PROVE  /\ pc' \in [Session -> Label]
         /\ job' \in [Session -> Job]
         /\ copy' \in [Session -> Copy]
         /\ \A t \in Session : Fits(pc'[t], job'[t])
         /\ \A t \in Session :
              job'[t] \in IF pc'[t] = "idle" THEN {NoJob} ELSE CheckoutJob \cup WebhookJob
<1>1. /\ pc' = [pc EXCEPT ![s] = "idle"]
      /\ job' = [job EXCEPT ![s] = NoJob]
      /\ copy' = [copy EXCEPT ![s] = NoCopy]
  BY DEF End
<1>2. job \in [Session -> Job] /\ copy \in [Session -> Copy]
  BY DEF TypeCorrect, TypeOK
<1>3. NoJob \in Job /\ NoCopy \in Copy /\ "idle" \in Label
  BY DEF Job, NoCopy, Copy, Label
<1>4. job' \in [Session -> Job] /\ copy' \in [Session -> Copy]
      /\ job'[s] = NoJob /\ \A t \in Session \ {s} : job'[t] = job[t]
  BY <1>1, <1>2, <1>3
<1>5. Fits("idle", job'[s])
  BY <1>4 DEF Fits
<1> QED
  BY <1>1, <1>3, <1>4, <1>5, Moves

\* Locks given back leave well-typed locks.
LEMMA UnlocksTyped ==
  ASSUME TypeCorrect, NEW s \in Session, Unlock(s)
  PROVE  /\ keyHolder' \in [Key -> Session \cup {NoSession}]
         /\ payHolder' \in [Payment -> Session \cup {NoSession}]
  BY DEF TypeCorrect, TypeOK, Unlock

\* So do the two ends of the wallet transaction.
LEMMA WalletEndsTyped ==
  ASSUME TypeCorrect, NEW s \in Session, CommitWallet(s) \/ RollbackWallet(s)
  PROVE  WalletTypeOK'
  BY DEF TypeCorrect, TypeOK, WalletTypeOK, CommitWallet, RollbackWallet

\* A rollback keeps every type.
LEMMA RollbackTyped ==
  ASSUME TypeCorrect, NEW s \in Session, Rollback(s), UNCHANGED <<invoice, undone>>,
         marked' \subseteq Payment
  PROVE  TypeCorrect'
<1>1. RollbackWallet(s) /\ Unlock(s) /\ End(s) /\ UNCHANGED dbVars
  BY DEF Rollback
<1> QED
  BY <1>1, EndsTyped, UnlocksTyped, WalletEndsTyped DEF TypeCorrect, TypeOK, dbVars

\* What post-payment writes is a row; its debits grow at its own payment alone.
LEMMA ChargedRow ==
  ASSUME TypeCorrect, NEW s \in Session, pc[s] = "debiting"
  PROVE  /\ Charged(s) \in Row
         /\ Charged(s).balance = copy[s].balance - job[s].used
         /\ Charged(s).frozen =
              IF copy[s].frozen >= job[s].used THEN copy[s].frozen - job[s].used
              ELSE draft.frozen
         /\ \A p \in Payment : p # job[s].p => Charged(s).debited[p] = draft.debited[p]
<1> DEFINE d == Debit(draft, job[s].used, job[s].p)
           b == [d EXCEPT !.balance = copy[s].balance - job[s].used]
           f == IF CanUnfreeze(copy[s], job[s].used)
                THEN Unfreeze(copy[s], job[s].used).frozen ELSE d.frozen
<1>1. /\ job[s].used \in Nat /\ job[s].p \in Ref
      /\ draft \in Row /\ copy[s] \in Copy
  BY JobFields DEF TypeCorrect, TypeOK, WalletTypeOK, Payment
<1>2. d \in Row /\ d.frozen = draft.frozen
      /\ d.debited = [draft.debited EXCEPT ![job[s].p] = @ + job[s].used]
  BY <1>1, DebitRow
<1>3. f = IF copy[s].frozen >= job[s].used THEN copy[s].frozen - job[s].used ELSE draft.frozen
  BY <1>1, <1>2 DEF Copy, CanUnfreeze, Unfreeze
<1>4. f \in Int
  BY <1>1, <1>3 DEF Copy, Row
<1>5. Charged(s) = [b EXCEPT !.frozen = f]
  BY Zenon DEF Charged
<1> HIDE DEF d, f
<1>6. b \in Row /\ b.balance = copy[s].balance - job[s].used /\ b.debited = d.debited
  BY <1>1, <1>2 DEF Row, Copy
<1> HIDE DEF b
<1>7. /\ Charged(s) \in Row /\ Charged(s).balance = b.balance /\ Charged(s).frozen = f
      /\ Charged(s).debited = b.debited
  BY <1>4, <1>5, <1>6 DEF Row
<1> QED
  BY <1>1, <1>2, <1>3, <1>6, <1>7 DEF Row, Payment

\* Every action keeps the types.
LEMMA TypeStep ==
  ASSUME TypeCorrect, [Next]_vars
  PROVE  TypeCorrect'
<1>0. /\ TypeOK /\ job \in [Session -> Job] /\ pc \in [Session -> Label]
      /\ WalletTypeOK /\ copy \in [Session -> Copy]
      /\ \A s \in Session : Fits(pc[s], job[s])
  BY DEF TypeCorrect, TypeOK
<1>1. ASSUME NEW p \in Payment, SettleInvoice(p)
      PROVE  TypeCorrect'
  BY <1>0, <1>1 DEF SettleInvoice, TypeCorrect, TypeOK, WalletTypeOK, walletVars, lockVars, dbVars
<1>2. ASSUME NEW s \in Session, NEW op \in {"gateway", "zero"},
             NEW k \in Retry \cup {NoKey}, NEW used \in Share, NEW ordered \in BOOLEAN,
             Quote(s, op, k, used, ordered)
      PROVE  TypeCorrect'
  <2> DEFINE j == [op |-> op, key |-> k, used |-> used, ordered |-> ordered, p |-> NoSession]
  <2>1. /\ pc' = [pc EXCEPT ![s] = "quoted"]
        /\ job' = [job EXCEPT ![s] = j]
        /\ UNCHANGED <<walletVars, copy, lockVars, dbVars, invoice, marked, undone>>
    BY <1>2 DEF Quote
  <2>2. j \in CheckoutJob /\ j.p = NoSession
    BY ShareAssumption DEF CheckoutJob
  <2>3. j \in Job /\ Fits("quoted", j) /\ "quoted" \in Label
    BY <2>2 DEF Job, Fits, Label
  <2> HIDE DEF j
  <2>4. job' \in [Session -> Job] /\ job'[s] = j /\ \A t \in Session \ {s} : job'[t] = job[t]
    BY <1>0, <2>1, <2>3
  <2> QED
    BY <1>0, <2>1, <2>3, <2>4, Moves
    DEF TypeCorrect, TypeOK, WalletTypeOK, walletVars, lockVars, dbVars
<1>3. ASSUME NEW s \in Session, LockKey(s)
      PROVE  TypeCorrect'
  <2>1. job[s] \in CheckoutJob /\ job[s].p = NoSession
    BY <1>3, JobFields DEF LockKey
  <2>2. Fits("keyed", job[s]) /\ "keyed" \in Label
    BY <2>1 DEF Fits, Label
  <2>3. Goto(s, "keyed")
        /\ UNCHANGED <<walletVars, copy, payHolder, dbVars, invoice, marked, undone>>
        /\ keyHolder' \in [Key -> Session \cup {NoSession}]
    BY <1>0, <1>3 DEF LockKey, TypeOK
  <2> QED
    BY <1>0, <2>2, <2>3, GoesTo
    DEF TypeCorrect, TypeOK, WalletTypeOK, walletVars, dbVars
<1>4. ASSUME NEW s \in Session, ReuseKey(s) \/ FreezeRefused(s) \/ MarkProcessed(s) \/ Abort(s)
      PROVE  TypeCorrect'
  <2>1. Rollback(s)
    BY <1>4, Zenon DEF ReuseKey, FreezeRefused, MarkProcessed, Abort
  <2>2. UNCHANGED <<invoice, undone>> /\ (marked' = marked \/ MarkProcessed(s))
    BY <1>4 DEF ReuseKey, FreezeRefused, MarkProcessed, Abort
  <2>3. marked' \subseteq Payment
    BY <1>0, <2>2, JobFields DEF MarkProcessed, TypeOK
  <2> QED
    BY <2>1, <2>2, <2>3, RollbackTyped
<1>5. ASSUME NEW s \in Session, NewKey(s)
      PROVE  TypeCorrect'
  <2> DEFINE label == IF job[s].op = "gateway" /\ job[s].used = 0 THEN "invoicing" ELSE "priced"
  <2>1. job[s] \in CheckoutJob /\ job[s].p = NoSession
    BY <1>5, JobFields DEF NewKey
  <2>2. Fits(label, job[s]) /\ label \in Label
    BY <2>1 DEF Fits, Label
  <2>3. Goto(s, label) /\ UNCHANGED <<walletVars, copy, lockVars, dbVars, invoice, marked, undone>>
    BY <1>5 DEF NewKey
  <2> HIDE DEF label
  <2> QED
    BY <1>0, <2>2, <2>3, GoesTo
    DEF TypeCorrect, TypeOK, WalletTypeOK, walletVars, lockVars, dbVars
<1>6. ASSUME NEW s \in Session, FreezeShare(s)
      PROVE  TypeCorrect'
  <2>1. job[s] \in CheckoutJob /\ job[s].p = NoSession /\ job[s].op = "gateway"
        /\ job[s].used \in Nat
    BY <1>6, JobFields DEF FreezeShare
  <2>2. Fits("invoicing", job[s]) /\ "invoicing" \in Label
    BY <2>1 DEF Fits, Label
  <2>3. Goto(s, "invoicing") /\ UNCHANGED <<wallet, copy, lockVars, dbVars, invoice, marked, undone>>
        /\ draft' = Freeze(draft, job[s].used) /\ holder' = s
    BY <1>6 DEF FreezeShare, LockWallet
  <2>4. draft' \in Row
    BY <1>0, <2>1, <2>3, FreezeRow DEF WalletTypeOK
  <2> QED
    BY <1>0, <2>2, <2>3, <2>4, GoesTo
    DEF TypeCorrect, TypeOK, WalletTypeOK, lockVars, dbVars
<1>7. ASSUME NEW s \in Session, NEW p \in Payment, CreateInvoice(s, p)
      PROVE  TypeCorrect'
  <2>1. job[s] \in CheckoutJob
    BY <1>7, JobFields DEF CreateInvoice
  <2>2. /\ pc' = [pc EXCEPT ![s] = "commit"]
        /\ job' = [job EXCEPT ![s] = [job[s] EXCEPT !.p = p]]
        /\ invoice' = [invoice EXCEPT ![p] = "open"]
        /\ UNCHANGED <<walletVars, copy, lockVars, dbVars, marked, undone>>
    BY <1>7 DEF CreateInvoice
  <2>3. [job[s] EXCEPT !.p = p] \in CheckoutJob /\ [job[s] EXCEPT !.p = p].p = p
    BY <2>1 DEF CheckoutJob
  <2>4. job' \in [Session -> Job] /\ job'[s] \in CheckoutJob /\ job'[s].p = p
        /\ \A t \in Session \ {s} : job'[t] = job[t]
    BY <1>0, <2>2, <2>3 DEF Job
  <2>5. Fits("commit", job'[s]) /\ "commit" \in Label
    BY <2>4 DEF Fits, Label
  <2> QED
    BY <1>0, <2>2, <2>4, <2>5, Moves
    DEF TypeCorrect, TypeOK, WalletTypeOK, walletVars, lockVars, dbVars
<1>8. ASSUME NEW s \in Session, NEW p \in Payment, CreateZeroGateway(s, p)
      PROVE  TypeCorrect'
  <2> DEFINE label == IF job[s].used > 0 THEN "loading" ELSE "commit"
  <2>1. job[s] \in CheckoutJob /\ job[s].op = "zero"
    BY <1>8, JobFields DEF CreateZeroGateway
  <2>2. /\ pc' = [pc EXCEPT ![s] = label]
        /\ job' = [job EXCEPT ![s] = [job[s] EXCEPT !.p = p]]
        /\ UNCHANGED <<walletVars, copy, lockVars, dbVars, invoice, marked, undone>>
    BY <1>8 DEF CreateZeroGateway
  <2>3. /\ [job[s] EXCEPT !.p = p] \in CheckoutJob
        /\ [job[s] EXCEPT !.p = p].p = p
        /\ [job[s] EXCEPT !.p = p].op = "zero"
    BY <2>1 DEF CheckoutJob
  <2>4. job' \in [Session -> Job]
        /\ job'[s] \in CheckoutJob /\ job'[s].p = p /\ job'[s].op = "zero"
        /\ \A t \in Session \ {s} : job'[t] = job[t]
    BY <1>0, <2>2, <2>3 DEF Job
  <2>5. Fits(label, job'[s]) /\ label \in Label
    BY <2>4 DEF Fits, Label
  <2> HIDE DEF label
  <2> QED
    BY <1>0, <2>2, <2>4, <2>5, Moves
    DEF TypeCorrect, TypeOK, WalletTypeOK, walletVars, lockVars, dbVars
<1>9. ASSUME NEW s \in Session, LoadWallet(s)
      PROVE  TypeCorrect'
  <2>1. Goto(s, "debiting") /\ UNCHANGED <<walletVars, lockVars, dbVars, invoice, marked, undone>>
        /\ copy' = [copy EXCEPT ![s] = [balance |-> wallet.balance, frozen |-> wallet.frozen]]
        /\ pc[s] = "loading"
    BY <1>9 DEF LoadWallet
  <2>2. [balance |-> wallet.balance, frozen |-> wallet.frozen] \in Copy
    BY <1>0 DEF WalletTypeOK, Row, Copy
  <2>3. Fits("debiting", job[s]) /\ "debiting" \in Label
    BY <1>0, <2>1 DEF Fits, Label
  <2> QED
    BY <1>0, <2>1, <2>2, <2>3, GoesTo
    DEF TypeCorrect, TypeOK, WalletTypeOK, walletVars, lockVars, dbVars
<1>10. ASSUME NEW s \in Session, DebitShare(s) \/ DebitSwallowed(s)
       PROVE  TypeCorrect'
  <2>1. Goto(s, "commit") /\ UNCHANGED <<wallet, copy, lockVars, dbVars, invoice, marked, undone>>
        /\ holder' = s /\ draft' \in {draft, Charged(s)} /\ pc[s] = "debiting"
    BY <1>10 DEF DebitShare, DebitSwallowed, LockWallet
  <2>2. draft' \in Row
    BY <1>0, <2>1, ChargedRow DEF WalletTypeOK
  <2>3. Fits("commit", job[s]) /\ "commit" \in Label
    BY <1>0, <2>1 DEF Fits, Label
  <2> QED
    BY <1>0, <2>1, <2>2, <2>3, GoesTo
    DEF TypeCorrect, TypeOK, WalletTypeOK, lockVars, dbVars
<1>11. ASSUME NEW s \in Session, NEW p \in Payment, NEW event \in {"paid", "closed"},
              ReceiveWebhook(s, p, event)
       PROVE  TypeCorrect'
  <2> DEFINE j == [op |-> event, p |-> p, used |-> 0, attempt |-> "none"]
  <2>1. /\ pc' = [pc EXCEPT ![s] = "reading"]
        /\ job' = [job EXCEPT ![s] = j]
        /\ UNCHANGED <<walletVars, copy, lockVars, dbVars, invoice, marked, undone>>
    BY <1>11 DEF ReceiveWebhook
  <2>2. j \in WebhookJob
    BY DEF WebhookJob
  <2>3. j \in Job /\ Fits("reading", j) /\ "reading" \in Label
    BY <2>2 DEF Job, Fits, Label
  <2> HIDE DEF j
  <2>4. job' \in [Session -> Job] /\ job'[s] = j /\ \A t \in Session \ {s} : job'[t] = job[t]
    BY <1>0, <2>1, <2>3
  <2> QED
    BY <1>0, <2>1, <2>3, <2>4, Moves
    DEF TypeCorrect, TypeOK, WalletTypeOK, walletVars, lockVars, dbVars
<1>12. ASSUME NEW s \in Session, ReadPayment(s)
       PROVE  TypeCorrect'
  <2>1. job[s] \in WebhookJob /\ job[s].p \in Payment
    BY <1>0, <1>12, JobFields DEF ReadPayment, Fits
  <2>2. /\ pc' = [pc EXCEPT ![s] = "attempt"]
        /\ job' = [job EXCEPT ![s] = [job[s] EXCEPT !.used = pay[job[s].p].used]]
        /\ UNCHANGED <<walletVars, copy, lockVars, dbVars, invoice, marked, undone>>
    BY <1>12 DEF ReadPayment
  <2>3. pay[job[s].p].used \in Nat
    BY <1>0, <2>1 DEF TypeOK, PaymentRow
  <2>4. [job[s] EXCEPT !.used = pay[job[s].p].used] \in WebhookJob
    BY <2>1, <2>3 DEF WebhookJob
  <2>5. job' \in [Session -> Job] /\ job'[s] \in WebhookJob
        /\ \A t \in Session \ {s} : job'[t] = job[t]
    BY <1>0, <2>2, <2>4 DEF Job
  <2>6. Fits("attempt", job'[s]) /\ "attempt" \in Label
    BY <2>5 DEF Fits, Label
  <2> QED
    BY <1>0, <2>2, <2>5, <2>6, Moves
    DEF TypeCorrect, TypeOK, WalletTypeOK, walletVars, lockVars, dbVars
<1>13. ASSUME NEW s \in Session, IgnoreWebhook(s)
       PROVE  TypeCorrect'
  <2>1. CASE Rollback(s)
    BY <1>0, <1>13, <2>1, RollbackTyped DEF IgnoreWebhook, TypeOK
  <2>2. CASE job[s].op = "paid" /\ Goto(s, "marking") /\ UNCHANGED <<walletVars, copy, lockVars, dbVars>>
    <3>1. job[s] \in WebhookJob
      BY <1>13, <2>2, JobFields DEF IgnoreWebhook
    <3>2. Fits("marking", job[s]) /\ "marking" \in Label
      BY <2>2, <3>1 DEF Fits, Label
    <3>3. UNCHANGED <<invoice, marked, undone>>
      BY <1>13 DEF IgnoreWebhook
    <3> QED
      BY <1>0, <2>2, <3>2, <3>3, GoesTo
      DEF TypeCorrect, TypeOK, WalletTypeOK, walletVars, lockVars, dbVars
  <2> QED
    BY <1>13, <2>1, <2>2 DEF IgnoreWebhook
<1>14. ASSUME NEW s \in Session, ReadAttempt(s)
       PROVE  TypeCorrect'
  <2> DEFINE label == IF job[s].op = "paid"
                      THEN IF attempt[job[s].p] = "closed" THEN "marking" ELSE "completing"
                      ELSE IF job[s].used > 0 THEN "releasing" ELSE "closing"
  <2>1. job[s] \in WebhookJob /\ job[s].p \in Payment
    BY <1>0, <1>14, JobFields DEF ReadAttempt, Fits
  <2>2. /\ pc' = [pc EXCEPT ![s] = label]
        /\ job' = [job EXCEPT ![s] = [job[s] EXCEPT !.attempt = attempt[job[s].p]]]
        /\ UNCHANGED <<walletVars, copy, lockVars, dbVars, invoice, marked, undone>>
    BY <1>14 DEF ReadAttempt
  <2>3. attempt[job[s].p] \in {"none", "pending", "succeeded", "closed"}
    BY <1>0, <2>1 DEF TypeOK
  <2>4. [job[s] EXCEPT !.attempt = attempt[job[s].p]] \in WebhookJob
        /\ [job[s] EXCEPT !.attempt = attempt[job[s].p]].op = job[s].op
    BY <2>1, <2>3 DEF WebhookJob
  <2>5. job' \in [Session -> Job] /\ job'[s] \in WebhookJob /\ job'[s].op = job[s].op
        /\ \A t \in Session \ {s} : job'[t] = job[t]
    BY <1>0, <2>2, <2>4 DEF Job
  <2>6. job[s].op \in {"paid", "closed"}
    BY <2>1 DEF WebhookJob
  <2>7. Fits(label, job'[s]) /\ label \in Label
    BY <2>5, <2>6 DEF Fits, Label
  <2> HIDE DEF label
  <2> QED
    BY <1>0, <2>2, <2>5, <2>7, Moves
    DEF TypeCorrect, TypeOK, WalletTypeOK, walletVars, lockVars, dbVars
<1>15. ASSUME NEW s \in Session, CompletePayment(s) \/ FailPayment(s)
       PROVE  TypeCorrect'
  <2> DEFINE label == IF pc[s] = "completing" /\ job[s].used > 0 THEN "loading" ELSE "commit"
  <2>1. /\ pc[s] \in {"completing", "closing"}
        /\ Goto(s, label)
        /\ payHolder' = [payHolder EXCEPT ![job[s].p] = s]
        /\ UNCHANGED <<walletVars, copy, keyHolder, dbVars, invoice, marked, undone>>
    BY <1>15 DEF CompletePayment, FailPayment, LockPayment
  <2>2. job[s] \in WebhookJob /\ (pc[s] = "completing" => job[s].op = "paid")
    BY <1>0, <2>1 DEF Fits
  <2>3. Fits(label, job[s]) /\ label \in Label
    BY <2>2 DEF Fits, Label
  <2> HIDE DEF label
  <2> QED
    BY <1>0, <2>1, <2>3, GoesTo
    DEF TypeCorrect, TypeOK, WalletTypeOK, walletVars, dbVars
<1>16. ASSUME NEW s \in Session, ReleaseShare(s)
       PROVE  TypeCorrect'
  <2>1. /\ pc[s] = "releasing" /\ Goto(s, "closing") /\ holder' = s
        /\ draft' \in {draft, Unfreeze(draft, job[s].used)}
        /\ UNCHANGED <<wallet, copy, lockVars, dbVars, invoice, marked, undone>>
    BY <1>16 DEF ReleaseShare, LockWallet
  <2>2. Fits("closing", job[s]) /\ "closing" \in Label
    BY <1>0, <2>1 DEF Fits, Label
  <2>3. draft' \in Row
    BY <1>0, <2>1, JobFields, UnfreezeRow DEF WalletTypeOK
  <2> QED
    BY <1>0, <2>1, <2>2, <2>3, GoesTo
    DEF TypeCorrect, TypeOK, WalletTypeOK, lockVars, dbVars
<1>17. ASSUME NEW s \in Session, CommitCheckout(s)
       PROVE  TypeCorrect'
  <2>1. job[s] \in CheckoutJob /\ job[s].p \in Payment
    BY <1>17, JobFields DEF CommitCheckout
  <2>2. /\ pay' = [pay EXCEPT ![job[s].p] =
             [status |-> IF job[s].op = "zero" THEN "completed" ELSE "pending",
              used |-> job[s].used, key |-> job[s].key]]
        /\ attempt' = [attempt EXCEPT ![job[s].p] = AttemptAfter(job[s])]
        /\ fulfilled' = [fulfilled EXCEPT ![job[s].p] =
             IF job[s].op = "zero" THEN @ + 1 ELSE @]
        /\ CommitWallet(s) /\ Unlock(s) /\ End(s) /\ UNCHANGED <<invoice, marked, undone>>
    BY <1>17 DEF CommitCheckout
  <2>3. pay' \in [Payment -> PaymentRow]
    BY <1>0, <2>1, <2>2 DEF TypeOK, PaymentRow, CheckoutJob
  <2>4. /\ attempt' \in [Payment -> {"none", "pending", "succeeded", "closed"}]
        /\ fulfilled' \in [Payment -> Nat]
    BY <1>0, <2>1, <2>2 DEF TypeOK, AttemptAfter
  <2> QED
    BY <1>0, <2>2, <2>3, <2>4, EndsTyped, UnlocksTyped, WalletEndsTyped
    DEF TypeCorrect, TypeOK
<1>18. ASSUME NEW s \in Session, CommitPaid(s)
       PROVE  TypeCorrect'
  <2>1. job[s].p \in Payment /\ job[s] \in WebhookJob
    BY <1>18, JobFields DEF CommitPaid
  <2>2. /\ job[s].op = "paid"
        /\ pay' = [pay EXCEPT ![job[s].p] = [pay[job[s].p] EXCEPT !.status = "completed"]]
        /\ attempt' = [attempt EXCEPT ![job[s].p] =
             IF job[s].attempt = "none" THEN @ ELSE "succeeded"]
        /\ fulfilled' = [fulfilled EXCEPT ![job[s].p] = @ + 1]
        /\ CommitWallet(s) /\ Unlock(s) /\ Goto(s, "marking")
        /\ UNCHANGED <<copy, invoice, marked>>
        /\ undone' = undone \ {job[s].p}
    BY <1>18 DEF CommitPaid
  <2>3. pay' \in [Payment -> PaymentRow]
    BY <1>0, <2>1, <2>2 DEF TypeOK, PaymentRow
  <2>4. /\ attempt' \in [Payment -> {"none", "pending", "succeeded", "closed"}]
        /\ fulfilled' \in [Payment -> Nat]
    BY <1>0, <2>1, <2>2 DEF TypeOK
  <2>5. Fits("marking", job[s]) /\ "marking" \in Label
    BY <2>1, <2>2 DEF Fits, Label
  <2> QED
    BY <1>0, <2>2, <2>3, <2>4, <2>5, GoesTo, UnlocksTyped, WalletEndsTyped
    DEF TypeCorrect, TypeOK
<1>19. ASSUME NEW s \in Session, CommitFailed(s)
       PROVE  TypeCorrect'
  <2>1. job[s].p \in Payment
    BY <1>19, JobFields DEF CommitFailed
  <2>2. /\ pay' = [pay EXCEPT ![job[s].p] = [pay[job[s].p] EXCEPT !.status = "failed"]]
        /\ attempt' = [attempt EXCEPT ![job[s].p] =
             IF job[s].attempt = "pending" THEN "closed" ELSE @]
        /\ CommitWallet(s) /\ Unlock(s) /\ End(s)
        /\ UNCHANGED <<fulfilled, invoice, marked>>
        /\ undone' = undone \ {job[s].p}
    BY <1>19 DEF CommitFailed
  <2>3. pay' \in [Payment -> PaymentRow]
    BY <1>0, <2>1, <2>2 DEF TypeOK, PaymentRow
  <2>4. attempt' \in [Payment -> {"none", "pending", "succeeded", "closed"}]
    BY <1>0, <2>1, <2>2 DEF TypeOK
  <2> QED
    BY <1>0, <2>2, <2>3, <2>4, EndsTyped, UnlocksTyped, WalletEndsTyped
    DEF TypeCorrect, TypeOK
<1>20. ASSUME NEW s \in Session, StatementFails(s)
       PROVE  TypeCorrect'
  <2>1. /\ pc[s] \in {"loading", "debiting", "commit"} /\ job[s].op = "paid"
        /\ RollbackWallet(s) /\ Unlock(s) /\ Goto(s, "marking")
        /\ UNCHANGED <<copy, dbVars, invoice, marked>>
        /\ undone' = undone \cup {job[s].p}
    BY <1>20 DEF StatementFails
  <2>2. job[s] \in WebhookJob /\ job[s].p \in Payment
    BY <2>1, JobFields
  <2>3. Fits("marking", job[s]) /\ "marking" \in Label
    BY <2>1, <2>2 DEF Fits, Label
  <2> QED
    BY <1>0, <2>1, <2>2, <2>3, GoesTo, UnlocksTyped, WalletEndsTyped
    DEF TypeCorrect, TypeOK, dbVars
<1>21. CASE UNCHANGED vars
  BY <1>0, <1>21 DEF vars, TypeCorrect, TypeOK, WalletTypeOK, walletVars, lockVars, dbVars
<1> QED
  BY <1>1, <1>2, <1>3, <1>4, <1>5, <1>6, <1>7, <1>8, <1>9, <1>10, <1>11, <1>12, <1>13, <1>14,
     <1>15, <1>16, <1>17, <1>18, <1>19, <1>20, <1>21 DEF Next

-----------------------------------------------------------------------------
(* One session at a time.                                                  *)

Reads(s) ==
  \/ LockKey(s) \/ NewKey(s) \/ LoadWallet(s) \/ ReadPayment(s) \/ ReadAttempt(s)
  \/ \E op \in {"gateway", "zero"}, k \in Retry \cup {NoKey}, used \in Share,
       ordered \in BOOLEAN : Quote(s, op, k, used, ordered)
  \/ \E p \in Payment, event \in {"paid", "closed"} : ReceiveWebhook(s, p, event)
  \/ \E p \in Payment : CreateInvoice(s, p) \/ CreateZeroGateway(s, p)

Writes(s) ==
  \/ FreezeShare(s) \/ DebitShare(s) \/ DebitSwallowed(s) \/ ReleaseShare(s)
  \/ CompletePayment(s) \/ FailPayment(s)

Ends(s) ==
  \/ ReuseKey(s) \/ FreezeRefused(s) \/ IgnoreWebhook(s)
  \/ CommitCheckout(s) \/ CommitPaid(s) \/ CommitFailed(s)
  \/ MarkProcessed(s) \/ Abort(s) \/ StatementFails(s)

StepOf(s) == Reads(s) \/ Writes(s) \/ Ends(s)

\* Next is a step of CryptoBot or of one session.
LEMMA NextIsAStep ==
  ASSUME Next
  PROVE  (\E p \in Payment : SettleInvoice(p)) \/ (\E s \in Session : StepOf(s))
  BY Zenon DEF Next, StepOf, Reads, Writes, Ends

\* An idle session starts a checkout or a webhook.
LEMMA IdleSteps ==
  ASSUME NEW s \in Session, StepOf(s), pc[s] = "idle"
  PROVE  \/ \E op \in {"gateway", "zero"}, k \in Retry \cup {NoKey}, used \in Share,
              ordered \in BOOLEAN : Quote(s, op, k, used, ordered)
         \/ \E p \in Payment, event \in {"paid", "closed"} : ReceiveWebhook(s, p, event)
<1>1. ~Writes(s)
  BY DEF Writes, FreezeShare, DebitShare, DebitSwallowed, ReleaseShare,
     CompletePayment, FailPayment
<1>2. ~Ends(s)
  BY DEF Ends, ReuseKey, FreezeRefused, IgnoreWebhook, CommitCheckout, CommitPaid,
     CommitFailed, MarkProcessed, Abort, StatementFails
<1> QED
  BY <1>1, <1>2 DEF StepOf, Reads, LockKey, NewKey, LoadWallet, ReadPayment,
     ReadAttempt, CreateInvoice, CreateZeroGateway

\* A step moves the session that takes it and no other.
LEMMA OthersStay ==
  ASSUME TypeCorrect, NEW s \in Session, StepOf(s)
  PROVE  \A t \in Session \ {s} : pc'[t] = pc[t] /\ job'[t] = job[t] /\ copy'[t] = copy[t]
<1>0. pc \in [Session -> Label] /\ job \in [Session -> Job] /\ copy \in [Session -> Copy]
  BY DEF TypeCorrect, TypeOK
<1>1. CASE Reads(s)
  BY <1>0, <1>1 DEF Reads, LockKey, NewKey, LoadWallet, ReadPayment, ReadAttempt, Quote,
     ReceiveWebhook, CreateInvoice, CreateZeroGateway, Goto
<1>2. CASE Writes(s)
  BY <1>0, <1>2 DEF Writes, FreezeShare, DebitShare, DebitSwallowed, ReleaseShare,
     CompletePayment, FailPayment, Goto
<1>3. CASE Ends(s)
  BY <1>0, <1>3 DEF Ends, ReuseKey, FreezeRefused, IgnoreWebhook, CommitCheckout, CommitPaid,
     CommitFailed, MarkProcessed, Abort, StatementFails, Rollback, Goto, End
<1> QED
  BY <1>1, <1>2, <1>3 DEF StepOf

\* While a session works, the kind of its job, a checkout's key and a
\* webhook's payment stay.
LEMMA JobStays ==
  ASSUME TypeCorrect, NEW s \in Session, StepOf(s), pc[s] # "idle", pc'[s] # "idle"
  PROVE  /\ job'[s].op = job[s].op
         /\ job[s].op \in {"gateway", "zero"} => job'[s].key = job[s].key
         /\ job[s].op \in {"paid", "closed"} => job'[s].p = job[s].p
<1>0. pc \in [Session -> Label] /\ job \in [Session -> Job]
      /\ job[s] \in CheckoutJob \cup WebhookJob /\ Fits(pc[s], job[s])
  BY DEF TypeCorrect, TypeOK
<1>1. CASE job'[s] = job[s]
  BY <1>1
<1>2. CASE \E p \in Payment : CreateInvoice(s, p) \/ CreateZeroGateway(s, p)
  <2>1. PICK p \in Payment : job' = [job EXCEPT ![s] = [job[s] EXCEPT !.p = p]]
                             /\ job[s] \in CheckoutJob
    BY <1>0, <1>2, JobFields DEF CreateInvoice, CreateZeroGateway
  <2> QED
    BY <1>0, <2>1 DEF CheckoutJob
<1>3. CASE ReadPayment(s)
  <2>1. job' = [job EXCEPT ![s] = [job[s] EXCEPT !.used = pay[job[s].p].used]]
        /\ job[s] \in WebhookJob
    BY <1>0, <1>3 DEF ReadPayment, Fits
  <2> QED
    BY <1>0, <2>1 DEF WebhookJob
<1>4. CASE ReadAttempt(s)
  <2>1. job' = [job EXCEPT ![s] = [job[s] EXCEPT !.attempt = attempt[job[s].p]]]
        /\ job[s] \in WebhookJob
    BY <1>0, <1>4 DEF ReadAttempt, Fits
  <2> QED
    BY <1>0, <2>1 DEF WebhookJob
<1>5. CASE LockKey(s) \/ NewKey(s) \/ LoadWallet(s)
  BY <1>1, <1>5 DEF LockKey, NewKey, LoadWallet, Goto
<1>6. CASE Writes(s)
  BY <1>1, <1>6 DEF Writes, FreezeShare, DebitShare, DebitSwallowed, ReleaseShare,
     CompletePayment, FailPayment, Goto
<1>7. CASE Ends(s)
  BY <1>0, <1>1, <1>7 DEF Ends, ReuseKey, FreezeRefused, IgnoreWebhook, CommitCheckout, CommitPaid,
     CommitFailed, MarkProcessed, Abort, StatementFails, Rollback, Goto, End
<1> QED
  BY <1>2, <1>3, <1>4, <1>5, <1>6, <1>7 DEF StepOf, Reads, Quote, ReceiveWebhook

-----------------------------------------------------------------------------
(* Locks.                                                                  *)

\* Who may hold the wallet row.
LEMMA WalletLockedStep ==
  ASSUME TypeCorrect, TypeCorrect', WalletLocked, NEW s \in Session, StepOf(s)
  PROVE  WalletLocked'
<1> DEFINE Holding == {"invoicing", "commit", "closing"}
<1>0. /\ pc \in [Session -> Label] /\ holder \in Session \cup {NoSession}
      /\ \A t \in Session \ {s} : pc'[t] = pc[t]
      /\ NoSession \notin Session
  BY OthersStay, SessionAssumption DEF TypeCorrect, TypeOK, WalletTypeOK
<1>1. CASE UNCHANGED walletVars /\ (pc[s] \in Holding => pc'[s] \in Holding)
  BY <1>0, <1>1 DEF WalletLocked, walletVars
<1>2. CASE holder' = s /\ pc'[s] \in Holding
  BY <1>0, <1>2 DEF WalletLocked
<1>3. CASE CommitWallet(s) \/ RollbackWallet(s)
  BY <1>0, <1>3 DEF WalletLocked, CommitWallet, RollbackWallet
<1>4. CASE Reads(s)
  BY <1>0, <1>1, <1>4 DEF Reads, LockKey, NewKey, LoadWallet, ReadPayment, ReadAttempt, Quote,
     ReceiveWebhook, CreateInvoice, CreateZeroGateway, Goto
<1>5. CASE CompletePayment(s) \/ FailPayment(s)
  BY <1>0, <1>1, <1>5 DEF CompletePayment, FailPayment, Goto
<1>6. CASE FreezeShare(s) \/ DebitShare(s) \/ DebitSwallowed(s) \/ ReleaseShare(s)
  BY <1>0, <1>2, <1>6 DEF FreezeShare, DebitShare, DebitSwallowed, ReleaseShare, LockWallet, Goto
<1>7. CASE Ends(s)
  <2>1. CASE IgnoreWebhook(s)
    BY <1>0, <1>1, <1>3, <2>1 DEF IgnoreWebhook, Rollback
  <2>2. CASE ~IgnoreWebhook(s)
    BY <1>3, <1>7, <2>2 DEF Ends, ReuseKey, FreezeRefused, CommitCheckout, CommitPaid,
       CommitFailed, MarkProcessed, Abort, StatementFails, Rollback
  <2> QED
    BY <2>1, <2>2
<1> QED
  BY <1>4, <1>5, <1>6, <1>7 DEF StepOf, Writes

\* Who may hold the lock of a key.
LEMMA KeyLockedStep ==
  ASSUME TypeCorrect, KeyLocked, NEW s \in Session, StepOf(s)
  PROVE  KeyLocked'
<1>0. /\ pc \in [Session -> Label] /\ job \in [Session -> Job]
      /\ \A t \in Session \ {s} : pc'[t] = pc[t] /\ job'[t] = job[t]
      /\ keyHolder \in [Key -> Session \cup {NoSession}]
      /\ NoSession \notin Session
  BY OthersStay, SessionAssumption DEF TypeCorrect, TypeOK
<1>1. \A t \in Session \ {s} : IsCheckout(t)' <=> IsCheckout(t)
  BY <1>0 DEF IsCheckout
<1>2. CASE UNCHANGED keyHolder /\ (pc[s] \notin {"idle", "quoted"} => pc'[s] \notin {"idle", "quoted"})
  <2>1. IsCheckout(s) /\ pc[s] # "quoted" => IsCheckout(s)' /\ pc'[s] # "quoted"
    BY <1>2, JobStays DEF IsCheckout
  <2> QED
    BY <1>0, <1>1, <1>2, <2>1 DEF KeyLocked
<1>3. CASE Unlock(s)
  BY <1>0, <1>1, <1>3 DEF KeyLocked, Unlock
<1>4. CASE LockKey(s)
  <2>1. IsCheckout(s)' /\ pc'[s] = "keyed"
    BY <1>0, <1>4, JobFields, JobStays DEF LockKey, IsCheckout, Goto, CheckoutJob
  <2>2. \A k \in Key : keyHolder'[k] = keyHolder[k] \/ keyHolder'[k] = s
    BY <1>0, <1>4 DEF LockKey
  <2> QED
    BY <1>0, <1>1, <2>1, <2>2 DEF KeyLocked
<1>5. CASE Reads(s) /\ ~LockKey(s)
  BY <1>0, <1>2, <1>5 DEF Reads, NewKey, LoadWallet, ReadPayment, ReadAttempt, Quote,
     ReceiveWebhook, CreateInvoice, CreateZeroGateway, Goto, lockVars
<1>6. CASE Writes(s)
  BY <1>0, <1>2, <1>6 DEF Writes, FreezeShare, DebitShare, DebitSwallowed, ReleaseShare,
     CompletePayment, FailPayment, Goto, lockVars
<1>7. CASE Ends(s)
  <2>1. CASE IgnoreWebhook(s)
    BY <1>0, <1>2, <1>3, <2>1 DEF IgnoreWebhook, Rollback, Goto, lockVars
  <2>2. CASE ~IgnoreWebhook(s)
    BY <1>3, <1>7, <2>2 DEF Ends, ReuseKey, FreezeRefused, CommitCheckout, CommitPaid,
       CommitFailed, MarkProcessed, Abort, StatementFails, Rollback
  <2> QED
    BY <2>1, <2>2
<1> QED
  BY <1>4, <1>5, <1>6, <1>7 DEF StepOf

\* Who may hold the row of a payment.
LEMMA PaymentLockedStep ==
  ASSUME TypeCorrect, PaymentLocked, NEW s \in Session, StepOf(s)
  PROVE  PaymentLocked'
<1> DEFINE Kept(t) ==
      \/ IsWebhook(t, "paid") /\ pc[t] \in {"loading", "debiting", "commit"}
      \/ IsWebhook(t, "closed") /\ pc[t] = "commit"
<1>0. /\ pc \in [Session -> Label] /\ job \in [Session -> Job]
      /\ \A t \in Session \ {s} : pc'[t] = pc[t] /\ job'[t] = job[t]
      /\ payHolder \in [Payment -> Session \cup {NoSession}]
      /\ NoSession \notin Session
  BY OthersStay, SessionAssumption DEF TypeCorrect, TypeOK
<1>1. \A t \in Session \ {s} : Kept(t)' <=> Kept(t)
  BY <1>0 DEF IsWebhook
<1>2. CASE UNCHANGED payHolder /\ (Kept(s) => Kept(s)' /\ job'[s].p = job[s].p)
  BY <1>0, <1>1, <1>2 DEF PaymentLocked
<1>3. CASE Unlock(s)
  BY <1>0, <1>1, <1>3 DEF PaymentLocked, Unlock
<1>4. CASE CompletePayment(s) \/ FailPayment(s)
  <2>1. Kept(s)' /\ job'[s].p = job[s].p
    <3>1. Fits(pc[s], job[s])
      BY DEF TypeCorrect
    <3>2. job'[s] = job[s] /\ job[s] \in WebhookJob
      BY <1>4, <3>1 DEF CompletePayment, FailPayment, Goto, Fits
    <3>3. CASE CompletePayment(s)
      BY <1>0, <3>1, <3>2, <3>3 DEF CompletePayment, Goto, Fits, IsWebhook
    <3>4. CASE FailPayment(s)
      BY <1>0, <3>1, <3>2, <3>4 DEF FailPayment, Goto, Fits, IsWebhook
    <3> QED
      BY <1>4, <3>2, <3>3, <3>4
  <2>2. \A p \in Payment :
          payHolder'[p] = payHolder[p] \/ (payHolder'[p] = s /\ p = job[s].p)
    <3>1. payHolder' = [payHolder EXCEPT ![job[s].p] = s]
      BY <1>4 DEF CompletePayment, FailPayment, LockPayment
    <3> QED
      BY <1>0, <3>1
  <2>3. pc[s] \in {"completing", "closing"}
    BY <1>4 DEF CompletePayment, FailPayment
  <2>4. ~Kept(s)
    BY <2>3 DEF IsWebhook
  <2> QED
    BY <1>0, <1>1, <2>1, <2>2, <2>4 DEF PaymentLocked
<1>5. CASE UNCHANGED payHolder /\ ~Kept(s)
  BY <1>2, <1>5
<1>6. CASE UNCHANGED payHolder /\ Kept(s) /\ pc'[s] \in {"debiting", "commit"} /\ job'[s] = job[s]
           /\ pc[s] \in {"loading", "debiting"}
  BY <1>2, <1>6 DEF IsWebhook
<1>7. CASE Reads(s)
  BY <1>0, <1>5, <1>6, <1>7 DEF Reads, LockKey, NewKey, LoadWallet, ReadPayment, ReadAttempt,
     Quote, ReceiveWebhook, CreateInvoice, CreateZeroGateway, Goto, lockVars, IsWebhook
<1>8. CASE Writes(s) /\ ~CompletePayment(s) /\ ~FailPayment(s)
  BY <1>0, <1>5, <1>6, <1>8 DEF Writes, FreezeShare, DebitShare, DebitSwallowed, ReleaseShare,
     Goto, lockVars, IsWebhook
<1>9. CASE Ends(s)
  <2>1. CASE IgnoreWebhook(s)
    BY <1>0, <1>5, <1>3, <2>1 DEF IgnoreWebhook, Rollback, Goto, lockVars, IsWebhook
  <2>2. CASE ~IgnoreWebhook(s)
    BY <1>3, <1>9, <2>2 DEF Ends, ReuseKey, FreezeRefused, CommitCheckout, CommitPaid,
       CommitFailed, MarkProcessed, Abort, StatementFails, Rollback
  <2> QED
    BY <2>1, <2>2
<1> QED
  BY <1>4, <1>7, <1>8, <1>9 DEF StepOf

-----------------------------------------------------------------------------
(* Payments and their keys.                                                *)

Commits(s) == CommitCheckout(s) \/ CommitPaid(s) \/ CommitFailed(s)

\* A payment row changes only in the commit of the session that works on it.
LEMMA OnlyCommitsWrite ==
  ASSUME TypeCorrect, NEW s \in Session, StepOf(s), ~Commits(s)
  PROVE  UNCHANGED dbVars
<1>1. CASE Reads(s)
  BY <1>1 DEF Reads, LockKey, NewKey, LoadWallet, ReadPayment, ReadAttempt, Quote,
     ReceiveWebhook, CreateInvoice, CreateZeroGateway
<1>2. CASE Writes(s)
  BY <1>2 DEF Writes, FreezeShare, DebitShare, DebitSwallowed, ReleaseShare,
     CompletePayment, FailPayment
<1>3. CASE Ends(s)
  BY <1>3 DEF Ends, Commits, ReuseKey, FreezeRefused, IgnoreWebhook, MarkProcessed, Abort,
     StatementFails, Rollback
<1> QED
  BY <1>1, <1>2, <1>3 DEF StepOf

\* The row a commit writes.
LEMMA CommitWrites ==
  ASSUME TypeCorrect, NEW s \in Session, Commits(s)
  PROVE  /\ pc[s] = "commit" /\ job[s].p \in Payment
         /\ \A p \in Payment : p # job[s].p => pay'[p] = pay[p] /\ attempt'[p] = attempt[p]
         /\ CommitCheckout(s) =>
              /\ Assigned(s)
              /\ pay'[job[s].p].status \in {"completed", "pending"}
              /\ job[s].op = "zero" => pay'[job[s].p].status = "completed"
              /\ pay'[job[s].p].key = job[s].key
              /\ attempt'[job[s].p] # "closed"
         /\ CommitPaid(s) =>
              /\ IsWebhook(s, "paid")
              /\ pay'[job[s].p].status = "completed" /\ pay'[job[s].p].key = pay[job[s].p].key
         /\ CommitFailed(s) =>
              /\ IsWebhook(s, "closed")
              /\ pay'[job[s].p].status = "failed" /\ pay'[job[s].p].key = pay[job[s].p].key
<1>1. /\ pay \in [Payment -> PaymentRow]
      /\ attempt \in [Payment -> {"none", "pending", "succeeded", "closed"}]
  BY DEF TypeCorrect, TypeOK
<1>2. pc[s] = "commit"
  BY DEF Commits, CommitCheckout, CommitPaid, CommitFailed
<1>3. job[s].p \in Payment
  BY <1>2, JobFields
<1>4. pay[job[s].p] \in PaymentRow
  BY <1>1, <1>3
<1>5. CASE CommitCheckout(s)
  <2> DEFINE row == [status |-> IF job[s].op = "zero" THEN "completed" ELSE "pending",
                     used |-> job[s].used, key |-> job[s].key]
  <2>1. /\ pay' = [pay EXCEPT ![job[s].p] = row]
        /\ attempt' = [attempt EXCEPT ![job[s].p] = AttemptAfter(job[s])]
        /\ job[s].op \in {"gateway", "zero"}
    BY <1>5 DEF CommitCheckout
  <2>2. AttemptAfter(job[s]) # "closed"
    BY DEF AttemptAfter
  <2> QED
    BY <1>1, <1>2, <1>3, <1>5, <2>1, <2>2
    DEF Assigned, IsCheckout, CommitPaid, CommitFailed
<1>6. CASE CommitPaid(s)
  <2>1. /\ pay' = [pay EXCEPT ![job[s].p] = [pay[job[s].p] EXCEPT !.status = "completed"]]
        /\ attempt' = [attempt EXCEPT ![job[s].p] =
             IF job[s].attempt = "none" THEN @ ELSE "succeeded"]
        /\ job[s].op = "paid"
    BY <1>6 DEF CommitPaid
  <2> QED
    BY <1>1, <1>2, <1>3, <1>4, <1>6, <2>1
    DEF IsWebhook, PaymentRow, CommitCheckout, CommitFailed
<1>7. CASE CommitFailed(s)
  <2>1. /\ pay' = [pay EXCEPT ![job[s].p] = [pay[job[s].p] EXCEPT !.status = "failed"]]
        /\ attempt' = [attempt EXCEPT ![job[s].p] =
             IF job[s].attempt = "pending" THEN "closed" ELSE @]
        /\ job[s].op = "closed"
    BY <1>7 DEF CommitFailed
  <2> QED
    BY <1>1, <1>2, <1>3, <1>4, <1>7, <2>1
    DEF IsWebhook, PaymentRow, CommitCheckout, CommitPaid
<1> QED
  BY <1>5, <1>6, <1>7 DEF Commits

\* A payment never disappears, and a settled one stays settled.
LEMMA PaymentsStay ==
  ASSUME TypeCorrect, FreshPayments, NEW s \in Session, StepOf(s), NEW p \in Payment
  PROVE  /\ pay[p].status # "absent" => pay'[p].status # "absent"
         /\ Settled(p) => Settled(p)'
<1>1. CASE ~Commits(s)
  BY <1>1, OnlyCommitsWrite DEF dbVars, Settled
<1>2. CASE Commits(s)
  <2>1. CASE CommitCheckout(s)
    BY <1>2, <2>1, CommitWrites DEF FreshPayments, Settled
  <2>2. CASE CommitPaid(s) \/ CommitFailed(s)
    BY <1>2, <2>2, CommitWrites DEF Settled
  <2> QED
    BY <1>2, <2>1, <2>2 DEF Commits
<1> QED
  BY <1>1, <1>2

\* A key gets a payment from the checkout that committed it.
LEMMA KeysComeFromCheckouts ==
  ASSUME TypeCorrect, KnownPayments, NEW s \in Session, StepOf(s), NEW k, KeyUsed(k)', ~KeyUsed(k)
  PROVE  CommitCheckout(s) /\ job[s].key = k
<1>1. PICK p \in Payment : k # NoKey /\ pay'[p].status # "absent" /\ pay'[p].key = k
  BY DEF KeyUsed
<1>2. pay[p].status = "absent" \/ pay[p].key # k
  BY <1>1 DEF KeyUsed
<1>3. Commits(s) /\ p = job[s].p
  BY <1>1, <1>2, OnlyCommitsWrite, CommitWrites DEF dbVars
<1>4. ASSUME CommitPaid(s) \/ CommitFailed(s) PROVE FALSE
  <2>1. pay[p].status # "absent"
    BY <1>3, <1>4, CommitWrites DEF KnownPayments
  <2>2. pay[p].key = k
    BY <1>1, <1>3, <1>4, CommitWrites
  <2> QED
    BY <1>2, <2>1, <2>2
<1>5. CommitCheckout(s)
  BY <1>3, <1>4 DEF Commits
<1> QED
  BY <1>1, <1>3, <1>5, CommitWrites

\* A request's key is no absent key, and has a lock of its own.
LEMMA RetriesHaveKeys ==
  ASSUME NEW k \in Retry
  PROVE  k # NoKey /\ k[1] \in Key
  BY KeyAssumption DEF Retry

\* Nobody else releases the lock of a key, and nobody else commits its payment.
LEMMA KeyGuardedStep ==
  ASSUME TypeCorrect, TypeCorrect', KeyLocked, KeyGuarded, KnownPayments,
         NEW s \in Session, StepOf(s)
  PROVE  KeyGuarded'
<1>0. /\ pc \in [Session -> Label] /\ job \in [Session -> Job]
      /\ \A t \in Session \ {s} : pc'[t] = pc[t] /\ job'[t] = job[t]
      /\ keyHolder \in [Key -> Session \cup {NoSession}]
      /\ NoSession \notin Session
  BY OthersStay, SessionAssumption DEF TypeCorrect, TypeOK
<1>1. \A k \in Key : keyHolder[k] \in Session \ {s} => keyHolder'[k] = keyHolder[k]
  <2>1. CASE Reads(s)
    BY <1>0, <2>1 DEF Reads, LockKey, NewKey, LoadWallet, ReadPayment, ReadAttempt, Quote,
       ReceiveWebhook, CreateInvoice, CreateZeroGateway, lockVars
  <2>2. CASE Writes(s)
    BY <1>0, <2>2 DEF Writes, FreezeShare, DebitShare, DebitSwallowed, ReleaseShare,
       CompletePayment, FailPayment, lockVars
  <2>3. CASE Ends(s)
    BY <1>0, <2>3 DEF Ends, ReuseKey, FreezeRefused, IgnoreWebhook, CommitCheckout, CommitPaid,
       CommitFailed, MarkProcessed, Abort, StatementFails, Rollback, Unlock, lockVars
  <2> QED
    BY <2>1, <2>2, <2>3 DEF StepOf
<1>2. ASSUME NEW t \in Session, t # s, NEW k \in Retry,
             IsCheckout(t)', pc'[t] # "quoted", job'[t].key = k
      PROVE  GuardsKey(t, k)'
  <2>1. /\ IsCheckout(t) /\ pc[t] # "quoted" /\ job[t].key = k
        /\ pc'[t] = pc[t]
    BY <1>0, <1>2 DEF IsCheckout
  <2>2. GuardsKey(t, k)
    BY <2>1 DEF KeyGuarded
  <2>3. keyHolder'[k[1]] = t
    BY <1>1, <1>2, <2>2, RetriesHaveKeys DEF GuardsKey
  <2>4. ASSUME pc[t] # "keyed", KeyUsed(k)' PROVE FALSE
    <3>1. CommitCheckout(s) /\ job[s].key = k
      BY <2>2, <2>4, KeysComeFromCheckouts DEF GuardsKey
    <3>2. IsCheckout(s) /\ pc[s] # "quoted"
      BY <3>1, CommitWrites DEF Commits, Assigned
    <3> QED
      BY <1>2, <2>2, <3>1, <3>2 DEF KeyGuarded, GuardsKey
  <2> QED
    BY <2>1, <2>3, <2>4 DEF GuardsKey
<1>3. ASSUME NEW k \in Retry, IsCheckout(s)', pc'[s] # "quoted", job'[s].key = k
      PROVE  GuardsKey(s, k)'
  <2>0. pc'[s] # "idle" /\ job'[s].op \in {"gateway", "zero"} /\ k # NoKey
    BY <1>3, RetriesHaveKeys DEF IsCheckout
  <2>1. CASE LockKey(s)
    <3>1. job[s].key = k /\ pc'[s] = "keyed"
      BY <1>0, <1>3, <2>1 DEF LockKey, Goto
    <3> QED
      BY <1>0, <2>0, <2>1, <3>1, RetriesHaveKeys DEF LockKey, GuardsKey
  <2>2. CASE NewKey(s)
    <3>1. job'[s] = job[s] /\ pc[s] = "keyed" /\ ~KeyUsed(job[s].key)
          /\ UNCHANGED <<keyHolder, pay>>
      BY <2>2 DEF NewKey, Goto, lockVars, dbVars
    <3>2. IsCheckout(s) /\ job[s].key = k
      BY <1>3, <2>0, <3>1 DEF IsCheckout
    <3>3. GuardsKey(s, k) /\ ~KeyUsed(k)
      BY <3>1, <3>2 DEF KeyGuarded
    <3> QED
      BY <3>1, <3>3 DEF GuardsKey, KeyUsed
  <2>3. CASE pc[s] \notin {"idle", "quoted", "keyed"} /\ UNCHANGED <<keyHolder, pay>>
    <3>1. job'[s].op = job[s].op /\ job'[s].key = job[s].key
          /\ job[s].op \in {"gateway", "zero"}
      BY <2>0, <2>3, JobStays
    <3>2. IsCheckout(s) /\ pc[s] # "quoted" /\ job[s].key = k
      BY <1>3, <2>3, <3>1 DEF IsCheckout
    <3>3. GuardsKey(s, k)
      BY <3>2 DEF KeyGuarded
    <3> QED
      BY <2>3, <3>3 DEF GuardsKey, KeyUsed
  <2>4. CASE Reads(s) /\ ~LockKey(s) /\ ~NewKey(s)
    <3>1. ~(\E op \in {"gateway", "zero"}, key \in Retry \cup {NoKey}, used \in Share,
              ordered \in BOOLEAN : Quote(s, op, key, used, ordered))
      BY <1>0, <1>3 DEF Quote
    <3>2. ~(\E p \in Payment, event \in {"paid", "closed"} : ReceiveWebhook(s, p, event))
      BY <1>0, <2>0 DEF ReceiveWebhook
    <3> QED
      BY <2>3, <2>4, <3>1, <3>2 DEF Reads, LoadWallet, ReadPayment, ReadAttempt,
         CreateInvoice, CreateZeroGateway, lockVars, dbVars
  <2>5. CASE Writes(s)
    BY <2>3, <2>5 DEF Writes, FreezeShare, DebitShare, DebitSwallowed, ReleaseShare,
       CompletePayment, FailPayment, lockVars, dbVars
  <2>6. CASE Ends(s)
    <3>1. pc'[s] = "idle" \/ (pc[s] # "idle" /\ job[s].op = "paid")
      BY <1>0, <2>6 DEF Ends, ReuseKey, FreezeRefused, IgnoreWebhook, CommitCheckout, CommitPaid,
         CommitFailed, MarkProcessed, Abort, StatementFails, Rollback, End
    <3> QED
      BY <2>0, <3>1, JobStays
  <2> QED
    BY <2>1, <2>2, <2>4, <2>5, <2>6 DEF StepOf
<1> QED
  BY <1>2, <1>3 DEF KeyGuarded

\* A checkout that commits found no payment of its key, and its key is locked.
LEMMA OnePaymentPerKeyStep ==
  ASSUME TypeCorrect, OnePaymentPerKey, KeyGuarded, KnownPayments,
         NEW s \in Session, StepOf(s)
  PROVE  OnePaymentPerKey'
<1>1. CASE ~Commits(s)
  BY <1>1, OnlyCommitsWrite DEF dbVars, OnePaymentPerKey
<1>2. CASE CommitPaid(s) \/ CommitFailed(s)
  <2>1. pay[job[s].p].status # "absent"
    BY <1>2, CommitWrites DEF Commits, KnownPayments
  <2>2. \A p \in Payment : pay'[p].key = pay[p].key
        /\ (pay'[p].status # "absent" => pay[p].status # "absent")
    BY <1>2, <2>1, CommitWrites DEF Commits
  <2> QED
    BY <2>2 DEF OnePaymentPerKey
<1>3. CASE CommitCheckout(s)
  <2> DEFINE k == job[s].key
  <2>1. /\ job[s].p \in Payment /\ pay'[job[s].p].key = k
        /\ \A p \in Payment : p # job[s].p => pay'[p] = pay[p]
        /\ IsCheckout(s) /\ pc[s] = "commit"
    BY <1>3, CommitWrites DEF Commits, Assigned
  <2>2. k # NoKey => ~KeyUsed(k)
    <3>1. k \in Retry \cup {NoKey}
      BY <2>1, JobFields DEF IsCheckout, CheckoutJob
    <3> QED
      BY <2>1, <3>1 DEF KeyGuarded, GuardsKey
  <2> HIDE DEF k
  <2> SUFFICES ASSUME NEW p \in Payment, NEW q \in Payment, p # q,
                      pay'[p].status # "absent", pay'[q].status # "absent",
                      pay'[p].key # NoKey
               PROVE  pay'[p].key # pay'[q].key
    BY DEF OnePaymentPerKey
  <2>3. CASE p = job[s].p
    BY <2>1, <2>2, <2>3 DEF KeyUsed
  <2>4. CASE q = job[s].p
    BY <2>1, <2>2, <2>4 DEF KeyUsed
  <2>5. CASE p # job[s].p /\ q # job[s].p
    BY <2>1, <2>5 DEF OnePaymentPerKey
  <2> QED
    BY <2>3, <2>4, <2>5
<1> QED
  BY <1>1, <1>2, <1>3 DEF Commits

\* The payment a checkout has chosen is its own until it commits.
LEMMA FreshPaymentsStep ==
  ASSUME TypeCorrect, TypeCorrect', FreshPayments, KnownPayments,
         NEW s \in Session, StepOf(s)
  PROVE  FreshPayments'
<1>0. /\ pc \in [Session -> Label] /\ job \in [Session -> Job]
      /\ \A t \in Session \ {s} : pc'[t] = pc[t] /\ job'[t] = job[t]
  BY OthersStay DEF TypeCorrect, TypeOK
<1>1. \A t \in Session \ {s} : Assigned(t)' => Assigned(t)
  BY <1>0 DEF Assigned, IsCheckout
<1>2. ASSUME NEW t \in Session, t # s, Assigned(t)
      PROVE  pay'[job[t].p].status = "absent"
  <2>1. pay[job[t].p].status = "absent" /\ job[t].p \in Payment
    BY <1>2, JobFields DEF FreshPayments, Assigned
  <2>2. CASE ~Commits(s)
    BY <2>1, <2>2, OnlyCommitsWrite DEF dbVars
  <2>3. CASE Commits(s)
    <3>1. job[s].p # job[t].p
      BY <1>2, <2>1, <2>3, CommitWrites DEF Commits, FreshPayments, KnownPayments
    <3> QED
      BY <2>1, <2>3, <3>1, CommitWrites
  <2> QED
    BY <2>2, <2>3
<1>3. CASE ~Assigned(s)'
  BY <1>0, <1>1, <1>2, <1>3 DEF FreshPayments
<1>4. CASE Assigned(s) /\ job'[s] = job[s] /\ ~Commits(s)
  <2>1. UNCHANGED pay
    BY <1>4, OnlyCommitsWrite DEF dbVars
  <2> QED
    BY <1>0, <1>1, <1>4, <2>1 DEF FreshPayments
<1>5. CASE \E p \in Payment : CreateInvoice(s, p) \/ CreateZeroGateway(s, p)
  <2>1. PICK p \in Payment : CreateInvoice(s, p) \/ CreateZeroGateway(s, p)
    BY <1>5
  <2>2. /\ Fresh(p) /\ pay' = pay /\ job[s] \in CheckoutJob
        /\ job' = [job EXCEPT ![s] = [job[s] EXCEPT !.p = p]]
    BY <2>1, JobFields DEF CreateInvoice, CreateZeroGateway, dbVars
  <2>3. job'[s].p = p
    BY <1>0, <2>2 DEF CheckoutJob
  <2>4. \A t \in Session \ {s} : Assigned(t) => job[t].p # p
    BY <2>2 DEF Fresh, Assigned, IsCheckout
  <2> QED
    BY <1>0, <1>1, <1>2, <2>2, <2>3, <2>4 DEF FreshPayments, Fresh
<1>6. CASE Reads(s) /\ ~(\E p \in Payment : CreateInvoice(s, p) \/ CreateZeroGateway(s, p))
  <2>1. CASE LoadWallet(s)
    <3>1. job'[s] = job[s] /\ ~Commits(s) /\ pc[s] = "loading"
      BY <2>1 DEF LoadWallet, Goto, Commits, CommitCheckout, CommitPaid, CommitFailed
    <3>2. Assigned(s)' => Assigned(s)
      BY <3>1 DEF Assigned, IsCheckout
    <3> QED
      BY <1>3, <1>4, <3>1, <3>2
  <2>2. CASE ~LoadWallet(s)
    <3>1. pc'[s] \notin {"loading", "debiting", "commit"}
      BY <1>0, <1>6, <2>2 DEF Reads, LockKey, NewKey, ReadPayment, ReadAttempt, Quote,
         ReceiveWebhook, Goto
    <3> QED
      BY <1>3, <3>1 DEF Assigned
  <2> QED
    BY <2>1, <2>2
<1>7. CASE Writes(s)
  <2>1. job'[s] = job[s] /\ ~Commits(s)
    BY <1>7 DEF Writes, FreezeShare, DebitShare, DebitSwallowed, ReleaseShare,
       CompletePayment, FailPayment, Goto, Commits, CommitCheckout, CommitPaid, CommitFailed
  <2>2. CASE DebitShare(s) \/ DebitSwallowed(s)
    <3>1. Assigned(s)' => Assigned(s)
      BY <2>1, <2>2 DEF DebitShare, DebitSwallowed, Assigned, IsCheckout
    <3> QED
      BY <1>3, <1>4, <2>1, <3>1
  <2>3. CASE FreezeShare(s) \/ ReleaseShare(s)
    BY <1>0, <1>3, <2>3 DEF FreezeShare, ReleaseShare, Goto, Assigned
  <2>4. CASE CompletePayment(s) \/ FailPayment(s)
    <3>1. job[s].op \in {"paid", "closed"}
      BY <2>4 DEF CompletePayment, FailPayment, TypeCorrect, Fits, WebhookJob
    <3> QED
      BY <1>3, <2>1, <3>1 DEF Assigned, IsCheckout
  <2> QED
    BY <1>7, <2>2, <2>3, <2>4 DEF Writes
<1>8. CASE Ends(s)
  <2>1. pc'[s] \in {"idle", "marking"}
    BY <1>0, <1>8 DEF Ends, ReuseKey, FreezeRefused, IgnoreWebhook, CommitCheckout, CommitPaid,
       CommitFailed, MarkProcessed, Abort, StatementFails, Rollback, Goto, End
  <2> QED
    BY <1>3, <2>1 DEF Assigned
<1> QED
  BY <1>5, <1>6, <1>7, <1>8 DEF StepOf

\* A webhook goes on only with a payment it has found.
LEMMA KnownPaymentsStep ==
  ASSUME TypeCorrect, TypeCorrect', FreshPayments, KnownPayments,
         NEW s \in Session, StepOf(s)
  PROVE  KnownPayments'
<1>0. /\ pc \in [Session -> Label] /\ job \in [Session -> Job]
      /\ \A t \in Session \ {s} : pc'[t] = pc[t] /\ job'[t] = job[t]
  BY OthersStay DEF TypeCorrect, TypeOK
<1> SUFFICES ASSUME NEW t \in Session, pc'[t] \notin {"idle", "reading"},
                    job'[t].op \in {"paid", "closed"}
             PROVE  pay'[job'[t].p].status # "absent"
  BY DEF KnownPayments, IsWebhook
<1>1. CASE pc[t] \notin {"idle", "reading"} /\ job'[t].p = job[t].p /\ job'[t].op = job[t].op
  <2>1. pay[job[t].p].status # "absent" /\ job[t].p \in Payment
    BY <1>1, JobFields DEF KnownPayments, IsWebhook, WebhookJob
  <2> QED
    BY <1>1, <2>1, PaymentsStay
<1>2. CASE t # s
  BY <1>0, <1>1, <1>2
<1>3. CASE t = s /\ pc[s] \notin {"idle", "reading"}
  BY <1>1, <1>3, JobStays
<1>4. CASE t = s /\ pc[s] = "reading"
  <2>1. ReadPayment(s) \/ IgnoreWebhook(s)
    <3>1. CASE Reads(s)
      BY <1>4, <3>1 DEF Reads, LockKey, NewKey, LoadWallet, ReadAttempt, Quote,
         ReceiveWebhook, CreateInvoice, CreateZeroGateway
    <3>2. CASE Writes(s)
      BY <1>4, <3>2 DEF Writes, FreezeShare, DebitShare, DebitSwallowed, ReleaseShare,
         CompletePayment, FailPayment
    <3>3. CASE Ends(s)
      BY <1>0, <1>4, <3>3 DEF Ends, ReuseKey, FreezeRefused, CommitCheckout, CommitPaid,
         CommitFailed, MarkProcessed, Abort, StatementFails, Rollback, End
    <3> QED
      BY <3>1, <3>2, <3>3 DEF StepOf
  <2>2. pay[job[s].p].status # "absent"
    BY <1>0, <1>4, <2>1 DEF ReadPayment, IgnoreWebhook, Rollback, End, Terminal
  <2>3. job'[s].p = job[s].p /\ pay' = pay
    <3>1. job[s].op \in {"paid", "closed"}
      BY <1>4 DEF TypeCorrect, Fits, WebhookJob
    <3>2. ~Commits(s)
      BY <1>4 DEF Commits, CommitCheckout, CommitPaid, CommitFailed
    <3> QED
      BY <1>4, <3>1, <3>2, JobStays, OnlyCommitsWrite DEF dbVars
  <2> QED
    BY <1>4, <2>2, <2>3
<1>5. CASE t = s /\ pc[s] = "idle"
  BY <1>0, <1>5, IdleSteps DEF Quote, ReceiveWebhook
<1> QED
  BY <1>2, <1>3, <1>4, <1>5

\* A session opens invoices and changes none.
LEMMA InvoicesOpen ==
  ASSUME TypeCorrect, NEW s \in Session, StepOf(s)
  PROVE  \A p \in Payment : invoice'[p] = invoice[p] \/ (invoice[p] = "none" /\ p # NoSession)
<1>0. invoice \in [Payment -> {"none", "open", "paid", "closed", "late"}]
  BY DEF TypeCorrect, TypeOK
<1>1. ASSUME NEW p \in Payment, CreateInvoice(s, p)
      PROVE  /\ invoice' = [invoice EXCEPT ![p] = "open"]
             /\ invoice[p] = "none" /\ p # NoSession
  BY <1>1, JobFields DEF CreateInvoice, Fresh
<1>2. (\E p \in Payment : CreateInvoice(s, p)) \/ UNCHANGED invoice
  <2>1. CASE Reads(s)
    BY <2>1 DEF Reads, LockKey, NewKey, LoadWallet, ReadPayment, ReadAttempt, Quote,
       ReceiveWebhook, CreateZeroGateway
  <2>2. CASE Writes(s)
    BY <2>2 DEF Writes, FreezeShare, DebitShare, DebitSwallowed, ReleaseShare,
       CompletePayment, FailPayment
  <2>3. CASE Ends(s)
    BY <2>3 DEF Ends, ReuseKey, FreezeRefused, IgnoreWebhook, CommitCheckout, CommitPaid,
       CommitFailed, MarkProcessed, Abort, StatementFails
  <2> QED
    BY <2>1, <2>2, <2>3 DEF StepOf
<1> QED
  BY <1>0, <1>1, <1>2

\* Where a webhook is done with the payment.
LEMMA MarkingSteps ==
  ASSUME TypeCorrect, NEW s \in Session, StepOf(s), pc'[s] = "marking"
  PROVE  IgnoreWebhook(s) \/ ReadAttempt(s) \/ CommitPaid(s) \/ StatementFails(s)
<1>0. pc \in [Session -> Label]
  BY DEF TypeCorrect, TypeOK
<1>1. CASE Reads(s)
  BY <1>0, <1>1 DEF Reads, LockKey, NewKey, LoadWallet, ReadPayment, Quote,
     ReceiveWebhook, CreateInvoice, CreateZeroGateway, Goto
<1>2. CASE Writes(s)
  BY <1>0, <1>2 DEF Writes, FreezeShare, DebitShare, DebitSwallowed, ReleaseShare,
     CompletePayment, FailPayment, Goto
<1>3. CASE Ends(s)
  BY <1>0, <1>3 DEF Ends, ReuseKey, FreezeRefused, CommitCheckout, CommitFailed, MarkProcessed,
     Abort, Rollback, End
<1> QED
  BY <1>1, <1>2, <1>3 DEF StepOf

\* Webhooks are about invoices that report what they say.
LEMMA WebhooksReportStep ==
  ASSUME TypeCorrect, TypeCorrect', WebhooksReport, NEW s \in Session, StepOf(s)
  PROVE  WebhooksReport'
<1>0. /\ pc \in [Session -> Label] /\ job \in [Session -> Job]
      /\ \A t \in Session \ {s} : pc'[t] = pc[t] /\ job'[t] = job[t]
  BY OthersStay DEF TypeCorrect, TypeOK
<1>3. \A p \in Payment : invoice'[p] = invoice[p] \/ (invoice[p] = "none" /\ p # NoSession)
  BY InvoicesOpen
<1>4. \A p \in Payment : invoice'[p] # "none" => p # NoSession
  BY <1>3 DEF WebhooksReport
<1>5. ASSUME NEW t \in Session, NEW p \in Payment, NEW event \in {"paid", "closed"},
             IsWebhook(t, event)', job'[t].p = p
      PROVE  Reported(p, event)'
  <2>1. CASE IsWebhook(t, event) /\ job[t].p = p
    <3>1. Reported(p, event)
      BY <2>1 DEF WebhooksReport
    <3> QED
      BY <1>3, <3>1 DEF Reported
  <2>2. CASE t # s
    BY <1>0, <1>5, <2>1, <2>2 DEF IsWebhook
  <2>3. CASE t = s /\ pc[s] # "idle"
    BY <1>5, <2>1, <2>3, JobStays DEF IsWebhook
  <2>4. CASE t = s /\ pc[s] = "idle"
    <3>1. PICK q \in Payment, e \in {"paid", "closed"} : ReceiveWebhook(s, q, e)
      BY <1>0, <1>5, <2>4, IdleSteps DEF IsWebhook, Quote
    <3>2. job'[s].p = q /\ job'[s].op = e /\ Reported(q, e) /\ UNCHANGED invoice
      BY <1>0, <3>1 DEF ReceiveWebhook
    <3>3. event = e /\ p = q
      BY <1>5, <2>4, <3>2 DEF IsWebhook
    <3> QED
      BY <3>2, <3>3 DEF Reported
  <2> QED
    BY <2>2, <2>3, <2>4
<1> QED
  BY <1>4, <1>5 DEF WebhooksReport

\* Whoever waits for the wallet row of a session that waits itself, for one
\* that waits too, meets an invoice reported twice: the holder of the row is
\* failing the payment that the next one is completing.
LEMMA DeadlockIsLate ==
  ASSUME TypeCorrect, Locked, WebhooksReport,
         NEW s \in Session, NEW t \in Session, NEW u \in Session, NEW v \in Session,
         pc[s] \in {"priced", "debiting", "releasing"},
         Waits(s, t), Waits(t, u), Waits(u, v)
  PROVE  job[t].p # NoSession /\ invoice[job[t].p] = "late" /\ job[u].p = job[t].p
<1>1. holder = t
  BY DEF Waits
<1>2. pc[t] = "closing" /\ payHolder[job[t].p] = u
  BY <1>1 DEF Locked, WalletLocked, Waits
<1>3. job[t].op = "closed" /\ job[t].p \in Payment /\ IsWebhook(t, "closed")
  BY <1>2, JobFields DEF TypeCorrect, Fits, IsWebhook
<1>4. job[u].p = job[t].p /\ (IsWebhook(u, "paid") \/ pc[u] = "commit")
  BY <1>2, <1>3 DEF Locked, PaymentLocked
<1>5. IsWebhook(u, "paid")
  BY <1>4 DEF Waits
<1>6. Reported(job[t].p, "paid") /\ Reported(job[t].p, "closed")
  BY <1>3, <1>4, <1>5 DEF WebhooksReport
<1>7. invoice[job[t].p] = "late"
  BY <1>6 DEF Reported
<1> QED
  BY <1>3, <1>4, <1>7 DEF WebhooksReport

\* A payment is undone until it is settled.
LEMMA UndoneStays ==
  ASSUME TypeCorrect, NEW s \in Session, StepOf(s), NEW p \in undone
  PROVE  p \in undone' \/ Settled(p)'
<1>1. CASE CommitPaid(s) \/ CommitFailed(s)
  <2>1. undone' = undone \ {job[s].p}
    BY <1>1 DEF CommitPaid, CommitFailed
  <2>2. \A q \in Payment : q = job[s].p => Settled(q)'
    BY <1>1, CommitWrites DEF Commits, Settled
  <2>3. p \in Payment
    BY DEF TypeCorrect, TypeOK
  <2> QED
    BY <2>1, <2>2, <2>3
<1>2. CASE StatementFails(s)
  BY <1>2 DEF StatementFails
<1>3. CASE UNCHANGED undone
  BY <1>3
<1>4. CASE Reads(s)
  BY <1>3, <1>4 DEF Reads, LockKey, NewKey, LoadWallet, ReadPayment, ReadAttempt, Quote,
     ReceiveWebhook, CreateInvoice, CreateZeroGateway
<1>5. CASE Writes(s)
  BY <1>3, <1>5 DEF Writes, FreezeShare, DebitShare, DebitSwallowed, ReleaseShare,
     CompletePayment, FailPayment
<1>6. CASE Ends(s)
  BY <1>1, <1>2, <1>3, <1>6 DEF Ends, ReuseKey, FreezeRefused, IgnoreWebhook, CommitCheckout,
     MarkProcessed, Abort
<1> QED
  BY <1>4, <1>5, <1>6 DEF StepOf

\* A mark follows the outcome: what leads to "marking" has read or committed it,
\* or a swallowed error has undone it.
LEMMA MarksSettledStep ==
  ASSUME TypeCorrect, TypeCorrect', Locked, Payments, MarksSettled,
         NEW s \in Session, StepOf(s)
  PROVE  MarksSettled'
<1>0. /\ pc \in [Session -> Label] /\ job \in [Session -> Job]
      /\ \A t \in Session \ {s} : pc'[t] = pc[t] /\ job'[t] = job[t]
      /\ marked \subseteq Payment
      /\ FreshPayments /\ WebhooksReport
  BY OthersStay DEF TypeCorrect, TypeOK, Payments
<1>1. \A p \in Payment : Settled(p) => Settled(p)'
  BY <1>0, PaymentsStay
<1>2. \A p \in undone : p \in undone' \/ Settled(p)'
  BY <1>0, UndoneStays
<1>3. \A p \in Payment : SettledOrUndone(p) => SettledOrUndone(p)'
  BY <1>1, <1>2 DEF SettledOrUndone
<1>4. MarkedIsSettled'
  <2>1. marked' \subseteq marked \cup {p \in Payment : pc[s] = "marking" /\ job[s].p = p}
    <3>1. CASE Reads(s)
      BY <3>1 DEF Reads, LockKey, NewKey, LoadWallet, ReadPayment, ReadAttempt, Quote,
         ReceiveWebhook, CreateInvoice, CreateZeroGateway
    <3>2. CASE Writes(s)
      BY <3>2 DEF Writes, FreezeShare, DebitShare, DebitSwallowed, ReleaseShare,
         CompletePayment, FailPayment
    <3>3. CASE MarkProcessed(s)
      BY <3>3, JobFields DEF MarkProcessed
    <3>4. CASE Ends(s) /\ ~MarkProcessed(s)
      BY <3>4 DEF Ends, ReuseKey, FreezeRefused, IgnoreWebhook, CommitCheckout, CommitPaid,
         CommitFailed, Abort, StatementFails
    <3> QED
      BY <3>1, <3>2, <3>3, <3>4 DEF StepOf
  <2>2. \A p \in marked' : SettledOrUndone(p)'
    BY <1>0, <1>3, <2>1 DEF MarksSettled, MarkedIsSettled, SettledOrUndone
  <2> QED
    BY <2>2 DEF MarkedIsSettled, SettledOrUndone
<1>5. ASSUME NEW t \in Session, NEW p \in Payment, pc'[t] = "marking", job'[t].p = p
      PROVE  SettledOrUndone(p)'
  <2>1. CASE t # s
    BY <1>0, <1>3, <1>5, <2>1 DEF MarksSettled
  <2>2. CASE t = s
    <3>1. IgnoreWebhook(s) \/ ReadAttempt(s) \/ CommitPaid(s) \/ StatementFails(s)
      BY <1>0, <1>5, <2>2, MarkingSteps
    <3>2. job[s].p = p
      BY <1>5, <2>2, <3>1, JobStays DEF IgnoreWebhook, ReadAttempt, CommitPaid, StatementFails,
         TypeCorrect, Fits, WebhookJob
    <3>3. CASE IgnoreWebhook(s)
      BY <1>0, <1>3, <1>5, <2>2, <3>2, <3>3
      DEF IgnoreWebhook, Rollback, End, Terminal, SettledOrUndone, Settled
    <3>4. CASE ReadAttempt(s)
      <4>1. attempt[p] = "closed"
        BY <1>0, <1>5, <2>2, <3>2, <3>4 DEF ReadAttempt
      <4> QED
        BY <1>3, <4>1 DEF MarksSettled, SettledOrUndone
    <3>5. CASE CommitPaid(s)
      BY <3>2, <3>5, CommitWrites DEF Commits, SettledOrUndone, Settled
    <3>6. CASE StatementFails(s)
      BY <3>2, <3>6 DEF StatementFails, SettledOrUndone
    <3> QED
      BY <3>1, <3>3, <3>4, <3>5, <3>6
  <2> QED
    BY <2>1, <2>2
<1>6. ASSUME NEW p \in Payment, attempt'[p] = "closed"
      PROVE  Settled(p)'
  <2>1. CASE attempt[p] = "closed"
    BY <1>1, <2>1 DEF MarksSettled
  <2>2. CASE attempt[p] # "closed"
    <3>1. Commits(s) /\ p = job[s].p /\ ~CommitCheckout(s)
      BY <1>6, <2>2, OnlyCommitsWrite, CommitWrites DEF dbVars, Commits
    <3> QED
      BY <3>1, CommitWrites DEF Commits, Settled
  <2> QED
    BY <2>1, <2>2
<1> QED
  BY <1>4, <1>5, <1>6 DEF MarksSettled

-----------------------------------------------------------------------------
(* The wallet.                                                             *)

\* A session that holds no wallet row changes none.
LEMMA ReadersKeepWallet ==
  ASSUME NEW s \in Session, Reads(s) \/ CompletePayment(s) \/ FailPayment(s)
  PROVE  UNCHANGED walletVars /\ pc[s] # "commit"
  BY DEF Reads, LockKey, NewKey, LoadWallet, ReadPayment, ReadAttempt, Quote,
     ReceiveWebhook, CreateInvoice, CreateZeroGateway, CompletePayment, FailPayment

\* The end of a session commits what it flushed, drops it, or writes nothing.
LEMMA EndsWallet ==
  ASSUME NEW s \in Session, Ends(s)
  PROVE  \/ CommitWallet(s) /\ Commits(s)
         \/ RollbackWallet(s)
         \/ UNCHANGED walletVars /\ pc[s] = "reading"
<1>1. CASE Commits(s)
  BY <1>1 DEF Commits, CommitCheckout, CommitPaid, CommitFailed
<1>2. CASE IgnoreWebhook(s)
  BY <1>2 DEF IgnoreWebhook, Rollback
<1>3. CASE ~Commits(s) /\ ~IgnoreWebhook(s)
  BY <1>3 DEF Ends, Commits, ReuseKey, FreezeRefused, MarkProcessed, Abort, StatementFails, Rollback
<1> QED
  BY <1>1, <1>2, <1>3

\* Only DebitShare flushes a debit, under a row lock it keeps to its commit.
LEMMA ChargedAtCommitStep ==
  ASSUME TypeCorrect, TypeCorrect', WalletLocked, ChargedAtCommit, NEW s \in Session, StepOf(s)
  PROVE  ChargedAtCommit'
<1>0. /\ pc \in [Session -> Label] /\ job \in [Session -> Job]
      /\ \A t \in Session \ {s} : pc'[t] = pc[t] /\ job'[t] = job[t]
      /\ holder \in Session \cup {NoSession} /\ NoSession \notin Session
      /\ draft \in Row /\ wallet \in Row
  BY OthersStay, SessionAssumption DEF TypeCorrect, TypeOK, WalletTypeOK
<1>1. CASE Reads(s) \/ CompletePayment(s) \/ FailPayment(s)
  BY <1>0, <1>1, ReadersKeepWallet DEF ChargedAtCommit, walletVars
<1>2. CASE FreezeShare(s) \/ ReleaseShare(s) \/ DebitSwallowed(s)
  <2>1. /\ holder = NoSession /\ wallet' = wallet
        /\ draft' \in {draft, Freeze(draft, job[s].used), Unfreeze(draft, job[s].used)}
        /\ pc[s] # "idle"
    BY <1>2 DEF FreezeShare, ReleaseShare, DebitSwallowed, LockWallet
  <2>2. draft'.debited = wallet'.debited
    <3>1. job[s].used \in Nat /\ draft = wallet
      BY <2>1, JobFields DEF WalletLocked
    <3>2. /\ Freeze(draft, job[s].used).debited = draft.debited
          /\ Unfreeze(draft, job[s].used).debited = draft.debited
      BY <1>0, <3>1, FreezeRow, UnfreezeRow
    <3> QED
      BY <2>1, <3>1, <3>2
  <2> QED
    BY <2>2 DEF ChargedAtCommit
<1>3. CASE DebitShare(s)
  <2>1. /\ holder = NoSession /\ wallet' = wallet /\ draft' = Charged(s) /\ holder' = s
        /\ pc[s] = "debiting" /\ pc'[s] = "commit" /\ job'[s] = job[s]
    BY <1>0, <1>3 DEF DebitShare, LockWallet, Goto
  <2>2. job[s].op \in {"zero", "paid"}
    BY <2>1 DEF TypeCorrect, Fits
  <2>3. \A p \in Payment : p # job[s].p => draft'.debited[p] = wallet'.debited[p]
    BY <2>1, ChargedRow DEF WalletLocked
  <2> QED
    BY <2>1, <2>2, <2>3 DEF ChargedAtCommit
<1>4. CASE Ends(s)
  <2>1. CASE CommitWallet(s) \/ RollbackWallet(s)
    BY <1>0, <2>1 DEF ChargedAtCommit, CommitWallet, RollbackWallet
  <2>2. CASE UNCHANGED walletVars /\ pc[s] = "reading"
    BY <1>0, <2>2 DEF ChargedAtCommit, walletVars
  <2> QED
    BY <1>4, <2>1, <2>2, EndsWallet
<1> QED
  BY <1>1, <1>2, <1>3, <1>4 DEF StepOf, Writes

\* A debit is refused when the copy it is computed from does not cover it.
LEMMA NeverNegativeStep ==
  ASSUME TypeCorrect, NeverNegative, NEW s \in Session, StepOf(s)
  PROVE  NeverNegative'
<1>0. /\ copy \in [Session -> Copy] /\ \A t \in Session \ {s} : copy'[t] = copy[t]
      /\ draft \in Row /\ wallet \in Row
      /\ wallet.balance >= 0 /\ wallet.frozen >= 0 /\ draft.balance >= 0 /\ draft.frozen >= 0
      /\ copy[s].frozen >= 0
  BY OthersStay DEF TypeCorrect, TypeOK, WalletTypeOK, NeverNegative, NonNegative
<1>1. copy'[s].frozen >= 0
  <2>1. CASE LoadWallet(s)
    BY <1>0, <2>1 DEF LoadWallet, Row
  <2>2. CASE UNCHANGED copy
    BY <1>0, <2>2
  <2>3. CASE End(s)
    BY <1>0, <2>3 DEF End, NoCopy
  <2>4. CASE Reads(s)
    BY <2>1, <2>2, <2>4 DEF Reads, LockKey, NewKey, ReadPayment, ReadAttempt, Quote,
       ReceiveWebhook, CreateInvoice, CreateZeroGateway
  <2>5. CASE Writes(s)
    BY <2>2, <2>5 DEF Writes, FreezeShare, DebitShare, DebitSwallowed, ReleaseShare,
       CompletePayment, FailPayment
  <2>6. CASE Ends(s)
    BY <2>2, <2>3, <2>6 DEF Ends, ReuseKey, FreezeRefused, IgnoreWebhook, CommitCheckout,
       CommitPaid, CommitFailed, MarkProcessed, Abort, StatementFails, Rollback
  <2> QED
    BY <2>4, <2>5, <2>6 DEF StepOf
<1>2. /\ wallet'.balance >= 0 /\ wallet'.frozen >= 0
      /\ draft'.balance >= 0 /\ draft'.frozen >= 0
  <2>1. CASE Reads(s) \/ CompletePayment(s) \/ FailPayment(s)
    BY <1>0, <2>1, ReadersKeepWallet DEF walletVars
  <2>2. CASE FreezeShare(s) \/ ReleaseShare(s) \/ DebitSwallowed(s)
    <3>1. /\ wallet' = wallet /\ pc[s] # "idle"
          /\ \/ draft' = draft
             \/ draft' = Freeze(draft, job[s].used)
             \/ CanUnfreeze(draft, job[s].used) /\ draft' = Unfreeze(draft, job[s].used)
      BY <2>2 DEF FreezeShare, ReleaseShare, DebitSwallowed
    <3>2. job[s].used \in Nat
      BY <3>1, JobFields
    <3>3. draft'.balance = draft.balance /\ draft'.frozen >= 0
      BY <1>0, <3>1, <3>2, FreezeRow, UnfreezeRow DEF CanUnfreeze, Row
    <3> QED
      BY <1>0, <3>1, <3>3
  <2>3. CASE DebitShare(s)
    <3>1. /\ wallet' = wallet /\ draft' = Charged(s) /\ pc[s] = "debiting"
          /\ copy[s].balance - copy[s].frozen >= job[s].used
      BY <2>3 DEF DebitShare, CanDebit, Available
    <3>2. job[s].used \in Nat /\ copy[s].balance \in Int /\ copy[s].frozen \in Int
      BY <1>0, <3>1, JobFields DEF Copy
    <3>3. draft'.balance >= 0 /\ draft'.frozen >= 0
      BY <1>0, <3>1, <3>2, ChargedRow
    <3> QED
      BY <1>0, <3>1, <3>3
  <2>4. CASE Ends(s)
    BY <1>0, <2>4, EndsWallet DEF CommitWallet, RollbackWallet, walletVars
  <2> QED
    BY <2>1, <2>2, <2>3, <2>4 DEF StepOf, Writes
<1> QED
  BY <1>0, <1>1, <1>2 DEF NeverNegative, NonNegative

-----------------------------------------------------------------------------
(* CryptoBot's own step, and every step.                                   *)

\* CryptoBot changes nothing but its own record of an invoice.
LEMMA SettleInvoiceStep ==
  ASSUME IInv, TypeCorrect', NEW p \in Payment, SettleInvoice(p)
  PROVE  IInv'
<1>1. /\ UNCHANGED <<walletVars, pc, job, copy, lockVars, dbVars, marked, undone>>
      /\ \A q \in Payment : invoice[q] \in {"paid", "late"} => invoice'[q] = invoice[q]
      /\ \A q \in Payment : invoice[q] = "closed" => invoice'[q] \in {"closed", "late"}
      /\ \A q \in Payment : invoice[q] = "none" => invoice'[q] = "none"
  BY DEF SettleInvoice, IInv, TypeCorrect, TypeOK
<1>2. Locked' /\ KeyGuarded' /\ OnePaymentPerKey' /\ ChargedAtCommit' /\ NeverNegative'
  BY <1>1 DEF IInv, Locked, WalletLocked, KeyLocked, PaymentLocked, KeyGuarded, GuardsKey, KeyUsed,
     OnePaymentPerKey, ChargedAtCommit, NeverNegative, NonNegative, IsCheckout, IsWebhook,
     walletVars, lockVars, dbVars
<1>3. FreshPayments' /\ KnownPayments'
  BY <1>1 DEF IInv, Payments, FreshPayments, KnownPayments, Assigned, IsCheckout, IsWebhook, dbVars
<1>4. WebhooksReport'
  BY <1>1 DEF IInv, Payments, WebhooksReport, IsWebhook, Reported, TypeCorrect, TypeOK
<1>5. MarksSettled'
  BY <1>1 DEF IInv, MarksSettled, MarkedIsSettled, SettledOrUndone, Settled, TypeCorrect, TypeOK,
     dbVars
<1> QED
  BY <1>2, <1>3, <1>4, <1>5 DEF IInv, Payments

\* Nothing changes.
LEMMA StutterStep ==
  ASSUME IInv, TypeCorrect', UNCHANGED vars
  PROVE  IInv'
<1>1. UNCHANGED <<walletVars, pc, job, copy, lockVars, dbVars, invoice, marked, undone>>
  BY DEF vars
<1>2. Locked' /\ KeyGuarded' /\ OnePaymentPerKey' /\ ChargedAtCommit' /\ NeverNegative'
  BY <1>1 DEF IInv, Locked, WalletLocked, KeyLocked, PaymentLocked, KeyGuarded, GuardsKey, KeyUsed,
     OnePaymentPerKey, ChargedAtCommit, NeverNegative, NonNegative, IsCheckout, IsWebhook,
     walletVars, lockVars, dbVars
<1>3. Payments' /\ MarksSettled'
  BY <1>1 DEF IInv, Payments, FreshPayments, KnownPayments, Assigned, IsCheckout, IsWebhook,
     WebhooksReport, Reported, MarksSettled, MarkedIsSettled, SettledOrUndone, Settled, dbVars
<1> QED
  BY <1>2, <1>3 DEF IInv

\* The parts together are inductive.
LEMMA InvariantStep ==
  ASSUME IInv, [Next]_vars
  PROVE  IInv'
<1>1. TypeCorrect'
  BY TypeStep DEF IInv
<1>2. CASE \E p \in Payment : SettleInvoice(p)
  BY <1>1, <1>2, SettleInvoiceStep
<1>3. CASE \E s \in Session : StepOf(s)
  <2>1. PICK s \in Session : StepOf(s)
    BY <1>3
  <2>2. Locked'
    BY <1>1, <2>1, WalletLockedStep, KeyLockedStep, PaymentLockedStep DEF IInv, Locked
  <2>3. KeyGuarded' /\ OnePaymentPerKey'
    BY <1>1, <2>1, KeyGuardedStep, OnePaymentPerKeyStep DEF IInv, Locked, Payments
  <2>4. Payments'
    BY <1>1, <2>1, FreshPaymentsStep, KnownPaymentsStep, WebhooksReportStep DEF IInv, Payments
  <2>5. MarksSettled'
    BY <1>1, <2>1, MarksSettledStep DEF IInv
  <2>6. ChargedAtCommit' /\ NeverNegative'
    BY <1>1, <2>1, ChargedAtCommitStep, NeverNegativeStep DEF IInv, Locked
  <2> QED
    BY <1>1, <2>2, <2>3, <2>4, <2>5, <2>6 DEF IInv
<1>4. CASE UNCHANGED vars
  BY <1>1, <1>4, StutterStep
<1> QED
  BY <1>2, <1>3, <1>4, NextIsAStep

\* They hold at the start.
LEMMA InvariantInit ==
  ASSUME Init
  PROVE  IInv
<1>1. /\ pc = [s \in Session |-> "idle"] /\ job = [s \in Session |-> NoJob]
      /\ copy = [s \in Session |-> NoCopy] /\ keyHolder = [k \in Key |-> NoSession]
      /\ pay = [p \in Payment |-> NoPayment] /\ payHolder = [p \in Payment |-> NoSession]
      /\ attempt = [p \in Payment |-> "none"] /\ invoice = [p \in Payment |-> "none"]
      /\ marked = {} /\ undone = {} /\ fulfilled = [p \in Payment |-> 0] /\ NoSession \notin Session
  BY SessionAssumption DEF Init
<1>2. /\ wallet = [balance |-> Opening, frozen |-> 0, ledger |-> Opening,
                   debited |-> [r \in Ref |-> 0]]
      /\ draft = wallet /\ holder = NoSession /\ Opening \in Nat
  BY OpeningAssumption DEF Init, WalletInit
<1>3. WalletTypeOK
  BY <1>2 DEF WalletTypeOK, Row
<1>4. TypeCorrect
  BY <1>1, <1>3 DEF TypeCorrect, TypeOK, Label, Job, NoCopy, Copy, NoPayment, PaymentRow, Fits
<1>5. Locked /\ KeyGuarded
  BY <1>1, <1>2 DEF Locked, WalletLocked, KeyLocked, PaymentLocked, KeyGuarded, IsCheckout
<1>6. OnePaymentPerKey /\ ChargedAtCommit /\ NeverNegative
  BY <1>1, <1>2 DEF OnePaymentPerKey, NoPayment, ChargedAtCommit, NeverNegative, NonNegative, NoCopy
<1>7. Payments /\ MarksSettled
  BY <1>1 DEF Payments, FreshPayments, KnownPayments, WebhooksReport, MarksSettled,
     MarkedIsSettled, Assigned, IsCheckout, IsWebhook
<1> QED
  BY <1>4, <1>5, <1>6, <1>7 DEF IInv

\* They hold for ever.
LEMMA Invariant == Spec => []IInv
<1>1. Init => IInv
  BY InvariantInit
<1>2. IInv /\ [Next]_vars => IInv'
  BY InvariantStep
<1> QED
  BY <1>1, <1>2, PTL DEF Spec

-----------------------------------------------------------------------------
(* The theorems.                                                           *)

\* Sessions, jobs, locks, payments and the wallet keep their types.
THEOREM TypesHold == Spec => []TypeOK
<1>1. IInv => TypeOK
  BY DEF IInv, TypeCorrect
<1> QED
  BY <1>1, Invariant, PTL

\* However checkouts interleave, retry or crash, an idempotency key names at
\* most one payment of each checkout mode: commit_checkout looks the key up
\* under its advisory lock.
THEOREM KeysNameOnePayment == Spec => []OnePaymentPerKey
<1>1. IInv => OnePaymentPerKey
  BY DEF IInv
<1> QED
  BY <1>1, Invariant, PTL

\* An invoice marked processed in Redis is settled in the database
\* (payment_webhook marks after its commit), unless the commit that completed it
\* rolled back over an error that post-payment processing had swallowed.
THEOREM MarksAreSettled == Spec => []MarkedIsSettled
<1>1. IInv => MarkedIsSettled
  BY DEF IInv, MarksSettled
<1> QED
  BY <1>1, Invariant, PTL

\* The committed wallet is never negative, though post-payment computes its
\* debit from a stale copy of the row.
THEOREM WalletNeverNegative == Spec => []NonNegative
<1>1. IInv => NonNegative
  BY DEF IInv, NeverNegative
<1> QED
  BY <1>1, Invariant, PTL

\* Money leaves the wallet for a payment only in the transaction that
\* completes the payment.
THEOREM DebitsComplete == Spec => DebitCompletes
<1>1. ASSUME IInv, Next, NEW p \in Payment, wallet'.debited[p] # wallet.debited[p]
      PROVE  pay'[p].status = "completed"
  <2>1. PICK s \in Session : StepOf(s)
    <3>1. \A q \in Payment : ~SettleInvoice(q)
      BY <1>1 DEF SettleInvoice, walletVars
    <3> QED
      BY <1>1, <3>1, NextIsAStep
  <2>2. CommitWallet(s) /\ Commits(s)
    <3>1. ~Reads(s) /\ ~CompletePayment(s) /\ ~FailPayment(s)
      BY <1>1, ReadersKeepWallet DEF walletVars
    <3>2. ~(FreezeShare(s) \/ DebitShare(s) \/ DebitSwallowed(s) \/ ReleaseShare(s))
      BY <1>1 DEF FreezeShare, DebitShare, DebitSwallowed, ReleaseShare
    <3>3. Ends(s)
      BY <2>1, <3>1, <3>2 DEF StepOf, Writes
    <3> QED
      BY <1>1, <3>3, EndsWallet DEF RollbackWallet, walletVars
  <2>3. holder = s /\ draft.debited[p] # wallet.debited[p]
    BY <1>1, <2>2 DEF CommitWallet
  <2>4. job[s].op \in {"zero", "paid"} /\ job[s].p = p
    BY <1>1, <2>3 DEF IInv, ChargedAtCommit
  <2>5. TypeCorrect
    BY <1>1 DEF IInv
  <2>6. ~CommitFailed(s)
    BY <2>4 DEF CommitFailed
  <2>7. CASE CommitCheckout(s)
    <3>1. job[s].op = "zero"
      BY <2>4, <2>7 DEF CommitCheckout
    <3> QED
      BY <2>2, <2>4, <2>5, <2>7, <3>1, CommitWrites
  <2>8. CASE CommitPaid(s)
    BY <2>2, <2>4, <2>5, <2>8, CommitWrites
  <2> QED
    BY <2>2, <2>6, <2>7, <2>8 DEF Commits
<1> DEFINE A == \A p \in Payment :
                 wallet'.debited[p] # wallet.debited[p] => pay'[p].status = "completed"
<1>2. IInv /\ [Next]_vars => [A]_vars
  BY <1>1
<1> HIDE DEF A
<1>3. Spec => [][A]_vars
  BY <1>2, Invariant, PTL DEF Spec
<1> QED
  BY <1>3 DEF DebitCompletes, A

\* A session that waits in a circle over the wallet row meets a payment that
\* was reported twice.
LEMMA WalletCircleIsLate ==
  ASSUME IInv, NEW circle \in SUBSET Session,
         \A s \in circle : \E t \in circle : Waits(s, t),
         NEW s \in circle, pc[s] \in {"priced", "debiting", "releasing"}
  PROVE  \E t \in circle : job[t].p # NoSession /\ invoice[job[t].p] = "late"
<1>1. PICK t \in circle : Waits(s, t)
  OBVIOUS
<1>2. PICK u \in circle : Waits(t, u)
  OBVIOUS
<1>3. PICK v \in circle : Waits(u, v)
  OBVIOUS
<1> QED
  BY <1>1, <1>2, <1>3, DeadlockIsLate DEF IInv, Payments

\* Sessions deadlock only over a payment reported both closed and paid: locks
\* are taken in the order key, then payment and wallet, and only the failing
\* webhook takes the wallet before the payment.
THEOREM DeadlocksAreLate == Spec => []CyclesOnlyWhenLate
<1>1. ASSUME IInv PROVE CyclesOnlyWhenLate
  <2> SUFFICES ASSUME NEW circle \in SUBSET Session, circle # {},
                      \A s \in circle : \E t \in circle : Waits(s, t)
               PROVE  \E s \in circle : job[s].p # NoSession /\ invoice[job[s].p] = "late"
    BY DEF CyclesOnlyWhenLate
  <2>1. PICK s \in circle : TRUE
    OBVIOUS
  <2>2. PICK t \in circle : Waits(s, t)
    OBVIOUS
  <2>3. TypeCorrect /\ Locked
    BY <1>1 DEF IInv
  <2>4. CASE pc[s] \in {"priced", "debiting", "releasing"}
    BY <1>1, <2>4, WalletCircleIsLate
  <2>5. CASE pc[s] \in {"completing", "closing"}
    <3>1. payHolder[job[s].p] = t /\ job[s].p \in Payment
      BY <2>2, <2>3, <2>5, JobFields DEF Waits
    <3>2. pc[t] \in {"loading", "debiting", "commit"}
      BY <2>3, <3>1 DEF Locked, PaymentLocked
    <3>3. pc[t] = "debiting"
      BY <3>2 DEF Waits
    <3> QED
      BY <1>1, <3>3, WalletCircleIsLate
  <2>6. CASE pc[s] = "quoted"
    <3>1. job[s].key \in Retry /\ keyHolder[job[s].key[1]] = t
      BY <2>2, <2>3, <2>6, JobFields DEF Waits, CheckoutJob
    <3>2. IsCheckout(t) /\ pc[t] # "quoted"
      BY <2>3, <3>1, RetriesHaveKeys DEF Locked, KeyLocked
    <3>3. pc[t] \notin {"completing", "closing"}
      BY <2>3, <3>2 DEF IsCheckout, TypeCorrect, Fits
    <3>4. pc[t] \in {"priced", "debiting", "releasing"}
      BY <3>2, <3>3 DEF Waits
    <3> QED
      BY <1>1, <3>4, WalletCircleIsLate
  <2> QED
    BY <2>2, <2>4, <2>5, <2>6 DEF Waits
<1> QED
  BY <1>1, Invariant, PTL

=============================================================================
