----------------------------- MODULE Withdrawals -----------------------------
(***************************************************************************)
(* The withdrawal workflow over one wallet: a user requests a withdrawal,  *)
(* which freezes its amount; an admin approves it (debit, then unfreeze)   *)
(* or rejects it (unfreeze); an admin tops the wallet up.                  *)
(*                                                                         *)
(* approve and reject read the withdrawal_requests row without a lock,     *)
(* check that it is pending, and only then wait for the wallet row.  The   *)
(* interleavings of that gap are the subject of this module.               *)
(***************************************************************************)
EXTENDS Wallet, FiniteSetsExt

CONSTANTS Admin,          \* the sessions that review withdrawals
          Amount,         \* amounts users ask for and admins credit
          MinWithdrawal,  \* wallet.min_withdrawal of the system config
          MaxBalance      \* bound: no top-up takes the balance above it

ASSUME AdminAssumption == Admin \subseteq Session
ASSUME AmountAssumption == Amount \subseteq Nat \ {0}
ASSUME MinAssumption == MinWithdrawal \in Nat
ASSUME MaxBalanceAssumption == MaxBalance \in Nat

Withdrawal == Ref   \* ids of withdrawal_requests rows

VARIABLES pc,        \* where each session stands in its request
          job,       \* what each session is working on
          wd,        \* the committed withdrawal_requests rows
          contested  \* history: requests two sessions have had under review at once

vars == <<wallet, draft, holder, pc, job, wd, contested>>

Job == [op : {"request", "approve", "reject"}, w : Withdrawal, amount : Nat]
TopupJob == [op |-> "topup"]
NoJob == [op |-> "none"]
Request == [status : {"absent", "pending", "completed", "failed"}, amount : Nat]

TypeOK ==
  /\ WalletTypeOK
  /\ pc \in [Session -> {"idle", "reviewed", "commit"}]
  /\ job \in [Session -> Job \cup {TopupJob, NoJob}]
  /\ wd \in [Withdrawal -> Request]
  /\ contested \subseteq Withdrawal
  /\ \A s \in Session : CASE pc[s] = "idle" -> job[s] = NoJob
                          [] pc[s] = "reviewed" -> job[s] \in Job
                          [] pc[s] = "commit" -> job[s] \in Job \cup {TopupJob}

Init ==
  /\ WalletInit
  /\ pc = [s \in Session |-> "idle"]
  /\ job = [s \in Session |-> NoJob]
  /\ wd = [w \in Withdrawal |-> [status |-> "absent", amount |-> 0]]
  /\ contested = {}

-----------------------------------------------------------------------------

Goto(s, label, work) ==
  /\ pc' = [pc EXCEPT ![s] = label]
  /\ job' = [job EXCEPT ![s] = work]

\* AdminTopupUseCase: credit under the row lock.
Topup(s, a) ==
  /\ pc[s] = "idle"
  /\ LockWallet(s)
  /\ draft.balance + a <= MaxBalance
  /\ draft' = Credit(draft, a)
  /\ Goto(s, "commit", TopupJob)
  /\ UNCHANGED <<wallet, wd, contested>>

\* RequestWithdrawalUseCase: the amount is at least the minimum and is frozen
\* under the row lock; the pending row is inserted by the same transaction.
RequestWithdrawal(s, w, a) ==
  /\ pc[s] = "idle"
  /\ wd[w].status = "absent"
  /\ \A t \in Session : job[t].op = "request" => job[t].w # w   \* a fresh uuid
  /\ a >= MinWithdrawal
  /\ LockWallet(s)
  /\ CanFreeze(draft, a)
  /\ draft' = Freeze(draft, a)
  /\ Goto(s, "commit", [op |-> "request", w |-> w, amount |-> a])
  /\ UNCHANGED <<wallet, wd, contested>>

\* Session t has read w and not yet answered its admin.
InHand(t, w) == pc[t] # "idle" /\ job[t].op \in {"approve", "reject"} /\ job[t].w = w

Contest(w) ==
  contested' = IF \E t \in Session : InHand(t, w) THEN contested \cup {w} ELSE contested

\* Variant: the status is not checked.
ReviewAny(s, w, op) ==
  /\ s \in Admin
  /\ pc[s] = "idle"
  /\ wd[w].status # "absent"
  /\ Goto(s, "reviewed", [op |-> op, w |-> w, amount |-> wd[w].amount])
  /\ Contest(w)
  /\ UNCHANGED <<wallet, draft, holder, wd>>

\* approve and reject start with session.get: an unlocked read that must find
\* the request pending.
Review(s, w, op) ==
  /\ s \in Admin
  /\ pc[s] = "idle"
  /\ wd[w].status = "pending"
  /\ Goto(s, "reviewed", [op |-> op, w |-> w, amount |-> wd[w].amount])
  /\ Contest(w)
  /\ UNCHANGED <<wallet, draft, holder, wd>>

CanApprove(row, w, a) == CanDebit(row, a) /\ CanUnfreeze(Debit(row, a, w), a)

Approved(row, w, a) == Unfreeze(Debit(row, a, w), a)

\* Variant: the hold stays after the debit.
ApproveKeepingHold(s) ==
  /\ pc[s] = "reviewed"
  /\ job[s].op = "approve"
  /\ LockWallet(s)
  /\ CanApprove(draft, job[s].w, job[s].amount)
  /\ draft' = Debit(draft, job[s].amount, job[s].w)
  /\ pc' = [pc EXCEPT ![s] = "commit"]
  /\ UNCHANGED <<wallet, job, wd, contested>>

\* Variant: a refused debit is swallowed, as post-payment processing does.
ApproveSwallowing(s) ==
  /\ pc[s] = "reviewed"
  /\ job[s].op = "approve"
  /\ LockWallet(s)
  /\ draft' = IF CanApprove(draft, job[s].w, job[s].amount)
              THEN Approved(draft, job[s].w, job[s].amount) ELSE draft
  /\ pc' = [pc EXCEPT ![s] = "commit"]
  /\ UNCHANGED <<wallet, job, wd, contested>>

\* approve: debit the amount, then unfreeze it, under one row lock.
Approve(s) ==
  /\ pc[s] = "reviewed"
  /\ job[s].op = "approve"
  /\ LockWallet(s)
  /\ CanApprove(draft, job[s].w, job[s].amount)
  /\ draft' = Approved(draft, job[s].w, job[s].amount)
  /\ pc' = [pc EXCEPT ![s] = "commit"]
  /\ UNCHANGED <<wallet, job, wd, contested>>

\* reject: unfreeze the amount.
Reject(s) ==
  /\ pc[s] = "reviewed"
  /\ job[s].op = "reject"
  /\ LockWallet(s)
  /\ CanUnfreeze(draft, job[s].amount)
  /\ draft' = Unfreeze(draft, job[s].amount)
  /\ pc' = [pc EXCEPT ![s] = "commit"]
  /\ UNCHANGED <<wallet, job, wd, contested>>

\* The wallet refuses the operation: the route answers 400 and get_db_session
\* rolls back, so the lock is taken and given back in one step.
Refuse(s) ==
  /\ pc[s] = "reviewed"
  /\ holder = NoSession
  /\ \/ job[s].op = "approve" /\ ~CanApprove(draft, job[s].w, job[s].amount)
     \/ job[s].op = "reject" /\ ~CanUnfreeze(draft, job[s].amount)
  /\ Goto(s, "idle", NoJob)
  /\ UNCHANGED <<wallet, draft, holder, wd, contested>>

\* Variant: a status the column's readers do not know.
StatusApproved(op) == IF op = "request" THEN "pending" ELSE "approved"

StatusAfter(op) == CASE op = "request" -> "pending"
                     [] op = "approve" -> "completed"
                     [] op = "reject" -> "failed"

\* get_db_session commits when the route returns.  The status written is the
\* one the session decided on, whatever the row has become since it was read.
Commit(s) ==
  /\ pc[s] = "commit"
  /\ CommitWallet(s)
  /\ wd' = IF job[s].op = "topup" THEN wd
           ELSE [wd EXCEPT ![job[s].w] =
                   [status |-> StatusAfter(job[s].op), amount |-> job[s].amount]]
  /\ Goto(s, "idle", NoJob)
  /\ UNCHANGED contested

\* An exception, a lost connection or a crash before the commit.
Abort(s) ==
  /\ pc[s] # "idle"
  /\ RollbackWallet(s)
  /\ Goto(s, "idle", NoJob)
  /\ UNCHANGED <<wd, contested>>

Next ==
  \E s \in Session :
    \/ \E a \in Amount : Topup(s, a)
    \/ \E w \in Withdrawal, a \in Amount : RequestWithdrawal(s, w, a)
    \/ \E w \in Withdrawal, op \in {"approve", "reject"} : Review(s, w, op)
    \/ Approve(s)
    \/ Reject(s)
    \/ Refuse(s)
    \/ Commit(s)
    \/ Abort(s)

Spec == Init /\ [][Next]_vars

\* PostgreSQL queues the sessions that wait for a row lock, so a session that
\* keeps finding the lock free in turn gets it; a route that returned commits.
Fairness ==
  \A s \in Session :
    /\ WF_vars(Commit(s))
    /\ SF_vars(Approve(s) \/ Reject(s) \/ Refuse(s))

FairSpec == Spec /\ Fairness

-----------------------------------------------------------------------------
(* Properties that hold however many admins review at once.                *)

\* The row lock and the checks under it keep every hold covered: neither a
\* committed row nor one about to be committed has frozen < 0 or frozen above
\* the balance, even when two reviews of one request both go through.
HoldsCovered == Covered(wallet) /\ Covered(draft)

\* The balance is what the wallet_transactions add up to (wallet_repo writes
\* both in one transaction): no interleaving loses or invents money.
LedgerAgrees == wallet.balance = wallet.ledger

\* A request shown as completed has a committed WITHDRAWAL debit of its amount
\* behind it, whichever review wrote the status last.
CompletedIsPaid ==
  \A w \in Withdrawal :
    wd[w].status = "completed" => wallet.debited[w] >= wd[w].amount

\* Whoever reviews a request gets an answer: the session neither waits for
\* the row lock for ever nor is left holding it.
ReviewsEnd == \A s \in Session : pc[s] = "reviewed" ~> pc[s] = "idle"

(* What the unlocked review may break, and only that.  process_withdrawal   *)
(* reads the status without a lock: two sessions that have one request in  *)
(* hand at the same time may both act on it.                               *)

PendingTotal ==
  MapThenSumSet(LAMBDA w : wd[w].amount, {w \in Withdrawal : wd[w].status = "pending"})

\* As long as no request has been under two reviews at once, the wallet
\* freezes exactly the pending requests: none is released twice, and no
\* processed request leaves money behind in the hold.
HoldsExact == contested = {} => wallet.frozen = PendingTotal

\* A request is paid out once if it ends completed and never if it does not,
\* unless that very request has been under two reviews at once; reviews of
\* other requests, contested or not, do not matter to it.
PaidOnce ==
  \A w \in Withdrawal \ contested :
    wallet.debited[w] = IF wd[w].status = "completed" THEN wd[w].amount ELSE 0

\* The abstract account this workflow implements: a deposit, a hold per
\* request, and for each hold one capture or one release.
Hold == [w \in Withdrawal |-> IF wd[w].status = "pending" THEN wd[w].amount ELSE 0]

AbstractAccount == INSTANCE Account WITH
  balance <- wallet.balance, held <- wallet.frozen,
  hold <- Hold, captured <- {w \in Withdrawal : wd[w].status = "completed"}

\* The workflow is the abstract account for any number of sessions and admins
\* until a request comes under two reviews at once.
ImplementsAccount ==
  AbstractAccount!Init /\ [][AbstractAccount!Next \/ contested' # {}]_(AbstractAccount!vars)

=============================================================================
