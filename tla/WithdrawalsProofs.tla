-------------------------- MODULE WithdrawalsProofs --------------------------
(***************************************************************************)
(* Theorems about Withdrawals, for every set of sessions, admins, requests *)
(* and amounts.  First what the row lock alone guarantees whatever is      *)
(* reviewed at once.  Then what holds of the requests that were never      *)
(* under two reviews at the same time (those not in contested): each is    *)
(* paid at most once; and as long as there is no other, the workflow       *)
(* implements the abstract account and the hold is exactly the sum of the  *)
(* pending requests.  The unlocked review breaks all three for a contested *)
(* request, so none of them can be had without the exception.              *)
(***************************************************************************)
EXTENDS Withdrawals, WalletProofs, FiniteSetTheorems, WellFoundedInduction

-----------------------------------------------------------------------------
(* Type correctness.                                                       *)

LEMMA InitTypeOK == Init => TypeOK
  BY OpeningAssumption DEF Init, TypeOK, WalletInit, WalletTypeOK, Row, Request

LEMMA NextTypeOK == TypeOK /\ [Next]_vars => TypeOK'
<1> SUFFICES ASSUME TypeOK, [Next]_vars PROVE TypeOK'
  OBVIOUS
<1>1. CASE UNCHANGED vars
  BY <1>1 DEF TypeOK, WalletTypeOK, vars
<1>2. ASSUME NEW s \in Session, NEW a \in Amount, Topup(s, a) PROVE TypeOK'
  <2>1. Credit(draft, a) \in Row
    BY AmountAssumption, CreditRow DEF TypeOK, WalletTypeOK
  <2> QED
    BY <1>2, <2>1 DEF Topup, LockWallet, Goto, TypeOK, WalletTypeOK
<1>3. ASSUME NEW s \in Session, NEW w \in Withdrawal, NEW a \in Amount,
             RequestWithdrawal(s, w, a)
      PROVE TypeOK'
  <2>1. Freeze(draft, a) \in Row
    BY AmountAssumption, FreezeRow DEF TypeOK, WalletTypeOK
  <2>2. [op |-> "request", w |-> w, amount |-> a] \in Job
    BY AmountAssumption DEF Job
  <2> QED
    BY <1>3, <2>1, <2>2 DEF RequestWithdrawal, LockWallet, Goto, TypeOK, WalletTypeOK
<1>4. ASSUME NEW s \in Session, NEW w \in Withdrawal, NEW op \in {"approve", "reject"},
             Review(s, w, op)
      PROVE TypeOK'
  <2>1. [op |-> op, w |-> w, amount |-> wd[w].amount] \in Job
    BY DEF TypeOK, Request, Job
  <2> QED
    BY <1>4, <2>1 DEF Review, Contest, Goto, TypeOK, WalletTypeOK
<1>5. ASSUME NEW s \in Session, Approve(s) PROVE TypeOK'
  <2>1. job[s] \in Job /\ job[s].w \in Withdrawal /\ job[s].amount \in Nat
    BY <1>5 DEF Approve, TypeOK, Job
  <2>2. Debit(draft, job[s].amount, job[s].w) \in Row
    BY <2>1, DebitRow DEF Withdrawal, TypeOK, WalletTypeOK
  <2>3. Approved(draft, job[s].w, job[s].amount) \in Row
    BY <2>1, <2>2, UnfreezeRow DEF Approved
  <2> QED
    BY <1>5, <2>1, <2>3 DEF Approve, LockWallet, TypeOK, WalletTypeOK
<1>6. ASSUME NEW s \in Session, Reject(s) PROVE TypeOK'
  <2>1. job[s] \in Job /\ job[s].amount \in Nat
    BY <1>6 DEF Reject, TypeOK, Job
  <2>2. Unfreeze(draft, job[s].amount) \in Row
    BY <2>1, UnfreezeRow DEF TypeOK, WalletTypeOK
  <2> QED
    BY <1>6, <2>1, <2>2 DEF Reject, LockWallet, TypeOK, WalletTypeOK
<1>7. ASSUME NEW s \in Session, Refuse(s) PROVE TypeOK'
  BY <1>7 DEF Refuse, Goto, TypeOK, WalletTypeOK
<1>8. ASSUME NEW s \in Session, Commit(s) PROVE TypeOK'
  <2>1. job[s] \in Job \cup {TopupJob}
    BY <1>8 DEF Commit, TypeOK
  <2>2. WalletTypeOK'
    BY <1>8 DEF Commit, CommitWallet, TypeOK, WalletTypeOK
  <2>3. wd' \in [Withdrawal -> Request]
    <3>1. CASE job[s].op = "topup"
      BY <1>8, <3>1 DEF Commit, TypeOK
    <3>2. CASE job[s] \in Job
      <4>1. /\ job[s].op \in {"request", "approve", "reject"}
            /\ job[s].w \in Withdrawal
            /\ job[s].amount \in Nat
        BY <3>2 DEF Job
      <4>2. [status |-> StatusAfter(job[s].op), amount |-> job[s].amount] \in Request
        BY <4>1 DEF StatusAfter, Request
      <4> QED
        BY <1>8, <4>1, <4>2 DEF Commit, TypeOK
    <3> QED
      BY <2>1, <3>1, <3>2 DEF TopupJob
  <2> QED
    BY <1>8, <2>2, <2>3 DEF Commit, Goto, TypeOK
<1>9. ASSUME NEW s \in Session, Abort(s) PROVE TypeOK'
  BY <1>9 DEF Abort, RollbackWallet, Goto, TypeOK, WalletTypeOK
<1> QED
  BY <1>1, <1>2, <1>3, <1>4, <1>5, <1>6, <1>7, <1>8, <1>9 DEF Next

\* The wallet row, the requests and the sessions' jobs keep their types, so
\* every status a review writes is one the readers of the column know.
THEOREM TypeCorrect == Spec => []TypeOK
  BY InitTypeOK, NextTypeOK, PTL DEF Spec

-----------------------------------------------------------------------------
(* The inductive invariant.                                                *)

\* A session is about to commit exactly when it holds the row lock, and an
\* unlocked row has nothing flushed.
LockInv ==
  /\ \A s \in Session : pc[s] = "commit" <=> holder = s
  /\ holder = NoSession => draft = wallet

\* An approval that holds the lock has already flushed its debit, and what is
\* flushed only adds to the debits that are committed.
FlushedInv ==
  /\ \A w \in Withdrawal : draft.debited[w] >= wallet.debited[w]
  /\ \A s \in Session : pc[s] = "commit" /\ job[s].op = "approve"
       => draft.debited[job[s].w] >= job[s].amount

IInv ==
  /\ TypeOK
  /\ Sound(wallet) /\ Sound(draft)
  /\ LockInv
  /\ FlushedInv
  /\ CompletedIsPaid

LEMMA InitIInv == Init => IInv
<1> SUFFICES ASSUME Init PROVE IInv
  OBVIOUS
<1>1. TypeOK
  BY InitTypeOK
<1>2. Sound(wallet) /\ Sound(draft)
  BY OpeningAssumption DEF Init, WalletInit, Sound, Covered
<1>3. LockInv
  BY SessionAssumption DEF Init, WalletInit, LockInv
<1>4. FlushedInv
  BY DEF Init, WalletInit, FlushedInv, Withdrawal
<1>5. CompletedIsPaid
  BY DEF Init, CompletedIsPaid
<1> QED
  BY <1>1, <1>2, <1>3, <1>4, <1>5 DEF IInv

\* The four operations that flush a new row: the lock was free, the row was
\* the committed one, and its successor is sound and takes no debit back.
LEMMA FlushStep ==
  ASSUME IInv, TypeOK', NEW s \in Session,
         LockWallet(s), UNCHANGED <<wallet, wd, contested>>,
         pc' = [pc EXCEPT ![s] = "commit"],
         Sound(draft'),
         \A w \in Withdrawal : draft'.debited[w] >= draft.debited[w],
         \A t \in Session : t # s => job'[t] = job[t],
         job'[s].op = "approve" => draft'.debited[job'[s].w] >= job'[s].amount
  PROVE  IInv'
<1>1. holder = NoSession /\ holder' = s /\ draft = wallet
  BY DEF IInv, LockInv, LockWallet
<1>2. \A t \in Session : pc[t] # "commit"
  BY <1>1, SessionAssumption DEF IInv, LockInv
<1>3. \A t \in Session : pc'[t] = IF t = s THEN "commit" ELSE pc[t]
  BY DEF IInv, TypeOK
<1>4. Sound(wallet)'
  BY DEF IInv
<1>5. LockInv'
  BY <1>1, <1>2, <1>3, SessionAssumption DEF LockInv
<1>6. FlushedInv'
  BY <1>1, <1>2, <1>3 DEF FlushedInv
<1>7. CompletedIsPaid'
  BY DEF IInv, CompletedIsPaid
<1> QED
  BY <1>4, <1>5, <1>6, <1>7 DEF IInv

\* Steps that leave the rows and the lock alone and put no session at commit.
LEMMA QuietStep ==
  ASSUME IInv, TypeOK', NEW s \in Session,
         UNCHANGED <<wallet, draft, holder, wd>>,
         pc[s] # "commit",
         NEW label \in {"idle", "reviewed"}, pc' = [pc EXCEPT ![s] = label],
         \A t \in Session : t # s => job'[t] = job[t]
  PROVE  IInv'
<1>1. \A t \in Session : pc'[t] = IF t = s THEN label ELSE pc[t]
  BY DEF IInv, TypeOK
<1>2. LockInv'
  BY <1>1 DEF IInv, LockInv
<1>3. FlushedInv'
  BY <1>1 DEF IInv, FlushedInv
<1>4. Sound(wallet)' /\ Sound(draft)' /\ CompletedIsPaid'
  BY DEF IInv, CompletedIsPaid
<1> QED
  BY <1>2, <1>3, <1>4 DEF IInv

LEMMA CommitStep ==
  ASSUME IInv, TypeOK', NEW s \in Session, Commit(s)
  PROVE  IInv'
<1>1. /\ holder = s /\ holder' = NoSession
      /\ wallet' = draft /\ draft' = draft
      /\ pc[s] = "commit"
  BY DEF IInv, LockInv, Commit, CommitWallet
<1>2. \A t \in Session : pc'[t] = IF t = s THEN "idle" ELSE pc[t]
  BY DEF IInv, TypeOK, Commit, Goto
<1>3. \A t \in Session : pc'[t] # "commit"
  BY <1>1, <1>2 DEF IInv, LockInv
<1>4. LockInv'
  BY <1>1, <1>3, SessionAssumption DEF LockInv
<1>5. FlushedInv'
  <2>1. draft.debited \in [Withdrawal -> Nat]
    BY DEF IInv, TypeOK, WalletTypeOK, Row, Withdrawal
  <2> QED
    BY <1>1, <1>3, <2>1 DEF FlushedInv
<1>6. CompletedIsPaid'
  <2> SUFFICES ASSUME NEW w \in Withdrawal, wd'[w].status = "completed"
               PROVE  wallet'.debited[w] >= wd'[w].amount
    BY DEF CompletedIsPaid
  <2>1. /\ draft.debited[w] \in Int /\ wallet.debited[w] \in Int
        /\ wd[w].amount \in Int
        /\ draft.debited[w] >= wallet.debited[w]
    BY DEF IInv, FlushedInv, TypeOK, WalletTypeOK, Row, Withdrawal, Request
  <2>2. CASE wd'[w] = wd[w]
    BY <1>1, <2>1, <2>2 DEF IInv, CompletedIsPaid
  <2>3. CASE wd'[w] # wd[w]
    <3>1. job[s].op # "topup"
      BY <2>3 DEF Commit
    <3>2. w = job[s].w /\ wd'[w] = [status |-> StatusAfter(job[s].op), amount |-> job[s].amount]
      BY <2>3, <3>1 DEF Commit, IInv, TypeOK
    <3>3. job[s] \in Job \cup {TopupJob}
      BY <1>1 DEF IInv, TypeOK
    <3>4. job[s] \in Job
      BY <3>1, <3>3 DEF TopupJob
    <3>5. job[s].op = "approve"
      BY <3>2, <3>4 DEF StatusAfter, Job
    <3> QED
      BY <1>1, <3>2, <3>5 DEF IInv, FlushedInv
  <2> QED
    BY <2>2, <2>3
<1> QED
  BY <1>1, <1>4, <1>5, <1>6 DEF IInv

LEMMA AbortStep ==
  ASSUME IInv, TypeOK', NEW s \in Session, Abort(s)
  PROVE  IInv'
<1>1. CASE pc[s] = "commit"
  <2>1. /\ holder = s /\ holder' = NoSession
        /\ wallet' = wallet /\ draft' = wallet
        /\ wd' = wd
    BY <1>1 DEF IInv, LockInv, Abort, RollbackWallet
  <2>2. \A t \in Session : pc'[t] # "commit"
    BY <2>1 DEF IInv, LockInv, TypeOK, Abort, Goto
  <2>3. LockInv'
    BY <2>1, <2>2, SessionAssumption DEF LockInv
  <2>4. FlushedInv'
    <3>1. wallet.debited \in [Withdrawal -> Nat]
      BY DEF IInv, TypeOK, WalletTypeOK, Row, Withdrawal
    <3> QED
      BY <2>1, <2>2, <3>1 DEF FlushedInv
  <2>5. CompletedIsPaid'
    BY <2>1 DEF IInv, CompletedIsPaid
  <2> QED
    BY <2>1, <2>3, <2>4, <2>5 DEF IInv
<1>2. CASE pc[s] # "commit"
  <2>1. UNCHANGED <<wallet, draft, holder, wd>>
    BY <1>2 DEF IInv, LockInv, Abort, RollbackWallet
  <2>2. \A t \in Session : t # s => job'[t] = job[t]
    BY DEF IInv, TypeOK, Abort, Goto
  <2> QED
    BY <1>2, <2>1, <2>2, QuietStep DEF Abort, Goto
<1> QED
  BY <1>1, <1>2

LEMMA NextIInv == IInv /\ [Next]_vars => IInv'
<1> SUFFICES ASSUME IInv, [Next]_vars PROVE IInv'
  OBVIOUS
<1>0. /\ TypeOK /\ TypeOK'
      /\ draft \in Row /\ Sound(draft)
      /\ draft.debited \in [Withdrawal -> Nat]
  BY NextTypeOK DEF IInv, TypeOK, WalletTypeOK, Row, Withdrawal
<1>1. CASE UNCHANGED vars
  BY <1>0, <1>1 DEF IInv, LockInv, FlushedInv, CompletedIsPaid, vars
<1>2. ASSUME NEW s \in Session, NEW a \in Amount, Topup(s, a) PROVE IInv'
  <2>1. a \in Nat
    BY AmountAssumption
  <2>2. Sound(draft') /\ draft'.debited = draft.debited
    BY <1>0, <1>2, <2>1, CreditRow, OperationsAreSound DEF Topup
  <2>3. \A t \in Session : job'[t] = IF t = s THEN TopupJob ELSE job[t]
    BY <1>0, <1>2 DEF Topup, Goto, TypeOK
  <2>4. \A w \in Withdrawal : draft'.debited[w] >= draft.debited[w]
    BY <1>0, <2>2
  <2>5. job'[s].op = "topup" /\ \A t \in Session : t # s => job'[t] = job[t]
    BY <2>3 DEF TopupJob
  <2>6. LockWallet(s) /\ UNCHANGED <<wallet, wd, contested>> /\ pc' = [pc EXCEPT ![s] = "commit"]
    BY <1>2 DEF Topup, Goto
  <2> QED
    BY <1>0, <2>2, <2>4, <2>5, <2>6, FlushStep
<1>3. ASSUME NEW s \in Session, NEW w \in Withdrawal, NEW a \in Amount,
             RequestWithdrawal(s, w, a)
      PROVE IInv'
  <2>1. a \in Nat
    BY AmountAssumption
  <2>2. Sound(draft') /\ draft'.debited = draft.debited
    BY <1>0, <1>3, <2>1, FreezeRow, OperationsAreSound DEF RequestWithdrawal
  <2>3. \A t \in Session : job'[t] =
          IF t = s THEN [op |-> "request", w |-> w, amount |-> a] ELSE job[t]
    BY <1>0, <1>3 DEF RequestWithdrawal, Goto, TypeOK
  <2>4. \A x \in Withdrawal : draft'.debited[x] >= draft.debited[x]
    BY <1>0, <2>2
  <2>5. job'[s].op = "request" /\ \A t \in Session : t # s => job'[t] = job[t]
    BY <2>3
  <2>6. LockWallet(s) /\ UNCHANGED <<wallet, wd, contested>> /\ pc' = [pc EXCEPT ![s] = "commit"]
    BY <1>3 DEF RequestWithdrawal, Goto
  <2> QED
    BY <1>0, <2>2, <2>4, <2>5, <2>6, FlushStep
<1>4. ASSUME NEW s \in Session, NEW w \in Withdrawal, NEW op \in {"approve", "reject"},
             Review(s, w, op)
      PROVE IInv'
  <2>1. \A t \in Session : t # s => job'[t] = job[t]
    BY <1>0, <1>4 DEF Review, Goto, TypeOK
  <2> QED
    BY <1>0, <1>4, <2>1, QuietStep DEF Review, Goto
<1>5. ASSUME NEW s \in Session, Approve(s) PROVE IInv'
  <2> DEFINE a == job[s].amount
             w == job[s].w
             debited == Debit(draft, a, w)
  <2>1. a \in Nat /\ w \in Withdrawal /\ job' = job
    BY <1>0, <1>5 DEF Approve, TypeOK, Job
  <2>2. /\ debited \in Row
        /\ debited.debited = [draft.debited EXCEPT ![w] = @ + a]
        /\ Sound(debited)
    BY <1>0, <1>5, <2>1, DebitRow, DebitIsSound DEF Approve, CanApprove, Withdrawal
  <2>3. draft' = Unfreeze(debited, a) /\ CanUnfreeze(debited, a)
    BY <1>5 DEF Approve, CanApprove, Approved
  <2> HIDE DEF debited, a
  <2>4. Sound(draft') /\ draft'.debited = debited.debited
    BY <2>1, <2>2, <2>3, UnfreezeRow, OperationsAreSound
  <2>5. \A x \in Withdrawal :
          draft'.debited[x] = IF x = w THEN draft.debited[w] + a ELSE draft.debited[x]
    BY <1>0, <2>1, <2>2, <2>4
  <2>6. draft'.debited[w] >= a
    BY <1>0, <2>1, <2>5
  <2>7. \A x \in Withdrawal : draft'.debited[x] >= draft.debited[x]
    BY <1>0, <2>1, <2>5
  <2> QED
    BY <1>0, <1>5, <2>1, <2>4, <2>6, <2>7, FlushStep DEF Approve, a
<1>6. ASSUME NEW s \in Session, Reject(s) PROVE IInv'
  <2>1. job[s].amount \in Nat /\ job' = job /\ job[s].op = "reject"
    BY <1>0, <1>6 DEF Reject, TypeOK, Job
  <2>2. Sound(draft') /\ draft'.debited = draft.debited
    BY <1>0, <1>6, <2>1, UnfreezeRow, OperationsAreSound DEF Reject
  <2>3. \A w \in Withdrawal : draft'.debited[w] >= draft.debited[w]
    BY <1>0, <2>2
  <2> QED
    BY <1>0, <1>6, <2>1, <2>2, <2>3, FlushStep DEF Reject
<1>7. ASSUME NEW s \in Session, Refuse(s) PROVE IInv'
  <2>1. \A t \in Session : t # s => job'[t] = job[t]
    BY <1>0, <1>7 DEF Refuse, Goto, TypeOK
  <2> QED
    BY <1>0, <1>7, <2>1, QuietStep DEF Refuse, Goto
<1>8. ASSUME NEW s \in Session, Commit(s) PROVE IInv'
  BY <1>0, <1>8, CommitStep
<1>9. ASSUME NEW s \in Session, Abort(s) PROVE IInv'
  BY <1>0, <1>9, AbortStep
<1> QED
  BY <1>1, <1>2, <1>3, <1>4, <1>5, <1>6, <1>7, <1>8, <1>9 DEF Next

\* The invariant holds of every behaviour: no interleaving of requests,
\* reviews, top-ups and crashes leads out of it.
THEOREM Invariance == Spec => []IInv
  BY InitIInv, NextIInv, PTL DEF Spec

\* However many admins review at once, no committed or flushed wallet row has
\* a negative hold or a hold above its balance (the checks of wallet_repo.py).
THEOREM HoldsStayCovered == Spec => []HoldsCovered
<1>1. IInv => HoldsCovered
  BY DEF IInv, HoldsCovered, Sound
<1> QED
  BY <1>1, Invariance, PTL

\* No interleaving loses or invents money: the balance stays what the
\* wallet_transactions add up to.
THEOREM LedgerStaysExact == Spec => []LedgerAgrees
<1>1. IInv => LedgerAgrees
  BY DEF IInv, LedgerAgrees, Sound
<1> QED
  BY <1>1, Invariance, PTL

\* A request whose status is "completed" has its debit committed, whichever
\* of two racing reviews wrote the status last (process_withdrawal.py:20).
THEOREM CompletedMeansPaid == Spec => []CompletedIsPaid
<1>1. IInv => CompletedIsPaid
  BY DEF IInv
<1> QED
  BY <1>1, Invariance, PTL

-----------------------------------------------------------------------------
(* What a review knows, and for how long it stays true.                    *)

Reviewing(s) == pc[s] # "idle" /\ job[s].op \in {"approve", "reject"}

\* Only an admin reviews; the amount is as it was read, and so is the status
\* unless the request is contested.
ReviewInv ==
  \A s \in Session : Reviewing(s) =>
    /\ s \in Admin
    /\ wd[job[s].w].amount = job[s].amount
    /\ wd[job[s].w].status # "absent"
    /\ job[s].w \notin contested => wd[job[s].w].status = "pending"

\* Two sessions with one request in hand have contested it.
ContestInv ==
  \A s, t \in Session :
    s # t /\ Reviewing(s) /\ Reviewing(t) /\ job[s].w = job[t].w => job[s].w \in contested

\* A request about to be inserted is new, and every request asks for something.
RequestInv ==
  /\ \A s \in Session : pc[s] = "commit" /\ job[s].op = "request"
       => wd[job[s].w].status = "absent" /\ job[s].amount > 0
  /\ \A w \in Withdrawal : wd[w].status # "absent" => wd[w].amount > 0

\* What the lock holder has flushed, compared with the committed row.
Deposited(s) ==
  /\ job[s] = TopupJob
  /\ draft.balance > wallet.balance
  /\ draft.frozen = wallet.frozen
  /\ draft.debited = wallet.debited

Requested(s) ==
  /\ job[s].op = "request"
  /\ draft.balance = wallet.balance
  /\ draft.frozen = wallet.frozen + job[s].amount
  /\ job[s].amount <= wallet.balance - wallet.frozen
  /\ draft.debited = wallet.debited

Paid(s) ==
  /\ job[s].op = "approve"
  /\ draft.balance = wallet.balance - job[s].amount
  /\ draft.frozen = wallet.frozen - job[s].amount
  /\ draft.debited = [wallet.debited EXCEPT ![job[s].w] = @ + job[s].amount]

Released(s) ==
  /\ job[s].op = "reject"
  /\ draft.balance = wallet.balance
  /\ draft.frozen = wallet.frozen - job[s].amount
  /\ draft.debited = wallet.debited

DraftInv ==
  \A s \in Session : pc[s] = "commit" => Deposited(s) \/ Requested(s) \/ Paid(s) \/ Released(s)

WorkflowInv ==
  /\ IInv
  /\ ReviewInv
  /\ ContestInv
  /\ RequestInv
  /\ DraftInv
  /\ PaidOnce

-----------------------------------------------------------------------------
(* Steps that do not commit.                                               *)

\* A session that takes the lock and flushes what DraftInv describes.
LEMMA WorkflowFlush ==
  ASSUME WorkflowInv, IInv', NEW s \in Session,
         LockWallet(s), UNCHANGED <<wallet, wd, contested>>,
         pc' = [pc EXCEPT ![s] = "commit"],
         \A t \in Session : t # s => job'[t] = job[t],
         job'[s].op \in {"approve", "reject"} => job'[s] = job[s] /\ pc[s] = "reviewed",
         job'[s].op = "request" => wd[job'[s].w].status = "absent" /\ job'[s].amount > 0,
         (Deposited(s) \/ Requested(s) \/ Paid(s) \/ Released(s))'
  PROVE  WorkflowInv'
<1>1. \A t \in Session : pc'[t] = IF t = s THEN "commit" ELSE pc[t]
  BY DEF WorkflowInv, IInv, TypeOK
<1>2. \A t \in Session : pc[t] # "commit"
  BY SessionAssumption DEF WorkflowInv, IInv, LockInv, LockWallet
<1>3. \A t \in Session : Reviewing(t)' => Reviewing(t) /\ job'[t] = job[t]
  BY <1>1 DEF Reviewing
<1>4. ReviewInv'
  BY <1>3 DEF WorkflowInv, ReviewInv
<1>5. ContestInv'
  BY <1>3 DEF WorkflowInv, ContestInv
<1>6. RequestInv'
  BY <1>1, <1>2 DEF WorkflowInv, RequestInv
<1>7. DraftInv'
  BY <1>1, <1>2 DEF DraftInv
<1>8. PaidOnce'
  BY DEF WorkflowInv, PaidOnce
<1> QED
  BY <1>4, <1>5, <1>6, <1>7, <1>8 DEF WorkflowInv

\* A session that reads a request: whoever has it in hand already contests it.
LEMMA WorkflowReview ==
  ASSUME WorkflowInv, IInv', NEW s \in Session, NEW w \in Withdrawal,
         NEW op \in {"approve", "reject"}, Review(s, w, op)
  PROVE  WorkflowInv'
<1>1. /\ \A t \in Session : pc'[t] = IF t = s THEN "reviewed" ELSE pc[t]
      /\ \A t \in Session : t # s => job'[t] = job[t]
      /\ job'[s].op = op /\ job'[s].w = w /\ job'[s].amount = wd[w].amount
      /\ pc[s] = "idle" /\ s \in Admin /\ wd[w].status = "pending"
      /\ UNCHANGED <<wallet, draft, wd>>
  BY DEF WorkflowInv, IInv, TypeOK, Review, Goto
<1>2. /\ contested \subseteq contested'
      /\ \A t \in Session : Reviewing(t) /\ job[t].w = w => w \in contested'
  BY DEF Review, Contest, InHand, Reviewing
<1>3. \A t \in Session : t # s => (Reviewing(t)' <=> Reviewing(t))
  BY <1>1 DEF Reviewing
<1>4. ReviewInv'
  BY <1>1, <1>2, <1>3 DEF WorkflowInv, ReviewInv
<1>5. ContestInv'
  BY <1>1, <1>2, <1>3 DEF WorkflowInv, ContestInv
<1>6. RequestInv'
  BY <1>1 DEF WorkflowInv, RequestInv
<1>7. DraftInv'
  BY <1>1 DEF WorkflowInv, DraftInv, Deposited, Requested, Paid, Released
<1>8. PaidOnce'
  BY <1>1, <1>2 DEF WorkflowInv, PaidOnce
<1> QED
  BY <1>4, <1>5, <1>6, <1>7, <1>8 DEF WorkflowInv

\* A session that gives up without the lock.
LEMMA WorkflowRefuse ==
  ASSUME WorkflowInv, IInv', NEW s \in Session, Refuse(s)
  PROVE  WorkflowInv'
<1>1. /\ \A t \in Session : pc'[t] = IF t = s THEN "idle" ELSE pc[t]
      /\ \A t \in Session : t # s => job'[t] = job[t]
      /\ UNCHANGED <<wallet, draft, wd, contested>>
  BY DEF WorkflowInv, IInv, TypeOK, Refuse, Goto
<1>2. ReviewInv' /\ ContestInv'
  BY <1>1 DEF WorkflowInv, ReviewInv, ContestInv, Reviewing
<1>3. RequestInv'
  BY <1>1 DEF WorkflowInv, RequestInv
<1>4. DraftInv'
  BY <1>1 DEF WorkflowInv, DraftInv, Deposited, Requested, Paid, Released
<1>5. PaidOnce'
  BY <1>1 DEF WorkflowInv, PaidOnce
<1> QED
  BY <1>2, <1>3, <1>4, <1>5 DEF WorkflowInv

LEMMA WorkflowAbort ==
  ASSUME WorkflowInv, IInv', NEW s \in Session, Abort(s)
  PROVE  WorkflowInv'
<1>1. \A t \in Session : t # s => job'[t] = job[t] /\ pc'[t] = pc[t]
  BY DEF WorkflowInv, IInv, TypeOK, Abort, Goto
<1>2. pc'[s] = "idle" /\ wd' = wd /\ wallet' = wallet /\ contested' = contested
  BY DEF WorkflowInv, IInv, TypeOK, Abort, Goto, RollbackWallet
<1>3. ReviewInv' /\ ContestInv'
  BY <1>1, <1>2 DEF WorkflowInv, ReviewInv, ContestInv, Reviewing
<1>4. RequestInv'
  BY <1>1, <1>2 DEF WorkflowInv, RequestInv
<1>5. DraftInv'
  <2> SUFFICES ASSUME NEW t \in Session, pc'[t] = "commit"
               PROVE  (Deposited(t) \/ Requested(t) \/ Paid(t) \/ Released(t))'
    BY DEF DraftInv
  <2>1. t # s /\ pc[t] = "commit" /\ job'[t] = job[t]
    BY <1>1, <1>2
  <2>2. draft' = draft
    BY <2>1 DEF WorkflowInv, IInv, LockInv, Abort, RollbackWallet
  <2> QED
    BY <1>2, <2>1, <2>2 DEF WorkflowInv, DraftInv, Deposited, Requested, Paid, Released
<1>6. PaidOnce'
  BY <1>2 DEF WorkflowInv, PaidOnce
<1> QED
  BY <1>3, <1>4, <1>5, <1>6 DEF WorkflowInv

-----------------------------------------------------------------------------
(* The commit.                                                             *)

\* What a commit publishes, whatever the session did.
LEMMA Publishing ==
  ASSUME WorkflowInv, NEW s \in Session, Commit(s)
  PROVE  /\ pc[s] = "commit" /\ wallet' = draft
         /\ \A t \in Session : pc'[t] # "commit"
         /\ \A t \in Session : pc'[t] # "idle" => t # s /\ pc'[t] = pc[t] /\ job'[t] = job[t]
         /\ job[s] \in Job \cup {TopupJob}
         /\ Deposited(s) \/ Requested(s) \/ Paid(s) \/ Released(s)
<1>1. pc[s] = "commit" /\ holder = s
  BY DEF Commit, WorkflowInv, IInv, LockInv
<1>2. wallet' = draft
  BY <1>1 DEF Commit, CommitWallet
<1>3. /\ \A t \in Session : pc'[t] = IF t = s THEN "idle" ELSE pc[t]
      /\ \A t \in Session : t # s => job'[t] = job[t]
  BY DEF Commit, Goto, WorkflowInv, IInv, TypeOK
<1>4. \A t \in Session : pc'[t] # "commit"
  BY <1>1, <1>3 DEF WorkflowInv, IInv, LockInv
<1>5. job[s] \in Job \cup {TopupJob}
  BY <1>1 DEF WorkflowInv, IInv, TypeOK
<1>6. Deposited(s) \/ Requested(s) \/ Paid(s) \/ Released(s)
  BY <1>1 DEF WorkflowInv, DraftInv
<1> QED
  BY <1>1, <1>2, <1>3, <1>4, <1>5, <1>6

\* The row a commit writes, and what it was before.
LEMMA StatusWritten ==
  ASSUME WorkflowInv, NEW s \in Session, Commit(s), ~Deposited(s)
  PROVE  /\ job[s].w \in Withdrawal /\ job[s].amount \in Nat /\ job[s].amount > 0
         /\ wd' = [wd EXCEPT ![job[s].w] =
                     [status |-> StatusAfter(job[s].op), amount |-> job[s].amount]]
         /\ Requested(s) => wd[job[s].w].status = "absent"
         /\ Paid(s) \/ Released(s)
              => /\ Reviewing(s)
                 /\ wd[job[s].w].amount = job[s].amount
                 /\ job[s].w \notin contested => wd[job[s].w].status = "pending"
<1>1. job[s] \in Job
  <2>1. job[s].op # "topup"
    BY Publishing DEF Requested, Paid, Released
  <2> QED
    BY <2>1, Publishing DEF TopupJob
<1>2. job[s].w \in Withdrawal /\ job[s].amount \in Nat /\ job[s].op # "topup"
  BY <1>1 DEF Job
<1>3. wd' = [wd EXCEPT ![job[s].w] =
               [status |-> StatusAfter(job[s].op), amount |-> job[s].amount]]
  BY <1>2 DEF Commit
<1>4. Requested(s) => wd[job[s].w].status = "absent" /\ job[s].amount > 0
  BY Publishing DEF Requested, WorkflowInv, RequestInv
<1>5. Paid(s) \/ Released(s)
        => /\ Reviewing(s)
           /\ wd[job[s].w].amount = job[s].amount
           /\ wd[job[s].w].status # "absent"
           /\ job[s].w \notin contested => wd[job[s].w].status = "pending"
  BY Publishing DEF Paid, Released, WorkflowInv, ReviewInv, Reviewing
<1>6. job[s].amount > 0
  BY <1>2, <1>4, <1>5, Publishing DEF WorkflowInv, RequestInv
<1> QED
  BY <1>2, <1>3, <1>4, <1>5, <1>6

LEMMA WorkflowCommit ==
  ASSUME WorkflowInv, IInv', NEW s \in Session, Commit(s)
  PROVE  WorkflowInv'
<1> DEFINE w == job[s].w
           row == [status |-> StatusAfter(job[s].op), amount |-> job[s].amount]
<1>1. Deposited(s) => wd' = wd
  BY DEF Deposited, TopupJob, Commit
<1>2. ~Deposited(s) => \A x \in Withdrawal : wd'[x] = IF x = w THEN row ELSE wd[x]
  BY StatusWritten DEF WorkflowInv, IInv, TypeOK
<1>3. ReviewInv'
  <2> SUFFICES ASSUME NEW t \in Session, Reviewing(t)'
               PROVE  /\ t \in Admin
                      /\ wd'[job'[t].w].amount = job'[t].amount
                      /\ wd'[job'[t].w].status # "absent"
                      /\ job'[t].w \notin contested' => wd'[job'[t].w].status = "pending"
    BY DEF ReviewInv
  <2>1. t # s /\ job'[t] = job[t] /\ Reviewing(t)
    BY Publishing DEF Reviewing
  <2>2. /\ t \in Admin
        /\ wd[job[t].w].amount = job[t].amount
        /\ wd[job[t].w].status # "absent"
        /\ job[t].w \notin contested => wd[job[t].w].status = "pending"
    BY <2>1 DEF WorkflowInv, ReviewInv
  <2>3. job[t].w \in Withdrawal
    <3>1. job[t] \in Job \cup {TopupJob, NoJob}
      BY DEF WorkflowInv, IInv, TypeOK
    <3> QED
      BY <2>1, <3>1 DEF Reviewing, Job, TopupJob, NoJob
  <2>4. /\ wd'[job[t].w].amount = wd[job[t].w].amount
        /\ wd'[job[t].w].status # "absent"
        /\ job[t].w \notin contested => wd'[job[t].w].status = wd[job[t].w].status
    <3>1. CASE Deposited(s)
      BY <1>1, <2>2, <3>1
    <3>2. CASE ~Deposited(s) /\ Requested(s)
      BY <1>2, <2>2, <2>3, <3>2, StatusWritten
    <3>3. CASE ~Deposited(s) /\ (Paid(s) \/ Released(s))
      <4>1. job[t].w = w => w \in contested
        BY <2>1, <3>3, StatusWritten DEF WorkflowInv, ContestInv
      <4>2. row.status # "absent" /\ row.amount = wd[w].amount
        BY <3>3, StatusWritten DEF Paid, Released, StatusAfter
      <4> QED
        BY <1>2, <2>2, <2>3, <3>3, <4>1, <4>2
    <3> QED
      BY <3>1, <3>2, <3>3, Publishing
  <2>5. contested' = contested
    BY DEF Commit
  <2> QED
    BY <2>1, <2>2, <2>4, <2>5
<1>4. RequestInv'
  <2>1. \A x \in Withdrawal : wd'[x].status # "absent" => wd'[x].amount > 0
    BY <1>1, <1>2, StatusWritten DEF WorkflowInv, RequestInv
  <2> QED
    BY <2>1, Publishing DEF RequestInv
<1>5. DraftInv'
  BY Publishing DEF DraftInv
<1>6. PaidOnce'
  <2> SUFFICES ASSUME NEW x \in Withdrawal, x \notin contested
               PROVE  wallet'.debited[x] =
                        IF wd'[x].status = "completed" THEN wd'[x].amount ELSE 0
    BY DEF PaidOnce, Commit
  <2>1. /\ wallet' = draft
        /\ wallet.debited[x] = IF wd[x].status = "completed" THEN wd[x].amount ELSE 0
        /\ wallet.debited \in [Withdrawal -> Nat]
    BY Publishing DEF WorkflowInv, PaidOnce, IInv, TypeOK, WalletTypeOK, Row, Withdrawal
  <2>2. CASE Deposited(s)
    BY <1>1, <2>1, <2>2 DEF Deposited
  <2>3. CASE ~Deposited(s) /\ x # w
    BY <1>2, <2>1, <2>3, StatusWritten, Publishing DEF Requested, Paid, Released
  <2>4. CASE ~Deposited(s) /\ x = w /\ Requested(s)
    BY <1>2, <2>1, <2>4, StatusWritten DEF Requested, StatusAfter
  <2>5. CASE ~Deposited(s) /\ x = w /\ Paid(s)
    <3>1. wallet.debited[x] = 0 /\ job[s].amount \in Nat
      BY <2>1, <2>5, StatusWritten
    <3>2. draft.debited[x] = job[s].amount
      BY <2>1, <2>5, <3>1 DEF Paid
    <3>3. wd'[x] = [status |-> "completed", amount |-> job[s].amount]
      BY <1>2, <2>5 DEF Paid, StatusAfter
    <3> QED
      BY <2>1, <3>2, <3>3
  <2>6. CASE ~Deposited(s) /\ x = w /\ Released(s)
    BY <1>2, <2>1, <2>6, StatusWritten DEF Released, StatusAfter
  <2> QED
    BY <2>2, <2>3, <2>4, <2>5, <2>6, Publishing
<1>7. ContestInv'
  <2>1. \A t \in Session : Reviewing(t)' => Reviewing(t) /\ job'[t] = job[t]
    <3> SUFFICES ASSUME NEW t \in Session, Reviewing(t)'
                 PROVE  Reviewing(t) /\ job'[t] = job[t]
      OBVIOUS
    <3> QED
      BY Publishing DEF Reviewing
  <2>2. contested' = contested
    BY DEF Commit
  <2> QED
    BY <2>1, <2>2 DEF WorkflowInv, ContestInv
<1> QED
  BY <1>3, <1>4, <1>5, <1>6, <1>7 DEF WorkflowInv

-----------------------------------------------------------------------------
(* The invariant, and what follows from it.                                *)

LEMMA InitWorkflowInv == Init => WorkflowInv
<1> SUFFICES ASSUME Init PROVE WorkflowInv
  OBVIOUS
<1>1. IInv
  BY InitIInv
<1>2. ReviewInv /\ ContestInv /\ RequestInv /\ DraftInv
  BY DEF Init, ReviewInv, ContestInv, Reviewing, RequestInv, DraftInv
<1>3. PaidOnce
  BY DEF Init, WalletInit, PaidOnce, Withdrawal
<1> QED
  BY <1>1, <1>2, <1>3 DEF WorkflowInv

LEMMA NextWorkflowInv == WorkflowInv /\ [Next]_vars => WorkflowInv'
<1> SUFFICES ASSUME WorkflowInv, [Next]_vars PROVE WorkflowInv'
  OBVIOUS
<1>0. /\ IInv' /\ draft \in Row /\ TypeOK /\ TypeOK'
      /\ holder = NoSession => draft = wallet
      /\ wallet.balance \in Int /\ wallet.frozen \in Int
  BY NextIInv DEF WorkflowInv, IInv, TypeOK, WalletTypeOK, Row, LockInv
<1>1. CASE UNCHANGED vars
  BY <1>0, <1>1 DEF vars, WorkflowInv, ReviewInv, ContestInv, Reviewing, RequestInv, DraftInv,
     Deposited, Requested, Paid, Released, PaidOnce
<1>2. ASSUME NEW s \in Session, NEW a \in Amount, Topup(s, a) PROVE WorkflowInv'
  <2>1. \A t \in Session : job'[t] = IF t = s THEN TopupJob ELSE job[t]
    BY <1>0, <1>2 DEF Topup, Goto, TypeOK
  <2>2. a \in Nat /\ a > 0 /\ wallet' = wallet /\ draft = wallet
    BY <1>0, <1>2, AmountAssumption DEF Topup, LockWallet
  <2>3. Deposited(s)'
    BY <1>0, <1>2, <2>1, <2>2, CreditRow DEF Topup, Deposited
  <2>4. job'[s].op = "topup"
    BY <2>1 DEF TopupJob
  <2> QED
    BY <1>0, <1>2, <2>1, <2>3, <2>4, WorkflowFlush DEF Topup, Goto
<1>3. ASSUME NEW s \in Session, NEW w \in Withdrawal, NEW a \in Amount,
             RequestWithdrawal(s, w, a)
      PROVE WorkflowInv'
  <2>1. \A t \in Session : job'[t] =
          IF t = s THEN [op |-> "request", w |-> w, amount |-> a] ELSE job[t]
    BY <1>0, <1>3 DEF RequestWithdrawal, Goto, TypeOK
  <2>2. a \in Nat /\ a > 0 /\ wallet' = wallet /\ draft = wallet
    BY <1>0, <1>3, AmountAssumption DEF RequestWithdrawal, LockWallet
  <2>3. a <= wallet.balance - wallet.frozen
    BY <1>0, <1>3, <2>2 DEF RequestWithdrawal, CanFreeze, Available
  <2>4. Requested(s)'
    BY <1>0, <1>3, <2>1, <2>2, <2>3, FreezeRow DEF RequestWithdrawal, Requested
  <2>5. /\ LockWallet(s) /\ UNCHANGED <<wallet, wd, contested>> /\ pc' = [pc EXCEPT ![s] = "commit"]
        /\ wd[w].status = "absent"
    BY <1>3 DEF RequestWithdrawal, Goto
  <2>6. /\ \A t \in Session : t # s => job'[t] = job[t]
        /\ job'[s].op = "request" /\ job'[s].w = w /\ job'[s].amount > 0
    BY <2>1, <2>2
  <2> QED
    BY <1>0, <2>4, <2>5, <2>6, WorkflowFlush
<1>4. ASSUME NEW s \in Session, NEW w \in Withdrawal, NEW op \in {"approve", "reject"},
             Review(s, w, op)
      PROVE WorkflowInv'
  BY <1>0, <1>4, WorkflowReview
<1>5. ASSUME NEW s \in Session, Approve(s) PROVE WorkflowInv'
  <2> DEFINE a == job[s].amount
             w == job[s].w
             debited == Debit(draft, a, w)
  <2>1. a \in Nat /\ w \in Withdrawal /\ job' = job
    BY <1>0, <1>5 DEF Approve, TypeOK, Job
  <2>2. /\ debited \in Row
        /\ debited.balance = draft.balance - a
        /\ debited.frozen = draft.frozen
        /\ debited.debited = [draft.debited EXCEPT ![w] = @ + a]
    <3> HIDE DEF a, w
    <3> QED
      BY <1>0, <2>1, DebitRow DEF Withdrawal
  <2>3. draft' = Unfreeze(debited, a) /\ wallet' = wallet /\ draft = wallet
    BY <1>0, <1>5 DEF Approve, Approved, LockWallet
  <2> HIDE DEF debited
  <2>4. /\ draft'.balance = wallet.balance - a
        /\ draft'.frozen = wallet.frozen - a
        /\ draft'.debited = [wallet.debited EXCEPT ![w] = @ + a]
    BY <2>1, <2>2, <2>3, UnfreezeRow
  <2>5. Paid(s)'
    BY <1>5, <2>1, <2>3, <2>4 DEF Approve, Paid
  <2> QED
    BY <1>0, <1>5, <2>1, <2>5, WorkflowFlush DEF Approve
<1>6. ASSUME NEW s \in Session, Reject(s) PROVE WorkflowInv'
  <2>1. job[s].amount \in Nat /\ job' = job /\ job[s].op = "reject"
    BY <1>0, <1>6 DEF Reject, TypeOK, Job
  <2>2. wallet' = wallet /\ draft = wallet
    BY <1>0, <1>6 DEF Reject, LockWallet
  <2>3. Released(s)'
    BY <1>0, <1>6, <2>1, <2>2, UnfreezeRow DEF Reject, Released
  <2> QED
    BY <1>0, <1>6, <2>1, <2>3, WorkflowFlush DEF Reject
<1>7. ASSUME NEW s \in Session, Refuse(s) PROVE WorkflowInv'
  BY <1>0, <1>7, WorkflowRefuse
<1>8. ASSUME NEW s \in Session, Commit(s) PROVE WorkflowInv'
  BY <1>0, <1>8, WorkflowCommit
<1>9. ASSUME NEW s \in Session, Abort(s) PROVE WorkflowInv'
  BY <1>0, <1>9, WorkflowAbort
<1> QED
  BY <1>1, <1>2, <1>3, <1>4, <1>5, <1>6, <1>7, <1>8, <1>9 DEF Next

\* The invariant holds of every behaviour, however reviews overlap.
THEOREM WorkflowInvariance == Spec => []WorkflowInv
  BY InitWorkflowInv, NextWorkflowInv, PTL DEF Spec

\* Whatever else is reviewed at once, a request that was never under two
\* reviews is paid once if it ends completed and never otherwise (approve and
\* reject, process_withdrawal.py:20-67).
THEOREM PaidAtMostOnce == Spec => []PaidOnce
<1>1. WorkflowInv => PaidOnce
  BY DEF WorkflowInv
<1> QED
  BY <1>1, WorkflowInvariance, PTL

-----------------------------------------------------------------------------
(* The abstract account.                                                   *)

LEMMA InitAbstract == Init => AbstractAccount!Init
  BY DEF Init, WalletInit, AbstractAccount!Init, Hold, Withdrawal

\* Only a commit changes what the account shows: the balance, the holds and
\* what was captured.
LEMMA HiddenStep ==
  ASSUME UNCHANGED <<wallet, wd>>
  PROVE  UNCHANGED AbstractAccount!vars
  BY DEF AbstractAccount!vars, Hold

LEMMA CommitImplements ==
  ASSUME WorkflowInv, contested = {}, NEW s \in Session, Commit(s)
  PROVE  AbstractAccount!Next
<1> DEFINE w == job[s].w
           a == job[s].amount
           row == [status |-> StatusAfter(job[s].op), amount |-> a]
           Captured == {x \in Withdrawal : wd[x].status = "completed"}
<1>0. /\ wallet' = draft
      /\ wallet.balance \in Int /\ wallet.frozen \in Int /\ draft.balance \in Int
  BY Publishing DEF WorkflowInv, IInv, TypeOK, WalletTypeOK, Row
<1>1. CASE Deposited(s)
  <2>1. wd' = wd
    BY <1>1 DEF Deposited, TopupJob, Commit
  <2>2. AbstractAccount!Deposit
    BY <1>0, <1>1, <2>1 DEF AbstractAccount!Deposit, Deposited, Hold
  <2> QED
    BY <2>2 DEF AbstractAccount!Next
<1>2. ASSUME ~Deposited(s)
      PROVE  /\ w \in Ref /\ a \in Nat /\ a > 0
             /\ \A x \in Withdrawal : wd'[x] = IF x = w THEN row ELSE wd[x]
  BY <1>2, StatusWritten DEF WorkflowInv, IInv, TypeOK, Withdrawal
<1>3. CASE ~Deposited(s) /\ Requested(s)
  <2>1. wd[w].status = "absent" /\ row.status = "pending" /\ row.amount = a
    BY <1>3, StatusWritten DEF Requested, StatusAfter
  <2>2. Hold' = [Hold EXCEPT ![w] = a] /\ Hold[w] = 0
    BY <1>2, <1>3, <2>1 DEF Hold, Withdrawal
  <2>3. Captured' = Captured /\ w \notin Captured
    BY <1>2, <1>3, <2>1
  <2>4. a \in 1 .. (wallet.balance - wallet.frozen)
    BY <1>0, <1>2, <1>3 DEF Requested
  <2>5. wallet'.balance = wallet.balance /\ wallet'.frozen = wallet.frozen + a
    BY <1>0, <1>3 DEF Requested
  <2>6. AbstractAccount!PlaceHold(w)
    BY <2>2, <2>3, <2>4, <2>5 DEF AbstractAccount!PlaceHold
  <2> QED
    BY <1>2, <1>3, <2>6 DEF AbstractAccount!Next
<1>4. CASE ~Deposited(s) /\ Paid(s)
  <2>1. /\ wd[w].status = "pending" /\ wd[w].amount = a
        /\ row.status = "completed"
    BY <1>4, StatusWritten DEF Paid, StatusAfter
  <2>2. Hold' = [Hold EXCEPT ![w] = 0] /\ Hold[w] = a
    BY <1>2, <1>4, <2>1 DEF Hold, Withdrawal
  <2>3. Captured' = Captured \cup {w}
    BY <1>2, <1>4, <2>1 DEF Withdrawal
  <2>4. wallet'.balance = wallet.balance - a /\ wallet'.frozen = wallet.frozen - a
    BY <1>0, <1>4 DEF Paid
  <2>5. PICK r \in Ref : r = w
    BY <1>2, <1>4
  <2>6. AbstractAccount!Capture(r)
    BY <1>2, <1>4, <2>2, <2>3, <2>4, <2>5 DEF AbstractAccount!Capture
  <2> QED
    BY <2>6 DEF AbstractAccount!Next
<1>5. CASE ~Deposited(s) /\ Released(s)
  <2>1. /\ wd[w].status = "pending" /\ wd[w].amount = a
        /\ row.status = "failed"
    BY <1>5, StatusWritten DEF Released, StatusAfter
  <2>2. Hold' = [Hold EXCEPT ![w] = 0] /\ Hold[w] = a
    BY <1>2, <1>5, <2>1 DEF Hold, Withdrawal
  <2>3. Captured' = Captured
    BY <1>2, <1>5, <2>1
  <2>4. wallet'.balance = wallet.balance /\ wallet'.frozen = wallet.frozen - a
    BY <1>0, <1>5 DEF Released
  <2>5. AbstractAccount!Release(w)
    BY <1>2, <1>5, <2>2, <2>3, <2>4 DEF AbstractAccount!Release
  <2> QED
    BY <1>2, <1>5, <2>5 DEF AbstractAccount!Next
<1> QED
  BY <1>1, <1>3, <1>4, <1>5, Publishing

\* Only a commit changes what others see of the wallet and the requests.
LEMMA HiddenUnlessCommit ==
  ASSUME [Next]_vars
  PROVE  (\E s \in Session : Commit(s)) \/ UNCHANGED <<wallet, wd>>
<1>1. CASE UNCHANGED vars
  BY <1>1 DEF vars
<1>2. ASSUME NEW s \in Session, NEW a \in Amount, Topup(s, a)
      PROVE  UNCHANGED <<wallet, wd>>
  BY <1>2 DEF Topup
<1>3. ASSUME NEW s \in Session, NEW w \in Withdrawal, NEW a \in Amount, RequestWithdrawal(s, w, a)
      PROVE  UNCHANGED <<wallet, wd>>
  BY <1>3 DEF RequestWithdrawal
<1>4. ASSUME NEW s \in Session, NEW w \in Withdrawal, NEW op \in {"approve", "reject"},
             Review(s, w, op)
      PROVE  UNCHANGED <<wallet, wd>>
  BY <1>4 DEF Review
<1>5. ASSUME NEW s \in Session, Approve(s) \/ Reject(s) \/ Refuse(s)
      PROVE  UNCHANGED <<wallet, wd>>
  BY <1>5 DEF Approve, Reject, Refuse
<1>6. ASSUME NEW s \in Session, Abort(s)
      PROVE  UNCHANGED <<wallet, wd>>
  BY <1>6 DEF Abort, RollbackWallet
<1> QED
  BY <1>1, <1>2, <1>3, <1>4, <1>5, <1>6 DEF Next

\* The withdrawal workflow implements the abstract account, each hold captured
\* or released exactly once and by its amount, until a request comes under two
\* reviews at once.
THEOREM Implementation == Spec => ImplementsAccount
<1>1. Init => AbstractAccount!Init
  BY InitAbstract
<1>2. WorkflowInv /\ [Next]_vars
        => [AbstractAccount!Next \/ contested' # {}]_(AbstractAccount!vars)
  <2> SUFFICES ASSUME WorkflowInv, [Next]_vars, contested' = {}
               PROVE  AbstractAccount!Next \/ UNCHANGED AbstractAccount!vars
    OBVIOUS
  <2>1. CASE \E s \in Session : Commit(s)
    <3>1. contested = {}
      BY <2>1 DEF Commit
    <3> QED
      BY <2>1, <3>1, CommitImplements
  <2>2. CASE UNCHANGED <<wallet, wd>>
    BY <2>2, HiddenStep
  <2> QED
    BY <2>1, <2>2, HiddenUnlessCommit
<1> QED
  BY <1>1, <1>2, WorkflowInvariance, PTL DEF Spec, ImplementsAccount

-----------------------------------------------------------------------------
(* Sums over finite sets.                                                  *)

\* The sum of g over S, as the community modules define it.
Total(g, S) == MapThenSumSet(LAMBDA x : g[x], S)

\* h takes an element away at a time, the way the sum is defined.
Unfolds(h, g, S) == h = [s \in SUBSET S |->
    IF s = {} THEN 0 ELSE g[CHOOSE x \in s : TRUE] + h[s \ {CHOOSE x \in s : TRUE}]]

\* The sum is what the function that unfolds so gives for the whole set.
LEMMA TotalUnfolded ==
  ASSUME NEW g, NEW S
  PROVE  Total(g, S) = (CHOOSE h : Unfolds(h, g, S))[S]
  BY DEF Total, MapThenSumSet, MapThenFoldSet, Unfolds

\* A pair for each unit of each amount: the sum is their number.
Units(g, S) == {p \in S \X Nat : 1 <= p[2] /\ p[2] <= g[p[1]]}

\* A non-empty set of subsets of a finite set has a smallest member.
LEMMA SmallestSet ==
  ASSUME NEW S, IsFiniteSet(S), NEW B \in SUBSET SUBSET S, B # {}
  PROVE  \E s \in B : \A t \in B : t \subseteq s => t = s
<1>1. IsWellFoundedOn(StrictSubsetOrdering(S), FiniteSubsetsOf(S))
  BY FS_StrictSubsetOrderingWellFounded
<1>2. FiniteSubsetsOf(S) = SUBSET S
  BY FS_FiniteSubsetsOfFinite
<1>3. PICK s \in B : \A t \in B : <<t, s>> \notin StrictSubsetOrdering(S)
  BY <1>1, <1>2, WFMin
<1> QED
  BY <1>3 DEF StrictSubsetOrdering

\* One element brings its own units.
LEMMA UnitsSplit ==
  ASSUME NEW X, NEW g \in [X -> Nat], NEW S \in SUBSET X, NEW x \in S,
         IsFiniteSet(Units(g, S \ {x}))
  PROVE  /\ IsFiniteSet(Units(g, S))
         /\ Cardinality(Units(g, S)) = g[x] + Cardinality(Units(g, S \ {x}))
<1> DEFINE T == {x} \X (1..g[x])
           U == Units(g, S \ {x})
<1>0. g[x] \in Nat
  OBVIOUS
<1>1. IsFiniteSet(T) /\ Cardinality(T) = g[x]
  <2>1. IsFiniteSet({x}) /\ Cardinality({x}) = 1
    BY FS_Singleton
  <2>2. IsFiniteSet(1..g[x]) /\ Cardinality(1..g[x]) = g[x]
    BY <1>0, FS_Interval
  <2> QED
    BY <1>0, <2>1, <2>2, FS_Product
<1>2. Units(g, S) = U \cup T
  BY <1>0 DEF Units
<1>3. U \cap T = {}
  BY DEF Units
<1> HIDE DEF T, U
<1>4. IsFiniteSet(U)
  BY DEF U
<1>5. Cardinality(U) \in Nat
  BY <1>4, FS_CardinalityType
<1>6. IsFiniteSet(U \cup T) /\ Cardinality(U \cup T) = Cardinality(U) + Cardinality(T) - Cardinality(U \cap T)
  BY <1>1, <1>4, FS_Union
<1>7. Cardinality(U \cap T) = 0
  BY <1>3, FS_EmptySet
<1> QED
  BY <1>0, <1>1, <1>2, <1>5, <1>6, <1>7 DEF U

\* Finitely many amounts have finitely many units: a smallest
\* counterexample has an element to take away.
LEMMA UnitsFinite ==
  ASSUME NEW X, NEW g \in [X -> Nat], NEW S \in SUBSET X, IsFiniteSet(S)
  PROVE  IsFiniteSet(Units(g, S))
<1> DEFINE B == {s \in SUBSET S : ~IsFiniteSet(Units(g, s))}
<1> SUFFICES B = {}
  OBVIOUS
<1> SUFFICES ASSUME B # {} PROVE FALSE
  OBVIOUS
<1>1. PICK s \in B : \A t \in B : t \subseteq s => t = s
  <2>1. B \in SUBSET SUBSET S
    OBVIOUS
  <2> HIDE DEF B
  <2> QED
    BY <2>1, SmallestSet
<1>2. CASE s = {}
  <2>1. Units(g, s) = {}
    BY <1>2 DEF Units
  <2> QED
    BY <1>1, <2>1, FS_EmptySet
<1>3. CASE s # {}
  <2>1. PICK x \in s : TRUE
    BY <1>3
  <2>2. s \ {x} \notin B
    BY <1>1
  <2>3. IsFiniteSet(Units(g, s \ {x}))
    BY <2>2
  <2> QED
    BY <1>1, <2>3, UnitsSplit
<1> QED
  BY <1>2, <1>3

\* The number of units unfolds as the sum does ...
LEMMA UnitsUnfold ==
  ASSUME NEW X, NEW g \in [X -> Nat], NEW S \in SUBSET X, IsFiniteSet(S)
  PROVE  Unfolds([s \in SUBSET S |-> Cardinality(Units(g, s))], g, S)
<1> DEFINE h == [s \in SUBSET S |-> Cardinality(Units(g, s))]
           c(s) == CHOOSE x \in s : TRUE
<1> SUFFICES ASSUME NEW s \in SUBSET S
             PROVE  Cardinality(Units(g, s)) =
                      IF s = {} THEN 0 ELSE g[c(s)] + h[s \ {c(s)}]
  BY DEF Unfolds
<1>1. CASE s = {}
  <2>1. Units(g, s) = {}
    BY <1>1 DEF Units
  <2> QED
    BY <1>1, <2>1, FS_EmptySet
<1>2. CASE s # {}
  <2>1. c(s) \in s
    BY <1>2
  <2> HIDE DEF c
  <2>2. s \ {c(s)} \in SUBSET S /\ IsFiniteSet(s \ {c(s)})
    BY FS_Subset
  <2>3. IsFiniteSet(Units(g, s \ {c(s)}))
    BY <2>2, UnitsFinite
  <2>4. Cardinality(Units(g, s)) = g[c(s)] + Cardinality(Units(g, s \ {c(s)}))
    BY <2>1, <2>3, UnitsSplit
  <2> QED
    BY <1>2, <2>2, <2>4
<1> QED
  BY <1>1, <1>2

\* ... so the sum of the community modules is the number of units.
LEMMA TotalIsUnits ==
  ASSUME NEW X, NEW g \in [X -> Nat], NEW S \in SUBSET X, IsFiniteSet(S)
  PROVE  Total(g, S) = Cardinality(Units(g, S))
<1> DEFINE k == [s \in SUBSET S |-> Cardinality(Units(g, s))]
           h == CHOOSE f : Unfolds(f, g, S)
           c(s) == CHOOSE x \in s : TRUE
           B == {s \in SUBSET S : h[s] # k[s]}
<1>1. Unfolds(k, g, S)
  BY UnitsUnfold
<1>2. Unfolds(h, g, S)
  BY <1>1
<1>3. Total(g, S) = h[S]
  BY TotalUnfolded
<1>4. \A s \in SUBSET S : h[s] = IF s = {} THEN 0 ELSE g[c(s)] + h[s \ {c(s)}]
  <2> HIDE DEF h
  <2> QED
    BY <1>2 DEF Unfolds
<1>5. \A s \in SUBSET S : k[s] = IF s = {} THEN 0 ELSE g[c(s)] + k[s \ {c(s)}]
  <2> HIDE DEF k
  <2> QED
    BY <1>1 DEF Unfolds
<1>6. k[S] = Cardinality(Units(g, S))
  OBVIOUS
<1> HIDE DEF h, k
<1>7. B = {}
  <2> SUFFICES ASSUME B # {} PROVE FALSE
    OBVIOUS
  <2>1. PICK s \in B : \A t \in B : t \subseteq s => t = s
    <3>1. B \in SUBSET SUBSET S
      OBVIOUS
    <3> HIDE DEF B
    <3> QED
      BY <3>1, SmallestSet
  <2>2. s # {}
    BY <1>4, <1>5
  <2>3. c(s) \in s
    BY <2>2
  <2> HIDE DEF c
  <2>4. h[s \ {c(s)}] = k[s \ {c(s)}]
    BY <2>1, <2>3
  <2> QED
    BY <1>4, <1>5, <2>2, <2>4
<1> QED
  BY <1>3, <1>6, <1>7

\* Nothing sums to nothing.
LEMMA TotalOfNone ==
  ASSUME NEW X, NEW g \in [X -> Nat]
  PROVE  Total(g, {}) = 0
<1>1. Units(g, {}) = {}
  BY DEF Units
<1> QED
  BY <1>1, TotalIsUnits, FS_EmptySet

\* An element taken away leaves the rest of the sum.
LEMMA TotalRemoved ==
  ASSUME NEW X, NEW g \in [X -> Nat], NEW S \in SUBSET X, IsFiniteSet(S), NEW x \in S
  PROVE  /\ Total(g, S \ {x}) \in Nat
         /\ Total(g, S) = g[x] + Total(g, S \ {x})
<1>1. S \ {x} \in SUBSET X /\ IsFiniteSet(S \ {x})
  BY FS_Subset
<1>2. IsFiniteSet(Units(g, S \ {x}))
  BY <1>1, UnitsFinite
<1>3. Total(g, S) = Cardinality(Units(g, S))
  BY TotalIsUnits
<1>4. Total(g, S \ {x}) = Cardinality(Units(g, S \ {x}))
  BY <1>1, TotalIsUnits
<1>5. Cardinality(Units(g, S)) = g[x] + Cardinality(Units(g, S \ {x}))
  BY <1>2, UnitsSplit
<1> QED
  BY <1>2, <1>3, <1>4, <1>5, FS_CardinalityType

\* Only the amounts of the summed elements count.
LEMMA TotalOfEqual ==
  ASSUME NEW X, NEW g \in [X -> Nat], NEW h \in [X -> Nat], NEW S \in SUBSET X, IsFiniteSet(S),
         \A x \in S : g[x] = h[x]
  PROVE  Total(g, S) = Total(h, S)
<1>1. Units(g, S) = Units(h, S)
  BY DEF Units
<1> QED
  BY <1>1, TotalIsUnits

-----------------------------------------------------------------------------
(* The hold is the sum of the pending requests.                            *)

\* What each request asks for, and which requests are pending.
Amounts == [w \in Withdrawal |-> wd[w].amount]
Pending == {w \in Withdrawal : wd[w].status = "pending"}

\* Finitely many requests are pending, and while none was contested the row
\* freezes their sum.
ExactInv == contested = {} => IsFiniteSet(Pending) /\ wallet.frozen = Total(Amounts, Pending)

\* The total of the model is the sum of the pending amounts.
LEMMA PendingTotalIsTotal == PendingTotal = Total(Amounts, Pending)
<1> DEFINE c(s) == CHOOSE w \in s : TRUE
           Step(h) == [s \in SUBSET Pending |->
                         IF s = {} THEN 0 ELSE wd[c(s)].amount + h[s \ {c(s)}]]
<1>1. PendingTotal = (CHOOSE h : h = Step(h))[Pending]
  BY DEF PendingTotal, MapThenSumSet, MapThenFoldSet, Pending
<1>2. ASSUME NEW h PROVE Unfolds(h, Amounts, Pending) <=> h = Step(h)
  <2>1. \A s \in SUBSET Pending : s # {} => Amounts[c(s)] = wd[c(s)].amount
    <3> SUFFICES ASSUME NEW s \in SUBSET Pending, s # {}
                 PROVE  Amounts[c(s)] = wd[c(s)].amount
      OBVIOUS
    <3>1. c(s) \in s
      OBVIOUS
    <3> HIDE DEF c
    <3> QED
      BY <3>1 DEF Amounts, Pending
  <2>2. Step(h) = [s \in SUBSET Pending |->
                     IF s = {} THEN 0 ELSE Amounts[c(s)] + h[s \ {c(s)}]]
    <3> HIDE DEF c
    <3> QED
      BY <2>1
  <2> QED
    BY <2>2 DEF Unfolds
<1>3. (CHOOSE h : Unfolds(h, Amounts, Pending)) = (CHOOSE h : h = Step(h))
  <2> HIDE DEF Step
  <2> QED
    BY <1>2, Zenon
<1> QED
  BY <1>1, <1>3, TotalUnfolded

\* The amounts of requests are natural.
LEMMA AmountsType == TypeOK => Amounts \in [Withdrawal -> Nat]
  BY DEF TypeOK, Request, Amounts

\* Nothing is pending and nothing frozen at first.
LEMMA InitExact == Init => ExactInv
<1> SUFFICES ASSUME Init PROVE ExactInv
  OBVIOUS
<1>1. Pending = {} /\ wallet.frozen = 0
  BY DEF Init, WalletInit, Pending
<1>2. Amounts \in [Withdrawal -> Nat]
  BY InitTypeOK, AmountsType
<1> QED
  BY <1>1, <1>2, TotalOfNone, FS_EmptySet DEF ExactInv

\* A commit freezes the amount of the request it inserts, and releases the
\* amount of the one it closes.
LEMMA CommitExact ==
  ASSUME WorkflowInv, ExactInv, TypeOK', contested = {}, NEW s \in Session, Commit(s)
  PROVE  ExactInv'
<1> DEFINE w == job[s].w
           a == job[s].amount
           row == [status |-> StatusAfter(job[s].op), amount |-> a]
<1>0. /\ wallet' = draft /\ TypeOK
      /\ wallet.frozen \in Int
      /\ Amounts \in [Withdrawal -> Nat] /\ Amounts' \in [Withdrawal -> Nat]
      /\ Pending \in SUBSET Withdrawal /\ IsFiniteSet(Pending)
      /\ wallet.frozen = Total(Amounts, Pending)
  <2>1. Amounts' \in [Withdrawal -> Nat]
    BY DEF TypeOK, Request, Amounts
  <2> QED
    BY <2>1, Publishing, AmountsType
       DEF WorkflowInv, IInv, TypeOK, WalletTypeOK, Row, Pending, ExactInv
<1>1. CASE Deposited(s)
  <2>1. wd' = wd
    BY <1>1 DEF Deposited, TopupJob, Commit
  <2>2. Amounts' = Amounts /\ Pending' = Pending
    BY <2>1 DEF Amounts, Pending
  <2> QED
    BY <1>0, <1>1, <2>2 DEF Deposited, ExactInv
<1>2. CASE ~Deposited(s)
  <2>1. /\ w \in Withdrawal /\ a \in Nat
        /\ \A x \in Withdrawal : wd'[x] = IF x = w THEN row ELSE wd[x]
    BY <1>0, <1>2, StatusWritten DEF TypeOK
  <2>2. Amounts'[w] = a /\ \A x \in Withdrawal \ {w} : Amounts'[x] = Amounts[x]
    BY <2>1 DEF Amounts
  <2>3. CASE Requested(s)
    <3>1. wd[w].status = "absent" /\ row.status = "pending"
      BY <1>2, <2>3, StatusWritten DEF Requested, StatusAfter
    <3>2. Pending' = Pending \cup {w} /\ w \notin Pending
      BY <2>1, <3>1 DEF Pending
    <3>3. Pending' \in SUBSET Withdrawal /\ IsFiniteSet(Pending') /\ w \in Pending'
          /\ Pending' \ {w} = Pending
      BY <1>0, <2>1, <3>2, FS_AddElement
    <3>4. /\ Total(Amounts', Pending') = a + Total(Amounts', Pending)
          /\ Total(Amounts', Pending) \in Nat
      BY <1>0, <2>2, <3>3, TotalRemoved
    <3>5. Total(Amounts', Pending) = Total(Amounts, Pending)
      <4>1. \A x \in Pending : Amounts'[x] = Amounts[x]
        BY <1>0, <2>2, <3>2
      <4> QED
        BY <1>0, <4>1, TotalOfEqual
    <3>6. wallet'.frozen = wallet.frozen + a
      BY <1>0, <2>3 DEF Requested
    <3> QED
      BY <1>0, <2>1, <3>3, <3>4, <3>5, <3>6 DEF ExactInv
  <2>4. CASE Paid(s) \/ Released(s)
    <3>1. wd[w].status = "pending" /\ wd[w].amount = a /\ row.status # "pending"
      BY <1>2, <2>4, StatusWritten DEF Paid, Released, StatusAfter
    <3>2. Pending' = Pending \ {w} /\ w \in Pending /\ Amounts[w] = a
      BY <2>1, <3>1 DEF Pending, Amounts
    <3>3. Pending' \in SUBSET Withdrawal /\ IsFiniteSet(Pending')
      BY <1>0, <3>2, FS_Subset
    <3>4. Total(Amounts, Pending) = a + Total(Amounts, Pending') /\ Total(Amounts, Pending') \in Nat
      BY <1>0, <3>2, TotalRemoved
    <3>5. Total(Amounts', Pending') = Total(Amounts, Pending')
      <4>1. \A x \in Pending' : Amounts'[x] = Amounts[x]
        BY <1>0, <2>2, <3>2
      <4> QED
        BY <1>0, <3>3, <4>1, TotalOfEqual
    <3>6. wallet'.frozen = wallet.frozen - a
      BY <1>0, <2>4 DEF Paid, Released
    <3> QED
      BY <1>0, <2>1, <3>3, <3>4, <3>5, <3>6 DEF ExactInv
  <2> QED
    BY <1>2, <2>3, <2>4, Publishing
<1> QED
  BY <1>1, <1>2

\* Nothing else touches the hold.
LEMMA HiddenExact ==
  ASSUME ExactInv, contested = {}, UNCHANGED <<wallet, wd>>
  PROVE  ExactInv'
<1>1. Amounts' = Amounts /\ Pending' = Pending
  BY DEF Amounts, Pending
<1> QED
  BY <1>1 DEF ExactInv

\* What is contested stays contested.
LEMMA ContestedForGood ==
  ASSUME [Next]_vars, contested' = {}
  PROVE  contested = {}
<1>1. ASSUME NEW s \in Session, NEW w \in Withdrawal, NEW op \in {"approve", "reject"},
             Review(s, w, op)
      PROVE  contested = {}
  BY <1>1 DEF Review, Contest
<1>2. ASSUME NEW s \in Session, NEW w \in Withdrawal, NEW a \in Amount,
             Topup(s, a) \/ RequestWithdrawal(s, w, a)
      PROVE  contested = {}
  BY <1>2 DEF Topup, RequestWithdrawal
<1>3. ASSUME NEW s \in Session, NEW a \in Amount, Topup(s, a)
      PROVE  contested = {}
  BY <1>3 DEF Topup
<1>4. ASSUME NEW s \in Session,
             Approve(s) \/ Reject(s) \/ Refuse(s) \/ Commit(s) \/ Abort(s)
      PROVE  contested = {}
  BY <1>4 DEF Approve, Reject, Refuse, Commit, Abort
<1>5. CASE UNCHANGED vars
  BY <1>5 DEF vars
<1> QED
  BY <1>1, <1>2, <1>3, <1>4, <1>5 DEF Next

\* As long as no request has been under two reviews at once the hold is exactly
\* the sum of the pending requests: nothing is released twice and nothing stays
\* behind (process_withdrawal.py).
THEOREM HoldsStayExact == Spec => []HoldsExact
<1>1. WorkflowInv /\ ExactInv /\ [Next]_vars => ExactInv'
  <2> SUFFICES ASSUME WorkflowInv, ExactInv, [Next]_vars, contested' = {} PROVE ExactInv'
    BY DEF ExactInv
  <2>0. contested = {}
    BY ContestedForGood
  <2>1. CASE \E s \in Session : Commit(s)
    <3>1. TypeOK'
      BY NextWorkflowInv DEF WorkflowInv, IInv
    <3> QED
      BY <2>0, <2>1, <3>1, CommitExact
  <2>2. CASE UNCHANGED <<wallet, wd>>
    BY <2>0, <2>2, HiddenExact
  <2> QED
    BY <2>1, <2>2, HiddenUnlessCommit
<1>2. ExactInv => HoldsExact
  BY PendingTotalIsTotal DEF ExactInv, HoldsExact
<1> QED
  BY InitExact, <1>1, <1>2, WorkflowInvariance, PTL DEF Spec

=============================================================================
