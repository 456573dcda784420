------------------------------- MODULE Wallet -------------------------------
(***************************************************************************)
(* One row of the backend's `wallets` table, as the database sessions that *)
(* serve requests see it.  A session is one AsyncSession: everything it    *)
(* does between its first statement and its commit or rollback is one      *)
(* READ COMMITTED transaction.                                             *)
(*                                                                         *)
(* Every operation of WalletRepository that changes the row first takes    *)
(* the row lock (SELECT ... FOR UPDATE) and keeps it until the session     *)
(* ends.  `wallet` is the committed version of the row, the one an         *)
(* unlocked SELECT returns; `draft` is the version the lock holder has     *)
(* flushed so far, equal to `wallet` when nobody holds the lock.           *)
(*                                                                         *)
(* The row's wallet_transactions are inserted in the same transaction as   *)
(* the balance they record: `ledger` is their net sum and `debited` what   *)
(* the DEBIT rows take for each reference_id.  A wallet that does not      *)
(* exist yet is the zero row: debit, freeze and unfreeze reject both, and  *)
(* credit creates it.                                                      *)
(***************************************************************************)
EXTENDS Integers

CONSTANTS Ref,        \* what debits are booked against (reference_id)
          Session,    \* the database sessions (one per request in flight)
          NoSession,  \* the row is not locked
          Opening     \* what earlier top-ups have left in the wallet

ASSUME SessionAssumption == NoSession \notin Session
ASSUME OpeningAssumption == Opening \in Nat

VARIABLES wallet, draft, holder

walletVars == <<wallet, draft, holder>>

Row == [balance : Int, frozen : Int, ledger : Int, debited : [Ref -> Nat]]

WalletInit ==
  /\ wallet = [balance |-> Opening, frozen |-> 0, ledger |-> Opening,
               debited |-> [r \in Ref |-> 0]]
  /\ draft = wallet
  /\ holder = NoSession

WalletTypeOK ==
  /\ wallet \in Row
  /\ draft \in Row
  /\ holder \in Session \cup {NoSession}

-----------------------------------------------------------------------------
(* What each repository operation checks and writes.                       *)

Available(row) == row.balance - row.frozen

CanDebit(row, amount) == Available(row) >= amount

\* Variant: the frozen part is forgotten.
CanFreezeBalance(row, amount) == row.balance >= amount

CanFreeze(row, amount) == Available(row) >= amount

\* Variant: more may be released than is frozen.
CanUnfreezeAny(row, amount) == row.balance >= amount

CanUnfreeze(row, amount) == row.frozen >= amount

Credit(row, amount) ==
  [row EXCEPT !.balance = @ + amount, !.ledger = @ + amount]

\* Variant: the balance changes without a wallet_transactions row.
DebitUnrecorded(row, amount, ref) == [row EXCEPT !.balance = @ - amount]

Debit(row, amount, ref) ==
  [row EXCEPT !.balance = @ - amount, !.ledger = @ - amount, !.debited[ref] = @ + amount]

Freeze(row, amount) == [row EXCEPT !.frozen = @ + amount]

Unfreeze(row, amount) == [row EXCEPT !.frozen = @ - amount]

-----------------------------------------------------------------------------
(* The row lock and the two ways a session ends.                           *)

\* SELECT ... FOR UPDATE: waits while another session holds the row.
LockWallet(s) ==
  /\ holder = NoSession
  /\ holder' = s

\* Variant: the lock outlives the transaction.
CommitKeepingLock(s) ==
  /\ wallet' = IF holder = s THEN draft ELSE wallet
  /\ UNCHANGED <<draft, holder>>

\* COMMIT publishes what the session flushed and releases its lock.
CommitWallet(s) ==
  /\ wallet' = IF holder = s THEN draft ELSE wallet
  /\ holder' = IF holder = s THEN NoSession ELSE holder
  /\ UNCHANGED draft

\* Variant: the connection goes back to the pool in mid-transaction.
RollbackKeepingLock(s) ==
  /\ draft' = IF holder = s THEN wallet ELSE draft
  /\ UNCHANGED <<wallet, holder>>

\* ROLLBACK (an exception, a lost connection, a crash) drops it.
RollbackWallet(s) ==
  /\ draft' = IF holder = s THEN wallet ELSE draft
  /\ holder' = IF holder = s THEN NoSession ELSE holder
  /\ UNCHANGED wallet

-----------------------------------------------------------------------------
(* What a wallet promises, whoever uses it.                                *)

\* The hold is covered: 0 <= frozen <= balance.
Covered(row) == 0 <= row.frozen /\ row.frozen <= row.balance

=============================================================================
