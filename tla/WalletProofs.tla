---------------------------- MODULE WalletProofs ----------------------------
(***************************************************************************)
(* What each operation of WalletRepository does to a row, field by field,  *)
(* and that its check under the row lock is enough to keep the row covered.*)
(***************************************************************************)
EXTENDS Wallet, TLAPS

-----------------------------------------------------------------------------
(* Field by field.                                                         *)

\* credit (wallet_repo.py:43) adds to the balance and to the ledger alone.
LEMMA CreditRow ==
  ASSUME NEW row \in Row, NEW amount \in Nat
  PROVE  /\ Credit(row, amount) \in Row
         /\ Credit(row, amount).balance = row.balance + amount
         /\ Credit(row, amount).frozen = row.frozen
         /\ Credit(row, amount).ledger = row.ledger + amount
         /\ Credit(row, amount).debited = row.debited
<1> DEFINE r == [row EXCEPT !.balance = @ + amount]
<1>1. /\ r \in Row
      /\ r.balance = row.balance + amount
      /\ r.frozen = row.frozen
      /\ r.debited = row.debited
  BY DEF Row
<1>2. Credit(row, amount) = [r EXCEPT !.ledger = row.ledger + amount]
  BY Zenon DEF Credit
<1> HIDE DEF r
<1> QED
  BY <1>1, <1>2 DEF Row

\* debit (wallet_repo.py:76) takes the amount from the balance and from the
\* ledger and books it against its reference.
LEMMA DebitRow ==
  ASSUME NEW row \in Row, NEW amount \in Nat, NEW ref \in Ref
  PROVE  /\ Debit(row, amount, ref) \in Row
         /\ Debit(row, amount, ref).balance = row.balance - amount
         /\ Debit(row, amount, ref).frozen = row.frozen
         /\ Debit(row, amount, ref).ledger = row.ledger - amount
         /\ Debit(row, amount, ref).debited = [row.debited EXCEPT ![ref] = @ + amount]
<1> DEFINE r == [row EXCEPT !.balance = @ - amount]
           q == [r EXCEPT !.ledger = row.ledger - amount]
           d == [row.debited EXCEPT ![ref] = @ + amount]
<1>1. /\ r \in Row
      /\ r.balance = row.balance - amount
      /\ r.frozen = row.frozen
      /\ r.debited = row.debited
  BY DEF Row
<1>2. d \in [Ref -> Nat]
  BY DEF Row
<1>3. Debit(row, amount, ref) = [q EXCEPT !.debited = d]
  BY Zenon DEF Debit
<1> HIDE DEF r, d
<1>4. /\ q \in Row
      /\ q.balance = row.balance - amount
      /\ q.frozen = row.frozen
      /\ q.ledger = row.ledger - amount
  BY <1>1 DEF Row
<1> HIDE DEF q
<1> QED
  BY <1>2, <1>3, <1>4 DEF Row, d

\* freeze (wallet_repo.py:113) touches the hold alone.
LEMMA FreezeRow ==
  ASSUME NEW row \in Row, NEW amount \in Nat
  PROVE  /\ Freeze(row, amount) \in Row
         /\ Freeze(row, amount).balance = row.balance
         /\ Freeze(row, amount).frozen = row.frozen + amount
         /\ Freeze(row, amount).ledger = row.ledger
         /\ Freeze(row, amount).debited = row.debited
  BY DEF Row, Freeze

\* unfreeze (wallet_repo.py:128) touches the hold alone.
LEMMA UnfreezeRow ==
  ASSUME NEW row \in Row, NEW amount \in Nat
  PROVE  /\ Unfreeze(row, amount) \in Row
         /\ Unfreeze(row, amount).balance = row.balance
         /\ Unfreeze(row, amount).frozen = row.frozen - amount
         /\ Unfreeze(row, amount).ledger = row.ledger
         /\ Unfreeze(row, amount).debited = row.debited
  BY DEF Row, Unfreeze

-----------------------------------------------------------------------------
(* Sound(row) is what every committed and every flushed row satisfies.     *)

Sound(row) == Covered(row) /\ row.balance = row.ledger

\* Each operation, allowed by its own check under the row lock, turns a sound
\* row into a sound one.
LEMMA OperationsAreSound ==
  ASSUME NEW row \in Row, NEW amount \in Nat, Sound(row)
  PROVE  /\ Sound(Credit(row, amount))
         /\ CanFreeze(row, amount) => Sound(Freeze(row, amount))
         /\ CanUnfreeze(row, amount) => Sound(Unfreeze(row, amount))
<1>0. /\ row.balance \in Int /\ row.frozen \in Int /\ row.ledger \in Int
      /\ 0 <= row.frozen /\ row.frozen <= row.balance /\ row.balance = row.ledger
  BY DEF Row, Sound, Covered
<1>1. Sound(Credit(row, amount))
  <2>1. /\ Credit(row, amount).balance = row.balance + amount
        /\ Credit(row, amount).frozen = row.frozen
        /\ Credit(row, amount).ledger = row.ledger + amount
    BY CreditRow
  <2> QED
    BY <1>0, <2>1 DEF Sound, Covered
<1>2. CanFreeze(row, amount) => Sound(Freeze(row, amount))
  <2>1. /\ Freeze(row, amount).balance = row.balance
        /\ Freeze(row, amount).frozen = row.frozen + amount
        /\ Freeze(row, amount).ledger = row.ledger
    BY FreezeRow
  <2> QED
    BY <1>0, <2>1 DEF Sound, Covered, CanFreeze, Available
<1>3. CanUnfreeze(row, amount) => Sound(Unfreeze(row, amount))
  <2>1. /\ Unfreeze(row, amount).balance = row.balance
        /\ Unfreeze(row, amount).frozen = row.frozen - amount
        /\ Unfreeze(row, amount).ledger = row.ledger
    BY UnfreezeRow
  <2> QED
    BY <1>0, <2>1 DEF Sound, Covered, CanUnfreeze
<1> QED
  BY <1>1, <1>2, <1>3

LEMMA DebitIsSound ==
  ASSUME NEW row \in Row, NEW amount \in Nat, NEW ref \in Ref, Sound(row),
         CanDebit(row, amount)
  PROVE  Sound(Debit(row, amount, ref))
<1>1. /\ row.balance \in Int /\ row.frozen \in Int /\ row.ledger \in Int
      /\ 0 <= row.frozen /\ row.frozen <= row.balance /\ row.balance = row.ledger
  BY DEF Row, Sound, Covered
<1>2. /\ Debit(row, amount, ref).balance = row.balance - amount
      /\ Debit(row, amount, ref).frozen = row.frozen
      /\ Debit(row, amount, ref).ledger = row.ledger - amount
  BY DebitRow
<1> QED
  BY <1>1, <1>2 DEF Sound, Covered, CanDebit, Available

=============================================================================
