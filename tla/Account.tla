------------------------------- MODULE Account -------------------------------
(***************************************************************************)
(* What a wallet with holds promises its owner, without sessions, locks or *)
(* rows: money comes in by deposits, a hold sets part of it aside for one  *)
(* reference, and each hold ends exactly once, either captured (the money  *)
(* leaves) or released (it is spendable again).                            *)
(***************************************************************************)
EXTENDS Integers

CONSTANTS Ref,      \* what holds are for
          Opening   \* the balance to start from

VARIABLES balance, held, hold, captured

vars == <<balance, held, hold, captured>>

Init ==
  /\ balance = Opening
  /\ held = 0
  /\ hold = [r \in Ref |-> 0]
  /\ captured = {}

Deposit ==
  /\ balance' > balance
  /\ UNCHANGED <<held, hold, captured>>

\* Only money that is not held yet can be held, and a reference whose hold was
\* captured is spent.
PlaceHold(r) ==
  /\ hold[r] = 0
  /\ r \notin captured
  /\ \E amount \in 1 .. (balance - held) :
       /\ hold' = [hold EXCEPT ![r] = amount]
       /\ held' = held + amount
  /\ UNCHANGED <<balance, captured>>

Capture(r) ==
  /\ hold[r] > 0
  /\ balance' = balance - hold[r]
  /\ held' = held - hold[r]
  /\ hold' = [hold EXCEPT ![r] = 0]
  /\ captured' = captured \cup {r}

Release(r) ==
  /\ hold[r] > 0
  /\ held' = held - hold[r]
  /\ hold' = [hold EXCEPT ![r] = 0]
  /\ UNCHANGED <<balance, captured>>

Next == Deposit \/ \E r \in Ref : PlaceHold(r) \/ Capture(r) \/ Release(r)

Spec == Init /\ [][Next]_vars

=============================================================================
