------------------------------ MODULE MCCheckout ------------------------------
(* Checkout with interchangeable sessions, payments and modes, for TLC. *)
EXTENDS Checkout, TLC

Symmetry == Permutations(Session) \cup Permutations(Payment)
SymmetryOfModes == Symmetry \cup Permutations(Mode)

=============================================================================
