--------------------------- MODULE MCTransaction ---------------------------
(* TLC instances of Transaction.                                           *)
EXTENDS Transaction, TLC

OpSymmetry == Permutations(Ops)

=============================================================================
