----------------------------- MODULE MCPayments -----------------------------
(***************************************************************************)
(* A small instance of Payments for TLC: one order, two charges.           *)
(***************************************************************************)
EXTENDS Payments, TLC

CONSTANTS s1, s2, c1, c2, n1, n2

Moves == {"payment_pending", "drying"}

Symmetry == Permutations(Slots) \cup Permutations(Charges)
            \cup Permutations(Notices)
=============================================================================
