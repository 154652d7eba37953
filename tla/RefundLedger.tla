---------------------------- MODULE RefundLedger ----------------------------
(***************************************************************************)
(* What refunding one payment promises.  An amount is reserved while       *)
(* everything reserved or returned leaves room for it, and a reservation   *)
(* is then either returned to the customer or released.                    *)
(*                                                                         *)
(* The promise depends on how many refunds may be under way together,      *)
(* because nothing serialises them.  One at a time, the room is the        *)
(* payment, and the return that leaves nothing to refund, and only that    *)
(* one, marks the payment refunded; a reservation whose process died       *)
(* counts as given away.  Together, the room is the payment once for each  *)
(* of them, and a return may mark the payment too early or not at all: it  *)
(* goes by a sum that others have changed.  A mark is never taken back.    *)
(***************************************************************************)
EXTENDS Naturals

CONSTANT Amount   \* Payment.amount

VARIABLES
  together,   \* how many refunds may be under way together; never changes
  reserved,   \* sum of the pending refunds
  returned,   \* sum of the completed refunds
  refunded    \* the payment is marked refunded

vars == <<together, reserved, returned, refunded>>

Init ==
  /\ together \in Nat \ {0}
  /\ reserved = 0 /\ returned = 0 /\ refunded = FALSE

Reserve(a) ==
  /\ reserved + returned + a <= together * Amount
  /\ reserved' = reserved + a
  /\ UNCHANGED <<together, returned, refunded>>

Return(a) ==
  /\ a <= reserved
  /\ reserved' = reserved - a
  /\ returned' = returned + a
  /\ IF together = 1 THEN refunded' = (refunded \/ reserved + returned = Amount)
     ELSE refunded' \in {refunded, TRUE}
  /\ UNCHANGED together

Release(a) ==
  /\ a <= reserved
  /\ reserved' = reserved - a
  /\ UNCHANGED <<together, returned, refunded>>

Next == \E a \in 1..Amount : Reserve(a) \/ Return(a) \/ Release(a)

Spec == Init /\ [][Next]_vars
=============================================================================
