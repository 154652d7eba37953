------------------------------ MODULE MCRefunds ------------------------------
(***************************************************************************)
(* Small instances of Refunds for TLC.                                     *)
(***************************************************************************)
EXTENDS Refunds, TLC

CONSTANTS r1, r2, r3

=============================================================================
