--------------------------- MODULE MCStaffAccess ---------------------------
(* Two requests, one after the other with two faults and overlapping with  *)
(* one; two roles, two invitations.                                      *)
EXTENDS StaffAccess, TLC

CONSTANTS r1, r2, owner, driver

MCWorlds == {[overlap |-> 1, faults |-> 2], [overlap |-> 2, faults |-> 1]}

Symmetry == Permutations(Slots) \cup Permutations(Roles)
=============================================================================
