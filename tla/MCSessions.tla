----------------------------- MODULE MCSessions -----------------------------
(* Two requests or sockets of one identity: one after the other with a     *)
(* fault anywhere, and overlapping without.                                *)
EXTENDS Sessions, TLC

CONSTANTS r1, r2

MCWorlds ==
  {[overlap |-> 1, faults |-> 1, sessions |-> 2, tokens |-> 3],
   [overlap |-> 2, faults |-> 0, sessions |-> 2, tokens |-> 2],
   [overlap |-> 2, faults |-> 0, sessions |-> 1, tokens |-> 3]}

Symmetry == Permutations(Slots)
=============================================================================
