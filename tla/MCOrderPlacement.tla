-------------------------- MODULE MCOrderPlacement --------------------------
(* Two places.  Staff send one circle or a circle with an exclusion, or    *)
(* choose districts.                                                       *)
EXTENDS OrderPlacement, TLC

CONSTANTS r1, r2, here, there, k1, k2

Circle(kind, area) == [kind |-> kind, family |-> "circle", area |-> area]

MCCircles == {{Circle("inclusion", {here, there})},
              {Circle("inclusion", {here, there}), Circle("exclusion", {there})}}
MCDistricts == {{here}, {there}}
MCTrips == {[pickup |-> here, delivery |-> there]}
MCWorlds == {[overlap |-> 1, faults |-> 2], [overlap |-> 2, faults |-> 1]}

Symmetry == Permutations(Slots) \cup Permutations(Keys)
=============================================================================
