----------------------------- MODULE MCAudience -----------------------------
(***************************************************************************)
(* Small instances of Audience for TLC.                                    *)
(***************************************************************************)
EXTENDS Audience, TLC

CONSTANTS i1, i2, w1, w2, b1, b2, b3, r1, r2, k1, k2

MCBranchWasher == [b \in Branches |-> IF b = b3 THEN w2 ELSE w1]
MCRole == [m \in Staff |-> IF m = <<i1, w1>> THEN "washer_owner" ELSE "driver"]

Nobody == [status |-> "none", full |-> FALSE, at |-> {}]
Full   == [status |-> "active", full |-> TRUE, at |-> {}]
At(b)  == [status |-> "active", full |-> FALSE, at |-> {b}]

(* One person of the staff of two laundries, two requests at once.         *)
Contexts(open, ops, n) ==
  [slots |-> {r1, r2}, socks |-> {}, ops |-> ops,
   staff |-> [m \in Staff |-> CASE m = <<i1, w1>> -> Full
                                [] m = <<i1, w2>> -> At(b3)
                                [] OTHER -> Nobody],
   open |-> open, customers |-> {}, enrolled |-> {}, events |-> {},
   changes |-> n, sessions |-> 3, orders |-> 0]

Audiences(slots, socks, ops, customers, enrolled, events, n) ==
  [slots |-> slots, socks |-> socks, ops |-> ops,
   staff |-> [m \in Staff |-> CASE m = <<i1, w1>> -> Full
                                [] m = <<i2, w1>> -> At(b1)
                                [] OTHER -> Nobody],
   open |-> {b1, b3}, customers |-> customers, enrolled |-> enrolled,
   events |-> events, changes |-> 0, sessions |-> n, orders |-> 1]

(* Sessions selected, switched and used while a membership, a branch or a  *)
(* laundry comes or goes. *)
Using == Contexts({b1, b3}, {"select", "login", "staff"}, 2)

(* The owner's laundry has no branch. *)
NoBranch == Contexts({b3}, {"login", "contexts"}, 1)

(* Two people, both of them customers of both laundries; one owns a        *)
(* laundry, the other drives for it.                                       *)
TwoCustomers ==
  Audiences({r1}, {k1, k2}, {"order"}, {i1, i2}, {i1, i2} \X Washers,
            {"order"}, 2)

(* One person, as staff and as a customer. *)
Both ==
  Audiences({r1}, {k1}, {"login", "order"}, {i1}, {},
            {"task", "payment", "invitation", "accepted", "activated"}, 3)

(* Slots are alike, and so are sockets; every property is one of safety.    *)
Symmetry == Permutations({r1, r2}) \cup Permutations({k1, k2})

MCWorlds == {Using, NoBranch, TwoCustomers, Both}
=============================================================================
