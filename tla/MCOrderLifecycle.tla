-------------------------- MODULE MCOrderLifecycle --------------------------
(***************************************************************************)
(* Small instances of OrderLifecycle for TLC.                              *)
(***************************************************************************)
EXTENDS WorkLists

CONSTANTS s1, s2, d1, d2

(* One request after the other, two drivers, every target of the matrix.   *)
OneByOne ==
  [slots |-> {s1}, drivers |-> {d1, d2},
   targets |-> Status \ {"pending_pickup"},
   asks |-> DriverAliases \cup (Status \ {"pending_pickup"})]

(* Two requests at once, one target per kind of update: a plain step       *)
(* before and after the invoice, the driver's two completions, the         *)
(* delivery task, the cancel.                                              *)
TwoAtOnce ==
  [slots |-> {s1, s2}, drivers |-> {d1},
   targets |-> {"received_in_laundry", "invoice_generated",
                "ready_for_delivery", "cancelled"},
   asks |-> {"picked_up", "delivered_to_laundry", "delivering", "delivered"}]

MCWorlds    == {OneByOne, TwoAtOnce}
TwoDrivers  == {[TwoAtOnce EXCEPT !.drivers = {d1, d2}]}
=============================================================================
