----------------------------- MODULE OrderStatus -----------------------------
(***************************************************************************)
(* The canonical order state machine of                                    *)
(* src/modules/orders/order-state-machine.js: the twenty statuses, the     *)
(* transition matrix, the customer's cancellation window and the targets   *)
(* that need a driver.  Pure data and predicates: every module that moves  *)
(* an order extends this one.                                              *)
(***************************************************************************)
EXTENDS Naturals

Status == {"pending_pickup", "pickup_assigned", "driver_heading_to_pickup",
           "driver_arrived_pickup", "delivered_to_laundry",
           "received_in_laundry", "sorting_in_progress", "sorting_confirmed",
           "invoice_generated", "payment_pending", "payment_confirmed",
           "drying", "ironing", "packaging", "ready_for_delivery",
           "delivery_assigned", "driver_heading_to_delivery",
           "driver_arrived_delivery", "delivered", "cancelled"}

(* ALLOWED_TRANSITIONS through isAllowedTransition: the arrows the matrix  *)
(* lists.  Asking for the current status is answered before the matrix is  *)
(* consulted and changes nothing, so it is no arrow.                       *)
isAllowedTransition(from, to) ==
  \/ from = "pending_pickup" /\ to \in
       {"pickup_assigned", "driver_heading_to_pickup",
        "driver_arrived_pickup", "delivered_to_laundry",
        "received_in_laundry", "cancelled"}
  \/ from = "pickup_assigned" /\ to \in
       {"driver_heading_to_pickup", "driver_arrived_pickup",
        "delivered_to_laundry", "received_in_laundry", "cancelled"}
  \/ from = "driver_heading_to_pickup" /\ to \in
       {"driver_arrived_pickup", "delivered_to_laundry",
        "received_in_laundry", "cancelled"}
  \/ from = "driver_arrived_pickup" /\ to \in
       {"delivered_to_laundry", "received_in_laundry", "cancelled"}
  \/ from = "delivered_to_laundry" /\ to \in
       {"received_in_laundry", "sorting_in_progress", "cancelled"}
  \/ from = "received_in_laundry" /\ to \in
       {"sorting_in_progress", "sorting_confirmed", "invoice_generated",
        "cancelled"}
  \/ from = "sorting_in_progress" /\ to \in
       {"sorting_confirmed", "invoice_generated", "cancelled"}
  \/ from = "sorting_confirmed" /\ to \in
       {"invoice_generated", "payment_pending", "cancelled"}
  \/ from = "invoice_generated" /\ to \in
       {"payment_pending", "payment_confirmed", "drying",
        "ready_for_delivery", "cancelled"}
  \/ from = "payment_pending" /\ to \in
       {"payment_confirmed", "drying", "ready_for_delivery",
        "cancelled"}
  \/ from = "payment_confirmed" /\ to \in
       {"drying", "ironing", "packaging", "ready_for_delivery"}
  \/ from = "drying" /\ to \in
       {"ironing", "packaging", "ready_for_delivery"}
  \/ from = "ironing" /\ to \in {"packaging", "ready_for_delivery"}
  \/ from = "packaging" /\ to = "ready_for_delivery"
  \/ from = "ready_for_delivery" /\ to \in
       {"delivery_assigned", "driver_heading_to_delivery"}
  \/ from = "delivery_assigned" /\ to \in
       {"driver_heading_to_delivery", "driver_arrived_delivery",
        "delivered"}
  \/ from = "driver_heading_to_delivery" /\ to \in
       {"driver_arrived_delivery", "delivered"}
  \/ from = "driver_arrived_delivery" /\ to = "delivered"

(* CUSTOMER_CANCELABLE_STATUSES: the clothes are still with the customer. *)
CUSTOMER_CANCELABLE_STATUSES ==
  {"pending_pickup", "pickup_assigned", "driver_heading_to_pickup",
   "driver_arrived_pickup"}

-----------------------------------------------------------------------------
(* Stage of an order in the life cycle: a rank every arrow of the matrix   *)
(* raises, which is what makes the matrix free of cycles.                  *)
Stage ==
  [pending_pickup |-> 0, pickup_assigned |-> 1,
   driver_heading_to_pickup |-> 2, driver_arrived_pickup |-> 3,
   delivered_to_laundry |-> 4, received_in_laundry |-> 5,
   sorting_in_progress |-> 6, sorting_confirmed |-> 7,
   invoice_generated |-> 8, payment_pending |-> 9,
   payment_confirmed |-> 10, drying |-> 11, ironing |-> 12,
   packaging |-> 13, ready_for_delivery |-> 14, delivery_assigned |-> 15,
   driver_heading_to_delivery |-> 16, driver_arrived_delivery |-> 17,
   delivered |-> 18, cancelled |-> 19]

Terminal == {"delivered", "cancelled"}
=============================================================================
