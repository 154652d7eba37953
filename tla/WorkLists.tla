------------------------------ MODULE WorkLists ------------------------------
(***************************************************************************)
(* The queries that put an order before the people who move it: the        *)
(* laundry's lists (washers.service.js) and the drivers' (drivers.service  *)
(* .js), as predicates on the one order of OrderLifecycle.  A laundry list *)
(* is the set of statuses its WHERE clause names; pages, order and format  *)
(* are left out.  A query reads committed rows and changes nothing.        *)
(***************************************************************************)
EXTENDS OrderLifecycle

pendingOrders              == {"pending_pickup"}
ordersAwaitingDriverPickup == {"pending_pickup", "pickup_assigned",
                               "driver_heading_to_pickup",
                               "driver_arrived_pickup"}
ordersToReceive            == {"driver_arrived_pickup", "delivered_to_laundry"}
deliveredToLaundryPaged    == {"delivered_to_laundry"}
ordersToSort               == {"delivered_to_laundry", "received_in_laundry",
                               "sorting_in_progress"}
ordersSortedAwaitingPayment == {"sorting_confirmed", "invoice_generated",
                                "payment_pending"}
ordersInWash               == {"payment_confirmed", "drying", "ironing",
                               "packaging"}
ordersAwaitingDelivery     == {"ready_for_delivery", "delivery_assigned",
                               "driver_heading_to_delivery",
                               "driver_arrived_delivery"}
ordersCompleted            == {"delivered"}
completedPaged             == {"delivered"}

LaundryLists ==
  {pendingOrders, ordersAwaitingDriverPickup, ordersToReceive,
   deliveredToLaundryPaged, ordersToSort, ordersSortedAwaitingPayment,
   ordersInWash, ordersAwaitingDelivery, ordersCompleted, completedPaged}

-----------------------------------------------------------------------------
DRIVER_ACTIVE_PICKUP_STATUSES_Bug ==  \* the driver on his way is forgotten
  {"pickup_assigned", "driver_arrived_pickup", "delivered_to_laundry"}

DRIVER_ACTIVE_PICKUP_STATUSES ==
  {"pickup_assigned", "driver_heading_to_pickup", "driver_arrived_pickup",
   "delivered_to_laundry"}

DRIVER_ACTIVE_DELIVERY_STATUSES ==
  {"ready_for_delivery", "delivery_assigned", "driver_heading_to_delivery",
   "driver_arrived_delivery", "delivered"}

(* The three phases a driver may ask for. *)
activeOrders(d, phase) ==
  /\ driver = d
  /\ \/ phase # "delivery" /\ status \in DRIVER_ACTIVE_PICKUP_STATUSES
     \/ phase # "pickup" /\ status \in DRIVER_ACTIVE_DELIVERY_STATUSES

deliveryCart(d) ==
  /\ driver = d
  /\ status \in {"delivery_assigned", "driver_heading_to_delivery",
                 "driver_arrived_delivery"}

(* Open pickup tasks of pending orders, and pending orders nobody holds.   *)
availablePickup ==
  /\ status = "pending_pickup"
  /\ task[Pickup].status = "open" \/ driver = Nobody

(* Both queries ask that nobody holds the order, and the driver who picked *)
(* it up still does.                                                       *)
availableDelivery == status = "ready_for_delivery" /\ driver = Nobody

-----------------------------------------------------------------------------
(* No order falls between the lists.  Unless it is cancelled the laundry   *)
(* finds it; while it is pending every driver is offered it, with a task   *)
(* still open to claim; when it is ready it is offered to all or on its    *)
(* holder's list; and, one request at a time, the driver who claimed the   *)
(* pickup task sees the order until the laundry has it.                    *)
InSight ==
  /\ status # "cancelled" => \E list \in LaundryLists : status \in list
  /\ status = "pending_pickup" =>
       availablePickup /\ task[Pickup].status = "open"
  /\ status = "ready_for_delivery" =>
       availableDelivery \/ \E d \in Drivers : activeOrders(d, "delivery")
  /\ \A d \in Drivers : deliveryCart(d) => activeOrders(d, "all")
  /\ (/\ Sequential
      /\ task[Pickup].status = "assigned"
      /\ \A t \in Deliveries : task[t].status \in {"none", "open"}
      /\ status \in CUSTOMER_CANCELABLE_STATUSES)
     => activeOrders(task[Pickup].driver, "pickup")
=============================================================================
