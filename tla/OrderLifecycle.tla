--------------------------- MODULE OrderLifecycle ---------------------------
(***************************************************************************)
(* One order row, its DriverTask rows and the HTTP handlers that move      *)
(* them: updateWasherStatus, updateDriverStatus and customerCancel         *)
(* (order.service.js) and the claims of drivers.service.js.                *)
(*                                                                         *)
(* Every handler first reads the order outside its transaction and         *)
(* validates that snapshot, then opens a READ COMMITTED transaction.  A    *)
(* slot is one request in flight.  Its steps are                           *)
(*   - the read that validates (idle -> read),                             *)
(*   - the statement on driver_tasks, when the transaction has one: a      *)
(*     SELECT that decides what is written (read -> found) or an UPDATE    *)
(*     that locks the rows it matched (read -> locked),                    *)
(*   - the commit, which writes the order row last (-> idle).              *)
(* Every transaction takes the order row's lock after those of its tasks   *)
(* and keeps it for the commit alone, so the model has no such lock: it    *)
(* could not show a transaction that takes them in the opposite order.     *)
(* Steps of different slots interleave.  A request the validation refuses  *)
(* changes nothing and is not a step.  A behaviour lives in one world: who *)
(* is there and how many requests overlap never changes.                   *)
(***************************************************************************)
EXTENDS OrderStatus, FiniteSets

CONSTANTS
  Slots,           \* requests that may be in flight together
  Drivers,         \* staff memberships that act as drivers
  Nobody,          \* driverStaffMembershipId / assignedDriverId = null
  Pickup,          \* id of the pickup task row createOrder writes
  Worlds           \* the clients a behaviour may have

DriverAliases == {"picked_up", "accepted", "delivering"}

ASSUME ConstantsOK ==
  /\ Nobody \notin Drivers
  /\ Pickup \notin Slots
  /\ \A w \in Worlds :
       /\ w.slots \subseteq Slots         \* requests that may overlap
       /\ IsFiniteSet(w.slots)
       /\ w.drivers \subseteq Drivers
       /\ w.targets \subseteq Status      \* what washer staff ask for
       /\ w.asks \subseteq Status \cup DriverAliases  \* what drivers ask for

(* A delivery task row is named after the slot whose transaction inserts   *)
(* it; a slot inserts one only when it sees none, so one name is enough.   *)
TaskIds    == {Pickup} \cup Slots
Deliveries == Slots

VARIABLES
  status,   \* Order.status
  driver,   \* Order.driverStaffMembershipId
  task,     \* DriverTask rows by id; status "none" is a row not inserted
  req,      \* the request each slot is working on
  event,    \* the OrderEvent row the last commit wrote, or NoEvent
  world     \* the clients of this behaviour

vars == <<status, driver, task, req, event, world>>

Holder     == Drivers \cup {Nobody}
TaskStatus == {"none", "open", "assigned", "completed", "cancelled"}
Live       == {"open", "assigned"}
Row        == [status : TaskStatus, driver : Holder]
NoEvent    == [from |-> "none", to |-> "none"]

Ops == {"none", "washer", "driver", "cancel", "claim_pickup",
        "claim_delivery", "claim_order"}

NoRequest ==
  [pc |-> "idle", op |-> "none", to |-> "none", from |-> "none",
   held |-> Nobody, by |-> Nobody, rows |-> {}]

Request ==
  [pc : {"idle", "read", "found", "locked"}, op : Ops,
   to : Status \cup {"none"}, from : Status \cup {"none"},
   held : Holder, by : Holder, rows : SUBSET TaskIds]

TypeOK ==
  /\ status \in Status
  /\ driver \in Holder
  /\ task \in [TaskIds -> Row]
  /\ req \in [Slots -> Request]
  /\ event \in [from : Status \cup {"none"}, to : Status \cup {"none"}]

(* What createOrder commits: a pending order and its open pickup task.     *)
Init ==
  /\ status = "pending_pickup"
  /\ driver = Nobody
  /\ task = [t \in TaskIds |-> [status |-> IF t = Pickup THEN "open" ELSE "none",
                                driver |-> Nobody]]
  /\ req = [s \in Slots |-> NoRequest]
  /\ event = NoEvent
  /\ world \in Worlds

-----------------------------------------------------------------------------
(* Steps every handler is made of.  A definition whose name ends in _Bug   *)
(* is a plausible fault of the definition after it and no part of Next.    *)

Idle(s) == req[s].pc = "idle"

(* The validated snapshot: what the rest of the handler remembers. *)
Accept(s, op, to, d, rows) ==
  /\ req' = [req EXCEPT ![s] =
               [pc |-> "read", op |-> op, to |-> to, from |-> status,
                held |-> driver, by |-> d, rows |-> rows]]
  /\ UNCHANGED <<status, driver, task, event>>

Reply(s) == req' = [req EXCEPT ![s] = NoRequest]

(* An UPDATE of task rows waits for the transactions that hold them. *)
Unlocked(s, rows) ==
  \A o \in Slots \ {s} : req[o].pc = "locked" => req[o].rows \cap rows = {}

(* A SELECT (pc "found") or an UPDATE (pc "locked") of task rows. *)
Statement(s, pc, rows) ==
  /\ req' = [req EXCEPT ![s].pc = pc, ![s].rows = rows]
  /\ UNCHANGED <<status, driver, task, event>>

SetTasks(rows, st, d) ==
  task' = [t \in TaskIds |-> IF t \in rows THEN [status |-> st, driver |-> d]
                             ELSE task[t]]

CloseTasks(rows, st) ==
  task' = [t \in TaskIds |-> IF t \in rows THEN [task[t] EXCEPT !.status = st]
                             ELSE task[t]]

WriteEvent(s) == event' = [from |-> req[s].from, to |-> req[s].to]

-----------------------------------------------------------------------------
(* updateWasherStatus.  `washing` and `ready` are not statuses of the      *)
(* matrix, so their branches are unreachable and have no action here.      *)

WasherRead(s, to) ==
  /\ Idle(s)
  /\ isAllowedTransition(status, to)
  /\ Accept(s, "washer", to, Nobody, {})

(* ready_for_delivery looks for a delivery task and plans to insert one.   *)
WasherFindDelivery(s) ==
  /\ req[s].pc = "read" /\ req[s].op = "washer"
  /\ req[s].to = "ready_for_delivery"
  /\ Statement(s, "found",
       IF \E t \in Deliveries : task[t].status # "none" THEN {} ELSE {s})

WasherReadyCommit(s) ==
  /\ req[s].pc = "found" /\ req[s].op = "washer"
  /\ SetTasks(req[s].rows, "open", Nobody)
  /\ status' = "ready_for_delivery"
  /\ WriteEvent(s)
  /\ Reply(s)
  /\ UNCHANGED driver

WasherCommit_Bug(s) ==  \* UPDATE without the status read
  /\ req[s].pc = "read" /\ req[s].op = "washer"
  /\ req[s].to # "ready_for_delivery"
  /\ status' = req[s].to
  /\ WriteEvent(s)
  /\ Reply(s)
  /\ UNCHANGED <<driver, task>>

(* Every other target: UPDATE ... WHERE status = the status read.          *)
WasherCommit(s) ==
  /\ req[s].pc = "read" /\ req[s].op = "washer"
  /\ req[s].to # "ready_for_delivery"
  /\ status = req[s].from
  /\ status' = req[s].to
  /\ WriteEvent(s)
  /\ Reply(s)
  /\ UNCHANGED <<driver, task>>

WasherConflict_Bug(s) ==  \* the conflict is swallowed, nobody answers
  /\ req[s].pc = "read" /\ req[s].op = "washer"
  /\ req[s].to # "ready_for_delivery"
  /\ status # req[s].from
  /\ UNCHANGED vars

(* No row matched: 409 CONCURRENCY_CONFLICT and a rollback. *)
WasherConflict(s) ==
  /\ req[s].pc = "read" /\ req[s].op = "washer"
  /\ req[s].to # "ready_for_delivery"
  /\ status # req[s].from
  /\ Reply(s)
  /\ UNCHANGED <<status, driver, task, event>>

-----------------------------------------------------------------------------
(* updateDriverStatus. *)

(* The mobile aliases, resolved against the order that was read. *)
DriverTarget(ask) ==
  CASE ask = "picked_up"  -> IF driver = Nobody \/ status = "pending_pickup"
                             THEN "pickup_assigned" ELSE "driver_arrived_pickup"
    [] ask = "accepted"   -> "pickup_assigned"
    [] ask = "delivering" -> "driver_heading_to_delivery"
    [] OTHER -> ask

DriverRead_Bug(s, d, ask) ==  \* the transition is not asserted
  /\ Idle(s)
  /\ DriverTarget(ask) # status
  /\ driver = d
  /\ Accept(s, "driver", DriverTarget(ask), d, {})

DriverRead(s, d, ask) ==
  LET to == DriverTarget(ask) IN
  /\ Idle(s)
  /\ isAllowedTransition(status, to)
  /\ IF driver = Nobody
     THEN to \in {"pickup_assigned", "driver_arrived_pickup"}
     ELSE driver = d
  /\ Accept(s, "driver", to, d, {})

ClaimsPickup(s) ==
  req[s].held = Nobody /\ req[s].from \in {"pending_pickup", "pickup_assigned"}

(* An unassigned order: look for the open pickup task. *)
DriverFindPickup(s) ==
  /\ req[s].pc = "read" /\ req[s].op = "driver"
  /\ ClaimsPickup(s)
  /\ Statement(s, "found",
       IF task[Pickup].status = "open" THEN {Pickup} ELSE {})

(* The tasks delivered_to_laundry and delivered complete, locked. *)
DriverCompleteTasks(s) ==
  LET rows == {t \in TaskIds :
                 /\ task[t].status \in Live
                 /\ \/ req[s].to = "delivered_to_laundry" /\ t = Pickup
                    \/ req[s].to = "delivered" /\ t \in Deliveries}
  IN /\ req[s].pc = "read" /\ req[s].op = "driver"
     /\ ~ClaimsPickup(s)
     /\ Unlocked(s, rows)
     /\ Statement(s, "locked", rows)

(* UPDATE orders by id alone: the status read is not compared again. *)
DriverCommit(s) ==
  /\ req[s].op = "driver"
  /\ \/ /\ req[s].pc = "found"
        /\ Unlocked(s, req[s].rows)
        /\ SetTasks(req[s].rows, "assigned", req[s].by)
     \/ /\ req[s].pc = "locked"
        /\ CloseTasks(req[s].rows, "completed")
  /\ status' = req[s].to
  /\ driver' = req[s].by
  /\ WriteEvent(s)
  /\ Reply(s)

-----------------------------------------------------------------------------
(* customerCancel.  An order already cancelled passes the assertion (its   *)
(* idempotent answer is not looked at) and is cancelled again.             *)

CancelRead(s) ==
  /\ Idle(s)
  /\ \/ status = "cancelled"
     \/ /\ isAllowedTransition(status, "cancelled")
        /\ status \in CUSTOMER_CANCELABLE_STATUSES
  /\ Accept(s, "cancel", "cancelled", Nobody, {})

CancelTasks_Bug2(s) ==  \* every task of the order, completed ones too
  LET rows == {t \in TaskIds : task[t].status # "none"}
  IN /\ req[s].pc = "read" /\ req[s].op = "cancel"
     /\ Unlocked(s, rows)
     /\ Statement(s, "locked", rows)

CancelTasks(s) ==
  LET rows == {t \in TaskIds : task[t].status \in Live}
  IN /\ req[s].pc = "read" /\ req[s].op = "cancel"
     /\ Unlocked(s, rows)
     /\ Statement(s, "locked", rows)

CancelCommit(s) ==
  /\ req[s].pc = "locked" /\ req[s].op = "cancel"
  /\ CloseTasks(req[s].rows, "cancelled")
  /\ status' = "cancelled"
  /\ driver' = Nobody
  /\ WriteEvent(s)
  /\ Reply(s)

-----------------------------------------------------------------------------
(* claimPickupTask, claimDeliveryTask: the task's status is checked in the *)
(* read, the order's status never.                                         *)

ClaimPickupRead_Bug(s, d) ==  \* any task that is not taken
  /\ Idle(s)
  /\ task[Pickup].status # "assigned"
  /\ Accept(s, "claim_pickup", "pickup_assigned", d, {Pickup})

ClaimPickupRead(s, d) ==
  /\ Idle(s)
  /\ task[Pickup].status = "open"
  /\ Accept(s, "claim_pickup", "pickup_assigned", d, {Pickup})

ClaimDeliveryRead(s, d, t) ==
  /\ Idle(s)
  /\ task[t].status = "open"
  /\ Accept(s, "claim_delivery", "delivery_assigned", d, {t})

ClaimCommit_Bug(s) ==  \* the task is bound, the order is not
  /\ req[s].pc = "read" /\ req[s].op \in {"claim_pickup", "claim_delivery"}
  /\ Unlocked(s, req[s].rows)
  /\ SetTasks(req[s].rows, "assigned", req[s].by)
  /\ status' = req[s].to
  /\ event' = [from |-> "none", to |-> req[s].to]
  /\ Reply(s)
  /\ UNCHANGED driver

(* UPDATE driver_tasks and orders by id; a pickup claim writes an event    *)
(* (without `from`), a delivery claim none.                                *)
ClaimCommit(s) ==
  /\ req[s].pc = "read" /\ req[s].op \in {"claim_pickup", "claim_delivery"}
  /\ Unlocked(s, req[s].rows)
  /\ SetTasks(req[s].rows, "assigned", req[s].by)
  /\ status' = req[s].to
  /\ driver' = req[s].by
  /\ event' = IF req[s].op = "claim_pickup"
              THEN [from |-> "none", to |-> "pickup_assigned"] ELSE NoEvent
  /\ Reply(s)

(* claimDeliveryByOrderId: with an open delivery task it is               *)
(* claimDeliveryTask; without one it reads the order and binds it.         *)
ClaimOrderFind(s, d) ==
  /\ Idle(s)
  /\ \A t \in Deliveries : task[t].status # "open"
  /\ req' = [req EXCEPT ![s] =
               [NoRequest EXCEPT !.pc = "found", !.op = "claim_order", !.by = d]]
  /\ UNCHANGED <<status, driver, task, event>>

ClaimOrderRead(s) ==
  /\ req[s].pc = "found" /\ req[s].op = "claim_order"
  /\ IF driver = Nobody /\ status = "ready_for_delivery"
     THEN Accept(s, "claim_order", "delivery_assigned", req[s].by, {})
     ELSE /\ Reply(s)
          /\ UNCHANGED <<status, driver, task, event>>

ClaimOrderCommit(s) ==
  /\ req[s].pc = "read" /\ req[s].op = "claim_order"
  /\ status' = "delivery_assigned"
  /\ driver' = req[s].by
  /\ event' = NoEvent
  /\ Reply(s)
  /\ UNCHANGED task

-----------------------------------------------------------------------------
(* A request arrives: the client decides, nothing obliges it. *)
Arrive(s) ==
  /\ s \in world.slots
  /\ \/ \E to \in world.targets : WasherRead(s, to)
     \/ \E d \in world.drivers, ask \in world.asks : DriverRead(s, d, ask)
     \/ CancelRead(s)
     \/ \E d \in world.drivers : ClaimPickupRead(s, d)
     \/ \E d \in world.drivers, t \in Deliveries : ClaimDeliveryRead(s, d, t)
     \/ \E d \in world.drivers : ClaimOrderFind(s, d)
  /\ UNCHANGED world

(* A request in flight takes its next step: the server runs it. *)
Proceed(s) ==
  /\ \/ WasherFindDelivery(s) \/ WasherReadyCommit(s)
     \/ WasherCommit(s) \/ WasherConflict(s)
     \/ DriverFindPickup(s) \/ DriverCompleteTasks(s) \/ DriverCommit(s)
     \/ CancelTasks(s) \/ CancelCommit(s)
     \/ ClaimCommit(s)
     \/ ClaimOrderRead(s) \/ ClaimOrderCommit(s)
  /\ UNCHANGED world

Next == \E s \in Slots : Arrive(s) \/ Proceed(s)

Spec == Init /\ [][Next]_vars

(* Node schedules every started handler and PostgreSQL every statement.    *)
FairSpec == Spec /\ \A s \in Slots : WF_vars(Proceed(s))
-----------------------------------------------------------------------------
(* What holds however requests overlap. *)

(* A washer update other than ready_for_delivery moves the order along an  *)
(* arrow of the matrix from the status the row really has, so it always    *)
(* moves forward, whatever the other handlers committed since its read.    *)
WasherMovesForward ==
  [][\A s \in Slots : WasherCommit(s) =>
        /\ isAllowedTransition(status, status')
        /\ Stage[status] < Stage[status']]_vars

(* The driver completing a task and the customer cancelling the order race *)
(* for the same row: whichever loses never overwrites the other's outcome. *)
SettledTasksNeverSwap ==
  [][\A t \in TaskIds :
        {task[t].status, task'[t].status} # {"completed", "cancelled"}]_vars

(* Every request that was accepted is answered: waiting for the rows of    *)
(* tasks that others hold ends, and a conflict is an answer.               *)
RequestsAreAnswered == \A s \in Slots : ~Idle(s) ~> Idle(s)

-----------------------------------------------------------------------------
(* What holds when requests do not overlap, and what                       *)
(* docs/order-lifecycle-hardening-plan.md and the comments promise.        *)

Sequential == Cardinality(world.slots) = 1

NoLiveTask == \A t \in TaskIds : task[t].status \notin Live

(* An order cancelled together with its tasks never comes back.            *)
CleanCancelIsFinal ==
  [][(Sequential /\ status = "cancelled" /\ NoLiveTask)
       => status' = "cancelled"]_vars

(* Apart from a claim, every change of status is an arrow of the matrix.   *)
OnlyClaimsLeaveMatrix ==
  [][(Sequential /\ status' # status) =>
        \/ isAllowedTransition(status, status')
        \/ \E s \in Slots : ClaimCommit(s)]_vars

(* Until a delivery is claimed, the order and its claimed pickup task name *)
(* the same driver.                                                        *)
PickupDriverAgrees ==
  (/\ Sequential
   /\ task[Pickup].status = "assigned"
   /\ \A t \in Deliveries : task[t].status \in {"none", "open"})
  => driver = task[Pickup].driver

(* drivers.service.js:224: only one driver can claim a pickup task.        *)
OneDriverClaims ==
  [][\A s \in Slots : ClaimCommit(s) =>
        \A t \in req[s].rows : task[t].status # "assigned"]_vars
=============================================================================
