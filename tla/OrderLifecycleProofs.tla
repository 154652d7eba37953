------------------------ MODULE OrderLifecycleProofs ------------------------
(***************************************************************************)
(* What holds of OrderLifecycle and its WorkLists for every number of      *)
(* overlapping requests, drivers and targets.  The inductive invariant     *)
(* IInv adds to the types what a request in flight remembers: its target   *)
(* is a status, a washer request asks for an arrow of the matrix, and the  *)
(* driver_tasks rows two transactions have locked are disjoint and still   *)
(* live.  SInv adds what holds of a request that is alone.                 *)
(***************************************************************************)
EXTENDS WorkLists, FiniteSetTheorems, TLAPS

(* The target of a request that will write it is a status. *)
TargetsAreStatuses ==
  \A s \in Slots : req[s].op \notin {"none", "claim_order"} => req[s].to \in Status

(* A washer request was validated against the matrix. *)
WasherAsksArrow ==
  \A s \in Slots :
    req[s].op = "washer" => isAllowedTransition(req[s].from, req[s].to)

(* No two transactions hold the lock of the same task row. *)
LocksAreDisjoint ==
  \A s, o \in Slots :
    (s # o /\ req[s].pc = "locked" /\ req[o].pc = "locked")
      => req[s].rows \cap req[o].rows = {}

(* A locked row stays open or assigned until its holder closes it. *)
LockedAreLive ==
  \A s \in Slots :
    req[s].pc = "locked" => \A t \in req[s].rows : task[t].status \in Live

IInv ==
  /\ TypeOK
  /\ TargetsAreStatuses
  /\ WasherAsksArrow
  /\ LocksAreDisjoint
  /\ LockedAreLive

-----------------------------------------------------------------------------
(* Every arrow of the matrix ends in a status. *)
LEMMA ArrowsEndInStatus ==
  ASSUME NEW from, NEW to, isAllowedTransition(from, to)
  PROVE  to \in Status
  BY DEF isAllowedTransition, Status

(* Every arrow of the matrix raises the stage: the matrix has no cycle. *)
LEMMA ArrowsRaiseStage ==
  ASSUME NEW from, NEW to, isAllowedTransition(from, to)
  PROVE  Stage[from] < Stage[to]
  BY DEF isAllowedTransition, Stage

-----------------------------------------------------------------------------
(* The three ways a step changes req.  Each lemma says under which         *)
(* conditions the step keeps IInv; the actions below only discharge them.  *)

(* Accepting a request keeps IInv if the request is typed and, for washer  *)
(* staff, an arrow of the matrix.                                          *)
LEMMA AcceptKeeps ==
  ASSUME IInv, NEW s \in Slots, NEW op \in Ops, NEW to \in Status,
         NEW d \in Holder, NEW rows \in SUBSET TaskIds,
         op = "washer" => isAllowedTransition(status, to),
         Accept(s, op, to, d, rows)
  PROVE  IInv'
<1> DEFINE r == [pc |-> "read", op |-> op, to |-> to, from |-> status,
                 held |-> driver, by |-> d, rows |-> rows]
<1> USE DEF IInv
<1>1. r \in Request
  BY DEF TypeOK, Request
<1>2. /\ req' = [req EXCEPT ![s] = r]
      /\ UNCHANGED <<status, driver, task, event>>
  BY DEF Accept
<1>3. req \in [Slots -> Request]
  BY DEF TypeOK
<1>4. /\ req'[s] = r
      /\ \A o \in Slots \ {s} : req'[o] = req[o]
  BY <1>2, <1>3
<1>5. TypeOK'
  BY <1>1, <1>2, <1>3 DEF TypeOK
<1>6. TargetsAreStatuses'
  BY <1>4 DEF TargetsAreStatuses
<1>7. WasherAsksArrow'
  BY <1>4 DEF WasherAsksArrow
<1>8. LocksAreDisjoint'
  BY <1>4 DEF LocksAreDisjoint
<1>9. LockedAreLive'
  BY <1>2, <1>4 DEF LockedAreLive
<1> QED
  BY <1>5, <1>6, <1>7, <1>8, <1>9

(* A statement on driver_tasks keeps IInv if the rows it locks are live    *)
(* and not locked by another transaction.                                  *)
LEMMA StatementKeeps ==
  ASSUME IInv, NEW s \in Slots, NEW pc \in {"found", "locked"},
         NEW rows \in SUBSET TaskIds,
         pc = "locked" => /\ Unlocked(s, rows)
                          /\ \A t \in rows : task[t].status \in Live,
         Statement(s, pc, rows)
  PROVE  IInv'
<1> USE DEF IInv
<1>1. /\ req' = [req EXCEPT ![s].pc = pc, ![s].rows = rows]
      /\ UNCHANGED <<status, driver, task, event>>
  BY DEF Statement
<1>2. req \in [Slots -> Request]
  BY DEF TypeOK
<1>3. /\ req'[s] = [req[s] EXCEPT !.pc = pc, !.rows = rows]
      /\ \A o \in Slots \ {s} : req'[o] = req[o]
  BY <1>1, <1>2
<1>4. req[s] \in Request
  BY <1>2
<1>5. /\ req'[s].pc = pc
      /\ req'[s].rows = rows
      /\ req'[s].op = req[s].op
      /\ req'[s].to = req[s].to
      /\ req'[s].from = req[s].from
  BY <1>3, <1>4 DEF Request
<1>6. req'[s] \in Request
  BY <1>3, <1>4 DEF Request
<1>7. TypeOK'
  BY <1>1, <1>2, <1>3, <1>6 DEF TypeOK
<1>8. TargetsAreStatuses'
  BY <1>3, <1>5 DEF TargetsAreStatuses
<1>9. WasherAsksArrow'
  BY <1>3, <1>5 DEF WasherAsksArrow
<1>10. LocksAreDisjoint'
  BY <1>3, <1>5 DEF LocksAreDisjoint, Unlocked
<1>11. LockedAreLive'
  BY <1>1, <1>3, <1>5 DEF LockedAreLive
<1> QED
  BY <1>7, <1>8, <1>9, <1>10, <1>11

(* An answer keeps IInv if what the commit wrote is typed and the rows     *)
(* other transactions have locked stay live.                               *)
LEMMA ReplyKeeps ==
  ASSUME IInv, NEW s \in Slots, Reply(s),
         status' \in Status, driver' \in Holder,
         task' \in [TaskIds -> Row],
         event' \in [from : Status \cup {"none"}, to : Status \cup {"none"}],
         \A o \in Slots \ {s} :
           req[o].pc = "locked" => \A t \in req[o].rows : task'[t].status \in Live
  PROVE  IInv'
<1> USE DEF IInv
<1>1. req \in [Slots -> Request]
  BY DEF TypeOK
<1>2. NoRequest \in Request
  BY DEF NoRequest, Request, Ops, Holder
<1>3. /\ req'[s] = NoRequest
      /\ \A o \in Slots \ {s} : req'[o] = req[o]
  BY <1>1 DEF Reply
<1>4. TypeOK'
  BY <1>1, <1>2 DEF TypeOK, Reply
<1>5. NoRequest.op = "none" /\ NoRequest.pc = "idle"
  BY DEF NoRequest
<1>6. TargetsAreStatuses'
  BY <1>3, <1>5 DEF TargetsAreStatuses
<1>7. WasherAsksArrow'
  BY <1>3, <1>5 DEF WasherAsksArrow
<1>8. LocksAreDisjoint'
  BY <1>3, <1>5 DEF LocksAreDisjoint
<1>9. LockedAreLive'
  BY <1>3, <1>5 DEF LockedAreLive
<1> QED
  BY <1>4, <1>6, <1>7, <1>8, <1>9

(* Writing rows keeps the task table typed. *)
LEMMA SetTasksTyped ==
  ASSUME TypeOK, NEW rows \in SUBSET TaskIds, NEW st \in TaskStatus,
         NEW d \in Holder, SetTasks(rows, st, d)
  PROVE  task' \in [TaskIds -> Row]
  BY DEF TypeOK, SetTasks, Row

(* Closing rows keeps the task table typed and touches no other row. *)
LEMMA CloseTasksTyped ==
  ASSUME TypeOK, NEW rows \in SUBSET TaskIds, NEW st \in TaskStatus,
         CloseTasks(rows, st)
  PROVE  /\ task' \in [TaskIds -> Row]
         /\ \A t \in TaskIds \ rows : task'[t] = task[t]
<1>1. \A t \in TaskIds : [task[t] EXCEPT !.status = st] \in Row
  BY DEF TypeOK, Row
<1>2. task' \in [TaskIds -> Row]
  BY <1>1 DEF TypeOK, CloseTasks
<1>3. \A t \in TaskIds \ rows : task'[t] = task[t]
  BY DEF CloseTasks
<1> QED
  BY <1>2, <1>3

(* Binding rows that no other transaction has locked leaves the locked     *)
(* rows of the others alone.                                               *)
LEMMA BindingSparesLocks ==
  ASSUME IInv, NEW s \in Slots, NEW rows \in SUBSET TaskIds,
         NEW st \in {"open", "assigned"}, NEW d, SetTasks(rows, st, d)
  PROVE  \A o \in Slots \ {s} :
           req[o].pc = "locked" => \A t \in req[o].rows : task'[t].status \in Live
<1> USE DEF IInv
<1>1. \A o \in Slots : req[o].rows \subseteq TaskIds
  BY DEF TypeOK, Request
<1>2. \A t \in TaskIds :
        task[t].status \in Live => task'[t].status \in Live
  BY DEF SetTasks, Live
<1> QED
  BY <1>1, <1>2 DEF LockedAreLive

(* Closing the rows a transaction has locked leaves those of the others    *)
(* alone: the locks are disjoint.                                          *)
LEMMA ClosingSparesLocks ==
  ASSUME IInv, NEW s \in Slots, NEW st \in TaskStatus,
         req[s].pc = "locked", CloseTasks(req[s].rows, st)
  PROVE  \A o \in Slots \ {s} :
           req[o].pc = "locked" => \A t \in req[o].rows : task'[t].status \in Live
<1> USE DEF IInv
<1>1. \A o \in Slots : req[o].rows \subseteq TaskIds
  BY DEF TypeOK, Request
<1>2. \A t \in TaskIds \ req[s].rows : task'[t] = task[t]
  BY <1>1, CloseTasksTyped
<1> QED
  BY <1>1, <1>2 DEF LocksAreDisjoint, LockedAreLive

(* What a request in flight holds, for the steps that write it. *)
LEMMA RequestTyped ==
  ASSUME IInv, NEW s \in Slots
  PROVE  /\ req[s].to \in Status \cup {"none"}
         /\ req[s].from \in Status \cup {"none"}
         /\ req[s].by \in Holder
         /\ req[s].rows \in SUBSET TaskIds
         /\ req[s].op \notin {"none", "claim_order"} => req[s].to \in Status
  BY DEF IInv, TypeOK, Request, TargetsAreStatuses

-----------------------------------------------------------------------------
LEMMA InitIInv == Init => IInv
<1> SUFFICES ASSUME Init PROVE IInv
  OBVIOUS
<1>1. NoRequest \in Request /\ NoRequest.pc = "idle" /\ NoRequest.op = "none"
  BY DEF NoRequest, Request, Ops, Holder
<1>2. \A s \in Slots : req[s] = NoRequest
  BY DEF Init
<1>3. TypeOK
  BY <1>1 DEF Init, TypeOK, Status, Holder, Row, TaskStatus, NoEvent
<1> QED
  BY <1>1, <1>2, <1>3 DEF IInv, TargetsAreStatuses, WasherAsksArrow,
                          LocksAreDisjoint, LockedAreLive

(* Every request that arrives keeps IInv. *)
LEMMA ArriveKeeps ==
  ASSUME IInv, world \in Worlds, NEW s \in Slots, Arrive(s)
  PROVE  IInv'
<1> Nobody \in Holder /\ Drivers \subseteq Holder
  BY DEF Holder
<1> world.drivers \subseteq Drivers
  BY ConstantsOK
<1>1. ASSUME NEW to, WasherRead(s, to) PROVE IInv'
  BY <1>1, AcceptKeeps, ArrowsEndInStatus DEF WasherRead, Ops
<1>2. ASSUME NEW d \in Drivers, NEW ask, DriverRead(s, d, ask)
      PROVE  IInv'
  <2> DEFINE to == DriverTarget(ask)
  <2>1. isAllowedTransition(status, to) /\ Accept(s, "driver", to, d, {})
    BY <1>2 DEF DriverRead
  <2> HIDE DEF to
  <2>2. to \in Status
    BY <2>1, ArrowsEndInStatus
  <2> QED
    BY <2>1, <2>2, AcceptKeeps DEF Ops
<1>3. ASSUME CancelRead(s) PROVE IInv'
  <2>1. "cancelled" \in Status
    BY DEF Status
  <2> QED
    BY <1>3, <2>1, AcceptKeeps DEF CancelRead, Ops
<1>4. ASSUME NEW d \in Drivers, ClaimPickupRead(s, d) PROVE IInv'
  <2>1. "pickup_assigned" \in Status /\ {Pickup} \in SUBSET TaskIds
    BY DEF Status, TaskIds
  <2> QED
    BY <1>4, <2>1, AcceptKeeps DEF ClaimPickupRead, Ops
<1>5. ASSUME NEW d \in Drivers, NEW t \in Deliveries, ClaimDeliveryRead(s, d, t)
      PROVE  IInv'
  <2>1. "delivery_assigned" \in Status /\ {t} \in SUBSET TaskIds
    BY DEF Status, TaskIds, Deliveries
  <2> QED
    BY <1>5, <2>1, AcceptKeeps DEF ClaimDeliveryRead, Ops
<1>6. ASSUME NEW d \in Drivers, ClaimOrderFind(s, d) PROVE IInv'
  <2> DEFINE r == [NoRequest EXCEPT !.pc = "found", !.op = "claim_order", !.by = d]
  <2>1. /\ r \in Request
        /\ r.op = "claim_order" /\ r.pc = "found"
    BY DEF NoRequest, Request, Ops, Holder
  <2>2. req \in [Slots -> Request]
    BY DEF IInv, TypeOK
  <2>3. /\ req' = [req EXCEPT ![s] = r]
        /\ UNCHANGED <<status, driver, task, event>>
    BY <1>6 DEF ClaimOrderFind
  <2> HIDE DEF r
  <2>4. req'[s] = r /\ \A o \in Slots \ {s} : req'[o] = req[o]
    BY <2>2, <2>3
  <2>5. TypeOK'
    BY <2>1, <2>2, <2>3 DEF IInv, TypeOK
  <2>6. (TargetsAreStatuses /\ WasherAsksArrow)'
    BY <2>1, <2>4 DEF IInv, TargetsAreStatuses, WasherAsksArrow
  <2>7. (LocksAreDisjoint /\ LockedAreLive)'
    BY <2>1, <2>3, <2>4 DEF IInv, LocksAreDisjoint, LockedAreLive
  <2> QED
    BY <2>5, <2>6, <2>7 DEF IInv
<1> QED
  BY <1>1, <1>2, <1>3, <1>4, <1>5, <1>6 DEF Arrive

(* Every step of a washer request keeps IInv. *)
LEMMA WasherKeeps ==
  ASSUME IInv, NEW s \in Slots,
         \/ WasherFindDelivery(s) \/ WasherReadyCommit(s)
         \/ WasherCommit(s) \/ WasherConflict(s)
  PROVE  IInv'
<1>1. CASE WasherFindDelivery(s)
  <2>1. {} \in SUBSET TaskIds /\ {s} \in SUBSET TaskIds
    BY DEF TaskIds
  <2> QED
    BY <1>1, <2>1, StatementKeeps DEF WasherFindDelivery
<1>2. CASE WasherReadyCommit(s)
  <2>1. /\ req[s].rows \in SUBSET TaskIds
        /\ Nobody \in Holder /\ "open" \in TaskStatus
    BY RequestTyped DEF Holder, TaskStatus
  <2>2. task' \in [TaskIds -> Row]
    BY <1>2, <2>1, SetTasksTyped DEF WasherReadyCommit, IInv
  <2>3. \A o \in Slots \ {s} :
          req[o].pc = "locked" => \A t \in req[o].rows : task'[t].status \in Live
    BY <1>2, <2>1, BindingSparesLocks DEF WasherReadyCommit
  <2>4. status' \in Status /\ driver' \in Holder
    BY <1>2 DEF WasherReadyCommit, Status, IInv, TypeOK
  <2>5. event' \in [from : Status \cup {"none"}, to : Status \cup {"none"}]
    BY <1>2, RequestTyped DEF WasherReadyCommit, WriteEvent
  <2> QED
    BY <1>2, <2>2, <2>3, <2>4, <2>5, ReplyKeeps DEF WasherReadyCommit
<1>3. CASE WasherCommit(s)
  <2>1. req[s].to \in Status
    BY <1>3, RequestTyped DEF WasherCommit
  <2>2. event' \in [from : Status \cup {"none"}, to : Status \cup {"none"}]
    BY <1>3, RequestTyped DEF WasherCommit, WriteEvent
  <2> QED
    BY <1>3, <2>1, <2>2, ReplyKeeps
    DEF WasherCommit, IInv, TypeOK, LockedAreLive
<1>4. CASE WasherConflict(s)
  BY <1>4, ReplyKeeps DEF WasherConflict, IInv, TypeOK, LockedAreLive
<1> QED
  BY <1>1, <1>2, <1>3, <1>4

(* Every step of a driver's status request keeps IInv. *)
LEMMA DriverKeeps ==
  ASSUME IInv, NEW s \in Slots,
         DriverFindPickup(s) \/ DriverCompleteTasks(s) \/ DriverCommit(s)
  PROVE  IInv'
<1>1. CASE DriverFindPickup(s)
  <2>1. {} \in SUBSET TaskIds /\ {Pickup} \in SUBSET TaskIds
    BY DEF TaskIds
  <2> QED
    BY <1>1, <2>1, StatementKeeps DEF DriverFindPickup
<1>2. CASE DriverCompleteTasks(s)
  <2> DEFINE rows == {t \in TaskIds :
                        /\ task[t].status \in Live
                        /\ \/ req[s].to = "delivered_to_laundry" /\ t = Pickup
                           \/ req[s].to = "delivered" /\ t \in Deliveries}
  <2>1. /\ rows \in SUBSET TaskIds
        /\ \A t \in rows : task[t].status \in Live
    OBVIOUS
  <2>2. Unlocked(s, rows) /\ Statement(s, "locked", rows)
    BY <1>2 DEF DriverCompleteTasks
  <2> HIDE DEF rows
  <2> QED
    BY <2>1, <2>2, StatementKeeps
<1>3. CASE DriverCommit(s)
  <2>1. /\ req[s].rows \in SUBSET TaskIds /\ req[s].by \in Holder
        /\ "assigned" \in TaskStatus /\ "completed" \in TaskStatus
    BY RequestTyped DEF TaskStatus
  <2>2. /\ task' \in [TaskIds -> Row]
        /\ \A o \in Slots \ {s} :
             req[o].pc = "locked" => \A t \in req[o].rows : task'[t].status \in Live
    <3>1. CASE SetTasks(req[s].rows, "assigned", req[s].by)
      BY <2>1, <3>1, SetTasksTyped, BindingSparesLocks DEF IInv
    <3>2. CASE req[s].pc = "locked" /\ CloseTasks(req[s].rows, "completed")
      BY <2>1, <3>2, CloseTasksTyped, ClosingSparesLocks DEF IInv
    <3> QED
      BY <1>3, <3>1, <3>2 DEF DriverCommit
  <2>3. req[s].to \in Status
    BY <1>3, RequestTyped DEF DriverCommit
  <2>4. event' \in [from : Status \cup {"none"}, to : Status \cup {"none"}]
    BY <1>3, RequestTyped DEF DriverCommit, WriteEvent
  <2> QED
    BY <1>3, <2>1, <2>2, <2>3, <2>4, ReplyKeeps DEF DriverCommit
<1> QED
  BY <1>1, <1>2, <1>3

(* Every step of a customer's cancellation keeps IInv. *)
LEMMA CancelKeeps ==
  ASSUME IInv, NEW s \in Slots, CancelTasks(s) \/ CancelCommit(s)
  PROVE  IInv'
<1>1. CASE CancelTasks(s)
  <2> DEFINE rows == {t \in TaskIds : task[t].status \in Live}
  <2>1. Unlocked(s, rows) /\ Statement(s, "locked", rows)
    BY <1>1 DEF CancelTasks
  <2>2. rows \in SUBSET TaskIds /\ \A t \in rows : task[t].status \in Live
    OBVIOUS
  <2> HIDE DEF rows
  <2> QED
    BY <2>1, <2>2, StatementKeeps
<1>2. CASE CancelCommit(s)
  <2>1. req[s].rows \in SUBSET TaskIds /\ "cancelled" \in TaskStatus
    BY RequestTyped DEF TaskStatus
  <2>2. /\ task' \in [TaskIds -> Row]
        /\ \A o \in Slots \ {s} :
             req[o].pc = "locked" => \A t \in req[o].rows : task'[t].status \in Live
    BY <1>2, <2>1, CloseTasksTyped, ClosingSparesLocks DEF CancelCommit, IInv
  <2>3. status' \in Status /\ driver' \in Holder
    BY <1>2 DEF CancelCommit, Status, Holder
  <2>4. event' \in [from : Status \cup {"none"}, to : Status \cup {"none"}]
    BY <1>2, RequestTyped DEF CancelCommit, WriteEvent
  <2> QED
    BY <1>2, <2>2, <2>3, <2>4, ReplyKeeps DEF CancelCommit
<1> QED
  BY <1>1, <1>2

(* Every step of a claim keeps IInv. *)
LEMMA ClaimKeeps ==
  ASSUME IInv, NEW s \in Slots,
         ClaimCommit(s) \/ ClaimOrderRead(s) \/ ClaimOrderCommit(s)
  PROVE  IInv'
<1>1. "delivery_assigned" \in Status /\ "pickup_assigned" \in Status
  BY DEF Status
<1>2. NoEvent \in [from : Status \cup {"none"}, to : Status \cup {"none"}]
  BY DEF NoEvent
<1>3. CASE ClaimCommit(s)
  <2>1. /\ req[s].rows \in SUBSET TaskIds /\ req[s].by \in Holder
        /\ "assigned" \in TaskStatus
    BY RequestTyped DEF TaskStatus
  <2>2. /\ task' \in [TaskIds -> Row]
        /\ \A o \in Slots \ {s} :
             req[o].pc = "locked" => \A t \in req[o].rows : task'[t].status \in Live
    BY <1>3, <2>1, SetTasksTyped, BindingSparesLocks DEF ClaimCommit, IInv
  <2>3. req[s].to \in Status
    BY <1>3, RequestTyped DEF ClaimCommit
  <2>4. event' \in [from : Status \cup {"none"}, to : Status \cup {"none"}]
    BY <1>1, <1>2, <1>3 DEF ClaimCommit
  <2> QED
    BY <1>3, <2>1, <2>2, <2>3, <2>4, ReplyKeeps DEF ClaimCommit
<1>4. CASE ClaimOrderRead(s)
  <2>1. req[s].by \in Holder /\ {} \in SUBSET TaskIds /\ "claim_order" \in Ops
    BY RequestTyped DEF Ops
  <2>2. CASE Accept(s, "claim_order", "delivery_assigned", req[s].by, {})
    BY <1>1, <2>1, <2>2, AcceptKeeps
  <2>3. CASE Reply(s) /\ UNCHANGED <<status, driver, task, event>>
    BY <2>3, ReplyKeeps DEF IInv, TypeOK, LockedAreLive
  <2> QED
    BY <1>4, <2>2, <2>3 DEF ClaimOrderRead
<1>5. CASE ClaimOrderCommit(s)
  <2>1. req[s].by \in Holder
    BY RequestTyped
  <2> QED
    BY <1>1, <1>2, <1>5, <2>1, ReplyKeeps
    DEF ClaimOrderCommit, IInv, TypeOK, LockedAreLive
<1> QED
  BY <1>3, <1>4, <1>5

-----------------------------------------------------------------------------
(* IInv is inductive, in whichever world the behaviour lives. *)
InWorld == world \in Worlds

LEMMA NextIInv == IInv /\ InWorld /\ [Next]_vars => IInv' /\ InWorld'
<1> SUFFICES ASSUME IInv, InWorld, [Next]_vars PROVE IInv' /\ InWorld'
  OBVIOUS
<1>1. ASSUME NEW s \in Slots, Arrive(s) PROVE IInv' /\ InWorld'
  BY <1>1, ArriveKeeps DEF Arrive, InWorld
<1>2. ASSUME NEW s \in Slots, Proceed(s) PROVE IInv' /\ InWorld'
  BY <1>2, WasherKeeps, DriverKeeps, CancelKeeps, ClaimKeeps DEF Proceed, InWorld
<1>3. CASE UNCHANGED vars
  BY <1>3 DEF vars, IInv, TypeOK, TargetsAreStatuses, WasherAsksArrow,
              LocksAreDisjoint, LockedAreLive, InWorld
<1> QED
  BY <1>1, <1>2, <1>3 DEF Next

(* The inductive invariant holds in every reachable state. *)
THEOREM Inductive == Spec => []IInv
<1>1. Init => IInv /\ InWorld
  BY InitIInv DEF Init, InWorld
<1> QED
  BY <1>1, NextIInv, PTL DEF Spec

(* Whatever handlers overlap, the order row, its task rows and the requests *)
(* in flight stay of their types: no handler writes a status the column's   *)
(* enum does not have.                                                      *)
THEOREM TypeCorrect == Spec => []TypeOK
<1>1. IInv => TypeOK
  BY DEF IInv
<1> QED
  BY <1>1, Inductive, PTL

(* For every number of overlapping requests, a washer update that commits   *)
(* moves the row along an arrow of the matrix and raises its stage: the     *)
(* compare-and-set of updateWasherStatus keeps its promise against every    *)
(* other handler.                                                           *)
THEOREM WasherForward == Spec => WasherMovesForward
<1>1. ASSUME IInv, NEW s \in Slots, WasherCommit(s)
      PROVE  isAllowedTransition(status, status') /\ Stage[status] < Stage[status']
  <2>1. isAllowedTransition(status, status')
    BY <1>1 DEF WasherCommit, IInv, WasherAsksArrow
  <2> QED
    BY <2>1, ArrowsRaiseStage
<1>2. IInv /\ [Next]_vars =>
        [\A s \in Slots : WasherCommit(s) =>
           /\ isAllowedTransition(status, status')
           /\ Stage[status] < Stage[status']]_vars
  BY <1>1
<1> QED
  BY <1>2, Inductive, PTL DEF Spec, WasherMovesForward

-----------------------------------------------------------------------------
(* Every step of Next writes driver_tasks in one of three ways.            *)
LEMMA TaskWrites ==
  ASSUME IInv, NEW s \in Slots, Arrive(s) \/ Proceed(s)
  PROVE  \/ UNCHANGED task
         \/ \E st \in {"open", "assigned"}, d \in Holder :
               SetTasks(req[s].rows, st, d)
         \/ req[s].pc = "locked" /\ \E st \in TaskStatus :
               CloseTasks(req[s].rows, st)
<1> Nobody \in Holder /\ req[s].by \in Holder
  BY RequestTyped DEF Holder
<1>1. CASE Arrive(s)
  BY <1>1 DEF Arrive, WasherRead, DriverRead, CancelRead, ClaimPickupRead,
              ClaimDeliveryRead, ClaimOrderFind, Accept
<1>2. CASE WasherReadyCommit(s)
  BY <1>2 DEF WasherReadyCommit
<1>3. CASE DriverCommit(s)
  BY <1>3 DEF DriverCommit, TaskStatus
<1>4. CASE CancelCommit(s)
  BY <1>4 DEF CancelCommit, TaskStatus
<1>5. CASE ClaimCommit(s)
  BY <1>5 DEF ClaimCommit
<1>6. CASE \/ WasherFindDelivery(s) \/ WasherCommit(s) \/ WasherConflict(s)
           \/ DriverFindPickup(s) \/ DriverCompleteTasks(s) \/ CancelTasks(s)
           \/ ClaimOrderRead(s) \/ ClaimOrderCommit(s)
  BY <1>6 DEF WasherFindDelivery, WasherCommit, WasherConflict,
              DriverFindPickup, DriverCompleteTasks, CancelTasks,
              ClaimOrderRead, ClaimOrderCommit, Statement, Accept
<1> QED
  BY <1>1, <1>2, <1>3, <1>4, <1>5, <1>6 DEF Proceed

(* For every number of overlapping requests, a task a driver completed is  *)
(* never turned into a cancelled one by the customer's late cancellation,  *)
(* nor the other way round: closers only touch rows they hold locked.      *)
THEOREM SettledNeverSwaps == Spec => SettledTasksNeverSwap
<1>1. ASSUME IInv, NEW t \in TaskIds, NEW s \in Slots, Arrive(s) \/ Proceed(s)
      PROVE  {task[t].status, task'[t].status} # {"completed", "cancelled"}
  <2>1. CASE UNCHANGED task
    BY <2>1
  <2>2. ASSUME NEW st \in {"open", "assigned"}, NEW d \in Holder,
               SetTasks(req[s].rows, st, d)
        PROVE  task'[t].status \in {task[t].status, "open", "assigned"}
    BY <2>2 DEF SetTasks
  <2>3. ASSUME NEW st \in TaskStatus, req[s].pc = "locked",
               CloseTasks(req[s].rows, st)
        PROVE  task'[t] = task[t] \/ task[t].status \in {"open", "assigned"}
    <3>1. CASE t \in req[s].rows
      BY <2>3, <3>1, <1>1 DEF IInv, LockedAreLive, Live
    <3>2. CASE t \notin req[s].rows
      BY <2>3, <3>2 DEF CloseTasks
    <3> QED
      BY <3>1, <3>2
  <2> QED
    BY <1>1, <2>1, <2>2, <2>3, TaskWrites
<1>2. IInv /\ [Next]_vars =>
        [\A t \in TaskIds :
           {task[t].status, task'[t].status} # {"completed", "cancelled"}]_vars
  BY <1>1 DEF Next
<1> QED
  BY <1>2, Inductive, PTL DEF Spec, SettledTasksNeverSwap

-----------------------------------------------------------------------------
(* One request at a time.  A request that is alone has an up-to-date       *)
(* snapshot until it is answered: Knows is what it relies on.  PickupBound *)
(* is PickupDriverAgrees without its escape: an assigned pickup task has   *)
(* the driver of the order, who is somebody.                               *)

BusyInWorld == \A s \in Slots : ~Idle(s) => s \in world.slots

(* Nothing in flight leads back to pending_pickup, so the order is pending *)
(* only as createOrder left it, its pickup task open.                      *)
NeverPending  == \A s \in Slots : req[s].to # "pending_pickup"
PendingIsOpen == status = "pending_pickup" => task[Pickup].status = "open"

Snapshot(s) == req[s].from = status /\ req[s].held = driver

WasherKnows(s) ==
  /\ Snapshot(s)
  /\ isAllowedTransition(req[s].from, req[s].to)
  /\ req[s].pc = "found" =>
       /\ req[s].to = "ready_for_delivery"
       /\ Pickup \notin req[s].rows
       /\ req[s].rows # {} => \A t \in Deliveries : task[t].status = "none"

DriverKnows(s) ==
  /\ Snapshot(s)
  /\ isAllowedTransition(req[s].from, req[s].to)
  /\ req[s].held # Nobody => req[s].by = req[s].held
  /\ req[s].by \in Drivers
  /\ req[s].pc = "found" => req[s].held = Nobody /\ req[s].rows \subseteq {Pickup}

CancelKnows(s) ==
  /\ Snapshot(s)
  /\ status = "cancelled" \/ isAllowedTransition(status, "cancelled")
  /\ req[s].pc = "locked" => \A t \in TaskIds : task[t].status \in Live => t \in req[s].rows

ClaimKnows(s) ==
  /\ req[s].by \in Drivers
  /\ req[s].op = "claim_pickup" =>
       req[s].rows = {Pickup} /\ task[Pickup].status = "open"
  /\ req[s].op = "claim_delivery" =>
       \E t \in Deliveries : req[s].rows = {t} /\ task[t].status = "open"
  /\ req[s].op = "claim_order" /\ req[s].pc = "read" =>
       status = "ready_for_delivery" /\ driver = Nobody

Knows(s) ==
  /\ req[s].op = "washer" => WasherKnows(s)
  /\ req[s].op = "driver" => DriverKnows(s)
  /\ req[s].op = "cancel" => CancelKnows(s)
  /\ req[s].op \in {"claim_pickup", "claim_delivery", "claim_order"} => ClaimKnows(s)

PickupBound ==
  (/\ task[Pickup].status = "assigned"
   /\ \A t \in Deliveries : task[t].status \in {"none", "open"})
  => driver = task[Pickup].driver /\ driver # Nobody

Alone == Sequential => (PickupBound /\ \A s \in Slots : ~Idle(s) => Knows(s))

SInv ==
  /\ IInv
  /\ InWorld
  /\ BusyInWorld
  /\ NeverPending
  /\ PendingIsOpen
  /\ Alone

(* No arrow of the matrix leads to pending_pickup or leaves cancelled.     *)
LEMMA NoArrowBack ==
  ASSUME NEW from, NEW to, isAllowedTransition(from, to)
  PROVE  to # "pending_pickup" /\ from # "cancelled"
  BY DEF isAllowedTransition

(* In a sequential world nobody is at work besides a request in flight.    *)
LEMMA OneSlot ==
  ASSUME InWorld, Sequential, NEW s \in world.slots, NEW o \in world.slots
  PROVE  s = o
<1>1. IsFiniteSet(world.slots)
  BY ConstantsOK DEF InWorld
<1>2. PICK x : world.slots = {x}
  BY <1>1, FS_Singleton DEF Sequential
<1> QED
  BY <1>2

-----------------------------------------------------------------------------
(* How the three kinds of step keep SInv, IInv given.                      *)

(* A step that writes no row but the request's own.                        *)
LEMMA RequestStep ==
  ASSUME SInv, IInv', NEW s \in Slots,
         \A o \in Slots \ {s} : req'[o] = req[o],
         UNCHANGED <<status, driver, task, world>>,
         s \in world.slots, req'[s].to # "pending_pickup",
         Sequential => Knows(s)'
  PROVE  SInv'
<1> USE DEF SInv
<1>3. (InWorld /\ BusyInWorld /\ NeverPending /\ PendingIsOpen)'
  BY DEF InWorld, BusyInWorld, NeverPending, PendingIsOpen, Idle
<1>4. Alone'
  <2> SUFFICES ASSUME Sequential' PROVE PickupBound' /\ \A o \in Slots : ~Idle(o)' => Knows(o)'
    BY DEF Alone
  <2>1. Sequential
    BY DEF Sequential
  <2>2. PickupBound'
    BY <2>1 DEF Alone, PickupBound
  <2>3. ASSUME NEW o \in Slots, ~Idle(o)' PROVE Knows(o)'
    <3>1. o \in world.slots
      BY <1>3, <2>3 DEF BusyInWorld
    <3>2. o = s
      BY <2>1, <3>1, OneSlot
    <3> QED
      BY <2>1, <3>2
  <2> QED
    BY <2>2, <2>3
<1> QED
  BY <1>3, <1>4

(* An answer, given what it does to PickupBound in a sequential world.     *)
LEMMA AnswerStep ==
  ASSUME SInv, IInv', NEW s \in Slots, Reply(s), ~Idle(s), world' = world,
         \/ UNCHANGED <<status, task>>
         \/ status' # "pending_pickup",
         Sequential => PickupBound'
  PROVE  SInv'
<1> USE DEF SInv
<1>1. req \in [Slots -> Request]
  BY DEF IInv, TypeOK
<1>2. /\ req'[s] = NoRequest
      /\ \A o \in Slots \ {s} : req'[o] = req[o]
      /\ NoRequest.pc = "idle" /\ NoRequest.to # "pending_pickup"
  BY <1>1 DEF Reply, NoRequest
<1>3. (InWorld /\ BusyInWorld /\ NeverPending /\ PendingIsOpen)'
  BY <1>2 DEF InWorld, BusyInWorld, NeverPending, PendingIsOpen, Idle
<1>4. ASSUME Sequential, NEW o \in Slots, ~Idle(o)' PROVE FALSE
  <2>1. o # s /\ ~Idle(o)
    BY <1>2, <1>4 DEF Idle
  <2>2. o \in world.slots /\ s \in world.slots
    BY <2>1 DEF BusyInWorld
  <2> QED
    BY <1>4, <2>1, <2>2, OneSlot
<1>5. Alone'
  BY <1>4 DEF Alone, Sequential
<1> QED
  BY <1>3, <1>5

(* What Accept and Statement write in the slot. *)
LEMMA Accepted ==
  ASSUME IInv, NEW s \in Slots, NEW op, NEW to, NEW d, NEW rows,
         Accept(s, op, to, d, rows)
  PROVE  /\ req'[s].pc = "read" /\ req'[s].op = op /\ req'[s].to = to
         /\ req'[s].from = status /\ req'[s].held = driver
         /\ req'[s].by = d /\ req'[s].rows = rows
         /\ \A o \in Slots \ {s} : req'[o] = req[o]
         /\ UNCHANGED <<status, driver, task>>
  BY DEF IInv, TypeOK, Accept

LEMMA Stated ==
  ASSUME IInv, NEW s \in Slots, NEW pc, NEW rows, Statement(s, pc, rows)
  PROVE  /\ req'[s].pc = pc /\ req'[s].rows = rows
         /\ req'[s].op = req[s].op /\ req'[s].to = req[s].to
         /\ req'[s].from = req[s].from /\ req'[s].held = req[s].held
         /\ req'[s].by = req[s].by
         /\ \A o \in Slots \ {s} : req'[o] = req[o]
         /\ UNCHANGED <<status, driver, task>>
<1>1. req \in [Slots -> Request] /\ req[s] \in Request
  BY DEF IInv, TypeOK
<1>2. req'[s] = [req[s] EXCEPT !.pc = pc, !.rows = rows]
  BY <1>1 DEF Statement
<1> QED
  BY <1>1, <1>2 DEF Statement, Request

(* A request that arrives keeps SInv. *)
LEMMA ArriveKeepsS ==
  ASSUME SInv, IInv', NEW s \in Slots, Arrive(s)
  PROVE  SInv'
<1>1. s \in world.slots /\ world' = world /\ IInv
  BY DEF Arrive, SInv
<1>2. world.drivers \subseteq Drivers /\ Nobody \notin Drivers
  BY ConstantsOK DEF SInv, InWorld
<1>3. ASSUME NEW to, WasherRead(s, to) PROVE SInv'
  <2>1. isAllowedTransition(status, to) /\ Accept(s, "washer", to, Nobody, {})
    BY <1>3 DEF WasherRead
  <2>2. Knows(s)'
    BY <1>1, <2>1, Accepted DEF Knows, WasherKnows, Snapshot
  <2> QED
    BY <1>1, <2>1, <2>2, Accepted, NoArrowBack, RequestStep
<1>4. ASSUME NEW d \in Drivers, NEW ask, DriverRead(s, d, ask) PROVE SInv'
  <2> DEFINE to == DriverTarget(ask)
  <2>1. /\ isAllowedTransition(status, to) /\ Accept(s, "driver", to, d, {})
        /\ driver = Nobody \/ driver = d
    BY <1>4 DEF DriverRead
  <2> HIDE DEF to
  <2>2. Knows(s)'
    BY <1>1, <2>1, Accepted DEF Knows, DriverKnows, Snapshot
  <2> QED
    BY <1>1, <2>1, <2>2, Accepted, NoArrowBack, RequestStep
<1>5. ASSUME CancelRead(s) PROVE SInv'
  <2>1. /\ status = "cancelled" \/ isAllowedTransition(status, "cancelled")
        /\ Accept(s, "cancel", "cancelled", Nobody, {})
    BY <1>5 DEF CancelRead
  <2>2. Knows(s)'
    BY <1>1, <2>1, Accepted DEF Knows, CancelKnows, Snapshot
  <2> QED
    BY <1>1, <2>1, <2>2, Accepted, RequestStep
<1>6. ASSUME NEW d \in Drivers, ClaimPickupRead(s, d) PROVE SInv'
  <2>1. /\ task[Pickup].status = "open"
        /\ Accept(s, "claim_pickup", "pickup_assigned", d, {Pickup})
    BY <1>6 DEF ClaimPickupRead
  <2>2. Knows(s)'
    BY <1>1, <2>1, Accepted DEF Knows, ClaimKnows
  <2> QED
    BY <1>1, <2>1, <2>2, Accepted, RequestStep
<1>7. ASSUME NEW d \in Drivers, NEW t \in Deliveries, ClaimDeliveryRead(s, d, t)
      PROVE  SInv'
  <2>1. /\ task[t].status = "open"
        /\ Accept(s, "claim_delivery", "delivery_assigned", d, {t})
    BY <1>7 DEF ClaimDeliveryRead
  <2>2. Knows(s)'
    BY <1>1, <2>1, Accepted DEF Knows, ClaimKnows
  <2> QED
    BY <1>1, <2>1, <2>2, Accepted, RequestStep
<1>8. ASSUME NEW d \in Drivers, ClaimOrderFind(s, d) PROVE SInv'
  <2>1. /\ req'[s].op = "claim_order" /\ req'[s].pc = "found"
        /\ req'[s].by = d /\ req'[s].to = "none"
        /\ \A o \in Slots \ {s} : req'[o] = req[o]
        /\ UNCHANGED <<status, driver, task>>
    BY <1>1, <1>8 DEF ClaimOrderFind, IInv, TypeOK, NoRequest
  <2>2. Knows(s)'
    BY <2>1 DEF Knows, ClaimKnows
  <2> QED
    BY <1>1, <2>1, <2>2, RequestStep
<1> QED
  BY <1>2, <1>3, <1>4, <1>5, <1>6, <1>7, <1>8 DEF Arrive

(* What a request in flight has, however many there are. *)
LEMMA InFlight ==
  ASSUME SInv, NEW s \in Slots, ~Idle(s)
  PROVE  /\ s \in world.slots /\ IInv
         /\ req[s].to # "pending_pickup"
         /\ Sequential => Knows(s) /\ PickupBound
  BY DEF SInv, BusyInWorld, NeverPending, Alone

(* Its statement keeps SInv: a search or lock of task rows, or the read of *)
(* claimDeliveryByOrderId.                                                 *)
LEMMA StatementKeepsS ==
  ASSUME SInv, IInv', NEW s \in Slots, world' = world,
         \/ WasherFindDelivery(s) \/ DriverFindPickup(s)
         \/ DriverCompleteTasks(s) \/ CancelTasks(s) \/ ClaimOrderRead(s)
  PROVE  SInv'
<1>1. ~Idle(s)
  BY DEF WasherFindDelivery, DriverFindPickup, DriverCompleteTasks, CancelTasks,
         ClaimOrderRead, Idle
<1>2. /\ s \in world.slots /\ IInv /\ req[s].to # "pending_pickup"
      /\ Sequential => Knows(s)
  BY <1>1, InFlight
<1>3. CASE WasherFindDelivery(s)
  <2> DEFINE rows == IF \E t \in Deliveries : task[t].status # "none" THEN {} ELSE {s}
  <2>1. /\ Statement(s, "found", rows)
        /\ req[s].op = "washer" /\ req[s].to = "ready_for_delivery"
    BY <1>3 DEF WasherFindDelivery
  <2>2. /\ Pickup \notin rows
        /\ rows # {} => \A t \in Deliveries : task[t].status = "none"
    BY ConstantsOK
  <2> HIDE DEF rows
  <2>3. Sequential => Knows(s)'
    BY <1>2, <2>1, <2>2, Stated DEF Knows, WasherKnows, Snapshot
  <2> QED
    BY <1>2, <2>1, <2>3, Stated, RequestStep
<1>4. CASE DriverFindPickup(s)
  <2> DEFINE rows == IF task[Pickup].status = "open" THEN {Pickup} ELSE {}
  <2>1. /\ Statement(s, "found", rows) /\ rows \subseteq {Pickup}
        /\ req[s].op = "driver" /\ req[s].held = Nobody
    BY <1>4 DEF DriverFindPickup, ClaimsPickup
  <2> HIDE DEF rows
  <2>2. Sequential => Knows(s)'
    BY <1>2, <2>1, Stated DEF Knows, DriverKnows, Snapshot
  <2> QED
    BY <1>2, <2>1, <2>2, Stated, RequestStep
<1>5. CASE DriverCompleteTasks(s)
  <2>1. PICK rows : Statement(s, "locked", rows) /\ req[s].op = "driver"
    BY <1>5 DEF DriverCompleteTasks
  <2>2. Sequential => Knows(s)'
    BY <1>2, <2>1, Stated DEF Knows, DriverKnows, Snapshot
  <2> QED
    BY <1>2, <2>1, <2>2, Stated, RequestStep
<1>6. CASE CancelTasks(s)
  <2> DEFINE rows == {t \in TaskIds : task[t].status \in Live}
  <2>1. /\ Statement(s, "locked", rows) /\ req[s].op = "cancel"
        /\ \A t \in TaskIds : task[t].status \in Live => t \in rows
    BY <1>6 DEF CancelTasks
  <2> HIDE DEF rows
  <2>2. Sequential => Knows(s)'
    BY <1>2, <2>1, Stated DEF Knows, CancelKnows, Snapshot
  <2> QED
    BY <1>2, <2>1, <2>2, Stated, RequestStep
<1>7. CASE ClaimOrderRead(s)
  <2>1. CASE /\ driver = Nobody /\ status = "ready_for_delivery"
             /\ Accept(s, "claim_order", "delivery_assigned", req[s].by, {})
    <3>1. Sequential => Knows(s)'
      BY <1>2, <1>7, <2>1, Accepted DEF ClaimOrderRead, Knows, ClaimKnows
    <3> QED
      BY <1>2, <2>1, <3>1, Accepted, RequestStep
  <2>2. CASE Reply(s) /\ UNCHANGED <<status, driver, task>>
    <3>1. Sequential => PickupBound'
      BY <1>1, <2>2, InFlight DEF PickupBound
    <3> QED
      BY <1>1, <2>2, <3>1, AnswerStep
  <2> QED
    BY <1>7, <2>1, <2>2 DEF ClaimOrderRead
<1> QED
  BY <1>3, <1>4, <1>5, <1>6, <1>7

(* Its answer keeps SInv. *)
LEMMA AnswerKeepsS ==
  ASSUME SInv, IInv', NEW s \in Slots, world' = world,
         \/ WasherReadyCommit(s) \/ WasherCommit(s) \/ WasherConflict(s)
         \/ DriverCommit(s) \/ CancelCommit(s) \/ ClaimCommit(s)
         \/ ClaimOrderCommit(s)
  PROVE  SInv'
<1>1. ~Idle(s) /\ Reply(s)
  BY DEF WasherReadyCommit, WasherCommit, WasherConflict, DriverCommit,
         CancelCommit, ClaimCommit, ClaimOrderCommit, Idle
<1>2. /\ IInv /\ req[s].to # "pending_pickup"
      /\ Sequential => Knows(s) /\ PickupBound
  BY <1>1, InFlight
<1>3. UNCHANGED <<status, task>> \/ status' # "pending_pickup"
  BY <1>2 DEF WasherReadyCommit, WasherCommit, WasherConflict, DriverCommit,
              CancelCommit, ClaimCommit, ClaimOrderCommit
<1>4. ASSUME Sequential PROVE PickupBound'
  <2>1. /\ Knows(s) /\ PickupBound
        /\ Pickup \in TaskIds /\ Deliveries \subseteq TaskIds
        /\ Pickup \notin Deliveries /\ Nobody \notin Drivers
    BY <1>2, <1>4, ConstantsOK DEF TaskIds, Deliveries
  <2>2. CASE WasherReadyCommit(s)
    <3>1. /\ SetTasks(req[s].rows, "open", Nobody) /\ driver' = driver
          /\ Pickup \notin req[s].rows
          /\ req[s].rows # {} => \A t \in Deliveries : task[t].status = "none"
      BY <2>1, <2>2 DEF WasherReadyCommit, Knows, WasherKnows
    <3>2. task'[Pickup] = task[Pickup]
      BY <2>1, <3>1 DEF SetTasks
    <3>3. ASSUME \A t \in Deliveries : task'[t].status \in {"none", "open"}
          PROVE  \A t \in Deliveries : task[t].status \in {"none", "open"}
      BY <2>1, <3>1, <3>3 DEF SetTasks
    <3> QED
      BY <2>1, <3>1, <3>2, <3>3 DEF PickupBound
  <2>3. CASE WasherCommit(s) \/ WasherConflict(s)
    BY <2>1, <2>3 DEF WasherCommit, WasherConflict, PickupBound
  <2>4. CASE DriverCommit(s)
    <3>1. /\ driver' = req[s].by /\ req[s].by \in Drivers /\ req[s].held = driver
          /\ driver # Nobody => req[s].by = driver
      BY <2>1, <2>4 DEF DriverCommit, Knows, DriverKnows, Snapshot
    <3>2. CASE /\ req[s].pc = "found"
               /\ SetTasks(req[s].rows, "assigned", req[s].by)
      <4>1. req[s].held = Nobody /\ req[s].rows \subseteq {Pickup}
        BY <2>1, <2>4, <3>2 DEF DriverCommit, Knows, DriverKnows
      <4>2. CASE Pickup \in req[s].rows
        BY <2>1, <3>1, <3>2, <4>2 DEF SetTasks, PickupBound
      <4>3. CASE req[s].rows = {}
        <5>1. \A t \in TaskIds : task'[t] = task[t]
          BY <3>2, <4>3 DEF SetTasks
        <5> QED
          BY <2>1, <3>1, <4>1, <5>1 DEF PickupBound
      <4> QED
        BY <4>1, <4>2, <4>3
    <3>3. CASE CloseTasks(req[s].rows, "completed")
      <4>1. \A t \in TaskIds :
              task'[t].status = "completed" \/ task'[t] = task[t]
        BY <1>2, <3>3 DEF CloseTasks, IInv, TypeOK, Row
      <4> QED
        BY <2>1, <3>1, <4>1 DEF PickupBound
    <3> QED
      BY <2>4, <3>2, <3>3 DEF DriverCommit
  <2>5. CASE CancelCommit(s)
    <3>1. /\ CloseTasks(req[s].rows, "cancelled")
          /\ task[Pickup].status \in Live => Pickup \in req[s].rows
      BY <2>1, <2>5 DEF CancelCommit, Knows, CancelKnows
    <3>2. task'[Pickup].status # "assigned"
      BY <1>2, <2>1, <3>1 DEF CloseTasks, Live, IInv, TypeOK, Row
    <3> QED
      BY <3>2 DEF PickupBound
  <2>6. CASE ClaimCommit(s)
    <3>1. /\ SetTasks(req[s].rows, "assigned", req[s].by)
          /\ driver' = req[s].by /\ req[s].by \in Drivers
          /\ \/ req[s].rows = {Pickup}
             \/ \E t \in Deliveries : req[s].rows = {t}
      BY <2>1, <2>6 DEF ClaimCommit, Knows, ClaimKnows
    <3> QED
      BY <2>1, <3>1 DEF SetTasks, PickupBound
  <2>7. CASE ClaimOrderCommit(s)
    BY <2>1, <2>7 DEF ClaimOrderCommit, Knows, ClaimKnows, PickupBound
  <2> QED
    BY <2>2, <2>3, <2>4, <2>5, <2>6, <2>7
<1> QED
  BY <1>1, <1>3, <1>4, AnswerStep

LEMMA InitSInv == Init => SInv
<1> SUFFICES ASSUME Init PROVE SInv
  OBVIOUS
<1>1. \A s \in Slots : req[s] = NoRequest
  BY DEF Init
<1>2. NoRequest.pc = "idle" /\ NoRequest.to # "pending_pickup"
  BY DEF NoRequest
<1>3. task[Pickup].status = "open"
  BY DEF Init, TaskIds
<1>4. InWorld
  BY DEF Init, InWorld
<1> QED
  BY <1>1, <1>2, <1>3, <1>4, InitIInv
  DEF SInv, BusyInWorld, NeverPending, PendingIsOpen, Alone, PickupBound, Idle

LEMMA NextSInv == SInv /\ [Next]_vars => SInv'
<1> SUFFICES ASSUME SInv, [Next]_vars PROVE SInv'
  OBVIOUS
<1>1. IInv'
  BY NextIInv DEF SInv
<1>2. ASSUME NEW s \in Slots, Arrive(s) PROVE SInv'
  BY <1>1, <1>2, ArriveKeepsS
<1>3. ASSUME NEW s \in Slots, Proceed(s) PROVE SInv'
  BY <1>1, <1>3, StatementKeepsS, AnswerKeepsS DEF Proceed
<1>4. CASE UNCHANGED vars
  <2>1. (InWorld /\ BusyInWorld /\ NeverPending /\ PendingIsOpen)'
    BY <1>4 DEF vars, SInv, InWorld, BusyInWorld, NeverPending, PendingIsOpen, Idle
  <2>2. \A s \in Slots : Knows(s)' = Knows(s) /\ Idle(s)' = Idle(s)
    BY <1>4 DEF vars, Knows, WasherKnows, DriverKnows, CancelKnows, ClaimKnows,
                Snapshot, Idle
  <2>3. PickupBound' = PickupBound /\ Sequential' = Sequential
    BY <1>4 DEF vars, PickupBound, Sequential
  <2>4. Alone'
    BY <2>2, <2>3 DEF SInv, Alone
  <2> QED
    BY <1>1, <2>1, <2>4 DEF SInv
<1> QED
  BY <1>2, <1>3, <1>4 DEF Next

(* With one request at a time, a request in flight knows what is there and *)
(* the pickup task names the order's driver; and whatever overlaps, nothing*)
(* leads back to pending.                                                  *)
THEOREM SequentialInductive == Spec => []SInv
  BY InitSInv, NextSInv, PTL DEF Spec

(* However many drivers there are: with one request at a time, the order   *)
(* and its claimed pickup task name the same driver until a delivery is    *)
(* claimed.                                                                *)
THEOREM SameDriver == Spec => []PickupDriverAgrees
<1>1. SInv => PickupDriverAgrees
  BY DEF SInv, Alone, PickupBound, PickupDriverAgrees
<1> QED
  BY <1>1, SequentialInductive, PTL

(* However many requests overlap, an order that is not cancelled is on one *)
(* of the laundry's lists, a pending one is open to every driver, a ready  *)
(* one is offered or held; and with one request at a time, who claimed the *)
(* pickup task sees the order on the list of his pickups.                  *)
THEOREM AlwaysInSight == Spec => []InSight
<1>1. ASSUME SInv PROVE InSight
  <2>1. status \in Status /\ driver \in Drivers \cup {Nobody}
    BY <1>1 DEF SInv, IInv, TypeOK, Holder
  <2>2. status # "cancelled" => \E list \in LaundryLists : status \in list
    <3>1. status # "cancelled" =>
            \/ status \in ordersAwaitingDriverPickup \/ status \in ordersToSort
            \/ status \in ordersSortedAwaitingPayment \/ status \in ordersInWash
            \/ status \in ordersAwaitingDelivery \/ status \in ordersCompleted
      BY <2>1 DEF Status, ordersAwaitingDriverPickup, ordersToSort, ordersInWash,
             ordersSortedAwaitingPayment, ordersAwaitingDelivery, ordersCompleted
    <3> QED
      BY <3>1 DEF LaundryLists
  <2>3. status = "pending_pickup" => availablePickup /\ task[Pickup].status = "open"
    BY <1>1 DEF SInv, PendingIsOpen, availablePickup
  <2>4. status = "ready_for_delivery" =>
          availableDelivery \/ \E d \in Drivers : activeOrders(d, "delivery")
    BY <2>1 DEF availableDelivery, activeOrders, DRIVER_ACTIVE_DELIVERY_STATUSES
  <2>5. \A d \in Drivers : deliveryCart(d) => activeOrders(d, "all")
    BY DEF deliveryCart, activeOrders, DRIVER_ACTIVE_DELIVERY_STATUSES
  <2>6. ASSUME Sequential, task[Pickup].status = "assigned",
               \A t \in Deliveries : task[t].status \in {"none", "open"},
               status \in CUSTOMER_CANCELABLE_STATUSES
        PROVE  activeOrders(task[Pickup].driver, "pickup")
    <3>1. driver = task[Pickup].driver
      BY <1>1, <2>6 DEF SInv, Alone, PickupBound
    <3>2. status \in DRIVER_ACTIVE_PICKUP_STATUSES
      BY <2>3, <2>6 DEF CUSTOMER_CANCELABLE_STATUSES, DRIVER_ACTIVE_PICKUP_STATUSES
    <3> QED
      BY <3>1, <3>2 DEF activeOrders
  <2> QED
    BY <2>2, <2>3, <2>4, <2>5, <2>6 DEF InSight
<1> QED
  BY <1>1, SequentialInductive, PTL

-----------------------------------------------------------------------------
(* How a step changes the status in a sequential world. *)
LEMMA StatusWrites ==
  ASSUME SInv, Sequential, NEW s \in Slots, Arrive(s) \/ Proceed(s)
  PROVE  \/ status' = status
         \/ isAllowedTransition(status, status')
         \/ ClaimCommit(s) /\ ~NoLiveTask
<1>1. CASE Arrive(s)
  BY <1>1 DEF Arrive, WasherRead, DriverRead, CancelRead, ClaimPickupRead,
              ClaimDeliveryRead, ClaimOrderFind, Accept
<1>2. CASE \/ WasherFindDelivery(s) \/ WasherConflict(s) \/ DriverFindPickup(s)
           \/ DriverCompleteTasks(s) \/ CancelTasks(s) \/ ClaimOrderRead(s)
  BY <1>2 DEF WasherFindDelivery, WasherConflict, DriverFindPickup,
              DriverCompleteTasks, CancelTasks, ClaimOrderRead, Statement, Accept
<1>3. CASE WasherReadyCommit(s) \/ WasherCommit(s)
  <2>1. Knows(s) /\ req[s].op = "washer"
    BY <1>3, InFlight DEF WasherReadyCommit, WasherCommit, Idle
  <2> QED
    BY <1>3, <2>1 DEF WasherReadyCommit, WasherCommit, Knows, WasherKnows, Snapshot
<1>4. CASE DriverCommit(s)
  <2>1. Knows(s) /\ req[s].op = "driver"
    BY <1>4, InFlight DEF DriverCommit, Idle
  <2> QED
    BY <1>4, <2>1 DEF DriverCommit, Knows, DriverKnows, Snapshot
<1>5. CASE CancelCommit(s)
  <2>1. Knows(s) /\ req[s].op = "cancel"
    BY <1>5, InFlight DEF CancelCommit, Idle
  <2> QED
    BY <1>5, <2>1 DEF CancelCommit, Knows, CancelKnows
<1>6. CASE ClaimCommit(s)
  <2>1. Knows(s) /\ req[s].op \in {"claim_pickup", "claim_delivery"}
    BY <1>6, InFlight DEF ClaimCommit, Idle
  <2>2. \E t \in TaskIds : task[t].status = "open"
    BY <2>1 DEF Knows, ClaimKnows, TaskIds, Deliveries
  <2> QED
    BY <1>6, <2>2 DEF NoLiveTask, Live
<1>7. CASE ClaimOrderCommit(s)
  <2>1. status = "ready_for_delivery" /\ status' = "delivery_assigned"
    BY <1>7, InFlight DEF ClaimOrderCommit, Idle, Knows, ClaimKnows
  <2> QED
    BY <2>1 DEF isAllowedTransition
<1> QED
  BY <1>1, <1>2, <1>3, <1>4, <1>5, <1>6, <1>7 DEF Proceed

(* With one request at a time, an order cancelled together with its tasks  *)
(* never comes back, whoever asks for what.                                *)
THEOREM CancelledForGood == Spec => CleanCancelIsFinal
<1>1. SInv /\ [Next]_vars =>
        [(Sequential /\ status = "cancelled" /\ NoLiveTask)
           => status' = "cancelled"]_vars
  BY StatusWrites, NoArrowBack DEF Next
<1> QED
  BY <1>1, SequentialInductive, PTL DEF Spec, CleanCancelIsFinal

(* With one request at a time, only claims, which never look at the status *)
(* of the order, move it off the matrix.                                   *)
THEOREM OffMatrixByClaim == Spec => OnlyClaimsLeaveMatrix
<1>1. SInv /\ [Next]_vars =>
        [(Sequential /\ status' # status) =>
           \/ isAllowedTransition(status, status')
           \/ \E s \in Slots : ClaimCommit(s)]_vars
  BY StatusWrites DEF Next
<1> QED
  BY <1>1, SequentialInductive, PTL DEF Spec, OnlyClaimsLeaveMatrix
=============================================================================
