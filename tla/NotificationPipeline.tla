------------------------ MODULE NotificationPipeline ------------------------
(***************************************************************************)
(* Staff-invitation notifications, from the outbox row to the push:        *)
(*   - the dispatcher (notification-outbox.dispatcher.js and .repository)  *)
(*     claims pending rows under a lease, adds a BullMQ job for each and   *)
(*     marks the row queued;                                               *)
(*   - a slot of notification.worker.js runs the job: processEvent of      *)
(*     notification-delivery.service.js claims the queued row, writes the  *)
(*     inbox and the delivery rows, sends them in batches and settles the  *)
(*     row, releasing it for a retry when failures may pass.               *)
(* BullMQ and Firebase are external.  Time is left out: a lease expires    *)
(* and a delayed job runs whenever it may; delays between attempts are     *)
(* any.  Everything that may go wrong draws on one budget, MaxFaults.      *)
(***************************************************************************)
EXTENDS Naturals, FiniteSets

CONSTANTS
  Events,        \* outbox rows, pending at first
  Dispatchers,   \* processes that run the dispatcher loop
  Slots,         \* jobs the worker processes may run at a time
  Instance,      \* worker id of each slot; slots of one process share it
  Nobody,        \* claimedBy = null; no event
  Devices,
  Recipient,     \* the active devices of each event's recipient: staff
                 \*   invitations have one at most
  Token,         \* fcmToken of each device; devices may share one
  BatchSize,     \* targets sent at a time (500)
  MaxAttempts,   \* attempts of a job (5)
  MaxFaults,     \* bound: crashes, stalls, lost leases, errors
  Wirings        \* how the worker calls processEvent

Ids    == {Instance[w] : w \in Slots} \cup Dispatchers
Tokens == {Token[d] : d \in Devices}

ASSUME ConstantsOK ==
  /\ Nobody \notin Events \cup Ids \cup Slots
  /\ IsFiniteSet(Devices)
  /\ Recipient \in [Events -> SUBSET Devices]
  /\ {BatchSize, MaxAttempts} \subseteq Nat \ {0}
  /\ MaxFaults \in Nat
  /\ Wirings \subseteq {"worker", "documented"}
  /\ \A w \in Slots : Instance[w] \notin Dispatchers

VARIABLES
  wiring,     \* which of Wirings this system has; never changes
  outbox,     \* NotificationOutboxEvent rows: status, claimedBy, lease
  job,        \* the BullMQ job of each event
  disp,       \* what each dispatcher's cycle is doing
  work,       \* what each slot is doing
  delivery,   \* NotificationDelivery.status (with errorClass) by event, device
  valid,      \* whether UserDevice.tokenStatus is active
  pushed,     \* how often Firebase accepted an event for a token
  faults      \* how many faults there have been

vars == <<wiring, outbox, job, disp, work, delivery, valid, pushed, faults>>

Final   == {"completed", "partial", "failed", "skipped"}
Outcome == {"sent", "transient", "permanent", "invalid_device"}
Ended   == {"completed", "failed"}

Unclaimed(st) == [st |-> st, by |-> Nobody, lease |-> "none"]
IdleCycle     == [pc |-> "idle", ev |-> Nobody, todo |-> {}]
IdleSlot      == [pc |-> "idle", ev |-> Nobody, last |-> FALSE,
                  targets |-> {}, sent |-> {}]

Row   == [st : {"pending", "queued", "processing"} \cup Final,
          by : Ids \cup {Nobody}, lease : {"none", "live", "expired"}]
Job   == [st : {"none", "waiting", "active"} \cup Ended,
          made : 0..MaxAttempts, slot : Slots \cup {Nobody}]
Cycle == [pc : {"idle", "dispatch", "mark", "record", "release"},
          ev : Events \cup {Nobody}, todo : SUBSET Events]
Work  == [pc : {"idle", "started", "claimed", "sending", "saving"},
          ev : Events \cup {Nobody}, last : BOOLEAN, targets : SUBSET Devices,
          sent : SUBSET (Devices \X Outcome)]

TypeOK ==
  /\ wiring \in Wirings
  /\ outbox \in [Events -> Row]
  /\ job \in [Events -> Job]
  /\ disp \in [Dispatchers -> Cycle]
  /\ work \in [Slots -> Work]
  /\ delivery \in [Events \X Devices -> {"none", "pending", "skipped"} \cup Outcome]
  /\ valid \in [Devices -> BOOLEAN]
  /\ pushed \in [Events \X Tokens -> Nat]
  /\ faults \in 0..MaxFaults

Init ==
  /\ wiring \in Wirings
  /\ outbox = [e \in Events |-> Unclaimed("pending")]
  /\ job = [e \in Events |-> [st |-> "none", made |-> 0, slot |-> Nobody]]
  /\ disp = [p \in Dispatchers |-> IdleCycle]
  /\ work = [w \in Slots |-> IdleSlot]
  /\ delivery = [x \in Events \X Devices |-> "none"]
  /\ valid = [d \in Devices |-> TRUE]
  /\ pushed = [x \in Events \X Tokens |-> 0]
  /\ faults = 0

Fault == faults < MaxFaults /\ faults' = faults + 1

-----------------------------------------------------------------------------
(* The dispatcher's cycle, runOnce. *)

Holds(p, e) == outbox[e].st = "pending" /\ outbox[e].by = p

Claimable_Bug(e) ==  \* a claim is for ever: its expiry is not looked at
  outbox[e].st = "pending" /\ outbox[e].lease = "none"

Claimable(e) == outbox[e].st = "pending" /\ outbox[e].lease # "live"

(* claimPendingEvents, one UPDATE: of the claimable rows those within the  *)
(* limit that no other dispatcher's UPDATE holds locked (SKIP LOCKED).     *)
ClaimPending(p) ==
  \E es \in SUBSET {e \in Events : Claimable(e)} :
    /\ disp[p].pc = "idle" /\ es # {}
    /\ outbox' = [e \in Events |->
         IF e \in es THEN [st |-> "pending", by |-> p, lease |-> "live"]
         ELSE outbox[e]]
    /\ disp' = [disp EXCEPT ![p] = [pc |-> "dispatch", ev |-> Nobody, todo |-> es]]
    /\ UNCHANGED <<wiring, job, work, delivery, valid, pushed, faults>>

AddJob(e) == IF job[e].st = "none" THEN [job EXCEPT ![e].st = "waiting"] ELSE job

(* enqueueOutboxEvent: a job id that exists is kept as it is. *)
Enqueue(p, e) ==
  /\ disp[p].pc = "dispatch" /\ e \in disp[p].todo
  /\ job' = AddJob(e)
  /\ disp' = [disp EXCEPT ![p].pc = "mark", ![p].ev = e]
  /\ UNCHANGED <<wiring, outbox, work, delivery, valid, pushed, faults>>

(* The rest of the batch, or the end of the cycle. *)
GoOn(p, pc) ==
  LET rest == disp[p].todo \ {disp[p].ev} IN
  disp' = [disp EXCEPT ![p] =
             IF rest = {} THEN IdleCycle
             ELSE [pc |-> pc, ev |-> Nobody, todo |-> rest]]

(* markAsQueued: only under the claim; otherwise its error is logged. *)
MarkAsQueued(p) ==
  LET e == disp[p].ev IN
  /\ disp[p].pc = "mark"
  /\ outbox' = IF Holds(p, e) THEN [outbox EXCEPT ![e] = Unclaimed("queued")]
               ELSE outbox
  /\ GoOn(p, "dispatch")
  /\ UNCHANGED <<wiring, job, work, delivery, valid, pushed, faults>>

(* That UPDATE, or the one below, fails: its error is logged. *)
WriteFails(p) ==
  /\ disp[p].pc \in {"mark", "record"}
  /\ Fault
  /\ GoOn(p, IF disp[p].pc = "mark" THEN "dispatch" ELSE "release")
  /\ UNCHANGED <<wiring, outbox, job, work, delivery, valid, pushed>>

(* Redis fails, before or after it took the job: the circuit breaker. *)
EnqueueFails(p, e) ==
  /\ disp[p].pc = "dispatch" /\ e \in disp[p].todo
  /\ Fault
  /\ job' \in {job, AddJob(e)}
  /\ disp' = [disp EXCEPT ![p].pc = "record", ![p].ev = e]
  /\ UNCHANGED <<wiring, outbox, work, delivery, valid, pushed>>

Unclaim(p, es) ==
  outbox' = [e \in Events |-> IF e \in es /\ Holds(p, e) THEN Unclaimed("pending")
                              ELSE outbox[e]]

(* recordDispatchFailure: the claim is given up, the next attempt later. *)
RecordFailure(p) ==
  /\ disp[p].pc = "record"
  /\ Unclaim(p, {disp[p].ev})
  /\ GoOn(p, "release")
  /\ UNCHANGED <<wiring, job, work, delivery, valid, pushed, faults>>

(* releaseClaims of what the circuit breaker left unstarted. *)
ReleaseClaims(p) ==
  /\ disp[p].pc = "release"
  /\ Unclaim(p, disp[p].todo)
  /\ disp' = [disp EXCEPT ![p] = IdleCycle]
  /\ UNCHANGED <<wiring, job, work, delivery, valid, pushed, faults>>

DispatcherDies(p) ==
  /\ disp[p].pc # "idle"
  /\ Fault
  /\ disp' = [disp EXCEPT ![p] = IdleCycle]
  /\ UNCHANGED <<wiring, outbox, job, work, delivery, valid, pushed>>

(* A lease of sixty seconds outlives a cycle; one that does not is a fault. *)
LeaseExpires(e, slow) ==
  /\ outbox[e].st = "pending" /\ outbox[e].lease = "live"
  /\ slow = (\E p \in Dispatchers : e \in disp[p].todo /\ Holds(p, e))
  /\ IF slow THEN Fault ELSE UNCHANGED faults
  /\ outbox' = [outbox EXCEPT ![e].lease = "expired"]
  /\ UNCHANGED <<wiring, job, disp, work, delivery, valid, pushed>>

-----------------------------------------------------------------------------
(* The worker: one slot runs one job.                                      *)

(* BullMQ hands out a waiting job; the attempt may be its last. *)
StartJob(w, e) ==
  /\ work[w].pc = "idle" /\ job[e].st = "waiting"
  /\ job' = [job EXCEPT ![e] = [@ EXCEPT !.st = "active", !.slot = w]]
  /\ work' = [work EXCEPT ![w] =
       [pc |-> "started", ev |-> e, last |-> (job[e].made + 1 >= MaxAttempts),
        targets |-> {}, sent |-> {}]]
  /\ UNCHANGED <<wiring, outbox, disp, delivery, valid, pushed, faults>>

At(w, pc) == work[w].pc = pc

(* BullMQ takes a slot's word for a job only while the slot has its lock. *)
Finish(w, st) ==
  LET e == work[w].ev IN
  /\ job' = IF job[e].slot = w
            THEN [job EXCEPT ![e] = [@ EXCEPT !.st = st, !.slot = Nobody]] ELSE job
  /\ work' = [work EXCEPT ![w] = IdleSlot]

Retry(w) ==
  LET e == work[w].ev
      made == job[e].made + 1
  IN /\ job' = IF job[e].slot = w
               THEN [job EXCEPT ![e] =
                       [st |-> IF made < MaxAttempts THEN "waiting" ELSE "failed",
                        made |-> made, slot |-> Nobody]]
               ELSE job
     /\ work' = [work EXCEPT ![w] = IdleSlot]

(* notification.worker.js passes the event's id where processEvent takes   *)
(* an object and its own context where it takes the dependencies: there is *)
(* no firebaseProvider, and the permanent error ends the job unrecovered.  *)
MisCall(w) ==
  /\ At(w, "started") /\ wiring = "worker"
  /\ Finish(w, "failed")
  /\ UNCHANGED <<wiring, outbox, disp, delivery, valid, pushed, faults>>

ClaimQueued_Bug(w) ==  \* an abandoned processing row is claimed again
  LET e == work[w].ev IN
  /\ At(w, "started") /\ wiring = "documented"
  /\ outbox[e].st \in {"queued", "processing"}
  /\ outbox' = [outbox EXCEPT ![e] =
       [st |-> "processing", by |-> Instance[w], lease |-> "live"]]
  /\ work' = [work EXCEPT ![w].pc = "claimed"]
  /\ UNCHANGED <<wiring, job, disp, delivery, valid, pushed, faults>>

(* claimQueuedEvent.  A queued row has no lease, and the lease of a        *)
(* processing row is renewed but never looked at, so it stays "live".      *)
ClaimQueued(w) ==
  LET e == work[w].ev IN
  /\ At(w, "started") /\ wiring = "documented"
  /\ outbox[e].st = "queued"
  /\ outbox' = [outbox EXCEPT ![e] =
       [st |-> "processing", by |-> Instance[w], lease |-> "live"]]
  /\ work' = [work EXCEPT ![w].pc = "claimed"]
  /\ UNCHANGED <<wiring, job, disp, delivery, valid, pushed, faults>>

(* The row is not queued, for whatever reason: the job is done. *)
ClaimRefused(w) ==
  /\ At(w, "started") /\ wiring = "documented"
  /\ outbox[work[w].ev].st # "queued"
  /\ Finish(w, "completed")
  /\ UNCHANGED <<wiring, outbox, disp, delivery, valid, pushed, faults>>

(* completeEvent, markEventPartial, failEvent, skipEvent, releaseForRetry. *)
Settle(w, st) ==
  LET e == work[w].ev IN
  outbox' = IF outbox[e].st = "processing" /\ outbox[e].by = Instance[w]
            THEN [outbox EXCEPT ![e] = Unclaimed(st)] ELSE outbox

(* The invitation is gone or over, or nobody is to be told: skipped.  An   *)
(* event type or version the registry does not have: failed.               *)
Refuse(w) ==
  /\ At(w, "claimed")
  /\ \/ Settle(w, "skipped") /\ Finish(w, "completed")
     \/ Settle(w, "failed") /\ Finish(w, "failed")
  /\ UNCHANGED <<wiring, disp, delivery, valid, pushed, faults>>

Retriable == {"none", "pending", "transient"}

Prepare_Bug(w) ==  \* every device again, whatever became of it
  LET e == work[w].ev
      targets == {d \in Recipient[e] : valid[d]}
  IN /\ At(w, "claimed")
     /\ delivery' = [x \in Events \X Devices |->
          IF x[1] = e /\ x[2] \in targets THEN "pending" ELSE delivery[x]]
     /\ work' = [work EXCEPT ![w] = [@ EXCEPT !.pc = "sending", !.targets = targets]]
     /\ UNCHANGED <<wiring, outbox, job, disp, valid, pushed, faults>>

(* One transaction: of the devices that share a token one is primary (the  *)
(* SELECT has no order) and the others are skipped unless they have a row; *)
(* a primary is a target unless it was settled by an earlier attempt.      *)
Prepare(w) ==
  LET e == work[w].ev
      active == {d \in Recipient[e] : valid[d]}
  IN /\ At(w, "claimed")
     /\ \E primary \in SUBSET active :
          LET targets == {d \in primary : delivery[<<e, d>>] \in Retriable} IN
          /\ \A d \in active : \E q \in primary : Token[q] = Token[d]
          /\ \A d, q \in primary : Token[d] = Token[q] => d = q
          /\ delivery' = [x \in Events \X Devices |->
               IF x[1] # e THEN delivery[x]
               ELSE IF x[2] \in targets THEN "pending"
               ELSE IF x[2] \in active \ primary /\ delivery[x] = "none" THEN "skipped"
               ELSE delivery[x]]
          /\ work' = [work EXCEPT ![w] =
               [@ EXCEPT !.pc = "sending", !.targets = targets]]
     /\ UNCHANGED <<wiring, outbox, job, disp, valid, pushed, faults>>

(* A batch goes to Firebase, which answers for each target.  The lease is  *)
(* renewed before and after; OneOwner shows that it is never lost.         *)
SendBatch(w) ==
  LET e == work[w].ev IN
  /\ At(w, "sending") /\ work[w].targets # {}
  /\ \E batch \in SUBSET work[w].targets :
       /\ batch # {} /\ Cardinality(batch) <= BatchSize
       /\ batch = work[w].targets \/ Cardinality(batch) = BatchSize
       /\ \E answer \in [batch -> Outcome] :
            /\ pushed' = [x \in Events \X Tokens |-> pushed[x] +
                 Cardinality({d \in batch : <<e, Token[d]>> = x /\ answer[d] = "sent"})]
            /\ work' = [work EXCEPT ![w] =
                 [@ EXCEPT !.pc = "saving", !.sent = {<<d, answer[d]>> : d \in batch}]]
  /\ UNCHANGED <<wiring, outbox, job, disp, delivery, valid, faults>>

(* The slot has one result less to save. *)
Saved(w, d, o) ==
  LET rest == work[w].sent \ {<<d, o>>} IN
  work' = [work EXCEPT ![w] =
    [@ EXCEPT !.pc = IF rest = {} THEN "sending" ELSE "saving",
              !.sent = rest, !.targets = work[w].targets \ {d}]]

(* The results are saved one by one; an invalid token is marked so. *)
SaveResult(w, d, o) ==
  /\ At(w, "saving") /\ <<d, o>> \in work[w].sent
  /\ delivery' = [delivery EXCEPT ![<<work[w].ev, d>>] = o]
  /\ valid' = [valid EXCEPT ![d] = @ /\ o # "invalid_device"]
  /\ Saved(w, d, o)
  /\ UNCHANGED <<wiring, outbox, job, disp, pushed, faults>>

Became(e, os) == {d \in Devices : delivery[<<e, d>>] \in os}

Unsettled(e) == Became(e, {"pending", "transient"}) # {}

(* aggregateEventStatus of a settled event.  The inbox row was written, so *)
(* its success is given.                                                   *)
Aggregate(e) ==
  IF Became(e, {"permanent", "invalid_device"}) # {} THEN "partial"
  ELSE IF \/ Became(e, {"sent"}) # {}
          \/ Became(e, Outcome) = {}
  THEN "completed" ELSE "failed"

Aggregated(w) ==
  /\ At(w, "sending") /\ work[w].targets = {}
  /\ ~Unsettled(work[w].ev)
  /\ Settle(w, Aggregate(work[w].ev))
  /\ Finish(w, "completed")
  /\ UNCHANGED <<wiring, disp, delivery, valid, pushed, faults>>

(* A failure that may pass: the row is queued again and the job retried.   *)
RetryLater(w) ==
  /\ At(w, "sending") /\ work[w].targets = {}
  /\ Unsettled(work[w].ev) /\ ~work[w].last
  /\ Settle(w, "queued")
  /\ Retry(w)
  /\ UNCHANGED <<wiring, disp, delivery, valid, pushed, faults>>

Exhausted_Bug(w) ==  \* the last attempt releases the row like the others
  /\ At(w, "sending") /\ work[w].targets = {}
  /\ Unsettled(work[w].ev) /\ work[w].last
  /\ Settle(w, "queued")
  /\ Finish(w, "failed")
  /\ UNCHANGED <<wiring, disp, delivery, valid, pushed, faults>>

(* The last attempt: the rows get the reason retry_exhausted but keep the  *)
(* class transient, so the second aggregation is not settled either and    *)
(* the event fails, whoever was reached.                                   *)
Exhausted(w) ==
  /\ At(w, "sending") /\ work[w].targets = {}
  /\ Unsettled(work[w].ev) /\ work[w].last
  /\ Settle(w, "failed")
  /\ Finish(w, "failed")
  /\ UNCHANGED <<wiring, disp, delivery, valid, pushed, faults>>

-----------------------------------------------------------------------------
(* What may go wrong with a slot. *)
Inside(w) == work[w].pc \in {"claimed", "sending", "saving"}

(* The body throws (the database, Firebase): the job is retried. *)
BodyThrows(w) ==
  /\ Inside(w)
  /\ Fault
  /\ Retry(w)
  /\ UNCHANGED <<wiring, outbox, disp, delivery, valid, pushed>>

(* The process dies: BullMQ finds the job stalled and runs it again. *)
SlotDies(w) ==
  /\ work[w].pc # "idle"
  /\ Fault
  /\ Finish(w, "waiting")
  /\ UNCHANGED <<wiring, outbox, disp, delivery, valid, pushed>>

(* The job stalls and is run again while its slot is alive and goes on. *)
JobStalls(w) ==
  /\ work[w].pc # "idle" /\ job[work[w].ev].slot = w
  /\ Fault
  /\ job' = [job EXCEPT ![work[w].ev] = [@ EXCEPT !.st = "waiting", !.slot = Nobody]]
  /\ UNCHANGED <<wiring, outbox, disp, work, delivery, valid, pushed>>

-----------------------------------------------------------------------------
Dispatch(p) ==
  \/ ClaimPending(p)
  \/ \E e \in Events : Enqueue(p, e)
  \/ MarkAsQueued(p) \/ RecordFailure(p) \/ ReleaseClaims(p)

Deliver(w) ==
  \/ \E e \in Events : StartJob(w, e)
  \/ MisCall(w) \/ ClaimQueued(w) \/ ClaimRefused(w) \/ Refuse(w)
  \/ Prepare(w) \/ SendBatch(w)
  \/ \E d \in Devices, o \in Outcome : SaveResult(w, d, o)
  \/ Aggregated(w) \/ RetryLater(w) \/ Exhausted(w)

Trouble ==
  \/ \E p \in Dispatchers : WriteFails(p) \/ DispatcherDies(p)
  \/ \E p \in Dispatchers, e \in Events : EnqueueFails(p, e)
  \/ \E e \in Events : LeaseExpires(e, TRUE)
  \/ \E w \in Slots : BodyThrows(w) \/ SlotDies(w) \/ JobStalls(w)

Next ==
  \/ \E p \in Dispatchers : Dispatch(p)
  \/ \E w \in Slots : Deliver(w)
  \/ \E e \in Events : LeaseExpires(e, FALSE)
  \/ Trouble

Spec == Init /\ [][Next]_vars

(* The dispatcher's timer always fires again, and time passes. *)
FairSpec ==
  /\ Spec
  /\ \A p \in Dispatchers : WF_vars(Dispatch(p))
  /\ \A e \in Events : WF_vars(LeaseExpires(e, FALSE))
-----------------------------------------------------------------------------
(* At most one slot is between the claim and the end of an event, and the  *)
(* row is its own: jobs that stall, are retried or are run twice never     *)
(* send side by side, and a final write always lands.                      *)
OneOwner ==
  \A w \in Slots : Inside(w) =>
    /\ outbox[work[w].ev].st = "processing"
    /\ outbox[work[w].ev].by = Instance[w]
    /\ \A o \in Slots \ {w} : Inside(o) => work[o].ev # work[w].ev

(* A settled event stays settled: neither a late dispatcher nor a second   *)
(* run of the job takes it up again.                                       *)
FinalIsFinal ==
  [][\A e \in Events : outbox[e].st \in Final => outbox'[e] = outbox[e]]_vars

(* No phone is pushed an event twice, in however many attempts, on however *)
(* many of its devices and whatever fails: a slot that fails between the   *)
(* push and the saving of its result leaves a row nobody takes up again.   *)
PushedOnce == \A x \in Events \X Tokens : pushed[x] <= 1

(* While nothing fails, a job that ends leaves its event settled, unless   *)
(* the job overtook the dispatcher's markAsQueued.                         *)
EndedJobSettles ==
  [][\A e \in Events :
       (/\ wiring = "documented" /\ faults' = 0
        /\ job[e].st = "active" /\ job'[e].st \in Ended)
       => outbox'[e].st \in Final \cup {"pending"}]_vars

(* A pending event is queued in the end, whatever dispatchers die.         *)
PendingIsQueued ==
  \A e \in Events : outbox[e].st = "pending" ~> outbox[e].st # "pending"
=============================================================================
