------------------------- MODULE NotificationProofs -------------------------
(***************************************************************************)
(* NotificationPipeline for any number of events, dispatchers, slots and   *)
(* faults: one slot at a time owns an event, a settled event stays so, no  *)
(* phone is pushed an event twice, and a job that ends settles its event.  *)
(*                                                                         *)
(* OneOwner is inductive once the tables are typed: only a queued row is   *)
(* claimed and a row being processed is not queued; only its owner writes  *)
(* it, because nothing takes a processing row back.  PInv adds which       *)
(* devices are left to push, EInv who has which job and TInv how many      *)
(* attempts it has left; each is explained where it is defined.            *)
(***************************************************************************)
EXTENDS NotificationPipeline, FiniteSetTheorems, TLAPS

Shape ==
  /\ outbox \in [Events -> Row]
  /\ work \in [Slots -> Work]
  /\ \A w \in Slots : work[w].pc # "idle" => work[w].ev \in Events

IInv == Shape /\ OneOwner

LEMMA InitInv == Init => IInv
  BY ConstantsOK DEF Init, IInv, Shape, OneOwner, Row, Work, Unclaimed,
     IdleSlot, Inside, Ids

(* What dispatchers and leases do to the rows disturbs no slot: they only  *)
(* write rows that are pending.                                            *)
LEMMA PendingStep ==
  ASSUME IInv, UNCHANGED work, outbox' \in [Events -> Row],
         \A e \in Events : outbox[e].st # "pending" => outbox'[e] = outbox[e]
  PROVE  IInv'
  BY DEF IInv, Shape, OneOwner, Inside

(* A slot that ends, or starts: it is no longer, or not yet, an owner. *)
LEMMA OutsideStep ==
  ASSUME IInv, NEW w \in Slots, NEW x \in Work,
         work' = [work EXCEPT ![w] = x],
         x.pc \in {"idle", "started"}, x.pc # "idle" => x.ev \in Events,
         outbox' \in [Events -> Row],
         \A e \in Events : (~Inside(w) \/ e # work[w].ev) => outbox'[e] = outbox[e]
  PROVE  IInv'
<1>1. work'[w] = x /\ \A o \in Slots \ {w} : work'[o] = work[o]
  BY DEF IInv, Shape
<1>2. Shape'
  BY <1>1 DEF IInv, Shape
<1>3. ASSUME NEW o \in Slots, Inside(o)'
      PROVE  /\ o # w /\ Inside(o) /\ work'[o] = work[o]
             /\ work[o].ev \in Events /\ outbox'[work[o].ev] = outbox[work[o].ev]
  BY <1>1, <1>3 DEF IInv, Shape, OneOwner, Inside
<1>4. OneOwner'
  BY <1>3 DEF IInv, OneOwner
<1> QED
  BY <1>2, <1>4 DEF IInv

(* An owner that goes on with its event. *)
LEMMA InsideStep ==
  ASSUME IInv, NEW w \in Slots, NEW x \in Work, Inside(w), UNCHANGED outbox,
         work' = [work EXCEPT ![w] = x],
         x.pc \in {"sending", "saving"}, x.ev = work[w].ev
  PROVE  IInv'
<1>1. work'[w] = x /\ \A o \in Slots \ {w} : work'[o] = work[o]
  BY DEF IInv, Shape
<1>2. Shape'
  BY <1>1 DEF IInv, Shape, Inside
<1>3. \A o \in Slots : work'[o].ev = work[o].ev /\ (Inside(o)' => Inside(o))
  BY <1>1 DEF Inside
<1>4. OneOwner'
  BY <1>3 DEF IInv, OneOwner
<1> QED
  BY <1>2, <1>4 DEF IInv

LEMMA IdleIsWork == IdleSlot \in Work
  BY DEF IdleSlot, Work

(* Settle writes the row of an owner, or of nobody. *)
LEMMA SettleStep ==
  ASSUME IInv, NEW w \in Slots, NEW st \in {"queued"} \cup Final, Inside(w),
         Settle(w, st), work' = [work EXCEPT ![w] = IdleSlot]
  PROVE  IInv'
<1>1. outbox' \in [Events -> Row]
  BY DEF IInv, Shape, Settle, Unclaimed, Row
<1>2. \A e \in Events : e # work[w].ev => outbox'[e] = outbox[e]
  BY DEF IInv, Shape, Settle
<1> QED
  BY <1>1, <1>2, IdleIsWork, OutsideStep DEF IdleSlot

LEMMA DispatchInv ==
  ASSUME IInv, NEW p \in Dispatchers,
         \/ Dispatch(p) \/ WriteFails(p) \/ DispatcherDies(p)
         \/ \E e \in Events : EnqueueFails(p, e)
  PROVE  IInv'
<1>0. outbox \in [Events -> Row]
  BY DEF IInv, Shape
<1>1. CASE ClaimPending(p)
  <2>1. /\ outbox' \in [Events -> Row] /\ UNCHANGED work
        /\ \A e \in Events : outbox[e].st # "pending" => outbox'[e] = outbox[e]
    BY <1>0, <1>1 DEF ClaimPending, Claimable, Row, Ids
  <2> QED
    BY <2>1, PendingStep
<1>2. CASE MarkAsQueued(p)
  <2>1. /\ outbox' \in [Events -> Row] /\ UNCHANGED work
        /\ \A e \in Events : outbox[e].st # "pending" => outbox'[e] = outbox[e]
    BY <1>0, <1>2 DEF MarkAsQueued, Holds, Unclaimed, Row
  <2> QED
    BY <2>1, PendingStep
<1>3. CASE RecordFailure(p) \/ ReleaseClaims(p)
  <2>1. /\ outbox' \in [Events -> Row] /\ UNCHANGED work
        /\ \A e \in Events : outbox[e].st # "pending" => outbox'[e] = outbox[e]
    BY <1>0, <1>3 DEF RecordFailure, ReleaseClaims, Unclaim, Holds, Unclaimed, Row
  <2> QED
    BY <2>1, PendingStep
<1>4. CASE \/ \E e \in Events : Enqueue(p, e) \/ EnqueueFails(p, e)
           \/ WriteFails(p) \/ DispatcherDies(p)
  <2>1. UNCHANGED <<outbox, work>>
    BY <1>4 DEF Enqueue, EnqueueFails, WriteFails, DispatcherDies
  <2> QED
    BY <1>0, <2>1, PendingStep
<1> QED
  BY <1>1, <1>2, <1>3, <1>4 DEF Dispatch

LEMMA LeaseInv ==
  ASSUME IInv, NEW e \in Events, NEW slow \in BOOLEAN, LeaseExpires(e, slow)
  PROVE  IInv'
<1>1. /\ outbox' \in [Events -> Row] /\ UNCHANGED work
      /\ \A x \in Events : outbox[x].st # "pending" => outbox'[x] = outbox[x]
  BY DEF IInv, Shape, LeaseExpires, Row
<1> QED
  BY <1>1, PendingStep

LEMMA StartInv ==
  ASSUME IInv, NEW w \in Slots, NEW e \in Events, StartJob(w, e)
  PROVE  IInv'
<1> DEFINE x == [pc |-> "started", ev |-> e,
                 last |-> (job[e].made + 1 >= MaxAttempts),
                 targets |-> {}, sent |-> {}]
<1>1. (job[e].made + 1 >= MaxAttempts) \in BOOLEAN
  OBVIOUS
<1>2. x \in Work
  BY <1>1 DEF Work
<1>3. work' = [work EXCEPT ![w] = x] /\ UNCHANGED outbox
  BY DEF StartJob
<1> QED
  BY <1>2, <1>3, OutsideStep DEF IInv, Shape

LEMMA ClaimInv ==
  ASSUME IInv, NEW w \in Slots, ClaimQueued(w)
  PROVE  IInv'
<1> DEFINE e == work[w].ev
<1>1. e \in Events /\ outbox[e].st = "queued" /\ Instance[w] \in Ids
  BY DEF ClaimQueued, At, IInv, Shape, Ids
<1>2. /\ outbox' \in [Events -> Row]
      /\ outbox'[e].st = "processing" /\ outbox'[e].by = Instance[w]
      /\ \A x \in Events \ {e} : outbox'[x] = outbox[x]
  BY <1>1 DEF ClaimQueued, IInv, Shape, Row
<1>3. /\ work' \in [Slots -> Work] /\ work'[w].ev = e /\ work'[w].pc = "claimed"
      /\ \A o \in Slots \ {w} : work'[o] = work[o]
  BY DEF ClaimQueued, IInv, Shape, Work
<1>4. Shape'
  BY <1>1, <1>2, <1>3 DEF IInv, Shape
<1>5. \A o \in Slots \ {w} : Inside(o) => work[o].ev \in Events \ {e}
  BY <1>1 DEF IInv, Shape, OneOwner, Inside
<1>6. OneOwner'
  BY <1>2, <1>3, <1>5 DEF IInv, OneOwner, Inside
<1> QED
  BY <1>4, <1>6 DEF IInv

LEMMA SendInv ==
  ASSUME IInv, NEW w \in Slots,
         \/ Prepare(w) \/ SendBatch(w)
         \/ \E d \in Devices, o \in Outcome : SaveResult(w, d, o)
  PROVE  IInv'
<1>0. work[w] \in Work /\ Inside(w) /\ work[w].ev \in Events /\ UNCHANGED outbox
  BY DEF IInv, Shape, Prepare, SendBatch, SaveResult, At, Inside
<1>1. CASE Prepare(w)
  <2>1. PICK targets \in SUBSET Devices :
          work' = [work EXCEPT ![w] = [@ EXCEPT !.pc = "sending", !.targets = targets]]
    BY <1>0, <1>1, ConstantsOK DEF Prepare
  <2>2. /\ [work[w] EXCEPT !.pc = "sending", !.targets = targets] \in Work
        /\ [work[w] EXCEPT !.pc = "sending", !.targets = targets].pc = "sending"
        /\ [work[w] EXCEPT !.pc = "sending", !.targets = targets].ev = work[w].ev
    BY <1>0 DEF Work
  <2> QED
    BY <1>0, <2>1, <2>2, InsideStep
<1>2. CASE SendBatch(w)
  <2>1. PICK sent \in SUBSET (Devices \X Outcome) :
          work' = [work EXCEPT ![w] = [@ EXCEPT !.pc = "saving", !.sent = sent]]
    <3>1. PICK batch \in SUBSET work[w].targets : \E answer \in [batch -> Outcome] :
            work' = [work EXCEPT ![w] =
              [@ EXCEPT !.pc = "saving", !.sent = {<<d, answer[d]>> : d \in batch}]]
      BY <1>2 DEF SendBatch
    <3>2. PICK answer \in [batch -> Outcome] :
            work' = [work EXCEPT ![w] =
              [@ EXCEPT !.pc = "saving", !.sent = {<<d, answer[d]>> : d \in batch}]]
      BY <3>1
    <3>3. {<<d, answer[d]>> : d \in batch} \in SUBSET (Devices \X Outcome)
      <4>1. batch \subseteq Devices
        BY <1>0 DEF Work
      <4> QED
        BY <4>1
    <3> QED
      BY <3>2, <3>3
  <2>2. /\ [work[w] EXCEPT !.pc = "saving", !.sent = sent] \in Work
        /\ [work[w] EXCEPT !.pc = "saving", !.sent = sent].pc = "saving"
        /\ [work[w] EXCEPT !.pc = "saving", !.sent = sent].ev = work[w].ev
    BY <1>0 DEF Work
  <2> QED
    BY <1>0, <2>1, <2>2, InsideStep
<1>3. CASE \E d \in Devices, o \in Outcome : SaveResult(w, d, o)
  <2>1. PICK d \in Devices, o \in Outcome : Saved(w, d, o)
    BY <1>3 DEF SaveResult
  <2> DEFINE rest == work[w].sent \ {<<d, o>>}
             pc   == IF rest = {} THEN "sending" ELSE "saving"
             left == work[w].targets \ {d}
             new  == [work[w] EXCEPT !.pc = pc, !.sent = rest, !.targets = left]
  <2>2. work' = [work EXCEPT ![w] = new]
    BY <2>1 DEF Saved
  <2>3. pc \in {"sending", "saving"} /\ left \in SUBSET Devices
        /\ rest \in SUBSET (Devices \X Outcome)
    BY <1>0 DEF Work
  <2> HIDE DEF rest, pc, left
  <2>4. new \in Work /\ new.pc = pc /\ new.ev = work[w].ev
    BY <1>0, <2>3 DEF Work
  <2> HIDE DEF new
  <2> QED
    BY <1>0, <2>2, <2>3, <2>4, InsideStep
<1> QED
  BY <1>1, <1>2, <1>3

LEMMA EndInv ==
  ASSUME IInv, NEW w \in Slots,
         \/ Refuse(w) \/ Aggregated(w) \/ RetryLater(w) \/ Exhausted(w)
         \/ MisCall(w) \/ ClaimRefused(w) \/ BodyThrows(w) \/ SlotDies(w)
  PROVE  IInv'
<1>1. CASE Refuse(w)
  <2>1. Inside(w) /\ work' = [work EXCEPT ![w] = IdleSlot]
        /\ \E st \in Final : Settle(w, st)
    BY <1>1 DEF Refuse, Finish, At, Inside, Final
  <2> QED
    BY <2>1, SettleStep
<1>2. CASE Aggregated(w)
  <2>1. Inside(w) /\ work' = [work EXCEPT ![w] = IdleSlot]
        /\ \E st \in Final : Settle(w, st)
    BY <1>2 DEF Aggregated, Aggregate, Finish, At, Inside, Final
  <2> QED
    BY <2>1, SettleStep
<1>3. CASE RetryLater(w) \/ Exhausted(w)
  <2>1. Inside(w) /\ work' = [work EXCEPT ![w] = IdleSlot]
        /\ \E st \in {"queued"} \cup Final : Settle(w, st)
    BY <1>3 DEF RetryLater, Exhausted, Finish, Retry, At, Inside, Final
  <2> QED
    BY <2>1, SettleStep
<1>4. CASE MisCall(w) \/ ClaimRefused(w) \/ BodyThrows(w) \/ SlotDies(w)
  <2>1. work' = [work EXCEPT ![w] = IdleSlot] /\ UNCHANGED outbox
    BY <1>4 DEF MisCall, ClaimRefused, BodyThrows, SlotDies, Finish, Retry
  <2>2. outbox' \in [Events -> Row]
    BY <2>1 DEF IInv, Shape
  <2> QED
    BY <2>1, <2>2, IdleIsWork, OutsideStep DEF IdleSlot
<1> QED
  BY <1>1, <1>2, <1>3, <1>4

LEMMA NextInv == IInv /\ [Next]_vars => IInv'
<1> SUFFICES ASSUME IInv, [Next]_vars PROVE IInv'
  OBVIOUS
<1>1. ASSUME NEW w \in Slots, JobStalls(w) PROVE IInv'
  BY <1>1 DEF JobStalls, IInv, Shape, OneOwner, Inside
<1>2. CASE UNCHANGED vars
  BY <1>2 DEF vars, IInv, Shape, OneOwner, Inside
<1> QED
  BY <1>1, <1>2, DispatchInv, LeaseInv, StartInv, ClaimInv, SendInv, EndInv
     DEF Next, Trouble, Deliver

(* At most one slot is at work on an event, and the event's row is its     *)
(* own, whatever stalls, dies or is retried.                               *)
THEOREM OneOwnerAlways == Spec => []OneOwner
<1>1. IInv => OneOwner
  BY DEF IInv
<1> QED
  BY <1>1, InitInv, NextInv, PTL DEF Spec

Kept == \A e \in Events : outbox[e].st \in Final => outbox'[e] = outbox[e]

(* Every write of a row asks for its status first: pending for a           *)
(* dispatcher, queued for a claim, processing for the outcome.             *)
LEMMA SettledIsKept == IInv /\ [Next]_vars => Kept
<1> SUFFICES ASSUME IInv, [Next]_vars PROVE Kept
  OBVIOUS
<1>0. outbox \in [Events -> Row]
  BY DEF IInv, Shape
<1>1. ASSUME NEW p \in Dispatchers, \/ Dispatch(p) \/ WriteFails(p) \/ DispatcherDies(p)
                                   \/ \E e \in Events : EnqueueFails(p, e)
      PROVE  Kept
  <2>1. CASE ClaimPending(p)
    BY <2>1 DEF ClaimPending, Claimable, Kept, Final
  <2>2. CASE MarkAsQueued(p)
    BY <1>0, <2>2 DEF MarkAsQueued, Holds, Kept, Final
  <2>3. CASE RecordFailure(p) \/ ReleaseClaims(p)
    BY <2>3 DEF RecordFailure, ReleaseClaims, Unclaim, Holds, Kept, Final
  <2> QED
    BY <1>1, <2>1, <2>2, <2>3
       DEF Dispatch, Enqueue, EnqueueFails, WriteFails, DispatcherDies, Kept
<1>2. ASSUME NEW e \in Events, NEW slow \in BOOLEAN, LeaseExpires(e, slow)
      PROVE  Kept
  BY <1>0, <1>2 DEF LeaseExpires, Kept, Final
<1>3. ASSUME NEW w \in Slots, NEW st, Settle(w, st) PROVE Kept
  BY <1>0, <1>3 DEF Settle, Kept, Final
<1>4. ASSUME NEW w \in Slots, ClaimQueued(w) PROVE Kept
  BY <1>0, <1>4 DEF ClaimQueued, Kept, Final
<1>5. ASSUME NEW w \in Slots, Deliver(w) PROVE Kept
  <2>1. CASE Refuse(w) \/ Aggregated(w) \/ RetryLater(w) \/ Exhausted(w)
    BY <2>1, <1>3 DEF Refuse, Aggregated, RetryLater, Exhausted
  <2>2. CASE \/ \E e \in Events : StartJob(w, e)
             \/ MisCall(w) \/ ClaimRefused(w)
             \/ Prepare(w) \/ SendBatch(w)
             \/ \E d \in Devices, o \in Outcome : SaveResult(w, d, o)
    <3>1. UNCHANGED outbox
      BY <2>2 DEF StartJob, MisCall, ClaimRefused, Prepare, SendBatch, SaveResult
    <3> QED
      BY <3>1 DEF Kept
  <2> QED
    BY <1>4, <1>5, <2>1, <2>2 DEF Deliver
<1>6. ASSUME NEW w \in Slots, BodyThrows(w) \/ SlotDies(w) \/ JobStalls(w)
      PROVE  Kept
  BY <1>6 DEF BodyThrows, SlotDies, JobStalls, Kept
<1>7. CASE UNCHANGED vars
  BY <1>7 DEF vars, Kept
<1> QED
  BY <1>1, <1>2, <1>5, <1>6, <1>7 DEF Next, Trouble

(* A row that was completed, partial, failed or skipped is written no more *)
(* by any dispatcher, job or retry.                                        *)
THEOREM SettledForGood == Spec => FinalIsFinal
<1>1. IInv /\ [Next]_vars =>
        [\A e \in Events : outbox[e].st \in Final => outbox'[e] = outbox[e]]_vars
  BY SettledIsKept DEF Kept
<1> QED
  BY <1>1, InitInv, NextInv, PTL DEF Spec, FinalIsFinal

-----------------------------------------------------------------------------
(* No phone is pushed an event twice.  Once an event has been prepared, at *)
(* most one device of each token is left to send to (OneEach); a token     *)
(* that was pushed has none left, but for one whose result its slot still  *)
(* has to save (InHand) - and if that slot fails, the event's row stays    *)
(* with it and is not Open to another attempt.                             *)

(* Devices another attempt would send to. *)
Cand(e) == {d \in Recipient[e] : valid[d] /\ delivery[<<e, d>>] \in Retriable}

Sending(w, e) == work[w].pc \in {"sending", "saving"} /\ work[w].ev = e

Untouched(e) ==
  /\ \A d \in Devices : delivery[<<e, d>>] = "none"
  /\ \A w \in Slots : ~Sending(w, e)

OneEach(e) == \A c, d \in Cand(e) : Token[c] = Token[d] => c = d

Open(e) ==
  \/ outbox[e].st \in {"pending", "queued"}
  \/ \E w \in Slots : At(w, "claimed") /\ work[w].ev = e

Unpushed(e, d) == pushed[<<e, Token[d]>>] = 0

InHand(e, targets, sent) ==
  /\ \A c, d \in targets : Token[c] = Token[d] => c = d
  /\ \A d \in targets : delivery[<<e, d>>] \in Retriable
  /\ \A d \in targets, c \in Cand(e) : Token[c] = Token[d] => c = d
  /\ \A x \in sent : x[1] \in targets
  /\ \A x, y \in sent : x[1] = y[1] => x = y
  /\ \A d \in targets \cup Cand(e) : <<d, "sent">> \in sent \/ Unpushed(e, d)

Holding(w) ==
  /\ work[w].pc # "saving" => work[w].sent = {}
  /\ work[w].pc \in {"sending", "saving"} =>
       InHand(work[w].ev, work[w].targets, work[w].sent)

Tables ==
  /\ delivery \in [Events \X Devices -> {"none", "pending", "skipped"} \cup Outcome]
  /\ valid \in [Devices -> BOOLEAN]
  /\ pushed \in [Events \X Tokens -> Nat]

PInv ==
  /\ IInv /\ Tables
  /\ \A e \in Events : Untouched(e) \/ OneEach(e)
  /\ \A e \in Events : Open(e) => \A d \in Cand(e) : Unpushed(e, d)
  /\ \A w \in Slots : Holding(w)
  /\ PushedOnce

LEMMA InitPushed == Init => PInv
<1> SUFFICES ASSUME Init PROVE PInv
  OBVIOUS
<1>1. Tables /\ PushedOnce
  BY DEF Init, Tables, PushedOnce
<1>2. \A e \in Events, d \in Devices : delivery[<<e, d>>] = "none" /\ Unpushed(e, d)
  BY DEF Init, Unpushed, Tokens
<1>3. \A w \in Slots : work[w].pc = "idle"
  BY DEF Init, IdleSlot
<1>4. \A e \in Events : Untouched(e)
  BY <1>2, <1>3 DEF Untouched, Sending
<1>5. \A e \in Events : \A d \in Cand(e) : Unpushed(e, d)
  BY <1>2, ConstantsOK DEF Cand
<1>6. \A w \in Slots : Holding(w)
  BY <1>3 DEF Holding, Init, IdleSlot
<1> QED BY <1>1, <1>4, <1>5, <1>6, InitInv DEF PInv

(* A step that neither sends nor saves: no slot gets to sending, and a row *)
(* opens only if its slot has nothing left to save.                        *)
LEMMA QuietPushed ==
  ASSUME PInv, IInv', UNCHANGED <<delivery, valid, pushed>>,
         \A w \in Slots : \/ work'[w] = work[w]
                          \/ /\ work'[w].pc \notin {"sending", "saving"}
                             /\ work'[w].sent = {},
         \A e \in Events : Open(e)' => Open(e) \/ \A d \in Cand(e) : Unpushed(e, d)
  PROVE  PInv'
<1>1. \A e \in Events : Cand(e)' = Cand(e) /\ \A d \in Devices : Unpushed(e, d)' <=> Unpushed(e, d)
  BY DEF Cand, Unpushed
<1>2. \A e \in Events : Cand(e) \subseteq Devices
  BY ConstantsOK DEF Cand
<1>3. \A e \in Events : (Untouched(e) \/ OneEach(e))'
  <2>1. \A e \in Events : Untouched(e) => Untouched(e)'
    BY DEF Untouched, Sending
  <2>2. \A e \in Events : OneEach(e) => OneEach(e)'
    BY <1>1 DEF OneEach
  <2> QED BY <2>1, <2>2 DEF PInv
<1>4. \A e \in Events : Open(e)' => \A d \in Cand(e)' : Unpushed(e, d)'
  BY <1>1, <1>2 DEF PInv
<1>5. \A w \in Slots : Holding(w)'
  <2> SUFFICES ASSUME NEW w \in Slots PROVE Holding(w)'
    OBVIOUS
  <2>1. CASE work'[w] = work[w]
    BY <2>1 DEF PInv, Holding, InHand, Unpushed, Cand
  <2>2. CASE work'[w].pc \notin {"sending", "saving"} /\ work'[w].sent = {}
    BY <2>2 DEF Holding
  <2> QED BY <2>1, <2>2
<1>6. Tables' /\ PushedOnce'
  BY DEF PInv, Tables, PushedOnce
<1> QED BY <1>3, <1>4, <1>5, <1>6 DEF PInv

(* Dispatchers and leases write pending rows only. *)
LEMMA PendingPushed ==
  ASSUME PInv, IInv', UNCHANGED <<work, delivery, valid, pushed>>,
         \A e \in Events : outbox[e].st # "pending" => outbox'[e] = outbox[e]
  PROVE  PInv'
<1>1. \A e \in Events : Open(e)' => Open(e)
  BY DEF Open, At
<1> QED BY <1>1, QuietPushed

(* A slot that starts, ends, or claims a queued row. *)
LEMMA SlotPushed ==
  ASSUME PInv, IInv', UNCHANGED <<delivery, valid, pushed>>,
         NEW w \in Slots, NEW x, work' = [work EXCEPT ![w] = x],
         x.pc \in {"idle", "started", "claimed"}, x.sent = {},
         \A e \in Events \ {work[w].ev} : outbox'[e] = outbox[e],
         x.pc = "claimed" => x.ev = work[w].ev,
         LET e == work[w].ev IN
           e \in Events => \/ outbox'[e] = outbox[e] /\ x.pc # "claimed"
                           \/ Open(e)
                           \/ \A d \in Cand(e) : Unpushed(e, d)
                           \/ outbox'[e].st \in Final
  PROVE  PInv'
<1>1. work'[w] = x /\ \A o \in Slots \ {w} : work'[o] = work[o]
  BY DEF PInv, IInv, Shape
<1>2. ASSUME NEW e \in Events, Open(e)'
      PROVE  Open(e) \/ \A d \in Cand(e) : Unpushed(e, d)
  <2>1. CASE e # work[w].ev
    BY <1>1, <1>2, <2>1 DEF Open, At
  <2>2. CASE e = work[w].ev /\ outbox'[e] = outbox[e] /\ x.pc # "claimed"
    BY <1>1, <1>2, <2>2 DEF Open, At
  <2>3. CASE e = work[w].ev /\ outbox'[e].st \in Final
    <3>1. PICK o \in Slots : At(o, "claimed")' /\ work'[o].ev = e
      BY <1>2, <2>3 DEF Open, Final
    <3>2. outbox'[e].st = "processing"
      BY <3>1 DEF IInv, OneOwner, Inside, At
    <3> QED BY <2>3, <3>2 DEF Final
  <2> QED BY <2>1, <2>2, <2>3
<1> QED BY <1>1, <1>2, QuietPushed

(* What the slot at work on an event knows: no other is, the row is its    *)
(* own, and no other attempt is open.                                      *)
LEMMA OwnerKnows ==
  ASSUME PInv, NEW w \in Slots, Inside(w)
  PROVE  /\ work[w].ev \in Events
         /\ outbox[work[w].ev].st = "processing"
         /\ \A o \in Slots \ {w} : Inside(o) => work[o].ev # work[w].ev
         /\ ~At(w, "claimed") => ~Open(work[w].ev)
BY DEF PInv, IInv, Shape, OneOwner, Inside, Open, At

LEMMA PreparePushed ==
  ASSUME PInv, IInv', NEW w \in Slots, Prepare(w)
  PROVE  PInv'
<1>0. PICK e : e = work[w].ev
  OBVIOUS
<1> DEFINE active == {d \in Recipient[e] : valid[d]}
<1>1. /\ e \in Events /\ Open(e) /\ Inside(w) /\ work[w].sent = {}
      /\ \A o \in Slots \ {w} : Inside(o) => work[o].ev # e
  BY <1>0, OwnerKnows DEF Prepare, Inside, At, Open, PInv, Holding
<1>2. PICK primary \in SUBSET {d \in Recipient[work[w].ev] : valid[d]} :
        LET targets == {d \in primary : delivery[<<work[w].ev, d>>] \in Retriable} IN
        /\ \A d, q \in primary : Token[d] = Token[q] => d = q
        /\ delivery' = [x \in Events \X Devices |->
               IF x[1] # work[w].ev THEN delivery[x]
               ELSE IF x[2] \in targets THEN "pending"
               ELSE IF x[2] \in {d \in Recipient[work[w].ev] : valid[d]} \ primary
                       /\ delivery[x] = "none" THEN "skipped"
               ELSE delivery[x]]
        /\ work' = [work EXCEPT ![w] = [@ EXCEPT !.pc = "sending", !.targets = targets]]
  BY DEF Prepare
<1>3. PICK targets : targets = {d \in primary : delivery[<<e, d>>] \in Retriable}
  OBVIOUS
<1>4.   /\ primary \subseteq active
        /\ targets = {d \in primary : delivery[<<e, d>>] \in Retriable}
        /\ \A d, q \in primary : Token[d] = Token[q] => d = q
        /\ delivery' = [x \in Events \X Devices |->
               IF x[1] # e THEN delivery[x]
               ELSE IF x[2] \in targets THEN "pending"
               ELSE IF x[2] \in active \ primary /\ delivery[x] = "none" THEN "skipped"
               ELSE delivery[x]]
        /\ work' = [work EXCEPT ![w] = [@ EXCEPT !.pc = "sending", !.targets = targets]]
  BY <1>0, <1>2, <1>3
<1>5. UNCHANGED <<outbox, valid, pushed>>
  BY DEF Prepare
<1>6. active \subseteq Devices
  BY <1>1, ConstantsOK
<1>7. \A x \in Events, d \in Devices :
        /\ x # e => delivery'[<<x, d>>] = delivery[<<x, d>>]
        /\ d \in targets => delivery'[<<e, d>>] = "pending"
        /\ d \in active \ primary /\ delivery[<<e, d>>] = "none" =>
             delivery'[<<e, d>>] = "skipped"
        /\ delivery'[<<e, d>>] \in {"pending", "skipped", delivery[<<e, d>>]}
        /\ delivery'[<<e, d>>] = "pending" => d \in targets \/ delivery[<<e, d>>] = "pending"
  BY <1>1, <1>4
<1>8. Tables'
  BY <1>4, <1>5 DEF PInv, Tables
<1>9. \A x \in Events : Recipient[x] \subseteq Devices
  BY ConstantsOK
<1>10. \A x \in Events \ {e} : Cand(x)' = Cand(x)
  BY <1>5, <1>7, <1>9 DEF Cand
<1>11. Cand(e)' \subseteq Cand(e) /\ targets \subseteq Cand(e)' /\ targets \subseteq Devices
  <2>1. targets \subseteq Cand(e)
    BY <1>4, <1>6 DEF Cand
  <2>2. targets \subseteq Cand(e)'
    BY <1>1, <1>5, <1>6, <1>7, <2>1 DEF Cand, Retriable
  <2>3. ASSUME NEW d \in Cand(e)' PROVE d \in Cand(e)
    <3>1. d \in Recipient[e] /\ d \in Devices /\ valid[d] /\ delivery'[<<e, d>>] \in Retriable
      BY <1>1, <1>5, <1>9, <2>3 DEF Cand
    <3>2. d \in targets \/ delivery[<<e, d>>] \in Retriable
      BY <1>1, <1>7, <3>1 DEF Retriable
    <3> QED BY <2>1, <3>1, <3>2 DEF Cand
  <2> QED BY <1>6, <2>1, <2>2, <2>3, <1>4
<1>12. OneEach(e)'
  <2>1. CASE OneEach(e)
    BY <1>11, <2>1 DEF OneEach
  <2>2. CASE Untouched(e)
    <3>1. Cand(e)' \subseteq primary
      <4> SUFFICES ASSUME NEW d \in Cand(e)' PROVE d \in primary
        OBVIOUS
      <4>1. d \in active /\ d \in Devices /\ delivery'[<<e, d>>] \in Retriable
        BY <1>1, <1>5, <1>9 DEF Cand
      <4>2. delivery[<<e, d>>] = "none"
        BY <2>2, <4>1 DEF Untouched
      <4> QED BY <1>1, <1>7, <4>1, <4>2 DEF Retriable
    <3> QED BY <1>4, <3>1 DEF OneEach
  <2> QED BY <1>1, <2>1, <2>2 DEF PInv
<1>13. \A d \in Cand(e) : Unpushed(e, d)
  BY <1>1 DEF PInv
<1>14. work[w] \in Work
  BY DEF PInv, IInv, Shape
<1>15. /\ work'[w].pc = "sending" /\ work'[w].ev = e /\ work'[w].targets = targets
       /\ work'[w].sent = {}
       /\ \A o \in Slots \ {w} : work'[o] = work[o]
  BY <1>0, <1>1, <1>4, <1>14 DEF PInv, IInv, Shape, Work
<1>16. Holding(w)'
  <2>1. \A c, d \in targets : Token[c] = Token[d] => c = d
    BY <1>4
  <2>2. \A d \in targets, c \in Cand(e)' : Token[c] = Token[d] => c = d
    BY <1>11, <1>12 DEF OneEach
  <2>3. \A d \in targets \cup Cand(e)' : Unpushed(e, d)'
    BY <1>5, <1>11, <1>13 DEF Unpushed
  <2>4. \A d \in targets : delivery'[<<e, d>>] \in Retriable
    BY <1>1, <1>7, <1>11 DEF Retriable
  <2>5. InHand(e, targets, {})'
    BY <2>1, <2>2, <2>3, <2>4 DEF InHand
  <2> QED BY <1>15, <2>5 DEF Holding
<1>17. ASSUME NEW o \in Slots \ {w} PROVE Holding(o)'
  <2>1. CASE work[o].pc \in {"sending", "saving"}
    <3>1. work[o].ev \in Events \ {e} /\ work[o] \in Work
      BY <1>1, <2>1 DEF PInv, IInv, Shape, Inside
    <3>2. \A d \in Devices : delivery'[<<work[o].ev, d>>] = delivery[<<work[o].ev, d>>]
      BY <1>7, <3>1
    <3>3. work[o].targets \subseteq Devices
      BY <3>1 DEF Work
    <3>4. InHand(work[o].ev, work[o].targets, work[o].sent)
      BY <2>1 DEF PInv, Holding
    <3>5. InHand(work[o].ev, work[o].targets, work[o].sent)'
      BY <1>5, <1>10, <1>15, <3>1, <3>2, <3>3, <3>4 DEF InHand, Unpushed
    <3> QED BY <1>15, <3>5 DEF Holding, PInv
  <2>2. CASE work[o].pc \notin {"sending", "saving"}
    BY <1>15, <2>2 DEF Holding, PInv
  <2> QED BY <2>1, <2>2
<1>18. ASSUME NEW x \in Events PROVE (Untouched(x) \/ OneEach(x))'
  <2>1. CASE x # e
    <3>1. Untouched(x) => Untouched(x)'
      BY <1>7, <1>15, <2>1 DEF Untouched, Sending
    <3>2. OneEach(x) => OneEach(x)'
      BY <1>10, <2>1 DEF OneEach
    <3> QED BY <3>1, <3>2 DEF PInv
  <2> QED BY <1>12, <2>1
<1>19. ASSUME NEW x \in Events, Open(x)' PROVE \A d \in Cand(x)' : Unpushed(x, d)'
  <2>1. Open(x)
    BY <1>5, <1>15, <1>19 DEF Open, At
  <2>2. Cand(x)' \subseteq Cand(x)
    BY <1>10, <1>11
  <2> QED BY <1>5, <2>1, <2>2 DEF PInv, Unpushed
<1>20. PushedOnce'
  BY <1>5 DEF PInv, PushedOnce
<1> QED BY <1>8, <1>16, <1>17, <1>18, <1>19, <1>20 DEF PInv

LEMMA SendPushed ==
  ASSUME PInv, IInv', NEW w \in Slots, SendBatch(w)
  PROVE  PInv'
<1>0. PICK e, targets : e = work[w].ev /\ targets = work[w].targets
  OBVIOUS
<1>1. /\ e \in Events /\ ~Open(e) /\ Inside(w) /\ work[w].sent = {}
      /\ work[w].pc = "sending"
      /\ \A o \in Slots \ {w} : Inside(o) => work[o].ev # e
  BY <1>0, OwnerKnows DEF SendBatch, Inside, At, PInv, Holding
<1>2. PICK batch \in SUBSET work[w].targets : \E answer \in [batch -> Outcome] :
        /\ pushed' = [x \in Events \X Tokens |-> pushed[x] +
             Cardinality({d \in batch : <<work[w].ev, Token[d]>> = x /\ answer[d] = "sent"})]
        /\ work' = [work EXCEPT ![w] =
             [@ EXCEPT !.pc = "saving", !.sent = {<<d, answer[d]>> : d \in batch}]]
  BY DEF SendBatch
<1>3. PICK answer \in [batch -> Outcome] :
        /\ pushed' = [x \in Events \X Tokens |-> pushed[x] +
             Cardinality({d \in batch : <<work[w].ev, Token[d]>> = x /\ answer[d] = "sent"})]
        /\ work' = [work EXCEPT ![w] =
             [@ EXCEPT !.pc = "saving", !.sent = {<<d, answer[d]>> : d \in batch}]]
  BY <1>2
<1>4.   /\ answer \in [batch -> Outcome]
        /\ pushed' = [x \in Events \X Tokens |-> pushed[x] +
             Cardinality({d \in batch : <<e, Token[d]>> = x /\ answer[d] = "sent"})]
        /\ work' = [work EXCEPT ![w] =
             [@ EXCEPT !.pc = "saving", !.sent = {<<d, answer[d]>> : d \in batch}]]
  BY <1>0, <1>3
<1>5. UNCHANGED <<outbox, delivery, valid>>
  BY DEF SendBatch
<1>6. work[w] \in Work /\ targets \subseteq Devices
  BY <1>0 DEF PInv, IInv, Shape, Work
<1>7. batch \subseteq targets
  BY <1>0, <1>2
<1>8. InHand(e, targets, {})
  BY <1>0, <1>1 DEF PInv, Holding
<1> DEFINE Hit(x) == {d \in batch : <<e, Token[d]>> = x /\ answer[d] = "sent"}
           sent == {<<d, answer[d]>> : d \in batch}
<1>9. \A x \in Events \X Tokens : pushed'[x] = pushed[x] + Cardinality(Hit(x))
  BY <1>4
<1>10. \A x : Hit(x) = {} \/ \E d \in batch : Hit(x) = {d} /\ x = <<e, Token[d]>>
                                        /\ answer[d] = "sent"
  <2> SUFFICES ASSUME NEW x, NEW d \in Hit(x) PROVE Hit(x) = {d}
    OBVIOUS
  <2>1. \A c \in Hit(x) : Token[c] = Token[d] /\ c \in targets /\ d \in targets
    BY <1>7
  <2> QED BY <1>8, <2>1 DEF InHand
<1> HIDE DEF Hit
<1>11. \A x \in Events \X Tokens :
        /\ Hit(x) = {} => pushed'[x] = pushed[x]
        /\ Hit(x) # {} => pushed'[x] = pushed[x] + 1
  <2>1. ASSUME NEW x \in Events \X Tokens
        PROVE  /\ Hit(x) = {} => pushed'[x] = pushed[x]
               /\ Hit(x) # {} => pushed'[x] = pushed[x] + 1
    <3>1. pushed[x] \in Nat
      BY DEF PInv, Tables
    <3>2. Hit(x) = {} => Cardinality(Hit(x)) = 0
      BY FS_EmptySet
    <3>3. Hit(x) # {} => Cardinality(Hit(x)) = 1
      BY <1>10, FS_Singleton
    <3> QED BY <1>9, <3>1, <3>2, <3>3
  <2> QED BY <2>1
<1>12. \A x \in Events, d \in Devices : <<x, Token[d]>> \in Events \X Tokens
  BY DEF Tokens
<1>13. \A x \in Events \ {e}, d \in Devices : Unpushed(x, d)' <=> Unpushed(x, d)
  <2> SUFFICES ASSUME NEW x \in Events \ {e}, NEW d \in Devices
               PROVE  Unpushed(x, d)' <=> Unpushed(x, d)
    OBVIOUS
  <2>1. Hit(<<x, Token[d]>>) = {}
    BY DEF Hit
  <2> QED BY <1>11, <1>12, <2>1 DEF Unpushed
<1>14. PushedOnce'
  <2> SUFFICES ASSUME NEW x \in Events \X Tokens PROVE pushed'[x] <= 1
    BY DEF PushedOnce
  <2>1. pushed[x] <= 1 /\ pushed[x] \in Nat
    BY DEF PInv, PushedOnce, Tables
  <2>2. CASE Hit(x) # {}
    <3>1. PICK d \in batch : x = <<e, Token[d]>>
      BY <1>10, <2>2
    <3>2. pushed[x] = 0
      BY <1>7, <1>8, <3>1 DEF InHand, Unpushed
    <3> QED BY <1>11, <2>2, <3>2
  <2> QED BY <1>11, <2>1, <2>2
<1>15. Tables'
  <2>1. \A x \in Events \X Tokens : pushed'[x] \in Nat
    BY <1>11 DEF PInv, Tables
  <2>2. pushed' = [x \in Events \X Tokens |-> pushed'[x]]
    BY <1>4
  <2> QED BY <1>5, <2>1, <2>2 DEF PInv, Tables
<1>16. /\ work'[w].pc = "saving" /\ work'[w].ev = e /\ work'[w].targets = targets
       /\ work'[w].sent = sent
       /\ \A o \in Slots \ {w} : work'[o] = work[o]
  BY <1>0, <1>4, <1>6 DEF PInv, IInv, Shape, Work
<1>17. \A x \in Events : Cand(x)' = Cand(x) /\ Cand(x) \subseteq Devices
  BY <1>5, ConstantsOK DEF Cand
<1>18. Holding(w)'
  <2>1. \A x \in sent : x[1] \in targets
    BY <1>7
  <2>2. \A x, y \in sent : x[1] = y[1] => x = y
    OBVIOUS
  <2>3. ASSUME NEW d \in targets \cup Cand(e) PROVE <<d, "sent">> \in sent \/ Unpushed(e, d)'
    <3>1. Unpushed(e, d) /\ d \in Devices
      BY <1>1, <1>6, <1>8, <1>17 DEF InHand
    <3>2. CASE Hit(<<e, Token[d]>>) = {}
      BY <1>1, <1>11, <1>12, <3>1, <3>2 DEF Unpushed
    <3>3. CASE Hit(<<e, Token[d]>>) # {}
      <4>1. PICK c \in batch : <<e, Token[d]>> = <<e, Token[c]>> /\ answer[c] = "sent"
        BY <1>10, <3>3
      <4>2. c \in targets /\ Token[c] = Token[d]
        BY <1>7, <4>1
      <4>3. c = d
        BY <1>8, <4>2, <2>3 DEF InHand
      <4> QED BY <4>1, <4>3
    <3> QED BY <3>2, <3>3
  <2> HIDE DEF sent
  <2>4. InHand(e, targets, sent)'
    BY <1>1, <1>5, <1>8, <1>16, <1>17, <2>1, <2>2, <2>3 DEF InHand
  <2> QED BY <1>16, <2>4 DEF Holding
<1>19. ASSUME NEW o \in Slots \ {w} PROVE Holding(o)'
  <2>1. CASE work[o].pc \in {"sending", "saving"}
    <3>1. work[o].ev \in Events \ {e} /\ work[o] \in Work
      BY <1>1, <2>1 DEF PInv, IInv, Shape, Inside
    <3>2. work[o].targets \cup Cand(work[o].ev) \subseteq Devices
      BY <1>17, <3>1 DEF Work
    <3>3. InHand(work[o].ev, work[o].targets, work[o].sent)
      BY <2>1 DEF PInv, Holding
    <3>4. InHand(work[o].ev, work[o].targets, work[o].sent)'
      BY <1>5, <1>13, <1>16, <1>17, <3>1, <3>2, <3>3 DEF InHand
    <3> QED BY <1>16, <3>4 DEF Holding, PInv
  <2>2. CASE work[o].pc \notin {"sending", "saving"}
    BY <1>16, <2>2 DEF Holding, PInv
  <2> QED BY <2>1, <2>2
<1>20. ASSUME NEW x \in Events PROVE (Untouched(x) \/ OneEach(x))'
  <2>1. x = e => ~Untouched(x)
    BY <1>0, <1>1 DEF Untouched, Sending
  <2>2. x # e /\ Untouched(x) => Untouched(x)'
    BY <1>5, <1>16 DEF Untouched, Sending
  <2>3. OneEach(x) => OneEach(x)'
    BY <1>17 DEF OneEach
  <2> QED BY <2>1, <2>2, <2>3 DEF PInv
<1>21. ASSUME NEW x \in Events, Open(x)' PROVE \A d \in Cand(x)' : Unpushed(x, d)'
  <2>1. Open(x)
    BY <1>5, <1>16, <1>21 DEF Open, At
  <2> QED BY <1>1, <1>13, <1>17, <2>1 DEF PInv
<1> QED BY <1>14, <1>15, <1>18, <1>19, <1>20, <1>21 DEF PInv

LEMMA SavePushed ==
  ASSUME PInv, IInv', NEW w \in Slots, NEW d \in Devices, NEW o \in Outcome,
         SaveResult(w, d, o)
  PROVE  PInv'
<1>0. PICK e, targets, sent :
        e = work[w].ev /\ targets = work[w].targets /\ sent = work[w].sent
  OBVIOUS
<1> DEFINE rest == sent \ {<<d, o>>}
           left == targets \ {d}
<1>1. /\ e \in Events /\ Inside(w) /\ work[w].pc = "saving" /\ <<d, o>> \in sent
      /\ \A q \in Slots \ {w} : Inside(q) => work[q].ev # e
  BY <1>0, OwnerKnows DEF SaveResult, Inside, At
<1>2. /\ delivery' = [delivery EXCEPT ![<<e, d>>] = o]
      /\ valid' = [valid EXCEPT ![d] = @ /\ o # "invalid_device"]
      /\ UNCHANGED <<outbox, pushed>>
  BY <1>0 DEF SaveResult
<1>3. work[w] \in Work
  BY DEF PInv, IInv, Shape
<1>4. /\ work'[w].pc = IF rest = {} THEN "sending" ELSE "saving"
      /\ work'[w].ev = e /\ work'[w].targets = left /\ work'[w].sent = rest
      /\ \A q \in Slots \ {w} : work'[q] = work[q]
  BY <1>0, <1>3 DEF SaveResult, Saved, PInv, IInv, Shape, Work
<1>5. InHand(e, targets, sent)
  BY <1>0, <1>1 DEF PInv, Holding
<1>6. \A x \in Events, c \in Devices :
        /\ <<x, c>> # <<e, d>> => delivery'[<<x, c>>] = delivery[<<x, c>>]
        /\ delivery'[<<e, d>>] = o
        /\ valid'[c] => valid[c]
  BY <1>1, <1>2 DEF PInv, Tables
<1>7. Tables'
  <2>1. (valid[d] /\ o # "invalid_device") \in BOOLEAN
    OBVIOUS
  <2> QED BY <1>1, <1>2, <2>1 DEF PInv, Tables
<1>8. d \in targets
  BY <1>1, <1>5 DEF InHand
<1>9. \A x \in Events : Recipient[x] \subseteq Devices
  BY ConstantsOK
<1>10. ASSUME NEW x \in Events PROVE Cand(x)' \subseteq Cand(x) /\ Cand(x) \subseteq Devices
  <2>1. ASSUME NEW c \in Cand(x)' PROVE c \in Cand(x)
    <3>1. c \in Recipient[x] /\ c \in Devices /\ valid[c] /\ delivery'[<<x, c>>] \in Retriable
      BY <1>6, <1>9, <2>1 DEF Cand
    <3>2. delivery[<<x, c>>] \in Retriable
      <4>1. CASE x = e /\ c = d
        BY <1>5, <1>8, <4>1 DEF InHand
      <4>2. CASE ~(x = e /\ c = d)
        BY <1>6, <3>1, <4>2
      <4> QED BY <4>1, <4>2
    <3> QED BY <3>1, <3>2 DEF Cand
  <2> QED BY <1>9, <2>1 DEF Cand
<1>11. \A x, c : Unpushed(x, c)' <=> Unpushed(x, c)
  BY <1>2 DEF Unpushed
<1>12. Holding(w)'
  <2>1. /\ \A c, q \in left : Token[c] = Token[q] => c = q
        /\ \A q \in left, c \in Cand(e)' : Token[c] = Token[q] => c = q
        /\ \A x, y \in rest : x[1] = y[1] => x = y
    BY <1>1, <1>5, <1>10 DEF InHand
  <2>2. ASSUME NEW c \in left PROVE delivery'[<<e, c>>] \in Retriable
    <3>1. c \in Devices /\ c # d /\ delivery[<<e, c>>] \in Retriable
      BY <1>0, <1>3, <1>5 DEF InHand, Work
    <3> QED BY <1>1, <1>6, <3>1
  <2>3. \A x \in rest : x[1] \in left
    <3>1. <<d, o>>[1] = d
      OBVIOUS
    <3> QED BY <1>1, <1>5, <3>1 DEF InHand
  <2>4. ASSUME NEW c \in left \cup Cand(e)'
        PROVE  <<c, "sent">> \in rest \/ Unpushed(e, c)
    <3>1. <<c, "sent">> \in sent \/ Unpushed(e, c)
      BY <1>1, <1>5, <1>10 DEF InHand
    <3>2. CASE c # d
      BY <3>1, <3>2
    <3>3. CASE c = d
      <4>1. delivery'[<<e, d>>] \in Retriable
        BY <2>4, <3>3 DEF Cand
      <4>2. o # "sent"
        BY <1>1, <1>6, <4>1 DEF Retriable
      <4>3. <<d, "sent">> \notin sent
        <5>1. <<d, "sent">>[1] = <<d, o>>[1] /\ <<d, "sent">> # <<d, o>>
          BY <4>2
        <5> QED BY <1>1, <1>5, <5>1 DEF InHand
      <4> QED BY <3>1, <3>3, <4>3
    <3> QED BY <3>2, <3>3
  <2> HIDE DEF rest, left
  <2>5. InHand(e, left, rest)'
    BY <1>4, <1>11, <2>1, <2>2, <2>3, <2>4 DEF InHand
  <2> QED BY <1>4, <2>5 DEF Holding
<1>13. ASSUME NEW q \in Slots \ {w} PROVE Holding(q)'
  <2>1. CASE work[q].pc \in {"sending", "saving"}
    <3>1. work[q].ev \in Events \ {e} /\ work[q] \in Work
      BY <1>1, <2>1 DEF PInv, IInv, Shape, Inside
    <3>2. \A c \in Devices : delivery'[<<work[q].ev, c>>] = delivery[<<work[q].ev, c>>]
      BY <1>6, <3>1
    <3>3. work[q].targets \subseteq Devices
      BY <3>1 DEF Work
    <3>4. InHand(work[q].ev, work[q].targets, work[q].sent)
      BY <2>1 DEF PInv, Holding
    <3>5. InHand(work[q].ev, work[q].targets, work[q].sent)'
      BY <1>4, <1>10, <1>11, <3>1, <3>2, <3>3, <3>4 DEF InHand
    <3> QED BY <1>4, <3>5 DEF Holding, PInv
  <2>2. CASE work[q].pc \notin {"sending", "saving"}
    BY <1>4, <2>2 DEF Holding, PInv
  <2> QED BY <2>1, <2>2
<1>14. ASSUME NEW x \in Events PROVE (Untouched(x) \/ OneEach(x))'
  <2>1. x = e => ~Untouched(x)
    BY <1>0, <1>1 DEF Untouched, Sending
  <2>2. x # e /\ Untouched(x) => Untouched(x)'
    BY <1>4, <1>6 DEF Untouched, Sending
  <2>3. OneEach(x) => OneEach(x)'
    BY <1>10 DEF OneEach
  <2> QED BY <2>1, <2>2, <2>3 DEF PInv
<1>15. ASSUME NEW x \in Events, Open(x)' PROVE \A c \in Cand(x)' : Unpushed(x, c)'
  <2>1. Open(x)
    BY <1>1, <1>2, <1>4, <1>15 DEF Open, At
  <2> QED BY <1>10, <1>11, <2>1 DEF PInv
<1>16. PushedOnce'
  BY <1>2 DEF PInv, PushedOnce
<1> QED BY <1>7, <1>12, <1>13, <1>14, <1>15, <1>16 DEF PInv

(* A slot is done with its event: the row gets its outcome, or stays.      *)
LEMMA EndPushed ==
  ASSUME PInv, IInv', NEW w \in Slots,
         \/ Refuse(w) \/ Aggregated(w) \/ RetryLater(w) \/ Exhausted(w)
         \/ MisCall(w) \/ ClaimRefused(w) \/ BodyThrows(w) \/ SlotDies(w)
  PROVE  PInv'
<1>0. IdleSlot.pc = "idle" /\ IdleSlot.sent = {}
  BY DEF IdleSlot
<1>1. work' = [work EXCEPT ![w] = IdleSlot] /\ UNCHANGED <<delivery, valid, pushed>>
  BY DEF Refuse, Aggregated, RetryLater, Exhausted, MisCall, ClaimRefused, BodyThrows,
         SlotDies, Finish, Retry
<1>2. CASE MisCall(w) \/ ClaimRefused(w) \/ BodyThrows(w) \/ SlotDies(w)
  <2>1. UNCHANGED outbox
    BY <1>2 DEF MisCall, ClaimRefused, BodyThrows, SlotDies
  <2> QED BY <1>0, <1>1, <2>1, SlotPushed
<1>3. ASSUME NEW st, Settle(w, st)
      PROVE  \A e \in Events \ {work[w].ev} : outbox'[e] = outbox[e]
  BY <1>3 DEF Settle, PInv, IInv, Shape
<1>4. CASE Refuse(w)
  <2>1. Open(work[w].ev)
    BY <1>4 DEF Refuse, Open, At
  <2>2. \E st : Settle(w, st)
    BY <1>4 DEF Refuse
  <2> QED BY <1>0, <1>1, <1>3, <2>1, <2>2, SlotPushed
<1>5. CASE Aggregated(w) \/ RetryLater(w) \/ Exhausted(w)
  <2>1. /\ work[w].pc = "sending" /\ \E st : Settle(w, st)
    BY <1>5 DEF Aggregated, RetryLater, Exhausted, At
  <2>2. InHand(work[w].ev, work[w].targets, {})
    BY <2>1 DEF PInv, Holding
  <2>3. \A d \in Cand(work[w].ev) : Unpushed(work[w].ev, d)
    BY <2>2 DEF InHand
  <2> QED BY <1>0, <1>1, <1>3, <2>1, <2>3, SlotPushed
<1> QED BY <1>2, <1>4, <1>5

LEMMA NextPushed == PInv /\ [Next]_vars => PInv'
<1> SUFFICES ASSUME PInv, [Next]_vars PROVE PInv'
  OBVIOUS
<1>0. IInv' /\ outbox \in [Events -> Row]
  BY NextInv DEF PInv, IInv, Shape
<1>1. ASSUME NEW p \in Dispatchers, \/ Dispatch(p) \/ WriteFails(p) \/ DispatcherDies(p)
                                   \/ \E e \in Events : EnqueueFails(p, e)
      PROVE  PInv'
  <2>1. UNCHANGED <<work, delivery, valid, pushed>>
    BY <1>1 DEF Dispatch, ClaimPending, Enqueue, MarkAsQueued, RecordFailure,
       ReleaseClaims, WriteFails, DispatcherDies, EnqueueFails
  <2>2. \A e \in Events : outbox[e].st # "pending" => outbox'[e] = outbox[e]
    <3>1. CASE ClaimPending(p)
      BY <3>1 DEF ClaimPending, Claimable
    <3>2. CASE MarkAsQueued(p)
      BY <1>0, <3>2 DEF MarkAsQueued, Holds
    <3>3. CASE RecordFailure(p) \/ ReleaseClaims(p)
      BY <3>3 DEF RecordFailure, ReleaseClaims, Unclaim, Holds
    <3> QED BY <1>1, <3>1, <3>2, <3>3 DEF Dispatch, Enqueue, EnqueueFails, WriteFails,
               DispatcherDies
  <2> QED BY <1>0, <2>1, <2>2, PendingPushed
<1>2. ASSUME NEW e \in Events, NEW slow \in BOOLEAN, LeaseExpires(e, slow)
      PROVE  PInv'
  <2>1. \A x \in Events : outbox[x].st # "pending" => outbox'[x] = outbox[x]
    BY <1>0, <1>2 DEF LeaseExpires
  <2> QED BY <1>0, <1>2, <2>1, PendingPushed DEF LeaseExpires
<1>3. ASSUME NEW w \in Slots, NEW e \in Events, StartJob(w, e) PROVE PInv'
  <2>1. PICK x : /\ x = [pc |-> "started", ev |-> e,
                         last |-> (job[e].made + 1 >= MaxAttempts),
                         targets |-> {}, sent |-> {}]
                 /\ work' = [work EXCEPT ![w] = x]
    BY <1>3 DEF StartJob
  <2>2. x.pc = "started" /\ x.sent = {} /\ UNCHANGED <<outbox, delivery, valid, pushed>>
    BY <1>3, <2>1 DEF StartJob
  <2> QED BY <1>0, <2>1, <2>2, SlotPushed
<1>4. ASSUME NEW w \in Slots, ClaimQueued(w) PROVE PInv'
  <2>1. PICK x : x = [work[w] EXCEPT !.pc = "claimed"]
    OBVIOUS
  <2>2. /\ work' = [work EXCEPT ![w] = x] /\ UNCHANGED <<delivery, valid, pushed>>
        /\ work[w].pc = "started" /\ outbox[work[w].ev].st = "queued"
        /\ \A e \in Events \ {work[w].ev} : outbox'[e] = outbox[e]
    BY <1>0, <1>4, <2>1 DEF ClaimQueued, At
  <2>3. x.pc = "claimed" /\ x.sent = {} /\ x.ev = work[w].ev
    BY <2>1, <2>2 DEF PInv, Holding, IInv, Shape, Work
  <2>4. Open(work[w].ev)
    BY <2>2 DEF Open
  <2> QED BY <1>0, <2>2, <2>3, <2>4, SlotPushed
<1>5. ASSUME NEW w \in Slots, JobStalls(w) PROVE PInv'
  BY <1>0, <1>5, PendingPushed DEF JobStalls
<1>6. CASE UNCHANGED vars
  BY <1>0, <1>6, PendingPushed DEF vars
<1> QED
  BY <1>0, <1>1, <1>2, <1>3, <1>4, <1>5, <1>6, PreparePushed, SendPushed, SavePushed,
     EndPushed DEF Next, Trouble, Deliver

(* Firebase accepts an event at most once for a token: in however many     *)
(* attempts, whatever devices share it and whatever fails.                 *)
THEOREM PushedAtMostOnce == Spec => []PushedOnce
<1>1. PInv => PushedOnce
  BY DEF PInv
<1> QED
  BY <1>1, InitPushed, NextPushed, PTL DEF Spec

-----------------------------------------------------------------------------
(* While nothing fails, whoever works on an event has its job, and a row   *)
(* that is being processed has somebody at work on it.                     *)

(* The job rows, whatever their number of attempts. *)
Attempt == [st : {"none", "waiting", "active"} \cup Ended, made : Nat,
            slot : Slots \cup {Nobody}]

HasJob(w) ==
  LET e == work[w].ev IN
  /\ job[e].st = "active" /\ job[e].slot = w
  /\ work[w].last = (job[e].made + 1 >= MaxAttempts)

Steady ==
  /\ \A w \in Slots : work[w].pc # "idle" => HasJob(w)
  /\ \A e \in Events : outbox[e].st = "processing" =>
        \E w \in Slots : Inside(w) /\ work[w].ev = e

EInv ==
  /\ IInv /\ job \in [Events -> Attempt] /\ faults \in Nat
  /\ faults = 0 => Steady

LEMMA InitSteady == Init => EInv
<1> SUFFICES ASSUME Init PROVE EInv
  OBVIOUS
<1>1. job \in [Events -> Attempt] /\ faults \in Nat
  BY ConstantsOK DEF Init, Attempt
<1>2. Steady
  BY DEF Init, Steady, IdleSlot, Unclaimed
<1> QED BY <1>1, <1>2, InitInv DEF EInv

(* Dispatchers and leases write pending rows, and add jobs there were none *)
(* of.                                                                     *)
LEMMA PendingSteady ==
  ASSUME EInv, IInv', Steady, UNCHANGED work, job' \in [Events -> Attempt],
         \A e \in Events : job[e].st # "none" => job'[e] = job[e],
         \A e \in Events : \/ outbox'[e] = outbox[e]
                           \/ outbox'[e].st # "processing"
  PROVE  Steady'
<1>1. \A w \in Slots : work[w].pc # "idle" => work[w].ev \in Events
  BY DEF EInv, IInv, Shape
<1>2. \A w \in Slots : work[w].pc # "idle" => HasJob(w)'
  BY <1>1 DEF Steady, HasJob
<1>3. \A e \in Events : outbox'[e].st = "processing" =>
        \E w \in Slots : Inside(w)' /\ work'[w].ev = e
  BY DEF Steady, Inside
<1> QED BY <1>2, <1>3 DEF Steady

(* A slot that ends: it had the job to itself, and if it was at work on    *)
(* the row, it wrote it.                                                   *)
LEMMA EndSteady ==
  ASSUME EInv, IInv', Steady, NEW w \in Slots, work[w].pc # "idle",
         work' = [work EXCEPT ![w] = IdleSlot],
         \A e \in Events \ {work[w].ev} : job'[e] = job[e] /\ outbox'[e] = outbox[e],
         \/ outbox'[work[w].ev].st # "processing"
         \/ ~Inside(w) /\ outbox' = outbox
  PROVE  Steady'
<1>1. /\ work'[w].pc = "idle" /\ \A o \in Slots \ {w} : work'[o] = work[o]
  BY DEF EInv, IInv, Shape, IdleSlot
<1>2. ASSUME NEW o \in Slots, work'[o].pc # "idle" PROVE HasJob(o)'
  <2>1. o # w /\ HasJob(o) /\ HasJob(w) /\ work[o].ev \in Events
    BY <1>1, <1>2 DEF Steady, EInv, IInv, Shape
  <2>2. work[o].ev # work[w].ev
    BY <2>1 DEF HasJob
  <2> QED BY <1>1, <2>1, <2>2 DEF HasJob
<1>3. ASSUME NEW e \in Events, outbox'[e].st = "processing"
      PROVE  \E o \in Slots : Inside(o)' /\ work'[o].ev = e
  <2>1. PICK o \in Slots : Inside(o) /\ work[o].ev = e /\ o # w
    BY <1>3 DEF Steady
  <2> QED BY <1>1, <2>1 DEF Inside
<1> QED BY <1>2, <1>3 DEF Steady

(* A slot that goes on with its event, its attempt and its row. *)
LEMMA GoesOnSteady ==
  ASSUME EInv, IInv', Steady, NEW w \in Slots, work[w].pc # "idle", UNCHANGED job,
         NEW x, work' = [work EXCEPT ![w] = x],
         x.pc \in {"claimed", "sending", "saving"},
         x.ev = work[w].ev, x.last = work[w].last,
         \A e \in Events \ {work[w].ev} : outbox'[e] = outbox[e]
  PROVE  Steady'
<1>1. /\ work'[w] = x /\ \A o \in Slots \ {w} : work'[o] = work[o]
  BY DEF EInv, IInv, Shape
<1>2. \A o \in Slots : work'[o].pc # "idle" => HasJob(o)'
  BY <1>1 DEF Steady, HasJob
<1>3. ASSUME NEW e \in Events, outbox'[e].st = "processing"
      PROVE  \E o \in Slots : Inside(o)' /\ work'[o].ev = e
  <2>1. CASE e = work[w].ev
    BY <1>1, <2>1 DEF Inside
  <2>2. CASE e # work[w].ev
    <3>1. PICK o \in Slots : Inside(o) /\ work[o].ev = e
      BY <1>3, <2>2 DEF Steady
    <3> QED BY <1>1, <2>2, <3>1 DEF Inside
  <2> QED BY <2>1, <2>2
<1> QED BY <1>2, <1>3 DEF Steady

LEMMA StartSteady ==
  ASSUME EInv, IInv', Steady, NEW w \in Slots, NEW e \in Events, StartJob(w, e)
  PROVE  Steady'
<1>1. PICK l : l = (job[e].made + 1 >= MaxAttempts)
  OBVIOUS
<1>2. PICK x : x = [pc |-> "started", ev |-> e, last |-> l, targets |-> {}, sent |-> {}]
  OBVIOUS
<1>3. /\ work' = [work EXCEPT ![w] = x] /\ UNCHANGED outbox
      /\ job' = [job EXCEPT ![e] = [@ EXCEPT !.st = "active", !.slot = w]]
      /\ job[e].st = "waiting" /\ work[w].pc = "idle"
  BY <1>1, <1>2 DEF StartJob
<1>4. x.pc = "started" /\ x.ev = e /\ x.last = l
  BY <1>2
<1>5. /\ work'[w] = x /\ \A o \in Slots \ {w} : work'[o] = work[o]
      /\ \A y \in Events \ {e} : job'[y] = job[y]
      /\ job'[e].st = "active" /\ job'[e].slot = w /\ job'[e].made = job[e].made
  BY <1>3 DEF EInv, IInv, Shape, Attempt
<1>6. HasJob(w)'
  BY <1>1, <1>4, <1>5 DEF HasJob
<1>7. ASSUME NEW o \in Slots \ {w}, work'[o].pc # "idle" PROVE HasJob(o)'
  <2>1. HasJob(o) /\ work[o].ev \in Events
    BY <1>5, <1>7 DEF Steady, EInv, IInv, Shape
  <2>2. work[o].ev # e
    BY <1>3, <2>1 DEF HasJob
  <2> QED BY <1>5, <2>1, <2>2 DEF HasJob
<1>8. ASSUME NEW y \in Events, outbox'[y].st = "processing"
      PROVE  \E o \in Slots : Inside(o)' /\ work'[o].ev = y
  <2>1. PICK o \in Slots : Inside(o) /\ work[o].ev = y
    BY <1>3, <1>8 DEF Steady
  <2>2. o # w
    BY <1>3, <2>1 DEF Inside
  <2> QED BY <1>5, <2>1, <2>2 DEF Inside
<1> QED BY <1>6, <1>7, <1>8 DEF Steady

(* The row of a slot at work is its own, so what it settles is settled.    *)
LEMMA SettleLands ==
  ASSUME IInv, NEW w \in Slots, Inside(w), NEW st, Settle(w, st)
  PROVE  /\ work[w].ev \in Events /\ outbox'[work[w].ev].st = st
         /\ \A e \in Events \ {work[w].ev} : outbox'[e] = outbox[e]
BY DEF IInv, Shape, OneOwner, Settle, Unclaimed, Inside

LEMMA DispatchSteady ==
  ASSUME EInv, NEW p \in Dispatchers, Dispatch(p)
  PROVE  /\ UNCHANGED <<work, faults, wiring>> /\ job' \in [Events -> Attempt]
         /\ \A e \in Events : job[e].st # "none" => job'[e] = job[e]
         /\ \A e \in Events : outbox'[e] = outbox[e] \/ outbox'[e].st # "processing"
<1>0. outbox \in [Events -> Row] /\ job \in [Events -> Attempt]
  BY DEF EInv, IInv, Shape
<1>1. CASE ClaimPending(p)
  BY <1>0, <1>1 DEF ClaimPending
<1>2. CASE MarkAsQueued(p)
  BY <1>0, <1>2 DEF MarkAsQueued, Unclaimed
<1>3. CASE RecordFailure(p) \/ ReleaseClaims(p)
  BY <1>0, <1>3 DEF RecordFailure, ReleaseClaims, Unclaim, Unclaimed
<1>4. ASSUME NEW e \in Events, Enqueue(p, e)
      PROVE  /\ UNCHANGED <<work, faults, wiring, outbox>> /\ job' \in [Events -> Attempt]
             /\ \A x \in Events : job[x].st # "none" => job'[x] = job[x]
  BY <1>0, <1>4 DEF Enqueue, AddJob, Attempt
<1> QED BY <1>1, <1>2, <1>3, <1>4 DEF Dispatch

(* Only the job of the slot's own event is written when the slot ends.     *)
LEMMA FinishJob ==
  ASSUME EInv, NEW w \in Slots, work[w].pc # "idle",
         Retry(w) \/ (\E st \in {"waiting"} \cup Ended : Finish(w, st))
  PROVE  /\ work' = [work EXCEPT ![w] = IdleSlot]
         /\ job' \in [Events -> Attempt]
         /\ \A e \in Events \ {work[w].ev} : job'[e] = job[e]
<1>1. work[w].ev \in Events /\ job \in [Events -> Attempt]
  BY DEF EInv, IInv, Shape
<1>2. CASE Retry(w)
  BY <1>1, <1>2 DEF Retry, Attempt, Ended
<1>3. CASE \E st \in {"waiting"} \cup Ended : Finish(w, st)
  <2>1. PICK st \in {"waiting"} \cup Ended : Finish(w, st)
    BY <1>3
  <2> QED BY <1>1, <2>1 DEF Finish, Attempt, Ended
<1> QED BY <1>2, <1>3

(* The steps that end a slot while nothing fails. *)
LEMMA OverSteady ==
  ASSUME EInv, IInv', Steady, NEW w \in Slots,
         \/ MisCall(w) \/ ClaimRefused(w) \/ Refuse(w) \/ Aggregated(w)
         \/ RetryLater(w) \/ Exhausted(w)
  PROVE  Steady' /\ job' \in [Events -> Attempt]
<1>1. CASE MisCall(w) \/ ClaimRefused(w)
  <2>1. /\ work[w].pc = "started" /\ outbox' = outbox /\ ~Inside(w)
        /\ \E st \in Ended : Finish(w, st)
    BY <1>1 DEF MisCall, ClaimRefused, At, Inside, Ended
  <2> QED BY <2>1, FinishJob, EndSteady
<1>2. CASE Refuse(w) \/ Aggregated(w) \/ RetryLater(w) \/ Exhausted(w)
  <2>1. /\ Inside(w) /\ work[w].pc # "idle"
        /\ Retry(w) \/ \E st \in Ended : Finish(w, st)
        /\ \E st \in {"queued"} \cup Final : Settle(w, st)
    BY <1>2 DEF Refuse, Aggregated, Aggregate, RetryLater, Exhausted, At, Inside,
       Ended, Final
  <2>2. PICK st \in {"queued"} \cup Final : Settle(w, st)
    BY <2>1
  <2>3. /\ outbox'[work[w].ev].st # "processing"
        /\ \A e \in Events \ {work[w].ev} : outbox'[e] = outbox[e]
    BY <2>1, <2>2, SettleLands DEF EInv, Final
  <2> QED BY <2>1, <2>3, FinishJob, EndSteady
<1> QED BY <1>1, <1>2

(* The steps by which a slot goes on. *)
LEMMA OnSteady ==
  ASSUME EInv, IInv', Steady, NEW w \in Slots,
         \/ ClaimQueued(w) \/ Prepare(w) \/ SendBatch(w)
         \/ \E d \in Devices, o \in Outcome : SaveResult(w, d, o)
  PROVE  Steady' /\ UNCHANGED job
<1>0. work \in [Slots -> Work] /\ outbox \in [Events -> Row]
  BY DEF EInv, IInv, Shape
<1>1. /\ work[w].pc # "idle" /\ UNCHANGED job
      /\ \A e \in Events \ {work[w].ev} : outbox'[e] = outbox[e]
  BY <1>0 DEF ClaimQueued, Prepare, SendBatch, SaveResult, At
<1>2. PICK x : /\ work' = [work EXCEPT ![w] = x] /\ x.ev = work[w].ev
               /\ x.last = work[w].last /\ x.pc \in {"claimed", "sending", "saving"}
  <2>1. CASE ClaimQueued(w)
    <3>1. PICK x : x = [work[w] EXCEPT !.pc = "claimed"]
      OBVIOUS
    <3>2. x.pc = "claimed" /\ x.ev = work[w].ev /\ x.last = work[w].last
      BY <1>0, <3>1 DEF Work
    <3>3. work' = [work EXCEPT ![w] = x]
      BY <1>0, <2>1, <3>1 DEF ClaimQueued
    <3> QED BY <3>2, <3>3
  <2>2. CASE Prepare(w)
    <3>1. PICK targets :
            work' = [work EXCEPT ![w] = [@ EXCEPT !.pc = "sending", !.targets = targets]]
      BY <2>2 DEF Prepare
    <3>2. PICK x : x = [work[w] EXCEPT !.pc = "sending", !.targets = targets]
      OBVIOUS
    <3>3. x.pc \in {"sending", "saving"} /\ x.ev = work[w].ev /\ x.last = work[w].last
      BY <1>0, <3>1, <3>2 DEF Work
    <3> QED BY <3>1, <3>2, <3>3
  <2>3. CASE SendBatch(w)
    <3>1. PICK sent :
            work' = [work EXCEPT ![w] = [@ EXCEPT !.pc = "saving", !.sent = sent]]
      BY <2>3 DEF SendBatch
    <3>2. PICK x : x = [work[w] EXCEPT !.pc = "saving", !.sent = sent]
      OBVIOUS
    <3>3. x.pc \in {"sending", "saving"} /\ x.ev = work[w].ev /\ x.last = work[w].last
      BY <1>0, <3>1, <3>2 DEF Work
    <3> QED BY <3>1, <3>2, <3>3
  <2>4. CASE \E d \in Devices, o \in Outcome : SaveResult(w, d, o)
    <3>1. PICK d, o : Saved(w, d, o)
      BY <2>4 DEF SaveResult
    <3> DEFINE rest == work[w].sent \ {<<d, o>>}
               pc   == IF rest = {} THEN "sending" ELSE "saving"
               left == work[w].targets \ {d}
    <3>2. PICK x : /\ x = [work[w] EXCEPT !.pc = pc, !.sent = rest, !.targets = left]
                   /\ work' = [work EXCEPT ![w] = x]
      BY <3>1 DEF Saved
    <3>3. x.pc \in {"sending", "saving"} /\ x.ev = work[w].ev /\ x.last = work[w].last
      BY <1>0, <3>1, <3>2 DEF Work
    <3> QED BY <3>2, <3>3
  <2> QED BY <2>1, <2>2, <2>3, <2>4
<1> QED BY <1>1, <1>2, GoesOnSteady

(* A step without a fault. *)
Calm == job' \in [Events -> Attempt] /\ faults' = faults /\ (Steady => Steady')

(* A fault is counted, so nothing has failed while the count is nought.    *)
LEMMA NextSteady == EInv /\ [Next]_vars => EInv'
<1> SUFFICES ASSUME EInv, [Next]_vars PROVE EInv'
  OBVIOUS
<1>0. IInv' /\ job \in [Events -> Attempt] /\ faults \in Nat
  BY NextInv DEF EInv
<1>1. ASSUME Trouble PROVE job' \in [Events -> Attempt] /\ faults' \in Nat \ {0}
  <2>1. faults' = faults + 1
    BY <1>1 DEF Trouble, WriteFails, DispatcherDies, EnqueueFails, LeaseExpires,
       BodyThrows, SlotDies, JobStalls, Fault
  <2>2. ASSUME NEW w \in Slots, BodyThrows(w) \/ SlotDies(w)
        PROVE  job' \in [Events -> Attempt]
    BY <2>2, FinishJob DEF BodyThrows, SlotDies, Inside
  <2>3. ASSUME NEW w \in Slots, JobStalls(w) PROVE job' \in [Events -> Attempt]
    BY <1>0, <2>3 DEF JobStalls, Attempt
  <2>4. ASSUME NEW p \in Dispatchers, NEW e \in Events, EnqueueFails(p, e)
        PROVE  job' \in [Events -> Attempt]
    BY <1>0, <2>4 DEF EnqueueFails, AddJob, Attempt
  <2> QED BY <1>0, <1>1, <2>1, <2>2, <2>3, <2>4
          DEF Trouble, WriteFails, DispatcherDies, LeaseExpires
<1>2. ASSUME ~Trouble
      PROVE  Calm
  <2>1. ASSUME NEW p \in Dispatchers, Dispatch(p) PROVE Calm
    <3>1. Steady => Steady'
      BY <1>0, <2>1, DispatchSteady, PendingSteady
    <3> QED BY <2>1, <3>1, DispatchSteady DEF Calm
  <2>2. ASSUME NEW e \in Events, LeaseExpires(e, FALSE) PROVE Calm
    <3>1. /\ UNCHANGED <<job, work, faults>>
          /\ \A x \in Events : outbox'[x] = outbox[x] \/ outbox'[x].st # "processing"
      BY <2>2 DEF LeaseExpires, EInv, IInv, Shape
    <3> QED BY <1>0, <3>1, PendingSteady DEF Calm
  <2>3. ASSUME NEW w \in Slots, Deliver(w) PROVE Calm
    <3>1. UNCHANGED faults
      BY <2>3 DEF Deliver, StartJob, MisCall, ClaimQueued, ClaimRefused, Refuse,
         Prepare, SendBatch, SaveResult, Aggregated, RetryLater, Exhausted
    <3>2. job' \in [Events -> Attempt]
      <4>1. ASSUME NEW e \in Events, StartJob(w, e) PROVE job' \in [Events -> Attempt]
        BY <1>0, <4>1 DEF StartJob, Attempt
      <4>2. ASSUME \/ MisCall(w) \/ ClaimRefused(w) \/ Refuse(w) \/ Aggregated(w)
                   \/ RetryLater(w) \/ Exhausted(w)
            PROVE job' \in [Events -> Attempt]
        <5>1. /\ work[w].pc # "idle"
              /\ Retry(w) \/ \E st \in Ended : Finish(w, st)
          BY <4>2 DEF MisCall, ClaimRefused, Refuse, Aggregated, RetryLater, Exhausted,
             At, Ended
        <5> QED BY <5>1, FinishJob
      <4> QED BY <1>0, <2>3, <4>1, <4>2
              DEF Deliver, ClaimQueued, Prepare, SendBatch, SaveResult
    <3>3. Steady => Steady'
      BY <1>0, <2>3, StartSteady, OverSteady, OnSteady DEF Deliver
    <3> QED BY <3>1, <3>2, <3>3 DEF Calm
  <2>4. CASE UNCHANGED vars
    BY <1>0, <2>4, PendingSteady DEF vars, Calm
  <2> QED BY <1>2, <2>1, <2>2, <2>3, <2>4 DEF Next
<1>3. CASE Trouble
  BY <1>0, <1>1, <1>3 DEF EInv
<1>4. CASE ~Trouble
  BY <1>0, <1>2, <1>4 DEF EInv, Calm
<1> QED BY <1>3, <1>4

JobsSettle ==
  \A e \in Events :
    (/\ wiring = "documented" /\ faults' = 0
     /\ job[e].st = "active" /\ job'[e].st \in Ended)
    => outbox'[e].st \in Final \cup {"pending"}

LEMMA EndsSettled == EInv /\ [Next]_vars => JobsSettle
<1> SUFFICES ASSUME EInv, [Next]_vars, NEW e \in Events, wiring = "documented",
                    faults' = 0, job[e].st = "active", job'[e].st \in Ended
             PROVE  outbox'[e].st \in Final \cup {"pending"}
  BY DEF JobsSettle
<1>0. /\ job \in [Events -> Attempt] /\ outbox \in [Events -> Row] /\ IInv
      /\ work \in [Slots -> Work] /\ faults \in Nat /\ job'[e] # job[e]
  BY DEF EInv, IInv, Shape, Ended
<1>1. ~Trouble
  <2>1. Trouble => faults' = faults + 1
    BY DEF Trouble, WriteFails, DispatcherDies, EnqueueFails, LeaseExpires,
       BodyThrows, SlotDies, JobStalls, Fault
  <2> QED BY <1>0, <2>1
<1>2. PICK w \in Slots : Deliver(w)
  <2>1. ASSUME NEW p \in Dispatchers, Dispatch(p) PROVE FALSE
    BY <1>0, <2>1, DispatchSteady
  <2> QED BY <1>0, <1>1, <2>1 DEF Next, vars, LeaseExpires
<1>3. Steady
  <2>1. faults' = faults
    BY <1>2 DEF Deliver, StartJob, MisCall, ClaimQueued, ClaimRefused, Refuse,
       Prepare, SendBatch, SaveResult, Aggregated, RetryLater, Exhausted
  <2> QED BY <2>1 DEF EInv
<1>4. ASSUME NEW x \in Events, StartJob(w, x) PROVE FALSE
  BY <1>0, <1>4 DEF StartJob, Attempt, Ended
<1>5. \/ ClaimRefused(w) \/ Refuse(w) \/ Aggregated(w) \/ RetryLater(w) \/ Exhausted(w)
  BY <1>0, <1>2, <1>4 DEF Deliver, MisCall, ClaimQueued, Prepare, SendBatch, SaveResult
<1>6. work[w].pc # "idle" /\ HasJob(w) /\ work[w].ev = e
  <2>1. work[w].pc # "idle" /\ (Retry(w) \/ \E st \in Ended : Finish(w, st))
    BY <1>5 DEF ClaimRefused, Refuse, Aggregated, RetryLater, Exhausted, At, Ended
  <2>2. \A x \in Events \ {work[w].ev} : job'[x] = job[x]
    BY <2>1, FinishJob
  <2> QED BY <1>0, <1>3, <2>1, <2>2 DEF Steady
<1>7. CASE ClaimRefused(w)
  <2>1. outbox' = outbox /\ outbox[e].st # "queued" /\ ~Inside(w)
    BY <1>6, <1>7 DEF ClaimRefused, At, Inside
  <2>2. outbox[e].st # "processing"
    <3>1. SUFFICES ASSUME outbox[e].st = "processing" PROVE FALSE
      OBVIOUS
    <3>2. PICK o \in Slots : Inside(o) /\ work[o].ev = e
      BY <1>3, <3>1 DEF Steady
    <3>3. HasJob(o)
      BY <1>3, <3>2 DEF Steady, Inside
    <3> QED BY <1>6, <2>1, <3>2, <3>3 DEF HasJob
  <2> QED BY <1>0, <2>1, <2>2 DEF Row
<1>8. CASE Refuse(w) \/ Aggregated(w) \/ Exhausted(w)
  <2>1. Inside(w) /\ \E st \in Final : Settle(w, st)
    BY <1>8 DEF Refuse, Aggregated, Aggregate, Exhausted, At, Inside, Final
  <2> QED BY <1>0, <1>6, <2>1, SettleLands
<1>9. CASE RetryLater(w)
  <2>1. ~(job[e].made + 1 >= MaxAttempts) /\ job[e].slot = w /\ Retry(w)
    BY <1>6, <1>9 DEF RetryLater, HasJob
  <2>2. job[e].made + 1 < MaxAttempts
    BY <1>0, <2>1, ConstantsOK DEF Attempt
  <2>3. job'[e].st = "waiting"
    BY <1>0, <1>6, <2>1, <2>2 DEF Retry
  <2> QED BY <2>3 DEF Ended
<1> QED BY <1>5, <1>7, <1>8, <1>9

(* While nothing fails, a job that ends leaves its event settled, or still *)
(* pending where it overtook the dispatcher: no retry, and no other run of *)
(* the job, lets an event fall between its row and its job.                *)
THEOREM EndedJobsSettle == Spec => EndedJobSettles
<1>1. EInv /\ [Next]_vars =>
        [\A e \in Events :
           (/\ wiring = "documented" /\ faults' = 0
            /\ job[e].st = "active" /\ job'[e].st \in Ended)
           => outbox'[e].st \in Final \cup {"pending"}]_vars
  BY EndsSettled DEF JobsSettle
<1> QED
  BY <1>1, InitSteady, NextSteady, PTL DEF Spec, EndedJobSettles

-----------------------------------------------------------------------------
(* The types.  That a job makes no more attempts than it has is the part   *)
(* that is no matter of form: a job waits or runs only while an attempt is *)
(* left, and only the slot that holds its lock counts one.                 *)
JobPart ==
  \A e \in Events :
    /\ job[e].st \notin Ended => job[e].made < MaxAttempts
    /\ job[e].slot # Nobody => job[e].st = "active"

TInv == IInv /\ TypeOK /\ JobPart

LEMMA InitTypes == Init => TInv
<1> SUFFICES ASSUME Init PROVE TInv
  OBVIOUS
<1>1. IInv /\ outbox \in [Events -> Row] /\ work \in [Slots -> Work]
  BY InitInv DEF IInv, Shape
<1>2. job \in [Events -> Job] /\ JobPart
  BY ConstantsOK DEF Init, Job, JobPart, Ended
<1>3. disp \in [Dispatchers -> Cycle]
  BY DEF Init, Cycle, IdleCycle
<1>4. /\ wiring \in Wirings /\ valid \in [Devices -> BOOLEAN]
      /\ delivery \in [Events \X Devices -> {"none", "pending", "skipped"} \cup Outcome]
      /\ pushed \in [Events \X Tokens -> Nat] /\ faults \in 0..MaxFaults
  BY ConstantsOK DEF Init
<1> QED
  BY <1>1, <1>2, <1>3, <1>4 DEF TInv, TypeOK

(* What a fault leaves of the budget. *)
LEMMA FaultFits == TypeOK /\ Fault => faults' \in 0..MaxFaults
  BY ConstantsOK DEF TypeOK, Fault

LEMMA AddJobFits ==
  ASSUME TInv, NEW e \in Events, job' \in {job, AddJob(e)}
  PROVE  job' \in [Events -> Job] /\ JobPart'
<1>1. job \in [Events -> Job] /\ JobPart
  BY DEF TInv, TypeOK
<1> QED
  BY <1>1 DEF AddJob, Job, JobPart, Ended

LEMMA GoOnFits ==
  ASSUME TypeOK, NEW p \in Dispatchers, NEW pc \in {"dispatch", "release"}, GoOn(p, pc)
  PROVE  disp' \in [Dispatchers -> Cycle]
  BY DEF TypeOK, GoOn, Cycle, IdleCycle

(* The end of an attempt, as the lock holder says it or says nothing. *)
LEMMA FinishFits ==
  ASSUME TInv, NEW w \in Slots, work[w].pc # "idle",
         \/ \E st \in {"waiting"} \cup Ended : Finish(w, st)
         \/ Retry(w)
  PROVE  job' \in [Events -> Job] /\ JobPart'
<1> DEFINE e == work[w].ev
<1>1. job \in [Events -> Job] /\ JobPart /\ e \in Events /\ w # Nobody
  BY ConstantsOK DEF TInv, TypeOK, IInv, Shape
<1>2. CASE job[e].slot # w
  <2>1. job' = job
    BY <1>2 DEF Finish, Retry
  <2> QED
    BY <1>1, <2>1 DEF JobPart
<1>3. CASE job[e].slot = w
  <2>1. job[e].st = "active" /\ job[e].made < MaxAttempts /\ job[e].made \in Nat
    BY <1>1, <1>3 DEF JobPart, Ended, Job
  <2>2. CASE \E st \in {"waiting"} \cup Ended : Finish(w, st)
    <3>1. PICK st \in {"waiting"} \cup Ended :
            job' = [job EXCEPT ![e] = [job[e] EXCEPT !.st = st, !.slot = Nobody]]
      BY <1>3, <2>2 DEF Finish
    <3>2. job[e] \in Job
      BY <1>1
    <3> DEFINE x == [job[e] EXCEPT !.st = st, !.slot = Nobody]
    <3>3. x \in Job /\ x.st = st /\ x.slot = Nobody /\ x.made = job[e].made
      BY <3>2 DEF Job, Ended
    <3>4. job' = [job EXCEPT ![e] = x]
      BY <3>1
    <3> HIDE DEF x
    <3>5. job' \in [Events -> Job]
      BY <1>1, <3>3, <3>4
    <3>6. JobPart'
      BY <1>1, <2>1, <3>3, <3>4 DEF JobPart
    <3> QED
      BY <3>5, <3>6
  <2>3. CASE Retry(w)
    <3>1. PICK made : made = job[e].made + 1 /\ made \in 0..MaxAttempts
      BY <2>1, ConstantsOK
    <3>2. PICK st : /\ st = (IF made < MaxAttempts THEN "waiting" ELSE "failed")
                    /\ st \in {"waiting", "failed"} /\ (st = "waiting" => made < MaxAttempts)
      OBVIOUS
    <3>3. job' = [job EXCEPT ![e] = [st |-> st, made |-> made, slot |-> Nobody]]
      BY <1>3, <2>3, <3>1, <3>2 DEF Retry
    <3> QED
      BY <1>1, <3>1, <3>2, <3>3 DEF Job, JobPart, Ended
  <2> QED
    BY <2>2, <2>3
<1> QED
  BY <1>2, <1>3

(* The dispatchers. *)
LEMMA DispatchTypes ==
  ASSUME TInv, NEW p \in Dispatchers,
         \/ Dispatch(p) \/ WriteFails(p) \/ DispatcherDies(p)
         \/ \E e \in Events : EnqueueFails(p, e)
  PROVE  /\ job' \in [Events -> Job] /\ JobPart'
         /\ disp' \in [Dispatchers -> Cycle] /\ faults' \in 0..MaxFaults
         /\ UNCHANGED <<wiring, delivery, valid, pushed>>
<1>0. TypeOK /\ disp \in [Dispatchers -> Cycle] /\ faults \in 0..MaxFaults
      /\ job \in [Events -> Job] /\ JobPart
  BY DEF TInv, TypeOK
<1>1. CASE ClaimPending(p)
  <2>1. PICK es \in SUBSET Events :
          disp' = [disp EXCEPT ![p] = [pc |-> "dispatch", ev |-> Nobody, todo |-> es]]
    BY <1>1 DEF ClaimPending
  <2>2. disp' \in [Dispatchers -> Cycle]
    BY <1>0, <2>1 DEF Cycle
  <2> QED
    BY <1>0, <1>1, <2>2 DEF ClaimPending, JobPart
<1>2. ASSUME NEW e \in Events, Enqueue(p, e) \/ EnqueueFails(p, e)
      PROVE  /\ job' \in [Events -> Job] /\ JobPart'
             /\ disp' \in [Dispatchers -> Cycle] /\ faults' \in 0..MaxFaults
             /\ UNCHANGED <<wiring, delivery, valid, pushed>>
  <2>1. job' \in {job, AddJob(e)}
    BY <1>2 DEF Enqueue, EnqueueFails
  <2>2. job' \in [Events -> Job] /\ JobPart'
    BY <2>1, AddJobFits
  <2>3. disp' \in [Dispatchers -> Cycle]
    BY <1>0, <1>2 DEF Enqueue, EnqueueFails, Cycle
  <2>4. faults' \in 0..MaxFaults /\ UNCHANGED <<wiring, delivery, valid, pushed>>
    BY <1>0, <1>2, FaultFits DEF Enqueue, EnqueueFails
  <2> QED
    BY <2>2, <2>3, <2>4
<1>3. CASE MarkAsQueued(p) \/ WriteFails(p) \/ RecordFailure(p)
  <2>1. \E pc \in {"dispatch", "release"} : GoOn(p, pc)
    BY <1>3 DEF MarkAsQueued, WriteFails, RecordFailure
  <2>2. disp' \in [Dispatchers -> Cycle]
    BY <1>0, <2>1, GoOnFits
  <2>3. UNCHANGED <<job, wiring, delivery, valid, pushed>> /\ faults' \in 0..MaxFaults
    BY <1>0, <1>3, FaultFits DEF MarkAsQueued, WriteFails, RecordFailure
  <2> QED
    BY <1>0, <2>2, <2>3 DEF JobPart
<1>4. CASE ReleaseClaims(p) \/ DispatcherDies(p)
  <2>1. disp' = [disp EXCEPT ![p] = IdleCycle]
    BY <1>4 DEF ReleaseClaims, DispatcherDies
  <2>2. disp' \in [Dispatchers -> Cycle]
    BY <1>0, <2>1 DEF IdleCycle, Cycle
  <2>3. UNCHANGED <<job, wiring, delivery, valid, pushed>> /\ faults' \in 0..MaxFaults
    BY <1>0, <1>4, FaultFits DEF ReleaseClaims, DispatcherDies
  <2> QED
    BY <1>0, <2>2, <2>3 DEF JobPart
<1> QED
  BY <1>1, <1>2, <1>3, <1>4 DEF Dispatch

(* What a batch adds to the pushes is a number. *)
LEMMA PushTypes ==
  ASSUME TInv, NEW w \in Slots, SendBatch(w)
  PROVE  pushed' \in [Events \X Tokens -> Nat]
<1>1. work[w] \in Work /\ pushed \in [Events \X Tokens -> Nat]
  BY DEF TInv, TypeOK
<1>2. PICK batch \in SUBSET work[w].targets : \E answer \in [batch -> Outcome] :
        pushed' = [x \in Events \X Tokens |-> pushed[x] +
          Cardinality({d \in batch : <<work[w].ev, Token[d]>> = x /\ answer[d] = "sent"})]
  BY DEF SendBatch
<1>3. PICK answer \in [batch -> Outcome] :
        pushed' = [x \in Events \X Tokens |-> pushed[x] +
          Cardinality({d \in batch : <<work[w].ev, Token[d]>> = x /\ answer[d] = "sent"})]
  BY <1>2
<1> DEFINE Reached(x) ==
      {d \in batch : <<work[w].ev, Token[d]>> = x /\ answer[d] = "sent"}
<1>4. ASSUME NEW x \in Events \X Tokens PROVE Cardinality(Reached(x)) \in Nat
  <2>1. Reached(x) \subseteq Devices
    BY <1>1 DEF Work
  <2> QED
    BY <2>1, ConstantsOK, FS_Subset, FS_CardinalityType
<1>5. pushed' = [x \in Events \X Tokens |-> pushed[x] + Cardinality(Reached(x))]
  BY <1>3
<1>6. ASSUME NEW x \in Events \X Tokens PROVE pushed[x] + Cardinality(Reached(x)) \in Nat
  BY <1>1, <1>4
<1> HIDE DEF Reached
<1> QED
  BY <1>5, <1>6

(* The slots. *)
LEMMA SlotTypes ==
  ASSUME TInv, NEW w \in Slots,
         \/ Deliver(w) \/ BodyThrows(w) \/ SlotDies(w) \/ JobStalls(w)
  PROVE  /\ job' \in [Events -> Job] /\ JobPart'
         /\ delivery' \in [Events \X Devices -> {"none", "pending", "skipped"} \cup Outcome]
         /\ valid' \in [Devices -> BOOLEAN] /\ pushed' \in [Events \X Tokens -> Nat]
         /\ faults' \in 0..MaxFaults /\ UNCHANGED <<wiring, disp>>
<1> DEFINE Typed ==
      /\ job' \in [Events -> Job] /\ JobPart'
      /\ delivery' \in [Events \X Devices -> {"none", "pending", "skipped"} \cup Outcome]
      /\ valid' \in [Devices -> BOOLEAN] /\ pushed' \in [Events \X Tokens -> Nat]
      /\ faults' \in 0..MaxFaults /\ UNCHANGED <<wiring, disp>>
<1>0. /\ TypeOK /\ work[w] \in Work /\ (work[w].pc # "idle" => work[w].ev \in Events)
      /\ job \in [Events -> Job] /\ JobPart
      /\ delivery \in [Events \X Devices -> {"none", "pending", "skipped"} \cup Outcome]
      /\ valid \in [Devices -> BOOLEAN] /\ pushed \in [Events \X Tokens -> Nat]
      /\ faults \in 0..MaxFaults
  BY DEF TInv, TypeOK, IInv, Shape
<1>1. ASSUME NEW e \in Events, StartJob(w, e) PROVE Typed
  <2>1. job' = [job EXCEPT ![e] = [job[e] EXCEPT !.st = "active", !.slot = w]]
    BY <1>1 DEF StartJob
  <2>2. job[e] \in Job /\ job[e].st = "waiting" /\ job[e].made < MaxAttempts
    BY <1>0, <1>1 DEF StartJob, JobPart, Ended
  <2>3. job' \in [Events -> Job]
    BY <1>0, <2>1, <2>2 DEF Job
  <2>4. JobPart'
    BY <1>0, <2>1, <2>2 DEF Job, JobPart
  <2> QED
    BY <1>0, <1>1, <2>3, <2>4 DEF StartJob
<1>2. CASE MisCall(w) \/ ClaimRefused(w) \/ Refuse(w) \/ Aggregated(w) \/ RetryLater(w)
           \/ Exhausted(w) \/ BodyThrows(w) \/ SlotDies(w)
  <2>1. work[w].pc # "idle"
    BY <1>2 DEF MisCall, ClaimRefused, Refuse, Aggregated, RetryLater, Exhausted,
       BodyThrows, SlotDies, At, Inside
  <2>2. Retry(w) \/ \E st \in {"waiting"} \cup Ended : Finish(w, st)
    BY <1>2 DEF MisCall, ClaimRefused, Refuse, Aggregated, RetryLater, Exhausted,
       BodyThrows, SlotDies, Ended
  <2>3. job' \in [Events -> Job] /\ JobPart'
    BY <2>1, <2>2, FinishFits
  <2>4. UNCHANGED <<wiring, disp, delivery, valid, pushed>> /\ faults' \in 0..MaxFaults
    BY <1>0, <1>2, FaultFits DEF MisCall, ClaimRefused, Refuse, Aggregated, RetryLater,
       Exhausted, BodyThrows, SlotDies
  <2> QED
    BY <1>0, <2>3, <2>4
<1>3. CASE ClaimQueued(w)
  BY <1>0, <1>3 DEF ClaimQueued, JobPart
<1>4. CASE Prepare(w)
  <2> DEFINE active == {d \in Recipient[work[w].ev] : valid[d]}
             Prepared(primary) ==
               [x \in Events \X Devices |->
                  IF x[1] # work[w].ev THEN delivery[x]
                  ELSE IF x[2] \in {d \in primary : delivery[<<work[w].ev, d>>] \in Retriable}
                  THEN "pending"
                  ELSE IF x[2] \in active \ primary /\ delivery[x] = "none" THEN "skipped"
                  ELSE delivery[x]]
  <2>1. PICK primary \in SUBSET active : delivery' = Prepared(primary)
    BY <1>4 DEF Prepare
  <2>2. delivery' \in [Events \X Devices -> {"none", "pending", "skipped"} \cup Outcome]
    BY <1>0, <2>1
  <2> QED
    BY <1>0, <1>4, <2>2 DEF Prepare, JobPart
<1>5. CASE SendBatch(w)
  BY <1>0, <1>5, PushTypes DEF SendBatch, JobPart
<1>6. ASSUME NEW d \in Devices, NEW o \in Outcome, SaveResult(w, d, o) PROVE Typed
  <2>1. delivery' \in [Events \X Devices -> {"none", "pending", "skipped"} \cup Outcome]
    BY <1>0, <1>6 DEF SaveResult
  <2>2. valid' \in [Devices -> BOOLEAN]
    BY <1>0, <1>6 DEF SaveResult
  <2> QED
    BY <1>0, <1>6, <2>1, <2>2 DEF SaveResult, JobPart
<1>7. CASE JobStalls(w)
  <2>1. PICK e \in Events : /\ e = work[w].ev /\ job[e].slot = w
        /\ job' = [job EXCEPT ![e] = [job[e] EXCEPT !.st = "waiting", !.slot = Nobody]]
    BY <1>0, <1>7 DEF JobStalls
  <2>2. job[e] \in Job /\ job[e].made < MaxAttempts
    BY <1>0, <2>1, ConstantsOK DEF JobPart, Ended
  <2>3. job' \in [Events -> Job] /\ JobPart'
    BY <1>0, <2>1, <2>2 DEF Job, JobPart
  <2>4. faults' \in 0..MaxFaults /\ UNCHANGED <<wiring, disp, delivery, valid, pushed>>
    BY <1>0, <1>7, FaultFits DEF JobStalls
  <2> QED
    BY <1>0, <2>3, <2>4
<1> QED
  BY <1>1, <1>2, <1>3, <1>4, <1>5, <1>6, <1>7 DEF Deliver

LEMMA NextTypes == TInv /\ [Next]_vars => TInv'
<1> SUFFICES ASSUME TInv, [Next]_vars PROVE TInv'
  OBVIOUS
<1>1. IInv'
  BY NextInv DEF TInv
<1>2. /\ job' \in [Events -> Job] /\ JobPart'
      /\ disp' \in [Dispatchers -> Cycle] /\ faults' \in 0..MaxFaults
      /\ delivery' \in [Events \X Devices -> {"none", "pending", "skipped"} \cup Outcome]
      /\ valid' \in [Devices -> BOOLEAN] /\ pushed' \in [Events \X Tokens -> Nat]
      /\ wiring' \in Wirings
  <2>0. TypeOK /\ JobPart
    BY DEF TInv
  <2>1. CASE \E p \in Dispatchers : \/ Dispatch(p) \/ WriteFails(p) \/ DispatcherDies(p)
                                   \/ \E e \in Events : EnqueueFails(p, e)
    BY <2>0, <2>1, DispatchTypes DEF TypeOK
  <2>2. CASE \E w \in Slots : \/ Deliver(w) \/ BodyThrows(w) \/ SlotDies(w)
                              \/ JobStalls(w)
    BY <2>0, <2>2, SlotTypes DEF TypeOK
  <2>3. CASE \E e \in Events, slow \in BOOLEAN : LeaseExpires(e, slow)
    BY <2>0, <2>3, FaultFits DEF TypeOK, LeaseExpires, JobPart
  <2>4. CASE UNCHANGED vars
    BY <2>0, <2>4 DEF TypeOK, vars, JobPart
  <2> QED
    BY <2>1, <2>2, <2>3, <2>4 DEF Next, Trouble
<1> QED
  BY <1>1, <1>2 DEF TInv, TypeOK, IInv, Shape

(* The tables are typed, whatever fails: no job makes more attempts than   *)
(* it has, and no pushes are counted that were not sent.                   *)
THEOREM TypesAlways == Spec => []TypeOK
<1>1. TInv => TypeOK
  BY DEF TInv
<1> QED
  BY <1>1, InitTypes, NextTypes, PTL DEF Spec

=============================================================================
