-------------------------- MODULE PlacementProofs --------------------------
(***************************************************************************)
(* Proofs about OrderPlacement for any number of requests, keys, places,   *)
(* saves and faults: IInv holds however they overlap, SInv adds what a     *)
(* request knows when requests do not.                                     *)
(***************************************************************************)
EXTENDS OrderPlacement, FiniteSetTheorems, TLAPS

(* What a request in flight remembers: the rows a save switches off are    *)
(* inclusions, and an order being placed has a key.                        *)
Sane(q) ==
  /\ (q.pc \in {"lock1", "lock2"} /\ q.op \in Saving) =>
        \A z \in q.rows : z.zone.kind = "inclusion"
  /\ \A z \in q.locked : z.zone.kind = "inclusion"
  /\ q.pc \in {"find", "number", "commit"} => q.key \in Keys
  /\ q.pc = "after" => q.locked = {}

AllSane == \A r \in Slots : Sane(req[r])

(* The row lock of the washer: one transaction holds a number, the next.   *)
OneNumber ==
  /\ \A r \in Slots : At(r, "commit") => req[r].number = sequence + 1
  /\ \A r, o \in Slots : (At(r, "commit") /\ At(o, "commit")) => r = o

IInv == TypeOK /\ AllSane /\ OneNumber /\ NumbersInSequence

LEMMA NoRequestFits == NoRequest \in Request /\ Sane(NoRequest)
BY DEF NoRequest, Request, Sane

(* What a step does to the rest, when it does not place an order. *)
Quiet ==
  /\ UNCHANGED <<world, order, sequence>>
  /\ active' \subseteq Rows
  /\ saves' \in 0..MaxSaves
  /\ cache' \subseteq SUBSET Rows
  /\ faults' \in 0..world.faults

(* A step that changes one request, takes no number and places no order    *)
(* keeps the invariant.                                                    *)
LEMMA Frame ==
  ASSUME IInv, NEW r \in Slots, NEW q \in Request, Sane(q), q.pc # "commit",
         req' = [req EXCEPT ![r] = q],
         Quiet
  PROVE  IInv'
<1> USE DEF Quiet
<1>1. TypeOK'
  BY DEF IInv, TypeOK
<1>2. \A o \in Slots : req'[o] = IF o = r THEN q ELSE req[o]
  BY DEF IInv, TypeOK
<1>3. AllSane'
  BY <1>2 DEF IInv, AllSane, Sane
<1>4. \A o \in Slots : At(o, "commit")' => At(o, "commit") /\ req'[o] = req[o]
  BY <1>2 DEF At
<1>5. OneNumber'
  BY <1>4 DEF IInv, OneNumber, At
<1>6. NumbersInSequence'
  BY DEF IInv, NumbersInSequence, Placed
<1> QED BY <1>1, <1>3, <1>5, <1>6 DEF IInv

LEMMA FaultCounts == ASSUME TypeOK, Fault PROVE faults' \in 0..world.faults
<1>1. world.faults \in Nat
  BY ConstantsOK DEF TypeOK
<1> QED BY <1>1 DEF TypeOK, Fault

(* The two that are not covered by the frame: a number is taken ...        *)
LEMMA TakeNumberKeeps ==
  ASSUME IInv, NEW r \in Slots, TakeNumber(r)
  PROVE  IInv'
<1> DEFINE q == [req[r] EXCEPT !.pc = "commit", !.number = sequence + 1]
<1>0. req[r] \in Request /\ Sane(req[r]) /\ req[r].pc = "number"
  BY DEF IInv, TypeOK, AllSane, TakeNumber, At
<1>1. /\ q.pc = "commit" /\ q.number = sequence + 1
      /\ q.op = req[r].op /\ q.rows = req[r].rows
      /\ q.locked = req[r].locked /\ q.key = req[r].key
  BY <1>0 DEF Request
<1>2. sequence + 1 \in Nat
  BY DEF IInv, TypeOK
<1>3. q \in Request
  BY <1>0, <1>2 DEF Request
<1>4. Sane(q)
  BY <1>0, <1>1 DEF Sane
<1>5. req' = [req EXCEPT ![r] = q]
  BY DEF TakeNumber
<1> HIDE DEF q
<1>6. \A o \in Slots : req'[o] = IF o = r THEN q ELSE req[o]
  BY <1>5 DEF IInv, TypeOK
<1>7. TypeOK'
  BY <1>3, <1>5 DEF IInv, TypeOK, TakeNumber
<1>8. AllSane'
  BY <1>4, <1>6 DEF IInv, AllSane, Sane
<1>9. OneNumber'
  BY <1>1, <1>6 DEF TakeNumber, OneNumber, At
<1>10. NumbersInSequence'
  BY DEF IInv, NumbersInSequence, Placed, TakeNumber
<1> QED BY <1>7, <1>8, <1>9, <1>10 DEF IInv

(* ... and an order is placed with the number its transaction holds.       *)
LEMMA CreateCommitKeeps ==
  ASSUME IInv, NEW r \in Slots, CreateCommit(r)
  PROVE  IInv'
<1> DEFINE k == req[r].key
           n == sequence + 1
<1>0. req[r] \in Request /\ At(r, "commit")
  BY DEF IInv, TypeOK, CreateCommit
<1>1. k \in Keys /\ req[r].number = n
  BY <1>0 DEF IInv, AllSane, Sane, OneNumber, At
<1>2. order[k] = 0 /\ n \in Nat /\ n # 0
  BY <1>1 DEF CreateCommit, Placed, IInv, TypeOK
<1>3. order' = [order EXCEPT ![k] = n] /\ sequence' = n
  BY <1>1 DEF CreateCommit
<1>4. \A l \in Keys : order'[l] = IF l = k THEN n ELSE order[l]
  BY <1>3 DEF IInv, TypeOK
<1>5. \A o \in Slots : req'[o] = IF o = r THEN NoRequest ELSE req[o]
  BY DEF CreateCommit, Answer, IInv, TypeOK
<1>6. TypeOK'
  BY <1>2, <1>3, NoRequestFits DEF IInv, TypeOK, CreateCommit, Answer
<1>7. AllSane'
  BY <1>5, NoRequestFits DEF IInv, AllSane, Sane
<1>8. OneNumber'
  <2>1. \A o \in Slots : At(o, "commit")' => o # r /\ At(o, "commit")
    BY <1>5 DEF At, NoRequest
  <2> QED BY <2>1, <1>0 DEF IInv, OneNumber
<1>9. NumbersInSequence'
  <2> HIDE DEF k, n
  <2> DEFINE placed == {l \in Keys : Placed(l)}
  <2>1. {l \in Keys : Placed(l)'} = placed \cup {k}
    BY <1>1, <1>2, <1>4 DEF Placed
  <2>2. {order[l] : l \in placed} = 1..sequence
    BY DEF IInv, NumbersInSequence
  <2>3. k \notin placed
    BY <1>2 DEF Placed
  <2>4. \A l \in placed : l # k /\ order'[l] = order[l] /\ order[l] \in 1..sequence
    BY <1>4, <2>2, <2>3
  <2>5. sequence \in Nat /\ n = sequence + 1
    BY DEF IInv, TypeOK, n
  <2>6. \A l \in placed : order'[l] # n
    BY <2>4, <2>5
  <2>7. {order'[l] : l \in placed \cup {k}} = (1..sequence) \cup {n}
    BY <2>2, <2>4, <1>1, <1>4
  <2>8. (1..sequence) \cup {n} = 1..n
    BY <2>5
  <2>9. \A l, m \in placed \cup {k} : order'[l] = order'[m] => l = m
    <3>1. \A l, m \in placed : order[l] = order[m] => l = m
      BY DEF IInv, NumbersInSequence
    <3> QED BY <3>1, <2>4, <2>6, <1>1, <1>4
  <2> QED BY <2>1, <2>7, <2>8, <2>9, <1>3 DEF NumbersInSequence
<1> QED BY <1>6, <1>7, <1>8, <1>9 DEF IInv

-----------------------------------------------------------------------------
(* The other steps are instances of the frame. *)

LEMMA StillQuiet ==
  ASSUME TypeOK, UNCHANGED <<world, active, saves, cache, order, sequence, faults>>
  PROVE  Quiet
BY DEF TypeOK, Quiet

LEMMA AnswerKeeps ==
  ASSUME IInv, NEW r \in Slots, Answer(r), Quiet
  PROVE  IInv'
<1>1. NoRequest.pc # "commit"
  BY DEF NoRequest
<1> QED BY <1>1, NoRequestFits, Frame DEF Answer

LEMMA SaveReadKeeps ==
  ASSUME IInv, NEW r \in Slots, NEW op \in Saving, NEW zones \in SUBSET Zone,
         SaveRead(r, op, zones)
  PROVE  IInv'
<1>1. PICK q : q = [NoRequest EXCEPT !.pc = "sweep1", !.op = op, !.zones = zones]
  OBVIOUS
<1>2. /\ q.pc = "sweep1" /\ q.locked = {}
      /\ q \in Request
  BY <1>1, NoRequestFits DEF Request, NoRequest
<1>3. Sane(q)
  BY <1>2 DEF Sane
<1>4. req' = [req EXCEPT ![r] = q] /\ Quiet
  BY <1>1, StillQuiet DEF SaveRead, Arrive, IInv
<1> QED BY <1>2, <1>3, <1>4, Frame

LEMMA SweepKeeps ==
  ASSUME IInv, NEW r \in Slots, Sweep(r)
  PROVE  IInv'
<1>1. PICK rows \in SUBSET Rows, pc \in {"lock1", "lock2"} :
        Sweeps(r, rows, pc) /\ \A z \in rows : z.zone.kind = "inclusion"
  BY DEF Sweep, Inclusions, IInv, TypeOK
<1>2. req[r] \in Request /\ Sane(req[r])
  BY DEF IInv, TypeOK, AllSane
<1>3. PICK q : q = [req[r] EXCEPT !.rows = rows, !.pc = pc]
  OBVIOUS
<1>4. /\ q.pc = pc /\ q.rows = rows /\ q.locked = req[r].locked
      /\ q \in Request
  BY <1>2, <1>3 DEF Request
<1>5. Sane(q)
  BY <1>1, <1>2, <1>4 DEF Sane
<1>6. req' = [req EXCEPT ![r] = q] /\ Quiet
  BY <1>1, <1>3, StillQuiet DEF Sweep, Sweeps, IInv
<1> QED BY <1>4, <1>5, <1>6, Frame

LEMMA LockKeeps ==
  ASSUME IInv, NEW r \in Slots, Lock(r)
  PROVE  IInv'
<1>1. req[r] \in Request /\ Sane(req[r])
  BY DEF IInv, TypeOK, AllSane
<1>2. PICK pc \in {"sweep2", "insert"} :
        pc = IF At(r, "lock1") THEN "sweep2" ELSE "insert"
  OBVIOUS
<1>3. PICK q : q = [req[r] EXCEPT !.pc = pc,
                                  !.locked = req[r].locked \cup (req[r].rows \cap active),
                                  !.rows = {}]
  OBVIOUS
<1>4. /\ q.pc = pc /\ q.locked = req[r].locked \cup (req[r].rows \cap active)
      /\ q \in Request
  BY <1>1, <1>3 DEF Request
<1>5. Sane(q)
  BY <1>1, <1>4 DEF Sane, Lock
<1>6. req' = [req EXCEPT ![r] = q] /\ Quiet
  BY <1>1, <1>2, <1>3, StillQuiet DEF Lock, IInv
<1> QED BY <1>4, <1>5, <1>6, Frame

LEMMA SaveCommitKeeps ==
  ASSUME IInv, NEW r \in Slots, SaveCommit(r)
  PROVE  IInv'
<1>1. req[r] \in Request
  BY DEF IInv, TypeOK
<1>2. PICK q : q = [NoRequest EXCEPT !.pc = "after", !.op = req[r].op]
  OBVIOUS
<1>3. q.pc = "after" /\ q.locked = {} /\ q \in Request
  BY <1>1, <1>2, NoRequestFits DEF Request, NoRequest
<1>4. Sane(q)
  BY <1>3 DEF Sane
<1>5. req' = [req EXCEPT ![r] = q]
  BY <1>2 DEF SaveCommit
<1>6. saves + 1 \in 1..MaxSaves /\ saves + 1 \in 0..MaxSaves
  BY ConstantsOK DEF IInv, TypeOK, SaveCommit
<1>7. active' \subseteq Rows
  <2>1. \A z \in req[r].zones : [save |-> saves + 1, zone |-> z] \in Rows
    BY <1>1, <1>6 DEF Request, Rows
  <2> QED BY <2>1 DEF SaveCommit, IInv, TypeOK
<1>8. Quiet
  BY <1>6, <1>7 DEF Quiet, SaveCommit, IInv, TypeOK
<1> QED BY <1>3, <1>4, <1>5, <1>8, Frame

LEMMA ClearSweepKeeps ==
  ASSUME IInv, NEW r \in Slots, ClearSweep(r)
  PROVE  IInv'
<1>1. PICK q : q = [NoRequest EXCEPT !.pc = "lock1", !.op = "clear", !.rows = active]
  OBVIOUS
<1>2. /\ q.pc = "lock1" /\ q.op = "clear" /\ q.locked = {}
      /\ q \in Request
  BY <1>1, NoRequestFits DEF Request, NoRequest, IInv, TypeOK
<1>3. Sane(q)
  BY <1>2 DEF Sane, Saving
<1>4. req' = [req EXCEPT ![r] = q] /\ Quiet
  BY <1>1, StillQuiet DEF ClearSweep, Arrive, IInv
<1> QED BY <1>2, <1>3, <1>4, Frame

LEMMA ClearKeeps ==
  ASSUME IInv, NEW r \in Slots, Clear(r)
  PROVE  IInv'
<1>1. PICK q : q = [NoRequest EXCEPT !.pc = "after", !.op = "clear"]
  OBVIOUS
<1>2. q.pc = "after" /\ q.locked = {} /\ q \in Request
  BY <1>1, NoRequestFits DEF Request, NoRequest
<1>3. Sane(q)
  BY <1>2 DEF Sane
<1>4. req' = [req EXCEPT ![r] = q]
  BY <1>1 DEF Clear
<1>5. Quiet
  BY DEF Quiet, Clear, IInv, TypeOK
<1> QED BY <1>2, <1>3, <1>4, <1>5, Frame

LEMMA ShowReadKeeps ==
  ASSUME IInv, NEW r \in Slots, ShowRead(r)
  PROVE  IInv'
<1>1. PICK q : q = [NoRequest EXCEPT !.pc = "fill", !.op = "show", !.rows = active]
  OBVIOUS
<1>2. /\ q.pc = "fill" /\ q.locked = {}
      /\ q \in Request
  BY <1>1, NoRequestFits DEF Request, NoRequest, IInv, TypeOK
<1>3. Sane(q)
  BY <1>2 DEF Sane
<1>4. req' = [req EXCEPT ![r] = q] /\ Quiet
  BY <1>1, StillQuiet DEF ShowRead, Arrive, IInv
<1> QED BY <1>2, <1>3, <1>4, Frame

LEMMA CreateReadKeeps ==
  ASSUME IInv, NEW r \in Slots, NEW k \in Keys, NEW trip \in Trips,
         CreateRead(r, k, trip)
  PROVE  IInv'
<1>1. PICK q : q = [NoRequest EXCEPT !.pc = "find", !.op = "create",
                                     !.trip = trip, !.key = k]
  OBVIOUS
<1>2. /\ q.pc = "find" /\ q.locked = {} /\ q.key = k
      /\ q \in Request
  BY <1>1, NoRequestFits DEF Request, NoRequest
<1>3. Sane(q)
  BY <1>2 DEF Sane
<1>4. req' = [req EXCEPT ![r] = q] /\ Quiet
  BY <1>1, StillQuiet DEF CreateRead, Arrive, IInv
<1> QED BY <1>2, <1>3, <1>4, Frame

LEMMA CreateNewKeeps ==
  ASSUME IInv, NEW r \in Slots, CreateNew(r)
  PROVE  IInv'
<1>1. req[r] \in Request /\ Sane(req[r])
  BY DEF IInv, TypeOK, AllSane
<1>2. PICK q : q = [req[r] EXCEPT !.pc = "number"]
  OBVIOUS
<1>3. /\ q.pc = "number" /\ q.locked = req[r].locked /\ q.key = req[r].key
      /\ q \in Request
  BY <1>1, <1>2 DEF Request
<1>4. Sane(q)
  BY <1>1, <1>3 DEF Sane, CreateNew, At
<1>5. req' = [req EXCEPT ![r] = q] /\ Quiet
  BY <1>2, StillQuiet DEF CreateNew, IInv
<1> QED BY <1>3, <1>4, <1>5, Frame

-----------------------------------------------------------------------------
LEMMA InitKeeps == Init => IInv
<1> SUFFICES ASSUME Init PROVE IInv
  OBVIOUS
<1>1. world.faults \in Nat /\ MaxSaves \in Nat
  BY ConstantsOK DEF Init
<1>2. TypeOK
  BY <1>1, NoRequestFits DEF Init, TypeOK
<1>3. AllSane
  BY NoRequestFits DEF Init, AllSane
<1>4. OneNumber
  BY DEF Init, OneNumber, At, NoRequest
<1>5. NumbersInSequence
  BY DEF Init, NumbersInSequence, Placed
<1> QED BY <1>2, <1>3, <1>4, <1>5 DEF IInv

LEMMA WritingKeeps ==
  ASSUME IInv, NEW r \in Slots, Writing(r)
  PROVE  IInv'
<1>1. CASE Replace(r)
  <2>1. PICK zones \in Circles : SaveRead(r, "replace", zones)
    BY <1>1 DEF Replace
  <2> QED BY <2>1, SaveReadKeeps, ConstantsOK DEF Saving
<1>2. CASE SaveNeighborhoods(r)
  <2>1. PICK ds \in SUBSET Districts :
          SaveRead(r, "neighborhoods",
            {[kind |-> "inclusion", family |-> "polygon", area |-> d] : d \in ds})
    BY <1>2 DEF SaveNeighborhoods
  <2>2. {[kind |-> "inclusion", family |-> "polygon", area |-> d] : d \in ds}
          \in SUBSET Zone
    BY ConstantsOK DEF Zone
  <2> QED BY <2>1, <2>2, SaveReadKeeps DEF Saving
<1>3. CASE Deadlock(r)
  BY <1>3, AnswerKeeps, StillQuiet DEF Deadlock, IInv
<1>4. CASE CacheDrop(r)
  <2>1. Quiet
    BY <1>4, FaultCounts DEF CacheDrop, Quiet, IInv, TypeOK
  <2> QED BY <1>4, <2>1, AnswerKeeps DEF CacheDrop
<1> QED
  BY <1>1, <1>2, <1>3, <1>4, SweepKeeps, LockKeeps, SaveCommitKeeps,
     ClearSweepKeeps, ClearKeeps DEF Writing

LEMMA ShowingKeeps ==
  ASSUME IInv, NEW r \in Slots, Showing(r)
  PROVE  IInv'
<1>1. CASE ShowFill(r)
  <2>1. req[r].rows \in SUBSET Rows
    BY DEF IInv, TypeOK, Request
  <2>2. Quiet
    BY <1>1, <2>1, FaultCounts DEF ShowFill, Quiet, IInv, TypeOK
  <2> QED BY <1>1, <2>2, AnswerKeeps DEF ShowFill
<1> QED BY <1>1, ShowReadKeeps DEF Showing

LEMMA CreatingKeeps ==
  ASSUME IInv, NEW r \in Slots, Creating(r)
  PROVE  IInv'
<1>1. CASE CreateKnown(r)
  BY <1>1, AnswerKeeps, StillQuiet DEF CreateKnown, IInv
<1>2. CASE CreateDuplicate(r)
  BY <1>2, AnswerKeeps, StillQuiet DEF CreateDuplicate, IInv
<1> QED
  BY <1>1, <1>2, CreateReadKeeps, CreateNewKeeps, TakeNumberKeeps,
     CreateCommitKeeps DEF Creating

LEMMA NextKeeps == IInv /\ [Next]_vars => IInv'
<1> SUFFICES ASSUME IInv, [Next]_vars PROVE IInv'
  OBVIOUS
<1>1. ASSUME NEW r \in Slots, Dies(r) PROVE IInv'
  <2>1. Quiet
    BY <1>1, FaultCounts DEF Dies, Quiet, IInv, TypeOK
  <2> QED BY <1>1, <2>1, AnswerKeeps DEF Dies
<1>2. CASE CacheExpires
  BY <1>2 DEF CacheExpires, IInv, TypeOK, AllSane, OneNumber, At,
              NumbersInSequence, Placed
<1>3. CASE UNCHANGED vars
  BY <1>3 DEF vars, IInv, TypeOK, AllSane, OneNumber, At, NumbersInSequence, Placed
<1> QED
  BY <1>1, <1>2, <1>3, WritingKeeps, ShowingKeeps, CreatingKeeps DEF Next

(* IInv is an invariant for every number of requests, saves and keys.      *)
THEOREM Inductive == Spec => []IInv
BY InitKeeps, NextKeeps, PTL DEF Spec

(* The orders of a washer are numbered 1, 2, 3, ... however placements     *)
(* with the same and other keys overlap, fail or die: the row lock of      *)
(* createOrder's UPDATE lets one transaction hold a number.                *)
THEOREM NumberedInSequence == Spec => []NumbersInSequence
<1>1. IInv => NumbersInSequence
  BY DEF IInv
<1> QED BY <1>1, Inductive, PTL

(* Saves that overlap in any number lift no exclusion; only                *)
(* clearBranchCoverage does.                                               *)
THEOREM ExclusionsKept == Spec => ExclusionsSurvive
<1> DEFINE Kept == \A z \in active \ active' :
                     z.zone.kind = "exclusion" => \E r \in Slots : Clear(r)
<1>1. IInv /\ [Next]_vars => [Kept]_vars
  <2> SUFFICES ASSUME IInv, Next, NEW z \in active \ active',
                      z.zone.kind = "exclusion"
               PROVE  \E r \in Slots : Clear(r)
    OBVIOUS
  <2>1. \A r \in Slots : ~SaveCommit(r)
    BY DEF SaveCommit, IInv, AllSane, Sane
  <2>2. \A r \in Slots : Writing(r) => Clear(r)
    BY <2>1 DEF Writing, Replace, SaveNeighborhoods, SaveRead, Sweep, Lock,
                ClearSweep, Deadlock, CacheDrop
  <2>3. \A r \in Slots : ~Showing(r) /\ ~Dies(r)
    BY DEF Showing, ShowRead, ShowFill, Dies
  <2>4. \A r \in Slots : ~Creating(r)
    BY DEF Creating, CreateRead, CreateKnown, CreateNew, TakeNumber,
           CreateCommit, CreateDuplicate
  <2>5. ~CacheExpires
    BY DEF CacheExpires
  <2> QED BY <2>2, <2>3, <2>4, <2>5 DEF Next
<1> QED BY <1>1, Inductive, PTL DEF Spec, ExclusionsSurvive

(* The type invariant holds in every reachable state. *)
THEOREM TypesKept == Spec => []TypeOK
<1>1. IInv => TypeOK
  BY DEF IInv
<1> QED BY <1>1, Inductive, PTL

-----------------------------------------------------------------------------
(* When requests do not overlap.  One is at work, and what it read is so.  *)

OneAtWork ==
  \A r, o \in Slots : (req[r].pc # "idle" /\ req[o].pc # "idle") => r = o

(* A save alone has locked, or is about to, each inclusion there is. *)
Fresh(q) ==
  /\ (q.pc = "lock1" /\ q.op \in Saving) =>
        q.rows = Inclusions(active, {Families[q.op][1]})
  /\ q.pc \in {"sweep2", "lock2", "insert"} =>
        q.op \in Saving /\ Inclusions(active, {Families[q.op][1]}) \subseteq q.locked
  /\ q.pc = "lock2" => q.rows = Inclusions(active, {Families[q.op][2]})
  /\ q.pc = "insert" => Inclusions(active, {Families[q.op][2]}) \subseteq q.locked
  /\ q.pc = "fill" => q.rows = active
  /\ q.pc = "idle" => q.locked = {}

AllIn == Inclusions(active, {"circle", "polygon"})

OneSave == \A z, y \in AllIn : z.save = y.save

Alone ==
  /\ OneAtWork
  /\ \A r \in Slots : Fresh(req[r])
  /\ OneSave

SInv == IInv /\ (Sequential => Alone)

LEMMA BothFamilies ==
  ASSUME NEW op \in Saving
  PROVE  \/ Families[op][1] = "polygon" /\ Families[op][2] = "circle"
         \/ Families[op][1] = "circle" /\ Families[op][2] = "polygon"
BY DEF Saving, Families

LEMMA AloneInSlots ==
  ASSUME IInv, Sequential, Alone, NEW r \in Slots, NEW how,
         Arrive(r, how) \/ req[r].pc # "idle"
  PROVE  \A o \in Slots \ {r} : req[o].pc = "idle"
<1>1. CASE Arrive(r, how)
  <2>1. IsFiniteSet(AtWork)
    BY ConstantsOK, FS_Subset DEF AtWork
  <2>2. Cardinality(AtWork) = 0
    BY <1>1, <2>1, FS_CardinalityType DEF Arrive, Sequential
  <2>3. AtWork = {}
    BY <2>1, <2>2, FS_EmptySet
  <2> QED BY <2>3 DEF AtWork
<1>2. CASE req[r].pc # "idle"
  BY <1>2 DEF Alone, OneAtWork
<1> QED BY <1>1, <1>2

(* The only request changes: what is left to show. *)
LEMMA AloneFrame ==
  ASSUME IInv, Alone, NEW r \in Slots, NEW q, req' = [req EXCEPT ![r] = q],
         \A o \in Slots \ {r} : req[o].pc = "idle",
         Fresh(q)', OneSave'
  PROVE  Alone'
<1>1. \A o \in Slots : req'[o] = IF o = r THEN q ELSE req[o]
  BY DEF IInv, TypeOK
<1>2. OneAtWork'
  BY <1>1 DEF OneAtWork
<1>3. \A o \in Slots : Fresh(req[o])'
  <2>1. ASSUME NEW o \in Slots \ {r} PROVE Fresh(req[o])'
    <3>1. req'[o] = req[o] /\ req[o].pc = "idle" /\ req[o].locked = {}
      BY <1>1 DEF Alone, Fresh
    <3> QED BY <3>1 DEF Fresh
  <2>2. req'[r] = q
    BY <1>1
  <2> QED BY <2>1, <2>2
<1> QED BY <1>2, <1>3 DEF Alone

(* ... when it leaves the zones alone. *)
LEMMA AloneReads ==
  ASSUME IInv, Alone, NEW r \in Slots, NEW q, req' = [req EXCEPT ![r] = q],
         \A o \in Slots \ {r} : req[o].pc = "idle",
         Fresh(q)', UNCHANGED active
  PROVE  Alone'
<1>1. OneSave'
  BY DEF Alone, OneSave, AllIn, Inclusions
<1> QED BY <1>1, AloneFrame

LEMMA FreshNothing == Fresh(NoRequest)'
BY DEF Fresh, NoRequest

LEMMA SweepAlone ==
  ASSUME IInv, Sequential, Alone, NEW r \in Slots, Sweep(r)
  PROVE  Alone'
<1>0. req[r] \in Request /\ Fresh(req[r]) /\ req[r].pc \in {"sweep1", "sweep2"}
  BY DEF IInv, TypeOK, Alone, Sweep, At
<1>1. \A o \in Slots \ {r} : req[o].pc = "idle"
  BY <1>0, AloneInSlots
<1>2. CASE At(r, "sweep1") /\ req[r].op \in Saving
  <2>1. PICK q : q = [req[r] EXCEPT
          !.rows = Inclusions(active, {Families[req[r].op][1]}), !.pc = "lock1"]
    OBVIOUS
  <2>2. /\ q.pc = "lock1" /\ q.op = req[r].op
        /\ q.rows = Inclusions(active, {Families[q.op][1]})
    BY <1>0, <2>1 DEF Request
  <2>3. Fresh(q)'
    BY <2>2 DEF Fresh, Sweep, Inclusions
  <2>4. req' = [req EXCEPT ![r] = q]
    BY <1>2, <2>1 DEF Sweep, Sweeps, At
  <2> QED BY <1>0, <1>1, <2>3, <2>4, AloneReads DEF Sweep
<1>3. CASE At(r, "sweep2")
  <2>1. PICK q : q = [req[r] EXCEPT
          !.rows = Inclusions(active, {Families[req[r].op][2]}), !.pc = "lock2"]
    OBVIOUS
  <2>2. /\ q.pc = "lock2" /\ q.op = req[r].op /\ q.locked = req[r].locked
        /\ q.rows = Inclusions(active, {Families[q.op][2]})
    BY <1>0, <2>1 DEF Request
  <2>3. Fresh(q)'
    BY <1>0, <1>3, <2>2 DEF Fresh, Sweep, Inclusions, At
  <2>4. req' = [req EXCEPT ![r] = q]
    BY <1>3, <2>1 DEF Sweep, Sweeps, At
  <2> QED BY <1>0, <1>1, <2>3, <2>4, AloneReads DEF Sweep
<1> QED BY <1>2, <1>3 DEF Sweep

LEMMA LockAlone ==
  ASSUME IInv, Sequential, Alone, NEW r \in Slots, Lock(r)
  PROVE  Alone'
<1>0. /\ req[r] \in Request /\ Fresh(req[r])
      /\ req[r].pc \in {"lock1", "lock2"} /\ req[r].op \in Saving
  BY DEF IInv, TypeOK, Alone, Lock
<1>1. \A o \in Slots \ {r} : req[o].pc = "idle"
  BY <1>0, AloneInSlots
<1>2. PICK q : q = [req[r] EXCEPT
        !.pc = IF At(r, "lock1") THEN "sweep2" ELSE "insert",
        !.locked = req[r].locked \cup (req[r].rows \cap active), !.rows = {}]
  OBVIOUS
<1>3. /\ q.pc = IF At(r, "lock1") THEN "sweep2" ELSE "insert"
      /\ q.op = req[r].op
      /\ q.locked = req[r].locked \cup (req[r].rows \cap active)
  BY <1>0, <1>2 DEF Request
<1>4. \A fs : Inclusions(active, fs) \subseteq active
  BY DEF Inclusions
<1>5. Fresh(q)
  BY <1>0, <1>3, <1>4 DEF Fresh, At
<1>6. Fresh(q)'
  BY <1>5 DEF Fresh, Inclusions, Lock
<1>7. req' = [req EXCEPT ![r] = q]
  BY <1>2 DEF Lock
<1> QED BY <1>0, <1>1, <1>6, <1>7, AloneReads DEF Lock

(* The rows a save switches off are all the inclusions there are; what it  *)
(* inserts is of one save.                                                 *)
LEMMA SaveCommitAlone ==
  ASSUME IInv, Sequential, Alone, NEW r \in Slots, SaveCommit(r)
  PROVE  Alone'
<1>0. req[r] \in Request /\ Fresh(req[r]) /\ req[r].pc = "insert"
  BY DEF IInv, TypeOK, Alone, SaveCommit, At
<1>1. \A o \in Slots \ {r} : req[o].pc = "idle"
  BY <1>0, AloneInSlots
<1>2. PICK q : q = [NoRequest EXCEPT !.pc = "after", !.op = req[r].op]
  OBVIOUS
<1>3. q.pc = "after"
  BY <1>2 DEF NoRequest
<1>4. req' = [req EXCEPT ![r] = q]
  BY <1>2 DEF SaveCommit
<1>5. AllIn \subseteq req[r].locked
  <2>1. req[r].op \in Saving
    BY <1>0 DEF Fresh
  <2>2. \A z \in AllIn : \/ z \in Inclusions(active, {Families[req[r].op][1]})
                         \/ z \in Inclusions(active, {Families[req[r].op][2]})
    BY <2>1, BothFamilies DEF AllIn, Inclusions
  <2> QED BY <1>0, <2>2 DEF Fresh
<1>6. \A z \in AllIn' : z.save = saves + 1
  <2>1. ASSUME NEW z \in AllIn' PROVE z.save = saves + 1
    <3>1. z \in active' /\ (z \in active => z \in AllIn)
      BY <2>1 DEF AllIn, Inclusions
    <3>2. z \notin active \ req[r].locked
      BY <1>5, <3>1
    <3> QED BY <3>1, <3>2 DEF SaveCommit
  <2> QED BY <2>1
<1>7. OneSave'
  BY <1>6 DEF OneSave
<1>8. Fresh(q)'
  BY <1>3 DEF Fresh
<1> QED BY <1>1, <1>4, <1>7, <1>8, AloneFrame

LEMMA ClearAlone ==
  ASSUME IInv, Sequential, Alone, NEW r \in Slots, Clear(r)
  PROVE  Alone'
<1>1. \A o \in Slots \ {r} : req[o].pc = "idle"
  BY AloneInSlots DEF Clear, At
<1>2. PICK q : q = [NoRequest EXCEPT !.pc = "after", !.op = "clear"]
  OBVIOUS
<1>3. q.pc = "after"
  BY <1>2 DEF NoRequest
<1>4. req' = [req EXCEPT ![r] = q]
  BY <1>2 DEF Clear
<1>5. AllIn' \subseteq AllIn
  BY DEF AllIn, Inclusions, Clear
<1>6. OneSave'
  BY <1>5 DEF OneSave, Alone
<1>7. Fresh(q)'
  BY <1>3 DEF Fresh
<1> QED BY <1>1, <1>4, <1>6, <1>7, AloneFrame

(* A request is answered. *)
LEMMA AnswerAlone ==
  ASSUME IInv, Sequential, Alone, NEW r \in Slots, req[r].pc # "idle", Answer(r),
         UNCHANGED active
  PROVE  Alone'
<1>1. \A o \in Slots \ {r} : req[o].pc = "idle"
  BY AloneInSlots
<1> QED BY <1>1, FreshNothing, AloneReads DEF Answer

(* A request that begins: it has read what there is. *)
LEMMA ArriveAlone ==
  ASSUME IInv, Sequential, Alone, NEW r \in Slots, NEW how, Arrive(r, how),
         how.pc \in {"sweep1", "lock1", "fill", "find"},
         how.pc = "lock1" => how.op = "clear",
         how.pc = "fill" => how.rows = active,
         UNCHANGED active
  PROVE  Alone'
<1>1. \A o \in Slots \ {r} : req[o].pc = "idle"
  BY AloneInSlots
<1>2. req' = [req EXCEPT ![r] = how]
  BY DEF Arrive
<1>3. Fresh(how)'
  BY DEF Fresh, Saving
<1> QED BY <1>1, <1>2, <1>3, AloneReads

LEMMA WritingAlone ==
  ASSUME IInv, Sequential, Alone, NEW r \in Slots, Writing(r)
  PROVE  Alone'
<1>1. ASSUME NEW op, NEW zones, SaveRead(r, op, zones) PROVE Alone'
  <2>1. PICK how : how = [NoRequest EXCEPT !.pc = "sweep1", !.op = op, !.zones = zones]
    OBVIOUS
  <2>2. how.pc = "sweep1"
    BY <2>1 DEF NoRequest
  <2>3. Arrive(r, how) /\ UNCHANGED active
    BY <1>1, <2>1 DEF SaveRead
  <2> QED BY <2>2, <2>3, ArriveAlone
<1>2. CASE ClearSweep(r)
  <2>1. PICK how : how = [NoRequest EXCEPT !.pc = "lock1", !.op = "clear", !.rows = active]
    OBVIOUS
  <2>2. how.pc = "lock1" /\ how.op = "clear"
    BY <2>1 DEF NoRequest
  <2>3. Arrive(r, how) /\ UNCHANGED active
    BY <1>2, <2>1 DEF ClearSweep
  <2> QED BY <2>2, <2>3, ArriveAlone
<1>3. ~Deadlock(r)
  <2>1. \A o \in Slots : req[o].locked # {} => req[o].pc # "idle"
    BY DEF Alone, Fresh
  <2> QED BY <2>1 DEF Deadlock, Alone, OneAtWork
<1>4. CASE CacheDrop(r)
  BY <1>4, AnswerAlone DEF CacheDrop, At
<1> QED
  BY <1>1, <1>2, <1>3, <1>4, SweepAlone, LockAlone, SaveCommitAlone, ClearAlone
     DEF Writing, Replace, SaveNeighborhoods

LEMMA CreatingAlone ==
  ASSUME IInv, Sequential, Alone, NEW r \in Slots, Creating(r)
  PROVE  Alone'
<1>1. ASSUME NEW k, NEW trip, CreateRead(r, k, trip) PROVE Alone'
  <2>1. PICK how : how = [NoRequest EXCEPT !.pc = "find", !.op = "create",
                                           !.trip = trip, !.key = k]
    OBVIOUS
  <2>2. how.pc = "find"
    BY <2>1 DEF NoRequest
  <2>3. Arrive(r, how) /\ UNCHANGED active
    BY <1>1, <2>1 DEF CreateRead
  <2> QED BY <2>2, <2>3, ArriveAlone
<1>2. CASE CreateKnown(r) \/ CreateDuplicate(r) \/ CreateCommit(r)
  BY <1>2, AnswerAlone DEF CreateKnown, CreateDuplicate, CreateCommit, At
<1>3. ASSUME NEW q, req' = [req EXCEPT ![r] = q],
             req[r].pc \in {"find", "number"}, q.pc \in {"number", "commit"},
             UNCHANGED active
      PROVE  Alone'
  <2>1. Fresh(q)'
    BY <1>3 DEF Fresh
  <2>2. \A o \in Slots \ {r} : req[o].pc = "idle"
    BY <1>3, AloneInSlots
  <2> QED BY <1>3, <2>1, <2>2, AloneReads
<1>4. CASE CreateNew(r)
  <2>1. PICK q : q = [req[r] EXCEPT !.pc = "number"]
    OBVIOUS
  <2>2. q.pc = "number" /\ req' = [req EXCEPT ![r] = q]
    BY <1>4, <2>1 DEF CreateNew, IInv, TypeOK, Request
  <2> QED BY <1>3, <1>4, <2>2 DEF CreateNew, At
<1>5. CASE TakeNumber(r)
  <2>1. PICK q : q = [req[r] EXCEPT !.pc = "commit", !.number = sequence + 1]
    OBVIOUS
  <2>2. q.pc = "commit" /\ req' = [req EXCEPT ![r] = q]
    BY <1>5, <2>1 DEF TakeNumber, IInv, TypeOK, Request
  <2> QED BY <1>3, <1>5, <2>2 DEF TakeNumber, At
<1> QED BY <1>1, <1>2, <1>4, <1>5 DEF Creating

LEMMA NextAlone == SInv /\ [Next]_vars => SInv'
<1> SUFFICES ASSUME SInv, [Next]_vars PROVE SInv'
  OBVIOUS
<1>1. IInv'
  BY NextKeeps DEF SInv
<1>2. SUFFICES ASSUME Sequential' PROVE Alone'
  BY <1>1 DEF SInv
<1>3. world' = world
  BY DEF Next, vars, Writing, Replace, SaveNeighborhoods, SaveRead, Sweep, Lock,
         SaveCommit, ClearSweep, Clear, Deadlock, CacheDrop, Showing, ShowRead,
         ShowFill, Creating, CreateRead, CreateKnown, CreateNew, TakeNumber,
         CreateCommit, CreateDuplicate, Dies, CacheExpires
<1>4. IInv /\ Sequential /\ Alone
  BY <1>2, <1>3 DEF SInv, Sequential
<1>5. ASSUME NEW r \in Slots, ShowRead(r) PROVE Alone'
  <2>1. PICK how : how = [NoRequest EXCEPT !.pc = "fill", !.op = "show", !.rows = active]
    OBVIOUS
  <2>2. how.pc = "fill" /\ how.rows = active
    BY <2>1 DEF NoRequest
  <2>3. Arrive(r, how) /\ UNCHANGED active
    BY <1>5, <2>1 DEF ShowRead
  <2> QED BY <1>4, <2>2, <2>3, ArriveAlone
<1>6. ASSUME NEW r \in Slots, ShowFill(r) PROVE Alone'
  <2>1. req[r].pc = "fill"
    BY <1>6 DEF ShowFill, At
  <2> QED BY <1>4, <1>6, <2>1, AnswerAlone DEF ShowFill
<1>7. ASSUME NEW r \in Slots, Dies(r) PROVE Alone'
  BY <1>4, <1>7, AnswerAlone DEF Dies, AtWork
<1>8. CASE CacheExpires
  BY <1>4, <1>8 DEF CacheExpires, Alone, OneAtWork, Fresh, OneSave,
                   AllIn, Inclusions
<1>9. CASE UNCHANGED vars
  BY <1>4, <1>9 DEF vars, Alone, OneAtWork, Fresh, OneSave, AllIn,
                   Inclusions, At
<1> QED
  BY <1>4, <1>5, <1>6, <1>7, <1>8, <1>9, WritingAlone, CreatingAlone DEF Next, Showing

LEMMA InitAlone == Init => SInv
<1> SUFFICES ASSUME Init PROVE IInv /\ Alone
  BY DEF SInv
<1>1. \A r \in Slots : req[r] = NoRequest
  BY DEF Init
<1>2. active = {}
  BY DEF Init
<1>3. OneAtWork /\ \A r \in Slots : Fresh(req[r])
  BY <1>1 DEF OneAtWork, Fresh, NoRequest
<1>4. OneSave
  BY <1>2 DEF OneSave, AllIn, Inclusions
<1> QED BY <1>3, <1>4, InitKeeps DEF Alone

(* A request that is alone has read what there is: SInv is inductive.      *)
THEOREM SequentialInductive == Spec => []SInv
BY InitAlone, NextAlone, PTL DEF Spec

(* A save replaces the inclusion zones as a whole, wherever requests die,  *)
(* as long as they do not overlap.                                         *)
THEOREM SavedAsOne == Spec => []SavedTogether
<1>1. SInv => SavedTogether
  BY DEF SInv, Alone, OneSave, AllIn, SavedTogether
<1> QED BY <1>1, SequentialInductive, PTL

-----------------------------------------------------------------------------
(* What becomes of the zones staff are shown, step by step. *)
ShownFollows ==
  Stale' =>
    /\ ~Stale => \E r \in Slots :
         \/ Leaves(r, "fill") /\ req[r].rows # active /\ ~Sequential
         \/ ~At(r, "after") /\ At(r, "after")'
    /\ \A r \in Slots : Leaves(r, "after") => faults' > faults

(* A step of one request that leaves the zones and the cache alone. *)
LEMMA QuietFollows ==
  ASSUME IInv, NEW r \in Slots, NEW q, req' = [req EXCEPT ![r] = q],
         UNCHANGED <<active, cache>>, ~At(r, "after") \/ faults' > faults
  PROVE  ShownFollows
<1>1. \A o \in Slots : Leaves(o, "after") => o = r
  BY DEF IInv, TypeOK, Leaves, At
<1>2. Stale' => Stale
  BY DEF Stale
<1> QED BY <1>1, <1>2 DEF ShownFollows, Leaves

(* A commit: its request goes to drop the cache. *)
LEMMA CommitFollows ==
  ASSUME IInv, NEW r \in Slots, SaveCommit(r) \/ Clear(r)
  PROVE  ShownFollows
<1>1. PICK q : req' = [req EXCEPT ![r] = q] /\ q.pc = "after"
  <2>1. ASSUME NEW op PROVE [NoRequest EXCEPT !.pc = "after", !.op = op].pc = "after"
    BY DEF NoRequest
  <2> QED BY <2>1 DEF SaveCommit, Clear
<1>2. ~At(r, "after")
  BY DEF SaveCommit, Clear, At
<1>3. \A o \in Slots : req'[o] = IF o = r THEN q ELSE req[o]
  BY <1>1 DEF IInv, TypeOK
<1> QED BY <1>1, <1>2, <1>3 DEF ShownFollows, Leaves, At

LEMMA DropFollows ==
  ASSUME IInv, NEW r \in Slots, CacheDrop(r)
  PROVE  ShownFollows
<1>1. CASE cache' = {}
  BY <1>1 DEF Stale, ShownFollows
<1>2. CASE Fault /\ UNCHANGED cache
  <2>1. faults' > faults
    BY <1>2, ConstantsOK DEF Fault, IInv, TypeOK
  <2> QED BY <1>2, <2>1, QuietFollows DEF CacheDrop, Answer
<1> QED BY <1>1, <1>2 DEF CacheDrop

(* What is cached is what was read: out of date only if others overlapped. *)
LEMMA FillFollows ==
  ASSUME SInv, NEW r \in Slots, ShowFill(r)
  PROVE  ShownFollows
<1>0. /\ IInv /\ At(r, "fill") /\ UNCHANGED active
      /\ \A o \in Slots : req'[o] = IF o = r THEN NoRequest ELSE req[o]
  BY DEF SInv, IInv, TypeOK, ShowFill, Answer
<1>1. \A o \in Slots : ~Leaves(o, "after")
  BY <1>0 DEF Leaves, At
<1>2. Leaves(r, "fill")
  BY <1>0 DEF Leaves, At, NoRequest
<1>3. Sequential => req[r].rows = active
  BY <1>0 DEF SInv, Alone, Fresh, At
<1>4. Stale' /\ ~Stale => req[r].rows # active
  BY <1>0 DEF ShowFill, Stale
<1> QED BY <1>1, <1>2, <1>3, <1>4 DEF ShownFollows

LEMMA NextFollows ==
  ASSUME SInv, Next PROVE ShownFollows
<1>0. IInv
  BY DEF SInv
<1>1. ASSUME NEW r \in Slots, Writing(r) PROVE ShownFollows
  <2>1. ASSUME NEW how, Arrive(r, how), UNCHANGED <<active, cache>> PROVE ShownFollows
    BY <1>0, <2>1, QuietFollows DEF Arrive, At
  <2>2. CASE Replace(r) \/ SaveNeighborhoods(r)
    BY <2>1, <2>2 DEF Replace, SaveNeighborhoods, SaveRead
  <2>3. CASE ClearSweep(r)
    BY <2>1, <2>3 DEF ClearSweep
  <2>4. CASE Sweep(r)
    BY <1>0, <2>4, QuietFollows DEF Sweep, Sweeps, At
  <2>5. CASE Lock(r)
    BY <1>0, <2>5, QuietFollows DEF Lock, At
  <2>6. CASE Deadlock(r)
    <3>1. ~At(r, "after")
      BY <1>0, <2>6 DEF Deadlock, IInv, AllSane, Sane, At
    <3> QED BY <1>0, <2>6, <3>1, QuietFollows DEF Deadlock, Answer
  <2> QED
    BY <1>0, <1>1, <2>2, <2>3, <2>4, <2>5, <2>6, CommitFollows, DropFollows DEF Writing
<1>2. ASSUME NEW r \in Slots, Showing(r) PROVE ShownFollows
  BY <1>0, <1>2, QuietFollows, FillFollows DEF Showing, ShowRead, Arrive, At
<1>3. ASSUME NEW r \in Slots, Creating(r) PROVE ShownFollows
  BY <1>0, <1>3, QuietFollows DEF Creating, CreateRead, CreateKnown, CreateNew, TakeNumber,
     CreateCommit, CreateDuplicate, Arrive, Answer, At
<1>4. ASSUME NEW r \in Slots, Dies(r) PROVE ShownFollows
  <2>1. faults' > faults
    BY <1>0, <1>4, ConstantsOK DEF Dies, Fault, IInv, TypeOK
  <2> QED BY <1>0, <1>4, <2>1, QuietFollows DEF Dies, Answer
<1>5. CASE CacheExpires
  BY <1>5 DEF CacheExpires, ShownFollows, Stale
<1> QED BY <1>1, <1>2, <1>3, <1>4, <1>5 DEF Next

(* However requests overlap and whatever fails: the zones staff are shown  *)
(* go out of date only by a commit whose request is about to drop them, or *)
(* by a request that overlapped one and caches what it had read; and a     *)
(* request about to drop them does, unless it or Redis fails.              *)
THEOREM CacheInStep == Spec => CacheShowsZones
<1>1. SInv /\ [Next]_vars => [ShownFollows]_vars
  BY NextFollows
<1>2. CacheShowsZones <=> [][ShownFollows]_vars
  BY DEF CacheShowsZones, ShownFollows
<1> QED
  BY <1>1, <1>2, SequentialInductive, PTL DEF Spec
=============================================================================
