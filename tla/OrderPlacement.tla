--------------------------- MODULE OrderPlacement ---------------------------
(***************************************************************************)
(* Placing an order at a branch: the zones the branch serves, which staff  *)
(* replace, save and clear (washers.service.js) and read through a cache,  *)
(* and createOrder of order.service.js, which looks the zones up, knows a  *)
(* retry by its idempotency key and numbers the orders of the washer.      *)
(*                                                                         *)
(* A slot is a request.  Transactions are READ COMMITTED: a statement sees *)
(* what was committed when it started, a row it changes is locked until    *)
(* the transaction ends, and a statement that waited for a row skips it    *)
(* when it no longer matches.  A zone that was deactivated never matters   *)
(* again and leaves the model.  Geometry is the set of places a zone       *)
(* covers.                                                                 *)
(***************************************************************************)
EXTENDS Naturals, FiniteSets

CONSTANTS
  Slots,       \* requests that may be there together
  Worlds,      \* bounds: how many of them overlap, how many faults there are
  Places,
  Circles,     \* what staff may send to replaceBranchCoverage: sets of zones
  Districts,   \* districts of the city, each the places in it
  Trips,       \* where a customer may ask for pickup and delivery
  NoTrip,
  Keys,        \* idempotency keys of the customers
  NoKey,
  MaxSaves     \* bound: how often zones are written

Zone == [kind : {"inclusion", "exclusion"}, family : {"circle", "polygon"},
         area : SUBSET Places]

ASSUME ConstantsOK ==
  /\ IsFiniteSet(Slots)
  /\ Worlds \subseteq [overlap : Nat \ {0}, faults : Nat]
  /\ Circles \subseteq SUBSET Zone
  /\ Districts \subseteq SUBSET Places
  /\ Trips \subseteq [pickup : Places, delivery : Places]
  /\ NoTrip \notin Trips /\ NoKey \notin Keys
  /\ MaxSaves \in Nat

(* Rows of CoverageZone, by the transaction that inserted them. *)
Rows == [save : 1..MaxSaves, zone : Zone]

VARIABLES
  world,     \* which of Worlds this is; never changes
  active,    \* the rows with isActive
  saves,     \* how many transactions have inserted zones
  cache,     \* coverage:branch:<id> in Redis, of one element, or empty
  order,     \* publicNumber of the Order row of each idempotency key, or 0
  sequence,  \* Washer.nextOrderSequence
  req,       \* what each slot is doing
  faults     \* how many faults there have been

vars == <<world, active, saves, cache, order, sequence, req, faults>>

Families == [replace |-> <<"polygon", "circle">>,
             neighborhoods |-> <<"circle", "polygon">>]
Saving   == {"replace", "neighborhoods"}

NoRequest == [pc |-> "idle", op |-> "none", zones |-> {}, rows |-> {},
              locked |-> {}, trip |-> NoTrip, key |-> NoKey, number |-> 0]

Request ==
  [pc : {"idle", "sweep1", "lock1", "sweep2", "lock2", "insert", "after",
         "fill", "find", "number", "commit"},
   op : {"none", "clear", "show", "create"} \cup Saving,
   zones : SUBSET Zone,      \* zones to insert
   rows : SUBSET Rows,       \* what its statement under way matched
   locked : SUBSET Rows,
   trip : Trips \cup {NoTrip}, key : Keys \cup {NoKey}, number : Nat]

TypeOK ==
  /\ world \in Worlds
  /\ active \subseteq Rows
  /\ saves \in 0..MaxSaves
  /\ cache \subseteq SUBSET Rows
  /\ order \in [Keys -> Nat]
  /\ sequence \in Nat
  /\ req \in [Slots -> Request]
  /\ faults \in 0..world.faults

Init ==
  /\ world \in Worlds
  /\ active = {}
  /\ saves = 0
  /\ cache = {}
  /\ order = [k \in Keys |-> 0]
  /\ sequence = 0
  /\ req = [r \in Slots |-> NoRequest]
  /\ faults = 0

-----------------------------------------------------------------------------
At(r, pc) == req[r].pc = pc
AtWork    == {r \in Slots : req[r].pc # "idle"}

Arrive(r, how) ==
  /\ At(r, "idle") /\ Cardinality(AtWork) < world.overlap
  /\ req' = [req EXCEPT ![r] = how]

Answer(r) == req' = [req EXCEPT ![r] = NoRequest]
Fault     == faults < world.faults /\ faults' = faults + 1

-----------------------------------------------------------------------------
(* Staff write the zones of the branch. *)

Inclusions(rows, fs) ==
  {z \in rows : z.zone.kind = "inclusion" /\ z.zone.family \in fs}

SaveRead(r, op, zones) ==
  /\ Arrive(r, [NoRequest EXCEPT !.pc = "sweep1", !.op = op, !.zones = zones])
  /\ UNCHANGED <<world, active, saves, cache, order, sequence, faults>>

Replace(r) == \E zones \in Circles : SaveRead(r, "replace", zones)

(* The chosen districts become polygons; there is at least one. *)
SaveNeighborhoods(r) ==
  \E ds \in SUBSET Districts \ {{}} :
    SaveRead(r, "neighborhoods",
      {[kind |-> "inclusion", family |-> "polygon", area |-> d] : d \in ds})

Sweeps(r, rows, pc) ==
  req' = [req EXCEPT ![r] = [@ EXCEPT !.rows = rows, !.pc = pc]]

Sweep_Bug(r) ==  \* the kind of a zone is not looked at
  /\ \/ /\ At(r, "sweep1") /\ req[r].op \in Saving
        /\ Sweeps(r, {z \in active : z.zone.family = Families[req[r].op][1]}, "lock1")
     \/ /\ At(r, "sweep2")
        /\ Sweeps(r, {z \in active : z.zone.family = Families[req[r].op][2]}, "lock2")
  /\ UNCHANGED <<world, active, saves, cache, order, sequence, faults>>

Sweep_Bug2(r) ==  \* only the other family is switched off
  /\ \/ /\ At(r, "sweep1") /\ req[r].op \in Saving
        /\ Sweeps(r, Inclusions(active, {Families[req[r].op][1]}), "lock1")
     \/ /\ At(r, "sweep2")
        /\ Sweeps(r, {}, "lock2")
  /\ UNCHANGED <<world, active, saves, cache, order, sequence, faults>>

(* The two UPDATEs of a save, each of one family of inclusion zones: first *)
(* the other family, then its own.                                         *)
Sweep(r) ==
  /\ \/ /\ At(r, "sweep1") /\ req[r].op \in Saving
        /\ Sweeps(r, Inclusions(active, {Families[req[r].op][1]}), "lock1")
     \/ /\ At(r, "sweep2")
        /\ Sweeps(r, Inclusions(active, {Families[req[r].op][2]}), "lock2")
  /\ UNCHANGED <<world, active, saves, cache, order, sequence, faults>>

Blocked(r) == \E o \in Slots \ {r} : req[o].locked \cap req[r].rows # {}

(* An UPDATE ends: what it matched and still is active is locked. *)
Lock(r) ==
  /\ req[r].pc \in {"lock1", "lock2"} /\ req[r].op \in Saving
  /\ ~Blocked(r)
  /\ req' = [req EXCEPT ![r] =
       [@ EXCEPT !.pc = IF At(r, "lock1") THEN "sweep2" ELSE "insert",
                 !.locked = req[r].locked \cup (req[r].rows \cap active),
                 !.rows = {}]]
  /\ UNCHANGED <<world, active, saves, cache, order, sequence, faults>>

(* createMany and the commit. *)
SaveCommit(r) ==
  /\ At(r, "insert")
  /\ saves < MaxSaves
  /\ saves' = saves + 1
  /\ active' = (active \ req[r].locked)
               \cup {[save |-> saves + 1, zone |-> z] : z \in req[r].zones}
  /\ req' = [req EXCEPT ![r] = [NoRequest EXCEPT !.pc = "after", !.op = req[r].op]]
  /\ UNCHANGED <<world, cache, order, sequence, faults>>

(* clearBranchCoverage is one UPDATE of every active zone. *)
ClearSweep(r) ==
  /\ Arrive(r, [NoRequest EXCEPT !.pc = "lock1", !.op = "clear", !.rows = active])
  /\ UNCHANGED <<world, active, saves, cache, order, sequence, faults>>

Clear(r) ==
  /\ At(r, "lock1") /\ req[r].op = "clear"
  /\ ~Blocked(r)
  /\ active' = active \ req[r].rows
  /\ req' = [req EXCEPT ![r] = [NoRequest EXCEPT !.pc = "after", !.op = "clear"]]
  /\ UNCHANGED <<world, saves, cache, order, sequence, faults>>

(* Two saves wait for each other's rows: the database ends one. *)
Deadlock(r) ==
  /\ \E o \in Slots \ {r} :
       /\ req[o].locked \cap req[r].rows # {}
       /\ req[r].locked \cap req[o].rows # {}
  /\ Answer(r)
  /\ UNCHANGED <<world, active, saves, cache, order, sequence, faults>>

CacheDrop_Bug(r) ==  \* nobody tells the cache
  /\ At(r, "after")
  /\ Answer(r)
  /\ UNCHANGED <<world, active, saves, cache, order, sequence, faults>>

(* CacheService.del after the commit; that Redis fails is only logged. *)
CacheDrop(r) ==
  /\ At(r, "after")
  /\ \/ cache' = {} /\ UNCHANGED faults
     \/ Fault /\ UNCHANGED cache
  /\ Answer(r)
  /\ UNCHANGED <<world, active, saves, order, sequence>>

(* getBranchCoverage: what the cache has, or the rows, which are cached.   *)
ShowRead(r) ==
  /\ cache = {}
  /\ Arrive(r, [NoRequest EXCEPT !.pc = "fill", !.op = "show", !.rows = active])
  /\ UNCHANGED <<world, active, saves, cache, order, sequence, faults>>

ShowFill(r) ==
  /\ At(r, "fill")
  /\ \/ cache' = {req[r].rows} /\ UNCHANGED faults
     \/ Fault /\ UNCHANGED cache
  /\ Answer(r)
  /\ UNCHANGED <<world, active, saves, order, sequence>>

(* An hour passes. *)
CacheExpires ==
  /\ cache # {}
  /\ cache' = {}
  /\ UNCHANGED <<world, active, saves, order, sequence, req, faults>>

-----------------------------------------------------------------------------
(* A customer places an order. *)

Holds(rows, p) == \E z \in rows : p \in z.zone.area

(* evaluateBranchCoverage: an exclusion of either end decides, two         *)
(* families of inclusions are a conflict, no inclusion covers nothing.     *)
Covers(trip) ==
  LET in == Inclusions(active, {"circle", "polygon"})
      ex == active \ in
  IN /\ ~Holds(ex, trip.pickup) /\ ~Holds(ex, trip.delivery)
     /\ \A z, y \in in : z.zone.family = y.zone.family
     /\ Holds(in, trip.pickup) /\ Holds(in, trip.delivery)

(* createOrder: the transaction reads the branch with its zones; a trip    *)
(* they do not cover is refused.  That the washer and the branch are       *)
(* active, open and accept orders, and the membership active, is taken for *)
(* granted: otherwise the request is refused as well and changes nothing.  *)
CreateRead(r, k, trip) ==
  /\ Covers(trip)
  /\ Arrive(r, [NoRequest EXCEPT !.pc = "find", !.op = "create",
                                  !.trip = trip, !.key = k])
  /\ UNCHANGED <<world, active, saves, cache, order, sequence, faults>>

Placed(k) == order[k] # 0

(* The key is known: the order is answered, or 409 when its content (the   *)
(* geocoder's answers are part of it) is not the same.                     *)
CreateKnown(r) ==
  /\ At(r, "find") /\ Placed(req[r].key)
  /\ Answer(r)
  /\ UNCHANGED <<world, active, saves, cache, order, sequence, faults>>

CreateNew(r) ==
  /\ At(r, "find") /\ ~Placed(req[r].key)
  /\ req' = [req EXCEPT ![r].pc = "number"]
  /\ UNCHANGED <<world, active, saves, cache, order, sequence, faults>>

TakeNumber_Bug(r) ==  \* read and added to, not incremented by the UPDATE
  /\ At(r, "number")
  /\ req' = [req EXCEPT ![r] = [@ EXCEPT !.pc = "commit",
                                         !.number = sequence + 1]]
  /\ UNCHANGED <<world, active, saves, cache, order, sequence, faults>>

(* UPDATE of the washer's row: whoever has incremented it holds it until   *)
(* its transaction has ended.                                              *)
TakeNumber(r) ==
  /\ At(r, "number") /\ \A o \in Slots : ~At(o, "commit")
  /\ req' = [req EXCEPT ![r] = [@ EXCEPT !.pc = "commit",
                                         !.number = sequence + 1]]
  /\ UNCHANGED <<world, active, saves, cache, order, sequence, faults>>

(* INSERT, with its task and events, and the commit. *)
CreateCommit(r) ==
  /\ At(r, "commit") /\ ~Placed(req[r].key)
  /\ order' = [order EXCEPT ![req[r].key] = req[r].number]
  /\ sequence' = req[r].number
  /\ Answer(r)
  /\ UNCHANGED <<world, active, saves, cache, faults>>

(* The key was inserted meanwhile: it is unique, all is rolled back.       *)
CreateDuplicate(r) ==
  /\ At(r, "commit") /\ Placed(req[r].key)
  /\ Answer(r)
  /\ UNCHANGED <<world, active, saves, cache, order, sequence, faults>>

-----------------------------------------------------------------------------
(* A request dies, or its transaction fails and nothing of it is kept. *)
Dies(r) ==
  /\ r \in AtWork
  /\ Fault
  /\ Answer(r)
  /\ UNCHANGED <<world, active, saves, cache, order, sequence>>

Writing(r) ==
  \/ Replace(r) \/ SaveNeighborhoods(r) \/ Sweep(r) \/ Lock(r) \/ SaveCommit(r)
  \/ ClearSweep(r) \/ Clear(r) \/ Deadlock(r) \/ CacheDrop(r)

Showing(r) == ShowRead(r) \/ ShowFill(r)

Creating(r) ==
  \/ \E k \in Keys, trip \in Trips : CreateRead(r, k, trip)
  \/ CreateKnown(r) \/ CreateNew(r) \/ TakeNumber(r)
  \/ CreateCommit(r) \/ CreateDuplicate(r)

Next ==
  \/ \E r \in Slots : Writing(r) \/ Showing(r) \/ Creating(r) \/ Dies(r)
  \/ CacheExpires

Spec == Init /\ [][Next]_vars

-----------------------------------------------------------------------------
(* What holds however requests overlap.                                    *)

(* The orders of a washer are numbered 1, 2, 3, ... without a gap or a     *)
(* number given twice, whatever retries with the same key overlap, are     *)
(* refused by the unique index or die with a number in hand.               *)
NumbersInSequence ==
  LET placed == {k \in Keys : Placed(k)}
  IN /\ {order[k] : k \in placed} = 1..sequence
     /\ \A k, l \in placed : order[k] = order[l] => k = l

(* An exclusion zone is lifted by clearBranchCoverage alone: switching     *)
(* between circles and neighbourhoods preserves it ("preserve              *)
(* exclusions!", washers.service.js:337).                                  *)
ExclusionsSurvive ==
  [][\A z \in active \ active' :
       z.zone.kind = "exclusion" => \E r \in Slots : Clear(r)]_vars

Sequential == world.overlap = 1

Leaves(r, pc) == At(r, pc) /\ ~At(r, pc)'
Stale         == \E shown \in cache : shown # active

(* The zones staff are shown go out of date in two ways: by a commit whose *)
(* request is about to drop them from Redis, and by a request that read    *)
(* them before another's commit and caches them after it                   *)
(* (washers.service.js:274).  A request that is about to drop them does,   *)
(* unless it dies or Redis fails.                                          *)
CacheShowsZones ==
  [][Stale' =>
       /\ ~Stale => \E r \in Slots :
            \/ Leaves(r, "fill") /\ req[r].rows # active /\ ~Sequential
            \/ ~At(r, "after") /\ At(r, "after")'
       /\ \A r \in Slots : Leaves(r, "after") => faults' > faults]_vars

-----------------------------------------------------------------------------
(* What holds when requests do not overlap.                                *)

(* A save replaces the inclusion zones as a whole (washers.service.js:280, *)
(* "Atomically"), wherever a request dies: those that are active were      *)
(* saved together.                                                         *)
SavedTogether ==
  Sequential => \A z, y \in Inclusions(active, {"circle", "polygon"}) : z.save = y.save
=============================================================================
