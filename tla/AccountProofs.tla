---------------------------- MODULE AccountProofs ----------------------------
(***************************************************************************)
(* Accounts for any number of numbers, identities and requests in flight.  *)
(*                                                                         *)
(* The budgets of one-time codes hold because a write that is still to     *)
(* come is a request past its check: what was spent and the requests past  *)
(* the check, together, never exceed the requests there are (CodePart,     *)
(* PhonePart).  A deleted account stays deleted because nobody is at work  *)
(* on it when it goes, and everything that would begin to is refused       *)
(* (GonePart).                                                             *)
(***************************************************************************)
EXTENDS Accounts, FiniteSetTheorems, WellFoundedInduction, TLAPS

Budget == Cardinality(world.slots)

(* Requests past a check whose write is still to come. *)
Reading(c)  == {r \in Slots : req[r].pc = "code" /\ req[r].c = c}
Sending(p)  == {r \in Slots : req[r].pc \in {"expire", "create"} /\ req[r].phone = p}
Creating(p) == {r \in Slots : req[r].pc = "create" /\ req[r].phone = p}

Good(p)    == {c \in Unverified(p) : code[c].st = "live"}
Cooling(p) == {c \in Of(p) : code[c].cool}

(* The counters of a code are naturals; their bounds follow from CodePart. *)
CodeRow == [phone : Phones \cup {Anon}, st : {"none", "live", "expired"},
            cool : BOOLEAN, verified : BOOLEAN, attempts : Nat, uses : Nat]

Shape ==
  /\ world \in Worlds
  /\ code \in [Codes -> CodeRow]
  /\ ident \in [Ids -> Identity]
  /\ sess \in [Sess -> Session]
  /\ req \in [Slots -> Request]
  /\ found \subseteq Ids
  /\ faults \in 0..world.faults

(* Only slots of this world are in use, and who logs in has a number. *)
ReqPart ==
  \A r \in Slots :
    /\ req[r].pc # "idle" => r \in world.slots
    /\ req[r].pc \in {"code", "default", "login"} => req[r].phone \in Phones

(* What a code was spent on and what may still be spent on it. *)
CodePart ==
  \A c \in Codes :
    /\ code[c].st = "none" => code[c].phone = Anon
    /\ code[c].uses > 0 => code[c].verified
    /\ code[c].uses + Cardinality(Reading(c)) <= Budget
    /\ code[c].attempts + Cardinality(Reading(c)) <= MaxAttempts - 1 + Budget

(* What a number has and what is still being sent to it. *)
PhonePart ==
  \A p \in Phones :
    /\ Cardinality(Good(p)) + Cardinality(Creating(p)) <= Budget
    /\ Cardinality(Cooling(p)) + Cardinality(Sending(p)) <= Budget

(* Nobody is at work on an account that is gone, nor storing a device for  *)
(* one that waits.                                                         *)
Gone(i) ==
  /\ ident[i].wiped =>
       /\ ident[i].status = "deleted" /\ ident[i].phone = Anon /\ ~ident[i].device
       /\ \A n \in Sess : sess[n].of = i => sess[n].st # "live"
       /\ \A r \in Slots : req[r].i # i
  /\ ident[i].status = "pending_deletion" =>
       /\ ~ident[i].device
       /\ \A r \in Slots : req[r].i = i => req[r].op # "fcm"

GonePart == \A i \in Ids : ~ident[i].excused => Gone(i)

AccountInv == Shape /\ ReqPart /\ CodePart /\ PhonePart /\ GonePart

LEMMA BudgetNat == Shape => Budget \in Nat /\ IsFiniteSet(world.slots)
<1> SUFFICES ASSUME Shape PROVE Budget \in Nat /\ IsFiniteSet(world.slots)
  OBVIOUS
<1>1. world.slots \subseteq Slots
  BY ConstantsOK DEF Shape
<1>2. IsFiniteSet(world.slots)
  BY <1>1, ConstantsOK, FS_Subset
<1> QED
  BY <1>2, FS_CardinalityType DEF Budget

LEMMA InitAccount == Init => AccountInv
<1> SUFFICES ASSUME Init PROVE AccountInv
  OBVIOUS
<1>1. Shape
  BY ConstantsOK DEF Init, Shape, CodeRow, NoCode, NoIdentity, NoSession, NoRequest, Identity,
     Session, Request
<1>2. ReqPart
  BY DEF Init, ReqPart, NoRequest
<1>3. Budget \in Nat
  BY BudgetNat, <1>1
<1>4. CodePart
  <2>1. \A c \in Codes : Reading(c) = {}
    BY DEF Init, Reading, NoRequest
  <2>2. \A c \in Codes : Cardinality(Reading(c)) = 0
    BY <2>1, FS_EmptySet
  <2> QED
    BY <1>3, <2>2, ConstantsOK DEF Init, CodePart, NoCode
<1>5. PhonePart
  <2>1. \A p \in Phones : Good(p) = {} /\ Cooling(p) = {} /\ Creating(p) = {} /\ Sending(p) = {}
    BY DEF Init, Good, Unverified, Of, CodeMade, Cooling, Creating, Sending, NoCode, NoRequest
  <2>2. \A p \in Phones : /\ Cardinality(Good(p)) = 0 /\ Cardinality(Cooling(p)) = 0
                          /\ Cardinality(Creating(p)) = 0 /\ Cardinality(Sending(p)) = 0
    BY <2>1, FS_EmptySet
  <2> QED
    BY <1>3, <2>2 DEF PhonePart
<1>6. GonePart
  BY DEF Init, GonePart, Gone, NoIdentity
<1> QED
  BY <1>1, <1>2, <1>4, <1>5, <1>6 DEF AccountInv

-----------------------------------------------------------------------------
(* What a step does to the requests. *)

Pcs == {"idle", "expire", "create", "code", "close", "default", "login",
        "session", "auth", "read", "enroll", "member"}

Tickets == {"expire", "create", "code"}

(* No new request is past a check of the codes. *)
NoTickets ==
  \A o \in Slots : req'[o].pc \in Tickets =>
    req'[o].pc = req[o].pc /\ req'[o].phone = req[o].phone /\ req'[o].c = req[o].c

LEMMA Went ==
  ASSUME Shape, ReqPart, world' = world, NEW r \in Slots, NEW pc \in Pcs, req[r].pc # "idle",
         pc \in {"code", "default", "login"} => req[r].phone \in Phones, Go(r, pc)
  PROVE  /\ req' \in [Slots -> Request] /\ ReqPart'
         /\ \A o \in Slots \ {r} : req'[o] = req[o]
         /\ req'[r].pc = pc /\ req'[r].op = req[r].op /\ req'[r].phone = req[r].phone
         /\ req'[r].c = req[r].c /\ req'[r].i = req[r].i /\ req'[r].s = req[r].s
         /\ pc \notin Tickets => NoTickets
<1>1. PICK x : x = [req[r] EXCEPT !.pc = pc]
  OBVIOUS
<1>2. req[r] \in Request
  BY DEF Shape
<1>3. /\ x \in Request
      /\ x.pc = pc /\ x.op = req[r].op /\ x.phone = req[r].phone
      /\ x.c = req[r].c /\ x.i = req[r].i /\ x.s = req[r].s
  BY <1>1, <1>2 DEF Request, Pcs
<1>4. req' = [req EXCEPT ![r] = x]
  BY <1>1 DEF Go
<1>5. req' \in [Slots -> Request] /\ req'[r] = x /\ \A o \in Slots \ {r} : req'[o] = req[o]
  BY <1>3, <1>4 DEF Shape
<1>6. ReqPart'
  BY <1>3, <1>5 DEF ReqPart
<1>7. pc \notin Tickets => NoTickets
  BY <1>3, <1>5 DEF NoTickets
<1> QED
  BY <1>3, <1>5, <1>6, <1>7

LEMMA Answered ==
  ASSUME Shape, ReqPart, world' = world, NEW r \in Slots, Answer(r)
  PROVE  /\ req' \in [Slots -> Request] /\ ReqPart' /\ NoTickets
         /\ \A o \in Slots \ {r} : req'[o] = req[o]
         /\ req'[r].pc = "idle" /\ req'[r].op = "none" /\ req'[r].i = 0
<1>1. /\ NoRequest \in Request /\ NoRequest.pc = "idle" /\ NoRequest.op = "none"
      /\ NoRequest.i = 0
  BY ConstantsOK DEF NoRequest, Request
<1>2. /\ req' \in [Slots -> Request] /\ req'[r] = NoRequest
      /\ \A o \in Slots \ {r} : req'[o] = req[o]
  BY <1>1 DEF Answer, Shape
<1>3. ReqPart' /\ NoTickets
  BY <1>1, <1>2 DEF ReqPart, NoTickets, Tickets
<1> QED
  BY <1>1, <1>2, <1>3

LEMMA Arrived ==
  ASSUME Shape, ReqPart, world' = world, NEW r \in Slots, NEW how \in Request,
         how.pc \in {"code", "default", "login"} => how.phone \in Phones, Arrive(r, how)
  PROVE  /\ req' \in [Slots -> Request] /\ ReqPart' /\ req'[r] = how
         /\ r \in world.slots /\ req[r].pc = "idle"
         /\ \A o \in Slots \ {r} : req'[o] = req[o]
         /\ how.pc \notin Tickets => NoTickets
<1>1. /\ req' \in [Slots -> Request] /\ req'[r] = how
      /\ \A o \in Slots \ {r} : req'[o] = req[o]
      /\ r \in world.slots /\ req[r].pc = "idle"
  BY DEF Arrive, Shape
<1>2. ReqPart'
  BY <1>1 DEF ReqPart
<1>3. how.pc \notin Tickets => NoTickets
  BY <1>1 DEF NoTickets
<1> QED
  BY <1>1, <1>2, <1>3

(* The requests that begin. *)
LEMMA Begun ==
  ASSUME NEW pc \in Pcs,
         NEW op \in {"none", "send", "verify"} \cup Customers \cup Others,
         NEW p \in Phones \cup {Anon}, NEW c \in 0..MaxCodes, NEW i \in 0..MaxIds,
         NEW s \in 0..MaxSessions
  PROVE  [pc |-> pc, op |-> op, phone |-> p, c |-> c, i |-> i, s |-> s] \in Request
BY DEF Request, Pcs

-----------------------------------------------------------------------------
(* Customers, administrators and the job.  None of them touches a code.    *)

Kept == Shape' /\ ReqPart' /\ GonePart' /\ NoTickets /\ code' = code /\ world' = world

Before == Shape /\ ReqPart /\ GonePart

LEMMA LoginUpsertKept ==
  ASSUME Before, NEW r \in Slots, LoginUpsert(r)
  PROVE  Kept
<1>1. /\ req[r].pc = "login" /\ req[r].op = "verify" /\ req[r].phone \in Phones
      /\ UNCHANGED <<world, code, sess, found, faults>>
      /\ Shape /\ ReqPart /\ GonePart
  BY DEF LoginUpsert, At, Before, ReqPart
<1>2. CASE Answer(r) /\ UNCHANGED ident
  <2>1. /\ req' \in [Slots -> Request] /\ ReqPart' /\ NoTickets
        /\ \A o \in Slots \ {r} : req'[o] = req[o]
        /\ req'[r].i = 0
    BY <1>1, <1>2, Answered
  <2>2. Shape'
    BY <1>1, <1>2, <2>1 DEF Shape
  <2>3. GonePart'
    BY <1>1, <1>2, <2>1 DEF GonePart, Gone, Ids
  <2> QED
    BY <1>1, <2>1, <2>2, <2>3 DEF Kept
<1>3. ASSUME NEW i \in Ids, Upsert(req[r].phone, i),
             ident[i].status # "deleted",
             req' = [req EXCEPT ![r].pc = "session", ![r].i = i]
      PROVE  Kept
  <2>1. PICK x : x = [req[r] EXCEPT !.pc = "session", !.i = i]
    OBVIOUS
  <2>2. req[r] \in Request
    BY <1>1 DEF Shape
  <2>3. x \in Request /\ x.pc = "session" /\ x.i = i /\ x.op = req[r].op
    <3>1. i \in 0..MaxIds
      BY ConstantsOK DEF Ids
    <3> QED
      BY <2>1, <2>2, <3>1 DEF Request
  <2>4. req' = [req EXCEPT ![r] = x]
    BY <1>3, <2>1
  <2>5. /\ req' \in [Slots -> Request] /\ req'[r] = x
        /\ \A o \in Slots \ {r} : req'[o] = req[o]
    BY <1>1, <2>3, <2>4 DEF Shape
  <2>6. ReqPart' /\ NoTickets
    BY <1>1, <2>3, <2>5 DEF ReqPart, NoTickets, Tickets
  <2>7. CASE ident' = ident
    <3>1. Shape'
      BY <1>1, <2>5, <2>7 DEF Shape
    <3>2. GonePart'
      BY <1>1, <1>3, <2>3, <2>5, <2>7 DEF GonePart, Gone
    <3> QED
      BY <1>1, <2>6, <3>1, <3>2 DEF Kept
  <2>8. ASSUME ~Exists(i),
               ident' = [ident EXCEPT ![i] = [NoIdentity EXCEPT !.phone = req[r].phone,
                                                                !.status = "active"]]
        PROVE  Kept
    <3>1. PICK y : y = [NoIdentity EXCEPT !.phone = req[r].phone, !.status = "active"]
      OBVIOUS
    <3>2. y \in Identity /\ y.status = "active" /\ y.wiped = FALSE
      BY <1>1, <3>1 DEF NoIdentity, Identity
    <3>3. ident' \in [Ids -> Identity] /\ ident'[i] = y
          /\ \A j \in Ids \ {i} : ident'[j] = ident[j]
      BY <1>1, <2>8, <3>1, <3>2 DEF Shape
    <3>4. Shape'
      BY <1>1, <2>5, <3>3 DEF Shape
    <3>5. GonePart'
      BY <1>1, <2>3, <2>5, <3>2, <3>3 DEF GonePart, Gone
    <3> QED
      BY <1>1, <2>6, <3>4, <3>5 DEF Kept
  <2> QED
    BY <1>3, <2>7, <2>8 DEF Upsert, NextRow
<1>4. ASSUME NEW i \in Ids, Upsert(req[r].phone, i), ident[i].status = "deleted", Answer(r)
      PROVE  ident' = ident
  BY <1>4 DEF Upsert, NextRow, Exists
<1> QED
  BY <1>2, <1>3, <1>4 DEF LoginUpsert

LEMMA LoginSessionKept ==
  ASSUME Before, NEW r \in Slots, LoginSession(r)
  PROVE  Kept
<1>1. /\ UNCHANGED <<world, code, ident, found, faults>> /\ Answer(r)
      /\ Shape /\ ReqPart /\ GonePart
  BY DEF LoginSession, Before
<1>2. /\ req' \in [Slots -> Request] /\ ReqPart' /\ NoTickets
      /\ \A o \in Slots \ {r} : req'[o] = req[o]
      /\ req'[r].i = 0
  BY <1>1, Answered
<1>3. CASE sess' = sess
  <2>1. Shape'
    BY <1>1, <1>2, <1>3 DEF Shape
  <2>2. GonePart'
    BY <1>1, <1>2, <1>3 DEF GonePart, Gone, Ids
  <2> QED
    BY <1>1, <1>2, <2>1, <2>2 DEF Kept
<1>4. ASSUME NEW n \in Sess, NEW kind \in {"operational", "provisional"},
             sess' = [sess EXCEPT ![n] = [of |-> req[r].i, st |-> "live", kind |-> kind]]
      PROVE  Kept
  <2>1. req[r].i \in 0..MaxIds
    BY <1>1 DEF Shape, Request
  <2>2. PICK y : y = [of |-> req[r].i, st |-> "live", kind |-> kind]
    OBVIOUS
  <2>3. y \in Session /\ y.of = req[r].i
    BY <2>1, <2>2 DEF Session
  <2>4. /\ sess' \in [Sess -> Session] /\ sess'[n].of = req[r].i
        /\ \A m \in Sess \ {n} : sess'[m] = sess[m]
    BY <1>1, <1>4, <2>2, <2>3 DEF Shape
  <2>5. Shape'
    BY <1>1, <1>2, <2>4 DEF Shape
  <2>6. GonePart'
    BY <1>1, <1>2, <2>4 DEF GonePart, Gone, Ids
  <2> QED
    BY <1>1, <1>2, <2>5, <2>6 DEF Kept
<1> QED
  BY <1>3, <1>4 DEF LoginSession

LEMMA EnrollReadKept ==
  ASSUME Before, NEW r \in Slots, NEW n \in Sess, EnrollRead(r, n)
  PROVE  Kept
<1>1. /\ UNCHANGED <<world, code, ident, sess, found, faults>> /\ sess[n].st = "live"
      /\ Shape /\ ReqPart /\ GonePart
  BY DEF EnrollRead, Before
<1>2. PICK how : how = [NoRequest EXCEPT !.pc = "enroll", !.op = "enroll",
                                         !.i = sess[n].of, !.s = n]
  OBVIOUS
<1>3. sess[n].of \in 0..MaxIds
  BY <1>1 DEF Shape, Session
<1>4. how \in Request /\ how.pc = "enroll" /\ how.op = "enroll" /\ how.i = sess[n].of
  <2>1. how = [pc |-> "enroll", op |-> "enroll", phone |-> Anon, c |-> 0,
               i |-> sess[n].of, s |-> n]
    BY <1>2 DEF NoRequest
  <2>2. 0 \in 0..MaxCodes /\ n \in 0..MaxSessions
    BY ConstantsOK DEF Sess
  <2>3. how \in Request
    BY <1>3, <2>1, <2>2, Begun DEF Pcs, Others
  <2> QED
    BY <2>1, <2>3
<1>5. Arrive(r, how)
  BY <1>2 DEF EnrollRead
<1>6. /\ req' \in [Slots -> Request] /\ ReqPart' /\ req'[r] = how /\ NoTickets
      /\ \A o \in Slots \ {r} : req'[o] = req[o]
  BY <1>1, <1>4, <1>5, Arrived DEF Tickets
<1>7. Shape'
  BY <1>1, <1>6 DEF Shape
<1>8. GonePart'
  BY <1>1, <1>4, <1>6 DEF GonePart, Gone
<1> QED
  BY <1>1, <1>6, <1>7, <1>8 DEF Kept

(* A request that writes the row of its own account, and perhaps begins a  *)
(* session of it, and ends.                                                *)
OwnSess(r) ==
  /\ sess' \in [Sess -> Session]
  /\ \A n \in Sess : sess'[n].st = "live" =>
       sess'[n].of = req[r].i \/ (sess[n].st = "live" /\ sess'[n].of = sess[n].of)

LEMMA SameSess == Before /\ sess' = sess => \A r \in Slots : OwnSess(r)
BY DEF Before, Shape, OwnSess

LEMMA OwnWritten ==
  ASSUME Before, NEW r \in Slots, Answer(r), OwnSess(r),
         UNCHANGED <<world, code, found, faults>>, NEW y,
         ident' = [ident EXCEPT ![req[r].i] = y],
         req[r].i \in Ids =>
           /\ y \in Identity
           /\ ident[req[r].i].excused => y.excused
           /\ y.wiped => ident[req[r].i].wiped
           /\ y.status = "pending_deletion" /\ ~y.excused =>
                /\ ~y.device
                /\ \A o \in Slots \ {r} : req[o].i = req[r].i => req[o].op # "fcm"
  PROVE  Kept
<1>1. Shape /\ ReqPart /\ GonePart
  BY DEF Before
<1>2. /\ req' \in [Slots -> Request] /\ ReqPart' /\ NoTickets
      /\ \A o \in Slots \ {r} : req'[o] = req[o]
      /\ req'[r].i = 0
  BY <1>1, Answered
<1>3. /\ ident' \in [Ids -> Identity]
      /\ req[r].i \in Ids => ident'[req[r].i] = y
      /\ \A j \in Ids \ {req[r].i} : ident'[j] = ident[j]
  BY <1>1 DEF Shape
<1>4. Shape'
  BY <1>1, <1>2, <1>3 DEF Shape, OwnSess
<1>5. GonePart'
  <2>1. ASSUME NEW j \in Ids \ {req[r].i}, ~ident'[j].excused PROVE Gone(j)'
    BY <1>1, <1>2, <1>3, <2>1 DEF GonePart, Gone, Ids, OwnSess
  <2>2. ASSUME NEW i \in Ids, i = req[r].i, ~ident'[i].excused PROVE Gone(i)'
    <3>1. ident'[i] = y /\ ~y.excused /\ ~ident[i].excused /\ 0 # i
      BY <1>3, <2>2 DEF Ids
    <3>2. ~ident[i].wiped /\ ~y.wiped
      BY <1>1, <2>2, <3>1 DEF GonePart, Gone
    <3>3. \A o \in Slots : req'[o].i = i => o # r /\ req'[o] = req[o]
      BY <1>2, <3>1
    <3> QED
      BY <2>2, <3>1, <3>2, <3>3 DEF Gone
  <2> QED
    BY <2>1, <2>2 DEF GonePart
<1> QED
  BY <1>2, <1>4, <1>5 DEF Kept

(* A membership, whether the customer enrolls or an administrator adds it. *)
LEMMA MemberMade ==
  ASSUME Before, NEW r \in Slots, Answer(r), req[r].op # "fcm", OwnSess(r),
         UNCHANGED <<world, code, found, faults>>,
         ident' = [ident EXCEPT ![req[r].i].member = TRUE]
  PROVE  Kept
<1>1. Shape /\ GonePart
  BY DEF Before
<1>2. PICK y : y = [ident[req[r].i] EXCEPT !.member = TRUE]
  OBVIOUS
<1>3. ident' = [ident EXCEPT ![req[r].i] = y]
  BY <1>2
<1>4. ASSUME req[r].i \in Ids
      PROVE  /\ y \in Identity
             /\ ident[req[r].i].excused => y.excused
             /\ y.wiped => ident[req[r].i].wiped
             /\ y.status = ident[req[r].i].status
             /\ y.device => ident[req[r].i].device
             /\ y.excused => ident[req[r].i].excused
  <2>1. PICK a \in Identity : a = ident[req[r].i]
    BY <1>1, <1>4 DEF Shape
  <2>2. y = [a EXCEPT !.member = TRUE]
    BY <1>2, <2>1
  <2>3. /\ y \in Identity /\ y.excused = a.excused /\ y.wiped = a.wiped
        /\ y.status = a.status /\ y.device = a.device
    BY <2>2 DEF Identity
  <2> QED
    BY <2>1, <2>3
<1>5. ASSUME req[r].i \in Ids, y.status = "pending_deletion", ~y.excused
      PROVE  /\ ~y.device
             /\ \A o \in Slots \ {r} : req[o].i = req[r].i => req[o].op # "fcm"
  BY <1>1, <1>4, <1>5 DEF GonePart, Gone
<1> QED
  BY <1>3, <1>4, <1>5, OwnWritten

(* The other writes by id. *)
LEMMA OwnActs ==
  ASSUME Before, NEW r \in Slots,
         UpsertFcmToken(r) \/ RequestDeletion(r) \/ RestoreAccount(r) \/ CreateMembership(r)
  PROVE  Kept
<1>1. Shape /\ GonePart
  BY DEF Before
<1>2. CASE UpsertFcmToken(r)
  <2>1. PICK y : y = [ident[req[r].i] EXCEPT !.device = TRUE]
    OBVIOUS
  <2>2. ident' = [ident EXCEPT ![req[r].i] = y] /\ req[r].op = "fcm"
    BY <1>2, <2>1 DEF UpsertFcmToken, At
  <2>3. ASSUME req[r].i \in Ids
        PROVE  /\ y \in Identity
               /\ ident[req[r].i].excused => y.excused
               /\ y.wiped => ident[req[r].i].wiped
               /\ y.status = ident[req[r].i].status
    <3>1. PICK a \in Identity : a = ident[req[r].i]
      BY <1>1, <2>3 DEF Shape
    <3>2. y = [a EXCEPT !.device = TRUE]
      BY <2>1, <3>1
    <3>3. y \in Identity /\ y.wiped = a.wiped /\ y.excused = a.excused /\ y.status = a.status
      BY <3>2 DEF Identity
    <3> QED
      BY <3>1, <3>3
  <2>4. ASSUME req[r].i \in Ids, y.status = "pending_deletion", ~y.excused PROVE FALSE
    <3>1. ~ident[req[r].i].excused /\ ident[req[r].i].status = "pending_deletion"
      BY <2>3, <2>4
    <3> QED
      BY <1>1, <2>2, <2>4, <3>1 DEF GonePart, Gone
  <2>5. Answer(r) /\ UNCHANGED <<world, code, sess, found, faults>>
    BY <1>2 DEF UpsertFcmToken
  <2> QED
    BY <2>2, <2>3, <2>4, <2>5, OwnWritten, SameSess
<1>3. CASE RequestDeletion(r)
  <2>0. PICK b \in BOOLEAN : b = (ident[req[r].i].excused \/ Overtakes(req[r].i, r))
    BY Zenon
  <2>1. PICK y : y = [ident[req[r].i] EXCEPT !.status = "pending_deletion", !.due = FALSE,
                                            !.device = FALSE, !.excused = b]
    OBVIOUS
  <2>2. ident' = [ident EXCEPT ![req[r].i] = y]
    BY <1>3, <2>0, <2>1 DEF RequestDeletion
  <2>3. ASSUME req[r].i \in Ids
        PROVE  /\ y \in Identity
               /\ y.wiped => ident[req[r].i].wiped
               /\ ~y.device /\ y.excused = b
    <3>1. PICK a \in Identity : a = ident[req[r].i]
      BY <1>1, <2>3 DEF Shape
    <3>2. y = [a EXCEPT !.status = "pending_deletion", !.due = FALSE,
                           !.device = FALSE, !.excused = b]
      BY <2>1, <3>1
    <3>3. y \in Identity /\ y.wiped = a.wiped /\ y.device = FALSE /\ y.excused = b
      BY <3>2 DEF Identity
    <3> QED
      BY <3>1, <3>3
  <2>4. ASSUME ~b PROVE \A o \in Slots \ {r} : req[o].i # req[r].i
    BY <2>0, <2>4 DEF Overtakes
  <2>5. Answer(r) /\ UNCHANGED <<world, code, sess, found, faults>>
    BY <1>3 DEF RequestDeletion
  <2>6. ident[req[r].i].excused => b
    BY <2>0
  <2> QED
    BY <2>2, <2>3, <2>4, <2>5, <2>6, OwnWritten, SameSess
<1>4. CASE RestoreAccount(r)
  <2>1. PICK y : y = [ident[req[r].i] EXCEPT !.status = "active", !.due = FALSE]
    OBVIOUS
  <2>2. ident' = [ident EXCEPT ![req[r].i] = y]
    BY <1>4, <2>1 DEF RestoreAccount
  <2>3. ASSUME req[r].i \in Ids
        PROVE  /\ y \in Identity
               /\ ident[req[r].i].excused => y.excused
               /\ y.wiped => ident[req[r].i].wiped
               /\ y.status = "active"
    <3>1. PICK a \in Identity : a = ident[req[r].i]
      BY <1>1, <2>3 DEF Shape
    <3>2. y = [a EXCEPT !.status = "active", !.due = FALSE]
      BY <2>1, <3>1
    <3>3. y \in Identity /\ y.wiped = a.wiped /\ y.excused = a.excused /\ y.status = "active"
      BY <3>2 DEF Identity
    <3> QED
      BY <3>1, <3>3
  <2>4. Answer(r) /\ UNCHANGED <<world, code, sess, found, faults>>
    BY <1>4 DEF RestoreAccount
  <2> QED
    BY <2>2, <2>3, <2>4, OwnWritten, SameSess
<1>5. CASE CreateMembership(r)
  <2>1. ident' = [ident EXCEPT ![req[r].i].member = TRUE]
    BY <1>5 DEF CreateMembership
  <2>2. Answer(r) /\ UNCHANGED <<world, code, sess, found, faults>>
    BY <1>5 DEF CreateMembership
  <2>3. At(r, "member", "create")
    BY <1>5 DEF CreateMembership
  <2> QED
    BY <2>1, <2>2, <2>3, MemberMade, SameSess DEF At
<1> QED
  BY <1>2, <1>3, <1>4, <1>5

(* A request that ends, or goes on, and writes nothing. *)
LEMMA NothingWritten ==
  ASSUME Before, UNCHANGED <<world, code, ident, sess, found, faults>>, NEW r \in Slots,
         Answer(r) \/ (Go(r, "read") /\ req[r].pc # "idle")
  PROVE  Kept
<1>1. Shape /\ ReqPart /\ GonePart
  BY DEF Before
<1>2. /\ req' \in [Slots -> Request] /\ ReqPart' /\ NoTickets
      /\ \A o \in Slots \ {r} : req'[o] = req[o]
      /\ req'[r].i = 0 \/ (req'[r].i = req[r].i /\ req'[r].op = req[r].op)
  <2>1. CASE Answer(r)
    BY <1>1, <2>1, Answered
  <2>2. CASE Go(r, "read") /\ req[r].pc # "idle"
    BY <1>1, <2>2, Went DEF Pcs, Tickets
  <2> QED
    BY <2>1, <2>2
<1>3. Shape'
  BY <1>1, <1>2 DEF Shape
<1>4. GonePart'
  BY <1>1, <1>2 DEF GonePart, Gone, Ids
<1> QED
  BY <1>2, <1>3, <1>4 DEF Kept

LEMMA EnrollCommitKept ==
  ASSUME Before, NEW r \in Slots, EnrollCommit(r)
  PROVE  Kept
<1>1. /\ Answer(r) /\ req[r].op = "enroll" /\ UNCHANGED <<world, code, found, faults>>
      /\ Shape
  BY DEF EnrollCommit, At, Before
<1>2. CASE ident' = [ident EXCEPT ![req[r].i].member = TRUE] /\ UNCHANGED sess
  BY <1>1, <1>2, MemberMade, SameSess
<1>3. ASSUME NEW m \in Sess, ident' = [ident EXCEPT ![req[r].i].member = TRUE],
             sess' = [sess EXCEPT ![req[r].s].st = "replaced",
                        ![m] = [of |-> req[r].i, st |-> "live", kind |-> "operational"]]
      PROVE  Kept
  <2>1. PICK mid : mid = [sess EXCEPT ![req[r].s].st = "replaced"]
    OBVIOUS
  <2>2. /\ mid \in [Sess -> Session]
        /\ \A n \in Sess : mid[n].st = "live" => sess[n].st = "live" /\ mid[n].of = sess[n].of
    <3>1. PICK a : a = [sess[req[r].s] EXCEPT !.st = "replaced"]
      OBVIOUS
    <3>2. mid = [sess EXCEPT ![req[r].s] = a]
      BY <2>1, <3>1
    <3>3. req[r].s \in Sess => a \in Session /\ a.st = "replaced"
      BY <1>1, <3>1 DEF Shape, Session
    <3> QED
      BY <1>1, <3>2, <3>3 DEF Shape
  <2>3. PICK y : y = [of |-> req[r].i, st |-> "live", kind |-> "operational"]
    OBVIOUS
  <2>4. sess' = [mid EXCEPT ![m] = y]
    BY <1>3, <2>1, <2>3
  <2>5. y \in Session /\ y.of = req[r].i
    BY <1>1, <2>3 DEF Shape, Request, Session
  <2>6. OwnSess(r)
    BY <2>2, <2>4, <2>5 DEF OwnSess
  <2> QED
    BY <1>1, <1>3, <2>6, MemberMade
<1>4. CASE UNCHANGED <<ident, sess>>
  BY <1>1, <1>4, NothingWritten
<1> QED
  BY <1>2, <1>3, <1>4 DEF EnrollCommit

LEMMA AccountReadKept ==
  ASSUME Before, NEW r \in Slots, AccountRead(r)
  PROVE  Kept
BY NothingWritten DEF AccountRead, At

LEMMA UpdatePhoneKept ==
  ASSUME Before, NEW r \in Slots, UpdatePhone(r)
  PROVE  Kept
<1>1. /\ Answer(r) /\ req[r].op = "phone" /\ UNCHANGED <<world, code, sess, found, faults>>
      /\ Shape /\ GonePart
  BY DEF UpdatePhone, At, Before
<1>2. PICK p \in world.phones : ident' = ident \/ ident' = [ident EXCEPT ![req[r].i].phone = p]
  BY DEF UpdatePhone
<1>3. CASE ident' = ident
  BY <1>1, <1>3, NothingWritten
<1>4. CASE ident' = [ident EXCEPT ![req[r].i].phone = p]
  <2>1. PICK y : y = [ident[req[r].i] EXCEPT !.phone = p]
    OBVIOUS
  <2>2. ident' = [ident EXCEPT ![req[r].i] = y]
    BY <1>4, <2>1
  <2>3. ASSUME req[r].i \in Ids
        PROVE  /\ y \in Identity
               /\ ident[req[r].i].excused => y.excused
               /\ y.excused => ident[req[r].i].excused
               /\ y.wiped => ident[req[r].i].wiped
               /\ y.status = ident[req[r].i].status
               /\ y.device => ident[req[r].i].device
    <3>1. PICK a \in Identity : a = ident[req[r].i]
      BY <1>1, <2>3 DEF Shape
    <3>2. y = [a EXCEPT !.phone = p] /\ p \in Phones
      BY <1>1, <2>1, <3>1, ConstantsOK DEF Shape
    <3>3. /\ y \in Identity /\ y.wiped = a.wiped /\ y.excused = a.excused
          /\ y.status = a.status /\ y.device = a.device
      BY <3>2 DEF Identity
    <3> QED
      BY <3>1, <3>3
  <2>4. ASSUME req[r].i \in Ids, y.status = "pending_deletion", ~y.excused
        PROVE  /\ ~y.device
               /\ \A o \in Slots \ {r} : req[o].i = req[r].i => req[o].op # "fcm"
    BY <1>1, <2>3, <2>4 DEF GonePart, Gone
  <2> QED
    BY <1>1, <2>2, <2>3, <2>4, OwnWritten, SameSess
<1> QED
  BY <1>2, <1>3, <1>4

LEMMA AuthKept ==
  ASSUME Before, NEW r \in Slots, NEW i \in Ids, NEW op \in Customers, Auth(r, i, op)
  PROVE  Kept
<1>1. /\ UNCHANGED <<world, code, ident, sess, found, faults>>
      /\ ident[i].status # "deleted"
      /\ ident[i].status = "pending_deletion" => op # "fcm"
      /\ Shape /\ ReqPart /\ GonePart
  BY DEF Auth, Before
<1>2. PICK how : how = [NoRequest EXCEPT !.pc = "auth", !.op = op, !.i = i]
  OBVIOUS
<1>3. how \in Request /\ how.pc = "auth" /\ how.op = op /\ how.i = i
  <2>1. how = [pc |-> "auth", op |-> op, phone |-> Anon, c |-> 0, i |-> i, s |-> 0]
    BY <1>2 DEF NoRequest
  <2>2. 0 \in 0..MaxCodes /\ i \in 0..MaxIds /\ 0 \in 0..MaxSessions
    BY ConstantsOK DEF Ids
  <2>3. how \in Request
    BY <2>1, <2>2, Begun DEF Pcs
  <2> QED
    BY <2>1, <2>3
<1>4. Arrive(r, how)
  BY <1>2 DEF Auth
<1>5. /\ req' \in [Slots -> Request] /\ ReqPart' /\ req'[r] = how /\ NoTickets
      /\ \A o \in Slots \ {r} : req'[o] = req[o]
  BY <1>1, <1>3, <1>4, Arrived DEF Tickets
<1>6. Shape'
  BY <1>1, <1>5 DEF Shape
<1>7. GonePart'
  BY <1>1, <1>3, <1>5 DEF GonePart, Gone
<1> QED
  BY <1>1, <1>5, <1>6, <1>7 DEF Kept

LEMMA CreateUserKept ==
  ASSUME Before, NEW r \in Slots, NEW p \in world.phones, NEW i \in Ids, CreateUser(r, p, i)
  PROVE  Kept
<1>1. /\ UNCHANGED <<world, code, sess, found, faults>> /\ Upsert(p, i)
      /\ p \in Phones /\ Shape /\ ReqPart /\ GonePart
  BY ConstantsOK DEF CreateUser, Before, Shape
<1>2. PICK how : how = [NoRequest EXCEPT !.pc = "member", !.op = "create", !.i = i]
  OBVIOUS
<1>3. how \in Request /\ how.pc = "member" /\ how.op = "create" /\ how.i = i
  <2>1. how = [pc |-> "member", op |-> "create", phone |-> Anon, c |-> 0, i |-> i, s |-> 0]
    BY <1>2 DEF NoRequest
  <2>2. 0 \in 0..MaxCodes /\ i \in 0..MaxIds /\ 0 \in 0..MaxSessions
    BY ConstantsOK DEF Ids
  <2>3. how \in Request
    BY <2>1, <2>2, Begun DEF Pcs, Others
  <2> QED
    BY <2>1, <2>3
<1>4. Arrive(r, how)
  BY <1>2 DEF CreateUser
<1>5. /\ req' \in [Slots -> Request] /\ ReqPart' /\ req'[r] = how /\ NoTickets
      /\ \A o \in Slots \ {r} : req'[o] = req[o]
  BY <1>1, <1>3, <1>4, Arrived DEF Tickets
<1>6. CASE ident' = ident /\ i \in Holding(p)
  <2>1. Shape'
    BY <1>1, <1>5, <1>6 DEF Shape
  <2>2. ident[i].phone # Anon
    BY <1>1, <1>6, ConstantsOK DEF Holding
  <2>3. GonePart'
    BY <1>1, <1>3, <1>5, <1>6, <2>2 DEF GonePart, Gone
  <2> QED
    BY <1>1, <1>5, <2>1, <2>3 DEF Kept
<1>7. ASSUME ident' = [ident EXCEPT ![i] = [NoIdentity EXCEPT !.phone = p, !.status = "active"]]
      PROVE  Kept
  <2>1. PICK y : y = [NoIdentity EXCEPT !.phone = p, !.status = "active"]
    OBVIOUS
  <2>2. y \in Identity /\ y.status = "active" /\ y.wiped = FALSE
    BY <1>1, <2>1 DEF NoIdentity, Identity
  <2>3. ident' \in [Ids -> Identity] /\ ident'[i] = y
        /\ \A j \in Ids \ {i} : ident'[j] = ident[j]
    BY <1>1, <1>7, <2>1, <2>2 DEF Shape
  <2>4. Shape'
    BY <1>1, <1>5, <2>3 DEF Shape
  <2>5. GonePart'
    BY <1>1, <1>3, <1>5, <2>2, <2>3 DEF GonePart, Gone
  <2> QED
    BY <1>1, <1>5, <2>4, <2>5 DEF Kept
<1> QED
  BY <1>1, <1>6, <1>7 DEF Upsert

(* The row of an account is written while the requests rest. *)
LEMMA RowWritten ==
  ASSUME Before, UNCHANGED <<world, code, sess, req, found, faults>>,
         NEW i \in Ids, NEW y \in Identity, ident' = [ident EXCEPT ![i] = y],
         Gone(i) => y.excused \/ (/\ ~ident[i].excused
                                  /\ y.wiped => /\ ident[i].wiped /\ y.status = "deleted"
                                                /\ y.phone = ident[i].phone
                                  /\ y.device = ident[i].device
                                  /\ y.status = "pending_deletion" =>
                                       ident[i].status = "pending_deletion"),
         ~Gone(i) => y.excused
  PROVE  Kept
<1>1. Shape /\ ReqPart /\ GonePart
  BY DEF Before
<1>2. /\ ident' \in [Ids -> Identity] /\ ident'[i] = y
      /\ \A j \in Ids \ {i} : ident'[j] = ident[j]
  BY <1>1 DEF Shape
<1>3. Shape'
  BY <1>1, <1>2 DEF Shape
<1>4. ReqPart' /\ NoTickets
  BY <1>1 DEF ReqPart, NoTickets
<1>5. ASSUME NEW j \in Ids \ {i}, ~ident'[j].excused PROVE Gone(j)'
  BY <1>1, <1>2, <1>5 DEF GonePart, Gone
<1>6. ASSUME ~y.excused PROVE Gone(i)'
  BY <1>1, <1>2, <1>6 DEF GonePart, Gone
<1>7. GonePart'
  BY <1>2, <1>5, <1>6 DEF GonePart
<1> QED
  BY <1>3, <1>4, <1>7 DEF Kept

LEMMA RowActs ==
  ASSUME Before, NEW i \in Ids, FallDue(i) \/ DeleteUser(i) \/ UpdateUser(i)
  PROVE  Kept
<1>1. PICK a \in Identity : a = ident[i]
  BY DEF Before, Shape
<1>2. /\ UNCHANGED <<world, code, sess, req, found, faults>>
      /\ ~a.excused => Gone(i)
  BY <1>1 DEF FallDue, DeleteUser, UpdateUser, Before, GonePart
<1>3. CASE FallDue(i)
  <2>1. PICK y : y = [a EXCEPT !.due = TRUE]
    OBVIOUS
  <2>2. y \in Identity /\ y.excused = a.excused /\ y.wiped = a.wiped /\ y.phone = a.phone
        /\ y.device = a.device /\ y.status = a.status
    BY <2>1 DEF Identity
  <2>3. ident' = [ident EXCEPT ![i] = y]
    BY <1>1, <1>3, <2>1 DEF FallDue
  <2>4. Gone(i) /\ y.wiped => y.status = "deleted"
    BY <1>1, <2>2 DEF Gone
  <2> QED
    BY <1>1, <1>2, <2>2, <2>3, <2>4, RowWritten
<1>4. CASE DeleteUser(i)
  <2>1. PICK y : y = [a EXCEPT !.status = "deleted"]
    OBVIOUS
  <2>2. y \in Identity /\ y.excused = a.excused /\ y.wiped = a.wiped /\ y.phone = a.phone
        /\ y.device = a.device /\ y.status = "deleted"
    BY <2>1 DEF Identity
  <2>3. ident' = [ident EXCEPT ![i] = y]
    BY <1>1, <1>4, <2>1 DEF DeleteUser
  <2> QED
    BY <1>1, <1>2, <2>2, <2>3, RowWritten
<1>5. CASE UpdateUser(i)
  <2>1. PICK p \in {a.phone} \cup {q \in world.phones : Holding(q) = {}},
             status \in {a.status, "active"} :
               ident' = [ident EXCEPT ![i].phone = p, ![i].status = status,
                                      ![i].excused = a.excused \/ a.wiped]
    BY <1>1, <1>5 DEF UpdateUser
  <2>2. PICK y : y = [a EXCEPT !.phone = p, !.status = status,
                               !.excused = a.excused \/ a.wiped]
    OBVIOUS
  <2>3. /\ y \in Identity /\ y.wiped = a.wiped /\ y.device = a.device
        /\ y.status \in {a.status, "active"}
        /\ y.excused = (a.excused \/ a.wiped)
    BY <1>1, <2>1, <2>2, ConstantsOK DEF Identity, Before, Shape
  <2>4. ident' = [ident EXCEPT ![i] = y]
    BY <1>1, <2>1, <2>2
  <2> QED
    BY <1>1, <1>2, <2>3, <2>4, RowWritten
<1> QED
  BY <1>3, <1>4, <1>5

LEMMA JobActs ==
  ASSUME Before,
         JobFind \/ \E i \in Ids : JobFault(i)
  PROVE  Kept
<1>1. UNCHANGED <<world, code, ident, sess, req>>
  BY DEF JobFind, JobFault
<1>2. found' \subseteq Ids /\ faults' \in 0..world.faults
  BY ConstantsOK DEF JobFind, JobFault, Before, Shape
<1> QED
  BY <1>1, <1>2 DEF Before, Kept, Shape, ReqPart, GonePart, Gone, NoTickets

LEMMA JobDeleteKept ==
  ASSUME Before, NEW i \in Ids, JobDelete(i)
  PROVE  Kept
<1>1. UNCHANGED <<world, code, req, faults>> /\ found' \subseteq Ids
      /\ Shape /\ ReqPart /\ GonePart
  BY DEF JobDelete, Before, Shape
<1>2. PICK a \in Identity : a = ident[i]
  BY <1>1 DEF Shape
<1>3. PICK b \in BOOLEAN : b = (ident[i].excused \/ \E r \in Slots : req[r].i = i)
  BY Zenon
<1>4. PICK y : y = [ident[i] EXCEPT !.status = "deleted", !.phone = Anon,
                             !.device = FALSE, !.wiped = TRUE, !.excused = b]
  OBVIOUS
<1>5. y \in Identity /\ y.status = "deleted" /\ y.phone = Anon /\ y.device = FALSE
      /\ y.excused = b
  BY <1>2, <1>4 DEF Identity
<1>6. ident' = [ident EXCEPT ![i] = y]
  BY <1>3, <1>4 DEF JobDelete, Anonymised
<1>7. /\ ident' \in [Ids -> Identity] /\ ident'[i] = y
      /\ \A j \in Ids \ {i} : ident'[j] = ident[j]
  BY <1>1, <1>5, <1>6 DEF Shape
<1>8. /\ sess' \in [Sess -> Session]
      /\ \A n \in Sess : /\ sess'[n].of = sess[n].of
                         /\ sess'[n].st = "live" => sess[n].st = "live" /\ sess[n].of # i
  <2>1. ASSUME NEW n \in Sess
        PROVE  /\ sess'[n] \in Session /\ sess'[n].of = sess[n].of
               /\ sess'[n].st = "live" => sess[n].st = "live" /\ sess[n].of # i
    <3>1. PICK x \in Session : x = sess[n]
      BY <1>1 DEF Shape
    <3>2. PICK z : z = [x EXCEPT !.st = "account_deleted"]
      OBVIOUS
    <3>3. z \in Session /\ z.of = x.of /\ z.st = "account_deleted"
      BY <3>2 DEF Session
    <3>4. sess'[n] = IF x.of = i /\ x.st = "live" THEN z ELSE x
      BY <3>1, <3>2 DEF JobDelete
    <3> QED
      BY <3>1, <3>3, <3>4
  <2>2. sess' = [n \in Sess |-> sess'[n]]
    BY DEF JobDelete
  <2> QED
    BY <2>1, <2>2
<1>9. Shape'
  BY <1>1, <1>7, <1>8 DEF Shape
<1>10. ReqPart' /\ NoTickets
  BY <1>1 DEF ReqPart, NoTickets
<1>11. ASSUME NEW j \in Ids \ {i}, ~ident'[j].excused PROVE Gone(j)'
  BY <1>1, <1>7, <1>8, <1>11 DEF GonePart, Gone
<1>12. ASSUME ~b PROVE Gone(i)'
  BY <1>1, <1>3, <1>5, <1>7, <1>8, <1>12 DEF Gone
<1>13. GonePart'
  BY <1>5, <1>7, <1>11, <1>12 DEF GonePart
<1> QED
  BY <1>1, <1>9, <1>10, <1>13 DEF Kept

-----------------------------------------------------------------------------
(* Counting. *)

LEMMA Fewer ==
  ASSUME NEW S, IsFiniteSet(S), NEW T \in SUBSET S
  PROVE  Cardinality(T) \in Nat /\ Cardinality(S) \in Nat /\ Cardinality(T) <= Cardinality(S)
BY FS_Subset, FS_CardinalityType

LEMMA OneLess ==
  ASSUME NEW S, IsFiniteSet(S), NEW x \in S, NEW T \in SUBSET (S \ {x})
  PROVE  Cardinality(T) \in Nat /\ Cardinality(S) \in Nat
         /\ Cardinality(T) + 1 <= Cardinality(S)
<1>1. IsFiniteSet(S \ {x}) /\ Cardinality(S \ {x}) = Cardinality(S) - 1
  BY FS_RemoveElement
<1>2. Cardinality(T) \in Nat /\ Cardinality(T) <= Cardinality(S \ {x})
  BY <1>1, Fewer
<1>3. Cardinality(S) \in Nat
  BY FS_CardinalityType
<1> QED
  BY <1>1, <1>2, <1>3

LEMMA OneMore ==
  ASSUME NEW S, IsFiniteSet(S), NEW x, NEW T \in SUBSET (S \cup {x})
  PROVE  Cardinality(T) \in Nat /\ Cardinality(S) \in Nat
         /\ Cardinality(T) <= Cardinality(S) + 1
<1>1. /\ IsFiniteSet(S \cup {x})
      /\ Cardinality(S \cup {x}) = IF x \in S THEN Cardinality(S) ELSE Cardinality(S) + 1
  BY FS_AddElement
<1>2. /\ Cardinality(T) \in Nat /\ Cardinality(S \cup {x}) \in Nat
      /\ Cardinality(T) <= Cardinality(S \cup {x})
  BY <1>1, Fewer
<1>3. Cardinality(S) \in Nat
  BY FS_CardinalityType
<1> QED
  BY <1>1, <1>2, <1>3

Counted ==
  /\ \A c \in Codes : IsFiniteSet(Reading(c)) /\ Cardinality(Reading(c)) \in Nat
  /\ \A p \in Phones :
       /\ IsFiniteSet(Good(p)) /\ Cardinality(Good(p)) \in Nat
       /\ IsFiniteSet(Cooling(p)) /\ Cardinality(Cooling(p)) \in Nat
       /\ IsFiniteSet(Creating(p)) /\ Cardinality(Creating(p)) \in Nat
       /\ IsFiniteSet(Sending(p)) /\ Cardinality(Sending(p)) \in Nat

LEMMA AllCounted == Counted
<1>1. IsFiniteSet(Codes)
  BY ConstantsOK, FS_Interval DEF Codes
<1>2. \A c \in Codes : Reading(c) \subseteq Slots
  BY DEF Reading
<1>3. \A p \in Phones : /\ Good(p) \subseteq Codes /\ Cooling(p) \subseteq Codes
                        /\ Creating(p) \subseteq Slots /\ Sending(p) \subseteq Slots
  BY DEF Good, Unverified, Of, Cooling, Creating, Sending
<1>4. \A S \in SUBSET Slots : IsFiniteSet(S) /\ Cardinality(S) \in Nat
  BY ConstantsOK, FS_Subset, FS_CardinalityType
<1>5. \A S \in SUBSET Codes : IsFiniteSet(S) /\ Cardinality(S) \in Nat
  BY <1>1, FS_Subset, FS_CardinalityType
<1> QED
  BY <1>2, <1>3, <1>4, <1>5 DEF Counted

LEMMA CountedNext == Counted'
BY AllCounted, PTL

(* Who is at work has a slot of this world. *)
LEMMA AtWork ==
  ASSUME Shape, ReqPart
  PROVE  /\ Budget \in Nat
         /\ \A S \in SUBSET {r \in Slots : req[r].pc # "idle"} : Cardinality(S) <= Budget
<1>1. Budget \in Nat /\ IsFiniteSet(world.slots)
  BY BudgetNat
<1>2. {r \in Slots : req[r].pc # "idle"} \subseteq world.slots
  BY DEF ReqPart
<1>3. \A S \in SUBSET world.slots : Cardinality(S) <= Budget
  BY <1>1, Fewer DEF Budget
<1> QED
  BY <1>1, <1>2, <1>3

LEMMA AtWorkNext ==
  ASSUME Shape', ReqPart', world' = world
  PROVE  /\ Budget \in Nat
         /\ \A S \in SUBSET {r \in Slots : req'[r].pc # "idle"} : Cardinality(S) <= Budget
<1>1. IsFiniteSet(world.slots)
  BY ConstantsOK, FS_Subset DEF Shape
<1>2. {r \in Slots : req'[r].pc # "idle"} \subseteq world.slots
  BY DEF ReqPart
<1>3. Budget \in Nat
  BY <1>1, FS_CardinalityType DEF Budget
<1>4. \A S \in SUBSET world.slots : Cardinality(S) <= Budget
  BY <1>1, Fewer DEF Budget
<1> QED
  BY <1>2, <1>3, <1>4

-----------------------------------------------------------------------------
(* What spends of a code, and what does not. *)

(* The counters of a code, the mark apart. *)
Counts(c) ==
  /\ code'[c].uses > 0 => code'[c].verified
  /\ code'[c].st = "none" => code'[c].phone = Anon

LEMMA CodeQuiet ==
  ASSUME Shape, CodePart, Shape', world' = world,
         \A o \in Slots : req'[o].pc = "code" => req[o].pc = "code" /\ req'[o].c = req[o].c,
         \A c \in Codes : /\ Counts(c)
                          /\ code'[c].uses <= code[c].uses
                          /\ code'[c].attempts <= code[c].attempts
  PROVE  CodePart'
<1> SUFFICES ASSUME NEW c \in Codes
             PROVE  /\ (code[c].uses + Cardinality(Reading(c)) <= Budget)'
                    /\ (code[c].attempts + Cardinality(Reading(c)) <= MaxAttempts - 1 + Budget)'
  BY DEF CodePart, Counts
<1>1. Reading(c)' \subseteq Reading(c)
  BY DEF Reading
<1>2. IsFiniteSet(Reading(c))
  BY AllCounted DEF Counted
<1>3. PICK k, l \in Nat : k = Cardinality(Reading(c)) /\ l = Cardinality(Reading(c)') /\ l <= k
  BY <1>1, <1>2, Fewer
<1>4. Budget' = Budget /\ Budget \in Nat
  BY BudgetNat DEF Budget
<1>5. PICK u, v, a, b \in Nat : /\ u = code[c].uses /\ v = code'[c].uses
                                /\ a = code[c].attempts /\ b = code'[c].attempts
  BY DEF Shape, CodeRow
<1>6. u + k <= Budget /\ a + k <= MaxAttempts - 1 + Budget
  BY <1>3, <1>5 DEF CodePart
<1>7. v + l <= Budget /\ b + l <= MaxAttempts - 1 + Budget
  BY <1>3, <1>4, <1>5, <1>6, ConstantsOK
<1> QED
  BY <1>3, <1>4, <1>5, <1>7

(* A request past the check enters its code, a wrong one or the right one. *)
LEMMA CodeSpent ==
  ASSUME Shape, CodePart, Shape', world' = world, NEW r \in Slots, req[r].pc = "code",
         req'[r].pc # "code", \A o \in Slots \ {r} : req'[o] = req[o],
         \A c \in Codes : /\ Counts(c)
                          /\ c # req[r].c => /\ code'[c].uses <= code[c].uses
                                            /\ code'[c].attempts <= code[c].attempts
                          /\ code'[c].uses <= code[c].uses + 1
                          /\ code'[c].attempts <= code[c].attempts + 1
  PROVE  CodePart'
<1> SUFFICES ASSUME NEW c \in Codes
             PROVE  /\ (code[c].uses + Cardinality(Reading(c)) <= Budget)'
                    /\ (code[c].attempts + Cardinality(Reading(c)) <= MaxAttempts - 1 + Budget)'
  BY DEF CodePart, Counts
<1>1. IsFiniteSet(Reading(c))
  BY AllCounted DEF Counted
<1>2. Budget' = Budget /\ Budget \in Nat
  BY BudgetNat DEF Budget
<1>3. PICK u, v, a, b \in Nat : /\ u = code[c].uses /\ v = code'[c].uses
                                /\ a = code[c].attempts /\ b = code'[c].attempts
  BY DEF Shape, CodeRow
<1>4. PICK k, l \in Nat :
        /\ k = Cardinality(Reading(c)) /\ l = Cardinality(Reading(c)')
        /\ v + l <= u + k /\ b + l <= a + k
  <2>1. CASE c = req[r].c
    <3>1. r \in Reading(c) /\ Reading(c)' \subseteq Reading(c) \ {r}
      BY <2>1 DEF Reading
    <3>2. PICK k, l \in Nat : /\ k = Cardinality(Reading(c)) /\ l = Cardinality(Reading(c)')
                              /\ l + 1 <= k
      BY <1>1, <3>1, OneLess
    <3>3. v <= u + 1 /\ b <= a + 1
      BY <1>3
    <3> QED
      BY <3>2, <3>3
  <2>2. CASE c # req[r].c
    <3>1. Reading(c)' \subseteq Reading(c)
      BY <2>2 DEF Reading
    <3>2. PICK k, l \in Nat : /\ k = Cardinality(Reading(c)) /\ l = Cardinality(Reading(c)')
                              /\ l <= k
      BY <1>1, <3>1, Fewer
    <3>3. v <= u /\ b <= a
      BY <1>3, <2>2
    <3> QED
      BY <3>2, <3>3
  <2> QED
    BY <2>1, <2>2
<1>5. u + k <= Budget /\ a + k <= MaxAttempts - 1 + Budget
  BY <1>3, <1>4 DEF CodePart
<1>6. v + l <= Budget /\ b + l <= MaxAttempts - 1 + Budget
  BY <1>2, <1>3, <1>4, <1>5, ConstantsOK
<1> QED
  BY <1>2, <1>3, <1>4, <1>6

(* A request passes the check of a code nobody has used, with attempts     *)
(* left.                                                                   *)
LEMMA CodeRead ==
  ASSUME Shape, ReqPart, CodePart, Shape', ReqPart', UNCHANGED <<world, code>>,
         NEW r \in Slots, NEW d \in Codes, ~code[d].verified, code[d].attempts < MaxAttempts,
         req'[r].c = d, \A o \in Slots \ {r} : req'[o] = req[o]
  PROVE  CodePart'
<1> SUFFICES ASSUME NEW c \in Codes
             PROVE  /\ (code[c].uses + Cardinality(Reading(c)) <= Budget)'
                    /\ (code[c].attempts + Cardinality(Reading(c)) <= MaxAttempts - 1 + Budget)'
  BY DEF CodePart
<1>1. IsFiniteSet(Reading(c))
  BY AllCounted DEF Counted
<1>2. Budget' = Budget /\ Budget \in Nat
  BY BudgetNat DEF Budget
<1>3. PICK u, a \in Nat : u = code[c].uses /\ a = code[c].attempts
  BY DEF Shape, CodeRow
<1>4. PICK l \in Nat : l = Cardinality(Reading(c)')
  BY CountedNext DEF Counted
<1>5. CASE c = d
  <2>1. Reading(c)' \in SUBSET {o \in Slots : req'[o].pc # "idle"}
    BY DEF Reading
  <2>2. l <= Budget
    BY <1>4, <2>1, AtWorkNext
  <2>3. u = 0 /\ a <= MaxAttempts - 1
    <3>1. ~(u > 0)
      BY <1>3, <1>5 DEF CodePart
    <3>2. a < MaxAttempts
      BY <1>3, <1>5
    <3> QED
      BY <1>3, <3>1, <3>2, ConstantsOK
  <2>4. u + l <= Budget /\ a + l <= MaxAttempts - 1 + Budget
    BY <1>2, <1>3, <1>4, <2>2, <2>3, ConstantsOK
  <2> QED
    BY <1>2, <1>3, <1>4, <2>4
<1>6. CASE c # d
  <2>1. Reading(c)' \subseteq Reading(c)
    BY <1>6 DEF Reading
  <2>2. PICK k \in Nat : k = Cardinality(Reading(c)) /\ l <= k
    BY <1>1, <1>4, <2>1, Fewer
  <2>3. u + k <= Budget /\ a + k <= MaxAttempts - 1 + Budget
    BY <1>3, <2>2 DEF CodePart
  <2>4. u + l <= Budget /\ a + l <= MaxAttempts - 1 + Budget
    BY <1>2, <1>3, <1>4, <2>2, <2>3, ConstantsOK
  <2> QED
    BY <1>2, <1>3, <1>4, <2>4
<1> QED
  BY <1>5, <1>6

-----------------------------------------------------------------------------
(* What is sent to a number, and what is not. *)

(* A code goes no way but down.                                            *)
RowDown(c) ==
  /\ code[c].st = "none" => code[c].phone = Anon
  /\ code'[c].phone = code[c].phone
  /\ code[c].verified => code'[c].verified
  /\ code'[c].st = "live" => code[c].st = "live"
  /\ code'[c].cool => code[c].cool

LEMMA SetsDown ==
  ASSUME NEW p \in Phones, \A c \in Codes : RowDown(c)
  PROVE  Good(p)' \subseteq Good(p) /\ Cooling(p)' \subseteq Cooling(p)
BY ConstantsOK DEF RowDown, Good, Unverified, Of, CodeMade, Cooling

(* Fewer of everything keeps the sums. *)
LEMMA FewerOfAll ==
  ASSUME Shape, PhonePart, world' = world, NEW p \in Phones,
         Good(p)' \subseteq Good(p), Cooling(p)' \subseteq Cooling(p),
         Creating(p)' \subseteq Creating(p), Sending(p)' \subseteq Sending(p)
  PROVE  /\ (Cardinality(Good(p)) + Cardinality(Creating(p)) <= Budget)'
         /\ (Cardinality(Cooling(p)) + Cardinality(Sending(p)) <= Budget)'
<1>1. Budget' = Budget /\ Budget \in Nat
  BY BudgetNat DEF Budget
<1>2. PICK g, h \in Nat : g = Cardinality(Good(p)) /\ h = Cardinality(Good(p)') /\ h <= g
  BY AllCounted, Fewer DEF Counted
<1>3. PICK k, l \in Nat : k = Cardinality(Creating(p)) /\ l = Cardinality(Creating(p)') /\ l <= k
  BY AllCounted, Fewer DEF Counted
<1>4. PICK c, d \in Nat : c = Cardinality(Cooling(p)) /\ d = Cardinality(Cooling(p)') /\ d <= c
  BY AllCounted, Fewer DEF Counted
<1>5. PICK s, t \in Nat : s = Cardinality(Sending(p)) /\ t = Cardinality(Sending(p)') /\ t <= s
  BY AllCounted, Fewer DEF Counted
<1>6. g + k <= Budget /\ c + s <= Budget
  BY <1>2, <1>3, <1>4, <1>5 DEF PhonePart
<1>7. h + l <= Budget /\ d + t <= Budget
  BY <1>1, <1>2, <1>3, <1>4, <1>5, <1>6
<1> QED
  BY <1>1, <1>2, <1>3, <1>4, <1>5, <1>7

LEMMA PhoneQuiet ==
  ASSUME Shape, PhonePart, world' = world, \A c \in Codes : RowDown(c),
         \A o \in Slots : req'[o].pc \in {"expire", "create"} =>
           req'[o].pc = req[o].pc /\ req'[o].phone = req[o].phone
  PROVE  PhonePart'
<1> SUFFICES ASSUME NEW p \in Phones
             PROVE  /\ (Cardinality(Good(p)) + Cardinality(Creating(p)) <= Budget)'
                    /\ (Cardinality(Cooling(p)) + Cardinality(Sending(p)) <= Budget)'
  BY DEF PhonePart
<1>1. Good(p)' \subseteq Good(p) /\ Cooling(p)' \subseteq Cooling(p)
  BY SetsDown
<1>2. Creating(p)' \subseteq Creating(p) /\ Sending(p)' \subseteq Sending(p)
  BY DEF Creating, Sending
<1> QED
  BY <1>1, <1>2, FewerOfAll

-----------------------------------------------------------------------------
(* The one-time codes. *)

LEMMA OtpGone ==
  ASSUME Before, UNCHANGED <<world, ident, sess, found, faults>>,
         code' \in [Codes -> CodeRow], req' \in [Slots -> Request],
         \A o \in Slots : \/ req'[o].i = 0
                         \/ (req'[o].i = req[o].i /\ req'[o].op = req[o].op)
  PROVE  Shape' /\ GonePart'
<1>1. Shape /\ GonePart
  BY DEF Before
<1>2. Shape'
  BY <1>1 DEF Shape
<1>3. GonePart'
  BY <1>1 DEF GonePart, Gone, Ids
<1> QED
  BY <1>2, <1>3

LEMMA SameCode ==
  ASSUME Shape, CodePart, code' = code
  PROVE  \A c \in Codes : /\ Counts(c) /\ RowDown(c)
                          /\ code'[c].uses <= code[c].uses
                          /\ code'[c].attempts <= code[c].attempts
<1>1. \A c \in Codes : code[c].uses \in Nat /\ code[c].attempts \in Nat
  BY DEF Shape, CodeRow
<1>2. \A c \in Codes : code[c].uses <= code[c].uses /\ code[c].attempts <= code[c].attempts
  BY <1>1
<1> QED
  BY <1>2 DEF CodePart, Counts, RowDown

LEMMA SendReadStep ==
  ASSUME AccountInv, NEW r \in Slots, NEW p \in world.phones, SendRead(r, p)
  PROVE  AccountInv'
<1>1. /\ UNCHANGED <<world, code, ident, sess, found, faults>>
      /\ Shape /\ ReqPart /\ CodePart /\ PhonePart /\ Before
      /\ p \in Phones /\ \A c \in Of(p) : ~code[c].cool
  BY ConstantsOK DEF SendRead, AccountInv, Before, Shape
<1>2. PICK how : how = [NoRequest EXCEPT !.pc = "expire", !.op = "send", !.phone = p]
  OBVIOUS
<1>3. how \in Request /\ how.pc = "expire" /\ how.phone = p /\ how.i = 0
  <2>1. how = [pc |-> "expire", op |-> "send", phone |-> p, c |-> 0, i |-> 0, s |-> 0]
    BY <1>2 DEF NoRequest
  <2>2. 0 \in 0..MaxCodes /\ 0 \in 0..MaxIds /\ 0 \in 0..MaxSessions
    BY ConstantsOK
  <2>3. how \in Request
    BY <1>1, <2>1, <2>2, Begun DEF Pcs
  <2> QED
    BY <2>1, <2>3
<1>4. Arrive(r, how)
  BY <1>2 DEF SendRead
<1>5. /\ req' \in [Slots -> Request] /\ ReqPart' /\ req'[r] = how
      /\ \A o \in Slots \ {r} : req'[o] = req[o]
  BY <1>1, <1>3, <1>4, Arrived
<1>6. Shape' /\ GonePart'
  <2>1. \A o \in Slots : req'[o].i = 0 \/ req'[o] = req[o]
    BY <1>3, <1>5
  <2>2. code' \in [Codes -> CodeRow]
    BY <1>1 DEF Shape
  <2> QED
    BY <1>1, <1>5, <2>1, <2>2, OtpGone
<1>7. CodePart'
  BY <1>1, <1>3, <1>5, <1>6, SameCode, CodeQuiet
<1>8. PhonePart'
  <2> SUFFICES ASSUME NEW q \in Phones
               PROVE  /\ (Cardinality(Good(q)) + Cardinality(Creating(q)) <= Budget)'
                      /\ (Cardinality(Cooling(q)) + Cardinality(Sending(q)) <= Budget)'
    BY DEF PhonePart
  <2>1. Good(q)' = Good(q) /\ Cooling(q)' = Cooling(q)
    BY <1>1 DEF Good, Unverified, Of, CodeMade, Cooling
  <2>2. Creating(q)' \subseteq Creating(q)
    BY <1>3, <1>5 DEF Creating
  <2>3. CASE q # p
    <3>1. Sending(q)' \subseteq Sending(q)
      BY <1>3, <1>5, <2>3 DEF Sending
    <3> QED
      BY <1>1, <2>1, <2>2, <3>1, FewerOfAll
  <2>4. CASE q = p
    <3>1. Cooling(q)' = {}
      BY <1>1, <2>1, <2>4 DEF Cooling
    <3>2. Cardinality(Cooling(q)') = 0
      BY <3>1, FS_EmptySet
    <3>3. Sending(q)' \in SUBSET {o \in Slots : req'[o].pc # "idle"}
      BY DEF Sending
    <3>4. PICK t \in Nat : t = Cardinality(Sending(q)') /\ t <= Budget
      BY <1>1, <1>5, <1>6, <3>3, CountedNext, AtWorkNext DEF Counted
    <3>5. Budget' = Budget /\ 0 + t <= Budget
      BY <1>1, <3>4, BudgetNat DEF Budget
    <3>6. (Cardinality(Cooling(q)) + Cardinality(Sending(q)) <= Budget)'
      BY <3>2, <3>4, <3>5
    <3>7. (Cardinality(Good(q)) + Cardinality(Creating(q)) <= Budget)'
      <4>1. PICK g, k, l \in Nat : /\ g = Cardinality(Good(q)) /\ k = Cardinality(Creating(q))
                                   /\ l = Cardinality(Creating(q)') /\ l <= k
        BY <2>2, AllCounted, Fewer DEF Counted
      <4>2. g + k <= Budget /\ Budget \in Nat
        BY <1>1, <4>1, BudgetNat DEF PhonePart
      <4>3. g + l <= Budget
        BY <4>1, <4>2
      <4> QED
        BY <2>1, <3>5, <4>1, <4>3
    <3> QED
      BY <3>6, <3>7
  <2> QED
    BY <2>3, <2>4
<1> QED
  BY <1>5, <1>6, <1>7, <1>8 DEF AccountInv

LEMMA SendExpireStep ==
  ASSUME AccountInv, NEW r \in Slots, SendExpire(r)
  PROVE  AccountInv'
<1>1. /\ UNCHANGED <<world, ident, sess, found, faults>>
      /\ req[r].pc = "expire" /\ Go(r, "create")
      /\ Shape /\ ReqPart /\ CodePart /\ PhonePart /\ Before
  BY DEF SendExpire, At, AccountInv, Before
<1>2. /\ req' \in [Slots -> Request] /\ ReqPart'
      /\ \A o \in Slots \ {r} : req'[o] = req[o]
      /\ req'[r].pc = "create" /\ req'[r].op = req[r].op
      /\ req'[r].phone = req[r].phone /\ req'[r].i = req[r].i
  BY <1>1, Went DEF Pcs
<1>3. ASSUME NEW c \in Codes
      PROVE  /\ code'[c] \in CodeRow
             /\ code'[c].phone = code[c].phone /\ code'[c].cool = code[c].cool
             /\ code'[c].verified = code[c].verified
             /\ code'[c].uses = code[c].uses /\ code'[c].attempts = code[c].attempts
             /\ code'[c].st = IF c \in Of(req[r].phone) /\ ~code[c].verified
                              THEN "expired" ELSE code[c].st
  <2>1. PICK a \in CodeRow : a = code[c]
    BY <1>1 DEF Shape
  <2>2. PICK z : z = [a EXCEPT !.st = "expired"]
    OBVIOUS
  <2>3. /\ z \in CodeRow /\ z.phone = a.phone /\ z.cool = a.cool /\ z.verified = a.verified
        /\ z.uses = a.uses /\ z.attempts = a.attempts /\ z.st = "expired"
    BY <2>2 DEF CodeRow
  <2>4. code'[c] = IF c \in Of(req[r].phone) /\ ~code[c].verified THEN z ELSE a
    BY <2>1, <2>2 DEF SendExpire
  <2> QED
    BY <2>1, <2>3, <2>4
<1>4. code' \in [Codes -> CodeRow]
  <2>1. code' = [c \in Codes |-> code'[c]]
    BY DEF SendExpire
  <2> QED
    BY <1>3, <2>1
<1>5. Shape' /\ GonePart'
  <2>1. \A o \in Slots : req'[o].i = req[o].i /\ req'[o].op = req[o].op
    BY <1>2
  <2> QED
    BY <1>1, <1>2, <1>4, <2>1, OtpGone
<1>6. \A c \in Codes : /\ Counts(c) /\ RowDown(c)
                       /\ code'[c].uses <= code[c].uses
                       /\ code'[c].attempts <= code[c].attempts
  <2>1. \A c \in Codes : /\ code[c].uses <= code[c].uses
                         /\ code[c].attempts <= code[c].attempts
                         /\ code[c].st = "none" => code[c].phone = Anon
                         /\ code[c].uses > 0 => code[c].verified
    BY <1>1, SameCode DEF CodePart, Shape, CodeRow
  <2>2. \A c \in Codes : code'[c].st \in {"none", "live"} => code'[c].st = code[c].st
    BY <1>3
  <2> QED
    BY <1>3, <2>1, <2>2 DEF Counts, RowDown
<1>7. CodePart'
  BY <1>1, <1>2, <1>5, <1>6, CodeQuiet
<1>8. PhonePart'
  <2> SUFFICES ASSUME NEW q \in Phones
               PROVE  /\ (Cardinality(Good(q)) + Cardinality(Creating(q)) <= Budget)'
                      /\ (Cardinality(Cooling(q)) + Cardinality(Sending(q)) <= Budget)'
    BY DEF PhonePart
  <2>1. Good(q)' \subseteq Good(q) /\ Cooling(q)' \subseteq Cooling(q)
    BY <1>6, SetsDown
  <2>2. Sending(q)' \subseteq Sending(q)
    BY <1>1, <1>2 DEF Sending
  <2>3. CASE q # req[r].phone
    <3>1. Creating(q)' \subseteq Creating(q)
      BY <1>2, <2>3 DEF Creating
    <3> QED
      BY <1>1, <2>1, <2>2, <3>1, FewerOfAll
  <2>4. CASE q = req[r].phone
    <3>1. Good(q)' = {}
      <4>1. ASSUME NEW c \in Codes, code'[c].st = "live", code'[c].phone = q,
                   ~code'[c].verified
            PROVE  FALSE
        <5>1. code[c].st = "live" /\ code[c].phone = q /\ ~code[c].verified
          BY <1>3, <4>1
        <5>2. c \in Of(req[r].phone)
          BY <2>4, <5>1 DEF Of, CodeMade
        <5> QED
          BY <1>3, <4>1, <5>1, <5>2
      <4> QED
        BY <4>1 DEF Good, Unverified, Of
    <3>2. Cardinality(Good(q)') = 0
      BY <3>1, FS_EmptySet
    <3>3. Creating(q)' \in SUBSET {o \in Slots : req'[o].pc # "idle"}
      BY DEF Creating
    <3>4. PICK t \in Nat : t = Cardinality(Creating(q)') /\ t <= Budget
      BY <1>1, <1>2, <1>5, <3>3, CountedNext, AtWorkNext DEF Counted
    <3>5. Budget' = Budget /\ 0 + t <= Budget
      BY <1>1, <3>4, BudgetNat DEF Budget
    <3>6. (Cardinality(Good(q)) + Cardinality(Creating(q)) <= Budget)'
      BY <3>2, <3>4, <3>5
    <3>7. (Cardinality(Cooling(q)) + Cardinality(Sending(q)) <= Budget)'
      <4>1. PICK g, h \in Nat : /\ g = Cardinality(Cooling(q)) /\ h = Cardinality(Cooling(q)')
                                /\ h <= g
        BY <2>1, AllCounted, Fewer DEF Counted
      <4>2. PICK k, l \in Nat : /\ k = Cardinality(Sending(q)) /\ l = Cardinality(Sending(q)')
                                /\ l <= k
        BY <2>2, AllCounted, Fewer DEF Counted
      <4>3. g + k <= Budget /\ Budget \in Nat
        BY <1>1, <4>1, <4>2, BudgetNat DEF PhonePart
      <4>4. h + l <= Budget
        BY <4>1, <4>2, <4>3
      <4> QED
        BY <3>5, <4>1, <4>2, <4>4
    <3> QED
      BY <3>6, <3>7
  <2> QED
    BY <2>3, <2>4
<1> QED
  BY <1>2, <1>5, <1>7, <1>8 DEF AccountInv

LEMMA SendCreateStep ==
  ASSUME AccountInv, NEW r \in Slots, SendCreate(r)
  PROVE  AccountInv'
<1>1. /\ UNCHANGED <<world, ident, sess, found, faults>>
      /\ req[r].pc = "create" /\ Answer(r)
      /\ Shape /\ ReqPart /\ CodePart /\ PhonePart /\ Before
  BY DEF SendCreate, At, AccountInv, Before
<1>2. /\ req' \in [Slots -> Request] /\ ReqPart' /\ NoTickets
      /\ \A o \in Slots \ {r} : req'[o] = req[o]
      /\ req'[r].pc = "idle" /\ req'[r].i = 0
  BY <1>1, Answered
<1>3. \A o \in Slots : /\ req'[o].i = 0 \/ req'[o] = req[o]
                       /\ req'[o].pc = "code" => req[o].pc = "code" /\ req'[o].c = req[o].c
                       /\ req'[o].pc \in {"expire", "create"} => o # r /\ req'[o] = req[o]
  BY <1>2
<1>4. CASE code' = code
  <2>1. Shape' /\ GonePart'
    <3>1. code' \in [Codes -> CodeRow]
      BY <1>1, <1>4 DEF Shape
    <3> QED
      BY <1>1, <1>2, <1>3, <3>1, OtpGone
  <2>2. CodePart'
    BY <1>1, <1>3, <1>4, <2>1, SameCode, CodeQuiet
  <2>3. PhonePart'
    BY <1>1, <1>3, <1>4, SameCode, PhoneQuiet
  <2> QED
    BY <1>2, <2>1, <2>2, <2>3 DEF AccountInv
<1>5. ASSUME NEW n \in Codes, ~CodeMade(n),
             code' = [code EXCEPT ![n] =
                  [NoCode EXCEPT !.phone = req[r].phone, !.st = "live", !.cool = TRUE]]
      PROVE  AccountInv'
  <2>1. PICK x : x = [NoCode EXCEPT !.phone = req[r].phone, !.st = "live", !.cool = TRUE]
    OBVIOUS
  <2>2. req[r].phone \in Phones \cup {Anon}
    BY <1>1 DEF Shape, Request
  <2>3. x \in CodeRow /\ x.st = "live" /\ x.phone = req[r].phone /\ x.uses = 0 /\ x.attempts = 0
    BY <2>1, <2>2 DEF NoCode, CodeRow
  <2>4. /\ code' \in [Codes -> CodeRow] /\ code'[n] = x
        /\ \A c \in Codes \ {n} : code'[c] = code[c]
    BY <1>1, <1>5, <2>1, <2>3 DEF Shape
  <2>5. Shape' /\ GonePart'
    BY <1>1, <1>2, <1>3, <2>4, OtpGone
  <2>6. \A c \in Codes : /\ Counts(c)
                         /\ code'[c].uses <= code[c].uses
                         /\ code'[c].attempts <= code[c].attempts
    <3>1. \A c \in Codes : /\ code[c].uses <= code[c].uses /\ code[c].attempts <= code[c].attempts
                           /\ code[c].uses >= 0 /\ code[c].attempts >= 0
                           /\ code[c].st = "none" => code[c].phone = Anon
                           /\ code[c].uses > 0 => code[c].verified
      BY <1>1 DEF CodePart, Shape, CodeRow
    <3> QED
      BY <2>3, <2>4, <3>1 DEF Counts
  <2>7. CodePart'
    BY <1>1, <1>3, <2>5, <2>6, CodeQuiet
  <2>8. PhonePart'
    <3> SUFFICES ASSUME NEW q \in Phones
                 PROVE  /\ (Cardinality(Good(q)) + Cardinality(Creating(q)) <= Budget)'
                        /\ (Cardinality(Cooling(q)) + Cardinality(Sending(q)) <= Budget)'
      BY DEF PhonePart
    <3>1. CASE q # req[r].phone
      <4>1. Good(q)' \subseteq Good(q) /\ Cooling(q)' \subseteq Cooling(q)
        BY <2>3, <2>4, <3>1 DEF Good, Unverified, Of, CodeMade, Cooling
      <4>2. Creating(q)' \subseteq Creating(q) /\ Sending(q)' \subseteq Sending(q)
        BY <1>3 DEF Creating, Sending
      <4> QED
        BY <1>1, <4>1, <4>2, FewerOfAll
    <3>2. CASE q = req[r].phone
      <4>1. Good(q)' \subseteq Good(q) \cup {n} /\ Cooling(q)' \subseteq Cooling(q) \cup {n}
        BY <2>4 DEF Good, Unverified, Of, CodeMade, Cooling
      <4>2. /\ r \in Creating(q) /\ r \in Sending(q)
            /\ Creating(q)' \subseteq Creating(q) \ {r} /\ Sending(q)' \subseteq Sending(q) \ {r}
        BY <1>1, <1>3, <3>2 DEF Creating, Sending
      <4>3. PICK g, h \in Nat : /\ g = Cardinality(Good(q)) /\ h = Cardinality(Good(q)')
                                /\ h <= g + 1
        BY <4>1, AllCounted, OneMore DEF Counted
      <4>4. PICK c, d \in Nat : /\ c = Cardinality(Cooling(q)) /\ d = Cardinality(Cooling(q)')
                                /\ d <= c + 1
        BY <4>1, AllCounted, OneMore DEF Counted
      <4>5. PICK k, l \in Nat : /\ k = Cardinality(Creating(q)) /\ l = Cardinality(Creating(q)')
                                /\ l + 1 <= k
        BY <4>2, AllCounted, OneLess DEF Counted
      <4>6. PICK s, t \in Nat : /\ s = Cardinality(Sending(q)) /\ t = Cardinality(Sending(q)')
                                /\ t + 1 <= s
        BY <4>2, AllCounted, OneLess DEF Counted
      <4>7. g + k <= Budget /\ c + s <= Budget /\ Budget \in Nat
        BY <1>1, <4>3, <4>4, <4>5, <4>6, BudgetNat DEF PhonePart
      <4>8. h + l <= Budget /\ d + t <= Budget /\ Budget' = Budget
        BY <1>1, <4>3, <4>4, <4>5, <4>6, <4>7 DEF Budget
      <4> QED
        BY <4>3, <4>4, <4>5, <4>6, <4>8
    <3> QED
      BY <3>1, <3>2
  <2> QED
    BY <1>2, <2>5, <2>7, <2>8 DEF AccountInv
<1> QED
  BY <1>4, <1>5 DEF SendCreate, NextRow

(* One row goes down; nothing is spent of it. *)
LEMMA RowLess ==
  ASSUME AccountInv, UNCHANGED <<world, ident, sess, found, faults>>,
         req' \in [Slots -> Request], ReqPart', NoTickets,
         \A o \in Slots : \/ req'[o].i = 0
                         \/ (req'[o].i = req[o].i /\ req'[o].op = req[o].op),
         NEW c \in Codes, NEW z \in CodeRow, code' = [code EXCEPT ![c] = z],
         z.phone = code[c].phone, code[c].verified => z.verified, z.uses = code[c].uses,
         z.attempts = code[c].attempts,
         z.st \in {code[c].st, "expired"}, z.cool => code[c].cool
  PROVE  AccountInv'
<1>1. Shape /\ ReqPart /\ CodePart /\ PhonePart /\ Before
  BY DEF AccountInv, Before
<1>2. /\ code' \in [Codes -> CodeRow] /\ code'[c] = z
      /\ \A d \in Codes \ {c} : code'[d] = code[d]
  BY <1>1 DEF Shape
<1>3. Shape' /\ GonePart'
  BY <1>1, <1>2, OtpGone
<1>4. \A d \in Codes : /\ code[d].uses <= code[d].uses
                       /\ code[d].attempts <= code[d].attempts
                       /\ code[d].st = "none" => code[d].phone = Anon
                       /\ code[d].uses > 0 => code[d].verified
  BY <1>1 DEF CodePart, Shape, CodeRow
<1>5. \A d \in Codes : /\ Counts(d) /\ RowDown(d)
                       /\ code'[d].uses <= code[d].uses
                       /\ code'[d].attempts <= code[d].attempts
  <2>1. ASSUME NEW d \in Codes \ {c}
        PROVE  /\ Counts(d) /\ RowDown(d)
               /\ code'[d].uses <= code[d].uses /\ code'[d].attempts <= code[d].attempts
    BY <1>2, <1>4 DEF Counts, RowDown
  <2>2. /\ Counts(c) /\ RowDown(c)
        /\ code'[c].uses <= code[c].uses /\ code'[c].attempts <= code[c].attempts
    BY <1>2, <1>4 DEF Counts, RowDown
  <2> QED
    BY <2>1, <2>2
<1>6. CodePart'
  BY <1>1, <1>3, <1>5, CodeQuiet DEF NoTickets, Tickets
<1>7. PhonePart'
  BY <1>1, <1>5, PhoneQuiet DEF NoTickets, Tickets
<1> QED
  BY <1>3, <1>6, <1>7 DEF AccountInv

(* No row is written. *)
LEMMA CodeRests ==
  ASSUME AccountInv, UNCHANGED <<world, code, ident, sess, found, faults>>,
         req' \in [Slots -> Request], ReqPart', NoTickets,
         \A o \in Slots : \/ req'[o].i = 0
                         \/ (req'[o].i = req[o].i /\ req'[o].op = req[o].op)
  PROVE  AccountInv'
<1>1. Shape /\ ReqPart /\ CodePart /\ PhonePart /\ Before
  BY DEF AccountInv, Before
<1>2. code' \in [Codes -> CodeRow]
  BY <1>1 DEF Shape
<1>3. Shape' /\ GonePart'
  BY <1>1, <1>2, OtpGone
<1>4. CodePart'
  BY <1>1, <1>3, SameCode, CodeQuiet DEF NoTickets, Tickets
<1>5. PhonePart'
  BY <1>1, SameCode, PhoneQuiet DEF NoTickets, Tickets
<1> QED
  BY <1>3, <1>4, <1>5 DEF AccountInv

LEMMA CodeAgesStep ==
  ASSUME AccountInv, NEW c \in Codes, CodeAges(c)
  PROVE  AccountInv'
<1>1. /\ UNCHANGED <<world, ident, sess, req, found, faults>>
      /\ Shape /\ ReqPart /\ CodePart /\ PhonePart /\ Before
  BY DEF CodeAges, AccountInv, Before
<1>2. PICK a \in CodeRow : a = code[c]
  BY <1>1 DEF Shape
<1>3. PICK z \in CodeRow :
        /\ code' = [code EXCEPT ![c] = z]
        /\ z.phone = a.phone /\ (a.verified => z.verified) /\ z.uses = a.uses
        /\ z.attempts = a.attempts /\ z.st \in {a.st, "expired"} /\ (z.cool => a.cool)
  <2>1. CASE code' = [code EXCEPT ![c].cool = FALSE]
    <3>1. PICK z : z = [a EXCEPT !.cool = FALSE]
      OBVIOUS
    <3>2. code' = [code EXCEPT ![c] = z]
      BY <1>2, <2>1, <3>1
    <3>3. z \in CodeRow /\ z.phone = a.phone /\ z.verified = a.verified /\ z.uses = a.uses
          /\ z.attempts = a.attempts /\ z.st = a.st /\ z.cool = FALSE
      BY <3>1 DEF CodeRow
    <3> QED
      BY <3>2, <3>3
  <2>2. CASE code' = [code EXCEPT ![c].st = "expired"]
    <3>1. PICK z : z = [a EXCEPT !.st = "expired"]
      OBVIOUS
    <3>2. code' = [code EXCEPT ![c] = z]
      BY <1>2, <2>2, <3>1
    <3>3. z \in CodeRow /\ z.phone = a.phone /\ z.verified = a.verified /\ z.uses = a.uses
          /\ z.attempts = a.attempts /\ z.st = "expired" /\ z.cool = a.cool
      BY <3>1 DEF CodeRow
    <3> QED
      BY <3>2, <3>3
  <2> QED
    BY <2>1, <2>2 DEF CodeAges
<1>4. /\ req' \in [Slots -> Request] /\ ReqPart' /\ NoTickets
      /\ \A o \in Slots : req'[o].i = req[o].i /\ req'[o].op = req[o].op
  BY <1>1 DEF Shape, ReqPart, NoTickets
<1>5. /\ z.phone = code[c].phone /\ (code[c].verified => z.verified) /\ z.uses = code[c].uses
      /\ z.attempts = code[c].attempts /\ z.st \in {code[c].st, "expired"}
      /\ z.cool => code[c].cool
  BY <1>2, <1>3
<1> QED
  BY <1>1, <1>3, <1>4, <1>5, RowLess

(* The first check finds the newest code, and there is one. *)
LEMMA NewestIn ==
  ASSUME NEW S \in SUBSET Codes, S # {}
  PROVE  Newest(S) \in S
<1>1. PICK R : R = OpToRel(<, Nat)
  OBVIOUS
<1>2. IsWellFoundedOn(R, Nat)
  BY <1>1, NatLessThanWellFounded
<1>3. PICK T : T = {MaxCodes - c : c \in S}
  OBVIOUS
<1>4. \A c \in S : c \in Nat /\ c <= MaxCodes /\ MaxCodes - c \in Nat
  BY ConstantsOK DEF Codes
<1>5. T \in SUBSET Nat /\ T # {}
  BY <1>3, <1>4
<1>6. PICK x \in T : \A y \in T : ~(<<y, x>> \in R)
  BY <1>2, <1>5, WFMin
<1>7. PICK c \in S : x = MaxCodes - c
  BY <1>3, <1>6
<1>8. ASSUME NEW d \in S PROVE d <= c
  <2>1. MaxCodes - d \in T /\ MaxCodes - d \in Nat /\ x \in Nat
    BY <1>3, <1>4, <1>5
  <2>2. ~(MaxCodes - d < x)
    BY <1>1, <1>6, <2>1 DEF OpToRel
  <2> QED
    BY <1>4, <1>7, <2>1, <2>2, ConstantsOK
<1> QED
  BY <1>8 DEF Newest

LEMMA VerifyReadStep ==
  ASSUME AccountInv, NEW r \in Slots, NEW p \in world.phones, VerifyRead(r, p)
  PROVE  AccountInv'
<1>1. /\ UNCHANGED <<world, code, ident, sess, found, faults>>
      /\ Shape /\ ReqPart /\ CodePart /\ PhonePart /\ Before
      /\ p \in Phones
  BY ConstantsOK DEF VerifyRead, AccountInv, Before, Shape
<1>2. PICK d : d = Newest(Unverified(p))
  OBVIOUS
<1>3. d \in Codes /\ ~code[d].verified /\ code[d].attempts < MaxAttempts
  <2>1. Unverified(p) \in SUBSET Codes /\ Unverified(p) # {}
    BY DEF VerifyRead, Unverified, Of
  <2>2. d \in Unverified(p)
    BY <1>2, <2>1, NewestIn
  <2> QED
    BY <1>2, <2>1, <2>2 DEF VerifyRead, Unverified
<1>4. PICK how : how = [NoRequest EXCEPT !.pc = "code", !.op = "verify", !.phone = p, !.c = d]
  OBVIOUS
<1>5. how \in Request /\ how.pc = "code" /\ how.phone = p /\ how.i = 0 /\ how.c = d
  <2>1. how = [pc |-> "code", op |-> "verify", phone |-> p, c |-> d, i |-> 0, s |-> 0]
    BY <1>4 DEF NoRequest
  <2>2. d \in 0..MaxCodes /\ 0 \in 0..MaxIds /\ 0 \in 0..MaxSessions
    BY <1>3, ConstantsOK DEF Codes
  <2>3. how \in Request
    BY <1>1, <2>1, <2>2, Begun DEF Pcs
  <2> QED
    BY <2>1, <2>3
<1>6. Arrive(r, how)
  BY <1>2, <1>4 DEF VerifyRead
<1>7. /\ req' \in [Slots -> Request] /\ ReqPart' /\ req'[r] = how
      /\ \A o \in Slots \ {r} : req'[o] = req[o]
  BY <1>1, <1>5, <1>6, Arrived
<1>8. Shape' /\ GonePart'
  <2>1. \A o \in Slots : req'[o].i = 0 \/ req'[o] = req[o]
    BY <1>5, <1>7
  <2>2. code' \in [Codes -> CodeRow]
    BY <1>1 DEF Shape
  <2> QED
    BY <1>1, <1>7, <2>1, <2>2, OtpGone
<1>9. CodePart'
  BY <1>1, <1>3, <1>5, <1>7, <1>8, CodeRead
<1>10. PhonePart'
  <2>1. \A o \in Slots : req'[o].pc \in {"expire", "create"} => req'[o] = req[o]
    BY <1>5, <1>7
  <2> QED
    BY <1>1, <2>1, SameCode, PhoneQuiet
<1> QED
  BY <1>7, <1>8, <1>9, <1>10 DEF AccountInv

LEMMA VerifyDefaultStep ==
  ASSUME AccountInv, NEW r \in Slots, NEW p \in world.phones, VerifyDefault(r, p)
  PROVE  AccountInv'
<1>1. /\ UNCHANGED <<world, code, ident, sess, found, faults>>
      /\ Shape /\ ReqPart /\ CodePart /\ PhonePart /\ Before
      /\ p \in Phones
  BY ConstantsOK DEF VerifyDefault, AccountInv, Before, Shape
<1>2. PICK d \in {0} \cup Unverified(p) :
        Arrive(r, [NoRequest EXCEPT !.pc = "default", !.op = "verify", !.phone = p, !.c = d])
  BY DEF VerifyDefault
<1>3. PICK how : how = [NoRequest EXCEPT !.pc = "default", !.op = "verify",
                                         !.phone = p, !.c = d]
  OBVIOUS
<1>4. how \in Request /\ how.pc = "default" /\ how.phone = p /\ how.i = 0
  <2>1. how = [pc |-> "default", op |-> "verify", phone |-> p, c |-> d, i |-> 0, s |-> 0]
    BY <1>3 DEF NoRequest
  <2>2. d \in 0..MaxCodes /\ 0 \in 0..MaxIds /\ 0 \in 0..MaxSessions
    BY <1>2, ConstantsOK DEF Unverified, Of, Codes
  <2>3. how \in Request
    BY <1>1, <2>1, <2>2, Begun DEF Pcs
  <2> QED
    BY <2>1, <2>3
<1>5. /\ req' \in [Slots -> Request] /\ ReqPart' /\ req'[r] = how /\ NoTickets
      /\ \A o \in Slots \ {r} : req'[o] = req[o]
  BY <1>1, <1>2, <1>3, <1>4, Arrived DEF Tickets
<1> QED
  <2>1. \A o \in Slots : req'[o].i = 0 \/ req'[o] = req[o]
    BY <1>4, <1>5
  <2> QED
    BY <1>1, <1>5, <2>1, CodeRests

(* The steps after a check, when the row they write is there. *)
LEMMA Resumed ==
  ASSUME AccountInv, NEW r \in Slots, world' = world, req[r].pc \in {"code", "close", "default"},
         Answer(r) \/ Go(r, "close") \/ Go(r, "login"),
         req[r].pc = "close" => Answer(r)
  PROVE  /\ req' \in [Slots -> Request] /\ ReqPart' /\ NoTickets
         /\ \A o \in Slots \ {r} : req'[o] = req[o]
         /\ req'[r].pc \notin Tickets
         /\ \A o \in Slots : req'[o].i = 0 \/ (req'[o].i = req[o].i /\ req'[o].op = req[o].op)
<1>1. Shape /\ ReqPart
  BY DEF AccountInv
<1>2. CASE Answer(r)
  BY <1>1, <1>2, Answered DEF Tickets
<1>3. CASE req[r].pc # "close" /\ Go(r, "close")
  BY <1>1, <1>3, Went DEF Pcs, Tickets
<1>4. CASE req[r].pc # "close" /\ Go(r, "login")
  <2>1. req[r].phone \in Phones
    BY <1>1, <1>4 DEF ReqPart
  <2> QED
    BY <1>1, <1>4, <2>1, Went DEF Pcs, Tickets
<1> QED
  BY <1>2, <1>3, <1>4

LEMMA MarkedSteps ==
  ASSUME AccountInv, NEW r \in Slots, VerifyClose(r) \/ VerifyDefaultMark(r)
  PROVE  AccountInv'
<1>1. /\ UNCHANGED <<world, ident, sess, found, faults>>
      /\ req[r].pc \in {"close", "default"}
      /\ Answer(r) \/ (Go(r, "login") /\ req[r].pc # "close")
      /\ Shape
  BY DEF VerifyClose, VerifyDefaultMark, At, AccountInv
<1>2. /\ req' \in [Slots -> Request] /\ ReqPart' /\ NoTickets
      /\ \A o \in Slots : req'[o].i = 0 \/ (req'[o].i = req[o].i /\ req'[o].op = req[o].op)
  BY <1>1, Resumed
<1>3. CASE code' = code
  BY <1>1, <1>2, <1>3, CodeRests
<1>4. CASE code' = [code EXCEPT ![req[r].c].st = "expired"] /\ req[r].c \in Codes
  <2>1. PICK a \in CodeRow : a = code[req[r].c]
    BY <1>1, <1>4 DEF Shape
  <2>2. PICK z : z = [a EXCEPT !.st = "expired"]
    OBVIOUS
  <2>3. /\ z \in CodeRow /\ z.phone = a.phone /\ z.verified = a.verified /\ z.uses = a.uses
        /\ z.attempts = a.attempts /\ z.st = "expired" /\ z.cool = a.cool
    BY <2>2 DEF CodeRow
  <2>4. code' = [code EXCEPT ![req[r].c] = z]
    BY <1>4, <2>1, <2>2
  <2>5. PICK c \in Codes : c = req[r].c
    BY <1>4
  <2>6. /\ z.phone = code[c].phone /\ (code[c].verified => z.verified) /\ z.uses = code[c].uses
        /\ z.attempts = code[c].attempts /\ z.st \in {code[c].st, "expired"}
        /\ z.cool => code[c].cool
    BY <2>1, <2>3, <2>5
  <2> QED
    BY <1>1, <1>2, <2>3, <2>4, <2>5, <2>6, RowLess
<1>5. CASE code' = [code EXCEPT ![req[r].c].verified = TRUE] /\ req[r].c \in Codes
  <2>1. PICK a \in CodeRow : a = code[req[r].c]
    BY <1>1, <1>5 DEF Shape
  <2>2. PICK z : z = [a EXCEPT !.verified = TRUE]
    OBVIOUS
  <2>3. /\ z \in CodeRow /\ z.phone = a.phone /\ z.verified = TRUE /\ z.uses = a.uses
        /\ z.attempts = a.attempts /\ z.st = a.st /\ z.cool = a.cool
    BY <2>2 DEF CodeRow
  <2>4. code' = [code EXCEPT ![req[r].c] = z]
    BY <1>5, <2>1, <2>2
  <2> QED
    BY <1>1, <1>2, <1>5, <2>1, <2>3, <2>4, RowLess
<1>6. ASSUME req[r].c \notin Codes PROVE code' = code
  <2>1. PICK f, g : f = [code EXCEPT ![req[r].c].st = "expired"]
                    /\ g = [code EXCEPT ![req[r].c].verified = TRUE]
    OBVIOUS
  <2>2. f = code /\ g = code
    BY <1>1, <1>6, <2>1 DEF Shape
  <2>3. code' \in {code, f, g}
    BY <2>1 DEF VerifyClose, VerifyDefaultMark
  <2> QED
    BY <2>2, <2>3
<1> QED
  BY <1>3, <1>4, <1>5, <1>6 DEF VerifyClose, VerifyDefaultMark

LEMMA EnteredSteps ==
  ASSUME AccountInv, NEW r \in Slots, VerifyWrong(r) \/ VerifyRight(r)
  PROVE  AccountInv'
<1>1. /\ UNCHANGED <<world, ident, sess, found, faults>>
      /\ req[r].pc = "code"
      /\ Answer(r) \/ Go(r, "close") \/ Go(r, "login")
      /\ Shape /\ ReqPart /\ CodePart /\ PhonePart /\ Before
  BY DEF VerifyWrong, VerifyRight, At, AccountInv, Before
<1>2. /\ req' \in [Slots -> Request] /\ ReqPart' /\ NoTickets
      /\ \A o \in Slots \ {r} : req'[o] = req[o]
      /\ req'[r].pc # "code"
      /\ \A o \in Slots : req'[o].i = 0 \/ (req'[o].i = req[o].i /\ req'[o].op = req[o].op)
  BY <1>1, Resumed DEF Tickets
<1>3. CASE code' = code
  BY <1>1, <1>2, <1>3, CodeRests
<1>4. ASSUME NEW z \in CodeRow, req[r].c \in Codes, code' = [code EXCEPT ![req[r].c] = z],
             z.phone = code[req[r].c].phone, z.st = code[req[r].c].st,
             z.cool = code[req[r].c].cool, code[req[r].c].verified => z.verified,
             z.attempts = code[req[r].c].attempts + 1,
             \/ z.uses = code[req[r].c].uses
             \/ (z.uses = code[req[r].c].uses + 1 /\ z.verified)
      PROVE  AccountInv'
  <2>1. PICK c \in Codes : c = req[r].c
    BY <1>4
  <2>2. /\ code' \in [Codes -> CodeRow] /\ code'[c] = z
        /\ \A d \in Codes \ {c} : code'[d] = code[d]
    BY <1>1, <1>4, <2>1 DEF Shape
  <2>3. Shape' /\ GonePart'
    BY <1>1, <1>2, <2>2, OtpGone
  <2>4. \A d \in Codes : /\ code[d].uses \in Nat /\ code[d].attempts \in Nat
                         /\ code[d].st = "none" => code[d].phone = Anon
                         /\ code[d].uses > 0 => code[d].verified
    BY <1>1 DEF CodePart, Shape, CodeRow
  <2>5. /\ Counts(c) /\ RowDown(c)
        /\ code'[c].uses <= code[c].uses + 1
        /\ code'[c].attempts <= code[c].attempts + 1
    BY <1>4, <2>1, <2>2, <2>4 DEF Counts, RowDown
  <2>6. \A d \in Codes \ {c} : /\ Counts(d) /\ RowDown(d)
                               /\ code'[d].uses <= code[d].uses
                               /\ code'[d].attempts <= code[d].attempts
                               /\ code'[d].uses <= code[d].uses + 1
                               /\ code'[d].attempts <= code[d].attempts + 1
    BY <2>2, <2>4 DEF Counts, RowDown
  <2>7. CodePart'
    BY <1>1, <1>2, <2>1, <2>3, <2>5, <2>6, CodeSpent
  <2>8. PhonePart'
    BY <1>1, <1>2, <2>5, <2>6, PhoneQuiet DEF NoTickets, Tickets
  <2> QED
    BY <1>2, <2>3, <2>7, <2>8 DEF AccountInv
<1>5. CASE req[r].c \in Codes /\ VerifyWrong(r)
  <2>1. PICK a \in CodeRow : a = code[req[r].c]
    BY <1>1, <1>5 DEF Shape
  <2>2. a.attempts + 1 \in Nat
    BY DEF CodeRow
  <2>3. PICK z : z = [a EXCEPT !.attempts = a.attempts + 1]
    OBVIOUS
  <2>4. /\ z \in CodeRow /\ z.phone = a.phone /\ z.verified = a.verified /\ z.uses = a.uses
        /\ z.attempts = a.attempts + 1 /\ z.st = a.st /\ z.cool = a.cool
    BY <2>2, <2>3 DEF CodeRow
  <2>5. code' = [code EXCEPT ![req[r].c] = z]
    BY <1>5, <2>1, <2>3 DEF VerifyWrong
  <2> QED
    BY <1>4, <1>5, <2>1, <2>4, <2>5
<1>6. CASE req[r].c \in Codes /\ VerifyRight(r)
  <2>1. PICK a \in CodeRow : a = code[req[r].c]
    BY <1>1, <1>6 DEF Shape
  <2>2. a.attempts + 1 \in Nat /\ a.uses + 1 \in Nat
    BY DEF CodeRow
  <2>3. PICK z : z = [a EXCEPT !.verified = TRUE, !.attempts = a.attempts + 1,
                               !.uses = a.uses + 1]
    OBVIOUS
  <2>4. /\ z \in CodeRow /\ z.phone = a.phone /\ z.verified = TRUE /\ z.uses = a.uses + 1
        /\ z.attempts = a.attempts + 1 /\ z.st = a.st /\ z.cool = a.cool
    BY <2>2, <2>3 DEF CodeRow
  <2>5. code' = [code EXCEPT ![req[r].c] = z]
    BY <1>6, <2>1, <2>3 DEF VerifyRight
  <2> QED
    BY <1>4, <1>6, <2>1, <2>4, <2>5
<1>7. ASSUME req[r].c \notin Codes PROVE code' = code
  <2>1. CASE VerifyWrong(r)
    <3>1. code' = [code EXCEPT ![req[r].c].attempts = code[req[r].c].attempts + 1]
      BY <2>1 DEF VerifyWrong
    <3> QED
      BY <1>1, <1>7, <3>1 DEF Shape
  <2>2. CASE VerifyRight(r)
    <3>1. code' = [code EXCEPT ![req[r].c].verified = TRUE,
                               ![req[r].c].attempts = @ + 1, ![req[r].c].uses = @ + 1]
      BY <2>2 DEF VerifyRight
    <3> QED
      BY <1>1, <1>7, <3>1 DEF Shape
  <2> QED
    BY <2>1, <2>2
<1> QED
  BY <1>3, <1>5, <1>6, <1>7

-----------------------------------------------------------------------------
(* AccountInv is inductive. *)
LEMMA NextAccount == AccountInv /\ [Next]_vars => AccountInv'
<1> SUFFICES ASSUME AccountInv, [Next]_vars PROVE AccountInv'
  OBVIOUS
<1>1. Before
  BY DEF AccountInv, Before
<1>2. ASSUME Kept PROVE AccountInv'
  <2>1. Shape /\ CodePart /\ PhonePart
    BY DEF AccountInv
  <2>2. Shape' /\ ReqPart' /\ GonePart' /\ NoTickets /\ code' = code /\ world' = world
    BY <1>2 DEF Kept
  <2>3. CodePart'
    BY <2>1, <2>2, SameCode, CodeQuiet DEF NoTickets, Tickets
  <2>4. PhonePart'
    BY <2>1, <2>2, SameCode, PhoneQuiet DEF NoTickets, Tickets
  <2> QED
    BY <2>2, <2>3, <2>4 DEF AccountInv
<1>3. ASSUME NEW r \in Slots, Begin(r) PROVE AccountInv'
  <2>1. ASSUME NEW p \in world.phones,
               SendRead(r, p) \/ VerifyRead(r, p) \/ VerifyDefault(r, p)
        PROVE  AccountInv'
    BY <2>1, SendReadStep, VerifyReadStep, VerifyDefaultStep
  <2>2. ASSUME NEW p \in world.phones, NEW i \in Ids, CreateUser(r, p, i) PROVE AccountInv'
    BY <1>1, <1>2, <2>2, CreateUserKept
  <2>3. ASSUME NEW n \in Sess, EnrollRead(r, n) PROVE AccountInv'
    BY <1>1, <1>2, <2>3, EnrollReadKept
  <2>4. ASSUME NEW i \in Ids, NEW op \in Customers, Auth(r, i, op) PROVE AccountInv'
    BY <1>1, <1>2, <2>4, AuthKept
  <2> QED
    BY <1>3, <2>1, <2>2, <2>3, <2>4 DEF Begin
<1>4. ASSUME NEW r \in Slots, Proceed(r) PROVE AccountInv'
  <2>1. ASSUME SendExpire(r) \/ SendCreate(r) PROVE AccountInv'
    BY <2>1, SendExpireStep, SendCreateStep
  <2>2. ASSUME VerifyWrong(r) \/ VerifyRight(r) \/ VerifyClose(r) \/ VerifyDefaultMark(r)
        PROVE  AccountInv'
    BY <2>2, EnteredSteps, MarkedSteps
  <2>3. ASSUME LoginUpsert(r) \/ LoginSession(r) \/ EnrollCommit(r) PROVE AccountInv'
    BY <1>1, <1>2, <2>3, LoginUpsertKept, LoginSessionKept, EnrollCommitKept
  <2>4. ASSUME UpsertFcmToken(r) \/ RequestDeletion(r) \/ RestoreAccount(r) \/ CreateMembership(r)
        PROVE  AccountInv'
    BY <1>1, <1>2, <2>4, OwnActs
  <2>5. ASSUME UpdatePhone(r) \/ AccountRead(r) PROVE AccountInv'
    BY <1>1, <1>2, <2>5, UpdatePhoneKept, AccountReadKept
  <2> QED
    BY <1>4, <2>1, <2>2, <2>3, <2>4, <2>5 DEF Proceed
<1>5. ASSUME NEW c \in Codes, CodeAges(c) PROVE AccountInv'
  BY <1>5, CodeAgesStep
<1>6. ASSUME NEW i \in Ids, FallDue(i) \/ DeleteUser(i) \/ UpdateUser(i) PROVE AccountInv'
  BY <1>1, <1>2, <1>6, RowActs
<1>7. ASSUME JobFind \/ \E i \in Ids : JobFault(i) PROVE AccountInv'
  BY <1>1, <1>2, <1>7, JobActs
<1>8. ASSUME NEW i \in Ids, JobDelete(i) PROVE AccountInv'
  BY <1>1, <1>2, <1>8, JobDeleteKept
<1>9. CASE UNCHANGED vars
  <2>1. UNCHANGED <<world, code, ident, sess, req, found, faults>>
    BY <1>9 DEF vars
  <2>2. req' \in [Slots -> Request] /\ ReqPart' /\ NoTickets
    BY <1>1, <2>1 DEF Before, Shape, ReqPart, NoTickets
  <2> QED
    BY <2>1, <2>2, CodeRests
<1> QED
  BY <1>3, <1>4, <1>5, <1>6, <1>7, <1>8, <1>9 DEF Next

LEMMA AlwaysAccount == Spec => []AccountInv
BY InitAccount, NextAccount, PTL DEF Spec

-----------------------------------------------------------------------------
(* Of one number no more codes are good, or cooling, at once than there    *)
(* are requests; a code lets in no more requests than that, and is guessed *)
(* at no more often than the limit and the requests past the check: for    *)
(* every number of requests, codes and attempts.                           *)
THEOREM OtpBudgetHolds == Spec => []OtpBudget
<1>1. AccountInv => OtpBudget
  <2> SUFFICES ASSUME AccountInv, NEW p \in Phones
               PROVE  /\ Cardinality(Good(p)) <= Budget
                      /\ Cardinality(Cooling(p)) <= Budget
                      /\ \A c \in Of(p) : /\ code[c].uses <= Budget
                                          /\ code[c].attempts <= MaxAttempts - 1 + Budget
    BY DEF OtpBudget, Good, Cooling, Budget
  <2>1. Shape /\ CodePart /\ PhonePart /\ Budget \in Nat
    BY BudgetNat DEF AccountInv
  <2>2. Cardinality(Good(p)) <= Budget
    <3>1. PICK g, k \in Nat : g = Cardinality(Good(p)) /\ k = Cardinality(Creating(p))
      BY AllCounted DEF Counted
    <3>2. g + k <= Budget
      BY <2>1, <3>1 DEF PhonePart
    <3> QED
      BY <2>1, <3>1, <3>2
  <2>3. Cardinality(Cooling(p)) <= Budget
    <3>1. PICK g, k \in Nat : g = Cardinality(Cooling(p)) /\ k = Cardinality(Sending(p))
      BY AllCounted DEF Counted
    <3>2. g + k <= Budget
      BY <2>1, <3>1 DEF PhonePart
    <3> QED
      BY <2>1, <3>1, <3>2
  <2>4. \A c \in Codes : code[c].uses <= Budget /\ code[c].attempts <= MaxAttempts - 1 + Budget
    <3> SUFFICES ASSUME NEW c \in Codes
                 PROVE  code[c].uses <= Budget /\ code[c].attempts <= MaxAttempts - 1 + Budget
      OBVIOUS
    <3>1. PICK u, a, k \in Nat : /\ u = code[c].uses /\ a = code[c].attempts
                                 /\ k = Cardinality(Reading(c))
      BY <2>1, AllCounted DEF Counted, Shape, CodeRow
    <3>2. u + k <= Budget /\ a + k <= MaxAttempts - 1 + Budget
      BY <2>1, <3>1 DEF CodePart
    <3>3. u <= Budget /\ a <= MaxAttempts - 1 + Budget
      BY <2>1, <3>1, <3>2, ConstantsOK
    <3> QED
      BY <3>1, <3>3
  <2> QED
    BY <2>2, <2>3, <2>4 DEF Of
<1> QED
  BY <1>1, AlwaysAccount, PTL

(* An account the job anonymised keeps no phone, live session or device,   *)
(* and one that waits for it no device, unless another request of it was   *)
(* under way or an administrator reopened it: whatever the requests do and *)
(* however the job fails.                                                  *)
THEOREM GoneStaysGone == Spec => []GoneForGood
<1>1. AccountInv => GoneForGood
  BY DEF AccountInv, GonePart, Gone, GoneForGood
<1> QED
  BY <1>1, AlwaysAccount, PTL

(* The types: the bounds on the counters of a code are those of OtpBudget, *)
(* with room to spare.                                                     *)
THEOREM AccountTypes == Spec => []TypeOK
<1>1. AccountInv => TypeOK
  <2> SUFFICES ASSUME AccountInv PROVE TypeOK
    OBVIOUS
  <2>1. Shape /\ CodePart
    BY DEF AccountInv
  <2>2. PICK n, m \in Nat : n = Budget /\ m = Cardinality(Slots) /\ n <= m
    <3>1. world.slots \subseteq Slots
      BY <2>1, ConstantsOK DEF Shape
    <3> QED
      BY <3>1, ConstantsOK, Fewer DEF Budget
  <2>3. ASSUME NEW c \in Codes PROVE code[c] \in Code
    <3>1. PICK u, a, k \in Nat : /\ u = code[c].uses /\ a = code[c].attempts
                                 /\ k = Cardinality(Reading(c))
      BY <2>1, AllCounted DEF Counted, Shape, CodeRow
    <3>2. u + k <= n /\ a + k <= MaxAttempts - 1 + n
      BY <2>1, <2>2, <3>1 DEF CodePart
    <3>3. u \in 0..m /\ a \in 0..(MaxAttempts + 2 * m)
      BY <2>2, <3>1, <3>2, ConstantsOK
    <3>4. code[c] \in CodeRow
      BY <2>1 DEF Shape
    <3> QED
      BY <2>2, <3>1, <3>3, <3>4 DEF CodeRow, Code
  <2> QED
    BY <2>1, <2>3 DEF Shape, TypeOK
<1> QED
  BY <1>1, AlwaysAccount, PTL

==============================================================================
