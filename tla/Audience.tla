------------------------------ MODULE Audience ------------------------------
(***************************************************************************)
(* Who a session acts for, and who hears of what happens.                  *)
(*                                                                         *)
(* Staff log in (staff.controller.js), are offered the laundries and       *)
(* branches they may work for, select or switch to one, and their requests *)
(* pass contextGuard and requireStaffSession.  Customers' sessions name no *)
(* laundry: every request and socket names one (washerContextResolver.js,  *)
(* canonicalContextGuard.js, socket-context.resolver.js).  A domain event  *)
(* is resolved to rooms (realtime-event.registry.js, realtime-target       *)
(* .resolver.js) and emitted to the sockets that joined one of them        *)
(* (socket-room.service.js).                                               *)
(*                                                                         *)
(* Codes and accounts are the subject of Accounts, revocation and refresh  *)
(* of Sessions, invitations and roles of StaffAccess, orders of            *)
(* OrderPlacement and OrderLifecycle, the outbox of RealtimeOutbox: of     *)
(* these only what decides about contexts and rooms is here: identities    *)
(* stay active, and the session that accepting an invitation replaces      *)
(* (staff-invitation.service.js:438) is left out.  A slot is a request in  *)
(* flight, each of its steps one read or transaction.  A refused request   *)
(* changes nothing and is not a step, or ends.                             *)
(***************************************************************************)
EXTENDS Naturals, FiniteSets

CONSTANTS
  Identities, Washers, Branches,
  BranchWasher,   \* the laundry of each branch; never changes
  Role,           \* the role of each membership; how it changes: StaffAccess
  Slots, Socks,   \* requests, sockets
  None,
  Worlds,         \* what a behaviour may do: see AudienceConstantsOK
  MaxSessions, MaxOrders   \* bounds: rows that may be created

Staff == Identities \X Washers   \* StaffMembership, one for each pair
IdentityOf(m) == m[1]
WasherOf(m)   == m[2]

Sess   == 1..MaxSessions
Orders == 1..MaxOrders

Membership == [status : {"none", "active", "inactive"}, full : BOOLEAN,
               at : SUBSET Branches]       \* BranchAccess rows

ASSUME AudienceConstantsOK ==
  /\ None \notin Identities \cup Washers \cup Branches \cup Staff
  /\ BranchWasher \in [Branches -> Washers]
  /\ MaxSessions \in Nat /\ MaxOrders \in Nat
  /\ Role \in [Staff -> {"washer_owner", "washer_manager", "worker", "driver"}]
  /\ \A w \in Worlds :
       /\ w.slots \subseteq Slots /\ w.socks \subseteq Socks
       /\ w.ops \subseteq {"login", "contexts", "select", "staff", "order"}
       /\ w.staff \in [Staff -> Membership]
       /\ \A m \in Staff : \A b \in w.staff[m].at : BranchWasher[b] = WasherOf(m)
       /\ w.open \subseteq Branches                    \* active at first
       /\ w.customers \subseteq Identities   \* who logs in as a customer
       /\ w.enrolled \subseteq Identities \X Washers   \* enrolled at first
       /\ w.events \subseteq {"order", "payment", "task", "invitation",
                              "accepted", "activated"}
       /\ w.changes \in Nat    \* changes from outside: suspensions, closures
       /\ w.sessions \in 0..MaxSessions /\ w.orders \in 0..MaxOrders

VARIABLES
  world,    \* what this behaviour may do; never changes
  staff,    \* StaffMembership rows with their BranchAccess rows
  branch,   \* Branch rows
  washer,   \* laundries whose status is active
  cust,     \* active CustomerMembership rows
  sess,     \* Session rows
  req,      \* what each slot is doing
  sock,     \* sockets
  order,    \* orders: whose, for which branch, with which driver
  event,    \* the outbox row at hand
  rooms,    \* the rooms it was resolved to
  heard,    \* how often each socket got what was emitted last
  changes   \* changes from outside so far

ctxVars  == <<staff, branch, washer, changes>>
liveVars == <<sock, order, event, rooms, heard>>
audienceVars == <<world, ctxVars, cust, sess, req, liveVars>>

Session == [st : {"none", "live", "replaced"}, kind : {"provisional", "operational"},
            of : Identities \cup {None}, member : Staff \cup {None},
            washer : Washers \cup {None}, branch : Branches \cup {None}]

(* late, for ServedWasMember alone: when the request came, the context of  *)
(* its session had been withdrawn, and it was not given back since.        *)
Request ==
  [pc : {"idle", "contexts", "make", "member", "branch", "washer", "replace",
         "commit", "place", "served"},
   op : {"none", "login", "contexts", "select", "staff", "order"},
   i : Identities \cup {None}, s : 0..MaxSessions,
   m : Staff \cup {None}, w : Washers \cup {None}, b : Branches \cup {None},
   full : SUBSET Washers,                     \* memberships still to expand
   ctxs : SUBSET (Washers \X Branches),       \* availableContexts
   late : BOOLEAN]

(* was, for HeardByParties alone: a customer of the laundry at the start.  *)
Socket == [st : {"closed", "row", "member", "alone", "open"}, s : 0..MaxSessions,
           of : Identities \cup {None}, w : Washers \cup {None},
           hasMembership : BOOLEAN, was : BOOLEAN]

NoSession == [st |-> "none", kind |-> "provisional", of |-> None,
              member |-> None, washer |-> None, branch |-> None]
NoRequest == [pc |-> "idle", op |-> "none", i |-> None, s |-> 0, m |-> None,
              w |-> None, b |-> None, full |-> {}, ctxs |-> {}, late |-> FALSE]
NoSocket  == [st |-> "closed", s |-> 0, of |-> None, w |-> None,
              hasMembership |-> FALSE, was |-> FALSE]
NoOrder   == [of |-> None, w |-> None, b |-> None, driver |-> None]
NoEvent   == [type |-> "none", o |-> 0, i |-> None, w |-> None]
Silence   == [k \in Socks |-> 0]

AudienceInit ==
  /\ world \in Worlds
  /\ staff = world.staff
  /\ branch = [b \in Branches |-> IF b \in world.open THEN "active" ELSE "none"]
  /\ washer = Washers
  /\ cust = world.enrolled
  /\ sess = [n \in Sess |-> NoSession]
  /\ req = [r \in Slots |-> NoRequest]
  /\ sock = [k \in Socks |-> NoSocket]
  /\ order = [o \in Orders |-> NoOrder]
  /\ event = NoEvent
  /\ rooms = {}
  /\ heard = Silence
  /\ changes = 0

-----------------------------------------------------------------------------
Go(r, pc) == req' = [req EXCEPT ![r].pc = pc]
Answer(r) == req' = [req EXCEPT ![r] = NoRequest]

Arrive(r, how) ==
  /\ r \in world.slots /\ req[r].pc = "idle" /\ how.op \in world.ops
  /\ req' = [req EXCEPT ![r] = how]

ActiveBranches(w) == {b \in Branches : BranchWasher[b] = w /\ branch[b] = "active"}
MayEnter(m, b)    == staff[m].full \/ b \in staff[m].at
NextSession(n)    == /\ n <= world.sessions /\ sess[n].st = "none"
                     /\ \A k \in 1..(n-1) : sess[k].st # "none"
Room              == \E n \in Sess : NextSession(n)       \* bound: MaxSessions

Operational(i, m, w, b) ==
  [st |-> "live", kind |-> "operational", of |-> i, member |-> m,
   washer |-> w, branch |-> b]
Provisional(i) == [NoSession EXCEPT !.st = "live", !.of = i]

-----------------------------------------------------------------------------
(* The contexts of a member of staff: _buildStaffContexts.                 *)

ActiveMemberships(i) ==
  {m \in Staff : IdentityOf(m) = i /\ staff[m].status = "active"}

(* The active ones of the branches granted one by one.                     *)
GrantedContexts(mine) ==
  {c \in Washers \X Branches : branch[c[2]] = "active" /\
     \E m \in mine : ~staff[m].full /\ c[1] = WasherOf(m) /\ c[2] \in staff[m].at}

(* One query reads the memberships, their laundries and granted branches.  *)
Memberships(r, op, i, n) ==
  LET mine == {m \in ActiveMemberships(i) : WasherOf(m) \in washer} IN
  Arrive(r, [NoRequest EXCEPT
       !.pc = "contexts", !.op = op, !.i = i, !.s = n,
       !.full = {WasherOf(m) : m \in {x \in mine : staff[x].full}},
       !.ctxs = GrantedContexts(mine)])

(* StaffController.verifyOtp, the code being right. *)
StaffLogin(r, i) ==
  /\ ActiveMemberships(i) # {}
  /\ Memberships(r, "login", i, 0)
  /\ UNCHANGED <<world, ctxVars, cust, sess, liveVars>>

(* getContexts, behind contextGuard. *)
GetContexts(r, n) ==
  /\ sess[n].st = "live"
  /\ Memberships(r, "contexts", sess[n].of, n)
  /\ UNCHANGED <<world, ctxVars, cust, sess, liveVars>>

(* All active branches of a laundry, or a default one when it has none.    *)
BranchesFound(r, w) ==
  /\ req[r].pc = "contexts" /\ w \in req[r].full
  /\ req' = [req EXCEPT
       ![r].full = @ \ {w},
       ![r].ctxs = @ \cup ({w} \X ActiveBranches(w)),
       ![r].w = IF ActiveBranches(w) = {} THEN w ELSE @,
       ![r].pc = IF ActiveBranches(w) = {} THEN "make" ELSE @]
  /\ UNCHANGED <<world, ctxVars, cust, sess, liveVars>>

BranchMade(r) ==
  LET w    == req[r].w
      free == {b \in Branches : BranchWasher[b] = w /\ branch[b] = "none"} IN
  /\ req[r].pc = "make"
  /\ IF free = {} THEN Answer(r) /\ UNCHANGED branch     \* bound: Branches
     ELSE \E b \in free :
            /\ branch' = [branch EXCEPT ![b] = "active"]
            /\ req' = [req EXCEPT ![r].pc = "contexts", ![r].w = None,
                                  ![r].ctxs = @ \cup {<<w, b>>}]
  /\ UNCHANGED <<world, staff, washer, changes, cust, sess, liveVars>>

(* One context is entered at once; of more the client selects one.         *)
ContextsBuilt(r) ==
  LET i == req[r].i IN
  /\ req[r].pc = "contexts" /\ req[r].full = {}
  /\ IF req[r].op = "login" /\ req[r].ctxs # {} /\ Room
     THEN \E n \in Sess :
            /\ NextSession(n)
            /\ IF Cardinality(req[r].ctxs) = 1
               THEN \E c \in req[r].ctxs :
                      sess' = [sess EXCEPT ![n] = Operational(i, <<i, c[1]>>, c[1], c[2])]
               ELSE sess' = [sess EXCEPT ![n] = Provisional(i)]
     ELSE UNCHANGED sess
  /\ Answer(r)
  /\ UNCHANGED <<world, ctxVars, cust, liveVars>>

-----------------------------------------------------------------------------
(* selectContext and switchContext: the same steps, behind contextGuard    *)
(* alone; any live session may ask, the client names the context.          *)

SelectGuard(r, n) ==
  /\ sess[n].st = "live" /\ Room
  /\ Arrive(r, [NoRequest EXCEPT !.pc = "member", !.op = "select", !.s = n,
                                 !.i = sess[n].of])
  /\ UNCHANGED <<world, ctxVars, cust, sess, liveVars>>

SelectMember_Bug(r, m, w, b) ==  \* the membership may be of another laundry
  /\ req[r].pc = "member" /\ req[r].op = "select"
  /\ staff[m].status = "active" /\ IdentityOf(m) = req[r].i
  /\ MayEnter(m, b)
  /\ req' = [req EXCEPT ![r].pc = "branch", ![r].m = m, ![r].w = w, ![r].b = b]
  /\ UNCHANGED <<world, ctxVars, cust, sess, liveVars>>

(* The membership and its accesses are read together; that they do not     *)
(* include the branch is answered after the branch was read, with nothing  *)
(* written either way.                                                     *)
SelectMember(r, m, w, b) ==
  /\ req[r].pc = "member" /\ req[r].op = "select"
  /\ staff[m].status = "active" /\ IdentityOf(m) = req[r].i
  /\ WasherOf(m) = w
  /\ MayEnter(m, b)
  /\ req' = [req EXCEPT ![r].pc = "branch", ![r].m = m, ![r].w = w, ![r].b = b]
  /\ UNCHANGED <<world, ctxVars, cust, sess, liveVars>>

(* The client names a context that is refused here. *)
SelectRefused(r) ==
  /\ req[r].pc = "member" /\ req[r].op = "select"
  /\ Answer(r)
  /\ UNCHANGED <<world, ctxVars, cust, sess, liveVars>>

SelectBranch(r) ==
  /\ req[r].pc = "branch" /\ req[r].op = "select"
  /\ IF BranchWasher[req[r].b] = req[r].w /\ branch[req[r].b] = "active"
     THEN Go(r, "washer") ELSE Answer(r)
  /\ UNCHANGED <<world, ctxVars, cust, sess, liveVars>>

SelectWasher(r) ==
  /\ req[r].pc = "washer"
  /\ IF req[r].w \in washer THEN Go(r, "replace") ELSE Answer(r)
  /\ UNCHANGED <<world, ctxVars, cust, sess, liveVars>>

(* createReplacementSession: reads the old session, then commits; see      *)
(* Sessions for what a logout in between does.                             *)
ReplaceRead(r) ==
  /\ req[r].pc = "replace"
  /\ IF sess[req[r].s].st = "replaced" THEN Answer(r) ELSE Go(r, "commit")
  /\ UNCHANGED <<world, ctxVars, cust, sess, liveVars>>

ReplaceCommit(r) ==
  LET q == req[r] IN
  /\ q.pc = "commit"
  /\ IF ~Room THEN UNCHANGED sess
     ELSE \E n \in Sess :
            /\ NextSession(n)
            /\ sess' = [sess EXCEPT ![q.s].st = "replaced",
                          ![n] = Operational(sess[q.s].of, q.m, q.w, q.b)]
  /\ Answer(r)
  /\ UNCHANGED <<world, ctxVars, cust, liveVars>>

-----------------------------------------------------------------------------
(* A request of staff: contextGuard, requireStaffSession.                  *)

Entitled(rows, n) ==
  LET m == rows[sess[n].member] IN
  m.status = "active" /\ (m.full \/ sess[n].branch \in m.at)

StaffGuard(r, n) ==
  /\ sess[n].st = "live" /\ sess[n].member # None
  /\ Arrive(r, [NoRequest EXCEPT !.pc = "member", !.op = "staff", !.s = n,
                                 !.late = ~Entitled(staff, n)])
  /\ UNCHANGED <<world, ctxVars, cust, sess, liveVars>>

StaffMember_Bug(r) ==  \* an inactive membership passes
  LET c == sess[req[r].s] IN
  /\ req[r].pc = "member" /\ req[r].op = "staff"
  /\ IF /\ IdentityOf(c.member) = c.of /\ WasherOf(c.member) = c.washer
        /\ MayEnter(c.member, c.branch)
     THEN Go(r, "branch") ELSE Answer(r)
  /\ UNCHANGED <<world, ctxVars, cust, sess, liveVars>>

StaffMember(r) ==
  LET c == sess[req[r].s] IN
  /\ req[r].pc = "member" /\ req[r].op = "staff"
  /\ IF /\ staff[c.member].status = "active"
        /\ IdentityOf(c.member) = c.of /\ WasherOf(c.member) = c.washer
        /\ MayEnter(c.member, c.branch)
     THEN Go(r, "branch") ELSE Answer(r)
  /\ UNCHANGED <<world, ctxVars, cust, sess, liveVars>>

StaffBranch(r) ==
  LET c == sess[req[r].s] IN
  /\ req[r].pc = "branch" /\ req[r].op = "staff"
  /\ IF BranchWasher[c.branch] = c.washer THEN Go(r, "served") ELSE Answer(r)
  /\ UNCHANGED <<world, ctxVars, cust, sess, liveVars>>

Served(r) ==
  /\ req[r].pc = "served"
  /\ Answer(r)
  /\ UNCHANGED <<world, ctxVars, cust, sess, liveVars>>

-----------------------------------------------------------------------------
(* Customers: each request names its laundry.  What may overlap a login or *)
(* an enrolment is in Accounts; a membership once made stays.              *)

CustomerLogin(i, w) ==
  /\ i \in world.customers /\ w \in washer
  /\ \E n \in Sess :
       /\ NextSession(n)
       /\ sess' = [sess EXCEPT ![n] =
            IF <<i, w>> \in cust THEN Operational(i, None, None, None)
            ELSE Provisional(i)]
  /\ UNCHANGED <<world, ctxVars, cust, req, liveVars>>

(* A session of staff cannot enrol; an operational one is kept.            *)
Enroll(n, w) ==
  LET i == sess[n].of IN
  /\ sess[n].st = "live" /\ sess[n].member = None
  /\ i \in world.customers /\ w \in washer
  /\ cust' = cust \cup {<<i, w>>}
  /\ IF sess[n].kind = "operational" THEN UNCHANGED sess
     ELSE \E k \in Sess :
            /\ NextSession(k)
            /\ sess' = [sess EXCEPT ![n].st = "replaced",
                                    ![k] = Operational(i, None, None, None)]
  /\ UNCHANGED <<world, ctxVars, req, liveVars>>

(* resolveSessionContext: no session has a device, so the session of a     *)
(* member of staff counts as a customer's too.                             *)
CanonicalCustomer(n) == sess[n].st = "live"

WasherContext(w) == w \in washer

(* canonicalContextGuard, requireCanonicalCustomerContext.                 *)
CustomerGuard(r, n, w) ==
  /\ CanonicalCustomer(n) /\ sess[n].kind = "operational" /\ WasherContext(w)
  /\ Arrive(r, [NoRequest EXCEPT !.pc = "place", !.op = "order", !.s = n,
                                 !.i = sess[n].of, !.w = w])
  /\ UNCHANGED <<world, ctxVars, cust, sess, liveVars>>

(* OrderService.create: for a member of that laundry. *)
PlaceOrder(r) ==
  LET q == req[r]
      new == {o \in 1..world.orders : order[o] = NoOrder} IN
  /\ q.pc = "place"
  /\ IF q.w \notin washer \/ <<q.i, q.w>> \notin cust \/ new = {} \/ ActiveBranches(q.w) = {}
     THEN UNCHANGED order                                \* bound: MaxOrders
     ELSE \E b \in ActiveBranches(q.w) :
            LET o == CHOOSE k \in new : \A j \in new : k <= j IN
            order' = [order EXCEPT ![o] =
                        [of |-> q.i, w |-> q.w, b |-> b, driver |-> None]]
  /\ Answer(r)
  /\ UNCHANGED <<world, ctxVars, cust, sess, sock, event, rooms, heard>>

(* A driver of the laundry claims its pickup, or another its delivery.     *)
Assign(o, m) ==
  /\ order[o] # NoOrder
  /\ WasherOf(m) = order[o].w /\ staff[m].status = "active"
  /\ order' = [order EXCEPT ![o].driver = m]
  /\ UNCHANGED <<world, ctxVars, cust, sess, req, sock, event, rooms, heard>>

-----------------------------------------------------------------------------
(* Sockets of customers.  resolveContext refuses every socket of a staff   *)
(* session, whose token names no application.                              *)

(* The session's row; the handshake in full is in Sessions.                *)
SocketRow(k, n, w) ==
  /\ k \in world.socks /\ sock[k].st = "closed"
  /\ sess[n].st = "live" /\ sess[n].kind = "operational" /\ sess[n].member = None
  /\ sock' = [sock EXCEPT ![k] =
       [st |-> "row", s |-> n, of |-> sess[n].of, w |-> w,
        hasMembership |-> FALSE, was |-> <<sess[n].of, w>> \in cust]]
  /\ UNCHANGED <<world, ctxVars, cust, sess, req, order, event, rooms, heard>>

(* The laundry, then the membership. *)
SocketMember(k) ==
  LET c == sock[k] IN
  /\ c.st = "row"
  /\ sock' = [sock EXCEPT ![k] =
       IF c.w \notin washer THEN NoSocket
       ELSE [c EXCEPT !.st = "member", !.hasMembership = <<c.of, c.w>> \in cust]]
  /\ UNCHANGED <<world, ctxVars, cust, sess, req, order, event, rooms, heard>>

(* Sockets already in the session's room are disconnected; two that are    *)
(* here at once do not see each other.                                     *)
SocketOverlap(k) ==
  /\ sock[k].st = "member"
  /\ sock' = [j \in Socks |->
       IF j = k THEN [sock[k] EXCEPT !.st = "alone"]
       ELSE IF sock[j].st = "open" /\ sock[j].s = sock[k].s THEN NoSocket
       ELSE sock[j]]
  /\ UNCHANGED <<world, ctxVars, cust, sess, req, order, event, rooms, heard>>

SocketJoin(k) ==
  /\ sock[k].st = "alone"
  /\ sock' = [sock EXCEPT ![k].st = "open"]
  /\ UNCHANGED <<world, ctxVars, cust, sess, req, order, event, rooms, heard>>

(* Closed by the client, by the expiry of its token or with its session.   *)
SocketEnds(k) ==
  /\ sock[k].st = "open"
  /\ sock' = [sock EXCEPT ![k] = NoSocket]
  /\ UNCHANGED <<world, ctxVars, cust, sess, req, order, event, rooms, heard>>

(* applyJoiningPolicy. *)
RoomsOf_Bug(c) ==  \* as staff would, the identity's room too
  {<<"session", c.s>>, <<"identity", c.of>>} \cup
  (IF c.hasMembership THEN {<<"app_identity", c.w, c.of>>} ELSE {})

RoomsOf(c) ==
  {<<"session", c.s>>} \cup
  (IF c.hasMembership THEN {<<"app_identity", c.w, c.of>>} ELSE {})

-----------------------------------------------------------------------------
(* Events.  A row of the outbox, written with what happened.               *)

AboutOrders == {"order", "payment", "task"}

Announce(e) ==
  /\ event = NoEvent /\ e.type \in world.events
  /\ e.type \in AboutOrders => order[e.o] # NoOrder
  /\ e.i = None => e.type \in AboutOrders \cup {"invitation"}
  /\ event' = e
  /\ heard' = Silence
  /\ UNCHANGED <<world, ctxVars, cust, sess, req, sock, order, rooms>>

(* resolveWasherManagers. *)
Managers(w) ==
  {IdentityOf(m) : m \in {x \in Staff :
      /\ WasherOf(x) = w /\ staff[x].status = "active" /\ staff[x].full
      /\ Role[x] \in {"washer_owner", "washer_manager"}}}

Driver(o) == IF order[o].driver = None THEN {} ELSE {IdentityOf(order[o].driver)}

IdentityRooms(is) == {<<"identity", i>> : i \in is}

(* The customer's room in the laundry, the laundry's and the branch's.     *)
PartyRooms(o) ==
  {<<"app_identity", order[o].w, order[o].of>>, <<"washer", order[o].w>>,
   <<"branch", order[o].b>>}

(* The definitions of the registry.  i is who has the invited phone (if    *)
(* anybody), who invited, or whose membership was activated.               *)
StaffInvitation(e)     == IdentityRooms(Managers(e.w) \cup ({e.i} \ {None}))
InvitationAccepted(e)  ==
  IdentityRooms(Managers(e.w) \cup {i \in {e.i} : staff[<<i, e.w>>].status = "active"})
MembershipActivated(e) == IdentityRooms(Managers(e.w) \cup {e.i})
OrderEvent(e)          == PartyRooms(e.o) \cup IdentityRooms(Driver(e.o))
PaymentEvent(e)        == PartyRooms(e.o)
DriverTaskEvent(e)     == PartyRooms(e.o) \cup IdentityRooms(Driver(e.o))

Targets(e) ==
  CASE e.type = "order"      -> OrderEvent(e)
    [] e.type = "payment"    -> PaymentEvent(e)
    [] e.type = "task"       -> DriverTaskEvent(e)
    [] e.type = "invitation" -> StaffInvitation(e)
    [] e.type = "accepted"   -> InvitationAccepted(e)
    [] e.type = "activated"  -> MembershipActivated(e)

(* One room or more, or the event is done with.                            *)
Resolve ==
  /\ event # NoEvent /\ rooms = {}
  /\ rooms' = Targets(event)
  /\ event' = IF rooms' = {} THEN NoEvent ELSE event
  /\ UNCHANGED <<world, ctxVars, cust, sess, req, sock, order, heard>>

(* emitClientEvent, to each room in turn: the sockets of the process that  *)
(* took the event up.                                                      *)
Emit ==
  /\ rooms # {}
  /\ heard' = [k \in Socks |->
       IF sock[k].st = "open" THEN Cardinality(RoomsOf(sock[k]) \cap rooms) ELSE 0]
  /\ event' = NoEvent /\ rooms' = {}
  /\ UNCHANGED <<world, ctxVars, cust, sess, req, sock, order>>

(* The infrastructure is not ready: the event is resolved again later.     *)
EmitFails ==
  /\ rooms # {}
  /\ rooms' = {}
  /\ UNCHANGED <<world, ctxVars, cust, sess, req, sock, order, event, heard>>

-----------------------------------------------------------------------------
(* From outside.  Nothing in src/ suspends a membership, withdraws a       *)
(* branch or closes a branch or laundry, but every check reckons with it.  *)

StaffChanges(m, row) ==
  /\ changes < world.changes /\ changes' = changes + 1
  /\ staff[m].status # "none" /\ row # staff[m]
  /\ staff' = [staff EXCEPT ![m] = row]
  /\ req' = [r \in Slots |->
       IF req[r].op = "staff" /\ Entitled(staff', req[r].s)
       THEN [req[r] EXCEPT !.late = FALSE] ELSE req[r]]
  /\ UNCHANGED <<world, branch, washer, cust, sess, liveVars>>

Suspended(m)    == [staff[m] EXCEPT !.status = "inactive"]
Reinstated(m)   == [staff[m] EXCEPT !.status = "active"]
Granted(m, b)   == [staff[m] EXCEPT !.at = @ \cup {b}]
Withdrawn(m, b) == [staff[m] EXCEPT !.at = @ \ {b}]

BranchChanges(b) ==
  /\ changes < world.changes /\ changes' = changes + 1
  /\ \/ branch[b] = "active" /\ branch' = [branch EXCEPT ![b] = "closed"]
     \/ branch[b] = "closed" /\ branch' = [branch EXCEPT ![b] = "active"]
  /\ UNCHANGED <<world, staff, washer, cust, sess, req, liveVars>>

WasherChanges(w) ==
  /\ changes < world.changes /\ changes' = changes + 1
  /\ washer' = (washer \ {w}) \cup ({w} \ washer)
  /\ UNCHANGED <<world, staff, branch, cust, sess, req, liveVars>>

-----------------------------------------------------------------------------
Announcements ==
  [type : world.events \cap AboutOrders, o : Orders, i : {None}, w : {None}]
  \cup [type : world.events \ AboutOrders, o : {0},
        i : Identities \cup {None}, w : Washers]

Requests(r) ==
  \/ \E i \in Identities : StaffLogin(r, i)
  \/ \E n \in Sess : GetContexts(r, n) \/ SelectGuard(r, n) \/ StaffGuard(r, n)
  \/ \E n \in Sess, w \in Washers : CustomerGuard(r, n, w)
  \/ \E w \in Washers : BranchesFound(r, w)
  \/ BranchMade(r) \/ ContextsBuilt(r)
  \/ \E m \in Staff, w \in Washers, b \in Branches : SelectMember(r, m, w, b)
  \/ SelectRefused(r) \/ SelectBranch(r) \/ SelectWasher(r) \/ ReplaceRead(r)
  \/ ReplaceCommit(r)
  \/ StaffMember(r) \/ StaffBranch(r) \/ Served(r)
  \/ PlaceOrder(r)

AudienceNext ==
  \/ \E r \in Slots : Requests(r)
  \/ \E i \in Identities, w \in Washers : CustomerLogin(i, w)
  \/ \E n \in Sess, w \in Washers : Enroll(n, w)
  \/ \E o \in Orders, m \in Staff : Assign(o, m)
  \/ \E k \in Socks : \/ \E n \in Sess, w \in Washers : SocketRow(k, n, w)
                      \/ SocketMember(k) \/ SocketOverlap(k)
                      \/ SocketJoin(k) \/ SocketEnds(k)
  \/ \E e \in Announcements : Announce(e)
  \/ Resolve \/ Emit \/ EmitFails
  \/ \E m \in Staff : \/ StaffChanges(m, Suspended(m)) \/ StaffChanges(m, Reinstated(m))
                      \/ \E b \in Branches :
                           /\ BranchWasher[b] = WasherOf(m)
                           /\ \/ StaffChanges(m, Granted(m, b))
                              \/ StaffChanges(m, Withdrawn(m, b))
  \/ \E b \in Branches : BranchChanges(b)
  \/ \E w \in Washers : WasherChanges(w)

AudienceSpec == AudienceInit /\ [][AudienceNext]_audienceVars
-----------------------------------------------------------------------------
OrderRow == [of : Identities, w : Washers, b : Branches, driver : Staff \cup {None}]

EventRow ==
  [type : AboutOrders, o : Orders, i : {None}, w : {None}]
  \cup [type : {"invitation", "accepted", "activated"}, o : {0},
        i : Identities \cup {None}, w : Washers]

(* Rooms that no socket of a customer joins. *)
StaffRooms ==
  {"identity", "washer", "branch"} \X (Identities \cup Washers \cup Branches \cup {None})

CustomerRooms == {"app_identity"} \X Washers \X Identities

(* What the tables and the rooms of an event can hold.                     *)
AudienceTypeOK ==
  /\ world \in Worlds
  /\ staff \in [Staff -> Membership]
  /\ branch \in [Branches -> {"none", "active", "closed"}]
  /\ washer \subseteq Washers
  /\ cust \subseteq Identities \X Washers
  /\ sess \in [Sess -> Session]
  /\ req \in [Slots -> Request]
  /\ sock \in [Socks -> Socket]
  /\ order \in [Orders -> {NoOrder} \cup OrderRow]
  /\ event \in {NoEvent} \cup EventRow
  /\ rooms \subseteq StaffRooms \cup CustomerRooms
  /\ heard \in [Socks -> Nat]
  /\ changes \in 0..world.changes

(* Whatever contexts a client names, and however logins, selections and    *)
(* switches overlap, an operational session of staff names a membership of *)
(* its own identity in its own laundry, and a branch of that laundry; a    *)
(* customer's names none of these.  An order is placed by a customer of    *)
(* its laundry, for one of that laundry's branches.                        *)
SessionNamesItsOwn ==
  /\ \A n \in Sess :
       LET c == sess[n] IN
       IF c.member = None THEN c.washer = None /\ c.branch = None
       ELSE /\ c.kind = "operational"
            /\ c.member = <<c.of, c.washer>> /\ BranchWasher[c.branch] = c.washer
  /\ \A o \in Orders : order[o] # NoOrder =>
       <<order[o].of, order[o].w>> \in cust /\ BranchWasher[order[o].b] = order[o].w

(* Access tokens and sessions outlive a membership.  A request that comes  *)
(* after the membership was suspended or its branch withdrawn is not       *)
(* served all the same, unless they are given back while it waits.         *)
ServedWasMember ==
  \A r \in Slots : req[r].pc = "served" => ~req[r].late

(* Customers have no room but that of their identity in the laundry their  *)
(* socket was opened for.  Of an order, its payment and its tasks the      *)
(* sockets of its customer for its laundry hear, all of them opened since  *)
(* the customer enrolled, each once; no other socket hears, whatever else  *)
(* its identity is: a driver, a manager or a customer of the same laundry. *)
(* Of invitations and memberships no customer's socket hears.              *)
HeardByParties ==
  [][rooms # {} /\ event' = NoEvent =>
       \A k \in Socks :
         LET c == sock[k]
             party == /\ event.type \in AboutOrders /\ c.st = "open"
                      /\ c.of = order[event.o].of /\ c.w = order[event.o].w
         IN /\ heard'[k] \in 0..1
            /\ heard'[k] = 1 => party
            /\ party /\ c.was => heard'[k] = 1]_audienceVars
=============================================================================
