---------------------------- MODULE StaffProofs ----------------------------
(***************************************************************************)
(* Proofs about StaffAccess for any number of requests, invitations, roles *)
(* and faults, however they overlap.                                       *)
(***************************************************************************)
EXTENDS StaffAccess, TLAPS

(* A request about an invitation is about one that exists, and those that  *)
(* do not exist yet are blank.                                             *)
AboutMade ==
  /\ \A s \in Slots : req[s].pc \in {"sms", "undo", "resend", "revoke", "accept", "join"}
       => req[s].id \in 1..made
  /\ \A i \in Ids : i > made => inv[i].status = "none"

(* An acceptance has its invitation to itself, and it is pending.          *)
JoinsPending ==
  /\ \A s \in Slots : At(s, "join") => Pending(req[s].id)
  /\ \A s, o \in Slots :
       (At(s, "join") /\ At(o, "join") /\ req[s].id = req[o].id) => s = o

(* Rows that exist have a role. *)
HaveRoles ==
  /\ \A i \in Ids : i <= made => inv[i].role \in Roles
  /\ member.status # "none" => member.role \in Roles

(* Whoever has read the membership and will cache what follows from it.    *)
Computed(o) == req[o].pc \in {"access", "fill"}

(* A role is right under version v if it was held while every request that *)
(* read v was at work, and may be granted now if v is the version now.     *)
Fits(role, v) ==
  /\ role \in Roles
  /\ v <= version
  /\ v = version => role \in Granting
  /\ \A s \in Slots : (Resolves(s) /\ req[s].version = v) => role \in req[s].seen

(* What was computed, and what was cached, is right under its version.     *)
Follow ==
  /\ \A o \in Slots : Resolves(o) =>
       req[o].version \in 0..version /\ Granting \subseteq req[o].seen
  /\ \A o \in Slots : Computed(o) => Fits(req[o].role, req[o].version)
  /\ \A e \in cache : Fits(e.role, e.version)

IInv == /\ TypeOK /\ AboutMade /\ JoinsPending /\ HaveRoles /\ Follow
        /\ GrantsFollowRoles /\ PendingWasSent

LEMMA NoRequestFits == NoRequest \in Request /\ NoRequest.pc = "idle"
BY ConstantsOK DEF NoRequest, Request

LEMMA InitIInv == Init => IInv
<1> SUFFICES ASSUME Init PROVE IInv
  OBVIOUS
<1>1. \A s \in Slots : req[s] = NoRequest /\ req[s].pc = "idle"
  BY NoRequestFits DEF Init
<1>2. world.faults \in Nat
  BY ConstantsOK DEF Init
<1>3. TypeOK
  <2>1. made \in 0..MaxInvitations /\ faults \in 0..world.faults
    BY <1>2, ConstantsOK DEF Init
  <2> QED BY <2>1, NoRequestFits DEF Init, TypeOK, Ids
<1>4. AboutMade /\ JoinsPending /\ PendingWasSent
  BY <1>1 DEF Init, AboutMade, JoinsPending, PendingWasSent, At, Pending
<1>5. HaveRoles
  BY DEF Init, HaveRoles, Member, Ids
<1>6. Follow /\ GrantsFollowRoles
  BY <1>1 DEF Init, Follow, Resolves, Computed, GrantsFollowRoles, At
<1> QED BY <1>3, <1>4, <1>5, <1>6 DEF IInv

-----------------------------------------------------------------------------

(* A request that resolves nothing, before and after a step that leaves    *)
(* memberships alone, keeps what follows from roles.                       *)
LEMMA FollowKept ==
  ASSUME IInv, NEW s \in Slots, NEW q \in Request,
         q.pc \notin {"lookup", "member", "access", "fill", "granted"},
         req' = [req EXCEPT ![s] = q],
         UNCHANGED <<member, version, replaced, cache>>
  PROVE  Follow' /\ GrantsFollowRoles'
<1>1. \A o \in Slots : req'[o] = IF o = s THEN q ELSE req[o]
  BY DEF IInv, TypeOK
<1>2. Granting' = Granting
  BY DEF Granting
<1>3. \A o \in Slots : (Resolves(o)' \/ Computed(o)' \/ At(o, "granted")')
        => o # s /\ req'[o] = req[o]
  BY <1>1 DEF Resolves, Computed, At
<1>4. GrantsFollowRoles'
  BY <1>3 DEF IInv, GrantsFollowRoles, At
<1>5. ASSUME NEW role, NEW v, Fits(role, v) PROVE Fits(role, v)'
  BY <1>2, <1>3, <1>5 DEF Fits, Resolves
<1>6. Follow'
  <2>1. \A o \in Slots : Computed(o)' => Fits(req[o].role, req[o].version)'
    BY <1>3, <1>5 DEF IInv, Follow, Computed
  <2>2. \A e \in cache' : Fits(e.role, e.version)'
    BY <1>5 DEF IInv, Follow
  <2>3. \A o \in Slots : Resolves(o)' =>
         (req[o].version \in 0..version /\ Granting \subseteq req[o].seen)'
    BY <1>2, <1>3 DEF IInv, Follow, Resolves
  <2> QED BY <2>1, <2>2, <2>3 DEF Follow
<1> QED BY <1>4, <1>6

(* A step that leaves invitations alone and takes no request into one of   *)
(* the waits on them keeps what is said of invitations.                    *)
LEMMA InvitationsKept ==
  ASSUME IInv, NEW s \in Slots, NEW q \in Request,
         q.pc \notin {"sms", "undo", "resend", "revoke", "accept", "join"},
         req[s].pc \notin {"sms", "undo"},
         \A o \in Slots : /\ req'[o].pc = IF o = s THEN q.pc ELSE req[o].pc
                          /\ req'[o].id = IF o = s THEN q.id ELSE req[o].id,
         UNCHANGED <<inv, made, sent, orphan>>
  PROVE  AboutMade' /\ JoinsPending' /\ PendingWasSent'
<1>1. AboutMade'
  BY DEF IInv, AboutMade
<1>2. JoinsPending'
  BY DEF IInv, JoinsPending, At, Pending
<1>3. PendingWasSent'
  <2> SUFFICES ASSUME NEW i \in Ids, Pending(i)', i \notin (sent \cup orphan)'
               PROVE  \E o \in Slots : (req[o].id = i /\ req[o].pc \in {"sms", "undo"})'
    BY DEF PendingWasSent
  <2>1. PICK o \in Slots : req[o].id = i /\ req[o].pc \in {"sms", "undo"}
    BY DEF IInv, PendingWasSent, Pending
  <2> QED BY <2>1
<1> QED BY <1>1, <1>2, <1>3

(* A step of a request that resolves nothing and does not lock: what it    *)
(* must leave alone and see to.                                            *)
LEMMA InvitingStep ==
  ASSUME IInv, NEW s \in Slots, NEW q \in Request,
         q.pc \in {"idle", "sms", "undo", "resend", "revoke", "accept"},
         req' = [req EXCEPT ![s] = q],
         UNCHANGED <<world, membership, cache>>,
         faults' \in 0..world.faults,
         inv' \in [Ids -> [status : {"none", "pending", "accepted", "revoked",
                                    "superseded"},
                           role : Roles \cup {NoRole}]],
         made' \in made..MaxInvitations,
         sent' \in SUBSET Ids, orphan' \in SUBSET Ids,
         sent \subseteq sent', orphan \subseteq orphan',
         q.pc # "idle" => q.id \in 1..made',
         \A i \in Ids : i > made' => inv'[i].status = "none",
         \A i \in Ids : i <= made' => inv'[i].role \in Roles,
         \A o \in Slots \ {s} :
           At(o, "join") => inv'[req[o].id] = inv[req[o].id],
         \A i \in Ids : inv'[i].status = "pending" =>
           \/ i \in sent' \cup orphan'
           \/ q.id = i /\ q.pc \in {"sms", "undo"}
           \/ Pending(i) /\ ~(req[s].id = i /\ req[s].pc \in {"sms", "undo"})
  PROVE  IInv'
<1>1. \A o \in Slots : req'[o] = IF o = s THEN q ELSE req[o]
  BY DEF IInv, TypeOK
<1>2. made \in Nat /\ made' \in 0..MaxInvitations /\ made <= made'
  BY ConstantsOK DEF IInv, TypeOK
<1>3. TypeOK'
  BY <1>2 DEF IInv, TypeOK, membership
<1>4. AboutMade'
  <2>1. ASSUME NEW o \in Slots,
               req'[o].pc \in {"sms", "undo", "resend", "revoke", "accept", "join"}
        PROVE  req'[o].id \in 1..made'
    <3>1. CASE o = s
      BY <1>1, <2>1, <3>1
    <3>2. CASE o # s
      <4>1. req'[o].id \in 1..made
        BY <1>1, <2>1, <3>2 DEF IInv, AboutMade
      <4> QED BY <4>1, <1>2
    <3> QED BY <3>1, <3>2
  <2> QED BY <2>1 DEF AboutMade
<1>5. JoinsPending'
  <2>1. \A o \in Slots : At(o, "join")' => o # s /\ At(o, "join") /\ req'[o] = req[o]
    BY <1>1 DEF At
  <2> QED BY <2>1 DEF IInv, JoinsPending, Pending
<1>6. PendingWasSent'
  <2> SUFFICES ASSUME NEW i \in Ids, inv'[i].status = "pending",
                      i \notin sent' \cup orphan'
               PROVE  \E o \in Slots : req'[o].id = i /\ req'[o].pc \in {"sms", "undo"}
    BY DEF PendingWasSent, Pending
  <2>1. CASE q.id = i /\ q.pc \in {"sms", "undo"}
    BY <2>1, <1>1
  <2>2. CASE Pending(i) /\ ~(req[s].id = i /\ req[s].pc \in {"sms", "undo"})
    <3>1. PICK o \in Slots : req[o].id = i /\ req[o].pc \in {"sms", "undo"}
      BY <2>2 DEF IInv, PendingWasSent
    <3> QED BY <3>1, <2>2, <1>1
  <2> QED BY <2>1, <2>2
<1>7. HaveRoles'
  BY DEF IInv, HaveRoles, membership
<1>8. Follow' /\ GrantsFollowRoles'
  BY FollowKept DEF membership
<1> QED BY <1>3, <1>4, <1>5, <1>6, <1>7, <1>8 DEF IInv

-----------------------------------------------------------------------------
LEMMA Ranges ==
  ASSUME IInv
  PROVE  /\ made \in Nat /\ made \in made..MaxInvitations /\ 1..made \subseteq Ids
         /\ faults \in 0..world.faults
         /\ sent \in SUBSET Ids /\ orphan \in SUBSET Ids
         /\ \A s \in Slots : req[s] \in Request
         /\ \A i \in Ids : i > made => inv[i].status = "none"
         /\ \A i \in Ids : i <= made => inv[i].role \in Roles
BY ConstantsOK DEF IInv, TypeOK, Ids, AboutMade, HaveRoles

(* Requests that only read, and those that give up, keep IInv. *)
LEMMA ReadsKeep ==
  ASSUME IInv, NEW s \in Slots,
         \/ \E i \in Ids : ResendRead(s, i) \/ RevokeRead(s, i) \/ AcceptRead(s, i)
         \/ ResendDuplicate(s) \/ AcceptLost(s) \/ AcceptRefused(s)
  PROVE  IInv'
<1> USE Ranges
<1>1. PICK q \in Request :
        /\ q.pc \in {"idle", "resend", "revoke", "accept"}
        /\ q.pc # "idle" => q.id \in Ids /\ Pending(q.id)
        /\ req' = [req EXCEPT ![s] = q]
        /\ req[s].pc \notin {"sms", "undo"}
        /\ UNCHANGED <<world, invitations, membership, cache, faults>>
  <2>1. ASSUME NEW i \in Ids, NEW pc \in {"resend", "revoke", "accept"},
               Pending(i), Start(s, [NoRequest EXCEPT !.pc = pc, !.id = i]),
               UNCHANGED <<world, invitations, membership, cache, faults>>
        PROVE  \E q \in Request :
                 /\ q.pc \in {"idle", "resend", "revoke", "accept"}
                 /\ q.pc # "idle" => q.id \in Ids /\ Pending(q.id)
                 /\ req' = [req EXCEPT ![s] = q]
                 /\ req[s].pc \notin {"sms", "undo"}
                 /\ UNCHANGED <<world, invitations, membership, cache, faults>>
    <3>1. i \in 0..MaxInvitations
      BY ConstantsOK DEF Ids
    <3>2. [NoRequest EXCEPT !.pc = pc, !.id = i] \in Request
      BY <3>1, NoRequestFits DEF Request
    <3>3. /\ [NoRequest EXCEPT !.pc = pc, !.id = i].pc = pc
          /\ [NoRequest EXCEPT !.pc = pc, !.id = i].id = i
      BY DEF NoRequest
    <3> QED BY <2>1, <3>2, <3>3 DEF Start, MayStart, At
  <2>2. CASE ResendDuplicate(s) \/ AcceptLost(s) \/ AcceptRefused(s)
    BY <2>2, NoRequestFits
    DEF ResendDuplicate, AcceptLost, AcceptRefused, Answer, At
  <2> QED BY <2>1, <2>2 DEF ResendRead, RevokeRead, AcceptRead
<1>2. q.pc # "idle" => q.id \in 1..made
  BY <1>1, ConstantsOK DEF Pending, Ids
<1> QED
  BY <1>1, <1>2, InvitingStep DEF invitations, Pending, IInv, TypeOK

(* A row is taken back. *)
LEMMA RevokedKeeps ==
  ASSUME IInv, NEW s \in Slots, Undo(s) \/ RevokeCommit(s)
  PROVE  IInv'
<1> USE Ranges
<1> DEFINE i == req[s].id
<1>1. /\ req' = [req EXCEPT ![s] = NoRequest]
      /\ inv' = SetStatus(i, "revoked")
      /\ UNCHANGED <<world, made, sent, orphan, membership, cache, faults>>
      /\ i \in 1..made /\ ~Locked(i)
  BY DEF Undo, RevokeCommit, Answer, At, IInv, AboutMade
<1>2. i \in Ids
  BY <1>1
<1>3. inv \in [Ids -> [status : {"none", "pending", "accepted", "revoked",
                                "superseded"},
                      role : Roles \cup {NoRole}]]
  BY DEF IInv, TypeOK
<1>4. \A j \in Ids : /\ j # i => inv'[j] = inv[j]
                     /\ inv'[j].role = inv[j].role
                     /\ j = i => inv'[j].status = "revoked"
  BY <1>1, <1>2, <1>3 DEF SetStatus
<1>5. inv' \in [Ids -> [status : {"none", "pending", "accepted", "revoked",
                                 "superseded"},
                       role : Roles \cup {NoRole}]]
  BY <1>1, <1>2, <1>3 DEF SetStatus
<1>6. \A o \in Slots \ {s} : At(o, "join") => req[o].id # i /\ req[o].id \in Ids
  BY <1>1 DEF Locked, IInv, AboutMade, At
<1> HIDE DEF i
<1>7. ASSUME NEW o \in Slots \ {s}, At(o, "join")
      PROVE  inv'[req[o].id] = inv[req[o].id]
  <2>1. req[o].id # i /\ req[o].id \in Ids
    BY <1>6, <1>7
  <2> QED BY <1>4, <2>1
<1>8. \A j \in Ids : inv'[j].status = "pending" => j # i /\ Pending(j)
  BY <1>4 DEF Pending
<1>9. \A j \in Ids : j > made => inv'[j].status = "none"
  BY <1>1, <1>2, <1>4
<1>10. \A j \in Ids : j <= made => inv'[j].role \in Roles
  BY <1>4
<1>11. NoRequest \in Request /\ NoRequest.pc = "idle"
  BY NoRequestFits
<1>12. \A j \in Ids : inv'[j].status = "pending" =>
        Pending(j) /\ ~(req[s].id = j /\ req[s].pc \in {"sms", "undo"})
  BY <1>8 DEF i
<1> QED
  BY <1>1, <1>5, <1>7, <1>9, <1>10, <1>11, <1>12, InvitingStep

(* The provider answers. *)
LEMMA SmsKeeps ==
  ASSUME IInv, NEW s \in Slots, SmsSent(s) \/ SmsFails(s)
  PROVE  IInv'
<1> USE Ranges
<1>1. req[s].id \in 1..made /\ req[s].pc = "sms"
  BY DEF SmsSent, SmsFails, At, IInv, AboutMade
<1>2. CASE SmsSent(s)
  BY <1>1, <1>2, NoRequestFits, InvitingStep
  DEF SmsSent, Answer, Pending, IInv, TypeOK
<1>3. CASE SmsFails(s)
  <2> DEFINE q == [req[s] EXCEPT !.pc = "undo"]
  <2>1. q \in Request /\ q.pc = "undo" /\ q.id = req[s].id
    BY DEF Request
  <2>2. req' = [req EXCEPT ![s] = q]
    BY <1>3 DEF SmsFails, Go
  <2> HIDE DEF q
  <2> QED
    <3>1. /\ sent' \in SUBSET Ids /\ sent \subseteq sent'
          /\ UNCHANGED <<world, inv, made, orphan, membership, cache, faults>>
          /\ q.id \in 1..made'
      BY <1>1, <1>3, <2>1 DEF SmsFails
    <3>2. inv' \in [Ids -> [status : {"none", "pending", "accepted", "revoked",
                                     "superseded"},
                           role : Roles \cup {NoRole}]]
      BY <3>1 DEF IInv, TypeOK
    <3>3. \A i \in Ids : inv'[i].status = "pending" =>
           \/ q.id = i /\ q.pc \in {"sms", "undo"}
           \/ Pending(i) /\ ~(req[s].id = i /\ req[s].pc \in {"sms", "undo"})
      BY <2>1, <3>1 DEF Pending
    <3>4. /\ \A i \in Ids : i > made' => inv'[i].status = "none"
          /\ \A i \in Ids : i <= made' => inv'[i].role \in Roles
          /\ faults' \in 0..world.faults /\ made' \in made..MaxInvitations
          /\ orphan' \in SUBSET Ids /\ orphan \subseteq orphan'
      BY <3>1
    <3>5. \A o \in Slots \ {s} : At(o, "join") => inv'[req[o].id] = inv[req[o].id]
      BY <3>1
    <3> QED
      BY <2>1, <2>2, <3>1, <3>2, <3>3, <3>4, <3>5, InvitingStep
<1> QED BY <1>2, <1>3

(* A new row: of an invitation, or of one sent again. *)
LEMMA InsertKeeps ==
  ASSUME IInv, NEW s \in Slots,
         (\E r \in Roles : CreateInsert(s, r)) \/ ResendCommit(s)
  PROVE  IInv'
<1> USE Ranges
<1> DEFINE n == made + 1
           q == [NoRequest EXCEPT !.pc = "sms", !.id = n]
           Invs == [Ids -> [status : {"none", "pending", "accepted", "revoked",
                                      "superseded"},
                            role : Roles \cup {NoRole}]]
<1>1. /\ made < MaxInvitations /\ made' = n
      /\ req' = [req EXCEPT ![s] = q]
      /\ UNCHANGED <<world, sent, orphan, membership, cache, faults>>
  BY DEF CreateInsert, ResendCommit
<1>2. n \in Ids /\ n \in made..MaxInvitations /\ n \in 0..MaxInvitations /\ n > made
      /\ n \in 1..n
  BY <1>1, ConstantsOK DEF Ids
<1>3. q \in Request /\ q.pc = "sms" /\ q.id = n
  BY <1>2, NoRequestFits DEF NoRequest, Request
<1>4. inv \in Invs
  BY DEF IInv, TypeOK
<1>5. PICK mid \in Invs, r \in Roles :
        /\ inv' = [mid EXCEPT ![n] = [status |-> "pending", role |-> r]]
        /\ \A j \in Ids : mid[j].role = inv[j].role
        /\ \A j \in Ids : mid[j].status = "pending" => Pending(j)
        /\ \A j \in Ids : j > made => mid[j].status = "none"
        /\ \A o \in Slots \ {s} : At(o, "join") => mid[req[o].id] = inv[req[o].id]
        /\ req[s].pc \notin {"sms", "undo"}
  <2>1. ASSUME NEW r \in Roles, CreateInsert(s, r)
        PROVE  /\ inv' = [inv EXCEPT ![n] = [status |-> "pending", role |-> r]]
               /\ req[s].pc \notin {"sms", "undo"}
    BY <2>1 DEF CreateInsert, MayStart, At
  <2>2. CASE ResendCommit(s)
    <3> DEFINE i == req[s].id
               mid == SetStatus(i, "superseded")
    <3>1. i \in 1..made /\ i \in Ids /\ ~Locked(i) /\ req[s].pc = "resend"
      BY <2>2 DEF ResendCommit, At, IInv, AboutMade
    <3>2. inv' = [mid EXCEPT ![n] = [status |-> "pending", role |-> inv[i].role]]
      BY <2>2 DEF ResendCommit
    <3>3. mid \in Invs
      BY <3>1, <1>4 DEF SetStatus
    <3>4. \A j \in Ids : /\ j # i => mid[j] = inv[j]
                         /\ mid[j].role = inv[j].role
                         /\ j = i => mid[j].status = "superseded"
      BY <3>1, <1>4 DEF SetStatus
    <3>5. \A o \in Slots \ {s} : At(o, "join") => req[o].id # i /\ req[o].id \in Ids
      BY <3>1 DEF Locked, IInv, AboutMade, At
    <3>6. inv[i].role \in Roles
      BY <3>1
    <3> HIDE DEF i, mid, n, Invs
    <3>7. \A j \in Ids : mid[j].status = "pending" => Pending(j)
      BY <3>4 DEF Pending
    <3>8. ASSUME NEW j \in Ids, j > made PROVE mid[j].status = "none"
      <4>1. j # i
        BY <3>1, <3>8, ConstantsOK DEF Ids
      <4>2. inv[j].status = "none"
        BY <3>8
      <4> QED BY <3>4, <4>1, <4>2
    <3>9. ASSUME NEW o \in Slots \ {s}, At(o, "join")
          PROVE  mid[req[o].id] = inv[req[o].id]
      <4>1. req[o].id # i /\ req[o].id \in Ids
        BY <3>5, <3>9
      <4> QED BY <3>4, <4>1
    <3> QED BY <3>1, <3>2, <3>3, <3>4, <3>6, <3>7, <3>8, <3>9
  <2> QED BY <2>1, <2>2, <1>4 DEF Pending
<1>6. inv' \in Invs
  BY <1>2, <1>5
<1>7. \A j \in Ids : /\ j # n => inv'[j] = mid[j]
                     /\ j = n => inv'[j] = [status |-> "pending", role |-> r]
  BY <1>2, <1>5
<1>8. \A o \in Slots \ {s} : At(o, "join") => inv'[req[o].id] = inv[req[o].id]
  <2>1. \A o \in Slots : At(o, "join") => req[o].id \in Ids /\ req[o].id # n
    BY <1>2 DEF IInv, AboutMade, At
  <2> QED BY <1>5, <1>7, <2>1
<1>9. ASSUME NEW j \in Ids, j > n PROVE inv'[j].status = "none"
  <2>1. j > made /\ j # n
    BY <1>9, ConstantsOK DEF Ids
  <2> QED BY <1>5, <1>7, <2>1
<1>10. \A j \in Ids : j <= n => inv'[j].role \in Roles
  <2>1. \A j \in Ids : j <= n => j = n \/ j <= made
    BY DEF Ids
  <2> QED BY <1>5, <1>7, <2>1
<1>11. \A j \in Ids : inv'[j].status = "pending" => j = n \/ Pending(j)
  BY <1>5, <1>7
<1>12. \A j \in Ids : inv'[j].status = "pending" =>
        \/ q.id = j /\ q.pc \in {"sms", "undo"}
        \/ Pending(j) /\ ~(req[s].id = j /\ req[s].pc \in {"sms", "undo"})
  BY <1>3, <1>5, <1>11
<1>13. /\ faults' \in 0..world.faults /\ made' \in made..MaxInvitations
       /\ sent' \in SUBSET Ids /\ orphan' \in SUBSET Ids
       /\ sent \subseteq sent' /\ orphan \subseteq orphan'
       /\ q.id \in 1..made'
  BY <1>1, <1>2, <1>3
<1>14. /\ \A j \in Ids : j > made' => inv'[j].status = "none"
       /\ \A j \in Ids : j <= made' => inv'[j].role \in Roles
  BY <1>1, <1>9, <1>10
<1> HIDE DEF n, q
<1> QED
  BY <1>1, <1>3, <1>6, <1>8, <1>12, <1>13, <1>14, InvitingStep

(* The process dies. *)
LEMMA DeathKeeps ==
  ASSUME IInv, NEW s \in Slots, Dies(s)
  PROVE  IInv'
<1> USE Ranges
<1>1. /\ req' = [req EXCEPT ![s] = NoRequest]
      /\ UNCHANGED <<world, inv, made, sent, membership, cache>>
      /\ orphan' = IF req[s].pc \in {"sms", "undo"} THEN orphan \cup {req[s].id}
                   ELSE orphan
  BY DEF Dies, Answer
<1>2. faults' \in 0..world.faults
  <2>1. world.faults \in Nat
    BY ConstantsOK DEF IInv, TypeOK
  <2> QED BY <2>1 DEF Dies
<1>3. orphan' \in SUBSET Ids /\ orphan \subseteq orphan'
  BY <1>1 DEF IInv, AboutMade
<1>4. inv' \in [Ids -> [status : {"none", "pending", "accepted", "revoked",
                                 "superseded"},
                       role : Roles \cup {NoRole}]]
  BY <1>1 DEF IInv, TypeOK
<1>5. \A i \in Ids : inv'[i].status = "pending" =>
        \/ i \in sent' \cup orphan'
        \/ Pending(i) /\ ~(req[s].id = i /\ req[s].pc \in {"sms", "undo"})
  BY <1>1 DEF Pending
<1>6. NoRequest \in Request /\ NoRequest.pc = "idle"
  BY NoRequestFits
<1>7. /\ \A i \in Ids : i > made' => inv'[i].status = "none"
      /\ \A i \in Ids : i <= made' => inv'[i].role \in Roles
      /\ made' \in made..MaxInvitations
      /\ sent' \in SUBSET Ids /\ sent \subseteq sent'
      /\ \A o \in Slots \ {s} : At(o, "join") => inv'[req[o].id] = inv[req[o].id]
  BY <1>1
<1> QED BY <1>1, <1>2, <1>3, <1>4, <1>5, <1>6, <1>7, InvitingStep

(* An acceptance takes its invitation. *)
LEMMA LockKeeps ==
  ASSUME IInv, NEW s \in Slots, AcceptLock(s)
  PROVE  IInv'
<1> DEFINE q == [req[s] EXCEPT !.pc = "join", !.held = member.status]
<1>1. /\ req' = [req EXCEPT ![s] = q]
      /\ UNCHANGED <<world, invitations, membership, cache, faults>>
      /\ req[s].pc = "accept" /\ ~Locked(req[s].id) /\ Pending(req[s].id)
  BY DEF AcceptLock, At
<1>2. q \in Request /\ q.pc = "join" /\ q.id = req[s].id
  <2>1. req[s] \in Request /\ member.status \in {"none", "active", "suspended"}
    BY DEF IInv, TypeOK, Member
  <2> QED BY <2>1 DEF Request
<1> HIDE DEF q
<1>3. \A o \in Slots : req'[o] = IF o = s THEN q ELSE req[o]
  BY <1>1 DEF IInv, TypeOK
<1>4. TypeOK' /\ HaveRoles'
  BY <1>1, <1>2 DEF IInv, TypeOK, HaveRoles, invitations, membership
<1>5. AboutMade'
  BY <1>1, <1>2, <1>3 DEF IInv, AboutMade, invitations
<1>6. JoinsPending'
  <2>1. \A o \in Slots : At(o, "join")' =>
          /\ req'[o].id = req[o].id
          /\ o # s => At(o, "join") /\ req[o].id # req[s].id
    BY <1>1, <1>2, <1>3 DEF At, Locked
  <2> QED BY <1>1, <2>1 DEF IInv, JoinsPending, Pending, invitations
<1>7. PendingWasSent'
  BY <1>1, <1>2, <1>3 DEF IInv, PendingWasSent, Pending, invitations
<1>8. Follow' /\ GrantsFollowRoles'
  BY <1>1, <1>2, FollowKept DEF membership
<1> QED BY <1>4, <1>5, <1>6, <1>7, <1>8 DEF IInv

-----------------------------------------------------------------------------
(* Roles change, and those at work see it. *)
LEMMA RoleStep ==
  ASSUME IInv, NEW R \in SUBSET Roles,
         \A o \in Slots : (Resolves(o)' => Resolves(o)) /\ req'[o].pc \in {"idle", req[o].pc},
         \A o \in Slots : Resolves(o)' =>
           /\ req'[o].pc = req[o].pc
           /\ req'[o].role = req[o].role /\ req'[o].version = req[o].version
           /\ req'[o].seen = req[o].seen \cup R,
         UNCHANGED cache,
         version' \in {version, version + 1},
         Granting' \subseteq Granting \cup R,
         version' = version => Granting \subseteq Granting'
  PROVE  Follow' /\ GrantsFollowRoles'
<1>1. version \in Nat
  BY DEF IInv, TypeOK
<1>2. ASSUME NEW role, NEW v \in Nat, Fits(role, v) PROVE Fits(role, v)'
  <2>1. v <= version' /\ (v = version' => v = version /\ version' = version)
    BY <1>1, <1>2 DEF Fits
  <2>2. v = version' => role \in Granting'
    BY <1>2, <2>1 DEF Fits
  <2>3. ASSUME NEW o \in Slots, Resolves(o)', req'[o].version = v
        PROVE  role \in req'[o].seen
    BY <1>2, <2>3 DEF Fits
  <2> QED BY <1>2, <2>1, <2>2, <2>3 DEF Fits
<1>3. ASSUME NEW o \in Slots, Resolves(o)'
      PROVE  req'[o].version \in 0..version' /\ Granting' \subseteq req'[o].seen
  <2>1. req[o].version \in 0..version /\ Granting \subseteq req[o].seen
    BY <1>3 DEF IInv, Follow
  <2> QED BY <1>1, <1>3, <2>1
<1>4. ASSUME NEW o \in Slots, Computed(o)'
      PROVE  Fits(req[o].role, req[o].version)'
  <2>1. Resolves(o)'
    BY <1>4 DEF Computed, Resolves
  <2>2. Fits(req[o].role, req[o].version)
    BY <1>4, <2>1 DEF IInv, Follow, Computed
  <2>3. req[o].version \in Nat
    BY DEF IInv, TypeOK, Request
  <2>4. PICK ro \in Roles, vo \in Nat : ro = req[o].role /\ vo = req[o].version
    BY <2>2, <2>3 DEF Fits
  <2>5. Fits(ro, vo)'
    BY <1>2, <2>2, <2>4
  <2> QED BY <2>1, <2>4, <2>5 DEF Fits
<1>5. \A e \in cache' : Fits(e.role, e.version)'
  BY <1>2 DEF IInv, Follow, TypeOK
<1>6. GrantsFollowRoles'
  BY DEF IInv, GrantsFollowRoles, At, Resolves
<1> QED BY <1>3, <1>4, <1>5, <1>6 DEF Follow

(* A person joins. *)
LEMMA JoinKeeps ==
  ASSUME IInv, NEW s \in Slots, AcceptCommit(s)
  PROVE  IInv'
<1> USE Ranges
<1> DEFINE i == req[s].id
           r == inv[i].role
           Statuses == {"none", "pending", "accepted", "revoked", "superseded"}
<1>1. /\ i \in 1..made /\ i \in Ids /\ r \in Roles /\ req[s].pc = "join"
  BY DEF AcceptCommit, At, IInv, AboutMade
<1>2. /\ inv' = SetStatus(i, "accepted")
      /\ member' = [status |-> "active", role |-> r]
      /\ access' \in {access, TRUE} /\ version' = version + 1 /\ replaced' = {}
      /\ req' = [o \in Slots |-> IF o = s THEN NoRequest ELSE Noticed(o, r)]
      /\ UNCHANGED <<world, made, sent, orphan, cache, faults>>
  BY DEF AcceptCommit
<1>3. inv \in [Ids -> [status : Statuses, role : Roles \cup {NoRole}]]
  BY DEF IInv, TypeOK
<1>4. /\ inv' \in [Ids -> [status : Statuses, role : Roles \cup {NoRole}]]
      /\ \A j \in Ids : j # i => inv'[j] = inv[j]
      /\ \A j \in Ids : inv'[j].role = inv[j].role
      /\ inv'[i].status = "accepted"
  BY <1>1, <1>2, <1>3 DEF SetStatus
<1>5. \A o \in Slots \ {s} : At(o, "join") => req[o].id # i /\ req[o].id \in Ids
  BY <1>1 DEF IInv, JoinsPending, AboutMade, At
<1> HIDE DEF i, r, Statuses
<1>6. /\ req' \in [Slots -> Request]
      /\ req'[s] = NoRequest /\ NoRequest.pc = "idle"
      /\ \A o \in Slots \ {s} :
           /\ req'[o].pc = req[o].pc /\ req'[o].id = req[o].id
           /\ req'[o].role = req[o].role /\ req'[o].version = req[o].version
           /\ Resolves(o) => req'[o].seen = req[o].seen \cup {r}
  BY <1>1, <1>2, NoRequestFits DEF Noticed, Request
<1>7. TypeOK'
  <2>1. member' \in Member
    BY <1>1, <1>2 DEF Member
  <2>2. access' \in BOOLEAN
    BY <1>2 DEF IInv, TypeOK
  <2>3. version' \in Nat
    BY <1>2 DEF IInv, TypeOK
  <2> QED BY <1>2, <1>4, <1>6, <2>1, <2>2, <2>3 DEF IInv, TypeOK, Statuses
<1>8. AboutMade'
  <2>1. ASSUME NEW j \in Ids, j > made PROVE inv'[j].status = "none"
    <3>1. j # i
      BY <1>1, <2>1, ConstantsOK DEF Ids
    <3> QED BY <1>4, <2>1, <3>1
  <2> QED BY <1>2, <1>6, <2>1 DEF IInv, AboutMade
<1>9. JoinsPending'
  <2>1. \A o \in Slots : At(o, "join")' =>
          /\ At(o, "join") /\ o # s /\ req'[o].id = req[o].id
          /\ req[o].id # i /\ req[o].id \in Ids
    BY <1>5, <1>6 DEF At
  <2> QED BY <1>4, <2>1 DEF IInv, JoinsPending, Pending
<1>10. PendingWasSent'
  <2> SUFFICES ASSUME NEW j \in Ids, inv'[j].status = "pending",
                      j \notin sent' \cup orphan'
               PROVE  \E o \in Slots : req'[o].id = j /\ req'[o].pc \in {"sms", "undo"}
    BY DEF PendingWasSent, Pending
  <2>1. inv[j].status = "pending" /\ j \notin sent \cup orphan
    BY <1>2, <1>4
  <2>2. PICK o \in Slots : req[o].id = j /\ req[o].pc \in {"sms", "undo"}
    BY <2>1 DEF IInv, PendingWasSent, Pending
  <2> QED BY <1>1, <1>6, <2>2
<1>11. HaveRoles'
  BY <1>1, <1>2, <1>4 DEF IInv, HaveRoles
<1>12. Follow' /\ GrantsFollowRoles'
  <2> PICK ro \in Roles : ro = r
    BY <1>1
  <2>1. Granting' \subseteq Granting \cup {ro}
    BY <1>2 DEF Granting
  <2>2. version' # version /\ version' \in {version, version + 1} /\ UNCHANGED cache
    BY <1>2 DEF IInv, TypeOK
  <2>3. \A o \in Slots : /\ Resolves(o)' => o # s /\ Resolves(o)
                         /\ req'[o].pc \in {"idle", req[o].pc}
    BY <1>6 DEF Resolves
  <2>4. \A o \in Slots : Resolves(o)' =>
          /\ req'[o].pc = req[o].pc
          /\ req'[o].role = req[o].role /\ req'[o].version = req[o].version
          /\ req'[o].seen = req[o].seen \cup {ro}
    BY <1>6, <2>3
  <2>5. {ro} \in SUBSET Roles
    OBVIOUS
  <2> QED BY <2>1, <2>2, <2>3, <2>4, <2>5, RoleStep
<1> QED BY <1>7, <1>8, <1>9, <1>10, <1>11, <1>12 DEF IInv

(* Somebody is made staff, or a member's role replaced. *)
LEMMA HireKeeps ==
  ASSUME IInv, NEW s \in Slots, NEW r \in Roles, CreateStaff(s, r)
  PROVE  IInv'
<1>1. /\ member' = [status |-> "active", role |-> r]
      /\ replaced' = IF member.status = "active" THEN replaced \cup {member.role}
                     ELSE replaced
      /\ req' = [o \in Slots |-> Noticed(o, r)]
      /\ UNCHANGED <<world, invitations, access, version, cache, faults>>
      /\ req[s].pc = "idle"
  BY DEF CreateStaff, MayStart, At
<1>2. /\ req' \in [Slots -> Request]
      /\ \A o \in Slots :
           /\ req'[o].pc = req[o].pc /\ req'[o].id = req[o].id
           /\ req'[o].role = req[o].role /\ req'[o].version = req[o].version
           /\ Resolves(o) => req'[o].seen = req[o].seen \cup {r}
  BY <1>1 DEF Noticed, Request, IInv, TypeOK
<1>3. member.status = "active" => member.role \in Roles
  BY DEF IInv, HaveRoles
<1>4. TypeOK'
  <2>1. member' \in Member /\ replaced' \subseteq Roles
    BY <1>1, <1>3 DEF IInv, TypeOK, Member
  <2> QED BY <1>1, <1>2, <2>1 DEF IInv, TypeOK, invitations
<1>5. AboutMade' /\ JoinsPending' /\ PendingWasSent'
  BY <1>1, <1>2, InvitationsKept DEF invitations
<1>6. HaveRoles'
  BY <1>1 DEF IInv, HaveRoles, invitations
<1>7. Follow' /\ GrantsFollowRoles'
  <2>1. Granting' \subseteq Granting \cup {r} /\ Granting \subseteq Granting'
    BY <1>1, <1>3 DEF Granting, IInv, TypeOK, Member
  <2>2. \A o \in Slots : Resolves(o)' => Resolves(o)
    BY <1>2 DEF Resolves
  <2>3. {r} \in SUBSET Roles /\ version' = version /\ UNCHANGED cache
    BY <1>1
  <2> QED BY <1>2, <2>1, <2>2, <2>3, RoleStep
<1> QED BY <1>4, <1>5, <1>6, <1>7 DEF IInv

LEMMA SuspendKeeps ==
  ASSUME IInv, Suspend
  PROVE  IInv'
<1>1. /\ member.status = "active" /\ member' = [member EXCEPT !.status = "suspended"]
      /\ replaced' = replaced \cup {member.role}
      /\ UNCHANGED <<world, invitations, access, version, cache, req, faults>>
  BY DEF Suspend
<1>2. member.role \in Roles /\ member \in Member
  BY <1>1 DEF IInv, HaveRoles, TypeOK
<1>3. member' \in Member /\ member'.status = "suspended" /\ member'.role = member.role
  BY <1>1, <1>2 DEF Member
<1>4. TypeOK'
  BY <1>1, <1>2, <1>3 DEF IInv, TypeOK, invitations
<1>5. AboutMade' /\ JoinsPending' /\ PendingWasSent' /\ HaveRoles'
  BY <1>1, <1>2, <1>3
  DEF IInv, AboutMade, JoinsPending, PendingWasSent, HaveRoles, At, Pending,
      invitations
<1>6. Granting' = Granting
  BY <1>1, <1>2, <1>3 DEF Granting, Member
<1>7. Follow' /\ GrantsFollowRoles'
  <2>1. {} \in SUBSET Roles
    OBVIOUS
  <2>2. \A o \in Slots : Resolves(o)' => Resolves(o)
    BY <1>1 DEF Resolves
  <2> QED BY <1>1, <1>6, <2>1, <2>2, RoleStep
<1> QED BY <1>4, <1>5, <1>7 DEF IInv

-----------------------------------------------------------------------------
(* A step of a request that resolves permissions, from q to be. *)
LEMMA ResolveStep ==
  ASSUME IInv, NEW s \in Slots, NEW q \in Request,
         req[s].pc \in {"idle", "lookup", "member", "access", "fill", "granted"},
         q.pc \in {"idle", "lookup", "member", "access", "fill", "granted"},
         req' = [req EXCEPT ![s] = q],
         UNCHANGED <<world, invitations, membership, faults>>,
         cache' \subseteq [version : Nat, role : Roles],
         q.pc # "idle" =>
           \/ Resolves(s) /\ q.version = req[s].version /\ q.seen = req[s].seen
           \/ q.version = version /\ q.seen = Granting,
         q.pc \in {"access", "fill"} => Fits(q.role, q.version),
         \A e \in cache' : Fits(e.role, e.version),
         q.pc = "granted" => q.role \in q.seen
  PROVE  IInv'
<1>1. \A o \in Slots : req'[o] = IF o = s THEN q ELSE req[o]
  BY DEF IInv, TypeOK
<1>2. version \in Nat /\ version' = version /\ Granting' = Granting
  BY DEF Granting, IInv, TypeOK, membership
<1>3. TypeOK' /\ HaveRoles'
  BY DEF IInv, TypeOK, HaveRoles, invitations, membership
<1>4. AboutMade' /\ JoinsPending' /\ PendingWasSent'
  BY <1>1, InvitationsKept DEF invitations
<1>5. GrantsFollowRoles'
  BY <1>1 DEF IInv, GrantsFollowRoles, At
<1>6. ASSUME NEW o \in Slots, Resolves(o)'
      PROVE  req'[o].version \in 0..version /\ Granting \subseteq req'[o].seen
  BY <1>1, <1>2, <1>6 DEF IInv, Follow, Resolves
<1>7. ASSUME NEW role, NEW v \in Nat, Fits(role, v)
      PROVE  Fits(role, v)'
  <2>1. ASSUME NEW o \in Slots, Resolves(o)', req'[o].version = v
        PROVE  role \in req'[o].seen
    <3>1. CASE o # s
      BY <1>1, <1>7, <2>1, <3>1 DEF Fits, Resolves
    <3>2. CASE o = s
      <4>1. q.pc # "idle" /\ req'[o] = q
        BY <1>1, <2>1, <3>2 DEF Resolves
      <4> QED BY <1>7, <2>1, <4>1 DEF Fits
    <3> QED BY <3>1, <3>2
  <2> QED BY <1>2, <1>7, <2>1 DEF Fits
<1>8. ASSUME NEW o \in Slots, Computed(o)'
      PROVE  Fits(req[o].role, req[o].version)'
  <2>1. Fits(req'[o].role, req'[o].version) /\ req'[o].version \in Nat
    <3>1. CASE o # s
      BY <1>1, <1>8, <3>1 DEF IInv, Follow, Computed, TypeOK, Request
    <3>2. CASE o = s
      BY <1>1, <1>8, <3>2 DEF Computed, Request
    <3> QED BY <3>1, <3>2
  <2>2. PICK ro \in Roles, vo \in Nat : ro = req'[o].role /\ vo = req'[o].version
    BY <2>1 DEF Fits
  <2>3. Fits(ro, vo)'
    BY <1>7, <2>1, <2>2
  <2> QED BY <2>2, <2>3 DEF Fits
<1>9. ASSUME NEW e \in cache'
      PROVE  Fits(e.role, e.version)'
  BY <1>7
<1>10. Follow'
  BY <1>2, <1>6, <1>8, <1>9 DEF Follow
<1> QED BY <1>3, <1>4, <1>5, <1>10 DEF IInv

LEMMA ResolvingKeeps ==
  ASSUME IInv, NEW s \in Slots, Resolving(s)
  PROVE  IInv'
<1>1. /\ req[s] \in Request /\ NoRequest \in Request /\ NoRequest.pc = "idle"
      /\ cache \subseteq [version : Nat, role : Roles]
      /\ \A e \in cache : Fits(e.role, e.version)
      /\ version \in Nat /\ Granting \subseteq Roles
      /\ At(s, "access") \/ At(s, "fill") => Fits(req[s].role, req[s].version)
  BY NoRequestFits DEF IInv, TypeOK, Follow, Computed, At, Granting
<1>2. CASE ReadVersion(s)
  <2> DEFINE q == [NoRequest EXCEPT !.pc = "lookup", !.version = version,
                     !.seen = Granting]
  <2>1. q \in Request /\ q.pc = "lookup" /\ q.version = version /\ q.seen = Granting
    BY <1>1 DEF Request, NoRequest
  <2>2. req' = [req EXCEPT ![s] = q] /\ req[s].pc = "idle"
    BY <1>2 DEF ReadVersion, Start, MayStart, At
  <2> HIDE DEF q
  <2> QED BY <1>1, <1>2, <2>1, <2>2, ResolveStep DEF ReadVersion
<1>3. CASE CacheHit(s)
  <2> PICK e \in cache : /\ e.version = req[s].version
                         /\ req' = [req EXCEPT ![s] =
                              [req[s] EXCEPT !.pc = "granted", !.role = e.role]]
    BY <1>3 DEF CacheHit
  <2> DEFINE q == [req[s] EXCEPT !.pc = "granted", !.role = e.role]
  <2>1. /\ q \in Request /\ q.pc = "granted" /\ q.role = e.role
        /\ q.version = req[s].version /\ q.seen = req[s].seen
    BY <1>1 DEF Request
  <2>2. Resolves(s) /\ req[s].pc = "lookup" /\ cache' = cache
    BY <1>3 DEF CacheHit, At, Resolves
  <2>3. q.role \in q.seen
    BY <1>1, <2>1, <2>2 DEF Fits
  <2> HIDE DEF q
  <2>4. req' = [req EXCEPT ![s] = q]
    BY DEF q
  <2> QED BY <1>1, <1>3, <2>1, <2>2, <2>3, <2>4, ResolveStep DEF CacheHit
<1>4. CASE CacheMiss(s) \/ (ReadAccess(s) /\ access)
  <2> PICK pc \in {"member", "fill"} :
        /\ req' = [req EXCEPT ![s] = [req[s] EXCEPT !.pc = pc]]
        /\ pc = "fill" => At(s, "access")
        /\ req[s].pc \in {"lookup", "access"}
        /\ UNCHANGED <<world, invitations, membership, cache, faults>>
    BY <1>4 DEF CacheMiss, ReadAccess, Go, At
  <2> DEFINE q == [req[s] EXCEPT !.pc = pc]
  <2>1. /\ q \in Request /\ q.pc = pc /\ q.role = req[s].role
        /\ q.version = req[s].version /\ q.seen = req[s].seen
    BY <1>1 DEF Request
  <2>2. req' = [req EXCEPT ![s] = q] /\ Resolves(s) /\ cache' = cache
    BY DEF Resolves
  <2> HIDE DEF q
  <2>3. q.pc \in {"access", "fill"} => Fits(q.role, q.version)
    BY <1>1, <2>1
  <2> QED BY <1>1, <2>1, <2>2, <2>3, ResolveStep
<1>5. CASE ReadMember(s) /\ member.status = "active"
  <2> DEFINE q == [req[s] EXCEPT !.pc = "access", !.role = member.role]
  <2>1. member.role \in Roles
    BY <1>5 DEF IInv, HaveRoles
  <2>2. /\ q \in Request /\ q.pc = "access" /\ q.role = member.role
        /\ q.version = req[s].version /\ q.seen = req[s].seen
    BY <1>1, <2>1 DEF Request
  <2>3. /\ req' = [req EXCEPT ![s] = q] /\ Resolves(s) /\ req[s].pc = "member"
        /\ cache' = cache /\ UNCHANGED <<world, invitations, membership, faults>>
    BY <1>5 DEF ReadMember, Resolves, At
  <2> HIDE DEF q
  <2>4. member.role \in Granting
    BY <1>5, <2>1 DEF Granting, IInv, TypeOK, Member
  <2>5. \A o \in Slots : Resolves(o) =>
          req[o].version \in 0..version /\ Granting \subseteq req[o].seen
    BY DEF IInv, Follow
  <2>6. Fits(q.role, q.version)
    <3>1. q.version <= version
      BY <1>1, <2>2, <2>3, <2>5
    <3> QED BY <2>1, <2>2, <2>4, <2>5, <3>1 DEF Fits
  <2> QED BY <1>1, <2>2, <2>3, <2>6, ResolveStep
<1>6. CASE Granted(s) \/ (ReadAccess(s) /\ ~access)
           \/ (ReadMember(s) /\ member.status # "active")
  <2>1. /\ req' = [req EXCEPT ![s] = NoRequest] /\ cache' = cache
        /\ req[s].pc \in {"member", "access", "granted"}
        /\ UNCHANGED <<world, invitations, membership, faults>>
    BY <1>6 DEF Granted, ReadAccess, ReadMember, Answer, At
  <2> QED BY <1>1, <2>1, ResolveStep
<1>7. CASE Fill(s)
  <2> DEFINE q == [req[s] EXCEPT !.pc = "granted"]
             f == [version |-> req[s].version, role |-> req[s].role]
  <2>1. /\ q \in Request /\ q.pc = "granted" /\ q.role = req[s].role
        /\ q.version = req[s].version /\ q.seen = req[s].seen
    BY <1>1 DEF Request
  <2>2. /\ req' = [req EXCEPT ![s] = q] /\ Resolves(s) /\ req[s].pc = "fill"
        /\ UNCHANGED <<world, invitations, membership, faults>>
        /\ cache' \subseteq cache \cup {f}
    BY <1>7 DEF Fill, Go, Resolves, At
  <2>3. Fits(req[s].role, req[s].version)
    BY <1>1, <2>2 DEF At
  <2>4. q.role \in q.seen
    BY <2>1, <2>2, <2>3 DEF Fits
  <2>5. f \in [version : Nat, role : Roles] /\ Fits(f.role, f.version)
    BY <1>1, <2>3 DEF Fits, Request
  <2> HIDE DEF q, f
  <2>6. /\ cache' \subseteq [version : Nat, role : Roles]
        /\ \A e \in cache' : Fits(e.role, e.version)
    BY <1>1, <2>2, <2>5
  <2> QED BY <2>1, <2>2, <2>4, <2>6, ResolveStep
<1> QED
  BY <1>2, <1>3, <1>4, <1>5, <1>6, <1>7 DEF Resolving, ReadMember, ReadAccess

LEMMA NextIInv == IInv /\ [Next]_vars => IInv'
<1> SUFFICES ASSUME IInv, [Next]_vars PROVE IInv'
  OBVIOUS
<1>1. ASSUME NEW s \in Slots, Inviting(s) PROVE IInv'
  BY <1>1, ReadsKeep, InsertKeeps, SmsKeeps, RevokedKeeps DEF Inviting
<1>2. ASSUME NEW s \in Slots, Joining(s) PROVE IInv'
  BY <1>2, ReadsKeep, LockKeeps, JoinKeeps, HireKeeps DEF Joining
<1>3. CASE UNCHANGED vars
  BY <1>3
  DEF IInv, TypeOK, AboutMade, JoinsPending, HaveRoles, Follow, Fits, Granting,
      GrantsFollowRoles, PendingWasSent, At, Pending, Resolves, Computed, vars,
      invitations, membership
<1> QED
  BY <1>1, <1>2, <1>3, ResolvingKeeps, DeathKeeps, SuspendKeeps DEF Next

THEOREM Inductive == Spec => []IInv
BY InitIInv, NextIInv, PTL DEF Spec

(* Permissions are granted for a role held since the version was read,     *)
(* whatever is cached and however many requests overlap.                   *)
THEOREM GrantsRight == Spec => []GrantsFollowRoles
<1>1. IInv => GrantsFollowRoles
  BY DEF IInv
<1> QED BY <1>1, Inductive, PTL

(* A pending invitation reached the phone, or its sender is at work on it  *)
(* or died.                                                                *)
THEOREM PendingReached == Spec => []PendingWasSent
<1>1. IInv => PendingWasSent
  BY DEF IInv
<1> QED BY <1>1, Inductive, PTL

THEOREM TypesKept == Spec => []TypeOK
<1>1. IInv => TypeOK
  BY DEF IInv
<1> QED BY <1>1, Inductive, PTL

(* Which row each step writes, and how. *)
LEMMA Writes ==
  ASSUME IInv, [Next]_vars, NEW i \in Ids, inv'[i].status # inv[i].status
  PROVE  \/ inv'[i].status \notin {"accepted", "pending"}
         \/ inv'[i].status = "accepted" /\ inv[i].status = "pending"
         \/ inv'[i].status = "pending" /\ inv[i].status = "none"
<1>1. /\ inv \in [Ids -> [status : {"none", "pending", "accepted", "revoked",
                                    "superseded"},
                          role : Roles \cup {NoRole}]]
      /\ made + 1 > made
      /\ \A j \in Ids : j > made => inv[j].status = "none"
  BY Ranges DEF IInv, TypeOK
<1>2. PICK s \in Slots : \/ \E r \in Roles : CreateInsert(s, r)
                         \/ ResendCommit(s)
                         \/ Undo(s) \/ RevokeCommit(s)
                         \/ AcceptCommit(s)
  BY DEF Next, vars, Inviting, Joining, Resolving, Dies, Suspend, CreateStaff,
         ResendRead, RevokeRead, ResendDuplicate, SmsSent, SmsFails, AcceptRead,
         AcceptLock, AcceptLost, AcceptRefused, ReadVersion, CacheHit, CacheMiss,
         ReadMember, ReadAccess, Fill, Granted, invitations
<1>3. CASE \E r \in Roles : CreateInsert(s, r)
  <2>1. inv'[i].status = IF i = made + 1 THEN "pending" ELSE inv[i].status
    BY <1>1, <1>3 DEF CreateInsert
  <2> QED BY <1>1, <2>1
<1>4. CASE ResendCommit(s)
  <2>1. inv'[i].status = IF i = made + 1 THEN "pending"
                         ELSE IF i = req[s].id THEN "superseded" ELSE inv[i].status
    BY <1>1, <1>4 DEF ResendCommit, SetStatus
  <2> QED BY <1>1, <2>1
<1>5. CASE Undo(s) \/ RevokeCommit(s)
  <2>1. inv'[i].status = IF i = req[s].id THEN "revoked" ELSE inv[i].status
    BY <1>1, <1>5 DEF Undo, RevokeCommit, SetStatus
  <2> QED BY <2>1
<1>6. CASE AcceptCommit(s)
  <2>1. Pending(req[s].id)
    BY <1>6 DEF AcceptCommit, IInv, JoinsPending
  <2>2. inv'[i].status = IF i = req[s].id THEN "accepted" ELSE inv[i].status
    BY <1>1, <1>6 DEF AcceptCommit, SetStatus
  <2> QED BY <2>1, <2>2 DEF Pending
<1> QED BY <1>2, <1>3, <1>4, <1>5, <1>6

(* An invitation makes somebody a member at most once, and only while it   *)
(* is pending.                                                             *)
THEOREM AcceptedOnce == Spec => UsedOnce
<1>1. IInv /\ [Next]_vars =>
        [\A i \in Ids : inv'[i].status # inv[i].status =>
           /\ inv'[i].status = "accepted" => inv[i].status = "pending"
           /\ inv'[i].status = "pending" => inv[i].status = "none"]_vars
  BY Writes
<1> QED BY <1>1, Inductive, PTL DEF Spec, UsedOnce
=============================================================================
