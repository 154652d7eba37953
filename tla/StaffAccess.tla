---------------------------- MODULE StaffAccess ----------------------------
(***************************************************************************)
(* How one person becomes staff of one laundry and what the laundry then   *)
(* lets them do: invitations (staff-invitation.service.js), the membership *)
(* they lead to, which createStaff and upsertByPhone also write, and the   *)
(* permissions of its role, cached by version (permission.service.js).     *)
(*                                                                         *)
(* A slot is a request.  Statements that another request could come        *)
(* between are steps of their own; a refused request that changed nothing  *)
(* is no step.  Sessions are the module Sessions, the notices sent along   *)
(* NotificationPipeline.  The permissions of a role are the role; a key in *)
(* Redis that expired is one that was not found.                           *)
(***************************************************************************)
EXTENDS Naturals, FiniteSets

CONSTANTS
  Slots,           \* requests that may be there together
  Worlds,          \* bounds: how many of them overlap, how many faults
  Roles,
  NoRole,
  MaxInvitations   \* bound: how many invitations the phone ever gets

ASSUME ConstantsOK ==
  /\ Worlds \subseteq [overlap : Nat \ {0}, faults : Nat]
  /\ NoRole \notin Roles
  /\ MaxInvitations \in Nat

Ids    == 1..MaxInvitations
Member == [status : {"none", "active", "suspended"}, role : Roles \cup {NoRole}]

VARIABLES
  world,     \* which of Worlds this is; never changes
  inv,       \* StaffInvitation rows of the phone; status "none" is no row yet
  made,      \* how many there are
  sent,      \* those whose token reached the phone
  orphan,    \* those whose sender died before it had sent or taken them back
  member,    \* the StaffMembership row; status "none" is no row
  access,    \* full access, or a BranchAccess row for the branch asked about
  version,   \* Washer.permissionsVersion, as a count of its increments
  cache,     \* washer-perms:...:v<version> in Redis, by version
  replaced,  \* roles lost since the last increment, without one
  req,       \* what each slot is doing
  faults     \* how many faults there have been

invitations == <<inv, made, sent, orphan>>
membership  == <<member, access, version, replaced>>
vars == <<world, invitations, membership, cache, req, faults>>

NoRequest == [pc |-> "idle", id |-> 0, role |-> NoRole, version |-> 0,
              held |-> "none", seen |-> {}]

Request ==
  [pc : {"idle", "sms", "undo", "resend", "revoke", "accept", "join",
         "lookup", "member", "access", "fill", "granted"},
   id : 0..MaxInvitations,      \* the invitation it is about
   role : Roles \cup {NoRole},  \* the role it computed
   version : Nat,               \* the version it read
   held : {"none", "active", "suspended"},   \* the membership it read
   seen : SUBSET Roles]         \* the roles there were while it was at work

TypeOK ==
  /\ world \in Worlds
  /\ inv \in [Ids -> [status : {"none", "pending", "accepted", "revoked",
                                "superseded"},
                      role : Roles \cup {NoRole}]]
  /\ made \in 0..MaxInvitations
  /\ sent \subseteq Ids /\ orphan \subseteq Ids
  /\ member \in Member /\ access \in BOOLEAN
  /\ version \in Nat
  /\ cache \subseteq [version : Nat, role : Roles]
  /\ replaced \subseteq Roles
  /\ req \in [Slots -> Request]
  /\ faults \in 0..world.faults

(* A stranger, a member, or one that was suspended. *)
Init ==
  /\ world \in Worlds
  /\ inv = [i \in Ids |-> [status |-> "none", role |-> NoRole]]
  /\ made = 0 /\ sent = {} /\ orphan = {}
  /\ member \in {m \in Member : m.status = "none" <=> m.role = NoRole}
  /\ access \in (IF member.status = "none" THEN {FALSE} ELSE BOOLEAN)
  /\ version = 0
  /\ cache = {}
  /\ replaced = {}
  /\ req = [s \in Slots |-> NoRequest]
  /\ faults = 0

-----------------------------------------------------------------------------
At(s, pc) == req[s].pc = pc
AtWork    == {s \in Slots : req[s].pc # "idle"}
MayStart(s) == At(s, "idle") /\ Cardinality(AtWork) < world.overlap

Start(s, how) == MayStart(s) /\ req' = [req EXCEPT ![s] = how]
Go(s, pc)     == req' = [req EXCEPT ![s] = [req[s] EXCEPT !.pc = pc]]
Answer(s)     == req' = [req EXCEPT ![s] = NoRequest]

Pending(i) == inv[i].status = "pending"

(* An acceptance under way holds the row of its invitation. *)
Locked(i) == \E o \in Slots : At(o, "join") /\ req[o].id = i

SetStatus(i, st) == [inv EXCEPT ![i] = [inv[i] EXCEPT !.status = st]]

-----------------------------------------------------------------------------
(* createInvitation, resendInvitation, revokeInvitation.                   *)

(* The partial unique index (washerId, phone) WHERE status = 'pending'.    *)
NoOtherPending(i) == \A j \in Ids \ {i} : ~Pending(j)

CreateInsert(s, role) ==
  /\ MayStart(s)
  /\ made < MaxInvitations /\ NoOtherPending(made + 1)
  /\ inv' = [inv EXCEPT ![made + 1] = [status |-> "pending", role |-> role]]
  /\ made' = made + 1
  /\ req' = [req EXCEPT ![s] = [NoRequest EXCEPT !.pc = "sms", !.id = made + 1]]
  /\ UNCHANGED <<world, sent, orphan, membership, cache, faults>>

ResendRead(s, i) ==
  /\ Pending(i)
  /\ Start(s, [NoRequest EXCEPT !.pc = "resend", !.id = i])
  /\ UNCHANGED <<world, invitations, membership, cache, faults>>

(* The old row is superseded by id alone, a new one takes its place.       *)
ResendCommit(s) ==
  /\ At(s, "resend") /\ ~Locked(req[s].id)
  /\ made < MaxInvitations /\ NoOtherPending(req[s].id)
  /\ inv' = [SetStatus(req[s].id, "superseded") EXCEPT
               ![made + 1] = [status |-> "pending", role |-> inv[req[s].id].role]]
  /\ made' = made + 1
  /\ req' = [req EXCEPT ![s] = [NoRequest EXCEPT !.pc = "sms", !.id = made + 1]]
  /\ UNCHANGED <<world, sent, orphan, membership, cache, faults>>

(* Another one is pending by now: 409 and a rollback. *)
ResendDuplicate(s) ==
  /\ At(s, "resend")
  /\ \E j \in Ids \ {req[s].id} : Pending(j) /\ ~Locked(j)
  /\ Answer(s)
  /\ UNCHANGED <<world, invitations, membership, cache, faults>>

SmsSent(s) ==
  /\ At(s, "sms")
  /\ sent' = sent \cup {req[s].id}
  /\ Answer(s)
  /\ UNCHANGED <<world, inv, made, orphan, membership, cache, faults>>

(* The provider refuses; the message may have gone out nevertheless.       *)
SmsFails(s) ==
  /\ At(s, "sms")
  /\ sent' \in {sent, sent \cup {req[s].id}}
  /\ Go(s, "undo")
  /\ UNCHANGED <<world, inv, made, orphan, membership, cache, faults>>

Undo_Bug(s) ==  \* the failure is answered, nothing is taken back
  /\ At(s, "undo") /\ ~Locked(req[s].id)
  /\ Answer(s)
  /\ UNCHANGED <<world, invitations, membership, cache, faults>>

(* The compensation, by id alone. *)
Undo(s) ==
  /\ At(s, "undo") /\ ~Locked(req[s].id)
  /\ inv' = SetStatus(req[s].id, "revoked")
  /\ Answer(s)
  /\ UNCHANGED <<world, made, sent, orphan, membership, cache, faults>>

RevokeRead(s, i) ==
  /\ Pending(i)
  /\ Start(s, [NoRequest EXCEPT !.pc = "revoke", !.id = i])
  /\ UNCHANGED <<world, invitations, membership, cache, faults>>

RevokeCommit(s) ==  \* by id alone
  /\ At(s, "revoke") /\ ~Locked(req[s].id)
  /\ inv' = SetStatus(req[s].id, "revoked")
  /\ Answer(s)
  /\ UNCHANGED <<world, made, sent, orphan, membership, cache, faults>>

-----------------------------------------------------------------------------
(* The membership.                                                         *)

(* Whoever is resolving permissions now works while this role is held. *)
Resolves(s) == req[s].pc \in {"lookup", "member", "access", "fill", "granted"}

Noticed(s, role) ==
  IF Resolves(s)
  THEN [req[s] EXCEPT !.seen = req[s].seen \cup {role}] ELSE req[s]

(* acceptInvitation: the token is found, ...                               *)
AcceptRead(s, i) ==
  /\ Pending(i) /\ i \in sent
  /\ Start(s, [NoRequest EXCEPT !.pc = "accept", !.id = i])
  /\ UNCHANGED <<world, invitations, membership, cache, faults>>

AcceptLock_Bug(s) ==  \* UPDATE by id, as revocation and resend do
  /\ At(s, "accept") /\ ~Locked(req[s].id)
  /\ req' = [req EXCEPT ![s] =
               [req[s] EXCEPT !.pc = "join", !.held = member.status]]
  /\ UNCHANGED <<world, invitations, membership, cache, faults>>

(* ... UPDATE ... WHERE status = 'pending', and the membership is read; ...*)
AcceptLock(s) ==
  /\ At(s, "accept") /\ ~Locked(req[s].id) /\ Pending(req[s].id)
  /\ req' = [req EXCEPT ![s] =
               [req[s] EXCEPT !.pc = "join", !.held = member.status]]
  /\ UNCHANGED <<world, invitations, membership, cache, faults>>

(* ... or the update finds no row: 409; ...                                *)
AcceptLost(s) ==
  /\ At(s, "accept") /\ ~Locked(req[s].id) /\ ~Pending(req[s].id)
  /\ Answer(s)
  /\ UNCHANGED <<world, invitations, membership, cache, faults>>

(* ... or there is an active membership already, or one that was inserted  *)
(* meanwhile (the unique key): a rollback; ...                             *)
AcceptRefused(s) ==
  /\ At(s, "join")
  /\ req[s].held = "active" \/ (req[s].held = "none" /\ member.status # "none")
  /\ Answer(s)
  /\ UNCHANGED <<world, invitations, membership, cache, faults>>

AcceptCommit_Bug(s) ==  \* permissions change, their version does not
  LET i == req[s].id
      r == inv[i].role
  IN /\ At(s, "join")
     /\ req[s].held = "suspended" \/ (req[s].held = "none" /\ member.status = "none")
     /\ inv' = SetStatus(i, "accepted")
     /\ member' = [status |-> "active", role |-> r]
     /\ access' \in {access, TRUE}
     /\ replaced' = {}
     /\ req' = [o \in Slots |-> IF o = s THEN NoRequest ELSE Noticed(o, r)]
     /\ UNCHANGED <<world, made, sent, orphan, version, cache, faults>>

(* ... or the person joins with the role of the invitation, perhaps with   *)
(* access to the branch, and the version is incremented.                   *)
AcceptCommit(s) ==
  LET i == req[s].id
      r == inv[i].role
  IN /\ At(s, "join")
     /\ req[s].held = "suspended" \/ (req[s].held = "none" /\ member.status = "none")
     /\ inv' = SetStatus(i, "accepted")
     /\ member' = [status |-> "active", role |-> r]
     /\ access' \in {access, TRUE}
     /\ version' = version + 1
     /\ replaced' = {}
     /\ req' = [o \in Slots |-> IF o = s THEN NoRequest ELSE Noticed(o, r)]
     /\ UNCHANGED <<world, made, sent, orphan, cache, faults>>

(* createStaff, upsertByPhone: an upsert that no version tells of.         *)
CreateStaff(s, r) ==
  /\ MayStart(s)
  /\ member' = [status |-> "active", role |-> r]
  /\ replaced' = IF member.status = "active" THEN replaced \cup {member.role}
                 ELSE replaced
  /\ req' = [o \in Slots |-> Noticed(o, r)]
  /\ UNCHANGED <<world, invitations, access, version, cache, faults>>

(* Nothing in the repository suspends a membership, but all of it reckons  *)
(* with suspended ones.                                                    *)
Suspend ==
  /\ member.status = "active"
  /\ member' = [member EXCEPT !.status = "suspended"]
  /\ replaced' = replaced \cup {member.role}
  /\ UNCHANGED <<world, invitations, access, version, cache, req, faults>>

-----------------------------------------------------------------------------
(* resolvePermissions, for a request that needs one (requirePermission).   *)

(* The roles a current answer may grant. *)
Granting == replaced \cup {r \in Roles : member = [status |-> "active", role |-> r]}

ReadVersion(s) ==
  /\ Start(s, [NoRequest EXCEPT !.pc = "lookup", !.version = version,
                 !.seen = Granting])
  /\ UNCHANGED <<world, invitations, membership, cache, faults>>

CacheHit(s) ==
  /\ At(s, "lookup")
  /\ \E e \in cache :
       /\ e.version = req[s].version
       /\ req' = [req EXCEPT ![s] =
                    [req[s] EXCEPT !.pc = "granted", !.role = e.role]]
  /\ UNCHANGED <<world, invitations, membership, cache, faults>>

(* Nothing under the key, or no answer from Redis. *)
CacheMiss(s) ==
  /\ At(s, "lookup")
  /\ Go(s, "member")
  /\ UNCHANGED <<world, invitations, membership, cache, faults>>

ReadMember(s) ==
  /\ At(s, "member")
  /\ IF member.status = "active"
     THEN req' = [req EXCEPT ![s] =
                    [req[s] EXCEPT !.pc = "access", !.role = member.role]]
     ELSE Answer(s)
  /\ UNCHANGED <<world, invitations, membership, cache, faults>>

ReadAccess(s) ==
  /\ At(s, "access")
  /\ IF access THEN Go(s, "fill") ELSE Answer(s)
  /\ UNCHANGED <<world, invitations, membership, cache, faults>>

(* SETEX under the version read first, or Redis does not answer. *)
Fill(s) ==
  /\ At(s, "fill")
  /\ \/ cache' = {e \in cache : e.version # req[s].version}
                  \cup {[version |-> req[s].version, role |-> req[s].role]}
     \/ UNCHANGED cache
  /\ Go(s, "granted")
  /\ UNCHANGED <<world, invitations, membership, faults>>

Granted(s) ==
  /\ At(s, "granted")
  /\ Answer(s)
  /\ UNCHANGED <<world, invitations, membership, cache, faults>>

-----------------------------------------------------------------------------
(* The process dies: what was not committed is rolled back. *)
Dies(s) ==
  /\ ~At(s, "idle")
  /\ faults < world.faults /\ faults' = faults + 1
  /\ orphan' = IF req[s].pc \in {"sms", "undo"} THEN orphan \cup {req[s].id}
               ELSE orphan
  /\ Answer(s)
  /\ UNCHANGED <<world, inv, made, sent, membership, cache>>

Inviting(s) ==
  \/ \E r \in Roles : CreateInsert(s, r)
  \/ \E i \in Ids : ResendRead(s, i) \/ RevokeRead(s, i)
  \/ ResendCommit(s) \/ ResendDuplicate(s)
  \/ SmsSent(s) \/ SmsFails(s) \/ Undo(s) \/ RevokeCommit(s)

Joining(s) ==
  \/ \E i \in Ids : AcceptRead(s, i)
  \/ AcceptLock(s) \/ AcceptLost(s) \/ AcceptRefused(s) \/ AcceptCommit(s)
  \/ \E r \in Roles : CreateStaff(s, r)

Resolving(s) ==
  \/ ReadVersion(s) \/ CacheHit(s) \/ CacheMiss(s) \/ ReadMember(s)
  \/ ReadAccess(s) \/ Fill(s) \/ Granted(s)

Next ==
  \/ \E s \in Slots : Inviting(s) \/ Joining(s) \/ Resolving(s) \/ Dies(s)
  \/ Suspend

Spec == Init /\ [][Next]_vars

-----------------------------------------------------------------------------
(* An invitation makes somebody a member at most once, and only while it   *)
(* is pending: whatever revocations, resends and compensations overlap the *)
(* acceptance, one that was revoked, superseded or accepted is never       *)
(* accepted, nor pending again.                                            *)
UsedOnce ==
  [][\A i \in Ids : inv'[i].status # inv[i].status =>
        /\ inv'[i].status = "accepted" => inv[i].status = "pending"
        /\ inv'[i].status = "pending" => inv[i].status = "none"]_vars

(* An invitation that stays pending, and so keeps the phone from being     *)
(* invited again, reached the phone, or its sender is still at work on it  *)
(* or died.                                                                *)
PendingWasSent ==
  \A i \in Ids : Pending(i) =>
    \/ i \in sent \cup orphan
    \/ \E s \in Slots : req[s].id = i /\ req[s].pc \in {"sms", "undo"}

(* Permissions are granted for a role the member held at some time since   *)
(* the version was read, whatever is cached: the version counts every      *)
(* change of role, but for those createStaff, upsertByPhone or a           *)
(* suspension made since the last acceptance ("Should be called ...        *)
(* whenever roles or branch overrides change", permission.service.js:107). *)
GrantsFollowRoles ==
  \A s \in Slots : At(s, "granted") => req[s].role \in req[s].seen
=============================================================================
