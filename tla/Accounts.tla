------------------------------ MODULE Accounts ------------------------------
(***************************************************************************)
(* Accounts from the first code to the final deletion: one-time codes      *)
(* (otp.service.js), the customer's login and enrolment (customer          *)
(* .controller.js), the identity and its device (user.service.js), the     *)
(* guards auth.js and contextGuard.js in front of them, and the worker     *)
(* that anonymises accounts whose thirty days are over                     *)
(* (accountDeletion.worker.js).                                            *)
(*                                                                         *)
(* A slot is a request in flight; each of its steps is one statement or    *)
(* transaction.  A row written by a statement that waits for another       *)
(* transaction is written after it commits, so commits are atomic.  A      *)
(* refused request changes nothing and is not a step.  Clocks are left     *)
(* out: a code cools and expires, and a deletion falls due, whenever they  *)
(* may.  How sessions go on is the subject of Sessions; here a session     *)
(* ends only with the account.                                             *)
(***************************************************************************)
EXTENDS Naturals, FiniteSets

CONSTANTS
  Slots,        \* requests that may be in flight together
  Phones,       \* phone numbers
  Anon,         \* the random phone of an anonymised identity
  MaxAttempts,  \* OTP_MAX_ATTEMPTS
  Worlds,       \* what a behaviour may do: see ConstantsOK
  MaxCodes, MaxIds, MaxSessions   \* bounds: rows that may be created

Customers == {"fcm", "phone", "delete", "restore"}  \* requests behind auth.js
Others    == {"enroll", "create", "remove", "reopen"}

ASSUME ConstantsOK ==
  /\ Anon \notin Phones
  /\ MaxAttempts \in Nat \ {0}
  /\ IsFiniteSet(Slots)
  /\ MaxCodes \in Nat /\ MaxIds \in Nat /\ MaxSessions \in Nat
  /\ \A w \in Worlds :
       /\ w.slots \subseteq Slots
       /\ w.phones \subseteq Phones
       /\ w.ops \subseteq Customers \cup Others
       /\ w.guesses \in BOOLEAN         \* is a wrong code ever entered
       /\ w.codes \in 0..MaxCodes /\ w.sessions \in 0..MaxSessions
       /\ w.ids \in 0..MaxIds
       /\ w.faults \in Nat              \* failures of the worker

Codes == 1..MaxCodes
Ids   == 1..MaxIds
Sess  == 1..MaxSessions

VARIABLES
  world,    \* what this behaviour may do; never changes
  code,     \* OtpCode rows, numbered as they were created
  ident,    \* Identity rows with their UserDevice and CustomerMembership
  sess,     \* Session rows
  req,      \* what each slot is doing
  found,    \* identities the running deletion job has still to anonymise
  faults    \* how often the job has failed

vars == <<world, code, ident, sess, req, found, faults>>

(* uses counts the requests a code let in, for OtpBudget alone.            *)
Code == [phone : Phones \cup {Anon}, st : {"none", "live", "expired"},
         cool : BOOLEAN, verified : BOOLEAN,
         attempts : 0..(MaxAttempts + 2 * Cardinality(Slots)),
         uses : 0..Cardinality(Slots)]

(* wiped: the worker anonymised it.  excused, for GoneForGood alone:       *)
(* another request of this account was in flight when its deletion was     *)
(* requested or done, or an administrator changed it after it was done.    *)
Identity == [phone : Phones \cup {Anon},
             status : {"none", "active", "pending_deletion", "deleted"},
             due : BOOLEAN, device : BOOLEAN, member : BOOLEAN,
             wiped : BOOLEAN, excused : BOOLEAN]

Session == [of : 0..MaxIds, kind : {"none", "provisional", "operational"},
            st : {"none", "live", "replaced", "account_deleted"}]

Request ==
  [pc : {"idle", "expire", "create", "code", "close", "default", "login",
         "session", "auth", "read", "enroll", "member"},
   op : {"none", "send", "verify"} \cup Customers \cup Others,
   phone : Phones \cup {Anon}, c : 0..MaxCodes, i : 0..MaxIds,
   s : 0..MaxSessions]

NoCode     == [phone |-> Anon, st |-> "none", cool |-> FALSE,
               verified |-> FALSE, attempts |-> 0, uses |-> 0]
NoIdentity == [phone |-> Anon, status |-> "none", due |-> FALSE,
               device |-> FALSE, member |-> FALSE, wiped |-> FALSE,
               excused |-> FALSE]
NoSession  == [of |-> 0, kind |-> "none", st |-> "none"]
NoRequest  == [pc |-> "idle", op |-> "none", phone |-> Anon, c |-> 0, i |-> 0,
               s |-> 0]

TypeOK ==
  /\ world \in Worlds
  /\ code \in [Codes -> Code]
  /\ ident \in [Ids -> Identity]
  /\ sess \in [Sess -> Session]
  /\ req \in [Slots -> Request]
  /\ found \subseteq Ids
  /\ faults \in 0..world.faults

Init ==
  /\ world \in Worlds
  /\ code = [c \in Codes |-> NoCode]
  /\ ident = [i \in Ids |-> NoIdentity]
  /\ sess = [n \in Sess |-> NoSession]
  /\ req = [r \in Slots |-> NoRequest]
  /\ found = {}
  /\ faults = 0

-----------------------------------------------------------------------------
At(r, pc, op) == req[r].pc = pc /\ req[r].op = op
Go(r, pc)     == req' = [req EXCEPT ![r].pc = pc]
Answer(r)     == req' = [req EXCEPT ![r] = NoRequest]

Arrive(r, how) ==
  /\ r \in world.slots /\ req[r].pc = "idle"
  /\ req' = [req EXCEPT ![r] = how]

Exists(i)      == ident[i].status # "none"
NextRow(n, bound, made(_)) == n <= bound /\ ~made(n) /\ \A m \in 1..(n-1) : made(m)
CodeMade(c)    == code[c].st # "none"
SessionMade(n) == sess[n].st # "none"

(* Another request of the account is under way: what it read may be old.   *)
Overtakes(i, r) == \E o \in Slots \ {r} : req[o].i = i

-----------------------------------------------------------------------------
(* sendOtp.                                                                *)

Of(p) == {c \in Codes : CodeMade(c) /\ code[c].phone = p}

(* No code of this number is younger than the cooldown.                    *)
SendRead(r, p) ==
  /\ \A c \in Of(p) : ~code[c].cool
  /\ Arrive(r, [NoRequest EXCEPT !.pc = "expire", !.op = "send", !.phone = p])
  /\ UNCHANGED <<world, code, ident, sess, found, faults>>

SendExpire(r) ==
  /\ At(r, "expire", "send")
  /\ code' = [c \in Codes |->
                IF c \in Of(req[r].phone) /\ ~code[c].verified
                THEN [code[c] EXCEPT !.st = "expired"] ELSE code[c]]
  /\ Go(r, "create")
  /\ UNCHANGED <<world, ident, sess, found, faults>>

(* The row; then the SMS, which may fail and change nothing.               *)
SendCreate(r) ==
  /\ At(r, "create", "send")
  /\ IF \E c \in Codes : NextRow(c, world.codes, CodeMade)
     THEN \E c \in Codes :
            /\ NextRow(c, world.codes, CodeMade)
            /\ code' = [code EXCEPT ![c] =
                  [NoCode EXCEPT !.phone = req[r].phone, !.st = "live", !.cool = TRUE]]
     ELSE UNCHANGED code                                 \* bound: MaxCodes
  /\ Answer(r)
  /\ UNCHANGED <<world, ident, sess, found, faults>>

(* OTP_RESEND_COOLDOWN_SECONDS and OTP_TTL_MINUTES pass.                   *)
CodeAges(c) ==
  /\ \/ code[c].cool /\ code' = [code EXCEPT ![c].cool = FALSE]
     \/ code[c].st = "live" /\ code' = [code EXCEPT ![c].st = "expired"]
  /\ UNCHANGED <<world, ident, sess, req, found, faults>>

-----------------------------------------------------------------------------
(* verifyOtp.                                                              *)

Unverified(p) == {c \in Of(p) : ~code[c].verified}
Newest(S)     == CHOOSE c \in S : \A d \in S : d <= c

VerifyRead(r, p) ==
  LET c == Newest(Unverified(p)) IN
  /\ Unverified(p) # {}
  /\ code[c].st = "live" /\ code[c].attempts < MaxAttempts
  /\ Arrive(r, [NoRequest EXCEPT !.pc = "code", !.op = "verify", !.phone = p, !.c = c])
  /\ UNCHANGED <<world, code, ident, sess, found, faults>>

(* The code entered is another one. *)
VerifyWrong(r) ==
  LET n == code[req[r].c].attempts + 1 IN
  /\ world.guesses
  /\ At(r, "code", "verify")
  /\ code' = [code EXCEPT ![req[r].c].attempts = n]
  /\ IF n >= MaxAttempts THEN Go(r, "close") ELSE Answer(r)
  /\ UNCHANGED <<world, ident, sess, found, faults>>

VerifyClose(r) ==
  /\ At(r, "close", "verify")
  /\ code' = [code EXCEPT ![req[r].c].st = "expired"]
  /\ Answer(r)
  /\ UNCHANGED <<world, ident, sess, found, faults>>

VerifyRight_Bug(r) ==  \* the code is not marked
  /\ At(r, "code", "verify")
  /\ code' = [code EXCEPT ![req[r].c].uses = @ + 1]
  /\ Go(r, "login")
  /\ UNCHANGED <<world, ident, sess, found, faults>>

VerifyRight(r) ==
  /\ At(r, "code", "verify")
  /\ code' = [code EXCEPT ![req[r].c].verified = TRUE,
                          ![req[r].c].attempts = @ + 1,
                          ![req[r].c].uses = @ + 1]
  /\ Go(r, "login")
  /\ UNCHANGED <<world, ident, sess, found, faults>>

(* One of the default codes: the newest unverified code, when there is     *)
(* one, is read and then marked; a failure of either is ignored.           *)
VerifyDefault(r, p) ==
  /\ \E c \in {0} \cup Unverified(p) :
       /\ c # 0 => c = Newest(Unverified(p))
       /\ Arrive(r, [NoRequest EXCEPT !.pc = "default", !.op = "verify",
                                      !.phone = p, !.c = c])
  /\ UNCHANGED <<world, code, ident, sess, found, faults>>

VerifyDefaultMark(r) ==
  /\ At(r, "default", "verify")
  /\ IF req[r].c = 0 THEN UNCHANGED code
     ELSE code' = [code EXCEPT ![req[r].c].verified = TRUE]
  /\ Go(r, "login")
  /\ UNCHANGED <<world, ident, sess, found, faults>>

-----------------------------------------------------------------------------
(* CustomerController.verifyOtp after the code, and enroll.                *)

Holding(p) == {i \in Ids : Exists(i) /\ ident[i].phone = p}

(* upsert by the unique phone. *)
Upsert(p, i) ==
  IF Holding(p) # {} THEN i \in Holding(p) /\ UNCHANGED ident
  ELSE /\ NextRow(i, world.ids, Exists)                  \* bound: MaxIds
       /\ ident' = [ident EXCEPT ![i] =
                      [NoIdentity EXCEPT !.phone = p, !.status = "active"]]

LoginUpsert(r) ==
  /\ At(r, "login", "verify")
  /\ IF Holding(req[r].phone) = {} /\ \A i \in Ids : ~NextRow(i, world.ids, Exists)
     THEN Answer(r) /\ UNCHANGED ident
     ELSE \E i \in Ids :
            /\ Upsert(req[r].phone, i)
            /\ IF ident[i].status = "deleted" THEN Answer(r)
               ELSE req' = [req EXCEPT ![r].pc = "session", ![r].i = i]
  /\ UNCHANGED <<world, code, sess, found, faults>>

(* An operational session for a member, a provisional one for another.     *)
(* The membership is read just before; only enrolling changes it.          *)
LoginSession(r) ==
  /\ At(r, "session", "verify")
  /\ IF \E n \in Sess : NextRow(n, world.sessions, SessionMade)
     THEN \E n \in Sess :
            /\ NextRow(n, world.sessions, SessionMade)
            /\ sess' = [sess EXCEPT ![n] =
                 [of |-> req[r].i, st |-> "live",
                  kind |-> IF ident[req[r].i].member THEN "operational"
                           ELSE "provisional"]]
     ELSE UNCHANGED sess                                 \* bound: MaxSessions
  /\ Answer(r)
  /\ UNCHANGED <<world, code, ident, found, faults>>

(* contextGuard looks at the session and never at the identity.            *)
EnrollRead(r, n) ==
  /\ sess[n].st = "live"
  /\ Arrive(r, [NoRequest EXCEPT !.pc = "enroll", !.op = "enroll",
                                 !.i = sess[n].of, !.s = n])
  /\ UNCHANGED <<world, code, ident, sess, found, faults>>

(* The membership is found or made; a provisional session is replaced,     *)
(* unless the transaction reads that it was already: then everything is    *)
(* rolled back.  One replaced after that read is replaced once more.       *)
EnrollCommit(r) ==
  LET i == req[r].i
      n == req[r].s IN
  /\ At(r, "enroll", "enroll")
  /\ \/ /\ sess[n].kind = "operational"
        /\ ident' = [ident EXCEPT ![i].member = TRUE]
        /\ UNCHANGED sess
     \/ /\ sess[n].kind = "provisional"
        /\ \E m \in Sess :
             /\ NextRow(m, world.sessions, SessionMade)
             /\ sess' = [sess EXCEPT ![n].st = "replaced",
                           ![m] = [of |-> i, st |-> "live", kind |-> "operational"]]
        /\ ident' = [ident EXCEPT ![i].member = TRUE]
     \/ /\ sess[n].kind = "provisional"
        /\ \/ sess[n].st = "replaced"
           \/ \A m \in Sess : ~NextRow(m, world.sessions, SessionMade)
        /\ UNCHANGED <<ident, sess>>
  /\ Answer(r)
  /\ UNCHANGED <<world, code, found, faults>>

-----------------------------------------------------------------------------
(* The customer's own account.  auth.js lets an access token in by what    *)
(* the identity is, and a pending one only to /me/account.                 *)

Auth(r, i, op) ==
  /\ ident[i].status \notin {"none", "deleted"}
  /\ ident[i].status = "pending_deletion" => op \in {"delete", "restore"}
  /\ \E n \in Sess : sess[n].of = i      \* an access token was issued once
  /\ Arrive(r, [NoRequest EXCEPT !.pc = "auth", !.op = op, !.i = i])
  /\ UNCHANGED <<world, code, ident, sess, found, faults>>

(* upsertFcmToken: the identity exists, the device row is upserted.        *)
UpsertFcmToken(r) ==
  /\ At(r, "auth", "fcm")
  /\ ident' = [ident EXCEPT ![req[r].i].device = TRUE]
  /\ Answer(r)
  /\ UNCHANGED <<world, code, sess, found, faults>>

(* updateMe with a phone: the UPDATE fails when another identity has it.   *)
UpdatePhone(r) ==
  /\ At(r, "auth", "phone")
  /\ \E p \in world.phones :
       ident' = IF Holding(p) \ {req[r].i} # {} THEN ident
                ELSE [ident EXCEPT ![req[r].i].phone = p]
  /\ Answer(r)
  /\ UNCHANGED <<world, code, sess, found, faults>>

(* requestAccountDeletion and restoreAccount read the row once more.       *)
AccountRead(r) ==
  LET a == ident[req[r].i] IN
  /\ \/ At(r, "auth", "delete") /\ (IF a.status = "active" THEN Go(r, "read") ELSE Answer(r))
     \/ At(r, "auth", "restore") /\ (IF a.status = "pending_deletion" /\ ~a.due
                                     THEN Go(r, "read") ELSE Answer(r))
  /\ UNCHANGED <<world, code, ident, sess, found, faults>>

RequestDeletion_Bug(r) ==  \* the device keeps its token
  /\ At(r, "read", "delete")
  /\ ident' = [ident EXCEPT ![req[r].i].status = "pending_deletion",
                            ![req[r].i].due = FALSE]
  /\ Answer(r)
  /\ UNCHANGED <<world, code, sess, found, faults>>

RequestDeletion(r) ==
  /\ At(r, "read", "delete")
  /\ ident' = [ident EXCEPT ![req[r].i].status = "pending_deletion",
                            ![req[r].i].due = FALSE,
                            ![req[r].i].device = FALSE,
                            ![req[r].i].excused = @ \/ Overtakes(req[r].i, r)]
  /\ Answer(r)
  /\ UNCHANGED <<world, code, sess, found, faults>>

(* UPDATE by id alone, whatever happened since the read.                   *)
RestoreAccount(r) ==
  /\ At(r, "read", "restore")
  /\ ident' = [ident EXCEPT ![req[r].i].status = "active", ![req[r].i].due = FALSE]
  /\ Answer(r)
  /\ UNCHANGED <<world, code, sess, found, faults>>

(* Thirty days pass. *)
FallDue(i) ==
  /\ ident[i].status = "pending_deletion" /\ ~ident[i].due
  /\ ident' = [ident EXCEPT ![i].due = TRUE]
  /\ UNCHANGED <<world, code, sess, req, found, faults>>

-----------------------------------------------------------------------------
(* A washer administrator on another identity. *)

(* createUser: upsertByPhone, then the membership. *)
CreateUser(r, p, i) ==
  /\ Upsert(p, i)
  /\ Arrive(r, [NoRequest EXCEPT !.pc = "member", !.op = "create", !.i = i])
  /\ UNCHANGED <<world, code, sess, found, faults>>

CreateMembership(r) ==
  /\ At(r, "member", "create")
  /\ ident' = [ident EXCEPT ![req[r].i].member = TRUE]
  /\ Answer(r)
  /\ UNCHANGED <<world, code, sess, found, faults>>

(* deleteUser: a status; phone, sessions and device are left.              *)
DeleteUser(i) ==
  /\ Exists(i) /\ "remove" \in world.ops
  /\ ident' = [ident EXCEPT ![i].status = "deleted"]
  /\ UNCHANGED <<world, code, sess, req, found, faults>>

(* updateUser: another phone that nobody has, or status "active" (the only *)
(* one the schema and the enum both know), or both.                        *)
UpdateUser(i) ==
  /\ Exists(i) /\ "reopen" \in world.ops
  /\ \E p \in {ident[i].phone} \cup {q \in world.phones : Holding(q) = {}},
       status \in {ident[i].status, "active"} :
         ident' = [ident EXCEPT ![i].phone = p, ![i].status = status,
                                ![i].excused = @ \/ ident[i].wiped]
  /\ UNCHANGED <<world, code, sess, req, found, faults>>

-----------------------------------------------------------------------------
(* executeAccountDeletionCleanup.                                          *)

JobFind_Bug ==  \* looks for the accounts that are not due yet
  /\ found = {}
  /\ found' = {i \in Ids : ident[i].status = "pending_deletion" /\ ~ident[i].due}
  /\ found' # {}
  /\ UNCHANGED <<world, code, ident, sess, req, faults>>

(* The daily job comes round.                                              *)
JobFind ==
  /\ found = {}
  /\ found' = {i \in Ids : ident[i].status = "pending_deletion" /\ ident[i].due}
  /\ found' # {}
  /\ UNCHANGED <<world, code, ident, sess, req, faults>>

Anonymised(i) ==
  [ident EXCEPT ![i].status = "deleted", ![i].phone = Anon,
                ![i].device = FALSE, ![i].wiped = TRUE,
                ![i].excused = @ \/ \E r \in Slots : req[r].i = i]

(* One transaction, by id: the status is not compared again.               *)
JobDelete(i) ==
  /\ i \in found
  /\ ident' = Anonymised(i)
  /\ sess' = [n \in Sess |-> IF sess[n].of = i /\ sess[n].st = "live"
                             THEN [sess[n] EXCEPT !.st = "account_deleted"]
                             ELSE sess[n]]
  /\ found' = found \ {i}
  /\ UNCHANGED <<world, code, req, faults>>

(* The transaction fails, which is logged and counted, or the process      *)
(* stops; the next job finds the account again.                            *)
JobFault(i) ==
  /\ i \in found /\ faults < world.faults
  /\ faults' = faults + 1
  /\ found' \in {found \ {i}, {}}
  /\ UNCHANGED <<world, code, ident, sess, req>>

-----------------------------------------------------------------------------
Begin(r) ==
  \/ \E p \in world.phones :
       \/ world.codes > 0 /\ (SendRead(r, p) \/ VerifyRead(r, p))
       \/ VerifyDefault(r, p)
       \/ "create" \in world.ops /\ \E i \in Ids : CreateUser(r, p, i)
  \/ "enroll" \in world.ops /\ \E n \in Sess : EnrollRead(r, n)
  \/ \E i \in Ids, op \in world.ops \cap Customers : Auth(r, i, op)

Proceed(r) ==
  \/ SendExpire(r) \/ SendCreate(r)
  \/ VerifyWrong(r) \/ VerifyClose(r) \/ VerifyRight(r) \/ VerifyDefaultMark(r)
  \/ LoginUpsert(r) \/ LoginSession(r) \/ EnrollCommit(r)
  \/ UpsertFcmToken(r) \/ UpdatePhone(r)
  \/ AccountRead(r) \/ RequestDeletion(r) \/ RestoreAccount(r)
  \/ CreateMembership(r)

Next ==
  \/ \E r \in Slots : Begin(r) \/ Proceed(r)
  \/ \E c \in Codes : CodeAges(c)
  \/ \E i \in Ids : FallDue(i) \/ DeleteUser(i) \/ UpdateUser(i)
  \/ JobFind
  \/ \E i \in Ids : JobDelete(i) \/ JobFault(i)

Spec == Init /\ [][Next]_vars

(* The job comes round every day and goes through what it found.           *)
FairSpec == /\ Spec
            /\ WF_vars(JobFind)
            /\ \A i \in Ids : WF_vars(JobDelete(i))
-----------------------------------------------------------------------------
(* The checks of sendOtp and verifyOtp come before their writes.  With n   *)
(* requests at once that costs no more than n: of one number no more than  *)
(* n codes are good, or cooling, at once; a code lets in no more than n    *)
(* requests, one when there is no overlap; and wrong guesses stop at the   *)
(* limit plus those already past the check.                                *)
OtpBudget ==
  LET n == Cardinality(world.slots) IN
  \A p \in Phones :
    /\ Cardinality({c \in Unverified(p) : code[c].st = "live"}) <= n
    /\ Cardinality({c \in Of(p) : code[c].cool}) <= n
    /\ \A c \in Of(p) : code[c].uses <= n /\ code[c].attempts <= MaxAttempts - 1 + n

(* An account that was finally deleted stays so: it has no phone, no live  *)
(* session and no device to notify, and nobody brings it back; one that    *)
(* waits for its deletion is sent nothing.  Only a request that was        *)
(* already under way when the deletion was requested or done may break     *)
(* that (restoreAccount and the sessions are written by id), or an         *)
(* administrator who updates the account once it is gone.                  *)
GoneForGood ==
  \A i \in Ids : ~ident[i].excused =>
    /\ ident[i].wiped =>
         /\ ident[i].status = "deleted" /\ ident[i].phone = Anon
         /\ \A n \in Sess : sess[n].of = i => sess[n].st # "live"
    /\ ident[i].wiped \/ ident[i].status = "pending_deletion" => ~ident[i].device

(* A due account does not stay: the job deletes it, however its runs fail, *)
(* unless a request that was under way restores it or begins its thirty    *)
(* days again.                                                             *)
DueIsDeleted ==
  \A i \in Ids :
    LET due == ident[i].status = "pending_deletion" /\ ident[i].due
    IN due ~> ~due
=============================================================================
