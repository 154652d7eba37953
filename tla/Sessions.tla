------------------------------ MODULE Sessions ------------------------------
(***************************************************************************)
(* The sessions of one identity: session.service.js (login, replacement,   *)
(* rotation of refresh tokens, revocation and the copy of a session's      *)
(* state in Redis), the guards that admit a request (contextGuard.js) or a *)
(* socket (socket-context.resolver.js), and what socket-infrastructure.js  *)
(* does with the sockets of a session.                                     *)
(*                                                                         *)
(* A slot is a request being served, or a socket.  Transactions are READ   *)
(* COMMITTED: what one wrote is seen when it commits, a row it wrote is    *)
(* locked until then, and a statement that waited for a row skips it when  *)
(* it no longer matches and does not see rows inserted meanwhile.  The     *)
(* tokens of a session are one family, as every token is the successor of  *)
(* the session's first.  Time is left out: cached states, the concurrency  *)
(* window of a rotation and access tokens end whenever they may.           *)
(***************************************************************************)
EXTENDS Naturals, FiniteSets

CONSTANTS
  Slots,        \* requests and sockets that may be there together
  Worlds,       \* bounds: how many of them may be at work together, how many
                \*   faults (calls to Redis, requests) there may be, and how
                \*   many rows of Session and RefreshToken
  MaxSessions,  \* bounds of those numbers of rows
  MaxTokens

ASSUME ConstantsOK ==
  /\ Worlds \subseteq [overlap : Nat \ {0}, faults : Nat,
                      sessions : 1..MaxSessions, tokens : 1..MaxTokens]
  /\ MaxSessions \in Nat \ {0} /\ MaxTokens \in Nat \ {0}
  /\ Slots \cap (1..MaxTokens) = {} /\ IsFiniteSet(Slots)

Ids    == 1..MaxSessions
Tokens == 1..MaxTokens

VARIABLES
  world,     \* which of Worlds this is; never changes
  sess,      \* Session rows
  tok,       \* RefreshToken rows
  cache,     \* session-state:<id> in Redis
  cmd,       \* the session's socket.session.disconnect row of the outbox
  req,       \* what each slot is doing
  faults     \* how many faults there have been

rows == <<sess, tok, cmd>>
vars == <<world, rows, cache, req, faults>>

Row   == [st : {"none", "live", "revoked"},
          kind : {"none", "provisional", "operational"},
          reason : {"none", "replaced", "logout", "remote", "reuse"},
          by : 0..MaxSessions]
Token == [s : 0..MaxSessions, st : {"none", "fresh", "recent", "old", "revoked"}]

NoRow     == [st |-> "none", kind |-> "none", reason |-> "none", by |-> 0]
NoToken   == [s |-> 0, st |-> "none"]
NoRequest == [pc |-> "idle", op |-> "none", s |-> 0, t |-> 0, ok |-> FALSE,
              seen |-> "none", late |-> FALSE, touch |-> {}]

Revokes   == {"logout", "remote", "reuse"}
Replaces  == {"replace", "enroll"}

(* ok: the row was read live, or the row lock is held.  late: the session  *)
(* was revoked when the request arrived.  touch: rows a statement matched. *)
Request ==
  [pc : {"idle", "state", "fill", "admitted", "row", "fetch", "join",
         "connected", "rotate", "rotating", "again", "begin", "commit",
         "after", "family", "close"},
   op : {"none", "request", "socket", "refresh"} \cup Revokes \cup Replaces,
   s : 0..MaxSessions, t : 0..MaxTokens, ok : BOOLEAN,
   seen : {"none", "active", "revoked"}, late : BOOLEAN,
   touch : SUBSET (Tokens \cup Slots)]

TypeOK ==
  /\ world \in Worlds
  /\ sess \in [Ids -> Row]
  /\ tok \in [Tokens -> Token]
  /\ cache \in [Ids -> {"none", "active", "revoked"}]
  /\ cmd \in [Ids -> {"none", "pending", "done"}]
  /\ req \in [Slots -> Request]
  /\ faults \in 0..world.faults

Init ==
  /\ world \in Worlds
  /\ sess = [s \in Ids |-> NoRow]
  /\ tok = [t \in Tokens |-> NoToken]
  /\ cache = [s \in Ids |-> "none"]
  /\ cmd = [s \in Ids |-> "none"]
  /\ req = [r \in Slots |-> NoRequest]
  /\ faults = 0

-----------------------------------------------------------------------------
At(r, pc)  == req[r].pc = pc
AtWork     == {r \in Slots : req[r].pc \notin {"idle", "connected"}}
Live(s)    == sess[s].st = "live"

(* What getSessionState makes of a row. *)
State(s) == IF Live(s) THEN "active" ELSE "revoked"
FreshOf(s) == {t \in Tokens : tok[t].s = s /\ tok[t].st = "fresh"}

NewId(n) ==
  n <= world.sessions /\ sess[n].st = "none" /\ \A m \in 1..(n-1) : sess[m].st # "none"
NewToken(t) ==
  t <= world.tokens /\ tok[t].st = "none" /\ \A u \in 1..(t-1) : tok[u].st # "none"

Issued(s) == [s |-> s, st |-> "fresh"]
Opened(k) == [NoRow EXCEPT !.st = "live", !.kind = k]

Fault == faults < world.faults /\ faults' = faults + 1

(* A request takes a slot that is free and that nobody remembers. *)
Arrive(r, how) ==
  /\ At(r, "idle") /\ Cardinality(AtWork) < world.overlap
  /\ \A o \in Slots : r \notin req[o].touch
  /\ req' = [req EXCEPT ![r] = how]

Go(r, pc)  == req' = [req EXCEPT ![r].pc = pc]
Answer(r)  == req' = [req EXCEPT ![r] = NoRequest]

-----------------------------------------------------------------------------
(* createProvisionalSession and createOperationalSession: only the second  *)
(* has a refresh token.                                                    *)
Login(kind) ==
  /\ \E n \in Ids :
       /\ NewId(n)
       /\ sess' = [sess EXCEPT ![n] = Opened(kind)]
       /\ IF kind = "provisional" THEN tok' = tok
          ELSE \E t \in Tokens : NewToken(t) /\ tok' = [tok EXCEPT ![t] = Issued(n)]
  /\ UNCHANGED <<world, cache, cmd, req, faults>>

-----------------------------------------------------------------------------
(* The guards.                                                             *)

GuardRead_Bug(r, s) ==  \* the cached state alone decides
  /\ sess[s].st # "none"
  /\ Arrive(r, [NoRequest EXCEPT !.pc = "state", !.op = "request", !.s = s,
                                 !.ok = TRUE, !.late = ~Live(s)])
  /\ UNCHANGED <<world, rows, cache, faults>>

(* contextGuard reads the session's row before it asks for the state.      *)
GuardRead(r, s) ==
  /\ sess[s].st # "none"
  /\ Arrive(r, [NoRequest EXCEPT !.pc = "state", !.op = "request", !.s = s,
                                 !.ok = Live(s), !.late = ~Live(s)])
  /\ UNCHANGED <<world, rows, cache, faults>>

(* A handshake asks for the state first. *)
HandshakeStart(r, s) ==
  /\ sess[s].st # "none"
  /\ Arrive(r, [NoRequest EXCEPT !.pc = "state", !.op = "socket", !.s = s,
                                 !.ok = TRUE, !.late = ~Live(s)])
  /\ UNCHANGED <<world, rows, cache, faults>>

(* What becomes of a request whose session's state is known. *)
Verdict(r, state) ==
  IF state = "revoked" \/ ~req[r].ok THEN Answer(r)
  ELSE Go(r, IF req[r].op = "socket" THEN "row" ELSE "admitted")

(* getSessionState: Redis has it ... *)
StateCached(r) ==
  /\ At(r, "state")
  /\ cache[req[r].s] # "none"
  /\ Verdict(r, cache[req[r].s])
  /\ UNCHANGED <<world, rows, cache, faults>>

(* ... or has not, or does not answer: the row is read ... *)
StateRead(r) ==
  /\ At(r, "state")
  /\ IF cache[req[r].s] = "none" THEN UNCHANGED faults ELSE Fault
  /\ req' = [req EXCEPT ![r] = [@ EXCEPT !.pc = "fill", !.seen = State(req[r].s)]]
  /\ UNCHANGED <<world, rows, cache>>

(* cacheSessionState: SET, and DEL when SET fails for a revoked session.   *)
Store(s, state) ==
  \/ cache' = [cache EXCEPT ![s] = state] /\ UNCHANGED faults
  \/ Fault /\ UNCHANGED cache
  \/ Fault /\ state = "revoked" /\ cache' = [cache EXCEPT ![s] = "none"]

(* ... and what was read is cached, whatever the row says by now.          *)
StateFill(r) ==
  /\ At(r, "fill")
  /\ Store(req[r].s, req[r].seen)
  /\ Verdict(r, req[r].seen)
  /\ UNCHANGED <<world, rows>>

(* Any endpoint that leaves the sessions alone. *)
Ping(r) ==
  /\ At(r, "admitted")
  /\ Answer(r)
  /\ UNCHANGED <<world, rows, cache, faults>>

-----------------------------------------------------------------------------
(* Sockets.                                                                *)

(* The resolver then reads the row. *)
SocketRow(r) ==
  /\ At(r, "row")
  /\ IF Live(req[r].s) /\ sess[req[r].s].kind = "operational"
     THEN Go(r, "fetch") ELSE Answer(r)
  /\ UNCHANGED <<world, rows, cache, faults>>

Connected(s) == {k \in Slots : At(k, "connected") /\ req[k].s = s}

(* The connection handler asks who is in the session's room, and waits.    *)
FetchSockets(r) ==
  /\ At(r, "fetch")
  /\ req' = [req EXCEPT ![r] = [@ EXCEPT !.pc = "join",
                                         !.touch = Connected(req[r].s)]]
  /\ UNCHANGED <<world, rows, cache, faults>>

(* They are disconnected and the socket joins the room. *)
JoinRoom(r) ==
  /\ At(r, "join")
  /\ req' = [k \in Slots |->
       IF k = r THEN [req[r] EXCEPT !.pc = "connected", !.touch = {}]
       ELSE IF k \in req[r].touch THEN NoRequest ELSE req[k]]
  /\ UNCHANGED <<world, rows, cache, faults>>

(* The client leaves, or its access token ends and the timer fires. *)
SocketEnds(r) ==
  /\ At(r, "connected")
  /\ Answer(r)
  /\ UNCHANGED <<world, rows, cache, faults>>

(* The disconnect command of a session reaches the sockets of its room.    *)
(* (RealtimeOutbox says when a dispatcher carries it out.)                 *)
DisconnectSession(s) ==
  /\ cmd[s] = "pending"
  /\ cmd' = [cmd EXCEPT ![s] = "done"]
  /\ req' = [k \in Slots |-> IF k \in Connected(s) THEN NoRequest ELSE req[k]]
  /\ UNCHANGED <<world, sess, tok, cache, faults>>

-----------------------------------------------------------------------------
(* rotateRefreshToken.                                                     *)

(* A token of a revoked session is refused at once. *)
RefreshRead(r, t) ==
  /\ tok[t].st # "none" /\ Live(tok[t].s)
  /\ Arrive(r, [NoRequest EXCEPT !.op = "refresh", !.s = tok[t].s, !.t = t,
                 !.pc = IF tok[t].st = "fresh" THEN "rotate" ELSE "again"])
  /\ UNCHANGED <<world, rows, cache, faults>>

Rotating(t) == \E o \in Slots : At(o, "rotating") /\ req[o].t = t

RotateUpdate_Bug(r) ==  \* updates by id, whatever became of the token
  /\ At(r, "rotate") /\ ~Rotating(req[r].t)
  /\ Go(r, "rotating")
  /\ UNCHANGED <<world, rows, cache, faults>>

(* UPDATE ... WHERE usedAt and revokedAt are null: it locks the token, or  *)
(* matches nothing and the client is told to try again.                    *)
RotateUpdate(r) ==
  /\ At(r, "rotate") /\ ~Rotating(req[r].t)
  /\ IF tok[req[r].t].st = "fresh" THEN Go(r, "rotating") ELSE Answer(r)
  /\ UNCHANGED <<world, rows, cache, faults>>

(* A replacement changes a column of the session's row that is unique, and *)
(* no row that refers to the session's is inserted until it has ended ...  *)
Replacing(s) ==
  \E o \in Slots : At(o, "commit") /\ req[o].op \in Replaces /\ req[o].s = s

(* The successor is inserted and the transaction commits. *)
RotateCommit(r) ==
  /\ At(r, "rotating") /\ ~Replacing(req[r].s)
  /\ \E n \in Tokens :
       /\ NewToken(n)
       /\ tok' = [tok EXCEPT ![req[r].t].st = "recent", ![n] = Issued(req[r].s)]
  /\ Answer(r)
  /\ UNCHANGED <<world, sess, cmd, cache, faults>>

(* A token used before: within the window the client is told to try again, *)
(* after it the session is revoked.                                        *)
UsedAgain(r) ==
  /\ At(r, "again")
  /\ IF tok[req[r].t].st = "old"
     THEN req' = [req EXCEPT ![r] = [@ EXCEPT !.pc = "begin", !.op = "reuse"]]
     ELSE Answer(r)
  /\ UNCHANGED <<world, rows, cache, faults>>

(* The window passes. *)
TokenAges(t) ==
  /\ tok[t].st = "recent"
  /\ tok' = [tok EXCEPT ![t].st = "old"]
  /\ UNCHANGED <<world, sess, cmd, cache, req, faults>>

-----------------------------------------------------------------------------
(* Revocation and replacement: a transaction on the session's row, its     *)
(* tokens and the outbox, then the cached state.                           *)

(* logout takes the session from an access token or any refresh token and  *)
(* passes no guard.                                                        *)
Logout(r, s) ==
  /\ sess[s].st # "none"
  /\ Arrive(r, [NoRequest EXCEPT !.pc = "begin", !.op = "logout", !.s = s])
  /\ UNCHANGED <<world, rows, cache, faults>>

(* An operational session revokes a live session of its identity: the      *)
(* handler.  The one route to it asks for a parameter of another name      *)
(* (auth.v2.routes.js:50 and :143) and refuses every request, so that in   *)
(* the program as it is mounted this step never happens.                   *)
RemoteTarget(r, s) ==
  /\ At(r, "admitted") /\ sess[req[r].s].kind = "operational"
  /\ sess[s].st # "none"
  /\ IF Live(s) THEN req' = [req EXCEPT ![r] = [@ EXCEPT !.pc = "begin",
                                                !.op = "remote", !.s = s]]
     ELSE Answer(r)
  /\ UNCHANGED <<world, rows, cache, faults>>

(* createReplacementSession, for a choice of context or an enrolment (of a *)
(* provisional session; an operational one is kept), refuses a session     *)
(* that was replaced, or revoked for reuse; one that logged out meanwhile  *)
(* it takes.                                                               *)
ReplaceRead(r, op) ==
  /\ At(r, "admitted")
  /\ op = "enroll" => sess[req[r].s].kind = "provisional"
  /\ IF sess[req[r].s].reason = "reuse" \/ sess[req[r].s].by # 0 THEN Answer(r)
     ELSE req' = [req EXCEPT ![r] = [@ EXCEPT !.pc = "begin", !.op = op]]
  /\ UNCHANGED <<world, rows, cache, faults>>

Locked(s) ==
  \E o \in Slots : At(o, "commit") /\ req[o].ok /\ req[o].s = s

(* The UPDATE of the row (revokeSession's matches only a live one) and the *)
(* start of the UPDATE of its tokens: those it will change, or wait for.   *)
UpdateSession(r) ==
  /\ At(r, "begin") /\ ~Locked(req[r].s)
  /\ req' = [req EXCEPT ![r] = [@ EXCEPT !.pc = "commit",
               !.ok = (req[r].op \in Replaces \/ Live(req[r].s)),
               !.touch = FreshOf(req[r].s)]]
  /\ UNCHANGED <<world, rows, cache, faults>>

Waited(r) == \A t \in req[r].touch : ~Rotating(t)

(* The tokens it swept and that still match. *)
Withdrawn(r) ==
  [t \in Tokens |-> IF t \in req[r].touch /\ tok[t].st = "fresh"
                    THEN [tok[t] EXCEPT !.st = "revoked"] ELSE tok[t]]

Announced(s) == [cmd EXCEPT ![s] = IF @ = "none" THEN "pending" ELSE @]

RevokeCommit_Bug(r) ==  \* the tokens go, the session stays
  /\ At(r, "commit") /\ req[r].op \in Revokes
  /\ Waited(r)
  /\ tok' = Withdrawn(r)
  /\ cmd' = Announced(req[r].s)
  /\ req' = [req EXCEPT ![r] = [@ EXCEPT !.pc = "after", !.touch = {}]]
  /\ UNCHANGED <<world, sess, cache, faults>>

(* revokeSession commits. *)
RevokeCommit(r) ==
  /\ At(r, "commit") /\ req[r].op \in Revokes
  /\ Waited(r)
  /\ sess' = IF req[r].ok
             THEN [sess EXCEPT ![req[r].s] =
                     [@ EXCEPT !.st = "revoked", !.reason = req[r].op]]
             ELSE sess
  /\ tok' = Withdrawn(r)
  /\ cmd' = Announced(req[r].s)
  /\ req' = [req EXCEPT ![r] = [@ EXCEPT !.pc = "after", !.touch = {}]]
  /\ UNCHANGED <<world, cache, faults>>

ReplaceCommit_Bug(r) ==  \* nobody is told to disconnect the sockets
  /\ At(r, "commit") /\ req[r].op \in Replaces
  /\ Waited(r)
  /\ \E n \in Ids, t \in Tokens :
       /\ NewId(n) /\ NewToken(t)
       /\ sess' = [sess EXCEPT
            ![req[r].s] = [@ EXCEPT !.st = "revoked", !.reason = "replaced", !.by = n],
            ![n] = Opened("operational")]
       /\ tok' = [Withdrawn(r) EXCEPT ![t] = Issued(n)]
  /\ IF req[r].op = "enroll" THEN Answer(r)
     ELSE req' = [req EXCEPT ![r] = [@ EXCEPT !.pc = "after", !.touch = {}]]
  /\ UNCHANGED <<world, cmd, cache, faults>>

ReplaceCommit_Bug2(r) ==  \* nobody corrects the cache, as after an enrolment
  /\ At(r, "commit") /\ req[r].op \in Replaces
  /\ Waited(r)
  /\ \E n \in Ids, t \in Tokens :
       /\ NewId(n) /\ NewToken(t)
       /\ sess' = [sess EXCEPT
            ![req[r].s] = [@ EXCEPT !.st = "revoked", !.reason = "replaced", !.by = n],
            ![n] = Opened("operational")]
       /\ tok' = [Withdrawn(r) EXCEPT ![t] = Issued(n)]
  /\ cmd' = Announced(req[r].s)
  /\ Answer(r)
  /\ UNCHANGED <<world, cache, faults>>

(* createReplacementSession commits: the old session revoked by its id,    *)
(* the new one with a token of its own.  enroll brings its own transaction *)
(* and leaves the cache alone.                                             *)
ReplaceCommit(r) ==
  /\ At(r, "commit") /\ req[r].op \in Replaces
  /\ Waited(r)
  /\ \E n \in Ids, t \in Tokens :
       /\ NewId(n) /\ NewToken(t)
       /\ sess' = [sess EXCEPT
            ![req[r].s] = [@ EXCEPT !.st = "revoked", !.reason = "replaced", !.by = n],
            ![n] = Opened("operational")]
       /\ tok' = [Withdrawn(r) EXCEPT ![t] = Issued(n)]
  /\ cmd' = Announced(req[r].s)
  /\ IF req[r].op = "enroll" THEN Answer(r)
     ELSE req' = [req EXCEPT ![r] = [@ EXCEPT !.pc = "after", !.touch = {}]]
  /\ UNCHANGED <<world, cache, faults>>

(* The cached state, set after the commit. *)
CacheRevoked(r) ==
  /\ At(r, "after")
  /\ Store(req[r].s, "revoked")
  /\ IF req[r].op = "reuse" THEN Go(r, "family") ELSE Answer(r)
  /\ UNCHANGED <<world, rows>>

(* revokeSessionFamily ends a reuse: tokens the revocation did not see.    *)
FamilyUpdate(r) ==
  /\ At(r, "family")
  /\ req' = [req EXCEPT ![r] = [@ EXCEPT !.pc = "close", !.touch = FreshOf(req[r].s)]]
  /\ UNCHANGED <<world, rows, cache, faults>>

FamilyCommit(r) ==
  /\ At(r, "close")
  /\ Waited(r)
  /\ tok' = Withdrawn(r)
  /\ Answer(r)
  /\ UNCHANGED <<world, sess, cmd, cache, faults>>

(* ... while it may wait for the token that is rotated: the database ends  *)
(* one of the two.                                                         *)
Deadlock(r) ==
  /\ \E o \in Slots :
       /\ At(o, "commit") /\ req[o].op \in Replaces /\ ~Waited(o)
       /\ r = o \/ (At(r, "rotating") /\ req[r].t \in req[o].touch)
  /\ Answer(r)
  /\ UNCHANGED <<world, rows, cache, faults>>

-----------------------------------------------------------------------------
(* A request dies, or its transaction fails and nothing of it is kept. *)
Dies(r) ==
  /\ r \in AtWork
  /\ Fault
  /\ Answer(r)
  /\ UNCHANGED <<world, rows, cache>>

(* Redis forgets: SESSION_CACHE_TTL_SECONDS, a day for revoked. *)
CacheExpires(s) ==
  /\ cache[s] # "none"
  /\ cache' = [cache EXCEPT ![s] = "none"]
  /\ UNCHANGED <<world, rows, req, faults>>

Start(r) ==
  \/ \E s \in Ids : GuardRead(r, s) \/ HandshakeStart(r, s) \/ Logout(r, s)
  \/ \E t \in Tokens : RefreshRead(r, t)

Guarding(r) == StateCached(r) \/ StateRead(r) \/ StateFill(r) \/ Ping(r)

Socket(r) == SocketRow(r) \/ FetchSockets(r) \/ JoinRoom(r) \/ SocketEnds(r)

Refreshing(r) == RotateUpdate(r) \/ RotateCommit(r) \/ UsedAgain(r)

Ending(r) ==
  \/ \E s \in Ids : RemoteTarget(r, s)
  \/ \E op \in Replaces : ReplaceRead(r, op)
  \/ UpdateSession(r) \/ RevokeCommit(r) \/ ReplaceCommit(r)
  \/ Deadlock(r) \/ CacheRevoked(r) \/ FamilyUpdate(r) \/ FamilyCommit(r)

Next ==
  \/ \E kind \in {"provisional", "operational"} : Login(kind)
  \/ \E r \in Slots :
       Start(r) \/ Guarding(r) \/ Socket(r) \/ Refreshing(r) \/ Ending(r) \/ Dies(r)
  \/ \E s \in Ids : DisconnectSession(s) \/ CacheExpires(s)
  \/ \E t \in Tokens : TokenAges(t)

Spec == Init /\ [][Next]_vars

-----------------------------------------------------------------------------
(* What holds however requests overlap.                                    *)

(* A request or socket whose session was revoked before it arrived is not  *)
(* served, whatever Redis still says: an active state cached by a request  *)
(* that read the row too early (session.service.js:466), by an enrolment   *)
(* or by a SET that failed.                                                *)
AdmittedWasLive ==
  \A r \in Slots :
    req[r].pc \in {"admitted", "fetch", "join", "connected"} => ~req[r].late

(* A live session can be refreshed in exactly one way: overlapping         *)
(* rotations of a token leave one successor, never two and never none,     *)
(* and no replacement or logout takes the token and leaves the session.    *)
ExactlyOneToken ==
  \A s \in Ids : (Live(s) /\ sess[s].kind = "operational") =>
    \E t \in Tokens : FreshOf(s) = {t}

(* The cache never locks a live session out: revoked is written only after *)
(* the revocation was committed.  (That is why createReplacementSession    *)
(* leaves it alone inside the transaction of an enrolment.)                *)
NoFalseLockout == \A s \in Ids : cache[s] = "revoked" => ~Live(s)

Sequential == world.overlap = 1

Leaves(r, pc) == At(r, pc) /\ ~At(r, pc)'
Stale(s)      == cache[s] = "active" /\ ~Live(s)

(* Redis follows a revocation (the comment at session.service.js:401).     *)
(* A session that is over is called active again only by a request that    *)
(* overlapped the revocation, never by one that arrived after it; a commit *)
(* leaves it so only to the request that is about to correct it, or to an  *)
(* enrolment, which corrects nothing (session.service.js:246); and that    *)
(* request does correct it, unless it dies or Redis fails.                 *)
CacheFollows ==
  [][\A s \in Ids : Stale(s)' =>
       /\ ~Stale(s) => \E r \in Slots :
            /\ req[r].s = s
            /\ \/ Leaves(r, "fill") /\ ~req[r].late /\ ~Sequential
               \/ Leaves(r, "commit") /\ (At(r, "after")' \/ req[r].op = "enroll")
       /\ (\E r \in Slots : Leaves(r, "after") /\ req[r].s = s) => faults' > faults]_vars

-----------------------------------------------------------------------------
(* What holds when requests do not overlap.                                *)

(* A socket of a session that is over is about to be disconnected: no      *)
(* revocation forgets it and no handshake slips in after the command.      *)
SocketsFollow ==
  Sequential => \A s \in Ids : Connected(s) # {} => Live(s) \/ cmd[s] = "pending"
=============================================================================
