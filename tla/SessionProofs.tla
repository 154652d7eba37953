--------------------------- MODULE SessionProofs ---------------------------
(***************************************************************************)
(* Sessions for any number of slots, sessions, tokens and faults, and any  *)
(* overlap: a revoked session stays out, a live one keeps exactly one way  *)
(* to refresh, Redis never calls a live session revoked.                   *)
(*                                                                         *)
(* None of the three is inductive: they depend on what requests remember   *)
(* of rows that have moved on.  Fits says what a request may rely on (a    *)
(* session once known is never unknown again, once revoked never live; a   *)
(* token that is being rotated is fresh), and the steps fall into those of *)
(* a request alone (LocalStep) and those that change rows (RowsStep).      *)
(*                                                                         *)
(* The sockets follow a revocation only when requests do not overlap:      *)
(* Alone says what a request then knows of its session.  The cache follows *)
(* it step by step (Follows), and but for the requests that overlapped it; *)
(* that no step ends a request but its own, or a socket, is Remembered.    *)
(***************************************************************************)
EXTENDS Sessions, FiniteSetTheorems, TLAPS

Revoked(s) == sess[s].st = "revoked"
Known(s)   == s \in Ids /\ sess[s].st # "none"

(* What a request remembers is true, or was and cannot mislead it. *)
Fits(q) ==
  /\ q.pc # "idle" => Known(q.s)
  /\ q.late => /\ q.pc \in {"state", "fill", "row"}
               /\ Revoked(q.s)
               /\ q.op = "socket" \/ q.pc = "row" \/ ~q.ok
  /\ q.pc = "fill" => \/ q.seen = "active" /\ ~q.late
                      \/ q.seen = "revoked" /\ Revoked(q.s)
  /\ q.pc = "commit" /\ ~q.ok => Revoked(q.s)
  /\ q.pc \in {"after", "family", "close"} => Revoked(q.s)
  /\ q.pc \in {"rotate", "rotating"} =>
       q.t \in Tokens /\ tok[q.t].s = q.s /\ tok[q.t].st # "none"
  /\ q.pc = "rotating" => tok[q.t].st = "fresh"
  /\ q.pc \in {"commit", "close"} =>
       \A t \in q.touch : t \in Tokens /\ tok[t].s = q.s /\ tok[t].st # "none"

Shape ==
  /\ sess \in [Ids -> Row]
  /\ tok \in [Tokens -> Token]
  /\ cache \in [Ids -> {"none", "active", "revoked"}]
  /\ req \in [Slots -> Request]

CacheOK  ==
  \A s \in Ids : cache[s] = "revoked" => Revoked(s)
TokensOK ==
  /\ \A t \in Tokens : tok[t].st # "none" => Known(tok[t].s)
  /\ \A t, u \in Tokens :
       (tok[t].st = "fresh" /\ tok[u].st = "fresh" /\ tok[t].s = tok[u].s) => t = u
  /\ \A s \in Ids : (Live(s) /\ sess[s].kind = "operational") =>
       \E t \in Tokens : tok[t].s = s /\ tok[t].st = "fresh"
(* The UPDATE of a token locks it: one rotation at a time. *)
OneRotation ==
  \A o, p \in Slots : (At(o, "rotating") /\ At(p, "rotating") /\ req[o].t = req[p].t) => o = p

IInv ==
  /\ Shape /\ CacheOK /\ TokensOK /\ OneRotation
  /\ \A r \in Slots : Fits(req[r])

-----------------------------------------------------------------------------
LEMMA InitInv == Init => IInv
  BY ConstantsOK DEF Init, IInv, Shape, CacheOK, TokensOK, OneRotation, Fits, Known, Revoked,
     Row, Token, Request, NoRow, NoToken, NoRequest, Ids, Tokens, At, Live

LEMMA IInvImplies == IInv => AdmittedWasLive /\ NoFalseLockout /\ ExactlyOneToken
<1> SUFFICES ASSUME IInv PROVE AdmittedWasLive /\ NoFalseLockout /\ ExactlyOneToken
  OBVIOUS
<1>1. AdmittedWasLive
  BY DEF IInv, Fits, AdmittedWasLive
<1>2. NoFalseLockout
  BY DEF IInv, CacheOK, Revoked, Live, NoFalseLockout
<1>3. ExactlyOneToken
  BY DEF IInv, TokensOK, FreshOf, ExactlyOneToken
<1> QED
  BY <1>1, <1>2, <1>3

(* Rows keep what requests remember of them. *)
SessionsKeep ==
  \A s \in Ids : /\ sess[s].st # "none" => sess'[s].st # "none"
                 /\ sess[s].st = "revoked" => sess'[s].st = "revoked"
TokensKeep ==
  \A t \in Tokens : tok[t].st # "none" => tok'[t].st # "none" /\ tok'[t].s = tok[t].s

LEMMA OtherFits ==
  ASSUME IInv, SessionsKeep, TokensKeep, NEW o \in Slots, req'[o] = req[o],
         At(o, "rotating") => tok'[req[o].t].st = "fresh"
  PROVE  Fits(req[o])'
<1>1. PICK q : q = req[o]
  OBVIOUS
<1>2. Fits(q) /\ req'[o] = q
  BY <1>1 DEF IInv
<1>3. q.pc = "rotating" => tok'[q.t].st = "fresh"
  BY <1>1 DEF At
<1>4. Known(q.s) => Known(q.s)'
  BY DEF Known, SessionsKeep
<1> QED
  BY <1>2, <1>3 DEF Fits, Known, Revoked, SessionsKeep, TokensKeep

-----------------------------------------------------------------------------
(* A request goes on, and may write the cache. *)
LEMMA LocalStep ==
  ASSUME IInv, NEW r \in Slots, NEW x \in Request, UNCHANGED <<sess, tok>>,
         req' = [req EXCEPT ![r] = x], Fits(x),
         x.pc = "rotating" => ~Rotating(x.t),
         cache' \in [Ids -> {"none", "active", "revoked"}],
         \A s \in Ids : cache'[s] = "revoked" => cache[s] = "revoked" \/ Revoked(s)
  PROVE  IInv'
<1>1. req'[r] = x /\ (\A o \in Slots \ {r} : req'[o] = req[o]) /\ req' \in [Slots -> Request]
  BY DEF IInv, Shape
<1>2. \A o \in Slots : Fits(req[o])'
  <2> TAKE o \in Slots
  <2>1. CASE o = r
    BY <2>1, <1>1 DEF Fits, Known, Revoked
  <2>2. CASE o # r
    BY <2>2, <1>1, OtherFits DEF IInv, SessionsKeep, TokensKeep, Fits, At
  <2> QED
    BY <2>1, <2>2
<1>3. OneRotation'
  BY <1>1 DEF IInv, OneRotation, At, Rotating
<1>4. CacheOK' /\ TokensOK' /\ Shape'
  BY <1>1 DEF IInv, Shape, CacheOK, TokensOK, Known, Revoked, Live
<1> QED
  BY <1>2, <1>3, <1>4 DEF IInv

LEMMA AnswerStep ==
  ASSUME IInv, NEW r \in Slots, Answer(r), UNCHANGED <<sess, tok>>,
         cache' \in [Ids -> {"none", "active", "revoked"}],
         \A s \in Ids : cache'[s] = "revoked" => cache[s] = "revoked" \/ Revoked(s)
  PROVE  IInv'
<1>1. NoRequest \in Request /\ Fits(NoRequest) /\ NoRequest.pc # "rotating"
  BY ConstantsOK DEF NoRequest, Request, Fits
<1> QED
  BY <1>1, LocalStep DEF Answer

(* A request that has just arrived. *)
LEMMA ArrivalFields ==
  ASSUME NEW x,
         x = [pc |-> x.pc, op |-> x.op, s |-> x.s, t |-> x.t, ok |-> x.ok,
              seen |-> x.seen, late |-> x.late, touch |-> x.touch],
         x.pc \in {"state", "rotate", "again", "begin"},
         x.op \in {"request", "socket", "refresh", "logout"},
         x.s \in Ids, x.t \in 0..MaxTokens, x.ok \in BOOLEAN, x.late \in BOOLEAN,
         x.seen = "none", x.touch = {}
  PROVE  x \in Request
<1>1. x.s \in 0..MaxSessions
  BY ConstantsOK DEF Ids
<1> QED
  BY <1>1 DEF Request, Revokes, Replaces

(* A request that arrives. *)
LEMMA ArriveStep ==
  ASSUME IInv, NEW r \in Slots, NEW x \in Request, Arrive(r, x), Fits(x),
         x.pc # "rotating", UNCHANGED <<sess, tok, cache>>
  PROVE  IInv'
  BY LocalStep DEF Arrive, IInv, Shape

LEMMA GuardReadStep ==
  ASSUME IInv, NEW r \in Slots, NEW s \in Ids, GuardRead(r, s)
  PROVE  IInv'
<1>1. PICK x : x = [NoRequest EXCEPT !.pc = "state", !.op = "request", !.s = s,
                                     !.ok = Live(s), !.late = ~Live(s)]
  OBVIOUS
<1>2. x.pc = "state" /\ x.op = "request" /\ x.s = s /\ x.ok = Live(s) /\ x.late = ~Live(s)
  BY <1>1 DEF NoRequest
<1>3. x \in Request
  <2>1. x.t = 0 /\ x.seen = "none" /\ x.touch = {} /\ x.ok \in BOOLEAN /\ x.late \in BOOLEAN
    BY <1>1 DEF NoRequest, Live
  <2>2. x = [pc |-> x.pc, op |-> x.op, s |-> x.s, t |-> x.t, ok |-> x.ok,
             seen |-> x.seen, late |-> x.late, touch |-> x.touch]
    BY <1>1 DEF NoRequest
  <2>3. 0 \in 0..MaxTokens
    BY ConstantsOK
  <2> QED
    BY <1>2, <2>1, <2>2, <2>3, ArrivalFields
<1>4. sess[s].st # "none" /\ (~Live(s) => Revoked(s))
  BY DEF GuardRead, Live, Revoked, IInv, Shape, Row
<1>5. Fits(x)
  BY <1>2, <1>4 DEF Fits, Known
<1>6. Arrive(r, x) /\ UNCHANGED <<sess, tok, cache>>
  BY <1>1 DEF GuardRead, rows, Arrive
<1> QED
  BY <1>2, <1>3, <1>5, <1>6, ArriveStep

LEMMA HandshakeStep ==
  ASSUME IInv, NEW r \in Slots, NEW s \in Ids, HandshakeStart(r, s)
  PROVE  IInv'
<1>1. PICK x : x = [NoRequest EXCEPT !.pc = "state", !.op = "socket", !.s = s,
                                     !.ok = TRUE, !.late = ~Live(s)]
  OBVIOUS
<1>2. x.pc = "state" /\ x.op = "socket" /\ x.s = s /\ x.late = ~Live(s)
  BY <1>1 DEF NoRequest
<1>3. x \in Request
  <2>1. x.t = 0 /\ x.seen = "none" /\ x.touch = {} /\ x.ok \in BOOLEAN /\ x.late \in BOOLEAN
    BY <1>1 DEF NoRequest, Live
  <2>2. x = [pc |-> x.pc, op |-> x.op, s |-> x.s, t |-> x.t, ok |-> x.ok,
             seen |-> x.seen, late |-> x.late, touch |-> x.touch]
    BY <1>1 DEF NoRequest
  <2>3. 0 \in 0..MaxTokens
    BY ConstantsOK
  <2> QED
    BY <1>2, <2>1, <2>2, <2>3, ArrivalFields
<1>4. sess[s].st # "none" /\ (~Live(s) => Revoked(s))
  BY DEF HandshakeStart, Live, Revoked, IInv, Shape, Row
<1>5. Fits(x)
  BY <1>2, <1>4 DEF Fits, Known
<1>6. Arrive(r, x) /\ UNCHANGED <<sess, tok, cache>>
  BY <1>1 DEF HandshakeStart, rows, Arrive
<1> QED
  BY <1>2, <1>3, <1>5, <1>6, ArriveStep

LEMMA LogoutStep ==
  ASSUME IInv, NEW r \in Slots, NEW s \in Ids, Logout(r, s)
  PROVE  IInv'
<1>1. PICK x : x = [NoRequest EXCEPT !.pc = "begin", !.op = "logout", !.s = s]
  OBVIOUS
<1>2. x.pc = "begin" /\ x.op = "logout" /\ x.s = s /\ x.late = FALSE
  BY <1>1 DEF NoRequest
<1>3. x \in Request
  <2>1. x.t = 0 /\ x.seen = "none" /\ x.touch = {} /\ x.ok \in BOOLEAN /\ x.late \in BOOLEAN
    BY <1>1 DEF NoRequest
  <2>2. x = [pc |-> x.pc, op |-> x.op, s |-> x.s, t |-> x.t, ok |-> x.ok,
             seen |-> x.seen, late |-> x.late, touch |-> x.touch]
    BY <1>1 DEF NoRequest
  <2>3. 0 \in 0..MaxTokens
    BY ConstantsOK
  <2> QED
    BY <1>2, <2>1, <2>2, <2>3, ArrivalFields
<1>4. Fits(x)
  BY <1>2 DEF Fits, Known, Logout
<1>5. Arrive(r, x) /\ UNCHANGED <<sess, tok, cache>>
  BY <1>1 DEF Logout, rows, Arrive
<1> QED
  BY <1>2, <1>3, <1>4, <1>5, ArriveStep

LEMMA RefreshReadStep ==
  ASSUME IInv, NEW r \in Slots, NEW t \in Tokens, RefreshRead(r, t)
  PROVE  IInv'
<1>1. PICK x : x = [NoRequest EXCEPT !.op = "refresh", !.s = tok[t].s, !.t = t,
                 !.pc = IF tok[t].st = "fresh" THEN "rotate" ELSE "again"]
  OBVIOUS
<1>2. x.pc \in {"rotate", "again"} /\ x.op = "refresh" /\ x.s = tok[t].s /\ x.t = t /\ x.late = FALSE
  BY <1>1 DEF NoRequest
<1>3. Known(tok[t].s) /\ tok[t].st # "none"
  BY DEF RefreshRead, IInv, TokensOK
<1>4. x \in Request
  <2>1. x.seen = "none" /\ x.touch = {} /\ x.ok \in BOOLEAN /\ x.late \in BOOLEAN
    BY <1>1 DEF NoRequest
  <2>2. x = [pc |-> x.pc, op |-> x.op, s |-> x.s, t |-> x.t, ok |-> x.ok,
             seen |-> x.seen, late |-> x.late, touch |-> x.touch]
    BY <1>1 DEF NoRequest
  <2>3. t \in 0..MaxTokens
    BY DEF Tokens
  <2> QED
    BY <1>3, <1>2, <2>1, <2>2, <2>3, ArrivalFields DEF Known
<1>5. Fits(x)
  BY <1>2, <1>3 DEF Fits
<1>6. Arrive(r, x) /\ UNCHANGED <<sess, tok, cache>>
  BY <1>1 DEF RefreshRead, rows, Arrive
<1> QED
  BY <1>2, <1>4, <1>5, <1>6, ArriveStep

(* A request that only moves to another point of its handler. *)
LEMMA GoStep ==
  ASSUME IInv, NEW r \in Slots, NEW pc \in {"admitted", "row", "fetch", "family"},
         Go(r, pc), At(r, "idle") = FALSE, UNCHANGED <<sess, tok>>,
         pc \in {"admitted", "fetch"} => ~req[r].late,
         pc = "row" => ~req[r].late \/ At(r, "state") \/ At(r, "fill"),
         pc = "family" => At(r, "after"),
         cache' \in [Ids -> {"none", "active", "revoked"}],
         \A s \in Ids : cache'[s] = "revoked" => cache[s] = "revoked" \/ Revoked(s)
  PROVE  IInv'
<1>1. PICK x : x = [req[r] EXCEPT !.pc = pc]
  OBVIOUS
<1>2. req[r] \in Request /\ Fits(req[r])
  BY DEF IInv, Shape
<1>3. /\ x.pc = pc /\ x.op = req[r].op /\ x.s = req[r].s /\ x.late = req[r].late
      /\ x \in Request
  BY <1>1, <1>2 DEF Request
<1>4. Fits(x)
  BY <1>2, <1>3 DEF Fits, At
<1>5. req' = [req EXCEPT ![r] = x]
  BY <1>1 DEF Go
<1> QED
  BY <1>3, <1>4, <1>5, LocalStep

(* What became of a request whose session's state is known. *)
LEMMA VerdictStep ==
  ASSUME IInv, NEW r \in Slots, NEW state, Verdict(r, state),
         At(r, "state") \/ At(r, "fill"), UNCHANGED <<sess, tok>>,
         cache' \in [Ids -> {"none", "active", "revoked"}],
         \A s \in Ids : cache'[s] = "revoked" => cache[s] = "revoked" \/ Revoked(s)
  PROVE  IInv'
<1>1. CASE Answer(r)
  BY <1>1, AnswerStep
<1>2. CASE req[r].ok /\ req[r].op = "socket" /\ Go(r, "row")
  BY <1>2, GoStep DEF At
<1>3. CASE req[r].ok /\ req[r].op # "socket" /\ Go(r, "admitted")
  <2>1. ~req[r].late
    BY <1>3 DEF IInv, Fits, At
  <2> QED
    BY <1>3, <2>1, GoStep DEF At
<1> QED
  BY <1>1, <1>2, <1>3 DEF Verdict

LEMMA StateCachedStep ==
  ASSUME IInv, NEW r \in Slots, StateCached(r)
  PROVE  IInv'
  BY VerdictStep DEF StateCached, rows, IInv, Shape

LEMMA StateReadStep ==
  ASSUME IInv, NEW r \in Slots, StateRead(r)
  PROVE  IInv'
<1>1. PICK x : x = [req[r] EXCEPT !.pc = "fill", !.seen = State(req[r].s)]
  OBVIOUS
<1>2. req[r] \in Request /\ Fits(req[r]) /\ req[r].pc = "state"
  BY DEF IInv, Shape, StateRead, At
<1>3. /\ x.pc = "fill" /\ x.seen = State(req[r].s) /\ x.op = req[r].op /\ x.s = req[r].s
      /\ x.late = req[r].late /\ x.ok = req[r].ok /\ x \in Request
  BY <1>1, <1>2 DEF Request, State
<1>4. \/ State(req[r].s) = "active" /\ ~Revoked(req[r].s)
      \/ State(req[r].s) = "revoked" /\ Revoked(req[r].s)
  BY <1>2 DEF Fits, Known, State, Live, Revoked, IInv, Shape, Row
<1>5. Fits(x)
  BY <1>2, <1>3, <1>4 DEF Fits
<1>6. req' = [req EXCEPT ![r] = x] /\ UNCHANGED <<sess, tok, cache>>
  BY <1>1 DEF StateRead, rows
<1> QED
  BY <1>3, <1>5, <1>6, LocalStep DEF IInv, Shape

(* What is stored: revoked for a revoked session only. *)
LEMMA StoreFacts ==
  ASSUME IInv, NEW s \in Ids, NEW state \in {"active", "revoked"}, Store(s, state),
         state = "revoked" => Revoked(s)
  PROVE  /\ cache' \in [Ids -> {"none", "active", "revoked"}]
         /\ \A u \in Ids : cache'[u] = "revoked" => cache[u] = "revoked" \/ Revoked(u)
  BY DEF Store, IInv, Shape

LEMMA StateFillStep ==
  ASSUME IInv, NEW r \in Slots, StateFill(r)
  PROVE  IInv'
<1>1. /\ Fits(req[r]) /\ At(r, "fill")
      /\ Store(req[r].s, req[r].seen) /\ Verdict(r, req[r].seen) /\ UNCHANGED <<sess, tok>>
  BY DEF IInv, StateFill, rows
<1>2. /\ req[r].s \in Ids /\ req[r].seen \in {"active", "revoked"}
      /\ req[r].seen = "revoked" => Revoked(req[r].s)
  BY <1>1 DEF Fits, At, Known
<1> QED
  BY <1>1, <1>2, StoreFacts, VerdictStep

LEMMA PingStep ==
  ASSUME IInv, NEW r \in Slots, Ping(r) \/ SocketEnds(r)
  PROVE  IInv'
  BY AnswerStep DEF Ping, SocketEnds, rows, IInv, Shape

LEMMA SocketRowStep ==
  ASSUME IInv, NEW r \in Slots, SocketRow(r)
  PROVE  IInv'
<1>1. CASE Live(req[r].s) /\ Go(r, "fetch")
  <2>1. ~req[r].late
    BY <1>1 DEF IInv, Fits, Live, Revoked
  <2> QED
    BY <1>1, <2>1, GoStep DEF SocketRow, At, rows, IInv, Shape
<1>2. CASE Answer(r)
  BY <1>2, AnswerStep DEF SocketRow, rows, IInv, Shape
<1> QED
  BY <1>1, <1>2 DEF SocketRow

LEMMA FetchSocketsStep ==
  ASSUME IInv, NEW r \in Slots, FetchSockets(r)
  PROVE  IInv'
<1>1. PICK x : x = [req[r] EXCEPT !.pc = "join", !.touch = Connected(req[r].s)]
  OBVIOUS
<1>2. req[r] \in Request /\ Fits(req[r]) /\ req[r].pc = "fetch"
  BY DEF IInv, Shape, FetchSockets, At
<1>3. /\ x.pc = "join" /\ x.op = req[r].op /\ x.s = req[r].s /\ x.late = req[r].late
      /\ x \in Request
  BY <1>1, <1>2 DEF Request, Connected
<1>4. Fits(x)
  BY <1>2, <1>3 DEF Fits
<1>5. req' = [req EXCEPT ![r] = x] /\ UNCHANGED <<sess, tok, cache>>
  BY <1>1 DEF FetchSockets, rows
<1> QED
  BY <1>3, <1>4, <1>5, LocalStep DEF IInv, Shape

(* Sockets that are cut off, and one that may have joined. *)
LEMMA CutStep ==
  ASSUME IInv, UNCHANGED <<sess, tok, cache>>, req' \in [Slots -> Request],
         \A o \in Slots : \/ req'[o] = req[o] \/ req'[o] = NoRequest
                          \/ Fits(req'[o]) /\ req'[o].pc # "rotating"
  PROVE  IInv'
<1>1. \A o \in Slots : Fits(req[o])'
  <2> TAKE o \in Slots
  <2>1. Fits(NoRequest)
    BY DEF Fits, NoRequest
  <2>2. PICK q : q = req'[o]
    OBVIOUS
  <2>3. Fits(q)
    BY <2>1, <2>2 DEF IInv
  <2> QED
    BY <2>2, <2>3 DEF Fits, Known, Revoked
<1>2. OneRotation'
  BY DEF IInv, OneRotation, At, NoRequest
<1>3. CacheOK' /\ TokensOK' /\ Shape'
  BY DEF IInv, Shape, CacheOK, TokensOK, Known, Revoked, Live
<1> QED
  BY <1>1, <1>2, <1>3 DEF IInv

LEMMA JoinRoomStep ==
  ASSUME IInv, NEW r \in Slots, JoinRoom(r)
  PROVE  IInv'
<1>1. PICK x : x = [req[r] EXCEPT !.pc = "connected", !.touch = {}]
  OBVIOUS
<1>2. req[r] \in Request /\ Fits(req[r]) /\ req[r].pc = "join"
  BY DEF IInv, Shape, JoinRoom, At
<1>3. /\ x.pc = "connected" /\ x.op = req[r].op /\ x.s = req[r].s /\ x.late = req[r].late
      /\ x \in Request
  BY <1>1, <1>2 DEF Request
<1>4. Fits(x)
  BY <1>2, <1>3 DEF Fits
<1>5. /\ req' = [k \in Slots |-> IF k = r THEN x
                  ELSE IF k \in req[r].touch THEN NoRequest ELSE req[k]]
      /\ UNCHANGED <<sess, tok, cache>>
  BY <1>1 DEF JoinRoom, rows
<1>6. NoRequest \in Request
  BY ConstantsOK DEF NoRequest, Request
<1>7. req' \in [Slots -> Request]
  BY <1>3, <1>5, <1>6 DEF IInv, Shape
<1> QED
  BY <1>3, <1>4, <1>5, <1>7, CutStep

LEMMA DisconnectStep ==
  ASSUME IInv, NEW s \in Ids, DisconnectSession(s)
  PROVE  IInv'
<1>1. NoRequest \in Request
  BY ConstantsOK DEF NoRequest, Request
<1> QED
  BY <1>1, CutStep DEF DisconnectSession, IInv, Shape
LEMMA CacheExpiresStep ==
  ASSUME IInv, NEW s \in Ids, CacheExpires(s)
  PROVE  IInv'
<1>1. /\ UNCHANGED <<sess, tok, req>> /\ cache' \in [Ids -> {"none", "active", "revoked"}]
      /\ \A u \in Ids : cache'[u] = "revoked" => cache[u] = "revoked"
  BY DEF CacheExpires, rows, IInv, Shape
<1> QED
  BY <1>1 DEF IInv, Shape, CacheOK, TokensOK, OneRotation, Known, Revoked, Live, Fits, At

LEMMA DiesStep ==
  ASSUME IInv, NEW r \in Slots, Dies(r) \/ Deadlock(r)
  PROVE  IInv'
  BY AnswerStep DEF Dies, Deadlock, rows, IInv, Shape

LEMMA RotateUpdateStep ==
  ASSUME IInv, NEW r \in Slots, RotateUpdate(r)
  PROVE  IInv'
<1>1. CASE Answer(r)
  BY <1>1, AnswerStep DEF RotateUpdate, rows, IInv, Shape
<1>2. CASE tok[req[r].t].st = "fresh" /\ Go(r, "rotating")
  <2>1. PICK x : x = [req[r] EXCEPT !.pc = "rotating"]
    OBVIOUS
  <2>2. req[r] \in Request /\ Fits(req[r]) /\ req[r].pc = "rotate" /\ ~Rotating(req[r].t)
    BY DEF IInv, Shape, RotateUpdate, At
  <2>3. /\ x.pc = "rotating" /\ x.s = req[r].s /\ x.t = req[r].t /\ x.late = req[r].late
        /\ x \in Request
    BY <2>1, <2>2 DEF Request
  <2>4. Fits(x)
    BY <1>2, <2>2, <2>3 DEF Fits
  <2>5. req' = [req EXCEPT ![r] = x] /\ UNCHANGED <<sess, tok, cache>>
    BY <1>2, <2>1 DEF RotateUpdate, Go, rows
  <2> QED
    BY <2>2, <2>3, <2>4, <2>5, LocalStep DEF IInv, Shape
<1> QED
  BY <1>1, <1>2 DEF RotateUpdate

LEMMA UsedAgainStep ==
  ASSUME IInv, NEW r \in Slots, UsedAgain(r)
  PROVE  IInv'
<1>1. CASE Answer(r)
  BY <1>1, AnswerStep DEF UsedAgain, rows, IInv, Shape
<1>2. CASE req' = [req EXCEPT ![r] = [@ EXCEPT !.pc = "begin", !.op = "reuse"]]
  <2>1. PICK x : x = [req[r] EXCEPT !.pc = "begin", !.op = "reuse"]
    OBVIOUS
  <2>2. req[r] \in Request /\ Fits(req[r]) /\ req[r].pc = "again"
    BY DEF IInv, Shape, UsedAgain, At
  <2>3. x.pc = "begin" /\ x.s = req[r].s /\ x.late = req[r].late /\ x \in Request
    BY <2>1, <2>2 DEF Request, Revokes
  <2>4. Fits(x)
    BY <2>2, <2>3 DEF Fits
  <2>5. req' = [req EXCEPT ![r] = x] /\ UNCHANGED <<sess, tok, cache>>
    BY <1>2, <2>1 DEF UsedAgain, rows
  <2> QED
    BY <2>3, <2>4, <2>5, LocalStep DEF IInv, Shape
<1> QED
  BY <1>1, <1>2 DEF UsedAgain

LEMMA RemoteTargetStep ==
  ASSUME IInv, NEW r \in Slots, NEW s \in Ids, RemoteTarget(r, s)
  PROVE  IInv'
<1>1. CASE Answer(r)
  BY <1>1, AnswerStep DEF RemoteTarget, rows, IInv, Shape
<1>2. CASE req' = [req EXCEPT ![r] = [@ EXCEPT !.pc = "begin", !.op = "remote", !.s = s]]
  <2>1. PICK x : x = [req[r] EXCEPT !.pc = "begin", !.op = "remote", !.s = s]
    OBVIOUS
  <2>2. req[r] \in Request /\ Fits(req[r]) /\ req[r].pc = "admitted" /\ Known(s)
    BY DEF IInv, Shape, RemoteTarget, At, Known
  <2>3. x.pc = "begin" /\ x.s = s /\ x.late = req[r].late
    BY <2>1, <2>2 DEF Request
  <2>4. s \in 0..MaxSessions
    BY ConstantsOK DEF Ids
  <2>5. x \in Request
    BY <2>1, <2>2, <2>4 DEF Request, Revokes
  <2>6. Fits(x)
    BY <2>2, <2>3 DEF Fits
  <2>7. req' = [req EXCEPT ![r] = x] /\ UNCHANGED <<sess, tok, cache>>
    BY <1>2, <2>1 DEF RemoteTarget, rows
  <2> QED
    BY <2>3, <2>5, <2>6, <2>7, LocalStep DEF IInv, Shape
<1> QED
  BY <1>1, <1>2 DEF RemoteTarget

LEMMA ReplaceReadStep ==
  ASSUME IInv, NEW r \in Slots, NEW op \in Replaces, ReplaceRead(r, op)
  PROVE  IInv'
<1>1. CASE Answer(r)
  BY <1>1, AnswerStep DEF ReplaceRead, rows, IInv, Shape
<1>2. CASE req' = [req EXCEPT ![r] = [@ EXCEPT !.pc = "begin", !.op = op]]
  <2>1. PICK x : x = [req[r] EXCEPT !.pc = "begin", !.op = op]
    OBVIOUS
  <2>2. req[r] \in Request /\ Fits(req[r]) /\ req[r].pc = "admitted"
    BY DEF IInv, Shape, ReplaceRead, At
  <2>3. x.pc = "begin" /\ x.s = req[r].s /\ x.late = req[r].late /\ x \in Request
    BY <2>1, <2>2 DEF Request
  <2>4. Fits(x)
    BY <2>2, <2>3 DEF Fits
  <2>5. req' = [req EXCEPT ![r] = x] /\ UNCHANGED <<sess, tok, cache>>
    BY <1>2, <2>1 DEF ReplaceRead, rows
  <2> QED
    BY <2>3, <2>4, <2>5, LocalStep DEF IInv, Shape
<1> QED
  BY <1>1, <1>2 DEF ReplaceRead

LEMMA UpdateSessionStep ==
  ASSUME IInv, NEW r \in Slots, UpdateSession(r)
  PROVE  IInv'
<1>0. PICK ok \in BOOLEAN : ok = (req[r].op \in Replaces \/ Live(req[r].s))
  OBVIOUS
<1>1. PICK x : x = [req[r] EXCEPT !.pc = "commit", !.ok = ok, !.touch = FreshOf(req[r].s)]
  OBVIOUS
<1>2. req[r] \in Request /\ Fits(req[r]) /\ req[r].pc = "begin"
  BY DEF IInv, Shape, UpdateSession, At
<1>3. /\ x.pc = "commit" /\ x.s = req[r].s /\ x.late = req[r].late
      /\ x.ok = ok /\ x.touch = FreshOf(req[r].s) /\ x \in Request
  BY <1>1, <1>2 DEF Request, FreshOf
<1>4. ~ok => Revoked(req[r].s)
  BY <1>0, <1>2 DEF Fits, Known, Live, Revoked, IInv, Shape, Row
<1>5. Fits(x)
  BY <1>2, <1>3, <1>4 DEF Fits, FreshOf
<1>6. req' = [req EXCEPT ![r] = x] /\ UNCHANGED <<sess, tok, cache>>
  BY <1>0, <1>1 DEF UpdateSession, rows
<1> QED
  BY <1>3, <1>5, <1>6, LocalStep DEF IInv, Shape

LEMMA CacheRevokedStep ==
  ASSUME IInv, NEW r \in Slots, CacheRevoked(r)
  PROVE  IInv'
<1>1. /\ At(r, "after") /\ Store(req[r].s, "revoked") /\ UNCHANGED <<sess, tok>>
      /\ req[r].s \in Ids /\ Revoked(req[r].s)
  BY DEF CacheRevoked, rows, IInv, Fits, At, Known
<1>2. /\ cache' \in [Ids -> {"none", "active", "revoked"}]
      /\ \A u \in Ids : cache'[u] = "revoked" => cache[u] = "revoked" \/ Revoked(u)
  BY <1>1, StoreFacts
<1>3. CASE Answer(r)
  BY <1>1, <1>2, <1>3, AnswerStep
<1>4. CASE Go(r, "family")
  BY <1>1, <1>2, <1>4, GoStep DEF At
<1> QED
  BY <1>3, <1>4 DEF CacheRevoked

LEMMA FamilyUpdateStep ==
  ASSUME IInv, NEW r \in Slots, FamilyUpdate(r)
  PROVE  IInv'
<1>1. PICK x : x = [req[r] EXCEPT !.pc = "close", !.touch = FreshOf(req[r].s)]
  OBVIOUS
<1>2. req[r] \in Request /\ Fits(req[r]) /\ req[r].pc = "family"
  BY DEF IInv, Shape, FamilyUpdate, At
<1>3. /\ x.pc = "close" /\ x.s = req[r].s /\ x.late = req[r].late
      /\ x.touch = FreshOf(req[r].s) /\ x \in Request
  BY <1>1, <1>2 DEF Request, FreshOf
<1>4. Fits(x)
  BY <1>2, <1>3 DEF Fits, FreshOf
<1>5. req' = [req EXCEPT ![r] = x] /\ UNCHANGED <<sess, tok, cache>>
  BY <1>1 DEF FamilyUpdate, rows
<1> QED
  BY <1>3, <1>4, <1>5, LocalStep DEF IInv, Shape
-----------------------------------------------------------------------------
(* Rows change; requests that are rotating keep their tokens.              *)
LEMMA RowsStep ==
  ASSUME IInv, Shape', TokensOK', SessionsKeep, TokensKeep, UNCHANGED cache,
         \A o \in Slots :
           \/ /\ req'[o] = req[o]
              /\ At(o, "rotating") => tok'[req[o].t].st = "fresh"
           \/ req'[o].pc # "rotating" /\ Fits(req[o])'
  PROVE  IInv'
<1>1. \A o \in Slots : Fits(req[o])'
  BY OtherFits
<1>2. OneRotation'
  BY DEF IInv, OneRotation, At
<1>3. CacheOK'
  BY DEF IInv, CacheOK, Revoked, SessionsKeep
<1> QED
  BY <1>1, <1>2, <1>3 DEF IInv

LEMMA IdleFits == ASSUME NEW r, req'[r] = NoRequest PROVE Fits(req[r])'
  BY DEF Fits, NoRequest

(* A new session, and its token. *)
LEMMA NewRows ==
  ASSUME IInv, NEW n \in Ids, NEW k \in {"provisional", "operational"}
  PROVE  /\ Opened(k) \in Row /\ Opened(k).st = "live" /\ Opened(k).kind = k
         /\ Issued(n) \in Token /\ Issued(n).s = n /\ Issued(n).st = "fresh"
<1>1. n \in 0..MaxSessions /\ 0 \in 0..MaxSessions
  BY ConstantsOK DEF Ids
<1> QED
  BY <1>1 DEF Opened, NoRow, Row, Issued, Token

LEMMA LoginStep ==
  ASSUME IInv, NEW kind \in {"provisional", "operational"}, Login(kind)
  PROVE  IInv'
<1>1. PICK n \in Ids :
        /\ NewId(n) /\ sess' = [sess EXCEPT ![n] = Opened(kind)]
        /\ IF kind = "provisional" THEN tok' = tok
           ELSE \E t \in Tokens : NewToken(t) /\ tok' = [tok EXCEPT ![t] = Issued(n)]
  BY DEF Login
<1>2. UNCHANGED <<cache, req>> /\ sess[n].st = "none"
  BY <1>1 DEF Login, NewId
<1>3. PICK w : w = Opened(kind)
  OBVIOUS
<1>4. w \in Row /\ w.st = "live" /\ w.kind = kind
  BY <1>3, NewRows
<1>5. /\ sess'[n] = w /\ (\A s \in Ids \ {n} : sess'[s] = sess[s])
      /\ sess' \in [Ids -> Row]
  BY <1>1, <1>3, <1>4 DEF IInv, Shape
<1>6. SessionsKeep
  BY <1>2, <1>5 DEF SessionsKeep
<1>7. CASE kind = "provisional"
  <2>1. tok' = tok
    BY <1>1, <1>7
  <2>2. TokensOK'
    BY <1>2, <1>4, <1>5, <1>7, <2>1 DEF IInv, TokensOK, Known, Live
  <2>3. TokensKeep /\ Shape' /\ \A o \in Slots : At(o, "rotating") => tok'[req[o].t].st = "fresh"
    BY <1>2, <1>5, <2>1 DEF IInv, Shape, TokensKeep, Fits, At
  <2> QED
    BY <1>2, <1>6, <2>2, <2>3, RowsStep
<1>8. CASE kind = "operational"
  <2>1. PICK t \in Tokens : NewToken(t) /\ tok' = [tok EXCEPT ![t] = Issued(n)]
    BY <1>1, <1>8
  <2>2. PICK i : i = Issued(n)
    OBVIOUS
  <2>3. i \in Token /\ i.s = n /\ i.st = "fresh" /\ tok[t].st = "none"
    BY <2>1, <2>2, NewRows DEF NewToken
  <2>4. /\ tok'[t] = i /\ (\A u \in Tokens \ {t} : tok'[u] = tok[u])
        /\ tok' \in [Tokens -> Token]
    BY <2>1, <2>2, <2>3 DEF IInv, Shape
  <2>5. TokensOK'
    BY <1>2, <1>4, <1>5, <2>3, <2>4 DEF IInv, TokensOK, Known, Live
  <2>6. TokensKeep /\ Shape' /\ \A o \in Slots : At(o, "rotating") => tok'[req[o].t].st = "fresh"
    BY <1>2, <1>5, <2>3, <2>4 DEF IInv, Shape, TokensKeep, Fits, At
  <2> QED
    BY <1>2, <1>6, <2>5, <2>6, RowsStep
<1> QED
  BY <1>7, <1>8

LEMMA TokenAgesStep ==
  ASSUME IInv, NEW t \in Tokens, TokenAges(t)
  PROVE  IInv'
<1>1. /\ UNCHANGED <<sess, cache, req>> /\ tok[t].st = "recent"
      /\ tok' = [tok EXCEPT ![t] = [tok[t] EXCEPT !.st = "old"]]
  BY DEF TokenAges
<1>2. PICK i : i = [tok[t] EXCEPT !.st = "old"]
  OBVIOUS
<1>3. i \in Token /\ i.s = tok[t].s /\ i.st = "old"
  BY <1>2 DEF IInv, Shape, Token
<1>4. /\ tok'[t] = i /\ (\A u \in Tokens \ {t} : tok'[u] = tok[u])
      /\ tok' \in [Tokens -> Token]
  BY <1>1, <1>2, <1>3 DEF IInv, Shape
<1>5. TokensOK'
  BY <1>1, <1>3, <1>4 DEF IInv, TokensOK, Known, Live
<1>6. /\ TokensKeep /\ SessionsKeep /\ Shape'
      /\ \A o \in Slots : At(o, "rotating") => tok'[req[o].t].st = "fresh"
  BY <1>1, <1>3, <1>4 DEF IInv, Shape, TokensKeep, SessionsKeep, Fits, At
<1> QED
  BY <1>1, <1>5, <1>6, RowsStep

LEMMA RotateCommitStep ==
  ASSUME IInv, NEW r \in Slots, RotateCommit(r)
  PROVE  IInv'
<1>1. PICK n \in Tokens :
        /\ NewToken(n)
        /\ tok' = [tok EXCEPT ![req[r].t].st = "recent", ![n] = Issued(req[r].s)]
  BY DEF RotateCommit
<1>2. PICK q : q = req[r]
  OBVIOUS
<1>3. /\ q.t \in Tokens /\ tok[q.t].s = q.s /\ tok[q.t].st = "fresh" /\ Known(q.s)
      /\ At(r, "rotating") /\ tok[n].st = "none"
  BY <1>1, <1>2 DEF RotateCommit, At, IInv, Fits, NewToken
<1>4. PICK i : i = Issued(q.s)
  OBVIOUS
<1>5. i \in Token /\ i.s = q.s /\ i.st = "fresh"
  BY <1>3, <1>4, NewRows DEF Known
<1>6. PICK j : j = [tok[q.t] EXCEPT !.st = "recent"]
  OBVIOUS
<1>7. j \in Token /\ j.s = q.s /\ j.st = "recent"
  BY <1>3, <1>6 DEF IInv, Shape, Token
<1>8. /\ tok'[n] = i /\ tok'[q.t] = j /\ n # q.t
      /\ (\A u \in Tokens \ {n, q.t} : tok'[u] = tok[u])
      /\ tok' \in [Tokens -> Token]
  BY <1>1, <1>2, <1>3, <1>4, <1>5, <1>6, <1>7 DEF IInv, Shape
<1>9. UNCHANGED <<sess, cache>> /\ req' = [req EXCEPT ![r] = NoRequest]
  BY DEF RotateCommit, Answer
<1>10. NoRequest \in Request /\ NoRequest.pc = "idle"
  BY ConstantsOK DEF NoRequest, Request
<1>11. req'[r] = NoRequest /\ (\A o \in Slots \ {r} : req'[o] = req[o]) /\ Shape'
  BY <1>8, <1>9, <1>10 DEF IInv, Shape
<1>12. TokensOK'
  BY <1>3, <1>5, <1>7, <1>8, <1>9 DEF IInv, TokensOK, Known, Live
<1>13. TokensKeep /\ SessionsKeep
  BY <1>3, <1>5, <1>7, <1>8, <1>9 DEF TokensKeep, SessionsKeep
<1>14. \A o \in Slots \ {r} : At(o, "rotating") => tok'[req[o].t].st = "fresh"
  BY <1>2, <1>3, <1>5, <1>8 DEF IInv, OneRotation, Fits, At
<1>15. req'[r].pc # "rotating" /\ Fits(req[r])'
  BY <1>10, <1>11, IdleFits
<1> QED
  BY <1>9, <1>11, <1>12, <1>13, <1>14, <1>15, RowsStep

(* What a transaction that sweeps the tokens of a session does to them.    *)
LEMMA Swept ==
  ASSUME IInv, NEW r \in Slots, At(r, "commit") \/ At(r, "close"), Waited(r)
  PROVE  /\ Withdrawn(r) \in [Tokens -> Token]
         /\ \A t \in Tokens :
              \/ Withdrawn(r)[t] = tok[t]
              \/ /\ tok[t].st = "fresh" /\ tok[t].s = req[r].s /\ ~Rotating(t)
                 /\ Withdrawn(r)[t].s = tok[t].s /\ Withdrawn(r)[t].st = "revoked"
<1>1. \A t \in Tokens : /\ [tok[t] EXCEPT !.st = "revoked"] \in Token
                        /\ [tok[t] EXCEPT !.st = "revoked"].s = tok[t].s
                        /\ [tok[t] EXCEPT !.st = "revoked"].st = "revoked"
  BY DEF IInv, Shape, Token
<1>2. \A t \in Tokens : t \in req[r].touch => tok[t].s = req[r].s /\ ~Rotating(t)
  BY DEF IInv, Fits, At, Waited
<1>3. \A t \in Tokens : tok[t] \in Token
  BY DEF IInv, Shape
<1> QED
  BY <1>1, <1>2, <1>3 DEF Withdrawn
(* A session that is over loses its tokens.                                *)
LEMMA SweepStep ==
  ASSUME IInv, NEW r \in Slots, At(r, "commit") \/ At(r, "close"), Waited(r),
         tok' = Withdrawn(r), UNCHANGED cache,
         sess' \in [Ids -> Row], sess'[req[r].s].st = "revoked",
         \A s \in Ids \ {req[r].s} : sess'[s] = sess[s],
         NEW x \in Request, req' = [req EXCEPT ![r] = x],
         x.pc \in {"idle", "after"}, x.late = FALSE, x.pc = "after" => x.s = req[r].s
  PROVE  IInv'
<1>1. PICK q : q = req[r]
  OBVIOUS
<1>2. Known(q.s) /\ ~At(r, "rotating")
  BY <1>1 DEF IInv, Fits, At
<1>3. /\ tok' \in [Tokens -> Token]
      /\ \A t \in Tokens :
           \/ tok'[t] = tok[t]
           \/ /\ tok[t].st = "fresh" /\ tok[t].s = q.s /\ ~Rotating(t)
              /\ tok'[t].s = tok[t].s /\ tok'[t].st = "revoked"
  BY <1>1, Swept
<1>4. /\ req'[r] = x /\ (\A o \in Slots \ {r} : req'[o] = req[o])
      /\ Shape'
  BY <1>3 DEF IInv, Shape
<1>5. SessionsKeep
  BY <1>1 DEF SessionsKeep
<1>6. TokensKeep
  BY <1>3 DEF TokensKeep
<1>7. TokensOK'
  <2>1. \A t \in Tokens :
          tok'[t].st # "none" => tok'[t].s \in Ids /\ sess'[tok'[t].s].st # "none"
    BY <1>3, <1>5 DEF IInv, TokensOK, Known, SessionsKeep
  <2>2. \A t, u \in Tokens :
          (tok'[t].st = "fresh" /\ tok'[u].st = "fresh" /\ tok'[t].s = tok'[u].s) => t = u
    BY <1>3 DEF IInv, TokensOK
  <2>3. ASSUME NEW s \in Ids, Live(s)', sess'[s].kind = "operational"
        PROVE  \E t \in Tokens : tok'[t].s = s /\ tok'[t].st = "fresh"
    <3>1. s # q.s /\ sess'[s] = sess[s]
      BY <1>1, <2>3 DEF Live
    <3>2. PICK t \in Tokens : tok[t].s = s /\ tok[t].st = "fresh"
      BY <2>3, <3>1 DEF IInv, TokensOK, Live
    <3> QED
      BY <1>3, <3>1, <3>2
  <2> QED
    BY <2>1, <2>2, <2>3 DEF TokensOK, Known
<1>8. \A o \in Slots \ {r} : At(o, "rotating") => tok'[req[o].t].st = "fresh"
  BY <1>3 DEF IInv, Fits, At, Rotating
<1>9. Fits(req[r])'
  BY <1>1, <1>2, <1>4, <1>5 DEF Fits, Known, Revoked, SessionsKeep
<1> QED
  BY <1>4, <1>5, <1>6, <1>7, <1>8, <1>9, RowsStep

LEMMA FamilyCommitStep ==
  ASSUME IInv, NEW r \in Slots, FamilyCommit(r)
  PROVE  IInv'
<1>1. NoRequest \in Request /\ NoRequest.pc = "idle" /\ NoRequest.late = FALSE
  BY ConstantsOK DEF NoRequest, Request
<1>2. Known(req[r].s) /\ Revoked(req[r].s)
  BY DEF FamilyCommit, IInv, Fits, At
<1>3. /\ At(r, "close") /\ Waited(r) /\ tok' = Withdrawn(r) /\ UNCHANGED <<sess, cache>>
      /\ req' = [req EXCEPT ![r] = NoRequest]
  BY DEF FamilyCommit, Answer
<1> QED
  BY <1>1, <1>2, <1>3, SweepStep DEF IInv, Shape, Revoked

(* The request that goes on to the cache. *)
LEMMA AfterRequest ==
  ASSUME IInv, NEW r \in Slots, At(r, "commit"), NEW x,
         x = [req[r] EXCEPT !.pc = "after", !.touch = {}]
  PROVE  x \in Request /\ x.pc = "after" /\ x.late = FALSE /\ x.s = req[r].s
  BY DEF IInv, Shape, Request, Fits, At

LEMMA RevokeCommitStep ==
  ASSUME IInv, NEW r \in Slots, RevokeCommit(r)
  PROVE  IInv'
<1>1. PICK x : x = [req[r] EXCEPT !.pc = "after", !.touch = {}]
  OBVIOUS
<1>2. x \in Request /\ x.pc = "after" /\ x.late = FALSE /\ x.s = req[r].s
  BY <1>1, AfterRequest DEF RevokeCommit
<1>3. /\ At(r, "commit") /\ Waited(r) /\ tok' = Withdrawn(r) /\ UNCHANGED cache
      /\ req' = [req EXCEPT ![r] = x] /\ req[r].op \in Revokes
      /\ sess' = IF req[r].ok
                  THEN [sess EXCEPT ![req[r].s] =
                          [@ EXCEPT !.st = "revoked", !.reason = req[r].op]]
                  ELSE sess
  BY <1>1 DEF RevokeCommit
<1>4. Known(req[r].s) /\ (~req[r].ok => Revoked(req[r].s))
  BY <1>3 DEF IInv, Fits, At
<1>5. PICK w : w = [sess[req[r].s] EXCEPT !.st = "revoked", !.reason = req[r].op]
  OBVIOUS
<1>6. w \in Row /\ w.st = "revoked"
  BY <1>3, <1>4, <1>5 DEF IInv, Shape, Row, Known, Revokes
<1>7. /\ sess' \in [Ids -> Row] /\ sess'[req[r].s].st = "revoked"
      /\ \A s \in Ids \ {req[r].s} : sess'[s] = sess[s]
  BY <1>3, <1>4, <1>5, <1>6 DEF IInv, Shape, Known, Revoked
<1> QED
  BY <1>2, <1>3, <1>7, SweepStep
LEMMA ReplaceCommitStep ==
  ASSUME IInv, NEW r \in Slots, ReplaceCommit(r)
  PROVE  IInv'
<1>1. PICK n \in Ids, t \in Tokens :
        /\ NewId(n) /\ NewToken(t)
        /\ sess' = [sess EXCEPT
             ![req[r].s] = [@ EXCEPT !.st = "revoked", !.reason = "replaced", !.by = n],
             ![n] = Opened("operational")]
        /\ tok' = [Withdrawn(r) EXCEPT ![t] = Issued(n)]
  BY DEF ReplaceCommit
<1>2. PICK q : q = req[r]
  OBVIOUS
<1>3. /\ At(r, "commit") /\ Waited(r) /\ UNCHANGED cache /\ Known(q.s)
      /\ sess[n].st = "none" /\ tok[t].st = "none" /\ n # q.s /\ ~At(r, "rotating")
  BY <1>1, <1>2 DEF ReplaceCommit, IInv, Fits, At, Known, NewId, NewToken
<1>4. PICK w : w = [sess[q.s] EXCEPT !.st = "revoked", !.reason = "replaced", !.by = n]
  OBVIOUS
<1>5. n \in 0..MaxSessions
  BY ConstantsOK DEF Ids
<1>6. w \in Row /\ w.st = "revoked"
  BY <1>3, <1>4, <1>5 DEF IInv, Shape, Row, Known
<1>7. PICK v : v = Opened("operational")
  OBVIOUS
<1>8. v \in Row /\ v.st = "live" /\ v.kind = "operational"
  BY <1>7, NewRows
<1>9. /\ sess'[q.s] = w /\ sess'[n] = v /\ sess' \in [Ids -> Row]
      /\ \A s \in Ids \ {q.s, n} : sess'[s] = sess[s]
  BY <1>1, <1>2, <1>3, <1>4, <1>6, <1>7, <1>8 DEF IInv, Shape, Known
<1>10. PICK i : i = Issued(n)
  OBVIOUS
<1>11. i \in Token /\ i.s = n /\ i.st = "fresh"
  BY <1>10, NewRows
<1>12. PICK d : d = Withdrawn(r)
  OBVIOUS
<1>13. /\ d \in [Tokens -> Token]
       /\ \A u \in Tokens :
            \/ d[u] = tok[u]
            \/ /\ tok[u].st = "fresh" /\ tok[u].s = q.s /\ ~Rotating(u)
               /\ d[u].s = tok[u].s /\ d[u].st = "revoked"
  BY <1>2, <1>3, <1>12, Swept
<1>14. /\ tok'[t] = i /\ tok' \in [Tokens -> Token]
       /\ \A u \in Tokens \ {t} :
            \/ tok'[u] = tok[u]
            \/ /\ tok[u].st = "fresh" /\ tok[u].s = q.s /\ ~Rotating(u)
               /\ tok'[u].s = tok[u].s /\ tok'[u].st = "revoked"
  BY <1>1, <1>10, <1>11, <1>12, <1>13
<1>15. SessionsKeep
  BY <1>3, <1>6, <1>8, <1>9 DEF SessionsKeep
<1>16. TokensKeep
  BY <1>3, <1>14 DEF TokensKeep
<1>17. PICK x : x = [req[r] EXCEPT !.pc = "after", !.touch = {}]
  OBVIOUS
<1>18. x \in Request /\ x.pc = "after" /\ x.late = FALSE /\ x.s = q.s
  BY <1>2, <1>3, <1>17, AfterRequest
<1>19. NoRequest \in Request /\ NoRequest.pc = "idle"
  BY ConstantsOK DEF NoRequest, Request
<1>20. req' = [req EXCEPT ![r] = NoRequest] \/ req' = [req EXCEPT ![r] = x]
  BY <1>17 DEF ReplaceCommit, Answer
<1>21. /\ req'[r] = NoRequest \/ req'[r] = x
       /\ (\A o \in Slots \ {r} : req'[o] = req[o]) /\ req' \in [Slots -> Request]
  BY <1>18, <1>19, <1>20 DEF IInv, Shape
<1>22. Shape'
  BY <1>3, <1>9, <1>14, <1>21 DEF IInv, Shape
<1>23. TokensOK'
  <2>1. \A u \in Tokens :
          tok'[u].st # "none" => tok'[u].s \in Ids /\ sess'[tok'[u].s].st # "none"
    BY <1>8, <1>9, <1>11, <1>14, <1>15 DEF IInv, TokensOK, Known, SessionsKeep
  <2>2. \A u \in Tokens \ {t} : tok'[u].st = "fresh" => tok'[u] = tok[u] /\ tok'[u].s # n
    BY <1>3, <1>14 DEF IInv, TokensOK, Known
  <2>3. \A u, p \in Tokens :
          (tok'[u].st = "fresh" /\ tok'[p].st = "fresh" /\ tok'[u].s = tok'[p].s) => u = p
    BY <1>11, <1>14, <2>2 DEF IInv, TokensOK
  <2>4. ASSUME NEW s \in Ids, Live(s)', sess'[s].kind = "operational"
        PROVE  \E u \in Tokens : tok'[u].s = s /\ tok'[u].st = "fresh"
    <3>1. s # q.s
      BY <1>6, <1>9, <2>4 DEF Live
    <3>2. ASSUME s # n PROVE \E u \in Tokens : tok'[u].s = s /\ tok'[u].st = "fresh"
      <4>1. sess'[s] = sess[s]
        BY <1>9, <3>1, <3>2
      <4>2. PICK u \in Tokens : tok[u].s = s /\ tok[u].st = "fresh"
        BY <2>4, <4>1 DEF IInv, TokensOK, Live
      <4> QED
        BY <1>3, <1>14, <3>1, <4>2
    <3> QED
      BY <1>11, <1>14, <3>2
  <2> QED
    BY <2>1, <2>3, <2>4 DEF TokensOK, Known
<1>24. \A o \in Slots \ {r} : At(o, "rotating") => tok'[req[o].t].st = "fresh"
  BY <1>3, <1>14 DEF IInv, Fits, At, Rotating
<1>25. Fits(req[r])' /\ req'[r].pc # "rotating"
  <2>1. CASE req'[r] = NoRequest
    BY <1>19, <2>1, IdleFits
  <2>2. CASE req'[r] = x
    BY <1>3, <1>6, <1>9, <1>18, <2>2 DEF Fits, Known, Revoked
  <2> QED
    BY <1>21, <2>1, <2>2
<1> QED
  BY <1>3, <1>15, <1>16, <1>21, <1>22, <1>23, <1>24, <1>25, RowsStep

-----------------------------------------------------------------------------
LEMMA NextInv == IInv /\ [Next]_vars => IInv'
<1> SUFFICES ASSUME IInv, [Next]_vars PROVE IInv'
  OBVIOUS
<1>1. CASE UNCHANGED vars
  BY <1>1 DEF IInv, Shape, CacheOK, TokensOK, OneRotation, Fits, Known, Revoked,
     Live, At, vars, rows
<1>2. ASSUME NEW kind \in {"provisional", "operational"}, Login(kind) PROVE IInv'
  BY <1>2, LoginStep
<1>3. ASSUME NEW r \in Slots, Start(r) PROVE IInv'
  BY <1>3, GuardReadStep, HandshakeStep, LogoutStep, RefreshReadStep DEF Start
<1>4. ASSUME NEW r \in Slots, Guarding(r) PROVE IInv'
  BY <1>4, StateCachedStep, StateReadStep, StateFillStep, PingStep DEF Guarding
<1>5. ASSUME NEW r \in Slots, Socket(r) PROVE IInv'
  BY <1>5, SocketRowStep, FetchSocketsStep, JoinRoomStep, PingStep DEF Socket
<1>6. ASSUME NEW r \in Slots, Refreshing(r) PROVE IInv'
  BY <1>6, RotateUpdateStep, RotateCommitStep, UsedAgainStep DEF Refreshing
<1>7. ASSUME NEW r \in Slots, Ending(r) PROVE IInv'
  BY <1>7, RemoteTargetStep, ReplaceReadStep, UpdateSessionStep, RevokeCommitStep,
     ReplaceCommitStep, DiesStep, CacheRevokedStep, FamilyUpdateStep, FamilyCommitStep
     DEF Ending
<1>8. ASSUME NEW r \in Slots, Dies(r) PROVE IInv'
  BY <1>8, DiesStep
<1>9. ASSUME NEW s \in Ids, DisconnectSession(s) \/ CacheExpires(s) PROVE IInv'
  BY <1>9, DisconnectStep, CacheExpiresStep
<1>10. ASSUME NEW t \in Tokens, TokenAges(t) PROVE IInv'
  BY <1>10, TokenAgesStep
<1> QED
  BY <1>1, <1>2, <1>3, <1>4, <1>5, <1>6, <1>7, <1>8, <1>9, <1>10 DEF Next

(* The inductive invariant holds in every reachable state.                 *)
THEOREM SessionsInvariant == Spec => []IInv
  BY InitInv, NextInv, PTL DEF Spec

(* What the requests do not look at: the commands, the bounds.             *)
Rest ==
  world \in Worlds /\ cmd \in [Ids -> {"none", "pending", "done"}] /\ faults \in 0..world.faults

LEMMA RestInv == IInv /\ Rest /\ [Next]_vars => Rest'
<1> SUFFICES ASSUME IInv, Rest, [Next]_vars PROVE Rest'
  OBVIOUS
<1>1. world.faults \in Nat
  BY ConstantsOK DEF Rest
<1>2. Fault => faults' \in 0..world.faults
  BY <1>1 DEF Fault, Rest
<1>3. ASSUME UNCHANGED <<world, cmd>>, Fault \/ UNCHANGED faults PROVE Rest'
  BY <1>2, <1>3 DEF Rest
<1>4. ASSUME NEW s \in Ids, UNCHANGED <<world, faults>>,
             cmd' = Announced(s) \/ cmd' = [cmd EXCEPT ![s] = "done"]
      PROVE  Rest'
  BY <1>4 DEF Rest, Announced
<1>5. \A r \in Slots : At(r, "commit") => req[r].s \in Ids
  BY DEF IInv, Fits, At, Known
<1>6. CASE UNCHANGED vars
  BY <1>3, <1>6 DEF vars, rows
<1>7. ASSUME NEW kind \in {"provisional", "operational"}, Login(kind) PROVE Rest'
  BY <1>3, <1>7 DEF Login
<1>8. ASSUME NEW r \in Slots, Start(r) PROVE Rest'
  BY <1>3, <1>8 DEF Start, GuardRead, HandshakeStart, Logout, RefreshRead, rows
<1>9. ASSUME NEW r \in Slots, Guarding(r) PROVE Rest'
  BY <1>3, <1>9 DEF Guarding, StateCached, StateRead, StateFill, Store, Ping, rows
<1>10. ASSUME NEW r \in Slots, Socket(r) PROVE Rest'
  BY <1>3, <1>10 DEF Socket, SocketRow, FetchSockets, JoinRoom, SocketEnds, rows
<1>11. ASSUME NEW r \in Slots, Refreshing(r) PROVE Rest'
  BY <1>3, <1>11 DEF Refreshing, RotateUpdate, RotateCommit, UsedAgain, rows
<1>12. ASSUME NEW r \in Slots, Ending(r) PROVE Rest'
  <2>1. CASE RevokeCommit(r) \/ ReplaceCommit(r)
    BY <1>4, <1>5, <2>1 DEF RevokeCommit, ReplaceCommit
  <2>2. CASE ~(RevokeCommit(r) \/ ReplaceCommit(r))
    BY <1>3, <1>12, <2>2 DEF Ending, RemoteTarget, ReplaceRead, UpdateSession, Deadlock,
       CacheRevoked, Store, FamilyUpdate, FamilyCommit, rows
  <2> QED
    BY <2>1, <2>2
<1>13. ASSUME NEW r \in Slots, Dies(r) PROVE Rest'
  BY <1>3, <1>13 DEF Dies, rows
<1>14. ASSUME NEW s \in Ids, DisconnectSession(s) \/ CacheExpires(s) PROVE Rest'
  BY <1>3, <1>4, <1>14 DEF DisconnectSession, CacheExpires, rows
<1>15. ASSUME NEW t \in Tokens, TokenAges(t) PROVE Rest'
  BY <1>3, <1>15 DEF TokenAges
<1> QED
  BY <1>6, <1>7, <1>8, <1>9, <1>10, <1>11, <1>12, <1>13, <1>14, <1>15 DEF Next

(* The types of the tables, the cache and the requests.                    *)
THEOREM TypesAlways == Spec => []TypeOK
<1>1. Init => Rest
  BY ConstantsOK DEF Init, Rest
<1>2. IInv /\ Rest => TypeOK
  BY DEF IInv, Shape, Rest, TypeOK
<1> QED
  BY <1>1, <1>2, RestInv, SessionsInvariant, PTL DEF Spec

(* Whatever Redis says and however requests overlap, nobody is served for  *)
(* a session that was revoked before the request arrived.                  *)
THEOREM RevokedStaysOut == Spec => []AdmittedWasLive
  BY SessionsInvariant, IInvImplies, PTL

(* A live operational session has exactly one token that can refresh it.   *)
THEOREM OneWayToRefresh == Spec => []ExactlyOneToken
  BY SessionsInvariant, IInvImplies, PTL

(* Redis never calls a live session revoked.                               *)
THEOREM NobodyLockedOut == Spec => []NoFalseLockout
  BY SessionsInvariant, IInvImplies, PTL

-----------------------------------------------------------------------------
(* What holds when requests do not overlap: sessions change under nobody's *)
(* hands, so what a request read is so until it ends.                      *)

Busy(r) == req[r].pc \notin {"idle", "connected"}

OneAtWork == \A r, o \in Slots : (Busy(r) /\ Busy(o)) => r = o

(* What a request that is alone knows of its session. *)
Knows(q) ==
  /\ (q.pc = "fill" /\ q.seen = "active") => Live(q.s)
  /\ q.pc \in {"fetch", "join"} => Live(q.s)

(* SocketsFollow, socket by socket. *)
Followed ==
  \A k \in Slots : At(k, "connected") => Live(req[k].s) \/ cmd[req[k].s] = "pending"

Told == \A s \in Ids : cmd[s] # "none" => Revoked(s)

Alone ==
  /\ OneAtWork /\ (\A r \in Slots : Knows(req[r]))
  /\ Followed /\ Told

SInv == IInv /\ Rest /\ (Sequential => Alone)

(* A request arrives only when nobody is at work. *)
LEMMA ArriveAlone ==
  ASSUME Rest, Sequential, NEW r \in Slots, NEW x, Arrive(r, x)
  PROVE  \A o \in Slots : ~Busy(o)
<1>1. IsFiniteSet(AtWork)
  BY ConstantsOK, FS_Subset DEF AtWork
<1>2. Cardinality(AtWork) = 0
  BY <1>1, FS_CardinalityType DEF Arrive, Sequential
<1>3. AtWork = {}
  BY <1>1, <1>2, FS_EmptySet
<1> QED BY <1>3 DEF AtWork, Busy

(* A step of a request alone that leaves the sessions as they are.         *)
LEMMA FrameAlone ==
  ASSUME IInv, Rest, Alone, NEW r \in Slots, NEW x, req' = [req EXCEPT ![r] = x],
         UNCHANGED <<sess, cmd>>, x.pc # "connected", Knows(x),
         x.pc = "idle" \/ (\A o \in Slots \ {r} : ~Busy(o))
  PROVE  Alone'
<1>1. req'[r] = x /\ \A o \in Slots \ {r} : req'[o] = req[o]
  BY DEF IInv, Shape
<1>2. OneAtWork'
  BY <1>1 DEF Alone, OneAtWork, Busy
<1>3. \A o \in Slots : Knows(req[o])'
  BY <1>1 DEF Alone, Knows, Live
<1>4. Followed' /\ Told'
  BY <1>1 DEF Alone, Followed, Told, At, Live, Revoked
<1> QED BY <1>2, <1>3, <1>4 DEF Alone

LEMMA StepAlone ==
  ASSUME IInv, Rest, Alone, NEW r \in Slots, Busy(r), NEW x,
         req' = [req EXCEPT ![r] = x],
         UNCHANGED <<sess, cmd>>, x.pc # "connected", Knows(x)
  PROVE  Alone'
<1>1. \A o \in Slots \ {r} : ~Busy(o)
  BY DEF Alone, OneAtWork
<1> QED BY <1>1, FrameAlone

LEMMA AnswerAlone ==
  ASSUME IInv, Rest, Alone, NEW r \in Slots, Answer(r), UNCHANGED <<sess, cmd>>
  PROVE  Alone'
<1>1. NoRequest.pc = "idle" /\ Knows(NoRequest)
  BY DEF NoRequest, Knows
<1> QED BY <1>1, FrameAlone DEF Answer

Arrives(r, x) ==
  /\ Arrive(r, x)
  /\ x.pc \in {"state", "rotate", "again", "begin"}

LEMMA StartAlone ==
  ASSUME IInv, Rest, Sequential, Alone, NEW r \in Slots, Start(r)
  PROVE  Alone'
<1>1. PICK x : /\ Arrive(r, x)
               /\ x.pc \in {"state", "rotate", "again", "begin"}
  <2>1. ASSUME NEW s \in Ids, GuardRead(r, s) PROVE \E x : Arrives(r, x)
    <3>1. PICK x : x = [NoRequest EXCEPT !.pc = "state", !.op = "request", !.s = s,
                                         !.ok = Live(s), !.late = ~Live(s)]
      OBVIOUS
    <3>2. x.pc \in {"state", "rotate", "again", "begin"}
      BY <3>1 DEF NoRequest
    <3>3. Arrive(r, x)
      BY <2>1, <3>1 DEF GuardRead
    <3> QED BY <3>2, <3>3 DEF Arrives
  <2>2. ASSUME NEW s \in Ids, HandshakeStart(r, s) PROVE \E x : Arrives(r, x)
    <3>1. PICK x : x = [NoRequest EXCEPT !.pc = "state", !.op = "socket", !.s = s,
                                         !.ok = TRUE, !.late = ~Live(s)]
      OBVIOUS
    <3>2. x.pc \in {"state", "rotate", "again", "begin"}
      BY <3>1 DEF NoRequest
    <3>3. Arrive(r, x)
      BY <2>2, <3>1 DEF HandshakeStart
    <3> QED BY <3>2, <3>3 DEF Arrives
  <2>3. ASSUME NEW s \in Ids, Logout(r, s) PROVE \E x : Arrives(r, x)
    <3>1. PICK x : x = [NoRequest EXCEPT !.pc = "begin", !.op = "logout", !.s = s]
      OBVIOUS
    <3>2. x.pc \in {"state", "rotate", "again", "begin"}
      BY <3>1 DEF NoRequest
    <3>3. Arrive(r, x)
      BY <2>3, <3>1 DEF Logout
    <3> QED BY <3>2, <3>3 DEF Arrives
  <2>4. ASSUME NEW t \in Tokens, RefreshRead(r, t) PROVE \E x : Arrives(r, x)
    <3>1. PICK x : x = [NoRequest EXCEPT !.op = "refresh", !.s = tok[t].s, !.t = t,
                          !.pc = IF tok[t].st = "fresh" THEN "rotate" ELSE "again"]
      OBVIOUS
    <3>2. x.pc \in {"state", "rotate", "again", "begin"}
      BY <3>1 DEF NoRequest
    <3>3. Arrive(r, x)
      BY <2>4, <3>1 DEF RefreshRead
    <3> QED BY <3>2, <3>3 DEF Arrives
  <2> QED BY <2>1, <2>2, <2>3, <2>4 DEF Start, Arrives
<1>2. UNCHANGED <<sess, cmd>> /\ req' = [req EXCEPT ![r] = x]
  BY <1>1 DEF Start, GuardRead, HandshakeStart, Logout, RefreshRead, rows, Arrive
<1>3. Knows(x)
  BY <1>1 DEF Knows
<1> QED BY <1>1, <1>2, <1>3, ArriveAlone, FrameAlone

LEMMA GuardingAlone ==
  ASSUME IInv, Rest, Alone, NEW r \in Slots, Guarding(r)
  PROVE  Alone'
<1>0. req[r] \in Request /\ req[r].s \in Ids /\ Knows(req[r]) /\ Fits(req[r]) /\ Busy(r)
  BY DEF IInv, Shape, Alone, Fits, Known, Guarding, StateCached, StateRead, StateFill, Ping,
     At, Busy
<1>1. ASSUME NEW pc \in {"row", "admitted"}, Go(r, pc)
      PROVE  \E x : req' = [req EXCEPT ![r] = x] /\ x.pc = pc /\ Knows(x)
  <2>1. PICK x : x = [req[r] EXCEPT !.pc = pc]
    OBVIOUS
  <2>2. x.pc = pc
    BY <1>0, <2>1 DEF Request
  <2>3. Knows(x)
    BY <2>2 DEF Knows
  <2> QED BY <1>1, <2>1, <2>2, <2>3 DEF Go
<1>2. ASSUME NEW st, Verdict(r, st)
      PROVE  \E x : req' = [req EXCEPT ![r] = x] /\ x.pc # "connected" /\ Knows(x)
  <2>1. NoRequest.pc = "idle" /\ Knows(NoRequest)
    BY DEF NoRequest, Knows
  <2> QED BY <1>1, <1>2, <2>1 DEF Verdict, Answer
<1>3. CASE StateCached(r)
  BY <1>0, <1>2, <1>3, StepAlone DEF StateCached, rows
<1>4. CASE StateRead(r)
  <2>1. PICK x : x = [req[r] EXCEPT !.pc = "fill", !.seen = State(req[r].s)]
    OBVIOUS
  <2>2. x.pc = "fill" /\ x.seen = State(req[r].s) /\ x.s = req[r].s
    BY <1>0, <2>1 DEF Request
  <2>3. Knows(x)
    BY <2>2 DEF Knows, State
  <2>4. req' = [req EXCEPT ![r] = x] /\ UNCHANGED <<sess, cmd>>
    BY <1>4, <2>1 DEF StateRead, rows
  <2> QED BY <1>0, <2>2, <2>3, <2>4, StepAlone
<1>5. CASE StateFill(r)
  <2>1. UNCHANGED <<sess, cmd>>
    BY <1>5 DEF StateFill, rows
  <2>2. PICK x : req' = [req EXCEPT ![r] = x] /\ x.pc # "connected" /\ Knows(x)
    BY <1>2, <1>5 DEF StateFill
  <2> QED BY <1>0, <2>1, <2>2, StepAlone
<1>6. CASE Ping(r)
  BY <1>0, <1>6, AnswerAlone DEF Ping, rows
<1> QED BY <1>3, <1>4, <1>5, <1>6 DEF Guarding

(* The sockets of a room are cut: no request at work is among them.        *)
LEMMA CutAlone ==
  ASSUME IInv, Rest, Alone, UNCHANGED sess,
         \A k \in Slots : req'[k] \in {req[k], NoRequest},
         \A k \in Slots : Busy(k) => req'[k] = req[k],
         \A k \in Slots : At(k, "connected")' =>
            cmd'[req[k].s] = cmd[req[k].s],
         Told'
  PROVE  Alone'
<1>1. NoRequest.pc = "idle" /\ Knows(NoRequest)'
  BY DEF NoRequest, Knows
<1>2. OneAtWork'
  BY <1>1 DEF Alone, OneAtWork, Busy
<1>3. \A k \in Slots : Knows(req[k])'
  BY <1>1 DEF Alone, Knows, Live
<1>4. Followed'
  BY <1>1 DEF Alone, Followed, At, Live
<1> QED BY <1>2, <1>3, <1>4 DEF Alone

LEMMA SocketAlone ==
  ASSUME IInv, Rest, Alone, NEW r \in Slots, Socket(r)
  PROVE  Alone'
<1>0. req[r] \in Request /\ req[r].s \in Ids /\ Knows(req[r])
  BY DEF IInv, Shape, Alone, Fits, Known, Socket, SocketRow, FetchSockets, JoinRoom,
     SocketEnds, At
<1>1. CASE SocketRow(r)
  <2>1. CASE Answer(r)
    BY <1>0, <1>1, <2>1, AnswerAlone DEF SocketRow, rows
  <2>2. CASE Live(req[r].s) /\ Go(r, "fetch")
    <3>1. PICK x : x = [req[r] EXCEPT !.pc = "fetch"]
      OBVIOUS
    <3>2. x.pc = "fetch" /\ x.s = req[r].s
      BY <1>0, <3>1 DEF Request
    <3>3. Knows(x) /\ Busy(r)
      BY <1>1, <2>2, <3>2 DEF Knows, SocketRow, At, Busy
    <3> QED BY <1>0, <1>1, <2>2, <3>1, <3>2, <3>3, StepAlone DEF SocketRow, Go, rows
  <2> QED BY <1>1, <2>1, <2>2 DEF SocketRow
<1>2. CASE FetchSockets(r)
  <2>1. PICK x : x = [req[r] EXCEPT !.pc = "join", !.touch = Connected(req[r].s)]
    OBVIOUS
  <2>2. x.pc = "join" /\ x.s = req[r].s
    BY <1>0, <2>1 DEF Request
  <2>3. Knows(x) /\ Busy(r)
    BY <1>0, <1>2, <2>2 DEF Knows, FetchSockets, At, Busy
  <2> QED BY <1>0, <1>2, <2>1, <2>2, <2>3, StepAlone DEF FetchSockets, rows
<1>3. CASE JoinRoom(r)
  <2>1. PICK x : x = [req[r] EXCEPT !.pc = "connected", !.touch = {}]
    OBVIOUS
  <2>2. x.pc = "connected" /\ x.s = req[r].s /\ NoRequest.pc = "idle"
    BY <1>0, <2>1 DEF Request, NoRequest
  <2>3. /\ req'[r] = x /\ \A k \in Slots \ {r} : req'[k] \in {req[k], NoRequest}
        /\ UNCHANGED <<sess, cmd>>
    BY <1>3, <2>1 DEF JoinRoom, rows
  <2>4. Live(req[r].s) /\ At(r, "join")
    BY <1>0, <1>3 DEF Knows, JoinRoom, At
  <2>5. \A k \in Slots \ {r} : ~Busy(k)
    BY <2>4 DEF Alone, OneAtWork, Busy, At
  <2>6. \A k \in Slots : ~Busy(k)'
    BY <2>2, <2>3, <2>5 DEF Busy
  <2>7. OneAtWork' /\ \A k \in Slots : Knows(req[k])'
    BY <2>6 DEF OneAtWork, Knows, Busy
  <2>8. Followed' /\ Told'
    BY <2>2, <2>3, <2>4 DEF Alone, Followed, Told, At, Live, Revoked
  <2> QED BY <2>7, <2>8 DEF Alone
<1>4. CASE SocketEnds(r)
  BY <1>0, <1>4, AnswerAlone DEF SocketEnds, rows
<1> QED BY <1>1, <1>2, <1>3, <1>4 DEF Socket

LEMMA RefreshingAlone ==
  ASSUME IInv, Rest, Alone, NEW r \in Slots, Refreshing(r)
  PROVE  Alone'
<1>0. req[r] \in Request /\ Busy(r) /\ UNCHANGED <<sess, cmd>>
  BY DEF IInv, Shape, Refreshing, RotateUpdate, RotateCommit, UsedAgain, At, Busy, rows
<1>1. CASE Answer(r)
  BY <1>0, <1>1, AnswerAlone
<1>2. CASE Go(r, "rotating")
  <2>1. PICK x : x = [req[r] EXCEPT !.pc = "rotating"]
    OBVIOUS
  <2>2. x.pc = "rotating"
    BY <1>0, <2>1 DEF Request
  <2>3. Knows(x)
    BY <2>2 DEF Knows
  <2> QED BY <1>0, <1>2, <2>1, <2>2, <2>3, StepAlone DEF Go
<1>3. CASE req' = [req EXCEPT ![r] = [@ EXCEPT !.pc = "begin", !.op = "reuse"]]
  <2>1. PICK x : x = [req[r] EXCEPT !.pc = "begin", !.op = "reuse"]
    OBVIOUS
  <2>2. x.pc = "begin" /\ x.op = "reuse"
    BY <1>0, <2>1 DEF Request
  <2>3. Knows(x)
    BY <2>2 DEF Knows
  <2> QED BY <1>0, <1>3, <2>1, <2>2, <2>3, StepAlone
<1> QED BY <1>1, <1>2, <1>3 DEF Refreshing, RotateUpdate, RotateCommit, UsedAgain

(* A session is revoked, another may open: the request is alone, and the   *)
(* session's sockets will be told.                                         *)
LEMMA RevokedAlone ==
  ASSUME IInv, Rest, Alone, NEW r \in Slots, At(r, "commit"), NEW x,
         NEW d \in Ids, d = req[r].s,
         req' = [req EXCEPT ![r] = x], x.pc \in {"after", "idle"},
         cmd' = Announced(d), Revoked(d)',
         \A s \in Ids \ {d} :
           sess'[s] = sess[s] \/ (sess[s].st = "none" /\ Live(s)')
  PROVE  Alone'
<1>0. /\ Knows(req[r]) /\ cmd \in [Ids -> {"none", "pending", "done"}]
      /\ \A k \in Slots : At(k, "connected") => Known(req[k].s)
  BY DEF IInv, Fits, Known, Alone, Rest, At
<1>1. req'[r] = x /\ \A o \in Slots \ {r} : req'[o] = req[o] /\ ~Busy(o)
  BY DEF IInv, Shape, Alone, OneAtWork, Busy, At
<1>2. OneAtWork' /\ \A o \in Slots : Knows(req[o])'
  BY <1>1 DEF OneAtWork, Knows, Busy
<1>3. /\ \A s \in Ids \ {d} : cmd'[s] = cmd[s]
      /\ cmd'[d] = IF cmd[d] = "none" THEN "pending" ELSE cmd[d]
  BY <1>0 DEF Announced
<1>4. Told'
  <2> SUFFICES ASSUME NEW s \in Ids, cmd'[s] # "none", s # d PROVE sess'[s].st = "revoked"
    BY DEF Told, Revoked
  <2>1. sess[s].st = "revoked"
    BY <1>3 DEF Alone, Told, Revoked
  <2> QED BY <2>1
<1>5. ASSUME NEW k \in Slots, At(k, "connected")'
      PROVE  sess'[req'[k].s].st = "live" \/ cmd'[req'[k].s] = "pending"
  <2>1. k # r /\ req'[k] = req[k] /\ At(k, "connected")
    BY <1>1, <1>5 DEF At
  <2>2. PICK s \in Ids : s = req[k].s /\ sess[s].st # "none"
    BY <1>0, <2>1 DEF Known
  <2>3. sess[s].st = "live" \/ cmd[s] = "pending"
    BY <2>1, <2>2 DEF Alone, Followed, Live
  <2>4. CASE s = d
    BY <1>3, <2>1, <2>2, <2>3, <2>4 DEF Alone, Told, Revoked
  <2>5. CASE s # d
    BY <1>3, <2>1, <2>2, <2>3, <2>5 DEF Live
  <2> QED BY <2>4, <2>5
<1>6. Followed'
  BY <1>5 DEF Followed, Live
<1> QED BY <1>2, <1>4, <1>6 DEF Alone

LEMMA CommitAlone ==
  ASSUME IInv, Rest, Alone, NEW r \in Slots, RevokeCommit(r) \/ ReplaceCommit(r)
  PROVE  Alone'
<1>0. req[r] \in Request /\ Fits(req[r]) /\ At(r, "commit") /\ sess \in [Ids -> Row]
  BY DEF IInv, Shape, RevokeCommit, ReplaceCommit
<1>1. PICK d \in Ids : d = req[r].s /\ sess[d].st # "none"
  BY <1>0 DEF Fits, Known, At
<1>2. PICK x : x = [req[r] EXCEPT !.pc = "after", !.touch = {}]
  OBVIOUS
<1>3. x.pc = "after" /\ x.s = d
  BY <1>0, <1>1, <1>2 DEF Request
<1>4. CASE RevokeCommit(r)
  <2>1. /\ sess'[d].st = "revoked" /\ sess'[d].kind = sess[d].kind
        /\ \A s \in Ids \ {d} : sess'[s] = sess[s]
    <3>1. CASE req[r].ok
      <4>1. sess' = [sess EXCEPT ![d] = [@ EXCEPT !.st = "revoked", !.reason = req[r].op]]
        BY <1>1, <1>4, <3>1 DEF RevokeCommit
      <4> QED BY <1>0, <1>1, <4>1 DEF Row
    <3>2. CASE ~req[r].ok
      <4>1. sess' = sess /\ sess[d].st = "revoked"
        BY <1>0, <1>1, <1>4, <3>2 DEF RevokeCommit, Fits, Revoked, At
      <4> QED BY <4>1
    <3> QED BY <3>1, <3>2
  <2>2. req' = [req EXCEPT ![r] = x] /\ UNCHANGED <<cache, faults>> /\ cmd' = Announced(d)
    BY <1>1, <1>2, <1>4 DEF RevokeCommit
  <2>3. Revoked(d)'
    BY <2>1 DEF Revoked
  <2> QED BY <1>0, <1>1, <1>3, <2>1, <2>2, <2>3, RevokedAlone
<1>5. CASE ReplaceCommit(r)
  <2>1. PICK n \in Ids :
          /\ NewId(n)
          /\ sess' = [sess EXCEPT
               ![d] = [@ EXCEPT !.st = "revoked", !.reason = "replaced", !.by = n],
               ![n] = Opened("operational")]
    BY <1>1, <1>5 DEF ReplaceCommit
  <2>2. sess[n].st = "none" /\ n # d /\ Opened("operational").st = "live"
    BY <1>1, <2>1 DEF NewId, Opened, NoRow
  <2>3. /\ sess'[d].st = "revoked" /\ sess'[d].kind = sess[d].kind
        /\ \A s \in Ids \ {d} :
             sess'[s] = sess[s] \/ (sess[s].st = "none" /\ sess'[s].st = "live")
    <3>1. sess'[n].st = "live" /\ \A s \in Ids \ {d, n} : sess'[s] = sess[s]
      BY <1>0, <2>1, <2>2
    <3>2. sess'[d] = [sess[d] EXCEPT !.st = "revoked", !.reason = "replaced", !.by = n]
      BY <1>0, <2>1, <2>2
    <3>3. sess[d] \in Row
      BY <1>0
    <3>4. sess'[d].st = "revoked" /\ sess'[d].kind = sess[d].kind
      BY <3>2, <3>3 DEF Row
    <3> QED BY <2>2, <3>1, <3>4
  <2>4. UNCHANGED <<cache, faults>> /\ cmd' = Announced(d)
    BY <1>1, <1>5 DEF ReplaceCommit
  <2>5. \/ req[r].op = "enroll" /\ req' = [req EXCEPT ![r] = NoRequest]
        \/ req' = [req EXCEPT ![r] = x]
    BY <1>2, <1>5 DEF ReplaceCommit, Answer
  <2>6. NoRequest.pc = "idle"
    BY DEF NoRequest
  <2>7. /\ Revoked(d)'
        /\ \A s \in Ids \ {d} : sess'[s] = sess[s] \/ (sess[s].st = "none" /\ Live(s)')
    BY <2>3 DEF Revoked, Live
  <2> QED BY <1>0, <1>1, <1>3, <2>3, <2>4, <2>5, <2>6, <2>7, RevokedAlone
<1> QED BY <1>4, <1>5

LEMMA EndingAlone ==
  ASSUME IInv, Rest, Alone, NEW r \in Slots, Ending(r)
  PROVE  Alone'
<1>0. req[r] \in Request /\ Fits(req[r]) /\ Knows(req[r]) /\ NoRequest.pc = "idle"
  BY DEF IInv, Shape, Alone, NoRequest
<1>1. ASSUME NEW s \in Ids, RemoteTarget(r, s) PROVE Alone'
  <2>1. UNCHANGED <<sess, cmd>> /\ Busy(r)
    BY <1>1 DEF RemoteTarget, rows, At, Busy
  <2>2. PICK x : x = [req[r] EXCEPT !.pc = "begin", !.op = "remote", !.s = s]
    OBVIOUS
  <2>3. x.pc = "begin" /\ x.op = "remote"
    BY <1>0, <2>2 DEF Request
  <2>4. Knows(x)
    BY <2>3 DEF Knows
  <2>5. Answer(r) \/ req' = [req EXCEPT ![r] = x]
    BY <1>1, <2>2 DEF RemoteTarget
  <2> QED BY <2>1, <2>3, <2>4, <2>5, AnswerAlone, StepAlone
<1>2. ASSUME NEW op \in Replaces, ReplaceRead(r, op) PROVE Alone'
  <2>1. UNCHANGED <<sess, cmd>> /\ Busy(r)
    BY <1>2 DEF ReplaceRead, rows, At, Busy
  <2>2. PICK x : x = [req[r] EXCEPT !.pc = "begin", !.op = op]
    OBVIOUS
  <2>3. x.pc = "begin" /\ x.op = op /\ x.s = req[r].s
    BY <1>0, <2>2 DEF Request
  <2>4. Knows(x)
    BY <1>2, <2>3 DEF Knows, ReplaceRead
  <2>5. Answer(r) \/ req' = [req EXCEPT ![r] = x]
    BY <1>2, <2>2 DEF ReplaceRead
  <2> QED BY <2>1, <2>3, <2>4, <2>5, AnswerAlone, StepAlone
<1>3. CASE UpdateSession(r)
  <2>1. UNCHANGED <<sess, cmd>> /\ At(r, "begin")
    BY <1>3 DEF UpdateSession, rows
  <2>2. PICK ok, touch :
          req' = [req EXCEPT ![r] = [@ EXCEPT !.pc = "commit", !.ok = ok, !.touch = touch]]
    BY <1>3 DEF UpdateSession
  <2>3. PICK x : x = [req[r] EXCEPT !.pc = "commit", !.ok = ok, !.touch = touch]
    OBVIOUS
  <2>4. x.pc = "commit" /\ x.op = req[r].op /\ x.s = req[r].s
    BY <1>0, <2>3 DEF Request
  <2>5. Knows(x) /\ Busy(r)
    BY <1>0, <2>1, <2>4 DEF Knows, At, Busy
  <2> QED BY <2>1, <2>2, <2>3, <2>4, <2>5, StepAlone
<1>4. CASE Deadlock(r)
  <2>1. UNCHANGED <<sess, cmd>> /\ Answer(r)
    BY <1>4 DEF Deadlock, rows
  <2> QED BY <2>1, AnswerAlone
<1>5. CASE CacheRevoked(r)
  <2>1. At(r, "after") /\ UNCHANGED <<sess, cmd>>
    BY <1>5 DEF CacheRevoked, rows
  <2>2. PICK x : req' = [req EXCEPT ![r] = x] /\ x.pc \in {"family", "idle"}
    <3>1. CASE Answer(r)
      BY <1>0, <3>1 DEF Answer
    <3>2. CASE Go(r, "family")
      <4>1. PICK x : x = [req[r] EXCEPT !.pc = "family"]
        OBVIOUS
      <4>2. x.pc = "family"
        BY <1>0, <4>1 DEF Request
      <4> QED BY <3>2, <4>1, <4>2 DEF Go
    <3> QED BY <1>5, <3>1, <3>2 DEF CacheRevoked
  <2>3. Knows(x)
    BY <2>2 DEF Knows
  <2> QED BY <2>1, <2>2, <2>3, StepAlone DEF Busy, At
<1>6. CASE FamilyUpdate(r)
  <2>1. UNCHANGED <<sess, cmd>> /\ Busy(r)
    BY <1>6 DEF FamilyUpdate, rows, At, Busy
  <2>2. PICK x : x = [req[r] EXCEPT !.pc = "close", !.touch = FreshOf(req[r].s)]
    OBVIOUS
  <2>3. x.pc = "close"
    BY <1>0, <2>2 DEF Request
  <2>4. Knows(x)
    BY <2>3 DEF Knows
  <2> QED BY <1>6, <2>1, <2>2, <2>3, <2>4, StepAlone DEF FamilyUpdate
<1>7. CASE FamilyCommit(r)
  BY <1>7, AnswerAlone DEF FamilyCommit, At
<1> QED BY <1>1, <1>2, <1>3, <1>4, <1>5, <1>6, <1>7, CommitAlone DEF Ending

LEMMA LoginAlone ==
  ASSUME IInv, Rest, Alone, NEW kind, Login(kind)
  PROVE  Alone'
<1>1. PICK n \in Ids : NewId(n) /\ sess' = [sess EXCEPT ![n] = Opened(kind)]
  BY DEF Login
<1>2. sess[n].st = "none" /\ Opened(kind).st = "live" /\ UNCHANGED <<cmd, cache, req, faults>>
  BY <1>1 DEF NewId, Opened, NoRow, Login
<1>3. \A s \in Ids : s # n => sess'[s] = sess[s]
  BY <1>1 DEF IInv, Shape
<1>4. sess'[n].st = "live"
  BY <1>1, <1>2 DEF IInv, Shape
<1>5. \A r \in Slots : req[r].pc # "idle" => req[r].s \in Ids \ {n}
  BY <1>2 DEF IInv, Fits, Known
<1>6. \A r \in Slots : Knows(req[r])'
  BY <1>2, <1>3, <1>5 DEF Alone, Knows, Live
<1>7. OneAtWork' /\ Followed' /\ Told'
  BY <1>2, <1>3, <1>5 DEF Alone, OneAtWork, Followed, Told, Busy, At, Live, Revoked
<1> QED BY <1>6, <1>7 DEF Alone

LEMMA NextAlone == SInv /\ [Next]_vars => SInv'
<1> SUFFICES ASSUME SInv, [Next]_vars PROVE SInv'
  OBVIOUS
<1>1. IInv' /\ Rest' /\ IInv /\ Rest
  BY NextInv, RestInv DEF SInv
<1>2. world' = world
  BY DEF Next, vars, Login, Start, GuardRead, HandshakeStart, Logout, RefreshRead, Guarding,
     StateCached, StateRead, StateFill, Ping, Socket, SocketRow, FetchSockets, JoinRoom,
     SocketEnds, Refreshing, RotateUpdate, RotateCommit, UsedAgain, Ending, RemoteTarget,
     ReplaceRead, UpdateSession, RevokeCommit, ReplaceCommit, Deadlock, CacheRevoked,
     FamilyUpdate, FamilyCommit, Dies, DisconnectSession, CacheExpires, TokenAges
<1> SUFFICES ASSUME Sequential PROVE Alone'
  BY <1>1, <1>2 DEF SInv, Sequential
<1>3. Alone
  BY DEF SInv
<1>4. ASSUME UNCHANGED <<sess, cmd, req>> PROVE Alone'
  BY <1>3, <1>4 DEF Alone, OneAtWork, Knows, Followed, Told, Busy, At, Live, Revoked
<1>5. CASE UNCHANGED vars
  BY <1>4, <1>5 DEF vars, rows
<1>6. ASSUME NEW r \in Slots, Dies(r) PROVE Alone'
  BY <1>1, <1>3, <1>6, AnswerAlone DEF Dies, rows
<1>7. ASSUME NEW s \in Ids, DisconnectSession(s) PROVE Alone'
  <2>1. /\ UNCHANGED sess /\ cmd' = [cmd EXCEPT ![s] = "done"]
        /\ cmd[s] = "pending" /\ cmd \in [Ids -> {"none", "pending", "done"}]
        /\ \A k \in Slots : req'[k] = IF k \in Connected(s) THEN NoRequest ELSE req[k]
    BY <1>1, <1>7 DEF DisconnectSession, Rest
  <2>2. Told'
    BY <1>3, <2>1 DEF Alone, Told, Revoked
  <2>3. \A k \in Slots : Busy(k) => req'[k] = req[k]
    BY <2>1 DEF Connected, Busy, At
  <2>4. ASSUME NEW k \in Slots, At(k, "connected")' PROVE cmd'[req[k].s] = cmd[req[k].s]
    <3>1. k \notin Connected(s) /\ At(k, "connected")
      BY <2>1, <2>4 DEF At, NoRequest
    <3>2. req[k].s # s /\ req[k].s \in Ids
      BY <1>1, <3>1 DEF Connected, IInv, Fits, Known, At
    <3> QED BY <2>1, <3>2
  <2> QED BY <1>1, <1>3, <2>1, <2>2, <2>3, <2>4, CutAlone
<1>8. ASSUME NEW s \in Ids, CacheExpires(s) PROVE Alone'
  BY <1>4, <1>8 DEF CacheExpires, rows
<1>9. ASSUME NEW t \in Tokens, TokenAges(t) PROVE Alone'
  BY <1>4, <1>9 DEF TokenAges
<1> QED
  BY <1>1, <1>3, <1>5, <1>6, <1>7, <1>8, <1>9, LoginAlone, StartAlone, GuardingAlone,
     SocketAlone, RefreshingAlone, EndingAlone DEF Next

THEOREM SequentialInvariant == Spec => []SInv
<1>1. Init => SInv
  <2>1. Init => Rest /\ Alone
    BY ConstantsOK DEF Init, Rest, Alone, OneAtWork, Knows, Followed, Told, Busy, At,
       NoRequest
  <2> QED BY <2>1, InitInv DEF SInv
<1> QED BY <1>1, NextAlone, PTL DEF Spec

(* Requests one by one, whatever fails: a socket whose session is over has *)
(* a disconnect command on its way.                                        *)
THEOREM SocketsFollowAlways == Spec => []SocketsFollow
<1>1. SInv => SocketsFollow
  BY DEF SInv, Alone, Followed, Connected, SocketsFollow
<1> QED BY <1>1, SequentialInvariant, PTL

-----------------------------------------------------------------------------
(* What becomes of the cache, step by step. *)

(* A slot whose sockets a handshake is about to cut holds none, or one. *)
Remembered ==
  \A r, k \in Slots : (At(r, "join") /\ k \in req[r].touch) => ~Busy(k)

(* A request goes on, arrives, or leaves; the others stay where they are.  *)
LEMMA MoveRemembered ==
  ASSUME Remembered, NEW r \in Slots,
         \A o \in Slots \ {r} : req'[o] = req[o],
         At(r, "join")' => At(r, "fetch") /\ req'[r].touch \subseteq Connected(req[r].s),
         Busy(r) \/ ~Busy(r)' \/ \A o \in Slots : r \notin req[o].touch
  PROVE  Remembered'
<1> SUFFICES ASSUME NEW o \in Slots, NEW k \in Slots, At(o, "join")', k \in req'[o].touch
             PROVE  ~Busy(k)'
  BY DEF Remembered
<1>1. CASE o = r
  BY <1>1 DEF Connected, At, Busy
<1>2. CASE o # r
  <2>1. At(o, "join") /\ k \in req[o].touch /\ ~Busy(k)
    BY <1>2 DEF Remembered, At
  <2> QED BY <2>1 DEF Busy
<1> QED BY <1>1, <1>2

(* Some end, the others stay where they are. *)
LEMMA CutRemembered ==
  ASSUME Remembered, \A k \in Slots : req'[k] = req[k] \/ ~Busy(k)'
  PROVE  Remembered'
BY DEF Remembered, At, Busy

(* What a step of a request does to where requests are: others stay, it    *)
(* joins no room, and it was there or nobody remembers it.                 *)
Moves(r) ==
  /\ \A o \in Slots \ {r} : req'[o] = req[o]
  /\ ~At(r, "join")'
  /\ Busy(r) \/ ~Busy(r)' \/ \A o \in Slots : r \notin req[o].touch

LEMMA MovesTo ==
  ASSUME IInv, NEW r \in Slots, NEW x, req' = [req EXCEPT ![r] = x], x.pc # "join",
         Busy(r) \/ x.pc = "idle" \/ \A o \in Slots : r \notin req[o].touch
  PROVE  Moves(r)
<1>1. req'[r] = x /\ \A o \in Slots \ {r} : req'[o] = req[o]
  BY DEF IInv, Shape
<1> QED BY <1>1 DEF Moves, At, Busy

LEMMA AnswerMoves ==
  ASSUME IInv, NEW r \in Slots, Answer(r) PROVE Moves(r)
<1>1. NoRequest.pc = "idle"
  BY DEF NoRequest
<1> QED BY <1>1, MovesTo DEF Answer

LEMMA GoMoves ==
  ASSUME IInv, NEW r \in Slots, Busy(r), NEW pc, Go(r, pc), pc # "join" PROVE Moves(r)
<1>1. PICK x : x = [req[r] EXCEPT !.pc = pc]
  OBVIOUS
<1>2. x.pc = pc
  BY <1>1 DEF IInv, Shape, Request
<1> QED BY <1>1, <1>2, MovesTo DEF Go

LEMMA StartMoves ==
  ASSUME IInv, NEW r \in Slots, Start(r) PROVE Moves(r)
<1>1. ASSUME NEW x, Arrive(r, x), x.pc # "join" PROVE Moves(r)
  BY <1>1, MovesTo DEF Arrive
<1>2. ASSUME NEW s \in Ids, GuardRead(r, s) PROVE Moves(r)
  BY <1>1, <1>2 DEF GuardRead, NoRequest
<1>3. ASSUME NEW s \in Ids, HandshakeStart(r, s) PROVE Moves(r)
  BY <1>1, <1>3 DEF HandshakeStart, NoRequest
<1>4. ASSUME NEW s \in Ids, Logout(r, s) PROVE Moves(r)
  BY <1>1, <1>4 DEF Logout, NoRequest
<1>5. ASSUME NEW t \in Tokens, RefreshRead(r, t) PROVE Moves(r)
  BY <1>1, <1>5 DEF RefreshRead, NoRequest
<1> QED BY <1>2, <1>3, <1>4, <1>5 DEF Start

LEMMA GuardingMoves ==
  ASSUME IInv, NEW r \in Slots, Guarding(r) PROVE Moves(r) /\ Busy(r)
<1>1. Busy(r)
  BY DEF Guarding, StateCached, StateRead, StateFill, Ping, At, Busy
<1>2. ASSUME NEW st, Verdict(r, st) PROVE Moves(r)
  BY <1>1, <1>2, AnswerMoves, GoMoves DEF Verdict
<1>3. CASE StateRead(r)
  <2>1. PICK x : x = [req[r] EXCEPT !.pc = "fill", !.seen = State(req[r].s)]
    OBVIOUS
  <2>2. x.pc = "fill"
    BY <2>1 DEF IInv, Shape, Request
  <2> QED BY <1>1, <1>3, <2>1, <2>2, MovesTo DEF StateRead
<1> QED BY <1>1, <1>2, <1>3, AnswerMoves DEF Guarding, StateCached, StateFill, Ping

LEMMA RefreshingMoves ==
  ASSUME IInv, NEW r \in Slots, Refreshing(r) PROVE Moves(r)
<1>1. Busy(r)
  BY DEF Refreshing, RotateUpdate, RotateCommit, UsedAgain, At, Busy
<1>2. CASE req' = [req EXCEPT ![r] = [@ EXCEPT !.pc = "begin", !.op = "reuse"]]
  <2>1. PICK x : x = [req[r] EXCEPT !.pc = "begin", !.op = "reuse"]
    OBVIOUS
  <2>2. x.pc = "begin"
    BY <2>1 DEF IInv, Shape, Request
  <2> QED BY <1>1, <1>2, <2>1, <2>2, MovesTo
<1> QED
  BY <1>1, <1>2, AnswerMoves, GoMoves DEF Refreshing, RotateUpdate, RotateCommit, UsedAgain

LEMMA EndingMoves ==
  ASSUME IInv, NEW r \in Slots, Ending(r)
  PROVE  Moves(r)
<1>0. req[r] \in Request
  BY DEF IInv, Shape
<1>1. ASSUME NEW s \in Ids, RemoteTarget(r, s) PROVE Moves(r)
  <2>1. PICK x : x = [req[r] EXCEPT !.pc = "begin", !.op = "remote", !.s = s]
    OBVIOUS
  <2>2. x.pc = "begin" /\ Busy(r)
    BY <1>0, <1>1, <2>1 DEF Request, RemoteTarget, At, Busy
  <2> QED BY <1>1, <2>1, <2>2, AnswerMoves, MovesTo DEF RemoteTarget
<1>2. ASSUME NEW op \in Replaces, ReplaceRead(r, op) PROVE Moves(r)
  <2>1. PICK x : x = [req[r] EXCEPT !.pc = "begin", !.op = op]
    OBVIOUS
  <2>2. x.pc = "begin" /\ Busy(r)
    BY <1>0, <1>2, <2>1 DEF Request, ReplaceRead, At, Busy
  <2> QED BY <1>2, <2>1, <2>2, AnswerMoves, MovesTo DEF ReplaceRead
<1>3. CASE UpdateSession(r)
  <2>1. PICK x : x = [req[r] EXCEPT !.pc = "commit",
                        !.ok = (req[r].op \in Replaces \/ Live(req[r].s)),
                        !.touch = FreshOf(req[r].s)]
    OBVIOUS
  <2>2. x.pc = "commit" /\ Busy(r)
    BY <1>0, <1>3, <2>1 DEF Request, UpdateSession, At, Busy
  <2> QED BY <1>3, <2>1, <2>2, MovesTo DEF UpdateSession
<1>4. CASE RevokeCommit(r) \/ ReplaceCommit(r)
  <2>1. PICK x : x = [req[r] EXCEPT !.pc = "after", !.touch = {}]
    OBVIOUS
  <2>2. x.pc = "after" /\ Busy(r)
    BY <1>0, <1>4, <2>1 DEF Request, RevokeCommit, ReplaceCommit, At, Busy
  <2>3. Answer(r) \/ req' = [req EXCEPT ![r] = x]
    BY <1>4, <2>1 DEF RevokeCommit, ReplaceCommit
  <2> QED BY <2>2, <2>3, AnswerMoves, MovesTo
<1>5. CASE Deadlock(r)
  BY <1>5, AnswerMoves DEF Deadlock
<1>6. CASE CacheRevoked(r)
  BY <1>6, AnswerMoves, GoMoves DEF CacheRevoked, At, Busy
<1>7. CASE FamilyUpdate(r)
  <2>1. PICK x : x = [req[r] EXCEPT !.pc = "close", !.touch = FreshOf(req[r].s)]
    OBVIOUS
  <2>2. x.pc = "close" /\ Busy(r)
    BY <1>0, <1>7, <2>1 DEF Request, FamilyUpdate, At, Busy
  <2> QED BY <1>7, <2>1, <2>2, MovesTo DEF FamilyUpdate
<1>8. CASE FamilyCommit(r)
  BY <1>8, AnswerMoves DEF FamilyCommit
<1> QED BY <1>1, <1>2, <1>3, <1>4, <1>5, <1>6, <1>7, <1>8 DEF Ending

(* What a step must not do to the cache: CacheFollows. *)
Follows ==
  \A s \in Ids : Stale(s)' =>
    /\ ~Stale(s) => \E r \in Slots :
         /\ req[r].s = s
         /\ \/ Leaves(r, "fill") /\ ~req[r].late /\ ~Sequential
            \/ Leaves(r, "commit") /\ (At(r, "after")' \/ req[r].op = "enroll")
    /\ (\E r \in Slots : Leaves(r, "after") /\ req[r].s = s) => faults' > faults

(* A step that makes nothing stale and ends no correction. *)
LEMMA CalmFollows ==
  ASSUME \A s \in Ids : Stale(s)' => Stale(s), \A k \in Slots : ~Leaves(k, "after")
  PROVE  Follows
BY DEF Follows

LEMMA MovesFollow ==
  ASSUME NEW r \in Slots, Moves(r), UNCHANGED <<sess, cache>>, ~At(r, "after")
  PROVE  Follows
<1>1. \A s \in Ids : Stale(s)' => Stale(s)
  BY DEF Stale, Live
<1>2. \A k \in Slots : ~Leaves(k, "after")
  BY DEF Moves, Leaves, At
<1> QED BY <1>1, <1>2, CalmFollows

LEMMA FaultRises == ASSUME Rest, Fault PROVE faults' > faults
  BY ConstantsOK DEF Rest, Fault

LEMMA FillFollows ==
  ASSUME SInv, NEW r \in Slots, StateFill(r) PROVE Follows
<1>1. /\ At(r, "fill") /\ Store(req[r].s, req[r].seen) /\ UNCHANGED sess
      /\ Fits(req[r]) /\ cache \in [Ids -> {"none", "active", "revoked"}]
      /\ Sequential => Knows(req[r])
  BY DEF StateFill, rows, SInv, IInv, Shape, Alone
<1>2. Moves(r)
  BY GuardingMoves DEF Guarding, SInv
<1>3. ~At(r, "fill")'
  <2>1. NoRequest.pc = "idle" /\ req \in [Slots -> Request]
    BY DEF NoRequest, SInv, IInv, Shape
  <2> QED
    BY <2>1 DEF StateFill, Verdict, Answer, Go, At, Request
<1>4. \A k \in Slots : ~Leaves(k, "after")
  BY <1>1, <1>2 DEF Moves, Leaves, At
<1>5. ASSUME NEW s \in Ids, Stale(s)', ~Stale(s)
      PROVE  req[r].s = s /\ ~req[r].late /\ ~Sequential
  <2>1. ~Live(s) /\ cache[s] # "active" /\ cache'[s] = "active"
    BY <1>1, <1>5 DEF Stale, Live
  <2>2. req[r].s = s /\ req[r].seen = "active"
    BY <1>1, <2>1 DEF Store
  <2> QED BY <1>1, <2>1, <2>2 DEF Fits, Knows, At
<1> QED BY <1>1, <1>3, <1>4, <1>5 DEF Follows, Leaves

LEMMA CorrectionFollows ==
  ASSUME SInv, NEW r \in Slots, CacheRevoked(r) PROVE Follows
<1>1. /\ Store(req[r].s, "revoked") /\ UNCHANGED sess
      /\ cache \in [Ids -> {"none", "active", "revoked"}] /\ Rest
  BY DEF CacheRevoked, rows, SInv, IInv, Shape
<1>2. Moves(r)
  BY EndingMoves DEF Ending, SInv
<1>3. ASSUME NEW s \in Ids, Stale(s)' PROVE Stale(s) /\ (s # req[r].s \/ faults' > faults)
  <2>1. ~Live(s) /\ cache'[s] = "active"
    BY <1>1, <1>3 DEF Stale, Live
  <2> QED BY <1>1, <2>1, FaultRises DEF Store, Stale
<1>4. \A k \in Slots : Leaves(k, "after") => k = r
  BY <1>2 DEF Moves, Leaves, At
<1> QED BY <1>3, <1>4 DEF Follows

LEMMA DeathFollows ==
  ASSUME SInv, NEW r \in Slots, Dies(r) PROVE Follows
<1>1. UNCHANGED <<sess, cache>> /\ faults' > faults
  BY FaultRises DEF Dies, rows, SInv
<1>2. \A s \in Ids : Stale(s)' => Stale(s)
  BY <1>1 DEF Stale, Live
<1> QED BY <1>1, <1>2 DEF Follows

LEMMA CommitFollows ==
  ASSUME SInv, NEW r \in Slots, RevokeCommit(r) \/ ReplaceCommit(r) PROVE Follows
<1>1. /\ At(r, "commit") /\ UNCHANGED cache /\ sess \in [Ids -> Row]
      /\ req \in [Slots -> Request]
  BY DEF RevokeCommit, ReplaceCommit, SInv, IInv, Shape
<1>2. Moves(r)
  BY EndingMoves DEF Ending, SInv
<1>3. At(r, "after")' \/ (req[r].op = "enroll" /\ ~At(r, "commit")')
  <2>1. NoRequest.pc = "idle"
    BY DEF NoRequest
  <2>2. PICK x : x = [req[r] EXCEPT !.pc = "after", !.touch = {}]
    OBVIOUS
  <2>3. x.pc = "after"
    BY <1>1, <2>2 DEF Request
  <2> QED BY <1>1, <2>1, <2>2, <2>3 DEF RevokeCommit, ReplaceCommit, Answer, At
<1>4. \A s \in Ids : s # req[r].s => sess'[s] = sess[s] \/ sess'[s].st = "live"
  <2>1. CASE RevokeCommit(r)
    BY <1>1, <2>1 DEF RevokeCommit
  <2>2. CASE ReplaceCommit(r)
    <3>1. Opened("operational").st = "live"
      BY DEF Opened, NoRow
    <3> QED BY <1>1, <2>2, <3>1 DEF ReplaceCommit
  <2> QED BY <2>1, <2>2
<1>5. ASSUME NEW s \in Ids, Stale(s)', ~Stale(s) PROVE req[r].s = s
  BY <1>1, <1>4, <1>5 DEF Stale, Live
<1>6. \A k \in Slots : ~Leaves(k, "after")
  BY <1>1, <1>2 DEF Moves, Leaves, At
<1>7. Leaves(r, "commit")
  BY <1>1, <1>3 DEF Leaves, At
<1> QED BY <1>3, <1>5, <1>6, <1>7 DEF Follows

LEMMA SocketFollows ==
  ASSUME SInv, Remembered, NEW r \in Slots, Socket(r) PROVE Remembered' /\ Follows
<1>0. req \in [Slots -> Request] /\ NoRequest.pc = "idle" /\ IInv
  BY DEF SInv, IInv, Shape, NoRequest
<1>1. UNCHANGED <<sess, cache>>
  BY DEF Socket, SocketRow, FetchSockets, JoinRoom, SocketEnds, rows
<1>2. CASE SocketRow(r) \/ SocketEnds(r)
  <2>1. Moves(r)
    <3>1. CASE SocketRow(r)
      BY <1>0, <3>1, AnswerMoves, GoMoves DEF SocketRow, At, Busy
    <3>2. CASE SocketEnds(r)
      BY <1>0, <3>2, AnswerMoves DEF SocketEnds
    <3> QED BY <1>2, <3>1, <3>2
  <2>2. ~At(r, "after")
    BY <1>2 DEF SocketRow, SocketEnds, At
  <2> QED BY <1>1, <2>1, <2>2, MovesFollow, MoveRemembered DEF Moves
<1>3. CASE FetchSockets(r)
  <2>1. /\ At(r, "fetch") /\ req'[r].touch = Connected(req[r].s) /\ req'[r].pc = "join"
        /\ \A o \in Slots \ {r} : req'[o] = req[o]
    BY <1>0, <1>3 DEF FetchSockets, Request
  <2>2. Remembered'
    BY <2>1, MoveRemembered DEF Busy, At
  <2>3. \A k \in Slots : ~Leaves(k, "after")
    BY <2>1 DEF Leaves, At
  <2> QED BY <1>1, <2>2, <2>3, CalmFollows DEF Stale, Live
<1>4. CASE JoinRoom(r)
  <2>1. /\ At(r, "join") /\ req'[r].pc = "connected"
        /\ \A k \in Slots \ {r} :
             req'[k] = IF k \in req[r].touch THEN NoRequest ELSE req[k]
    <3>1. PICK x : x = [req[r] EXCEPT !.pc = "connected", !.touch = {}]
      OBVIOUS
    <3>2. x.pc = "connected"
      BY <1>0, <3>1 DEF Request
    <3>3. /\ req'[r] = x
          /\ \A k \in Slots \ {r} :
               req'[k] = IF k \in req[r].touch THEN NoRequest ELSE req[k]
      BY <1>4, <3>1 DEF JoinRoom
    <3> QED BY <1>4, <3>2, <3>3 DEF JoinRoom
  <2>2. Remembered'
    BY <1>0, <2>1, CutRemembered DEF Busy, At
  <2>3. \A k \in Slots : ~Leaves(k, "after")
    BY <2>1 DEF Remembered, Leaves, Busy, At
  <2> QED BY <1>1, <2>2, <2>3, CalmFollows DEF Stale, Live
<1> QED BY <1>2, <1>3, <1>4 DEF Socket

(* Each step of the program: what slots remember, and what the cache does. *)
LEMMA NextFollows ==
  SInv /\ Remembered /\ [Next]_vars => Remembered' /\ (Follows \/ UNCHANGED vars)
<1> SUFFICES ASSUME SInv, Remembered, [Next]_vars, ~UNCHANGED vars
             PROVE  Remembered' /\ Follows
  BY DEF Remembered, Busy, At, vars
<1>0. IInv /\ Rest
  BY DEF SInv
<1>1. ASSUME NEW r \in Slots, Moves(r) PROVE Remembered'
  BY <1>1, MoveRemembered DEF Moves
<1>2. ASSUME UNCHANGED req PROVE Remembered' /\ \A k \in Slots : ~Leaves(k, "after")
  BY <1>2 DEF Remembered, Busy, At, Leaves
<1>3. ASSUME NEW r \in Slots, Start(r) PROVE Remembered' /\ Follows
  <2>1. UNCHANGED <<sess, cache>> /\ ~At(r, "after")
    BY <1>3 DEF Start, GuardRead, HandshakeStart, Logout, RefreshRead, Arrive, rows, At
  <2> QED BY <1>0, <1>1, <1>3, <2>1, StartMoves, MovesFollow
<1>4. ASSUME NEW r \in Slots, Guarding(r) PROVE Remembered' /\ Follows
  <2>1. ASSUME StateFill(r) PROVE Follows
    BY <2>1, FillFollows
  <2>2. ASSUME StateCached(r) \/ StateRead(r) \/ Ping(r) PROVE Follows
    <3>1. UNCHANGED <<sess, cache>> /\ ~At(r, "after")
      BY <2>2 DEF StateCached, StateRead, Ping, rows, At
    <3> QED BY <1>0, <1>4, <3>1, GuardingMoves, MovesFollow
  <2>3. Moves(r)
    BY <1>0, <1>4, GuardingMoves
  <2>4. Follows
    BY <1>4, <2>1, <2>2 DEF Guarding
  <2> QED BY <1>1, <2>3, <2>4
<1>5. ASSUME NEW r \in Slots, Refreshing(r) PROVE Remembered' /\ Follows
  <2>1. UNCHANGED <<sess, cache>> /\ ~At(r, "after")
    BY <1>5 DEF Refreshing, RotateUpdate, RotateCommit, UsedAgain, rows, At
  <2> QED BY <1>0, <1>1, <1>5, <2>1, RefreshingMoves, MovesFollow
<1>6. ASSUME NEW r \in Slots, Ending(r) PROVE Remembered' /\ Follows
  <2>1. ASSUME RevokeCommit(r) \/ ReplaceCommit(r) PROVE Follows
    BY <2>1, CommitFollows
  <2>2. ASSUME CacheRevoked(r) PROVE Follows
    BY <2>2, CorrectionFollows
  <2>3. ASSUME ~(RevokeCommit(r) \/ ReplaceCommit(r) \/ CacheRevoked(r)) PROVE Follows
    <3>1. UNCHANGED <<sess, cache>> /\ ~At(r, "after")
      <4>1. ASSUME Deadlock(r) PROVE ~At(r, "after") /\ UNCHANGED <<sess, cache>>
        BY <4>1 DEF Deadlock, rows, At
      <4> QED
        BY <1>6, <2>3, <4>1 DEF Ending, RemoteTarget, ReplaceRead, UpdateSession,
           FamilyUpdate, FamilyCommit, rows, At
    <3> QED BY <1>0, <1>6, <3>1, EndingMoves, MovesFollow
  <2>4. Moves(r)
    BY <1>0, <1>6, EndingMoves
  <2> QED BY <1>1, <2>1, <2>2, <2>3, <2>4
<1>7. ASSUME NEW r \in Slots, Dies(r) PROVE Remembered' /\ Follows
  BY <1>0, <1>1, <1>7, AnswerMoves, DeathFollows DEF Dies
<1>8. ASSUME NEW s \in Ids, DisconnectSession(s) PROVE Remembered' /\ Follows
  <2>1. /\ UNCHANGED <<sess, cache>> /\ NoRequest.pc = "idle"
        /\ \A k \in Slots : req'[k] = IF k \in Connected(s) THEN NoRequest ELSE req[k]
    BY <1>8 DEF DisconnectSession, NoRequest
  <2>2. Remembered'
    BY <2>1, CutRemembered DEF Busy, At
  <2>3. \A k \in Slots : ~Leaves(k, "after")
    BY <2>1 DEF Connected, Leaves, At
  <2> QED BY <2>1, <2>2, <2>3, CalmFollows DEF Stale, Live
<1>9. ASSUME NEW s \in Ids, CacheExpires(s) PROVE Remembered' /\ Follows
  <2>1. UNCHANGED <<sess, req>> /\ \A u \in Ids : cache'[u] = "active" => cache[u] = "active"
    BY <1>0, <1>9 DEF CacheExpires, rows, IInv, Shape
  <2> QED BY <1>2, <2>1, CalmFollows DEF Stale, Live
<1>10. ASSUME NEW t \in Tokens, TokenAges(t) PROVE Remembered' /\ Follows
  BY <1>2, <1>10, CalmFollows DEF TokenAges, Stale, Live
<1>11. ASSUME NEW kind, Login(kind) PROVE Remembered' /\ Follows
  <2>1. UNCHANGED <<cache, req>> /\ \A s \in Ids : sess'[s] = sess[s] \/ sess'[s].st = "live"
    <3>1. Opened(kind).st = "live"
      BY DEF Opened, NoRow
    <3> QED BY <1>0, <1>11, <3>1 DEF Login, IInv, Shape
  <2> QED BY <1>2, <2>1, CalmFollows DEF Stale, Live
<1> QED
  BY <1>3, <1>4, <1>5, <1>6, <1>7, <1>8, <1>9, <1>10, <1>11, SocketFollows DEF Next

(* However requests overlap and whatever fails: Redis calls a session that *)
(* is over active again only on the word of a request that had overlapped  *)
(* the revocation, and a commit leaves it so only to a request that will   *)
(* correct it, or to an enrolment; the correction is made, unless it or    *)
(* Redis fails.                                                            *)
THEOREM CacheFollowsAlways == Spec => CacheFollows
<1>1. Init => Remembered
  BY DEF Init, Remembered, NoRequest, At
<1>2. SInv /\ Remembered /\ [Next]_vars => [Follows]_vars
  BY NextFollows
<1>3. CacheFollows <=> [][Follows]_vars
  BY DEF CacheFollows, Follows
<1> QED
  BY <1>1, <1>2, <1>3, NextFollows, SequentialInvariant, PTL DEF Spec
=============================================================================
