--------------------------- MODULE RealtimeOutbox ---------------------------
(***************************************************************************)
(* Realtime events, from the row written with the change they announce to  *)
(* the sockets.  Every process runs a dispatcher (realtime-dispatcher.js): *)
(* it claims rows under a lease; a client event's payload is read from the *)
(* database when the event is sent, not when it was written, and goes to   *)
(* the sockets of the process itself; an internal command                  *)
(* (socket.session.disconnect) goes through Redis to every process.  A     *)
(* process does neither without its infrastructure: socket-infrastructure, *)
(* socket-redis.adapter and their shutdown.                                *)
(*                                                                         *)
(* All client events here concern one aggregate, whose state is its        *)
(* version.  Time is left out: leases end and back-offs pass at any time.  *)
(***************************************************************************)
EXTENDS Naturals, FiniteSets

CONSTANTS
  ClientEvents,  \* rows to be written, of either kind
  Commands,
  Nodes,         \* processes
  Nobody,        \* claimedBy = null; no event
  Names,         \* INSTANCE_ID, or proc- and the process id
  Namings,       \* which name each node may have; containers may share one
  MaxFaults      \* bound: crashes, outages, lost leases, errors

Events == ClientEvents \cup Commands

ASSUME ConstantsOK ==
  /\ Nobody \notin Events \cup Names \cup Nodes
  /\ IsFiniteSet(Nodes)
  /\ ClientEvents \cap Commands = {}
  /\ Namings \subseteq [Nodes -> Names]
  /\ MaxFaults \in Nat

VARIABLES
  name,       \* which of Namings this system has; never changes
  version,    \* of the aggregate
  born,       \* the version each client event was written with
  row,        \* RealtimeOutboxEvent rows: status, claimedBy, lease
  node,       \* what each dispatcher's cycle is doing
  infra,      \* getSocketInfrastructureState of each node; "closed": io = null
  broken,     \* nodes that have lost Redis, or begun to stop
  seen,       \* the version last sent to each node's sockets
  ran,        \* how often each event was sent, or command carried out
  faults      \* how many faults there have been

vars == <<name, version, born, row, node, infra, broken, seen, ran, faults>>

Settled == {"emitted", "skipped", "failed"}

Row   == [st : {"none", "pending", "processing"} \cup Settled,
          by : Names \cup {Nobody}, lease : {"none", "live", "expired"}]
Cycle == [pc : {"idle", "next", "publish", "mark", "caught"},
          todo : SUBSET Events, ev : Events \cup {Nobody}, read : Nat,
          out : {"none", "pending"} \cup Settled]

Unclaimed(st) == [st |-> st, by |-> Nobody, lease |-> "none"]
IdleCycle == [pc |-> "idle", todo |-> {}, ev |-> Nobody, read |-> 0, out |-> "none"]

TypeOK ==
  /\ name \in Namings
  /\ version \in Nat
  /\ born \in [ClientEvents -> Nat]
  /\ row \in [Events -> Row]
  /\ node \in [Nodes -> Cycle]
  /\ infra \in [Nodes -> {"ready", "degraded", "stuck", "stopping", "closed"}]
  /\ broken \subseteq Nodes
  /\ seen \in [Nodes -> Nat]
  /\ ran \in [Events -> Nat]
  /\ faults \in 0..MaxFaults

Init ==
  /\ name \in Namings
  /\ version = 0
  /\ born = [e \in ClientEvents |-> 0]
  /\ row = [e \in Events |-> Unclaimed("none")]
  /\ node = [n \in Nodes |-> IdleCycle]
  /\ infra \in [Nodes -> {"ready", "stuck"}]
  /\ broken = {}
  /\ seen = [n \in Nodes |-> 0]
  /\ ran = [e \in Events |-> 0]
  /\ faults = 0

Fault == faults < MaxFaults /\ faults' = faults + 1

-----------------------------------------------------------------------------
(* The row is written in the transaction of the change (safeCreateEvent);  *)
(* its key is new: the time is part of it, or the change happens once.     *)

Change(e) ==
  /\ row[e].st = "none"
  /\ version' = version + 1
  /\ born' = [born EXCEPT ![e] = version + 1]
  /\ row' = [row EXCEPT ![e] = Unclaimed("pending")]
  /\ UNCHANGED <<name, node, infra, broken, seen, ran, faults>>

Command(e) ==
  /\ row[e].st = "none"
  /\ row' = [row EXCEPT ![e] = Unclaimed("pending")]
  /\ UNCHANGED <<name, version, born, node, infra, broken, seen, ran, faults>>

-----------------------------------------------------------------------------
(* The dispatcher's cycle, pollOnce and processEvent. *)

Claimable_Bug(e) ==  \* rows of a process that died are never taken over
  row[e].st = "pending"

Claimable_Any(e) ==  \* a lease that is not over is no protection
  row[e].st \in {"pending", "processing"}

Claimable(e) ==
  \/ row[e].st = "pending"
  \/ row[e].st = "processing" /\ row[e].lease = "expired"

(* One transaction: of the claimable rows those within the limit that no   *)
(* other node holds locked (SKIP LOCKED).  A node that is closed has no    *)
(* timer, any other that is not ready does not poll.                       *)
Poll(n) ==
  \E es \in SUBSET {e \in Events : Claimable(e)} :
    /\ node[n].pc = "idle" /\ infra[n] = "ready" /\ es # {}
    /\ row' = [e \in Events |->
         IF e \in es THEN [st |-> "processing", by |-> name[n], lease |-> "live"]
         ELSE row[e]]
    /\ node' = [node EXCEPT ![n] =
         [pc |-> "next", todo |-> es, ev |-> Nobody, read |-> 0, out |-> "none"]]
    /\ UNCHANGED <<name, version, born, infra, broken, seen, ran, faults>>

(* Takes event e up, which leaves the node at pc. *)
Take(n, e, pc, read, out) ==
  /\ node[n].pc = "next" /\ e \in node[n].todo
  /\ node' = [node EXCEPT ![n] =
       [pc |-> pc, todo |-> node[n].todo, ev |-> e, read |-> read, out |-> out]]

ResolveClient_Bug(n, e) ==  \* the payload is what the row was written with
  /\ \E out \in {"emitted", "skipped"} : Take(n, e, "publish", born[e], out)
  /\ UNCHANGED <<name, version, born, row, infra, broken, seen, ran, faults>>

(* resolve: the aggregate is read, then its recipients, who may be nobody; *)
(* out is what sending will make of the row.                               *)
ResolveClient(n, e) ==
  /\ \E out \in {"emitted", "skipped"} : Take(n, e, "publish", version, out)
  /\ UNCHANGED <<name, version, born, row, infra, broken, seen, ran, faults>>

(* executeCommand: disconnectSession asks every node through Redis.  With  *)
(* io gone it does nothing, without Redis the request is lost; both end    *)
(* without an error.  A node that is stopping may still have Redis.        *)
RunCommand(n, e) ==
  /\ Take(n, e, "mark", 0, "emitted")
  /\ \E reaches \in BOOLEAN :
       /\ infra[n] = "ready" => reaches
       /\ infra[n] \notin {"ready", "stopping"} => ~reaches
       /\ ran' = IF reaches THEN [ran EXCEPT ![e] = @ + 1] ELSE ran
  /\ UNCHANGED <<name, version, born, row, infra, broken, seen, faults>>

(* Resolving throws: for good (a payload or event nobody can send), or the *)
(* database, or an aggregate that is not there, which is tried again.      *)
ResolveThrows(n, e) ==
  /\ Fault
  /\ \E out \in {"failed", "pending"} : Take(n, e, "caught", 0, out)
  /\ UNCHANGED <<name, version, born, row, infra, broken, seen, ran>>

Outcome_Bug(n) == node[n].out  \* retryable_unavailable is not looked at

(* emitClientEvent's outcome, as processEvent marks it. *)
Outcome(n) == IF infra[n] = "ready" THEN node[n].out ELSE "pending"

(* emitClientEvent: to the sockets of this process only (.local). *)
Publish(n) ==
  /\ node[n].pc = "publish"
  /\ IF infra[n] = "ready" /\ node[n].out = "emitted"
     THEN /\ seen' = [seen EXCEPT ![n] = node[n].read]
          /\ ran' = [ran EXCEPT ![node[n].ev] = @ + 1]
     ELSE UNCHANGED <<seen, ran>>
  /\ node' = [node EXCEPT ![n] = [@ EXCEPT !.pc = "mark", !.out = Outcome(n)]]
  /\ UNCHANGED <<name, version, born, row, infra, broken, faults>>

(* The next event of the batch, or the end of the cycle. *)
GoOn(n) ==
  LET rest == node[n].todo \ {node[n].ev} IN
  node' = [node EXCEPT ![n] =
             IF rest = {} THEN IdleCycle
             ELSE [IdleCycle EXCEPT !.pc = "next", !.todo = rest]]

(* The WHERE of the four updates; a name that two nodes share is no guard. *)
Holds(n, e) == row[e].st = "processing" /\ row[e].by = name[n]

(* markEventEmitted, markEventSkipped, markEventFailed, releaseEventForRetry: *)
(* a claim that is gone is logged (processing_lease_lost).                 *)
Mark(n) ==
  LET e == node[n].ev IN
  /\ node[n].pc \in {"mark", "caught"}
  /\ row' = IF Holds(n, e) THEN [row EXCEPT ![e] = Unclaimed(node[n].out)] ELSE row
  /\ GoOn(n)
  /\ UNCHANGED <<name, version, born, infra, broken, seen, ran, faults>>

(* The update throws: inside the try it is caught and the event released   *)
(* for retry, whatever became of it; in the catch it ends the whole cycle. *)
MarkThrows(n) ==
  /\ Fault
  /\ \/ /\ node[n].pc = "mark"
        /\ node' = [node EXCEPT ![n] = [@ EXCEPT !.pc = "caught", !.out = "pending"]]
     \/ /\ node[n].pc = "caught"
        /\ node' = [node EXCEPT ![n] = IdleCycle]
  /\ UNCHANGED <<name, version, born, row, infra, broken, seen, ran>>

(* A lease of thirty seconds outlives its event; one that does not is a    *)
(* fault.  A row nobody works on any more is free when it ends.            *)
LeaseExpires(e, slow) ==
  /\ row[e].st = "processing" /\ row[e].lease = "live"
  /\ slow = (\E n \in Nodes : e \in node[n].todo /\ Holds(n, e))
  /\ IF slow THEN Fault ELSE UNCHANGED faults
  /\ row' = [row EXCEPT ![e].lease = "expired"]
  /\ UNCHANGED <<name, version, born, node, infra, broken, seen, ran>>

-----------------------------------------------------------------------------
(* The infrastructure of a node and its life. *)

(* Redis is lost, and comes back (monitorConnectionState). *)
Degrade(n) ==
  /\ infra[n] = "ready"
  /\ Fault
  /\ infra' = [infra EXCEPT ![n] = "degraded"]
  /\ broken' = broken \cup {n}
  /\ UNCHANGED <<name, version, born, row, node, seen, ran>>

Recover(n) ==
  /\ infra[n] = "degraded"
  /\ infra' = [infra EXCEPT ![n] = "ready"]
  /\ UNCHANGED <<name, version, born, row, node, broken, seen, ran, faults>>

(* stopRealtimeApplication does not wait for a cycle that is under way. *)
Stop(n) ==
  /\ infra[n] \in {"ready", "degraded", "stuck"}
  /\ Fault
  /\ infra' = [infra EXCEPT ![n] = IF @ = "ready" THEN "stopping" ELSE "closed"]
  /\ broken' = broken \cup {n}
  /\ UNCHANGED <<name, version, born, row, node, seen, ran>>

Close(n) ==
  /\ infra[n] = "stopping"
  /\ infra' = [infra EXCEPT ![n] = "closed"]
  /\ UNCHANGED <<name, version, born, row, node, broken, seen, ran, faults>>

(* A process that was stopped exits and is started anew. *)
Restart(n) ==
  /\ infra[n] = "closed"
  /\ infra' = [infra EXCEPT ![n] = "ready"]
  /\ node' = [node EXCEPT ![n] = IdleCycle]
  /\ UNCHANGED <<name, version, born, row, broken, seen, ran, faults>>

(* A process dies and is started anew.  If Redis does not answer within    *)
(* ten seconds of a start, the adapter is never attached nor monitored:    *)
(* the node stays degraded for as long as it lives.                        *)
Die(n, up) ==
  /\ Fault
  /\ infra' = [infra EXCEPT ![n] = up]
  /\ node' = [node EXCEPT ![n] = IdleCycle]
  /\ UNCHANGED <<name, version, born, row, broken, seen, ran>>

-----------------------------------------------------------------------------
Work(n) ==
  \/ Poll(n) \/ Publish(n) \/ Mark(n)
  \/ \E e \in ClientEvents : ResolveClient(n, e)
  \/ \E e \in Commands : RunCommand(n, e)

Next ==
  \/ \E e \in ClientEvents : Change(e)
  \/ \E e \in Commands : Command(e)
  \/ \E n \in Nodes :
       \/ Work(n) \/ MarkThrows(n)
       \/ \E e \in Events : ResolveThrows(n, e)
       \/ Degrade(n) \/ Recover(n) \/ Stop(n) \/ Close(n) \/ Restart(n)
       \/ \E up \in {"ready", "stuck"} : Die(n, up)
  \/ \E e \in Events, slow \in BOOLEAN : LeaseExpires(e, slow)

Spec == Init /\ [][Next]_vars

(* The loop reschedules itself and a node that is up goes on; leases end   *)
(* by the clock; Redis comes back and a stopped process is started again.  *)
FairSpec ==
  /\ Spec
  /\ \A n \in Nodes :
       /\ WF_vars(Work(n))
       /\ WF_vars(Recover(n)) /\ WF_vars(Close(n)) /\ WF_vars(Restart(n))
  /\ \A e \in Events : WF_vars(LeaseExpires(e, FALSE))

-----------------------------------------------------------------------------
(* Properties *)

(* The sockets of one process are never sent an older state of the         *)
(* aggregate after a newer one, in whatever order the events are claimed,  *)
(* retried or taken over.  (realtime-target.resolver.js:46 reads the       *)
(* aggregate afresh for each event.)                                       *)
NeverBackwards == [][\A n \in Nodes : seen'[n] >= seen[n]]_vars

(* A row says emitted only if some process sent a state at least as new as *)
(* the change the event announces.  A command must have been carried out,  *)
(* unless a process lost Redis or was stopped: then it may be marked       *)
(* emitted and have reached nobody (socket-session-control.service.js:11). *)
EmittedIsTrue ==
  \A e \in Events : row[e].st = "emitted" =>
    IF e \in ClientEvents THEN \E n \in Nodes : seen[n] >= born[e]
    ELSE ran[e] > 0 \/ broken # {}

(* An event is sent once, and once more for each crash, lost lease or      *)
(* failed update at most: even where two processes share an instance id    *)
(* and settle each other's claims.                                         *)
SentOnce == \A e \in Events : ran[e] <= 1 + faults

(* A settled row is never written again: not by a process that lost its    *)
(* lease, nor by one with the same instance id.                            *)
FinalIsFinal ==
  [][\A e \in Events : row[e].st \in Settled => row'[e] = row[e]]_vars

(* Every event is settled in the end, unless every process was started     *)
(* without Redis, from which none recovers (socket-redis.adapter.js:116).  *)
EventsSettle ==
  \A e \in Events :
    row[e].st = "pending" ~> \/ row[e].st \in Settled
                             \/ \A n \in Nodes : infra[n] = "stuck"
=============================================================================
