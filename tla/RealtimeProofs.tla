--------------------------- MODULE RealtimeProofs ---------------------------
(***************************************************************************)
(* RealtimeOutbox for any number of events, processes and faults, and any  *)
(* sharing of instance ids: no process sends an older state after a newer  *)
(* one, a row that says emitted tells the truth, a settled row stays, and  *)
(* no event is sent more often than the faults allow.                      *)
(*                                                                         *)
(* The argument: versions, what was sent and what was carried out only     *)
(* grow (Grow), so whatever a cycle knows about its event (Good) is still  *)
(* true when it marks the row, whoever owns the row by then.               *)
(*                                                                         *)
(* Then Audience, for any number of identities, laundries, branches,       *)
(* requests and sockets.  A row in flight carries what its last read       *)
(* found, and each of those facts (AudienceInv) survives whatever others   *)
(* do until it is used: who owns the session, which branch belongs to      *)
(* which laundry, whether the caller still is a member.                    *)
(***************************************************************************)
EXTENDS RealtimeOutbox, Audience, FiniteSetTheorems, WellFoundedInduction, TLAPS

Written(e) == row[e].st # "none"

(* What EmittedIsTrue asks of an emitted event. *)
Delivered(e) ==
  IF e \in ClientEvents THEN \E n \in Nodes : seen[n] >= born[e]
  ELSE ran[e] > 0 \/ broken # {}

(* What the cycle of a node knows: the version it read is as new as its    *)
(* event and as anything sent here, and an event it will mark emitted was  *)
(* delivered.                                                              *)
Good(n) ==
  /\ \A e \in node[n].todo : Written(e)
  /\ node[n].pc # "idle" => infra[n] # "stuck"
  /\ node[n].pc \in {"publish", "mark", "caught"} =>
       node[n].ev \in node[n].todo /\ node[n].out # "none"
  /\ node[n].pc = "publish" =>
       /\ node[n].ev \in ClientEvents
       /\ born[node[n].ev] <= node[n].read
       /\ seen[n] <= node[n].read
       /\ node[n].read <= version
  /\ node[n].pc \in {"mark", "caught"} /\ node[n].out = "emitted" =>
       Delivered(node[n].ev)

Bounded ==
  /\ \A e \in ClientEvents : born[e] <= version
  /\ \A n \in Nodes : seen[n] <= version
  /\ \A n \in Nodes : infra[n] \in {"degraded", "stopping", "closed"} => n \in broken

IInv == TypeOK /\ Bounded /\ (\A n \in Nodes : Good(n)) /\ EmittedIsTrue

LEMMA InitInv == Init => IInv
  BY ConstantsOK DEF Init, IInv, TypeOK, Bounded, Good, EmittedIsTrue, Row,
     Cycle, Unclaimed, IdleCycle, Events, Settled

-----------------------------------------------------------------------------
(* Every step lets the world grow. *)

Grow ==
  /\ version' >= version
  /\ \A n \in Nodes : seen'[n] >= seen[n]
  /\ \A e \in Events : ran'[e] >= ran[e]
  /\ broken \subseteq broken'
  /\ \A e \in Events : Written(e) => Written(e)'
  /\ \A e \in ClientEvents : Written(e) => born'[e] = born[e]

LEMMA StillDelivered ==
  ASSUME TypeOK, TypeOK', Grow, NEW e \in Events, Written(e), Delivered(e)
  PROVE  Delivered(e)'
<1>1. ASSUME e \in ClientEvents
      PROVE  Delivered(e)'
  <2>1. PICK n \in Nodes : seen[n] >= born[e]
    BY <1>1 DEF Delivered
  <2>2. seen'[n] >= born'[e]
    BY <1>1, <2>1 DEF Grow, TypeOK
  <2> QED
    BY <1>1, <2>2 DEF Delivered
<1>2. ASSUME e \notin ClientEvents
      PROVE  Delivered(e)'
  BY <1>2 DEF Delivered, Grow, TypeOK
<1> QED
  BY <1>1, <1>2

(* A node whose own cycle rests still knows what it knew. *)
LEMMA StillGood ==
  ASSUME IInv, TypeOK', Grow, NEW n \in Nodes, Good(n), node'[n] = node[n],
         infra'[n] # "stuck" \/ infra'[n] = infra[n],
         seen'[n] = seen[n]
  PROVE  Good(n)'
<1>1. node[n].todo \subseteq Events
  BY DEF IInv, TypeOK, Cycle
<1>2. \A e \in node[n].todo : Written(e)'
  BY <1>1 DEF Good, Grow
<1>3. ASSUME node[n].pc = "publish"
      PROVE  /\ node[n].ev \in ClientEvents /\ born'[node[n].ev] <= node[n].read
             /\ seen'[n] <= node[n].read /\ node[n].read <= version'
  <2>1. Written(node[n].ev)
    BY <1>3 DEF Good
  <2>2. /\ node[n].ev \in ClientEvents /\ born[node[n].ev] <= node[n].read
        /\ seen[n] <= node[n].read /\ node[n].read <= version
    BY <1>3 DEF Good
  <2>3. born'[node[n].ev] = born[node[n].ev]
    BY <2>1, <2>2 DEF Grow
  <2>4. node[n].read \in Nat /\ version \in Nat /\ version' \in Nat
    BY DEF IInv, TypeOK, Cycle
  <2> QED
    BY <2>2, <2>3, <2>4 DEF Grow
<1>4. ASSUME node[n].pc \in {"mark", "caught"}, node[n].out = "emitted"
      PROVE  Delivered(node[n].ev)'
  <2>1. Delivered(node[n].ev) /\ node[n].ev \in Events /\ Written(node[n].ev)
    BY <1>1, <1>4 DEF Good
  <2> QED
    BY <2>1, StillDelivered DEF IInv
<1> QED
  BY <1>2, <1>3, <1>4 DEF Good

(* A step that no node's cycle takes part in. *)
LEMMA OutsideStep ==
  ASSUME IInv, TypeOK', Grow, Bounded', UNCHANGED <<node, seen>>,
         \A n \in Nodes : infra'[n] # "stuck" \/ infra'[n] = infra[n],
         \A e \in Events : row'[e].st = "emitted" => row[e].st = "emitted"
  PROVE  IInv'
<1>1. \A n \in Nodes : Good(n)'
  BY StillGood DEF IInv
<1>2. ASSUME NEW e \in Events, row'[e].st = "emitted"
      PROVE  Delivered(e)'
  <2>1. Written(e) /\ Delivered(e)
    BY <1>2 DEF IInv, EmittedIsTrue, Written, Delivered
  <2> QED
    BY <2>1, StillDelivered DEF IInv
<1>3. EmittedIsTrue'
  BY <1>2 DEF EmittedIsTrue, Delivered
<1> QED
  BY <1>1, <1>3 DEF IInv

(* A step of one node's cycle: what it leaves, x, is good, and a row it    *)
(* marks emitted was delivered.                                            *)
LEMMA InsideStep ==
  ASSUME IInv, TypeOK', Grow, Bounded', NEW n \in Nodes, Good(n)',
         \A o \in Nodes \ {n} : /\ node'[o] = node[o] /\ seen'[o] = seen[o]
                               /\ infra'[o] = infra[o],
         \A e \in Events : row'[e].st = "emitted" /\ row[e].st # "emitted" =>
                          Delivered(e) /\ Written(e)
  PROVE  IInv'
<1>1. \A o \in Nodes : Good(o)'
  BY StillGood DEF IInv
<1>2. ASSUME NEW e \in Events, row'[e].st = "emitted"
      PROVE  Delivered(e)'
  <2>1. Written(e) /\ Delivered(e)
    BY <1>2 DEF IInv, EmittedIsTrue, Written, Delivered
  <2> QED
    BY <2>1, StillDelivered DEF IInv
<1>3. EmittedIsTrue'
  BY <1>2 DEF EmittedIsTrue, Delivered
<1> QED
  BY <1>1, <1>3 DEF IInv

-----------------------------------------------------------------------------
(* The steps. *)

LEMMA ChangeInv == ASSUME IInv, NEW e \in ClientEvents, Change(e) PROVE IInv'
<1>1. version' = version + 1 /\ version \in Nat
  BY DEF Change, IInv, TypeOK
<1>2. /\ born'[e] = version + 1
      /\ \A x \in ClientEvents \ {e} : born'[x] = born[x]
      /\ born' \in [ClientEvents -> Nat]
  BY <1>1 DEF Change, IInv, TypeOK
<1>3. /\ \A x \in Events \ {e} : row'[x] = row[x]
      /\ row'[e].st = "pending" /\ row' \in [Events -> Row]
  BY DEF Change, Unclaimed, IInv, TypeOK, Row, Events
<1>4. UNCHANGED <<name, node, infra, broken, seen, ran, faults>>
  BY DEF Change
<1>5. TypeOK'
  BY <1>1, <1>2, <1>3, <1>4 DEF IInv, TypeOK
<1>6. ~Written(e)
  BY DEF Change, Written
<1>7. Grow
  BY <1>1, <1>2, <1>3, <1>4, <1>6 DEF Grow, Written, IInv, TypeOK
<1>8. Bounded'
  BY <1>1, <1>2, <1>4 DEF IInv, TypeOK, Bounded
<1> QED
  BY <1>3, <1>4, <1>5, <1>7, <1>8, OutsideStep

(* A step that leaves versions and what was sent or carried out alone. *)
LEMMA QuietGrow ==
  ASSUME TypeOK, UNCHANGED <<version, born, seen, ran>>, broken \subseteq broken',
         \A e \in Events : Written(e) => Written(e)'
  PROVE  Grow
  BY DEF Grow, TypeOK

LEMMA CommandInv == ASSUME IInv, NEW e \in Commands, Command(e) PROVE IInv'
<1>1. /\ \A x \in Events \ {e} : row'[x] = row[x]
      /\ row'[e].st = "pending" /\ row' \in [Events -> Row]
  BY DEF Command, Unclaimed, IInv, TypeOK, Row, Events
<1>2. UNCHANGED <<name, version, born, node, infra, broken, seen, ran, faults>>
  BY DEF Command
<1>3. TypeOK'
  BY <1>1, <1>2 DEF IInv, TypeOK
<1>4. Grow
  BY <1>1, <1>2, QuietGrow DEF Written, IInv
<1>5. Bounded'
  BY <1>2 DEF IInv, Bounded
<1> QED
  BY <1>1, <1>2, <1>3, <1>4, <1>5, OutsideStep

LEMMA LeaseInv ==
  ASSUME IInv, NEW e \in Events, NEW slow \in BOOLEAN, LeaseExpires(e, slow)
  PROVE  IInv'
<1>1. /\ \A x \in Events : row'[x].st = row[x].st
      /\ row' \in [Events -> Row]
  BY DEF LeaseExpires, IInv, TypeOK, Row
<1>2. UNCHANGED <<name, version, born, node, infra, broken, seen, ran>>
  BY DEF LeaseExpires
<1>3. faults' \in 0..MaxFaults
  BY ConstantsOK DEF LeaseExpires, Fault, IInv, TypeOK
<1>4. TypeOK'
  BY <1>1, <1>2, <1>3 DEF IInv, TypeOK
<1>5. Grow
  BY <1>1, <1>2, QuietGrow DEF Written, IInv
<1>6. Bounded'
  BY <1>2 DEF IInv, Bounded
<1> QED
  BY <1>1, <1>2, <1>4, <1>5, <1>6, OutsideStep

LEMMA IdleIsCycle == IdleCycle \in Cycle
  BY DEF IdleCycle, Cycle

LEMMA FaultType == ASSUME TypeOK, Fault PROVE faults' \in 0..MaxFaults
  BY ConstantsOK DEF TypeOK, Fault

(* A node's cycle goes on to x, and no row or version changes. *)
LEMMA CycleStep ==
  ASSUME IInv, NEW n \in Nodes, NEW x \in Cycle,
         node' = [node EXCEPT ![n] = x],
         UNCHANGED <<name, version, born, row, infra, broken>>,
         seen' \in [Nodes -> Nat], ran' \in [Events -> Nat], faults' \in 0..MaxFaults,
         seen'[n] >= seen[n], seen'[n] <= version,
         \A o \in Nodes \ {n} : seen'[o] = seen[o],
         \A e \in Events : ran'[e] >= ran[e],
         Good(n)'
  PROVE  IInv'
<1>1. node'[n] = x /\ \A o \in Nodes \ {n} : node'[o] = node[o]
  BY DEF IInv, TypeOK
<1>2. TypeOK'
  BY <1>1 DEF IInv, TypeOK
<1>3. Grow
  BY DEF Grow, Written, IInv, TypeOK
<1>4. Bounded'
  BY DEF IInv, TypeOK, Bounded
<1> QED
  BY <1>1, <1>2, <1>3, <1>4, InsideStep

(* The same when nothing is sent. *)
LEMMA SilentStep ==
  ASSUME IInv, NEW n \in Nodes, NEW x \in Cycle,
         node' = [node EXCEPT ![n] = x],
         UNCHANGED <<name, version, born, row, infra, broken, seen>>,
         ran' \in [Events -> Nat], faults' \in 0..MaxFaults,
         \A e \in Events : ran'[e] >= ran[e],
         Good(n)'
  PROVE  IInv'
<1>1. /\ seen' \in [Nodes -> Nat] /\ seen'[n] = seen[n] /\ seen[n] \in Nat
      /\ seen[n] <= version /\ \A o \in Nodes \ {n} : seen'[o] = seen[o]
  BY DEF IInv, Bounded, TypeOK
<1>2. seen'[n] >= seen[n] /\ seen'[n] <= version
  BY <1>1
<1> QED
  BY <1>1, <1>2, CycleStep

LEMMA RanStays == ASSUME TypeOK, UNCHANGED ran
                  PROVE  ran' \in [Events -> Nat] /\ \A e \in Events : ran'[e] >= ran[e]
  BY DEF TypeOK

LEMMA PollInv == ASSUME IInv, NEW n \in Nodes, Poll(n) PROVE IInv'
<1>1. PICK es \in SUBSET {e \in Events : Claimable(e)} :
        /\ infra[n] = "ready"
        /\ row' = [e \in Events |->
             IF e \in es THEN [st |-> "processing", by |-> name[n], lease |-> "live"]
             ELSE row[e]]
        /\ node' = [node EXCEPT ![n] =
             [pc |-> "next", todo |-> es, ev |-> Nobody, read |-> 0, out |-> "none"]]
        /\ UNCHANGED <<name, version, born, infra, broken, seen, ran, faults>>
  BY DEF Poll
<1> DEFINE x == [pc |-> "next", todo |-> es, ev |-> Nobody, read |-> 0, out |-> "none"]
<1>2. x \in Cycle /\ es \subseteq Events
  BY DEF Cycle
<1>3. node'[n] = x /\ \A o \in Nodes \ {n} : node'[o] = node[o]
  BY <1>1 DEF IInv, TypeOK
<1>4. node' \in [Nodes -> Cycle]
  BY <1>1, <1>2 DEF IInv, TypeOK
<1>5. name[n] \in Names
  BY ConstantsOK DEF IInv, TypeOK
<1>6. row' \in [Events -> Row]
  BY <1>1, <1>5 DEF IInv, TypeOK, Row
<1>7. TypeOK'
  BY <1>1, <1>4, <1>6 DEF IInv, TypeOK
<1>8. \A e \in Events : row'[e] = row[e] \/ (e \in es /\ row'[e].st = "processing")
  BY <1>1
<1>9. Grow
  BY <1>1, <1>8, QuietGrow DEF Written, IInv
<1>10. Bounded'
  BY <1>1 DEF IInv, Bounded
<1>11. \A e \in es : Written(e)'
  BY <1>1, <1>2 DEF Written
<1>12. Good(n)'
  BY <1>1, <1>3, <1>11 DEF Good
<1> QED
  BY <1>1, <1>3, <1>7, <1>8, <1>9, <1>10, <1>12, InsideStep

(* Take, as it leaves the record of the node. *)
LEMMA TakeStep ==
  ASSUME IInv, NEW n \in Nodes, NEW e \in Events, NEW pc \in {"publish", "mark", "caught"},
         NEW read \in Nat, NEW out \in {"none", "pending"} \cup Settled,
         Take(n, e, pc, read, out)
  PROVE  \E x \in Cycle :
           /\ node' = [node EXCEPT ![n] = x] /\ node'[n] = x
           /\ x.pc = pc /\ x.todo = node[n].todo /\ x.ev = e /\ x.read = read
           /\ x.out = out /\ e \in x.todo /\ infra[n] # "stuck"
           /\ \A y \in x.todo : Written(y)
<1> DEFINE x == [pc |-> pc, todo |-> node[n].todo, ev |-> e, read |-> read, out |-> out]
<1>1. x \in Cycle
  BY DEF IInv, TypeOK, Cycle
<1>2. node' = [node EXCEPT ![n] = x] /\ e \in node[n].todo /\ node[n].pc = "next"
  BY DEF Take
<1>3. node'[n] = x
  BY <1>2 DEF IInv, TypeOK
<1>4. infra[n] # "stuck" /\ \A y \in node[n].todo : Written(y)
  BY <1>2 DEF IInv, Good
<1> QED
  BY <1>1, <1>2, <1>3, <1>4

LEMMA ResolveInv ==
  ASSUME IInv, NEW n \in Nodes, NEW e \in ClientEvents, ResolveClient(n, e)
  PROVE  IInv'
<1>1. PICK out \in {"emitted", "skipped"} : Take(n, e, "publish", version, out)
  BY DEF ResolveClient
<1>2. UNCHANGED <<name, version, born, row, infra, broken, seen, ran, faults>>
  BY DEF ResolveClient
<1>3. e \in Events /\ version \in Nat /\ out \in {"none", "pending"} \cup Settled
  BY DEF Events, IInv, TypeOK, Settled
<1>4. PICK x \in Cycle :
        /\ node' = [node EXCEPT ![n] = x] /\ node'[n] = x
        /\ x.pc = "publish" /\ x.todo = node[n].todo /\ x.ev = e /\ x.read = version
        /\ x.out = out /\ e \in x.todo /\ infra[n] # "stuck"
        /\ \A y \in x.todo : Written(y)
  BY <1>1, <1>3, TakeStep
<1>5. born[e] <= version /\ seen[n] <= version
  BY DEF IInv, Bounded
<1>6. Good(n)'
  BY <1>2, <1>3, <1>4, <1>5 DEF Good, Written
<1>7. faults' \in 0..MaxFaults /\ TypeOK
  BY <1>2 DEF IInv, TypeOK
<1> QED
  BY <1>2, <1>4, <1>6, <1>7, RanStays, SilentStep

LEMMA CommandRunInv ==
  ASSUME IInv, NEW n \in Nodes, NEW e \in Commands, RunCommand(n, e)
  PROVE  IInv'
<1>1. Take(n, e, "mark", 0, "emitted")
  BY DEF RunCommand
<1>2. UNCHANGED <<name, version, born, row, infra, broken, seen, faults>>
  BY DEF RunCommand
<1>3. PICK reaches \in BOOLEAN :
        /\ infra[n] = "ready" => reaches
        /\ ran' = IF reaches THEN [ran EXCEPT ![e] = @ + 1] ELSE ran
  BY DEF RunCommand
<1>4. e \in Events /\ e \notin ClientEvents
  BY ConstantsOK DEF Events
<1>5. PICK x \in Cycle :
        /\ node' = [node EXCEPT ![n] = x] /\ node'[n] = x
        /\ x.pc = "mark" /\ x.todo = node[n].todo /\ x.ev = e
        /\ x.out = "emitted" /\ e \in x.todo /\ infra[n] # "stuck"
        /\ \A y \in x.todo : Written(y)
  BY <1>1, <1>4, TakeStep DEF Settled
<1>6. /\ ran' \in [Events -> Nat] /\ \A y \in Events : ran'[y] >= ran[y]
      /\ reaches => ran'[e] > 0
  BY <1>3, <1>4 DEF IInv, TypeOK
<1>7. infra[n] \in {"ready", "degraded", "stopping", "closed"}
  BY <1>5 DEF IInv, TypeOK
<1>8. reaches \/ broken # {}
  BY <1>3, <1>7 DEF IInv, Bounded
<1>9. Delivered(e)'
  BY <1>2, <1>4, <1>6, <1>8 DEF Delivered
<1>10. Good(n)'
  BY <1>2, <1>5, <1>9 DEF Good, Written
<1>11. faults' \in 0..MaxFaults
  BY <1>2 DEF IInv, TypeOK
<1> QED
  BY <1>2, <1>5, <1>6, <1>10, <1>11, SilentStep

LEMMA ThrowInv ==
  ASSUME IInv, NEW n \in Nodes, NEW e \in Events, ResolveThrows(n, e)
  PROVE  IInv'
<1>1. PICK out \in {"failed", "pending"} : Take(n, e, "caught", 0, out)
  BY DEF ResolveThrows
<1>2. UNCHANGED <<name, version, born, row, infra, broken, seen, ran>>
  BY DEF ResolveThrows
<1>3. faults' \in 0..MaxFaults
  BY FaultType DEF ResolveThrows, IInv
<1>4. PICK x \in Cycle :
        /\ node' = [node EXCEPT ![n] = x] /\ node'[n] = x
        /\ x.pc = "caught" /\ x.todo = node[n].todo /\ x.ev = e
        /\ x.out = out /\ e \in x.todo /\ infra[n] # "stuck"
        /\ \A y \in x.todo : Written(y)
  BY <1>1, TakeStep DEF Settled
<1>5. Good(n)'
  BY <1>2, <1>4 DEF Good, Written
<1>6. TypeOK
  BY DEF IInv
<1> QED
  BY <1>2, <1>3, <1>4, <1>5, <1>6, RanStays, SilentStep

LEMMA PublishInv == ASSUME IInv, NEW n \in Nodes, Publish(n) PROVE IInv'
<1>0. PICK e : e = node[n].ev
  OBVIOUS
<1> DEFINE x == [node[n] EXCEPT !.pc = "mark", !.out = Outcome(n)]
<1>1. node[n] \in Cycle /\ node[n].pc = "publish"
  BY DEF Publish, IInv, TypeOK
<1>2. Outcome(n) \in {"pending"} \cup Settled
  BY <1>1 DEF Outcome, Cycle, IInv, Good
<1>3. x \in Cycle /\ x.pc = "mark" /\ x.out = Outcome(n) /\ x.todo = node[n].todo /\ x.ev = e
      /\ x.out # "none"
  BY <1>0, <1>1, <1>2 DEF Cycle, Settled
<1>4. /\ node' = [node EXCEPT ![n] = x]
      /\ UNCHANGED <<name, version, born, row, infra, broken, faults>>
  BY DEF Publish
<1> HIDE DEF x
<1>5. node'[n] = x
  BY <1>4 DEF IInv, TypeOK
<1>6. /\ \A y \in node[n].todo : Written(y)
      /\ infra[n] # "stuck" /\ e \in node[n].todo /\ e \in ClientEvents
      /\ born[e] <= node[n].read /\ seen[n] <= node[n].read /\ node[n].read <= version
  BY <1>0, <1>1 DEF IInv, Good
<1>7. node[n].read \in Nat /\ version \in Nat /\ e \in Events
  BY <1>1, <1>6 DEF IInv, TypeOK, Cycle, Events
<1>8. CASE infra[n] = "ready" /\ node[n].out = "emitted"
  <2>1. /\ seen' = [seen EXCEPT ![n] = node[n].read]
        /\ ran' = [ran EXCEPT ![e] = @ + 1]
    BY <1>0, <1>8 DEF Publish
  <2>2. /\ seen' \in [Nodes -> Nat] /\ seen'[n] = node[n].read
        /\ \A o \in Nodes \ {n} : seen'[o] = seen[o]
        /\ ran' \in [Events -> Nat] /\ \A y \in Events : ran'[y] >= ran[y]
    BY <1>7, <2>1 DEF IInv, TypeOK
  <2>3. seen'[n] >= seen[n] /\ seen'[n] <= version /\ seen'[n] >= born'[e]
    BY <1>4, <1>6, <1>7, <2>2 DEF IInv, TypeOK
  <2>4. Delivered(e)'
    BY <1>6, <2>3 DEF Delivered
  <2>5. Good(n)'
    BY <1>3, <1>4, <1>5, <1>6, <2>4 DEF Good, Written
  <2>6. faults' \in 0..MaxFaults
    BY <1>4 DEF IInv, TypeOK
  <2> QED
    BY <1>3, <1>4, <2>2, <2>3, <2>5, <2>6, CycleStep
<1>9. CASE ~(infra[n] = "ready" /\ node[n].out = "emitted")
  <2>1. UNCHANGED <<seen, ran>>
    BY <1>9 DEF Publish
  <2>2. Outcome(n) # "emitted"
    BY <1>9 DEF Outcome
  <2>3. Good(n)'
    BY <1>3, <1>4, <1>5, <1>6, <2>2 DEF Good, Written
  <2>4. faults' \in 0..MaxFaults /\ TypeOK
    BY <1>4 DEF IInv, TypeOK
  <2> QED
    BY <1>3, <1>4, <2>1, <2>3, <2>4, RanStays, SilentStep
<1> QED
  BY <1>8, <1>9

(* After GoOn a node holds less of its batch and is at no event. *)
LEMMA GoOnStep ==
  ASSUME IInv, NEW n \in Nodes, GoOn(n), node[n].pc # "idle"
  PROVE  /\ node' \in [Nodes -> Cycle]
         /\ \A o \in Nodes \ {n} : node'[o] = node[o]
         /\ node'[n].pc \in {"idle", "next"} /\ node'[n].todo \subseteq node[n].todo
<1> DEFINE rest == node[n].todo \ {node[n].ev}
           more == [IdleCycle EXCEPT !.pc = "next", !.todo = rest]
           x == IF rest = {} THEN IdleCycle ELSE more
<1>1. rest \in SUBSET Events
  BY DEF IInv, TypeOK, Cycle
<1>2. more \in Cycle /\ more.pc = "next" /\ more.todo = rest
  BY <1>1 DEF IdleCycle, Cycle
<1>3. IdleCycle \in Cycle /\ IdleCycle.pc = "idle" /\ IdleCycle.todo = {}
  BY IdleIsCycle DEF IdleCycle
<1>4. x \in Cycle /\ x.pc \in {"idle", "next"} /\ x.todo \subseteq node[n].todo
  BY <1>2, <1>3
<1>5. node' = [node EXCEPT ![n] = x]
  BY DEF GoOn
<1> QED
  BY <1>4, <1>5 DEF IInv, TypeOK

LEMMA MarkInv == ASSUME IInv, NEW n \in Nodes, Mark(n) PROVE IInv'
<1> DEFINE e == node[n].ev
<1>1. node[n].pc \in {"mark", "caught"} /\ GoOn(n)
  BY DEF Mark
<1>2. UNCHANGED <<name, version, born, infra, broken, seen, ran, faults>>
  BY DEF Mark
<1>3. /\ \A y \in node[n].todo : Written(y)
      /\ infra[n] # "stuck" /\ e \in node[n].todo
      /\ node[n].out = "emitted" => Delivered(e)
  BY <1>1 DEF IInv, Good
<1>4. node[n] \in Cycle /\ e \in Events
  BY <1>3 DEF IInv, TypeOK, Cycle
<1>5. /\ node' \in [Nodes -> Cycle]
      /\ \A o \in Nodes \ {n} : node'[o] = node[o]
      /\ node'[n].pc \in {"idle", "next"} /\ node'[n].todo \subseteq node[n].todo
  BY <1>1, GoOnStep
<1>6. PICK st \in {"pending"} \cup Settled :
        /\ st = node[n].out
        /\ row' = IF Holds(n, e) THEN [row EXCEPT ![e] = Unclaimed(st)] ELSE row
  BY <1>1, <1>4 DEF Mark, Cycle, IInv, Good
<1>7. /\ row' \in [Events -> Row]
      /\ \A y \in Events : row'[y] = row[y] \/ (y = e /\ row'[y].st = st)
  BY <1>4, <1>6 DEF IInv, TypeOK, Unclaimed, Row
<1>8. TypeOK'
  BY <1>2, <1>5, <1>7 DEF IInv, TypeOK
<1>9. \A y \in Events : Written(y) => Written(y)'
  BY <1>7 DEF Written, Settled
<1>10. Grow
  BY <1>2, <1>9, QuietGrow DEF IInv
<1>11. Bounded'
  BY <1>2 DEF IInv, Bounded
<1>12. node[n].todo \subseteq Events
  BY <1>4 DEF Cycle
<1>13. Good(n)'
  BY <1>2, <1>3, <1>5, <1>9, <1>12 DEF Good
<1>14. \A y \in Events : row'[y].st = "emitted" /\ row[y].st # "emitted" =>
                        Delivered(y) /\ Written(y)
  BY <1>3, <1>6, <1>7
<1> QED
  BY <1>2, <1>5, <1>8, <1>10, <1>11, <1>13, <1>14, InsideStep

LEMMA MarkThrowsInv == ASSUME IInv, NEW n \in Nodes, MarkThrows(n) PROVE IInv'
<1>1. /\ UNCHANGED <<name, version, born, row, infra, broken, seen, ran>>
      /\ faults' \in 0..MaxFaults
  BY FaultType DEF MarkThrows, IInv
<1>2. CASE /\ node[n].pc = "mark"
           /\ node' = [node EXCEPT ![n] = [@ EXCEPT !.pc = "caught", !.out = "pending"]]
  <2> DEFINE x == [node[n] EXCEPT !.pc = "caught", !.out = "pending"]
  <2>1. node[n] \in Cycle
    BY DEF IInv, TypeOK
  <2>2. /\ x \in Cycle /\ x.pc = "caught" /\ x.out = "pending"
        /\ x.todo = node[n].todo /\ x.ev = node[n].ev
    BY <2>1 DEF Cycle
  <2>3. node' = [node EXCEPT ![n] = x] /\ node'[n] = x
    BY <1>2 DEF IInv, TypeOK
  <2>4. /\ \A y \in node[n].todo : Written(y)
        /\ infra[n] # "stuck" /\ node[n].ev \in node[n].todo
    BY <1>2 DEF IInv, Good
  <2>5. Good(n)'
    BY <1>1, <2>2, <2>3, <2>4 DEF Good, Written
  <2> QED
    BY <1>1, <2>2, <2>3, <2>5, RanStays, SilentStep DEF IInv
<1>3. CASE node' = [node EXCEPT ![n] = IdleCycle]
  <2>1. node'[n] = IdleCycle
    BY <1>3 DEF IInv, TypeOK
  <2>2. Good(n)'
    BY <2>1 DEF Good, IdleCycle
  <2> QED
    BY <1>1, <1>3, <2>2, IdleIsCycle, RanStays, SilentStep DEF IInv
<1> QED
  BY <1>2, <1>3 DEF MarkThrows

-----------------------------------------------------------------------------
(* Infrastructure. *)

(* A node's infrastructure changes, other than to being stuck. *)
LEMMA InfraStep ==
  ASSUME IInv, NEW n \in Nodes, NEW up \in {"ready", "degraded", "stopping", "closed"},
         infra' = [infra EXCEPT ![n] = up],
         broken' \in {broken, broken \cup {n}}, up # "ready" => n \in broken',
         faults' \in 0..MaxFaults,
         UNCHANGED <<name, version, born, row, node, seen, ran>>
  PROVE  IInv'
<1>1. /\ infra'[n] = up /\ \A o \in Nodes \ {n} : infra'[o] = infra[o]
      /\ infra' \in [Nodes -> {"ready", "degraded", "stuck", "stopping", "closed"}]
  BY DEF IInv, TypeOK
<1>2. TypeOK'
  BY <1>1 DEF IInv, TypeOK
<1>3. Grow
  BY QuietGrow DEF IInv, Written
<1>4. Bounded'
  BY <1>1 DEF IInv, Bounded
<1> QED
  BY <1>1, <1>2, <1>3, <1>4, OutsideStep

(* A process starts anew, its cycle forgotten. *)
LEMMA StartStep ==
  ASSUME IInv, NEW n \in Nodes, NEW up \in {"ready", "stuck"},
         infra' = [infra EXCEPT ![n] = up], node' = [node EXCEPT ![n] = IdleCycle],
         faults' \in 0..MaxFaults,
         UNCHANGED <<name, version, born, row, broken, seen, ran>>
  PROVE  IInv'
<1>1. /\ infra'[n] = up /\ node'[n] = IdleCycle
      /\ \A o \in Nodes \ {n} : infra'[o] = infra[o] /\ node'[o] = node[o]
  BY DEF IInv, TypeOK
<1>2. TypeOK'
  BY IdleIsCycle DEF IInv, TypeOK
<1>3. Grow
  BY QuietGrow DEF IInv, Written
<1>4. Bounded'
  BY <1>1 DEF IInv, Bounded
<1>5. Good(n)'
  BY <1>1 DEF Good, IdleCycle
<1> QED
  BY <1>1, <1>2, <1>3, <1>4, <1>5, InsideStep

LEMMA InfraInv ==
  ASSUME IInv, NEW n \in Nodes,
         \/ Degrade(n) \/ Recover(n) \/ Stop(n) \/ Close(n) \/ Restart(n)
         \/ \E up \in {"ready", "stuck"} : Die(n, up)
  PROVE  IInv'
<1>0. /\ Fault => faults' \in 0..MaxFaults
      /\ faults \in 0..MaxFaults
  BY FaultType DEF IInv, TypeOK
<1>1. CASE Degrade(n)
  BY <1>0, <1>1, InfraStep DEF Degrade
<1>2. CASE Recover(n)
  BY <1>0, <1>2, InfraStep DEF Recover
<1>3. CASE Stop(n)
  <2>1. PICK up \in {"stopping", "closed"} : infra' = [infra EXCEPT ![n] = up]
    BY <1>3 DEF Stop
  <2> QED
    BY <1>0, <1>3, <2>1, InfraStep DEF Stop
<1>4. CASE Close(n)
  <2>1. n \in broken
    BY <1>4 DEF Close, IInv, Bounded
  <2> QED
    BY <1>0, <1>4, <2>1, InfraStep DEF Close
<1>5. CASE Restart(n)
  BY <1>0, <1>5, StartStep DEF Restart
<1>6. CASE \E up \in {"ready", "stuck"} : Die(n, up)
  BY <1>0, <1>6, StartStep DEF Die
<1> QED
  BY <1>1, <1>2, <1>3, <1>4, <1>5, <1>6

LEMMA StutterInv == ASSUME IInv, UNCHANGED vars PROVE IInv'
  BY DEF vars, IInv, TypeOK, Bounded, Good, Written, Delivered, EmittedIsTrue

LEMMA StepInv == ASSUME IInv, [Next]_vars PROVE IInv'
<1>1. CASE \E e \in ClientEvents : Change(e)
  BY <1>1, ChangeInv
<1>2. CASE \E e \in Commands : Command(e)
  BY <1>2, CommandInv
<1>3. CASE \E n \in Nodes : Work(n)
  BY <1>3, PollInv, PublishInv, MarkInv, ResolveInv, CommandRunInv DEF Work
<1>4. CASE \E n \in Nodes : MarkThrows(n) \/ \E e \in Events : ResolveThrows(n, e)
  BY <1>4, MarkThrowsInv, ThrowInv
<1>5. CASE \E n \in Nodes :
             \/ Degrade(n) \/ Recover(n) \/ Stop(n) \/ Close(n) \/ Restart(n)
             \/ \E up \in {"ready", "stuck"} : Die(n, up)
  BY <1>5, InfraInv
<1>6. CASE \E e \in Events, slow \in BOOLEAN : LeaseExpires(e, slow)
  BY <1>6, LeaseInv
<1>7. CASE UNCHANGED vars
  BY <1>7, StutterInv
<1> QED
  BY <1>1, <1>2, <1>3, <1>4, <1>5, <1>6, <1>7 DEF Next

LEMMA AlwaysIInv == Spec => []IInv
  BY InitInv, StepInv, PTL DEF Spec

(* The state is always of its type, and a row that says emitted was sent,  *)
(* or its command carried out but for outages of Redis and shutdowns.      *)
THEOREM TypesAlways == Spec => []TypeOK
<1>1. IInv => TypeOK
  BY DEF IInv
<1> QED
  BY <1>1, AlwaysIInv, PTL

THEOREM EmittedIsTrueAlways == Spec => []EmittedIsTrue
<1>1. IInv => EmittedIsTrue
  BY DEF IInv
<1> QED
  BY <1>1, AlwaysIInv, PTL

-----------------------------------------------------------------------------
(* No process ever sends an older state of the aggregate than it has sent. *)
(* Only Publish sends, and what it sends was read after all it sent before.*)
THEOREM NeverBackwardsAlways == Spec => NeverBackwards
<1>1. ASSUME IInv, [Next]_vars
      PROVE  \A n \in Nodes : seen'[n] >= seen[n]
  <2>1. seen \in [Nodes -> Nat]
    BY <1>1 DEF IInv, TypeOK
  <2>2. ASSUME NEW n \in Nodes, Publish(n)
        PROVE  \A o \in Nodes : seen'[o] >= seen[o]
    <3>1. node[n].read \in Nat /\ seen[n] <= node[n].read
      BY <1>1, <2>2 DEF Publish, IInv, Good, TypeOK, Cycle
    <3>2. seen' = [seen EXCEPT ![n] = node[n].read] \/ seen' = seen
      BY <2>2 DEF Publish
    <3> QED
      BY <2>1, <3>1, <3>2
  <2>3. UNCHANGED seen \/ \E n \in Nodes : Publish(n)
    BY <1>1 DEF vars, Next, Work, Change, Command, Poll, Mark, ResolveClient,
       RunCommand, MarkThrows, ResolveThrows, Degrade, Recover, Stop, Close,
       Restart, Die, LeaseExpires
  <2> QED
    BY <2>1, <2>2, <2>3
<1>2. IInv /\ [Next]_vars => [\A n \in Nodes : seen'[n] >= seen[n]]_vars
  BY <1>1
<1> QED
  BY <1>2, AlwaysIInv, PTL DEF Spec, NeverBackwards

(* A settled row is never written again, whoever holds which lease and     *)
(* however the instance ids are shared.                                    *)
THEOREM SettledStaysSettled == Spec => FinalIsFinal
<1> DEFINE Kept == \A e \in Events : row[e].st \in Settled => row'[e] = row[e]
<1>1. ASSUME IInv, [Next]_vars
      PROVE  Kept
  <2>0. row \in [Events -> Row]
    BY <1>1 DEF IInv, TypeOK
  <2>1. CASE \E e \in ClientEvents : Change(e)
    BY <2>0, <2>1 DEF Change, Settled, Events
  <2>2. CASE \E e \in Commands : Command(e)
    BY <2>0, <2>2 DEF Command, Settled, Events
  <2>3. CASE \E n \in Nodes : Work(n)
    <3>1. PICK n \in Nodes : Work(n)
      BY <2>3
    <3>2. CASE Poll(n)
      BY <2>0, <3>2 DEF Poll, Claimable, Settled
    <3>3. CASE Mark(n)
      BY <2>0, <3>3 DEF Mark, Holds, Settled
    <3>4. CASE \/ Publish(n)
               \/ \E e \in ClientEvents : ResolveClient(n, e)
               \/ \E e \in Commands : RunCommand(n, e)
      BY <3>4 DEF Publish, ResolveClient, RunCommand
    <3> QED
      BY <3>1, <3>2, <3>3, <3>4 DEF Work
  <2>4. CASE \E n \in Nodes :
               \/ MarkThrows(n) \/ \E e \in Events : ResolveThrows(n, e)
               \/ Degrade(n) \/ Recover(n) \/ Stop(n) \/ Close(n) \/ Restart(n)
               \/ \E up \in {"ready", "stuck"} : Die(n, up)
    BY <2>4 DEF MarkThrows, ResolveThrows, Degrade, Recover, Stop, Close, Restart, Die
  <2>5. CASE \E e \in Events, slow \in BOOLEAN : LeaseExpires(e, slow)
    BY <2>0, <2>5 DEF LeaseExpires, Settled
  <2>6. CASE UNCHANGED vars
    BY <2>6 DEF vars
  <2> QED
    BY <1>1, <2>1, <2>2, <2>3, <2>4, <2>5, <2>6 DEF Next
<1>2. IInv /\ [Next]_vars =>
        [\A e \in Events : row[e].st \in Settled => row'[e] = row[e]]_vars
  BY <1>1
<1> QED
  BY <1>2, AlwaysIInv, PTL DEF Spec, FinalIsFinal

-----------------------------------------------------------------------------
(* No event is sent more often than faults allow.  Whoever may still send  *)
(* event e holds a ticket for it: a node that has it in its batch, or the  *)
(* row itself, while it waits to be claimed or no node that stays up works *)
(* on it.  A ticket is passed on or used up; only a fault makes a new one. *)

Up(n) == infra[n] \notin {"stopping", "closed"}

Waiting(n, e) ==
  /\ e \in node[n].todo
  /\ ~(node[n].pc \in {"mark", "caught"} /\ node[n].ev = e /\ node[n].out # "pending")

AtWorkOn(n, e) == e \in node[n].todo /\ Holds(n, e) /\ Up(n)

Free(e) ==
  \/ row[e].st \in {"none", "pending"}
  \/ /\ row[e].st = "processing"
     /\ row[e].lease = "expired" \/ ~\E n \in Nodes : AtWorkOn(n, e)

Places     == Nodes \cup {Nobody}
Tickets(e) == {x \in Places : IF x = Nobody THEN Free(e) ELSE Waiting(x, e)}

Affordable(e) == ran[e] + Cardinality(Tickets(e)) <= 1 + faults
Resting       == \A n \in Nodes : node[n].pc = "idle" => node[n].todo = {}

BInv == IInv /\ Resting /\ \A e \in Events : Affordable(e)

(* What a step may do to the tickets of an event. *)
Moves(e) ==
  \/ /\ ran'[e] = ran[e] /\ faults' >= faults
     /\ Tickets(e)' \subseteq Tickets(e)
  \/ /\ ran'[e] = ran[e] /\ faults' = faults + 1
     /\ \E y \in Places : Tickets(e)' \subseteq Tickets(e) \cup {y}
  \/ /\ ran'[e] = ran[e] /\ faults' = faults
     /\ \E x \in Tickets(e), y \in Places :
          Tickets(e)' \subseteq (Tickets(e) \ {x}) \cup {y}
  \/ /\ ran'[e] = ran[e] + 1 /\ faults' = faults
     /\ \E x \in Tickets(e) : Tickets(e)' \subseteq Tickets(e) \ {x}

LEMMA FewTickets ==
  ASSUME NEW S, S \subseteq Places
  PROVE  IsFiniteSet(S) /\ Cardinality(S) \in Nat
<1>1. IsFiniteSet(Places)
  BY ConstantsOK, FS_AddElement DEF Places
<1> QED BY <1>1, FS_Subset, FS_CardinalityType

LEMMA StillAffordable ==
  ASSUME IInv, IInv', NEW e \in Events, Affordable(e), Moves(e)
  PROVE  Affordable(e)'
<1> DEFINE S == Tickets(e)
           T == Tickets(e)'
<1>1. /\ IsFiniteSet(S) /\ Cardinality(S) \in Nat
      /\ IsFiniteSet(T) /\ Cardinality(T) \in Nat
  <2>1. S \subseteq Places /\ T \subseteq Places
    BY DEF Tickets
  <2> QED BY <2>1, FewTickets
<1>2. /\ ran[e] \in Nat /\ ran'[e] \in Nat /\ faults \in Nat /\ faults' \in Nat
      /\ ran[e] + Cardinality(S) <= 1 + faults
  BY DEF IInv, TypeOK, Affordable
<1> SUFFICES ran'[e] + Cardinality(T) <= 1 + faults'
  BY DEF Affordable
<1> HIDE DEF S, T
<1>3. ASSUME T \subseteq S PROVE Cardinality(T) <= Cardinality(S)
  BY <1>1, <1>3, FS_Subset
<1>4. ASSUME NEW y, T \subseteq S \cup {y} PROVE Cardinality(T) <= Cardinality(S) + 1
  <2>1. /\ IsFiniteSet(S \cup {y})
        /\ Cardinality(S \cup {y}) \in {Cardinality(S), Cardinality(S) + 1}
    BY <1>1, FS_AddElement
  <2>2. Cardinality(T) <= Cardinality(S \cup {y})
    BY <1>4, <2>1, FS_Subset
  <2> QED BY <1>1, <2>1, <2>2
<1>5. ASSUME NEW x \in S, T \subseteq S \ {x} PROVE Cardinality(T) + 1 <= Cardinality(S)
  <2>1. IsFiniteSet(S \ {x}) /\ Cardinality(S \ {x}) = Cardinality(S) - 1
    BY <1>1, <1>5, FS_RemoveElement
  <2>2. Cardinality(T) <= Cardinality(S \ {x})
    BY <1>5, <2>1, FS_Subset
  <2> QED BY <1>1, <2>1, <2>2
<1>6. ASSUME NEW x \in S, NEW y, T \subseteq (S \ {x}) \cup {y}
      PROVE  Cardinality(T) <= Cardinality(S)
  <2> DEFINE R == S \ {x}
  <2>1. IsFiniteSet(R) /\ Cardinality(R) = Cardinality(S) - 1
    BY <1>1, <1>6, FS_RemoveElement
  <2>2. /\ IsFiniteSet(R \cup {y}) /\ Cardinality(R \cup {y}) <= Cardinality(R) + 1
        /\ Cardinality(R) \in Nat
    BY <2>1, FS_AddElement, FS_CardinalityType
  <2>3. Cardinality(R \cup {y}) \in Nat /\ Cardinality(T) <= Cardinality(R \cup {y})
    BY <1>6, <2>2, FS_Subset, FS_CardinalityType
  <2> HIDE DEF R
  <2> QED BY <1>1, <2>1, <2>2, <2>3
<1>7. CASE ran'[e] = ran[e] /\ faults' >= faults /\ T \subseteq S
  BY <1>1, <1>2, <1>3, <1>7
<1>8. CASE /\ ran'[e] = ran[e] /\ faults' = faults + 1
           /\ \E y \in Places : T \subseteq S \cup {y}
  BY <1>1, <1>2, <1>4, <1>8
<1>9. CASE /\ ran'[e] = ran[e] /\ faults' = faults
           /\ \E x \in S, y \in Places : T \subseteq (S \ {x}) \cup {y}
  BY <1>1, <1>2, <1>6, <1>9
<1>10. CASE /\ ran'[e] = ran[e] + 1 /\ faults' = faults
            /\ \E x \in S : T \subseteq S \ {x}
  BY <1>1, <1>2, <1>5, <1>10
<1> QED BY <1>7, <1>8, <1>9, <1>10 DEF Moves, S, T

(* Tickets, node by node. *)
LEMMA TicketsAre ==
  ASSUME NEW e
  PROVE  /\ \A n \in Nodes : n \in Tickets(e) <=> Waiting(n, e)
         /\ Nobody \in Tickets(e) <=> Free(e)
         /\ Tickets(e) \subseteq Places /\ Tickets(e)' \subseteq Places
         /\ \A n \in Nodes : n \in Tickets(e)' <=> Waiting(n, e)'
         /\ Nobody \in Tickets(e)' <=> Free(e)'
BY ConstantsOK DEF Tickets, Places

(* The node of one process changes: the tickets of the others stay. *)
LEMMA OthersWait ==
  ASSUME NEW n \in Nodes, \A o \in Nodes \ {n} : node'[o] = node[o], NEW e
  PROVE  \A o \in Nodes \ {n} : Waiting(o, e)' <=> Waiting(o, e)
BY DEF Waiting

(* A row stays, and so does what each node has in its batch. *)
LEMMA FreeStays ==
  ASSUME NEW e \in Events, row'[e] = row[e], name' = name,
         \A o \in Nodes : AtWorkOn(o, e) => (e \in node'[o].todo /\ Up(o)')
  PROVE  Free(e)' => Free(e)
<1>1. \A o \in Nodes : AtWorkOn(o, e) => AtWorkOn(o, e)'
  BY DEF AtWorkOn, Holds
<1> QED BY <1>1 DEF Free

LEMMA AppearMoves ==
  ASSUME IInv, NEW x \in Events, row[x].st = "none", row' = [row EXCEPT ![x] = Unclaimed("pending")],
         UNCHANGED <<name, node, infra, ran, faults>>, NEW e \in Events
  PROVE  Moves(e)
<1>1. Free(e)' => Free(e)
  <2>1. CASE e = x
    BY <2>1 DEF Free
  <2>2. CASE e # x
    <3>1. row'[e] = row[e]
      BY <2>2 DEF IInv, TypeOK
    <3> QED BY <3>1, FreeStays DEF AtWorkOn, Up
  <2> QED BY <2>1, <2>2
<1>2. \A n \in Nodes : Waiting(n, e)' <=> Waiting(n, e)
  BY DEF Waiting
<1>3. Tickets(e)' \subseteq Tickets(e)
  BY <1>1, <1>2, TicketsAre DEF Places
<1>4. faults' >= faults
  BY DEF IInv, TypeOK
<1> QED BY <1>3, <1>4 DEF Moves

LEMMA PollMoves ==
  ASSUME BInv, NEW n \in Nodes, Poll(n), NEW e \in Events
  PROVE  Moves(e)
<1>1. PICK es \in SUBSET {y \in Events : Claimable(y)} :
        /\ node[n].pc = "idle" /\ infra[n] = "ready"
        /\ row' = [y \in Events |->
             IF y \in es THEN [st |-> "processing", by |-> name[n], lease |-> "live"]
             ELSE row[y]]
        /\ node' = [node EXCEPT ![n] =
             [pc |-> "next", todo |-> es, ev |-> Nobody, read |-> 0, out |-> "none"]]
  BY DEF Poll
<1>2. UNCHANGED <<name, infra, ran, faults>>
  BY DEF Poll
<1>3. /\ node'[n].pc = "next" /\ node'[n].todo = es
      /\ \A o \in Nodes \ {n} : node'[o] = node[o]
  BY <1>1 DEF BInv, IInv, TypeOK
<1>4. node[n].todo = {}
  BY <1>1 DEF BInv, Resting
<1>5. \A o \in Nodes \ {n} : Waiting(o, e)' <=> Waiting(o, e)
  BY <1>3, OthersWait
<1>6. faults' >= faults
  BY <1>2 DEF BInv, IInv, TypeOK
<1>7. CASE e \in es
  <2>1. Claimable(e)
    BY <1>7
  <2>2. Free(e)
    BY <2>1 DEF Claimable, Free
  <2>3. row'[e] = [st |-> "processing", by |-> name[n], lease |-> "live"]
    BY <1>1, <1>7
  <2>4. AtWorkOn(n, e)'
    BY <1>1, <1>2, <1>3, <1>7, <2>3 DEF AtWorkOn, Holds, Up
  <2>5. ~Free(e)'
    BY <2>3, <2>4 DEF Free
  <2>6. Nobody \in Tickets(e) /\ Nobody \notin Tickets(e)'
    BY <2>2, <2>5, TicketsAre
  <2>7. Tickets(e)' \subseteq (Tickets(e) \ {Nobody}) \cup {n}
    BY <1>5, <2>6, TicketsAre DEF Places
  <2>8. n \in Places
    BY DEF Places
  <2> QED BY <1>2, <2>6, <2>7, <2>8 DEF Moves
<1>8. CASE e \notin es
  <2>1. ~Waiting(n, e)'
    BY <1>3, <1>8 DEF Waiting
  <2>2. row'[e] = row[e]
    BY <1>1, <1>8
  <2>3. \A o \in Nodes : AtWorkOn(o, e) => (e \in node'[o].todo /\ Up(o)')
    BY <1>2, <1>3, <1>4 DEF AtWorkOn, Up
  <2>4. Free(e)' => Free(e)
    BY <1>2, <2>2, <2>3, FreeStays
  <2>5. Tickets(e)' \subseteq Tickets(e)
    BY <1>5, <2>1, <2>4, TicketsAre DEF Places
  <2> QED BY <1>2, <1>6, <2>5 DEF Moves
<1> QED BY <1>7, <1>8

(* A step inside a cycle that keeps the batch and the rows: what counts is *)
(* whether the node still waits to send the event.                         *)
LEMMA CycleTickets ==
  ASSUME IInv, NEW n \in Nodes, NEW x, node' = [node EXCEPT ![n] = x],
         x.todo = node[n].todo, UNCHANGED <<name, row, infra>>, NEW e \in Events
  PROVE  /\ Tickets(e)' \subseteq Tickets(e) \cup {n}
         /\ (Waiting(n, e)' => Waiting(n, e)) => Tickets(e)' \subseteq Tickets(e)
         /\ ~Waiting(n, e)' => Tickets(e)' \subseteq Tickets(e) \ {n}
         /\ node'[n] = x
<1>1. node'[n] = x /\ \A o \in Nodes \ {n} : node'[o] = node[o]
  BY DEF IInv, TypeOK
<1>2. \A o \in Nodes \ {n} : Waiting(o, e)' <=> Waiting(o, e)
  BY <1>1, OthersWait
<1>3. \A o \in Nodes : AtWorkOn(o, e) => (e \in node'[o].todo /\ Up(o)')
  BY <1>1 DEF AtWorkOn, Up
<1>4. Free(e)' => Free(e)
  BY <1>3, FreeStays
<1> QED BY <1>1, <1>2, <1>4, TicketsAre DEF Places

LEMMA ResolveMoves ==
  ASSUME IInv, NEW n \in Nodes, NEW c \in ClientEvents, ResolveClient(n, c), NEW e \in Events
  PROVE  Moves(e)
<1>1. PICK out \in {"emitted", "skipped"} : Take(n, c, "publish", version, out)
  BY DEF ResolveClient
<1>2. PICK x : x = [pc |-> "publish", todo |-> node[n].todo, ev |-> c,
                    read |-> version, out |-> out]
  OBVIOUS
<1>3. node' = [node EXCEPT ![n] = x] /\ x.todo = node[n].todo /\ node[n].pc = "next"
  BY <1>1, <1>2 DEF Take
<1>4. UNCHANGED <<name, row, infra, ran, faults>>
  BY DEF ResolveClient
<1>5. node'[n] = x
  BY <1>3, <1>4, CycleTickets
<1>6. Waiting(n, e)' <=> Waiting(n, e)
  BY <1>2, <1>3, <1>5 DEF Waiting
<1>7. Tickets(e)' \subseteq Tickets(e)
  BY <1>3, <1>4, <1>6, CycleTickets
<1>8. faults' >= faults
  BY <1>4 DEF IInv, TypeOK
<1> QED BY <1>4, <1>7, <1>8 DEF Moves

LEMMA RunMoves ==
  ASSUME IInv, NEW n \in Nodes, NEW c \in Commands, RunCommand(n, c), NEW e \in Events
  PROVE  Moves(e)
<1>1. PICK x : x = [pc |-> "mark", todo |-> node[n].todo, ev |-> c,
                    read |-> 0, out |-> "emitted"]
  OBVIOUS
<1>2. /\ node' = [node EXCEPT ![n] = x] /\ x.todo = node[n].todo
      /\ node[n].pc = "next" /\ c \in node[n].todo
  BY <1>1 DEF RunCommand, Take
<1>3. UNCHANGED <<name, row, infra, faults>>
  BY DEF RunCommand
<1>4. node'[n] = x
  BY <1>2, <1>3, CycleTickets
<1>5. faults' >= faults
  BY <1>3 DEF IInv, TypeOK
<1>6. c \in Events
  BY DEF Events
<1>7. ran' = [ran EXCEPT ![c] = @ + 1] \/ ran' = ran
  BY DEF RunCommand
<1>8. CASE e = c
  <2>1. Waiting(n, e) /\ ~Waiting(n, e)'
    BY <1>1, <1>2, <1>4, <1>8 DEF Waiting
  <2>2. n \in Tickets(e) /\ Tickets(e)' \subseteq Tickets(e) \ {n}
    BY <1>2, <1>3, <2>1, CycleTickets, TicketsAre
  <2>3. ran'[e] = ran[e] + 1 \/ ran'[e] = ran[e]
    BY <1>7, <1>8 DEF IInv, TypeOK
  <2>4. Tickets(e)' \subseteq Tickets(e)
    BY <2>2
  <2> QED BY <1>3, <1>5, <2>2, <2>3, <2>4 DEF Moves
<1>9. CASE e # c
  <2>1. Waiting(n, e)' <=> Waiting(n, e)
    BY <1>1, <1>2, <1>4, <1>9 DEF Waiting
  <2>2. Tickets(e)' \subseteq Tickets(e)
    BY <1>2, <1>3, <2>1, CycleTickets
  <2>3. ran'[e] = ran[e]
    BY <1>7, <1>9 DEF IInv, TypeOK
  <2> QED BY <1>5, <2>2, <2>3 DEF Moves
<1> QED BY <1>8, <1>9

LEMMA PublishMoves ==
  ASSUME IInv, NEW n \in Nodes, Publish(n), NEW e \in Events
  PROVE  Moves(e)
<1>1. PICK x : x = [node[n] EXCEPT !.pc = "mark", !.out = Outcome(n)]
  OBVIOUS
<1>2. PICK c : c = node[n].ev
  OBVIOUS
<1>3. node[n] \in Cycle /\ node[n].pc = "publish" /\ c \in node[n].todo
  BY <1>2 DEF Publish, IInv, TypeOK, Good
<1>4. /\ x.pc = "mark" /\ x.out = Outcome(n) /\ x.todo = node[n].todo /\ x.ev = c
      /\ node' = [node EXCEPT ![n] = x]
  BY <1>1, <1>2, <1>3 DEF Cycle, Publish
<1>5. UNCHANGED <<name, row, infra, faults>>
  BY DEF Publish
<1>6. node'[n] = x
  BY <1>4, <1>5, CycleTickets
<1>7. faults' >= faults
  BY <1>5 DEF IInv, TypeOK
<1>8. Waiting(n, e)' => Waiting(n, e)
  BY <1>3, <1>4, <1>6 DEF Waiting
<1>9. Tickets(e)' \subseteq Tickets(e)
  BY <1>4, <1>5, <1>8, CycleTickets
<1>10. CASE infra[n] = "ready" /\ node[n].out = "emitted" /\ e = c
  <2>1. ran' = [ran EXCEPT ![e] = @ + 1] /\ Outcome(n) = "emitted"
    BY <1>2, <1>10 DEF Publish, Outcome
  <2>2. Waiting(n, e) /\ ~Waiting(n, e)'
    BY <1>3, <1>4, <1>6, <1>10, <2>1 DEF Waiting
  <2>3. n \in Tickets(e) /\ Tickets(e)' \subseteq Tickets(e) \ {n}
    BY <1>4, <1>5, <2>2, CycleTickets, TicketsAre
  <2>4. ran'[e] = ran[e] + 1
    BY <2>1 DEF IInv, TypeOK
  <2> QED BY <1>5, <2>3, <2>4 DEF Moves
<1>11. CASE ~(infra[n] = "ready" /\ node[n].out = "emitted" /\ e = c)
  <2>1. ran' = ran \/ (e # c /\ ran' = [ran EXCEPT ![c] = @ + 1])
    BY <1>2, <1>11 DEF Publish
  <2>2. ran'[e] = ran[e]
    BY <2>1 DEF IInv, TypeOK
  <2> QED BY <1>7, <1>9, <2>2 DEF Moves
<1> QED BY <1>10, <1>11

(* A node gives its batch up, by a fault. *)
LEMMA RestMoves ==
  ASSUME IInv, NEW n \in Nodes, node' = [node EXCEPT ![n] = IdleCycle],
         ran' = ran, faults' = faults + 1, NEW e \in Events
  PROVE  Moves(e)
<1>1. node'[n].todo = {} /\ \A o \in Nodes \ {n} : node'[o] = node[o]
  BY DEF IInv, TypeOK, IdleCycle
<1>2. \A o \in Nodes : Waiting(o, e)' => Waiting(o, e)
  BY <1>1, OthersWait DEF Waiting
<1>3. Tickets(e)' \subseteq Tickets(e) \cup {Nobody} /\ Nobody \in Places
  BY <1>2, TicketsAre DEF Places
<1> QED BY <1>3 DEF Moves

LEMMA GoOnTodo ==
  ASSUME IInv, NEW n \in Nodes, GoOn(n)
  PROVE  /\ \A o \in Nodes \ {n} : node'[o] = node[o]
         /\ node'[n].pc \in {"idle", "next"}
         /\ node'[n].todo = node[n].todo \ {node[n].ev}
         /\ node'[n] = IdleCycle \/ node'[n].pc = "next"
<1> DEFINE rest == node[n].todo \ {node[n].ev}
           more == [IdleCycle EXCEPT !.pc = "next", !.todo = rest]
           x == IF rest = {} THEN IdleCycle ELSE more
<1>1. more.pc = "next" /\ more.todo = rest
  BY DEF IdleCycle
<1>2. IdleCycle.pc = "idle" /\ IdleCycle.todo = {}
  BY DEF IdleCycle
<1>3. /\ x.pc \in {"idle", "next"} /\ x.todo = rest
      /\ x = IdleCycle \/ x.pc = "next"
  BY <1>1, <1>2
<1>4. node' = [node EXCEPT ![n] = x]
  BY DEF GoOn
<1> QED
  BY <1>3, <1>4 DEF IInv, TypeOK

LEMMA ThrowMoves ==
  ASSUME IInv, NEW n \in Nodes, NEW c \in Events, ResolveThrows(n, c), NEW e \in Events
  PROVE  Moves(e)
<1>1. PICK out \in {"failed", "pending"} : Take(n, c, "caught", 0, out)
  BY DEF ResolveThrows
<1>2. PICK x : x = [pc |-> "caught", todo |-> node[n].todo, ev |-> c,
                    read |-> 0, out |-> out]
  OBVIOUS
<1>3. node' = [node EXCEPT ![n] = x] /\ x.todo = node[n].todo
  BY <1>1, <1>2 DEF Take
<1>4. UNCHANGED <<name, row, infra, ran>> /\ faults' = faults + 1
  BY DEF ResolveThrows, Fault
<1>5. Tickets(e)' \subseteq Tickets(e) \cup {n} /\ n \in Places
  BY <1>3, <1>4, CycleTickets DEF Places
<1> QED BY <1>4, <1>5 DEF Moves

LEMMA MarkThrowsMoves ==
  ASSUME IInv, NEW n \in Nodes, MarkThrows(n), NEW e \in Events
  PROVE  Moves(e)
<1>1. UNCHANGED <<name, row, infra, ran>> /\ faults' = faults + 1
  BY DEF MarkThrows, Fault
<1>2. CASE /\ node[n].pc = "mark"
           /\ node' = [node EXCEPT ![n] = [@ EXCEPT !.pc = "caught", !.out = "pending"]]
  <2>1. PICK x : x = [node[n] EXCEPT !.pc = "caught", !.out = "pending"]
    OBVIOUS
  <2>2. x.todo = node[n].todo /\ node' = [node EXCEPT ![n] = x]
    BY <1>2, <2>1 DEF IInv, TypeOK, Cycle
  <2>3. Tickets(e)' \subseteq Tickets(e) \cup {n} /\ n \in Places
    BY <1>1, <2>2, CycleTickets DEF Places
  <2> QED BY <1>1, <2>3 DEF Moves
<1>3. CASE node' = [node EXCEPT ![n] = IdleCycle]
  BY <1>1, <1>3, RestMoves
<1> QED BY <1>2, <1>3 DEF MarkThrows

LEMMA MarkMoves ==
  ASSUME IInv, NEW n \in Nodes, Mark(n), NEW e \in Events
  PROVE  Moves(e)
<1>1. PICK c : c = node[n].ev
  OBVIOUS
<1>2. /\ node[n].pc \in {"mark", "caught"} /\ GoOn(n)
      /\ row' = IF Holds(n, c) THEN [row EXCEPT ![c] = Unclaimed(node[n].out)] ELSE row
      /\ UNCHANGED <<name, infra, ran, faults>>
  BY <1>1 DEF Mark
<1>3. c \in node[n].todo /\ node[n].out \in {"pending"} \cup Settled
  BY <1>1, <1>2 DEF IInv, TypeOK, Good, Cycle
<1>4. /\ \A o \in Nodes \ {n} : node'[o] = node[o]
      /\ node'[n].pc \in {"idle", "next"} /\ node'[n].todo = node[n].todo \ {c}
  BY <1>1, <1>2, GoOnTodo
<1>5. \A o \in Nodes \ {n} : Waiting(o, e)' <=> Waiting(o, e)
  BY <1>4, OthersWait
<1>6. faults' >= faults
  BY <1>2 DEF IInv, TypeOK
<1>7. CASE e # c
  <2>1. Waiting(n, e)' => Waiting(n, e)
    BY <1>1, <1>4, <1>7 DEF Waiting
  <2>2. row'[e] = row[e]
    BY <1>2, <1>7 DEF IInv, TypeOK
  <2>3. \A o \in Nodes : AtWorkOn(o, e) => (e \in node'[o].todo /\ Up(o)')
    BY <1>2, <1>4, <1>7 DEF AtWorkOn, Up
  <2>4. Free(e)' => Free(e)
    BY <1>2, <2>2, <2>3, FreeStays
  <2>5. Tickets(e)' \subseteq Tickets(e)
    BY <1>5, <2>1, <2>4, TicketsAre DEF Places
  <2> QED BY <1>2, <1>6, <2>5 DEF Moves
<1>8. CASE e = c /\ ~Holds(n, c)
  <2>1. ~Waiting(n, e)'
    BY <1>4, <1>8 DEF Waiting
  <2>2. row'[e] = row[e]
    BY <1>2, <1>8
  <2>3. \A o \in Nodes : AtWorkOn(o, e) => (e \in node'[o].todo /\ Up(o)')
    BY <1>2, <1>4, <1>8 DEF AtWorkOn, Up
  <2>4. Free(e)' => Free(e)
    BY <1>2, <2>2, <2>3, FreeStays
  <2>5. Tickets(e)' \subseteq Tickets(e)
    BY <1>5, <2>1, <2>4, TicketsAre DEF Places
  <2> QED BY <1>2, <1>6, <2>5 DEF Moves
<1>9. CASE e = c /\ Holds(n, c)
  <2>1. ~Waiting(n, e)'
    BY <1>4, <1>9 DEF Waiting
  <2>2. row'[e].st = node[n].out
    BY <1>2, <1>9 DEF IInv, TypeOK, Unclaimed
  <2>3. CASE node[n].out = "pending"
    <3>1. Waiting(n, e)
      BY <1>3, <1>9, <2>3 DEF Waiting
    <3>2. n \in Tickets(e)
      BY <3>1, TicketsAre
    <3>3. Tickets(e)' \subseteq (Tickets(e) \ {n}) \cup {Nobody}
      BY <1>5, <2>1, TicketsAre DEF Places
    <3>4. Nobody \in Places
      BY DEF Places
    <3> QED BY <1>2, <3>2, <3>3, <3>4 DEF Moves
  <2>4. CASE node[n].out \in Settled
    <3>1. ~Free(e)'
      BY <2>2, <2>4 DEF Free, Settled
    <3>2. Tickets(e)' \subseteq Tickets(e)
      BY <1>5, <2>1, <3>1, TicketsAre DEF Places
    <3> QED BY <1>2, <1>6, <3>2 DEF Moves
  <2> QED BY <1>3, <2>3, <2>4
<1> QED BY <1>7, <1>8, <1>9

LEMMA LeaseMoves ==
  ASSUME IInv, NEW c \in Events, NEW slow \in BOOLEAN, LeaseExpires(c, slow), NEW e \in Events
  PROVE  Moves(e)
<1>1. /\ row[c].st = "processing" /\ row[c].lease = "live"
      /\ slow <=> (\E n \in Nodes : c \in node[n].todo /\ Holds(n, c))
      /\ row' = [row EXCEPT ![c].lease = "expired"]
      /\ UNCHANGED <<name, node, infra, ran>>
  BY DEF LeaseExpires
<1>2. \A n \in Nodes : Waiting(n, e)' <=> Waiting(n, e)
  BY <1>1 DEF Waiting
<1>3. Tickets(e)' \subseteq Tickets(e) \cup {Nobody} /\ Nobody \in Places
  BY <1>2, TicketsAre DEF Places
<1>4. CASE slow
  <2>1. faults' = faults + 1
    BY <1>4 DEF LeaseExpires, Fault
  <2> QED BY <1>1, <1>3, <2>1 DEF Moves
<1>5. CASE ~slow
  <2>1. faults' = faults /\ faults \in Nat
    BY <1>5 DEF LeaseExpires, IInv, TypeOK
  <2>2. Free(e)' => Free(e)
    <3>1. CASE e = c
      BY <1>1, <1>5, <3>1 DEF Free, AtWorkOn
    <3>2. CASE e # c
      <4>1. row'[e] = row[e]
        BY <1>1, <3>2 DEF IInv, TypeOK
      <4> QED BY <1>1, <4>1, FreeStays DEF AtWorkOn, Up
    <3> QED BY <3>1, <3>2
  <2>3. Tickets(e)' \subseteq Tickets(e)
    BY <1>2, <2>2, TicketsAre DEF Places
  <2> QED BY <1>1, <2>1, <2>3 DEF Moves
<1> QED BY <1>4, <1>5

LEMMA InfraMoves ==
  ASSUME IInv, NEW n \in Nodes,
         \/ Degrade(n) \/ Recover(n) \/ Stop(n) \/ Close(n) \/ Restart(n)
         \/ \E up \in {"ready", "stuck"} : Die(n, up),
         NEW e \in Events
  PROVE  Moves(e)
<1>0. faults \in Nat /\ Nobody \in Places
  BY DEF IInv, TypeOK, Places
<1>1. CASE Degrade(n) \/ Recover(n) \/ Close(n)
  <2>1. /\ UNCHANGED <<name, row, node, ran>>
        /\ faults' \in {faults, faults + 1}
        /\ \A o \in Nodes : Up(o) => Up(o)'
    BY <1>1 DEF Degrade, Recover, Close, Fault, Up, IInv, TypeOK
  <2>2. Free(e)' => Free(e)
    BY <2>1, FreeStays DEF AtWorkOn
  <2>3. \A o \in Nodes : Waiting(o, e)' <=> Waiting(o, e)
    BY <2>1 DEF Waiting
  <2>4. Tickets(e)' \subseteq Tickets(e)
    BY <2>2, <2>3, TicketsAre DEF Places
  <2> QED BY <1>0, <2>1, <2>4 DEF Moves
<1>2. CASE Stop(n)
  <2>1. UNCHANGED <<node, ran>> /\ faults' = faults + 1
    BY <1>2 DEF Stop, Fault
  <2>2. \A o \in Nodes : Waiting(o, e)' <=> Waiting(o, e)
    BY <2>1 DEF Waiting
  <2>3. Tickets(e)' \subseteq Tickets(e) \cup {Nobody}
    BY <2>2, TicketsAre DEF Places
  <2> QED BY <1>0, <2>1, <2>3 DEF Moves
<1>3. CASE Restart(n)
  <2>1. /\ node' = [node EXCEPT ![n] = IdleCycle]
        /\ UNCHANGED <<name, row, ran, faults>>
        /\ infra[n] = "closed" /\ infra' = [infra EXCEPT ![n] = "ready"]
    BY <1>3 DEF Restart
  <2>2. node'[n].todo = {} /\ \A o \in Nodes \ {n} : node'[o] = node[o] /\ infra'[o] = infra[o]
    BY <2>1 DEF IInv, TypeOK, IdleCycle
  <2>3. \A o \in Nodes : AtWorkOn(o, e) => (e \in node'[o].todo /\ Up(o)')
    BY <2>1, <2>2 DEF AtWorkOn, Up
  <2>4. Free(e)' => Free(e)
    BY <2>1, <2>3, FreeStays
  <2>5. \A o \in Nodes : Waiting(o, e)' => Waiting(o, e)
    BY <2>2, OthersWait DEF Waiting
  <2>6. Tickets(e)' \subseteq Tickets(e)
    BY <2>4, <2>5, TicketsAre DEF Places
  <2> QED BY <1>0, <2>1, <2>6 DEF Moves
<1>4. CASE \E up \in {"ready", "stuck"} : Die(n, up)
  BY <1>4, RestMoves DEF Die, Fault
<1> QED BY <1>1, <1>2, <1>3, <1>4

(* A node at rest has nothing in its batch. *)
LEMMA StillResting == ASSUME BInv, [Next]_vars PROVE Resting'
<1>0. Resting /\ IInv /\ node \in [Nodes -> Cycle]
  BY DEF BInv, IInv, TypeOK
<1>1. CASE UNCHANGED node
  BY <1>0, <1>1 DEF Resting
<1>2. ASSUME NEW n \in Nodes, NEW x, node' = [node EXCEPT ![n] = x],
             x.pc # "idle" \/ x.todo = {}
      PROVE  Resting'
  BY <1>0, <1>2 DEF Resting
<1>3. IdleCycle.todo = {}
  BY DEF IdleCycle
<1>4. ASSUME NEW n \in Nodes, Work(n) \/ MarkThrows(n) \/ \E e \in Events : ResolveThrows(n, e)
      PROVE  Resting'
  <2>1. ASSUME NEW e, NEW pc \in {"publish", "mark", "caught"}, NEW read, NEW out,
               Take(n, e, pc, read, out)
        PROVE  Resting'
    BY <1>2, <2>1 DEF Take
  <2>2. CASE Poll(n)
    BY <1>2, <2>2 DEF Poll
  <2>3. CASE Publish(n) \/ (MarkThrows(n) /\ node[n].pc = "mark")
    <3>1. PICK x : /\ node' = [node EXCEPT ![n] = x]
                   /\ \/ x = [node[n] EXCEPT !.pc = "mark", !.out = Outcome(n)]
                      \/ x = [node[n] EXCEPT !.pc = "caught", !.out = "pending"]
      BY <2>3 DEF Publish, MarkThrows
    <3>2. x.pc # "idle"
      BY <1>0, <3>1 DEF Cycle
    <3> QED BY <1>2, <3>1, <3>2
  <2>4. CASE Mark(n)
    <3>1. /\ \A o \in Nodes \ {n} : node'[o] = node[o]
          /\ node'[n] = IdleCycle \/ node'[n].pc = "next"
      BY <1>0, <2>4, GoOnTodo DEF Mark
    <3> QED BY <1>0, <1>3, <3>1 DEF Resting
  <2>5. CASE MarkThrows(n) /\ node[n].pc # "mark"
    BY <1>2, <1>3, <2>5 DEF MarkThrows
  <2> QED
    BY <1>4, <2>1, <2>2, <2>3, <2>4, <2>5 DEF Work, ResolveClient, RunCommand, ResolveThrows
<1>5. ASSUME NEW n \in Nodes, Restart(n) \/ \E up \in {"ready", "stuck"} : Die(n, up)
      PROVE  Resting'
  BY <1>2, <1>3, <1>5 DEF Restart, Die
<1> QED
  BY <1>1, <1>4, <1>5 DEF Next, vars, Change, Command, LeaseExpires, Degrade, Recover,
     Stop, Close

LEMMA NextMoves == ASSUME BInv, [Next]_vars, NEW e \in Events PROVE Moves(e)
<1>0. IInv
  BY DEF BInv
<1>1. CASE (\E c \in ClientEvents : Change(c)) \/ (\E c \in Commands : Command(c))
  <2>1. PICK c \in Events : /\ row[c].st = "none"
                            /\ row' = [row EXCEPT ![c] = Unclaimed("pending")]
                            /\ UNCHANGED <<name, node, infra, ran, faults>>
    BY <1>1 DEF Change, Command, Events
  <2> QED BY <1>0, <2>1, AppearMoves
<1>2. CASE \E n \in Nodes : Work(n)
  BY <1>0, <1>2, PollMoves, PublishMoves, MarkMoves, ResolveMoves, RunMoves DEF Work
<1>3. CASE \E n \in Nodes : MarkThrows(n) \/ \E c \in Events : ResolveThrows(n, c)
  BY <1>0, <1>3, MarkThrowsMoves, ThrowMoves
<1>4. CASE \E n \in Nodes :
             \/ Degrade(n) \/ Recover(n) \/ Stop(n) \/ Close(n) \/ Restart(n)
             \/ \E up \in {"ready", "stuck"} : Die(n, up)
  BY <1>0, <1>4, InfraMoves
<1>5. CASE \E c \in Events, slow \in BOOLEAN : LeaseExpires(c, slow)
  BY <1>0, <1>5, LeaseMoves
<1>6. CASE UNCHANGED vars
  <2>1. Tickets(e)' = Tickets(e)
    BY <1>6 DEF vars, Tickets, Free, Waiting, AtWorkOn, Holds, Up
  <2> QED BY <1>0, <1>6, <2>1 DEF vars, Moves, IInv, TypeOK
<1> QED
  BY <1>1, <1>2, <1>3, <1>4, <1>5, <1>6 DEF Next

LEMMA InitBudget == Init => BInv
<1> SUFFICES ASSUME Init PROVE BInv
  OBVIOUS
<1>1. Resting
  BY DEF Init, Resting, IdleCycle
<1>2. ASSUME NEW e \in Events PROVE Affordable(e)
  <2>1. \A n \in Nodes : ~Waiting(n, e)
    BY DEF Init, Waiting, IdleCycle
  <2>2. Tickets(e) \subseteq {Nobody}
    BY <2>1, TicketsAre DEF Places
  <2>3. IsFiniteSet({Nobody}) /\ Cardinality({Nobody}) = 1
    BY FS_Singleton
  <2>4. Cardinality(Tickets(e)) <= 1
    BY <2>2, <2>3, FS_Subset
  <2>5. Cardinality(Tickets(e)) \in Nat
    BY FewTickets, TicketsAre
  <2> QED BY <2>4, <2>5 DEF Init, Affordable
<1> QED BY <1>1, <1>2, InitInv DEF BInv

(* However many processes share a name, each event is sent once and once   *)
(* more for each fault at most: a send uses a ticket up, and only a fault  *)
(* makes one.                                                              *)
THEOREM SentOnceAlways == Spec => []SentOnce
<1>1. BInv /\ [Next]_vars => BInv'
  <2> SUFFICES ASSUME BInv, [Next]_vars PROVE BInv'
    OBVIOUS
  <2>1. IInv /\ IInv'
    BY StepInv DEF BInv
  <2>2. \A e \in Events : Affordable(e)'
    BY <2>1, NextMoves, StillAffordable DEF BInv
  <2> QED BY <2>1, <2>2, StillResting DEF BInv
<1>2. BInv => SentOnce
  <2> SUFFICES ASSUME BInv, NEW e \in Events PROVE ran[e] <= 1 + faults
    BY DEF SentOnce
  <2>1. Cardinality(Tickets(e)) \in Nat
    BY FewTickets, TicketsAre
  <2>2. ran[e] \in Nat /\ faults \in Nat
    BY DEF BInv, IInv, TypeOK
  <2> QED BY <2>1, <2>2 DEF BInv, Affordable
<1> QED BY <1>1, <1>2, InitBudget, PTL DEF Spec

-----------------------------------------------------------------------------
(* Who is served, and who hears of what.                                   *)

CustomerRoom(o) == <<"app_identity", order[o].w, order[o].of>>

(* A session that was made is somebody's, and names its own. *)
SessionGood(c) ==
  /\ c.st # "none" => c.of \in Identities
  /\ c.st = "none" => c.member = None
  /\ IF c.member = None THEN c.washer = None /\ c.branch = None
     ELSE /\ c.kind = "operational" /\ c.member = <<c.of, c.washer>>
          /\ c.washer \in Washers /\ c.branch \in Branches
          /\ BranchWasher[c.branch] = c.washer

StaffGood == \A m \in Staff : \A b \in staff[m].at : BranchWasher[b] = WasherOf(m)

(* What a request x in flight knows. *)
Selecting(x) ==
  /\ x.pc \notin {"contexts", "make", "place", "served"}
  /\ x.s \in Sess /\ sess[x.s].st # "none" /\ sess[x.s].of = x.i
  /\ x.pc # "member" => /\ x.m = <<x.i, x.w>>
                        /\ x.w \in Washers /\ x.b \in Branches
  /\ x.pc \notin {"member", "branch"} => BranchWasher[x.b] = x.w

Using(x) ==
  /\ x.s \in Sess /\ sess[x.s].st # "none" /\ sess[x.s].member # None
  /\ x.pc \in {"member", "branch", "served"}
  /\ x.late => x.pc = "member" /\ ~Entitled(staff, x.s)

Fits(x) ==
  /\ x.pc \in {"contexts", "make"} =>
       x.i \in Identities /\ \A c \in x.ctxs : BranchWasher[c[2]] = c[1]
  /\ x.pc = "make" => x.w \in Washers
  /\ x.pc = "place" => x.i \in Identities /\ x.w \in Washers
  /\ x.pc \in {"member", "branch"} => x.op \in {"select", "staff"}
  /\ x.pc \in {"washer", "replace", "commit"} => x.op = "select"
  /\ x.pc = "served" => x.op = "staff"
  /\ x.op = "select" => Selecting(x)
  /\ x.op = "staff" => Using(x)

OrderGood(o) ==
  order[o] # NoOrder =>
    <<order[o].of, order[o].w>> \in cust /\ BranchWasher[order[o].b] = order[o].w

SocketGood(c) ==
  /\ c.st # "closed" => c.of \in Identities /\ c.w \in Washers
  /\ c.st # "closed" /\ c.was => <<c.of, c.w>> \in cust
  /\ c.st \in {"member", "alone", "open"} /\ c.was => c.hasMembership

RoomsGood ==
  /\ event.type \in AboutOrders => order[event.o] # NoOrder
  /\ rooms # {} =>
       /\ event # NoEvent
       /\ IF event.type \in AboutOrders
          THEN CustomerRoom(event.o) \in rooms
               /\ rooms \subseteq {CustomerRoom(event.o)} \cup StaffRooms
          ELSE rooms \subseteq StaffRooms

(* The invariant, by what is kept together. *)
PlacesPart ==
  /\ world \in Worlds
  /\ branch \in [Branches -> {"none", "active", "closed"}]
  /\ washer \subseteq Washers
StaffPart == staff \in [Staff -> Membership] /\ StaffGood
SessPart  == sess \in [Sess -> Session] /\ \A n \in Sess : SessionGood(sess[n])
ReqPart   == req \in [Slots -> Request] /\ \A r \in Slots : Fits(req[r])
OrderPart ==
  /\ cust \subseteq Identities \X Washers
  /\ order \in [Orders -> {NoOrder} \cup OrderRow]
  /\ \A o \in Orders : OrderGood(o)
SockPart  == sock \in [Socks -> Socket] /\ \A k \in Socks : SocketGood(sock[k])
EventPart == event \in {NoEvent} \cup EventRow /\ heard \in [Socks -> Nat] /\ RoomsGood

AudienceInv ==
  PlacesPart /\ StaffPart /\ SessPart /\ ReqPart /\ OrderPart /\ SockPart /\ EventPart

-----------------------------------------------------------------------------
LEMMA NoRequestFits == NoRequest \in Request /\ Fits(NoRequest)
  BY AudienceConstantsOK DEF NoRequest, Request, Fits

LEMMA InitAudience == AudienceInit => AudienceInv
<1> SUFFICES ASSUME AudienceInit PROVE AudienceInv
  OBVIOUS
<1>1. PlacesPart
  BY DEF AudienceInit, PlacesPart
<1>2. StaffPart
  BY AudienceConstantsOK DEF AudienceInit, StaffPart, StaffGood
<1>3. SessPart
  BY AudienceConstantsOK DEF AudienceInit, SessPart, SessionGood, NoSession, Session
<1>4. ReqPart
  BY NoRequestFits DEF AudienceInit, ReqPart
<1>5. OrderPart
  BY AudienceConstantsOK DEF AudienceInit, OrderPart, OrderGood
<1>6. SockPart
  BY AudienceConstantsOK DEF AudienceInit, SockPart, SocketGood, NoSocket, Socket
<1>7. EventPart
  BY DEF AudienceInit, EventPart, RoomsGood, NoEvent, Silence, AboutOrders
<1> QED
  BY <1>1, <1>2, <1>3, <1>4, <1>5, <1>6, <1>7 DEF AudienceInv

-----------------------------------------------------------------------------
(* Sessions once made stay as they are but for their end. *)
SessGrow ==
  /\ SessPart'
  /\ \A n \in Sess : sess[n].st # "none" =>
       /\ sess'[n].st # "none" /\ sess'[n].of = sess[n].of
       /\ sess'[n].member = sess[n].member /\ sess'[n].branch = sess[n].branch

LEMMA SessSame == SessPart /\ sess' = sess => SessGrow
  BY DEF SessGrow, SessPart, SessionGood

(* A new session, and perhaps the end of the one it replaces. *)
LEMMA SessMade ==
  ASSUME SessPart, NEW n \in Sess, sess[n].st = "none",
         NEW c \in Session, SessionGood(c), c.st # "none",
         sess' = [sess EXCEPT ![n] = c]
  PROVE  SessGrow
  BY DEF SessGrow, SessPart, SessionGood

LEMMA SessReplaced ==
  ASSUME SessPart, NEW n \in Sess, sess[n].st = "none",
         NEW s \in Sess, sess[s].st # "none",
         NEW c \in Session, SessionGood(c), c.st # "none",
         sess' = [sess EXCEPT ![s].st = "replaced", ![n] = c]
  PROVE  SessGrow
<1>1. s # n
  OBVIOUS
<1>2. PICK d : d = [sess[s] EXCEPT !.st = "replaced"]
  OBVIOUS
<1>3. /\ d \in Session /\ d.st = "replaced" /\ d.of = sess[s].of /\ d.kind = sess[s].kind
      /\ d.member = sess[s].member /\ d.branch = sess[s].branch
      /\ d.washer = sess[s].washer
  BY <1>2 DEF SessPart, Session
<1>4. SessionGood(d)
  BY <1>3 DEF SessPart, SessionGood
<1>5. sess' = [m \in Sess |-> IF m = n THEN c ELSE IF m = s THEN d ELSE sess[m]]
  BY <1>1, <1>2 DEF SessPart
<1> QED
  BY <1>3, <1>4, <1>5 DEF SessGrow, SessPart, SessionGood

LEMMA MadeOperational ==
  ASSUME NEW i \in Identities, NEW w \in Washers, NEW b \in Branches,
         BranchWasher[b] = w
  PROVE  LET c == Operational(i, <<i, w>>, w, b)
         IN c \in Session /\ SessionGood(c) /\ c.st # "none"
  BY AudienceConstantsOK DEF Operational, Session, SessionGood, Staff

LEMMA MadeCustomer ==
  ASSUME NEW i \in Identities
  PROVE  LET c == Operational(i, None, None, None)
         IN c \in Session /\ SessionGood(c) /\ c.st # "none"
  BY AudienceConstantsOK DEF Operational, Session, SessionGood

LEMMA MadeProvisional ==
  ASSUME NEW i \in Identities
  PROVE  LET c == Provisional(i)
         IN c \in Session /\ SessionGood(c) /\ c.st # "none"
  BY AudienceConstantsOK DEF Provisional, NoSession, Session, SessionGood

-----------------------------------------------------------------------------
(* A request alone moves. *)
One(r) == \E x \in Request : req' = [req EXCEPT ![r] = x] /\ Fits(x)

LEMMA FitsStays ==
  ASSUME SessGrow, staff' = staff, NEW x \in Request, Fits(x)
  PROVE  Fits(x)'
<1>1. x.op = "select" => Selecting(x)'
  BY DEF Fits, Selecting, SessGrow
<1>2. x.op = "staff" => Using(x)'
  BY DEF Fits, Using, SessGrow, Entitled
<1> QED
  BY <1>1, <1>2 DEF Fits

LEMMA AllStay ==
  ASSUME ReqPart, SessGrow, staff' = staff, req' = req
  PROVE  ReqPart'
<1>1. ASSUME NEW o \in Slots PROVE Fits(req[o])'
  <2>1. PICK y : y = req[o]
    OBVIOUS
  <2>2. y \in Request /\ Fits(y)
    BY <2>1 DEF ReqPart
  <2>3. Fits(y)'
    BY <2>2, FitsStays
  <2> QED
    BY <2>1, <2>3
<1> QED
  BY <1>1 DEF ReqPart

LEMMA OneMoves ==
  ASSUME ReqPart, SessGrow, staff' = staff, NEW r \in Slots, One(r)
  PROVE  ReqPart'
<1>1. PICK x \in Request : req' = [req EXCEPT ![r] = x] /\ Fits(x)
  BY DEF One
<1>2. req' \in [Slots -> Request]
  BY <1>1 DEF ReqPart
<1>3. ASSUME NEW o \in Slots PROVE Fits(req[o])'
  <2>1. PICK y : y = req'[o]
    OBVIOUS
  <2>2. y \in Request /\ Fits(y)
    BY <1>1, <2>1 DEF ReqPart
  <2>3. Fits(y)'
    BY <2>2, FitsStays
  <2> QED
    BY <2>1, <2>3
<1> QED
  BY <1>2, <1>3 DEF ReqPart

(* An answered request is forgotten. *)
LEMMA AnswerOne == ASSUME NEW r, Answer(r) PROVE One(r)
  BY NoRequestFits DEF Answer, One

-----------------------------------------------------------------------------
(* What nobody writes is kept. *)
LEMMA PlacesFrame ==
  PlacesPart /\ UNCHANGED <<world, branch, washer>> => PlacesPart'
  BY DEF PlacesPart

LEMMA StaffFrame == StaffPart /\ staff' = staff => StaffPart'
  BY DEF StaffPart, StaffGood

LEMMA OrderFrame ==
  OrderPart /\ order' = order /\ cust \subseteq cust'
    /\ cust' \subseteq Identities \X Washers => OrderPart'
  BY DEF OrderPart, OrderGood

LEMMA SockFrame == SockPart /\ sock' = sock /\ cust \subseteq cust' => SockPart'
  BY DEF SockPart, SocketGood

LEMMA EventFrame ==
  ASSUME EventPart, UNCHANGED <<event, rooms, heard>>,
         \A o \in Orders : order[o] # NoOrder =>
           order'[o] # NoOrder /\ order'[o].of = order[o].of /\ order'[o].w = order[o].w
  PROVE  EventPart'
<1>1. event.type \in AboutOrders => event.o \in Orders
  BY DEF EventPart, EventRow, NoEvent, AboutOrders
<1>2. event.type \in AboutOrders =>
        order'[event.o] # NoOrder /\ CustomerRoom(event.o)' = CustomerRoom(event.o)
  BY <1>1 DEF EventPart, RoomsGood, CustomerRoom
<1> QED
  BY <1>2 DEF EventPart, RoomsGood

-----------------------------------------------------------------------------
(* Requests, step by step.  Most move one request and nothing else.        *)
LEMMA QuietStep ==
  ASSUME AudienceInv, NEW r \in Slots, One(r),
         UNCHANGED <<world, ctxVars, cust, sess, liveVars>>
  PROVE  AudienceInv'
<1> USE DEF ctxVars, liveVars
<1>1. SessGrow
  BY SessSame DEF AudienceInv
<1>2. ReqPart'
  BY <1>1, OneMoves DEF AudienceInv
<1>3. PlacesPart' /\ StaffPart'
  BY PlacesFrame, StaffFrame DEF AudienceInv
<1>4. OrderPart' /\ SockPart'
  BY OrderFrame, SockFrame DEF AudienceInv, OrderPart
<1>5. EventPart'
  BY EventFrame DEF AudienceInv
<1> QED
  BY <1>1, <1>2, <1>3, <1>4, <1>5 DEF AudienceInv, SessGrow

(* A session is made or replaced, the request that did it is answered.     *)
LEMMA SessStep ==
  ASSUME AudienceInv, SessGrow, (\E r \in Slots : One(r)) \/ req' = req,
         cust \subseteq cust', cust' \subseteq Identities \X Washers,
         UNCHANGED <<world, ctxVars, liveVars>>
  PROVE  AudienceInv'
<1> USE DEF ctxVars, liveVars
<1>2. ReqPart'
  BY OneMoves, AllStay DEF AudienceInv
<1>3. PlacesPart' /\ StaffPart'
  BY PlacesFrame, StaffFrame DEF AudienceInv
<1>4. OrderPart' /\ SockPart'
  BY OrderFrame, SockFrame DEF AudienceInv
<1>5. EventPart'
  BY EventFrame DEF AudienceInv
<1> QED
  BY <1>2, <1>3, <1>4, <1>5 DEF AudienceInv, SessGrow

LEMMA SessionsOf ==
  ASSUME AudienceInv, NEW n \in Sess
  PROVE  /\ sess[n] \in Session /\ SessionGood(sess[n])
         /\ sess[n].st # "none" => sess[n].of \in Identities
  BY DEF AudienceInv, SessPart, SessionGood

LEMMA MemoryOf ==
  ASSUME AudienceInv, NEW r \in Slots
  PROVE  req[r] \in Request /\ Fits(req[r])
  BY DEF AudienceInv, ReqPart

(* The contexts read with the memberships are of the laundries they name.  *)
LEMMA MembershipsOne ==
  ASSUME AudienceInv, NEW r \in Slots, NEW op \in {"login", "contexts"},
         NEW i \in Identities, NEW n \in 0..MaxSessions, Memberships(r, op, i, n)
  PROVE  One(r)
<1> DEFINE mine == {m \in ActiveMemberships(i) : WasherOf(m) \in washer}
           full == {WasherOf(m) : m \in {x \in mine : staff[x].full}}
           ctxs == GrantedContexts(mine)
<1>1. full \subseteq Washers
  BY DEF ActiveMemberships, Staff, WasherOf
<1>2. ctxs \subseteq Washers \X Branches
  BY DEF GrantedContexts
<1>3. \A c \in ctxs : BranchWasher[c[2]] = c[1]
  BY DEF GrantedContexts, ActiveMemberships, AudienceInv, StaffPart, StaffGood
<1> HIDE DEF mine, full, ctxs
<1>4. PICK x : x = [NoRequest EXCEPT !.pc = "contexts", !.op = op, !.i = i, !.s = n,
                                     !.full = full, !.ctxs = ctxs]
  OBVIOUS
<1>5. x = [pc |-> "contexts", op |-> op, i |-> i, s |-> n, m |-> None, w |-> None,
           b |-> None, full |-> full, ctxs |-> ctxs, late |-> FALSE]
  BY <1>4 DEF NoRequest
<1>6. x \in Request
  BY <1>1, <1>2, <1>5 DEF Request
<1>7. Fits(x)
  BY <1>3, <1>5 DEF Fits
<1>8. req' = [req EXCEPT ![r] = x]
  BY <1>4 DEF Memberships, Arrive, mine, full, ctxs
<1> QED
  BY <1>6, <1>7, <1>8 DEF One

LEMMA StaffLoginStep ==
  ASSUME AudienceInv, NEW r \in Slots, NEW i \in Identities, StaffLogin(r, i)
  PROVE  AudienceInv'
<1>1. 0 \in 0..MaxSessions
  BY AudienceConstantsOK
<1>2. One(r)
  BY <1>1, MembershipsOne DEF StaffLogin
<1> QED
  BY <1>2, QuietStep DEF StaffLogin

LEMMA GetContextsStep ==
  ASSUME AudienceInv, NEW r \in Slots, NEW n \in Sess, GetContexts(r, n)
  PROVE  AudienceInv'
<1>1. n \in 0..MaxSessions /\ sess[n].of \in Identities
  BY AudienceConstantsOK, SessionsOf DEF Sess, GetContexts
<1>2. One(r)
  BY <1>1, MembershipsOne DEF GetContexts
<1> QED
  BY <1>2, QuietStep DEF GetContexts

LEMMA BranchesFoundStep ==
  ASSUME AudienceInv, NEW r \in Slots, NEW w \in Washers, BranchesFound(r, w)
  PROVE  AudienceInv'
<1>1. ActiveBranches(w) \subseteq Branches /\ \A b \in ActiveBranches(w) : BranchWasher[b] = w
  BY DEF ActiveBranches
<1>2. PICK f, c, v, p :
        /\ f = req[r].full \ {w} /\ c = req[r].ctxs \cup ({w} \X ActiveBranches(w))
        /\ v = (IF ActiveBranches(w) = {} THEN w ELSE req[r].w)
        /\ p = (IF ActiveBranches(w) = {} THEN "make" ELSE req[r].pc)
  OBVIOUS
<1>3. PICK x : x = [req[r] EXCEPT !.full = f, !.ctxs = c, !.w = v, !.pc = p]
  OBVIOUS
<1>9. c \subseteq Washers \X Branches /\ f \subseteq Washers
  BY <1>1, <1>2, MemoryOf DEF Request
<1>10. v \in Washers \cup {None} /\ p \in {"make", req[r].pc}
  BY <1>2, MemoryOf DEF Request
<1>4. /\ x \in Request /\ x.full = f /\ x.ctxs = c /\ x.w = v /\ x.pc = p
      /\ x.op = req[r].op /\ x.i = req[r].i /\ x.s = req[r].s
  BY <1>3, <1>9, <1>10, MemoryOf DEF Request
<1>5. req[r].pc = "contexts" /\ req[r].op \notin {"select", "staff"}
  BY MemoryOf DEF BranchesFound, Fits, Selecting, Using
<1>6. Fits(x)
  BY <1>1, <1>2, <1>4, <1>5, MemoryOf DEF Fits
<1>7. req' = [req EXCEPT ![r] = x]
  BY <1>2, <1>3 DEF BranchesFound
<1>8. One(r)
  BY <1>4, <1>6, <1>7 DEF One
<1> QED
  BY <1>8, QuietStep DEF BranchesFound

LEMMA BranchMadeStep ==
  ASSUME AudienceInv, NEW r \in Slots, BranchMade(r)
  PROVE  AudienceInv'
<1> USE DEF liveVars
<1>1. PlacesPart' /\ One(r)
  <2>1. CASE Answer(r) /\ UNCHANGED branch
    BY <2>1, AnswerOne, PlacesFrame DEF BranchMade, AudienceInv
  <2>2. CASE \E b \in Branches : /\ branch' = [branch EXCEPT ![b] = "active"]
                                 /\ BranchWasher[b] = req[r].w
                                 /\ req' = [req EXCEPT ![r].pc = "contexts", ![r].w = None,
                                              ![r].ctxs = @ \cup {<<req[r].w, b>>}]
    <3>1. PICK b \in Branches :
                 /\ branch' = [branch EXCEPT ![b] = "active"]
                 /\ BranchWasher[b] = req[r].w
                 /\ req' = [req EXCEPT ![r].pc = "contexts", ![r].w = None,
                              ![r].ctxs = @ \cup {<<req[r].w, b>>}]
      BY <2>2
    <3>2. PICK c : c = req[r].ctxs \cup {<<req[r].w, b>>}
      OBVIOUS
    <3>3. PICK x : x = [req[r] EXCEPT !.pc = "contexts", !.w = None, !.ctxs = c]
      OBVIOUS
    <3>4. req[r].w \in Washers /\ req[r].pc = "make" /\ req[r].op \notin {"select", "staff"}
      BY MemoryOf DEF BranchMade, Fits, Selecting, Using
    <3>5. c \subseteq Washers \X Branches /\ \A d \in c : BranchWasher[d[2]] = d[1]
      BY <3>1, <3>2, <3>4, MemoryOf DEF Request, Fits
    <3>6. /\ x \in Request /\ x.ctxs = c /\ x.w = None /\ x.pc = "contexts"
          /\ x.op = req[r].op /\ x.i = req[r].i
      BY <3>3, <3>5, MemoryOf DEF Request
    <3>7. Fits(x)
      BY <3>4, <3>5, <3>6, MemoryOf DEF Fits
    <3>8. req' = [req EXCEPT ![r] = x]
      BY <3>1, <3>2, <3>3
    <3>9. PlacesPart'
      BY <3>1 DEF AudienceInv, PlacesPart, BranchMade
    <3> QED
      BY <3>6, <3>7, <3>8, <3>9 DEF One
  <2> QED
    BY <2>1, <2>2 DEF BranchMade
<1>2. SessGrow
  BY SessSame DEF AudienceInv, BranchMade
<1>3. ReqPart' /\ StaffPart'
  BY <1>1, <1>2, OneMoves, StaffFrame DEF AudienceInv, BranchMade
<1>4. OrderPart' /\ SockPart'
  BY OrderFrame, SockFrame DEF AudienceInv, OrderPart, BranchMade
<1>5. EventPart'
  BY EventFrame DEF AudienceInv, BranchMade
<1> QED
  BY <1>1, <1>2, <1>3, <1>4, <1>5 DEF AudienceInv, SessGrow

LEMMA NextSessionNew == ASSUME NEW n, NextSession(n) PROVE sess[n].st = "none"
  BY DEF NextSession

LEMMA ContextsBuiltStep ==
  ASSUME AudienceInv, NEW r \in Slots, ContextsBuilt(r)
  PROVE  AudienceInv'
<1>1. /\ req[r].i \in Identities
      /\ \A c \in req[r].ctxs : c = <<c[1], c[2]>> /\ c[1] \in Washers /\ c[2] \in Branches
                                /\ BranchWasher[c[2]] = c[1]
  BY MemoryOf DEF ContextsBuilt, Fits, Request
<1>2. SessGrow
  <2>1. CASE UNCHANGED sess
    BY <2>1, SessSame DEF AudienceInv
  <2>2. ASSUME NEW n \in Sess, NextSession(n), NEW c \in req[r].ctxs,
               sess' = [sess EXCEPT ![n] =
                          Operational(req[r].i, <<req[r].i, c[1]>>, c[1], c[2])]
        PROVE  SessGrow
    BY <1>1, <2>2, MadeOperational, NextSessionNew, SessMade DEF AudienceInv
  <2>3. ASSUME NEW n \in Sess, NextSession(n),
               sess' = [sess EXCEPT ![n] = Provisional(req[r].i)]
        PROVE  SessGrow
    BY <1>1, <2>3, MadeProvisional, NextSessionNew, SessMade DEF AudienceInv
  <2> QED
    BY <2>1, <2>2, <2>3 DEF ContextsBuilt
<1>3. One(r)
  BY AnswerOne DEF ContextsBuilt
<1> QED
  BY <1>2, <1>3, SessStep DEF ContextsBuilt, AudienceInv, OrderPart

LEMMA SelectGuardStep ==
  ASSUME AudienceInv, NEW r \in Slots, NEW n \in Sess, SelectGuard(r, n)
  PROVE  AudienceInv'
<1>1. PICK x : x = [NoRequest EXCEPT !.pc = "member", !.op = "select", !.s = n,
                                     !.i = sess[n].of]
  OBVIOUS
<1>2. x = [pc |-> "member", op |-> "select", i |-> sess[n].of, s |-> n, m |-> None,
           w |-> None, b |-> None, full |-> {}, ctxs |-> {}, late |-> FALSE]
  BY <1>1 DEF NoRequest
<1>3. sess[n].st = "live" /\ sess[n].of \in Identities /\ n \in 0..MaxSessions
  BY SessionsOf, AudienceConstantsOK DEF SelectGuard, Sess
<1>4. x \in Request /\ Fits(x)
  BY <1>2, <1>3 DEF Request, Fits, Selecting
<1>5. One(r)
  BY <1>1, <1>4 DEF One, SelectGuard, Arrive
<1> QED
  BY <1>5, QuietStep DEF SelectGuard

LEMMA StaffPair == \A m \in Staff : m = <<IdentityOf(m), WasherOf(m)>>
  BY DEF Staff, IdentityOf, WasherOf

LEMMA SelectMemberStep ==
  ASSUME AudienceInv, NEW r \in Slots, NEW m \in Staff, NEW w \in Washers,
         NEW b \in Branches, SelectMember(r, m, w, b)
  PROVE  AudienceInv'
<1>1. PICK x : x = [req[r] EXCEPT !.pc = "branch", !.m = m, !.w = w, !.b = b]
  OBVIOUS
<1>2. /\ x \in Request /\ x.pc = "branch" /\ x.op = req[r].op /\ x.s = req[r].s
      /\ x.i = req[r].i /\ x.m = m /\ x.w = w /\ x.b = b
  BY <1>1, MemoryOf DEF Request
<1>3. m = <<x.i, x.w>> /\ req[r].op = "select" /\ req[r].pc = "member"
  BY <1>2, StaffPair DEF SelectMember
<1>4. Fits(x)
  BY <1>2, <1>3, MemoryOf DEF Fits, Selecting
<1>5. One(r)
  BY <1>1, <1>2, <1>4 DEF One, SelectMember
<1> QED
  BY <1>5, QuietStep DEF SelectMember

(* A request that goes on, knowing no less. *)
LEMMA GoOne ==
  ASSUME AudienceInv, NEW r \in Slots,
         NEW pc \in {"branch", "washer", "replace", "commit", "served"}, Go(r, pc),
         \A x : x = [req[r] EXCEPT !.pc = pc] /\ x \in Request /\ x.pc = pc
                /\ x.op = req[r].op /\ x.s = req[r].s /\ x.i = req[r].i
                /\ x.m = req[r].m /\ x.w = req[r].w /\ x.b = req[r].b
                /\ x.late = req[r].late => Fits(x)
  PROVE  One(r)
<1>1. PICK x : x = [req[r] EXCEPT !.pc = pc]
  OBVIOUS
<1>2. /\ x \in Request /\ x.pc = pc
      /\ x.op = req[r].op /\ x.s = req[r].s /\ x.i = req[r].i
      /\ x.m = req[r].m /\ x.w = req[r].w /\ x.b = req[r].b
      /\ x.late = req[r].late
  BY <1>1, MemoryOf DEF Request
<1> QED
  BY <1>1, <1>2 DEF Go, One

LEMMA SelectRefusedStep ==
  ASSUME AudienceInv, NEW r \in Slots, SelectRefused(r)
  PROVE  AudienceInv'
  BY AnswerOne, QuietStep DEF SelectRefused

LEMMA SelectBranchStep ==
  ASSUME AudienceInv, NEW r \in Slots, SelectBranch(r)
  PROVE  AudienceInv'
<1>1. ASSUME Go(r, "washer"), BranchWasher[req[r].b] = req[r].w PROVE One(r)
  BY <1>1, GoOne, MemoryOf DEF SelectBranch, Fits, Selecting
<1> QED
  BY <1>1, AnswerOne, QuietStep DEF SelectBranch

LEMMA SelectWasherStep ==
  ASSUME AudienceInv, NEW r \in Slots, SelectWasher(r)
  PROVE  AudienceInv'
<1>1. ASSUME Go(r, "replace") PROVE One(r)
  BY <1>1, GoOne, MemoryOf DEF SelectWasher, Fits, Selecting
<1> QED
  BY <1>1, AnswerOne, QuietStep DEF SelectWasher

LEMMA ReplaceReadStep ==
  ASSUME AudienceInv, NEW r \in Slots, ReplaceRead(r)
  PROVE  AudienceInv'
<1>1. ASSUME Go(r, "commit") PROVE One(r)
  BY <1>1, GoOne, MemoryOf DEF ReplaceRead, Fits, Selecting
<1> QED
  BY <1>1, AnswerOne, QuietStep DEF ReplaceRead

LEMMA ReplaceCommitStep ==
  ASSUME AudienceInv, NEW r \in Slots, ReplaceCommit(r)
  PROVE  AudienceInv'
<1>1. Selecting(req[r]) /\ req[r].pc = "commit"
  BY MemoryOf DEF ReplaceCommit, Fits
<1>2. SessGrow
  <2>1. CASE UNCHANGED sess
    BY <2>1, SessSame DEF AudienceInv
  <2>2. ASSUME NEW n \in Sess, NextSession(n),
               sess' = [sess EXCEPT ![req[r].s].st = "replaced",
                          ![n] = Operational(sess[req[r].s].of, req[r].m, req[r].w, req[r].b)]
        PROVE  SessGrow
    <3>1. PICK s, i, w, b : s = req[r].s /\ i = sess[s].of /\ w = req[r].w /\ b = req[r].b
      OBVIOUS
    <3>2. /\ s \in Sess /\ sess[s].st # "none" /\ i \in Identities /\ w \in Washers
          /\ b \in Branches /\ BranchWasher[b] = w /\ req[r].m = <<i, w>>
      BY <1>1, <3>1, SessionsOf DEF Selecting
    <3>3. PICK c : c = Operational(i, <<i, w>>, w, b)
      OBVIOUS
    <3>4. c \in Session /\ SessionGood(c) /\ c.st # "none"
      BY <3>2, <3>3, MadeOperational
    <3>5. sess' = [sess EXCEPT ![s].st = "replaced", ![n] = c]
      BY <2>2, <3>1, <3>2, <3>3
    <3> QED
      BY <2>2, <3>2, <3>4, <3>5, NextSessionNew, SessReplaced DEF AudienceInv
  <2> QED
    BY <2>1, <2>2 DEF ReplaceCommit
<1>3. One(r)
  BY AnswerOne DEF ReplaceCommit
<1> QED
  BY <1>2, <1>3, SessStep DEF ReplaceCommit, AudienceInv, OrderPart

(* A request of staff that comes too late is not let through. *)
LEMMA StaffGuardStep ==
  ASSUME AudienceInv, NEW r \in Slots, NEW n \in Sess, StaffGuard(r, n)
  PROVE  AudienceInv'
<1>1. PICK l \in BOOLEAN : l = ~Entitled(staff, n)
  OBVIOUS
<1>2. PICK x : x = [NoRequest EXCEPT !.pc = "member", !.op = "staff", !.s = n, !.late = l]
  OBVIOUS
<1>3. x = [pc |-> "member", op |-> "staff", i |-> None, s |-> n, m |-> None,
           w |-> None, b |-> None, full |-> {}, ctxs |-> {}, late |-> l]
  BY <1>2 DEF NoRequest
<1>4. n \in 0..MaxSessions
  BY AudienceConstantsOK DEF Sess
<1>5. x \in Request /\ Fits(x)
  BY <1>1, <1>3, <1>4 DEF Request, Fits, Using, StaffGuard
<1>6. One(r)
  BY <1>1, <1>2, <1>5 DEF One, StaffGuard, Arrive
<1> QED
  BY <1>6, QuietStep DEF StaffGuard

LEMMA StaffMemberStep ==
  ASSUME AudienceInv, NEW r \in Slots, StaffMember(r)
  PROVE  AudienceInv'
<1>1. ASSUME Go(r, "branch"), staff[sess[req[r].s].member].status = "active",
             MayEnter(sess[req[r].s].member, sess[req[r].s].branch)
      PROVE  One(r)
  <2>1. Using(req[r]) /\ req[r].op = "staff" /\ req[r].late \in BOOLEAN
    BY MemoryOf DEF StaffMember, Fits, Request
  <2>2. ~req[r].late
    BY <1>1, <2>1 DEF Using, Entitled, MayEnter
  <2> QED
    BY <1>1, <2>1, <2>2, GoOne DEF Fits, Using
<1> QED
  BY <1>1, AnswerOne, QuietStep DEF StaffMember

LEMMA StaffBranchStep ==
  ASSUME AudienceInv, NEW r \in Slots, StaffBranch(r)
  PROVE  AudienceInv'
<1>1. ASSUME Go(r, "served") PROVE One(r)
  <2>1. Using(req[r]) /\ req[r].op = "staff" /\ ~req[r].late
    BY MemoryOf DEF StaffBranch, Fits, Using
  <2> QED
    BY <1>1, <2>1, GoOne DEF Fits, Using
<1> QED
  BY <1>1, AnswerOne, QuietStep DEF StaffBranch

LEMMA ServedStep ==
  ASSUME AudienceInv, NEW r \in Slots, Served(r)
  PROVE  AudienceInv'
  BY AnswerOne, QuietStep DEF Served

-----------------------------------------------------------------------------
(* Customers. *)
LEMMA CustomerLoginStep ==
  ASSUME AudienceInv, NEW i \in Identities, NEW w \in Washers, CustomerLogin(i, w)
  PROVE  AudienceInv'
<1>1. PICK n \in Sess : /\ NextSession(n)
                        /\ \/ sess' = [sess EXCEPT ![n] = Operational(i, None, None, None)]
                           \/ sess' = [sess EXCEPT ![n] = Provisional(i)]
  BY DEF CustomerLogin
<1>2. SessGrow
  BY <1>1, MadeCustomer, MadeProvisional, NextSessionNew, SessMade DEF AudienceInv
<1> QED
  BY <1>2, SessStep DEF CustomerLogin, AudienceInv, OrderPart

LEMMA EnrollStep ==
  ASSUME AudienceInv, NEW n \in Sess, NEW w \in Washers, Enroll(n, w)
  PROVE  AudienceInv'
<1>1. PICK i : i = sess[n].of
  OBVIOUS
<1>2. i \in Identities /\ sess[n].st # "none"
  BY <1>1, SessionsOf DEF Enroll
<1>3. SessGrow
  <2>1. CASE UNCHANGED sess
    BY <2>1, SessSame DEF AudienceInv
  <2>2. ASSUME NEW k \in Sess, NextSession(k),
               sess' = [sess EXCEPT ![n].st = "replaced",
                                    ![k] = Operational(i, None, None, None)]
        PROVE  SessGrow
    <3>1. PICK c : c = Operational(i, None, None, None)
      OBVIOUS
    <3>2. c \in Session /\ SessionGood(c) /\ c.st # "none"
      BY <1>2, <3>1, MadeCustomer
    <3>3. sess' = [sess EXCEPT ![n].st = "replaced", ![k] = c]
      BY <2>2, <3>1
    <3> QED
      BY <1>2, <2>2, <3>2, <3>3, NextSessionNew, SessReplaced DEF AudienceInv
  <2> QED
    BY <1>1, <2>1, <2>2 DEF Enroll
<1>4. cust' = cust \cup {<<i, w>>}
  BY <1>1 DEF Enroll
<1>5. cust \subseteq cust' /\ cust' \subseteq Identities \X Washers
  BY <1>2, <1>4 DEF AudienceInv, OrderPart
<1> QED
  BY <1>3, <1>5, SessStep DEF Enroll

LEMMA CustomerGuardStep ==
  ASSUME AudienceInv, NEW r \in Slots, NEW n \in Sess, NEW w \in Washers,
         CustomerGuard(r, n, w)
  PROVE  AudienceInv'
<1>1. PICK i : i = sess[n].of
  OBVIOUS
<1>2. PICK x : x = [NoRequest EXCEPT !.pc = "place", !.op = "order", !.s = n,
                                     !.i = i, !.w = w]
  OBVIOUS
<1>3. x = [pc |-> "place", op |-> "order", i |-> i, s |-> n, m |-> None,
           w |-> w, b |-> None, full |-> {}, ctxs |-> {}, late |-> FALSE]
  BY <1>2 DEF NoRequest
<1>4. n \in 0..MaxSessions /\ i \in Identities
  BY <1>1, AudienceConstantsOK, SessionsOf DEF Sess, CustomerGuard, CanonicalCustomer
<1>5. x \in Request /\ Fits(x)
  BY <1>3, <1>4 DEF Request, Fits
<1>6. One(r)
  BY <1>1, <1>2, <1>5 DEF One, CustomerGuard, Arrive
<1> QED
  BY <1>6, QuietStep DEF CustomerGuard

(* A set of numbers that is not empty has a least one. *)
LEMMA LeastOf ==
  ASSUME NEW S \in SUBSET Nat, S # {}
  PROVE  \E k \in S : \A j \in S : k <= j
<1>1. PICK R : R = OpToRel(<, Nat)
  OBVIOUS
<1>2. IsWellFoundedOn(R, Nat)
  BY <1>1, NatLessThanWellFounded
<1>3. PICK x \in S : \A y \in S : ~(<<y, x>> \in R)
  BY <1>2, WFMin
<1>4. ASSUME NEW y \in S PROVE x <= y
  <2>1. x \in Nat /\ y \in Nat
    OBVIOUS
  <2>2. ~(<<y, x>> \in R)
    BY <1>3
  <2>3. ~(y < x)
    BY <1>1, <2>1, <2>2 DEF OpToRel
  <2> QED
    BY <2>1, <2>3
<1> QED
  BY <1>4

(* Orders of the same customer, laundry and branch as before; their rooms  *)
(* are the same.                                                           *)
LEMMA OrderStep ==
  ASSUME AudienceInv, UNCHANGED <<world, ctxVars, cust, sess, sock, event, rooms, heard>>,
         ReqPart', NEW o \in Orders, NEW d \in OrderRow,
         <<d.of, d.w>> \in cust, BranchWasher[d.b] = d.w,
         order[o] # NoOrder => d.of = order[o].of /\ d.w = order[o].w,
         order' = [order EXCEPT ![o] = d]
  PROVE  AudienceInv'
<1> USE DEF ctxVars
<1>1. d # NoOrder
  BY AudienceConstantsOK DEF OrderRow, NoOrder
<1>2. OrderPart'
  BY <1>1 DEF AudienceInv, OrderPart, OrderGood
<1>3. EventPart'
  BY <1>1, EventFrame DEF AudienceInv, OrderPart
<1>4. PlacesPart' /\ StaffPart' /\ SockPart'
  BY PlacesFrame, StaffFrame, SockFrame DEF AudienceInv
<1>5. SessPart'
  BY SessSame DEF AudienceInv, SessGrow
<1> QED
  BY <1>2, <1>3, <1>4, <1>5 DEF AudienceInv

LEMMA PlaceOrderStep ==
  ASSUME AudienceInv, NEW r \in Slots, PlaceOrder(r)
  PROVE  AudienceInv'
<1>1. One(r)
  BY AnswerOne DEF PlaceOrder
<1>2. CASE UNCHANGED order
  BY <1>1, <1>2, QuietStep DEF PlaceOrder, liveVars
<1>3. CASE order' # order
  <2>1. PICK new : new = {o \in 1..world.orders : order[o] = NoOrder}
    OBVIOUS
  <2>2. /\ <<req[r].i, req[r].w>> \in cust /\ new # {}
        /\ \E b \in ActiveBranches(req[r].w) :
             order' = [order EXCEPT ![CHOOSE k \in new : \A j \in new : k <= j] =
                         [of |-> req[r].i, w |-> req[r].w, b |-> b, driver |-> None]]
    BY <1>3, <2>1 DEF PlaceOrder
  <2>3. PICK o : o = CHOOSE k \in new : \A j \in new : k <= j
    OBVIOUS
  <2>4. PICK b \in ActiveBranches(req[r].w) :
             order' = [order EXCEPT ![o] =
                         [of |-> req[r].i, w |-> req[r].w, b |-> b, driver |-> None]]
    BY <2>2, <2>3
  <2>5. PICK d : d = [of |-> req[r].i, w |-> req[r].w, b |-> b, driver |-> None]
    OBVIOUS
  <2>6. b \in Branches /\ BranchWasher[b] = req[r].w
    BY DEF ActiveBranches
  <2>7. d \in OrderRow /\ <<d.of, d.w>> \in cust /\ BranchWasher[d.b] = d.w
    BY <2>2, <2>5, <2>6 DEF OrderRow, AudienceInv, OrderPart
  <2>8. o \in Orders /\ order[o] = NoOrder
    <3>1. new \subseteq Orders
      BY <2>1, AudienceConstantsOK DEF Orders, AudienceInv, PlacesPart
    <3>2. \E k \in new : \A j \in new : k <= j
      BY <2>2, <3>1, LeastOf DEF Orders
    <3> QED
      BY <2>1, <2>3, <3>1, <3>2
  <2>9. ReqPart'
    BY <1>1, SessSame, OneMoves DEF AudienceInv, PlaceOrder, ctxVars
  <2> QED
    BY <2>4, <2>5, <2>7, <2>8, <2>9, OrderStep DEF PlaceOrder
<1> QED
  BY <1>2, <1>3

LEMMA AssignStep ==
  ASSUME AudienceInv, NEW o \in Orders, NEW m \in Staff, Assign(o, m)
  PROVE  AudienceInv'
<1>1. PICK d : d = [order[o] EXCEPT !.driver = m]
  OBVIOUS
<1>2. /\ d \in OrderRow /\ d.of = order[o].of /\ d.w = order[o].w /\ d.b = order[o].b
      /\ OrderGood(o)
  BY <1>1 DEF AudienceInv, OrderPart, OrderRow, Assign
<1>3. order' = [order EXCEPT ![o] = d]
  BY <1>1 DEF Assign
<1>4. ReqPart'
  BY SessSame, AllStay DEF AudienceInv, Assign, ctxVars
<1> QED
  BY <1>2, <1>3, <1>4, OrderStep DEF Assign, OrderGood

-----------------------------------------------------------------------------
(* Sockets. *)
LEMMA SockStep ==
  ASSUME AudienceInv, SockPart',
         UNCHANGED <<world, ctxVars, cust, sess, req, order, event, rooms, heard>>
  PROVE  AudienceInv'
<1> USE DEF ctxVars
<1>1. SessGrow
  BY SessSame DEF AudienceInv
<1>2. ReqPart'
  BY <1>1, AllStay DEF AudienceInv
<1>3. PlacesPart' /\ StaffPart'
  BY PlacesFrame, StaffFrame DEF AudienceInv
<1>4. OrderPart' /\ EventPart'
  BY OrderFrame, EventFrame DEF AudienceInv, OrderPart
<1> QED
  BY <1>1, <1>2, <1>3, <1>4 DEF AudienceInv, SessGrow

LEMMA SocketMoves ==
  ASSUME SockPart, cust' = cust, NEW k \in Socks, NEW c \in Socket, SocketGood(c),
         sock' = [sock EXCEPT ![k] = c]
  PROVE  SockPart'
  BY DEF SockPart, SocketGood

LEMMA NoSocketGood == NoSocket \in Socket /\ SocketGood(NoSocket)
  BY AudienceConstantsOK DEF NoSocket, Socket, SocketGood

LEMMA SocketRowStep ==
  ASSUME AudienceInv, NEW k \in Socks, NEW n \in Sess, NEW w \in Washers,
         SocketRow(k, n, w)
  PROVE  AudienceInv'
<1>6. (<<sess[n].of, w>> \in cust) \in BOOLEAN
  OBVIOUS
<1>1. PICK i, b : i = sess[n].of /\ b = (<<sess[n].of, w>> \in cust) /\ b \in BOOLEAN
  BY <1>6, Zenon
<1>2. PICK c : c = [st |-> "row", s |-> n, of |-> i, w |-> w,
                    hasMembership |-> FALSE, was |-> b]
  OBVIOUS
<1>3. i \in Identities /\ n \in 0..MaxSessions
  BY <1>1, SessionsOf, AudienceConstantsOK DEF SocketRow, Sess
<1>4. c \in Socket /\ SocketGood(c)
  BY <1>1, <1>2, <1>3 DEF Socket, SocketGood
<1>5. sock' = [sock EXCEPT ![k] = c]
  BY <1>1, <1>2 DEF SocketRow
<1> QED
  BY <1>4, <1>5, SocketMoves, SockStep DEF SocketRow, AudienceInv

LEMMA SocketMemberStep ==
  ASSUME AudienceInv, NEW k \in Socks, SocketMember(k)
  PROVE  AudienceInv'
<1>1. CASE sock' = [sock EXCEPT ![k] = NoSocket]
  BY <1>1, NoSocketGood, SocketMoves, SockStep DEF SocketMember, AudienceInv
<1>2. CASE sock' = [sock EXCEPT ![k] =
               [sock[k] EXCEPT !.st = "member",
                               !.hasMembership = <<sock[k].of, sock[k].w>> \in cust]]
  <2>6. (<<sock[k].of, sock[k].w>> \in cust) \in BOOLEAN
    OBVIOUS
  <2>1. PICK b : b = (<<sock[k].of, sock[k].w>> \in cust) /\ b \in BOOLEAN
    BY <2>6, Zenon
  <2>2. PICK c : c = [sock[k] EXCEPT !.st = "member", !.hasMembership = b]
    OBVIOUS
  <2>3. /\ c \in Socket /\ c.st = "member" /\ c.hasMembership = b
        /\ c.of = sock[k].of /\ c.w = sock[k].w /\ c.was = sock[k].was
    BY <2>1, <2>2 DEF AudienceInv, SockPart, Socket
  <2>4. SocketGood(c)
    BY <2>1, <2>3 DEF AudienceInv, SockPart, SocketGood, SocketMember
  <2>5. sock' = [sock EXCEPT ![k] = c]
    BY <1>2, <2>1, <2>2
  <2> QED
    BY <2>3, <2>4, <2>5, SocketMoves, SockStep DEF SocketMember, AudienceInv
<1> QED
  BY <1>1, <1>2 DEF SocketMember

(* A socket goes on as it is. *)
LEMMA SocketGoes ==
  ASSUME AudienceInv, NEW k \in Socks, NEW st \in {"alone", "open"},
         sock[k].st \in {"member", "alone"}
  PROVE  LET c == [sock[k] EXCEPT !.st = st] IN c \in Socket /\ SocketGood(c)
<1>1. PICK c : c = [sock[k] EXCEPT !.st = st]
  OBVIOUS
<1>2. /\ c \in Socket /\ c.st = st /\ c.hasMembership = sock[k].hasMembership
      /\ c.of = sock[k].of /\ c.w = sock[k].w /\ c.was = sock[k].was
  BY <1>1 DEF AudienceInv, SockPart, Socket
<1>3. SocketGood(c)
  BY <1>2 DEF AudienceInv, SockPart, SocketGood
<1> QED
  BY <1>1, <1>2, <1>3

LEMMA SocketOverlapStep ==
  ASSUME AudienceInv, NEW k \in Socks, SocketOverlap(k)
  PROVE  AudienceInv'
<1>1. PICK c : c = [sock[k] EXCEPT !.st = "alone"]
  OBVIOUS
<1>2. c \in Socket /\ SocketGood(c)
  BY <1>1, SocketGoes DEF SocketOverlap
<1>3. sock' \in [Socks -> Socket]
  BY <1>1, <1>2, NoSocketGood DEF SocketOverlap, AudienceInv, SockPart
<1>4. \A j \in Socks : sock'[j] \in {c, NoSocket, sock[j]}
  BY <1>1 DEF SocketOverlap
<1>5. \A j \in Socks : SocketGood(sock'[j])
  BY <1>2, <1>4, NoSocketGood DEF AudienceInv, SockPart
<1>6. SockPart'
  BY <1>3, <1>5 DEF SockPart, SocketGood, SocketOverlap
<1> QED
  BY <1>6, SockStep DEF SocketOverlap

LEMMA SocketJoinStep ==
  ASSUME AudienceInv, NEW k \in Socks, SocketJoin(k)
  PROVE  AudienceInv'
<1>1. PICK c : c = [sock[k] EXCEPT !.st = "open"]
  OBVIOUS
<1>2. c \in Socket /\ SocketGood(c)
  BY <1>1, SocketGoes DEF SocketJoin
<1>3. sock' = [sock EXCEPT ![k] = c]
  BY <1>1 DEF SocketJoin
<1> QED
  BY <1>2, <1>3, SocketMoves, SockStep DEF SocketJoin, AudienceInv

LEMMA SocketEndsStep ==
  ASSUME AudienceInv, NEW k \in Socks, SocketEnds(k)
  PROVE  AudienceInv'
  BY NoSocketGood, SocketMoves, SockStep DEF SocketEnds, AudienceInv

-----------------------------------------------------------------------------
(* Events. *)
LEMMA EventStep ==
  ASSUME AudienceInv, EventPart',
         UNCHANGED <<world, ctxVars, cust, sess, req, sock, order>>
  PROVE  AudienceInv'
<1> USE DEF ctxVars
<1>1. SessGrow
  BY SessSame DEF AudienceInv
<1>2. ReqPart'
  BY <1>1, AllStay DEF AudienceInv
<1>3. PlacesPart' /\ StaffPart'
  BY PlacesFrame, StaffFrame DEF AudienceInv
<1>4. OrderPart' /\ SockPart'
  BY OrderFrame, SockFrame DEF AudienceInv, OrderPart
<1> QED
  BY <1>1, <1>2, <1>3, <1>4 DEF AudienceInv, SessGrow

LEMMA EventTypes == \A e \in EventRow :
  /\ e # NoEvent
  /\ e.type \in AboutOrders => e.o \in Orders
  /\ e.type \notin AboutOrders =>
       e.type \in {"invitation", "accepted", "activated"}
       /\ e.i \in Identities \cup {None} /\ e.w \in Washers
  BY DEF EventRow, NoEvent, AboutOrders

LEMMA AnnounceStep ==
  ASSUME AudienceInv, NEW e \in Announcements, Announce(e)
  PROVE  AudienceInv'
<1>1. world.events \subseteq {"order", "payment", "task", "invitation", "accepted", "activated"}
  BY AudienceConstantsOK DEF AudienceInv, PlacesPart
<1>2. e \in EventRow
  BY <1>1 DEF Announcements, EventRow, AboutOrders
<1>3. rooms = {}
  BY DEF AudienceInv, EventPart, RoomsGood, Announce
<1>4. EventPart'
  BY <1>2, <1>3 DEF EventPart, RoomsGood, Announce, Silence
<1> QED
  BY <1>4, EventStep DEF Announce

LEMMA StaffRoom ==
  ASSUME NEW is \in SUBSET (Identities \cup {None})
  PROVE  IdentityRooms(is) \subseteq StaffRooms
  BY DEF IdentityRooms, StaffRooms

LEMMA ManagersAre == \A w : Managers(w) \subseteq Identities
  BY DEF Managers, IdentityOf, Staff

LEMMA OrderTargets ==
  ASSUME AudienceInv, event \in EventRow, event.type \in AboutOrders
  PROVE  /\ CustomerRoom(event.o) \in Targets(event)
         /\ Targets(event) \subseteq {CustomerRoom(event.o)} \cup StaffRooms
<1>1. event.o \in Orders /\ order[event.o] \in OrderRow
  BY EventTypes DEF AudienceInv, OrderPart, EventPart, RoomsGood
<1>2. IdentityRooms(Driver(event.o)) \subseteq StaffRooms
  BY <1>1, StaffRoom DEF Driver, OrderRow, Staff, IdentityOf
<1>3. /\ CustomerRoom(event.o) \in PartyRooms(event.o)
      /\ PartyRooms(event.o) \subseteq {CustomerRoom(event.o)} \cup StaffRooms
  BY <1>1 DEF PartyRooms, CustomerRoom, StaffRooms, OrderRow
<1>4. CASE event.type = "order"
  BY <1>2, <1>3, <1>4 DEF Targets, OrderEvent
<1>5. CASE event.type = "payment"
  BY <1>2, <1>3, <1>5 DEF Targets, PaymentEvent
<1>6. CASE event.type = "task"
  BY <1>2, <1>3, <1>6 DEF Targets, DriverTaskEvent
<1> QED
  BY <1>4, <1>5, <1>6 DEF AboutOrders

LEMMA StaffTargets ==
  ASSUME event \in EventRow, event.type \notin AboutOrders
  PROVE  Targets(event) \subseteq StaffRooms
<1>1. event.type \in {"invitation", "accepted", "activated"} /\ event.i \in Identities \cup {None}
  BY EventTypes
<1>2. CASE event.type = "invitation"
  BY <1>1, <1>2, StaffRoom, ManagersAre DEF Targets, StaffInvitation
<1>3. CASE event.type = "accepted"
  BY <1>1, <1>3, StaffRoom, ManagersAre DEF Targets, InvitationAccepted
<1>4. CASE event.type = "activated"
  BY <1>1, <1>4, StaffRoom, ManagersAre DEF Targets, MembershipActivated
<1> QED
  BY <1>1, <1>2, <1>3, <1>4

LEMMA ResolveStep ==
  ASSUME AudienceInv, Resolve
  PROVE  AudienceInv'
<1>1. event \in EventRow
  BY DEF AudienceInv, EventPart, Resolve
<1>2. CASE Targets(event) = {}
  <2>1. event' = NoEvent /\ rooms' = {} /\ heard' = heard
    BY <1>2 DEF Resolve
  <2>2. EventPart'
    BY <2>1 DEF EventPart, RoomsGood, NoEvent, AboutOrders, AudienceInv
  <2> QED
    BY <2>2, EventStep DEF Resolve
<1>3. CASE Targets(event) # {}
  <2>1. event' = event /\ rooms' = Targets(event)
    BY <1>3 DEF Resolve
  <2>2. RoomsGood'
    BY <1>1, <2>1, OrderTargets, StaffTargets, EventTypes
       DEF RoomsGood, CustomerRoom, AudienceInv, EventPart, Resolve
  <2> QED
    BY <2>1, <2>2, EventStep DEF Resolve, EventPart, AudienceInv
<1> QED
  BY <1>2, <1>3

(* Of its rooms a socket hears in one at most: the customer's.             *)
LEMMA RoomsHeard ==
  ASSUME AudienceInv, rooms # {}, NEW k \in Socks
  PROVE  LET c == sock[k]
             mine == /\ c.hasMembership /\ event.type \in AboutOrders
                     /\ c.w = order[event.o].w /\ c.of = order[event.o].of
         IN Cardinality(RoomsOf(c) \cap rooms) = IF mine THEN 1 ELSE 0
<1> DEFINE c == sock[k]
           mine == /\ c.hasMembership /\ event.type \in AboutOrders
                   /\ c.w = order[event.o].w /\ c.of = order[event.o].of
<1>1. <<"session", c.s>> \notin rooms
  BY DEF AudienceInv, EventPart, RoomsGood, CustomerRoom, StaffRooms
<1>2. CASE mine
  <2>1. RoomsOf(c) \cap rooms = {CustomerRoom(event.o)}
    BY <1>1, <1>2 DEF RoomsOf, CustomerRoom, AudienceInv, EventPart, RoomsGood
  <2> QED
    BY <1>2, <2>1, FS_Singleton
<1>3. CASE ~mine
  <2>1. RoomsOf(c) \cap rooms = {}
    BY <1>1, <1>3 DEF RoomsOf, CustomerRoom, AudienceInv, EventPart, RoomsGood, StaffRooms
  <2> QED
    BY <1>3, <2>1, FS_EmptySet
<1> QED
  BY <1>2, <1>3

LEMMA EmitStep ==
  ASSUME AudienceInv, Emit
  PROVE  AudienceInv'
<1>1. heard' \in [Socks -> Nat]
  BY RoomsHeard DEF Emit
<1>2. EventPart'
  BY <1>1 DEF Emit, EventPart, RoomsGood, NoEvent, AboutOrders
<1> QED
  BY <1>2, EventStep DEF Emit

LEMMA EmitFailsStep ==
  ASSUME AudienceInv, EmitFails
  PROVE  AudienceInv'
<1>1. EventPart'
  BY DEF EmitFails, EventPart, RoomsGood, AudienceInv
<1> QED
  BY <1>1, EventStep DEF EmitFails

-----------------------------------------------------------------------------
(* What changes from outside.  A request whose membership is given back    *)
(* while it waits is excused; nobody else's memory gets worse.             *)
LEMMA StaffChangesStep ==
  ASSUME AudienceInv, NEW m \in Staff, NEW new \in Membership,
         \A b \in new.at : BranchWasher[b] = WasherOf(m), StaffChanges(m, new)
  PROVE  AudienceInv'
<1> USE DEF liveVars
<1>1. StaffPart'
  BY DEF AudienceInv, StaffPart, StaffGood, StaffChanges
<1>2. SessGrow
  BY SessSame DEF AudienceInv, StaffChanges
<1>3. ASSUME NEW r \in Slots PROVE req'[r] \in Request /\ Fits(req[r])'
  <2>1. PICK y : y = req[r]
    OBVIOUS
  <2>2. y \in Request /\ Fits(y)
    BY <2>1, MemoryOf
  <2>3. PICK x : x = req'[r]
    OBVIOUS
  <2>4. CASE y.op = "staff" /\ Entitled(staff', y.s)
    <3>1. x = [y EXCEPT !.late = FALSE]
      BY <2>1, <2>3, <2>4 DEF StaffChanges
    <3>2. x \in Request /\ x.late = FALSE /\ x.op = "staff" /\ x.s = y.s /\ x.pc = y.pc
      BY <2>2, <2>4, <3>1 DEF Request
    <3>3. Using(y)
      BY <2>2, <2>4 DEF Fits
    <3>4. Fits(x)'
      BY <2>2, <3>2, <3>3 DEF Fits, Using, StaffChanges
    <3> QED
      BY <2>3, <3>2, <3>4
  <2>5. CASE ~(y.op = "staff" /\ Entitled(staff', y.s))
    <3>1. x = y
      BY <2>1, <2>3, <2>5 DEF StaffChanges
    <3>2. Selecting(y)' <=> Selecting(y)
      BY DEF Selecting, StaffChanges
    <3>3. y.op = "staff" => Using(y)'
      BY <2>2, <2>5 DEF Fits, Using, Entitled, StaffChanges
    <3>4. Fits(y)'
      BY <2>2, <3>2, <3>3 DEF Fits
    <3> QED
      BY <2>2, <2>3, <3>1, <3>4
  <2> QED
    BY <2>4, <2>5
<1>4. ReqPart'
  BY <1>3 DEF ReqPart, StaffChanges
<1>5. PlacesPart'
  BY PlacesFrame DEF AudienceInv, StaffChanges
<1>6. OrderPart' /\ SockPart'
  BY OrderFrame, SockFrame DEF AudienceInv, OrderPart, StaffChanges
<1>7. EventPart'
  BY EventFrame DEF AudienceInv, StaffChanges
<1> QED
  BY <1>1, <1>2, <1>4, <1>5, <1>6, <1>7 DEF AudienceInv, SessGrow

LEMMA RowsOf ==
  ASSUME AudienceInv, NEW m \in Staff,
         NEW new \in {Suspended(m), Reinstated(m)}
                     \cup {Granted(m, b) : b \in {c \in Branches : BranchWasher[c] = WasherOf(m)}}
                     \cup {Withdrawn(m, b) : b \in Branches}
  PROVE  new \in Membership /\ \A b \in new.at : BranchWasher[b] = WasherOf(m)
<1>1. staff[m] \in Membership /\ \A b \in staff[m].at : BranchWasher[b] = WasherOf(m)
  BY DEF AudienceInv, StaffPart, StaffGood
<1>2. CASE new \in {Suspended(m), Reinstated(m)}
  BY <1>1, <1>2 DEF Suspended, Reinstated, Membership
<1>3. ASSUME NEW b \in Branches, BranchWasher[b] = WasherOf(m), new = Granted(m, b)
      PROVE  new \in Membership /\ \A c \in new.at : BranchWasher[c] = WasherOf(m)
  <2>1. PICK at : at = staff[m].at \cup {b}
    OBVIOUS
  <2>2. new = [staff[m] EXCEPT !.at = at]
    BY <1>3, <2>1 DEF Granted
  <2>3. new \in Membership /\ new.at = at
    BY <1>1, <2>1, <2>2 DEF Membership
  <2> QED
    BY <1>1, <1>3, <2>1, <2>3
<1>4. ASSUME NEW b \in Branches, new = Withdrawn(m, b)
      PROVE  new \in Membership /\ \A c \in new.at : BranchWasher[c] = WasherOf(m)
  <2>1. PICK at : at = staff[m].at \ {b}
    OBVIOUS
  <2>2. new = [staff[m] EXCEPT !.at = at]
    BY <1>4, <2>1 DEF Withdrawn
  <2>3. new \in Membership /\ new.at = at
    BY <1>1, <2>1, <2>2 DEF Membership
  <2> QED
    BY <1>1, <2>1, <2>3
<1> QED
  BY <1>2, <1>3, <1>4

LEMMA PlacesStep ==
  ASSUME AudienceInv, PlacesPart', UNCHANGED <<staff, cust, sess, req, liveVars>>
  PROVE  AudienceInv'
<1> USE DEF liveVars
<1>1. SessGrow
  BY SessSame DEF AudienceInv
<1>2. ReqPart' /\ StaffPart'
  BY <1>1, AllStay, StaffFrame DEF AudienceInv
<1>3. OrderPart' /\ SockPart'
  BY OrderFrame, SockFrame DEF AudienceInv, OrderPart
<1>4. EventPart'
  BY EventFrame DEF AudienceInv
<1> QED
  BY <1>1, <1>2, <1>3, <1>4 DEF AudienceInv, SessGrow

LEMMA BranchChangesStep ==
  ASSUME AudienceInv, NEW b \in Branches, BranchChanges(b)
  PROVE  AudienceInv'
<1>1. PlacesPart'
  BY DEF AudienceInv, PlacesPart, BranchChanges
<1> QED
  BY <1>1, PlacesStep DEF BranchChanges

LEMMA WasherChangesStep ==
  ASSUME AudienceInv, NEW w \in Washers, WasherChanges(w)
  PROVE  AudienceInv'
<1>1. PlacesPart'
  BY DEF AudienceInv, PlacesPart, WasherChanges
<1> QED
  BY <1>1, PlacesStep DEF WasherChanges

-----------------------------------------------------------------------------
LEMMA RequestsStep ==
  ASSUME AudienceInv, NEW r \in Slots, Requests(r)
  PROVE  AudienceInv'
<1>1. ASSUME NEW i \in Identities, StaffLogin(r, i) PROVE AudienceInv'
  BY <1>1, StaffLoginStep
<1>2. ASSUME NEW n \in Sess, GetContexts(r, n) \/ SelectGuard(r, n) \/ StaffGuard(r, n)
      PROVE  AudienceInv'
  BY <1>2, GetContextsStep, SelectGuardStep, StaffGuardStep
<1>3. ASSUME NEW n \in Sess, NEW w \in Washers, CustomerGuard(r, n, w) PROVE AudienceInv'
  BY <1>3, CustomerGuardStep
<1>4. ASSUME NEW w \in Washers, BranchesFound(r, w) PROVE AudienceInv'
  BY <1>4, BranchesFoundStep
<1>5. ASSUME BranchMade(r) \/ ContextsBuilt(r) PROVE AudienceInv'
  BY <1>5, BranchMadeStep, ContextsBuiltStep
<1>6. ASSUME NEW m \in Staff, NEW w \in Washers, NEW b \in Branches, SelectMember(r, m, w, b)
      PROVE  AudienceInv'
  BY <1>6, SelectMemberStep
<1>7. ASSUME SelectRefused(r) \/ SelectBranch(r) \/ SelectWasher(r) \/ ReplaceRead(r)
             \/ ReplaceCommit(r)
      PROVE  AudienceInv'
  BY <1>7, SelectRefusedStep, SelectBranchStep, SelectWasherStep, ReplaceReadStep,
     ReplaceCommitStep
<1>8. ASSUME StaffMember(r) \/ StaffBranch(r) \/ Served(r) \/ PlaceOrder(r)
      PROVE  AudienceInv'
  BY <1>8, StaffMemberStep, StaffBranchStep, ServedStep, PlaceOrderStep
<1> QED
  BY <1>1, <1>2, <1>3, <1>4, <1>5, <1>6, <1>7, <1>8 DEF Requests

LEMMA StaffStep ==
  ASSUME AudienceInv, NEW m \in Staff,
         \/ StaffChanges(m, Suspended(m)) \/ StaffChanges(m, Reinstated(m))
         \/ \E b \in Branches :
              /\ BranchWasher[b] = WasherOf(m)
              /\ \/ StaffChanges(m, Granted(m, b)) \/ StaffChanges(m, Withdrawn(m, b))
  PROVE  AudienceInv'
<1>1. PICK new \in {Suspended(m), Reinstated(m)}
                   \cup {Granted(m, b) : b \in {c \in Branches : BranchWasher[c] = WasherOf(m)}}
                   \cup {Withdrawn(m, b) : b \in Branches} :
        StaffChanges(m, new)
  OBVIOUS
<1>2. new \in Membership /\ \A b \in new.at : BranchWasher[b] = WasherOf(m)
  BY RowsOf
<1> QED
  BY <1>1, <1>2, StaffChangesStep

LEMMA NextAudience == AudienceInv /\ [AudienceNext]_audienceVars => AudienceInv'
<1> SUFFICES ASSUME AudienceInv, [AudienceNext]_audienceVars PROVE AudienceInv'
  OBVIOUS
<1>1. ASSUME NEW r \in Slots, Requests(r) PROVE AudienceInv'
  BY <1>1, RequestsStep
<1>2. ASSUME NEW i \in Identities, NEW w \in Washers, CustomerLogin(i, w) PROVE AudienceInv'
  BY <1>2, CustomerLoginStep
<1>3. ASSUME NEW n \in Sess, NEW w \in Washers, Enroll(n, w) PROVE AudienceInv'
  BY <1>3, EnrollStep
<1>4. ASSUME NEW o \in Orders, NEW m \in Staff, Assign(o, m) PROVE AudienceInv'
  BY <1>4, AssignStep
<1>5. ASSUME NEW k \in Socks, NEW n \in Sess, NEW w \in Washers, SocketRow(k, n, w)
      PROVE  AudienceInv'
  BY <1>5, SocketRowStep
<1>6. ASSUME NEW k \in Socks,
             SocketMember(k) \/ SocketOverlap(k) \/ SocketJoin(k) \/ SocketEnds(k)
      PROVE  AudienceInv'
  BY <1>6, SocketMemberStep, SocketOverlapStep, SocketJoinStep, SocketEndsStep
<1>7. ASSUME NEW e \in Announcements, Announce(e) PROVE AudienceInv'
  BY <1>7, AnnounceStep
<1>8. ASSUME Resolve \/ Emit \/ EmitFails PROVE AudienceInv'
  BY <1>8, ResolveStep, EmitStep, EmitFailsStep
<1>9. ASSUME NEW m \in Staff,
             \/ StaffChanges(m, Suspended(m)) \/ StaffChanges(m, Reinstated(m))
             \/ \E b \in Branches :
                  /\ BranchWasher[b] = WasherOf(m)
                  /\ \/ StaffChanges(m, Granted(m, b)) \/ StaffChanges(m, Withdrawn(m, b))
      PROVE  AudienceInv'
  BY <1>9, StaffStep
<1>10. ASSUME NEW b \in Branches, BranchChanges(b) PROVE AudienceInv'
  BY <1>10, BranchChangesStep
<1>11. ASSUME NEW w \in Washers, WasherChanges(w) PROVE AudienceInv'
  BY <1>11, WasherChangesStep
<1>12. CASE UNCHANGED audienceVars
  BY <1>12, PlacesFrame, PlacesStep DEF audienceVars, ctxVars, AudienceInv
<1> QED
  BY <1>1, <1>2, <1>3, <1>4, <1>5, <1>6, <1>7, <1>8, <1>9, <1>10, <1>11, <1>12
     DEF AudienceNext

(* An event taken up is done with by being emitted alone. *)
LEMMA EmittedOnce ==
  ASSUME AudienceInv, [AudienceNext]_audienceVars, rooms # {}, ~Emit
  PROVE  event' # NoEvent
<1> USE DEF ctxVars, liveVars
<1>1. event # NoEvent
  BY DEF AudienceInv, EventPart, RoomsGood
<1>2. ASSUME NEW r \in Slots, Requests(r) PROVE event' = event
  BY <1>2 DEF Requests, StaffLogin, GetContexts, SelectGuard, StaffGuard, CustomerGuard,
     BranchesFound, BranchMade, ContextsBuilt, SelectMember, SelectRefused, SelectBranch,
     SelectWasher, ReplaceRead, ReplaceCommit, StaffMember, StaffBranch, Served, PlaceOrder
<1>3. ASSUME NEW i, NEW w, CustomerLogin(i, w) PROVE event' = event
  BY <1>3 DEF CustomerLogin
<1>4. ASSUME NEW n, NEW w, Enroll(n, w) PROVE event' = event
  BY <1>4 DEF Enroll
<1>5. ASSUME NEW o, NEW m, Assign(o, m) PROVE event' = event
  BY <1>5 DEF Assign
<1>6. ASSUME NEW k, NEW n, NEW w, SocketRow(k, n, w) PROVE event' = event
  BY <1>6 DEF SocketRow
<1>7. ASSUME NEW k, SocketMember(k) \/ SocketOverlap(k) \/ SocketJoin(k) \/ SocketEnds(k)
      PROVE  event' = event
  BY <1>7 DEF SocketMember, SocketOverlap, SocketJoin, SocketEnds
<1>8. ASSUME NEW e, Announce(e) PROVE FALSE
  BY <1>1, <1>8 DEF Announce
<1>9. ASSUME Resolve \/ EmitFails PROVE event' = event
  BY <1>9 DEF Resolve, EmitFails
<1>10. ASSUME NEW m, NEW new, StaffChanges(m, new) PROVE event' = event
  BY <1>10 DEF StaffChanges
<1>11. ASSUME NEW b, BranchChanges(b) PROVE event' = event
  BY <1>11 DEF BranchChanges
<1>12. ASSUME NEW w, WasherChanges(w) PROVE event' = event
  BY <1>12 DEF WasherChanges
<1>13. CASE UNCHANGED audienceVars
  BY <1>1, <1>13 DEF audienceVars
<1> QED
  BY <1>1, <1>2, <1>3, <1>4, <1>5, <1>6, <1>7, <1>8, <1>9, <1>10, <1>11, <1>12, <1>13
     DEF AudienceNext

LEMMA AlwaysAudience == AudienceSpec => []AudienceInv
  BY InitAudience, NextAudience, PTL DEF AudienceSpec

(* However logins, selections and switches overlap and whatever a client   *)
(* names, an operational session of staff names a membership of its own    *)
(* identity and a branch of that laundry, and an order is placed by a      *)
(* customer of its laundry for one of its branches.                        *)
THEOREM SessionsNameTheirOwn == AudienceSpec => []SessionNamesItsOwn
<1>1. AudienceInv => SessionNamesItsOwn
  BY DEF AudienceInv, SessPart, SessionGood, OrderPart, OrderGood, SessionNamesItsOwn
<1> QED
  BY <1>1, AlwaysAudience, PTL

(* A request that comes after its membership was suspended or its branch   *)
(* withdrawn is not served, whatever changes while it waits, unless they   *)
(* are given back.                                                         *)
THEOREM OnlyMembersServed == AudienceSpec => []ServedWasMember
<1>1. AudienceInv => ServedWasMember
  BY DEF AudienceInv, ReqPart, Fits, Using, ServedWasMember
<1> QED
  BY <1>1, AlwaysAudience, PTL

(* For any number of customers, sockets and laundries, whoever drives or   *)
(* manages besides: of an order the sockets of its customer for its        *)
(* laundry hear, once, and no others.                                      *)
THEOREM HeardByPartiesAlone == AudienceSpec => HeardByParties
<1> DEFINE Heard ==
      rooms # {} /\ event' = NoEvent =>
        \A k \in Socks :
          LET c == sock[k]
              party == /\ event.type \in AboutOrders /\ c.st = "open"
                       /\ c.of = order[event.o].of /\ c.w = order[event.o].w
          IN /\ heard'[k] \in 0..1
             /\ heard'[k] = 1 => party
             /\ party /\ c.was => heard'[k] = 1
<1>1. ASSUME AudienceInv, [AudienceNext]_audienceVars PROVE [Heard]_audienceVars
  <2>1. CASE Emit
    <3>1. ASSUME NEW k \in Socks
          PROVE  LET c == sock[k]
                     party == /\ event.type \in AboutOrders /\ c.st = "open"
                              /\ c.of = order[event.o].of /\ c.w = order[event.o].w
                 IN /\ heard'[k] \in 0..1
                    /\ heard'[k] = 1 => party
                    /\ party /\ c.was => heard'[k] = 1
      <4>1. PICK mine \in BOOLEAN :
              mine <=> /\ sock[k].hasMembership /\ event.type \in AboutOrders
                       /\ sock[k].w = order[event.o].w /\ sock[k].of = order[event.o].of
        OBVIOUS
      <4>2. Cardinality(RoomsOf(sock[k]) \cap rooms) = IF mine THEN 1 ELSE 0
        BY <1>1, <2>1, <4>1, RoomsHeard DEF Emit
      <4>3. heard'[k] = IF sock[k].st = "open" /\ mine THEN 1 ELSE 0
        BY <2>1, <4>2 DEF Emit
      <4>4. sock[k].st = "open" /\ sock[k].was => sock[k].hasMembership
        BY <1>1 DEF AudienceInv, SockPart, SocketGood
      <4>5. sock[k].hasMembership \in BOOLEAN
        BY <1>1 DEF AudienceInv, SockPart, Socket
      <4> QED
        BY <4>1, <4>3, <4>4, <4>5
    <3> QED
      BY <3>1
  <2>2. CASE ~Emit
    BY <1>1, <2>2, EmittedOnce
  <2> QED
    BY <2>1, <2>2
<1> QED
  BY <1>1, AlwaysAudience, PTL DEF AudienceSpec, HeardByParties

(* Changes from outside are counted up to their bound.                     *)
Counting == changes \in 0..world.changes

LEMMA NextCounting ==
  AudienceInv /\ Counting /\ [AudienceNext]_audienceVars => Counting'
<1> SUFFICES ASSUME AudienceInv, Counting, [AudienceNext]_audienceVars PROVE Counting'
  OBVIOUS
<1> DEFINE Same == UNCHANGED <<world, changes>>
<1> USE DEF ctxVars, liveVars
<1>0. world.changes \in Nat
  BY AudienceConstantsOK DEF AudienceInv, PlacesPart
<1>1. ASSUME NEW r \in Slots, Requests(r) PROVE Same
  BY <1>1 DEF Requests, StaffLogin, GetContexts, SelectGuard, StaffGuard, CustomerGuard,
     BranchesFound, BranchMade, ContextsBuilt, SelectMember, SelectRefused, SelectBranch,
     SelectWasher, ReplaceRead, ReplaceCommit, StaffMember, StaffBranch, Served, PlaceOrder
<1>2. ASSUME NEW i, NEW w, CustomerLogin(i, w) \/ (\E n \in Sess : Enroll(n, w)) PROVE Same
  BY <1>2 DEF CustomerLogin, Enroll
<1>3. ASSUME NEW o, NEW m, Assign(o, m) PROVE Same
  BY <1>3 DEF Assign
<1>4. ASSUME NEW k, \/ \E n \in Sess, w \in Washers : SocketRow(k, n, w)
                   \/ SocketMember(k) \/ SocketOverlap(k) \/ SocketJoin(k) \/ SocketEnds(k)
      PROVE  Same
  BY <1>4 DEF SocketRow, SocketMember, SocketOverlap, SocketJoin, SocketEnds
<1>5. ASSUME NEW e, Announce(e) PROVE Same
  BY <1>5 DEF Announce
<1>6. ASSUME Resolve \/ Emit \/ EmitFails PROVE Same
  BY <1>6 DEF Resolve, Emit, EmitFails
<1>7. ASSUME \/ \E m \in Staff : \E new : StaffChanges(m, new)
             \/ \E b \in Branches : BranchChanges(b)
             \/ \E w \in Washers : WasherChanges(w)
      PROVE  world' = world /\ changes < world.changes /\ changes' = changes + 1
  BY <1>7 DEF StaffChanges, BranchChanges, WasherChanges
<1>8. ASSUME UNCHANGED audienceVars PROVE Same
  BY <1>8 DEF audienceVars
<1>9. Same \/ (world' = world /\ changes < world.changes /\ changes' = changes + 1)
  BY <1>1, <1>2, <1>3, <1>4, <1>5, <1>6, <1>7, <1>8 DEF AudienceNext
<1> QED
  BY <1>0, <1>9 DEF Counting

(* Every session, request, socket and order is of its table's type, an     *)
(* event is resolved to rooms that exist, and nobody's count of what was   *)
(* heard is anything but a number.                                         *)
THEOREM AudienceTypes == AudienceSpec => []AudienceTypeOK
<1>1. AudienceInit => Counting
  BY AudienceConstantsOK DEF AudienceInit, Counting
<1>2. AudienceInv /\ Counting => AudienceTypeOK
  <2> SUFFICES ASSUME AudienceInv, Counting PROVE AudienceTypeOK
    OBVIOUS
  <2> USE DEF AudienceInv, PlacesPart, StaffPart, SessPart, ReqPart, OrderPart, SockPart,
       EventPart
  <2>1. rooms \in SUBSET (StaffRooms \cup CustomerRooms)
    <3>1. CASE rooms = {}
      BY <3>1
    <3>2. CASE rooms # {} /\ event.type \notin AboutOrders
      BY <3>2 DEF RoomsGood
    <3>3. CASE rooms # {} /\ event.type \in AboutOrders
      <4>1. event \in EventRow /\ order[event.o] # NoOrder
        BY <3>3 DEF RoomsGood
      <4>2. event.o \in Orders
        BY <3>3, <4>1 DEF EventRow, AboutOrders
      <4>3. order[event.o] \in OrderRow
        BY <4>1, <4>2
      <4>4. CustomerRoom(event.o) \in CustomerRooms
        BY <4>3 DEF CustomerRoom, CustomerRooms, OrderRow
      <4> QED
        BY <3>3, <4>4 DEF RoomsGood
    <3> QED
      BY <3>1, <3>2, <3>3
  <2> QED
    BY <2>1 DEF AudienceTypeOK, Counting
<1>3. AudienceInv /\ Counting /\ [AudienceNext]_audienceVars => AudienceInv' /\ Counting'
  BY NextAudience, NextCounting
<1> QED
  BY <1>1, <1>2, <1>3, InitAudience, PTL DEF AudienceSpec

=============================================================================
