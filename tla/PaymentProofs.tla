---------------------------- MODULE PaymentProofs ----------------------------
(***************************************************************************)
(* Payments for any number of overlapping requests, charges and notices:   *)
(* the webhook confirms an order along the matrix, and a payment recorded  *)
(* as paid is final.                                                       *)
(*                                                                         *)
(* Neither holds of the tables alone.  They hold because of what a request *)
(* in flight remembers: a webhook the verdict of the gateway, which is     *)
(* final, and a status that may be confirmed; the creator of a charge that *)
(* nobody else creates it and that it charged the price it asked for.      *)
(*                                                                         *)
(* With one request at a time (SInv), a request also knows that the order  *)
(* is still as it read it, and an unpaid order has seen no money.          *)
(*                                                                         *)
(* The second half is about refunds.  The gateway's yes is the only way to *)
(* a completed row, however refunds overlap (RefundInv).  However many     *)
(* overlap, what is given stays within the payment once for each in flight *)
(* (OverInv), which is the room the ledger promises.  Where there is one   *)
(* at a time, the sum a reservation read is still the sum when it inserts  *)
(* and when it completes (SoloInv), so that the payment is marked by the   *)
(* refund that leaves nothing.  Both together make three transactions the  *)
(* ledger's atomic steps.                                                  *)
(***************************************************************************)
EXTENDS Payments, Refunds, FiniteSetTheorems, TLAPS

(* What a request in flight knows of its charge and of the order. *)
Knows(s) ==
  LET r == req[s] IN
  /\ (r.pc = "read" /\ r.op = "create") =>
        r.charge \in Charges /\ gateway[r.charge] = NoEntry
  /\ r.pc = "answered" =>
        /\ r.op = "create" /\ r.charge \in Charges
        /\ gateway[r.charge].amount = r.amount
        /\ gateway[r.charge].status # "none"
        /\ r.seen \in {"initiated", "paid", "failed"}
        /\ r.seen = "paid" => gateway[r.charge].status = "paid"
  /\ (r.pc = "read" /\ r.op \in {"paid", "failed", "mismatch"}) =>
        r.charge \in Charges /\ r.notice \in Notices
  /\ (r.pc = "read" /\ r.op = "paid") =>
        /\ gateway[r.charge] = [status |-> "paid", amount |-> r.amount]
        /\ \/ r.seen = "payment_confirmed"
           \/ isAllowedTransition(r.seen, "payment_confirmed")
  /\ (r.pc = "read" /\ r.op = "failed") =>
        gateway[r.charge].status = "failed"

(* A charge being created has one creator. *)
OneCreator ==
  \A s, o \in Slots :
    (s # o /\ req[s].op = "create" /\ req[o].op = "create")
      => req[s].charge # req[o].charge

(* A row recorded as paid repeats the gateway. *)
PaidRowsAgree == \A c \in Charges : row[c].status = "paid" => gateway[c] = row[c]

IInv == TypeOK /\ PaidRowsAgree /\ OneCreator /\ \A s \in Slots : Knows(s)

-----------------------------------------------------------------------------
THEOREM InitInv == Init => IInv
<1> SUFFICES ASSUME Init PROVE IInv
  OBVIOUS
<1>1. TypeOK
  BY ConstantsOK DEF Init, TypeOK, Status, Amounts, PaymentStatus, Entry,
     NoEntry, Request, NoRequest, Receipt
<1>2. PaidRowsAgree /\ OneCreator /\ \A s \in Slots : Knows(s)
  BY DEF Init, PaidRowsAgree, OneCreator, Knows, NoEntry, NoRequest
<1> QED
  BY <1>1, <1>2 DEF IInv

(* A request that ends forgets everything. *)
LEMMA ReplyKeeps ==
  ASSUME IInv, NEW s \in Slots, Reply(s), UNCHANGED gateway
  PROVE  req' \in [Slots -> Request] /\ OneCreator' /\ (\A o \in Slots : Knows(o)')
<1>1. /\ req' \in [Slots -> Request]
      /\ req'[s] = NoRequest
      /\ \A o \in Slots \ {s} : req'[o] = req[o]
  BY DEF Reply, IInv, TypeOK, Request, NoRequest, Amounts
<1>2. OneCreator'
  BY <1>1 DEF IInv, OneCreator, NoRequest
<1>3. ASSUME NEW o \in Slots PROVE Knows(o)'
  <2>1. CASE o = s
    BY <1>1, <2>1 DEF Knows, NoRequest
  <2>2. CASE o # s
    BY <1>1, <2>2 DEF IInv, Knows
  <2> QED
    BY <2>1, <2>2
<1> QED
  BY <1>1, <1>2, <1>3

(* A request that begins remembers what it read. *)
LEMMA AcceptKeeps ==
  ASSUME IInv, NEW s \in Slots,
         NEW op \in {"create", "manual", "switch", "collect", "details",
                     "paid", "failed", "mismatch"},
         NEW c \in Charges \cup {NoCharge},
         NEW n \in Notices \cup {NoCharge},
         NEW asked \in Amounts,
         Accept(s, op, c, n, asked),
         op = "create" =>
           /\ c \in Charges /\ gateway[c] = NoEntry
           /\ \A o \in Slots : req[o].charge # c,
         op \in {"paid", "failed", "mismatch"} => c \in Charges /\ n \in Notices,
         op = "paid" =>
           /\ gateway[c].status = "paid" /\ gateway[c].amount = asked
           /\ Confirmable,
         op = "failed" => gateway[c].status = "failed"
  PROVE  IInv'
<1>1. /\ req' = [req EXCEPT ![s] = [pc |-> "read", op |-> op, charge |-> c,
                    notice |-> n, seen |-> status, amount |-> asked]]
      /\ UNCHANGED <<overlap, status, total, payStatus, method, invoice, row,
                     cash, hook, gateway>>
  BY DEF Accept, order
<1>2. /\ req' \in [Slots -> Request]
      /\ req'[s] = [pc |-> "read", op |-> op, charge |-> c, notice |-> n,
                    seen |-> status, amount |-> asked]
      /\ \A o \in Slots \ {s} : req'[o] = req[o]
  BY <1>1 DEF IInv, TypeOK, Request
<1>3. TypeOK'
  BY <1>1, <1>2 DEF IInv, TypeOK
<1>4. PaidRowsAgree'
  BY <1>1 DEF IInv, PaidRowsAgree
<1>5. OneCreator'
  BY <1>2 DEF IInv, OneCreator
<1>6. ASSUME NEW o \in Slots PROVE Knows(o)'
  <2>1. CASE o # s
    BY <1>1, <1>2, <2>1 DEF IInv, Knows
  <2>2. CASE o = s
    <3>1. op = "paid" =>
            /\ gateway[c] = [status |-> "paid", amount |-> asked]
            /\ \/ status = "payment_confirmed"
               \/ isAllowedTransition(status, "payment_confirmed")
      BY DEF IInv, TypeOK, Entry, Confirmable
    <3> QED
      BY <1>1, <1>2, <2>2, <3>1 DEF Knows
  <2> QED
    BY <2>1, <2>2
<1> QED
  BY <1>3, <1>4, <1>5, <1>6 DEF IInv

LEMMA ArriveInv ==
  ASSUME IInv, NEW s \in Slots, Arrive(s)
  PROVE  IInv'
<1>0. total \in Amounts /\ 0 \in Amounts
  BY DEF IInv, TypeOK, Amounts
<1>1. ASSUME NEW c \in Charges, CreateRead(s, c) PROVE IInv'
  BY <1>0, <1>1, AcceptKeeps DEF CreateRead
<1>2. CASE ManualRead(s)
  BY <1>0, <1>2, AcceptKeeps DEF ManualRead
<1>3. CASE SwitchRead(s)
  BY <1>0, <1>3, AcceptKeeps DEF SwitchRead
<1>4. CASE CollectRead(s)
  BY <1>0, <1>4, AcceptKeeps DEF CollectRead
<1>5. ASSUME NEW price \in Prices, DetailsRead(s, price) PROVE IInv'
  BY <1>5, AcceptKeeps DEF DetailsRead, Amounts
<1>6. ASSUME NEW c \in Charges, NEW n \in Notices,
             \/ WebhookReadPaid(s, c, n) \/ WebhookReadMismatch(s, c, n)
             \/ WebhookReadFailed(s, c, n)
      PROVE  IInv'
  <2>1. gateway[c].amount \in Amounts
    BY DEF IInv, TypeOK, Entry
  <2>2. CASE WebhookReadPaid(s, c, n)
    BY <2>1, <2>2, AcceptKeeps DEF WebhookReadPaid
  <2>3. CASE WebhookReadMismatch(s, c, n)
    BY <2>1, <2>3, AcceptKeeps DEF WebhookReadMismatch
  <2>4. CASE WebhookReadFailed(s, c, n)
    BY <2>1, <2>4, AcceptKeeps DEF WebhookReadFailed
  <2> QED
    BY <1>6, <2>2, <2>3, <2>4
<1> QED
  BY <1>1, <1>2, <1>3, <1>4, <1>5, <1>6 DEF Arrive

-----------------------------------------------------------------------------
(* The end of a request that leaves the gateway and the rows alone. *)
LEMMA PlainEnd ==
  ASSUME IInv, NEW s \in Slots, Reply(s), UNCHANGED <<gateway, row>>
  PROVE  /\ req' \in [Slots -> Request]
         /\ PaidRowsAgree' /\ OneCreator' /\ (\A o \in Slots : Knows(o)')
  BY ReplyKeeps DEF IInv, PaidRowsAgree

(* The end of a request that writes one Payment row: the row it writes     *)
(* repeats the gateway when it says paid.                                  *)
LEMMA RowEnd ==
  ASSUME IInv, NEW s \in Slots, Reply(s), UNCHANGED gateway,
         NEW c \in Charges, NEW e \in Entry,
         row' = [row EXCEPT ![c] = e],
         e.status = "paid" => e = gateway[c]
  PROVE  /\ req' \in [Slots -> Request] /\ row' \in [Charges -> Entry]
         /\ PaidRowsAgree' /\ OneCreator' /\ (\A o \in Slots : Knows(o)')
<1>1. row \in [Charges -> Entry]
  BY DEF IInv, TypeOK
<1>2. PaidRowsAgree'
  BY <1>1 DEF IInv, PaidRowsAgree
<1> QED
  BY <1>1, <1>2, ReplyKeeps

LEMMA CreateInv ==
  ASSUME IInv, NEW s \in Slots, GatewayCreates(s) \/ CreateFails(s) \/ CreateCommit(s)
  PROVE  IInv'
<1>1. CASE GatewayCreates(s)
  <2> DEFINE c == req[s].charge
  <2>1. PICK st \in {"initiated", "paid", "failed"} :
          /\ gateway' = [gateway EXCEPT ![c] =
                            [status |-> st, amount |-> req[s].amount]]
          /\ req' = [req EXCEPT ![s] = [@ EXCEPT !.pc = "answered", !.seen = st]]
    BY <1>1 DEF GatewayCreates
  <2>2. /\ c \in Charges /\ gateway[c] = NoEntry
        /\ req[s].pc = "read" /\ req[s].op = "create"
    BY <1>1 DEF IInv, Knows, GatewayCreates, At
  <2>3. /\ req' \in [Slots -> Request]
        /\ req'[s].pc = "answered" /\ req'[s].seen = st
        /\ req'[s].op = "create" /\ req'[s].charge = c
        /\ req'[s].amount = req[s].amount
        /\ \A o \in Slots \ {s} : req'[o] = req[o]
    <3>1. req \in [Slots -> Request] /\ req[s] \in Request
      BY DEF IInv, TypeOK
    <3>2. [req[s] EXCEPT !.pc = "answered", !.seen = st] \in Request
      BY <3>1 DEF Request
    <3> QED
      BY <2>1, <2>2, <3>1, <3>2 DEF Request
  <2>4. /\ gateway' \in [Charges -> Entry]
        /\ gateway'[c] = [status |-> st, amount |-> req[s].amount]
        /\ \A x \in Charges \ {c} : gateway'[x] = gateway[x]
    BY <2>1, <2>2 DEF IInv, TypeOK, Entry, Request
  <2>5. TypeOK'
    BY <1>1, <2>3, <2>4 DEF IInv, TypeOK, GatewayCreates, order
  <2>6. PaidRowsAgree'
    <3>1. row' = row /\ row[c].status # "paid"
      BY <1>1, <2>2 DEF IInv, PaidRowsAgree, GatewayCreates, NoEntry
    <3> QED
      BY <2>4, <3>1 DEF IInv, PaidRowsAgree
  <2>7. \A o \in Slots : req'[o].op = req[o].op /\ req'[o].charge = req[o].charge
    <3>1. ASSUME NEW o \in Slots, o = s
          PROVE req'[o].op = req[o].op /\ req'[o].charge = req[o].charge
      BY <2>2, <2>3, <3>1
    <3>2. ASSUME NEW o \in Slots, o # s
          PROVE req'[o].op = req[o].op /\ req'[o].charge = req[o].charge
      BY <2>3, <3>2
    <3> QED
      BY <3>1, <3>2
  <2>8. OneCreator'
    BY <2>7 DEF IInv, OneCreator
  <2>9. ASSUME NEW o \in Slots PROVE Knows(o)'
    <3>1. CASE o = s
      BY <2>2, <2>3, <2>4, <3>1 DEF Knows, IInv, TypeOK, Request
    <3>2. CASE o # s
      <4>1. req'[o] = req[o] /\ Knows(o)
        BY <2>3, <3>2 DEF IInv
      <4>2. CASE req[o].op = "create"
        <5>1. req[o].charge # c
          BY <2>2, <3>2, <4>2 DEF IInv, OneCreator
        <5> QED
          BY <2>4, <4>1, <4>2, <5>1 DEF Knows
      <4>3. CASE req[o].op # "create"
        BY <2>2, <2>4, <4>1, <4>3 DEF Knows, NoEntry
      <4> QED
        BY <4>2, <4>3
    <3> QED
      BY <3>1, <3>2
  <2> QED
    BY <2>5, <2>6, <2>8, <2>9 DEF IInv
<1>2. CASE CreateFails(s)
  BY <1>2, PlainEnd DEF CreateFails, IInv, TypeOK, Reply, order
<1>3. CASE CreateCommit(s)
  <2> DEFINE c == req[s].charge
             e == [status |-> req[s].seen, amount |-> req[s].amount]
  <2>1. /\ Reply(s) /\ UNCHANGED gateway /\ row' = [row EXCEPT ![c] = e]
        /\ payStatus' = req[s].seen /\ SyncInvoices(req[s].seen)
        /\ UNCHANGED <<overlap, status, total, method, cash, hook>>
    BY <1>3 DEF CreateCommit, Reply
  <2>2. c \in Charges /\ e \in Entry /\ req[s].seen \in PaymentStatus
    BY <1>3 DEF CreateCommit, At, IInv, Knows, TypeOK, Request, Entry,
       PaymentStatus
  <2>3. e.status = "paid" => e = gateway[c]
    BY <1>3, <2>2 DEF CreateCommit, At, IInv, Knows, TypeOK, Entry
  <2>4. /\ req' \in [Slots -> Request] /\ row' \in [Charges -> Entry]
        /\ PaidRowsAgree' /\ OneCreator' /\ (\A o \in Slots : Knows(o)')
    BY <2>1, <2>2, <2>3, RowEnd
  <2>5. TypeOK'
    BY <2>1, <2>2, <2>4 DEF IInv, TypeOK, SyncInvoices
  <2> QED
    BY <2>4, <2>5 DEF IInv
<1> QED
  BY <1>1, <1>2, <1>3

LEMMA SettleInv ==
  ASSUME IInv, NEW s \in Slots,
         \/ ManualCommit(s) \/ CollectCommit(s)
         \/ SwitchCommit(s) \/ DetailsCommit(s) \/ WebhookMismatch(s)
  PROVE  IInv'
<1>1. ASSUME NEW by \in {"cod", "manual"}, SettleOutside(s, by)
      PROVE  IInv'
  <2>1. req[s].amount \in Amounts
    BY DEF IInv, TypeOK, Request
  <2>2. Append(cash, [provider |-> by, amount |-> req[s].amount]) \in Seq(Receipt)
    BY <2>1 DEF IInv, TypeOK, Receipt
  <2> QED
    BY <1>1, <2>2, PlainEnd DEF SettleOutside, IInv, TypeOK, Reply,
       SyncInvoices, PaymentStatus
<1>2. CASE SwitchCommit(s)
  BY <1>2, PlainEnd DEF SwitchCommit, IInv, TypeOK, Reply
<1>3. CASE DetailsCommit(s)
  <2>1. req[s].amount \in Amounts
    BY DEF IInv, TypeOK, Request
  <2> QED
    BY <1>3, <2>1, PlainEnd DEF DetailsCommit, IInv, TypeOK, Reply
<1>4. CASE WebhookMismatch(s)
  <2>1. /\ Reply(s) /\ UNCHANGED <<order, invoice, row, cash, gateway>>
        /\ hook' = [hook EXCEPT ![<<req[s].charge, req[s].notice>>] = "failed"]
    BY <1>4 DEF WebhookMismatch, Processed
  <2> QED
    BY <2>1, PlainEnd DEF IInv, TypeOK, Reply, order
<1> QED
  BY <1>1, <1>2, <1>3, <1>4 DEF ManualCommit, CollectCommit

LEMMA WebhookInv ==
  ASSUME IInv, NEW s \in Slots, WebhookPaidCommit(s) \/ WebhookFailedCommit(s)
  PROVE  IInv'
<1> DEFINE c == req[s].charge
<1>0. c \in Charges /\ req[s].amount \in Amounts
  BY DEF WebhookPaidCommit, WebhookFailedCommit, At, IInv, Knows, TypeOK, Request
<1>1. CASE WebhookPaidCommit(s)
  <2> DEFINE e == [status |-> "paid", amount |-> req[s].amount]
  <2>1. /\ Reply(s) /\ UNCHANGED gateway /\ row' = [row EXCEPT ![c] = e]
        /\ UNCHANGED <<overlap, total, method, cash>>
        /\ hook' = [hook EXCEPT ![<<c, req[s].notice>>] = "processed"]
        /\ invoice' = "paid"
    BY <1>1 DEF WebhookPaidCommit, Processed, Reply
  <2>2. e \in Entry /\ e = gateway[c]
    BY <1>0, <1>1 DEF WebhookPaidCommit, At, IInv, Knows, Entry
  <2>3. status' \in Status /\ payStatus' \in PaymentStatus
    BY <1>1 DEF WebhookPaidCommit, IInv, TypeOK, Status, PaymentStatus
  <2>4. /\ req' \in [Slots -> Request] /\ row' \in [Charges -> Entry]
        /\ PaidRowsAgree' /\ OneCreator' /\ (\A o \in Slots : Knows(o)')
    BY <1>0, <2>1, <2>2, RowEnd
  <2>5. TypeOK'
    BY <2>1, <2>3, <2>4 DEF IInv, TypeOK, PaymentStatus
  <2> QED
    BY <2>4, <2>5 DEF IInv
<1>2. CASE WebhookFailedCommit(s)
  <2> DEFINE e == [status |-> "failed",
                   amount |-> IF row[c] = NoEntry THEN req[s].amount
                              ELSE row[c].amount]
  <2>1. /\ Reply(s) /\ UNCHANGED <<gateway, order, invoice, cash>>
        /\ row' = [row EXCEPT ![c] = e]
        /\ hook' = [hook EXCEPT ![<<c, req[s].notice>>] = "processed"]
    BY <1>2 DEF WebhookFailedCommit, Processed
  <2>2. e \in Entry
    BY <1>0 DEF IInv, TypeOK, Entry
  <2>4. /\ req' \in [Slots -> Request] /\ row' \in [Charges -> Entry]
        /\ PaidRowsAgree' /\ OneCreator' /\ (\A o \in Slots : Knows(o)')
    BY <1>0, <2>1, <2>2, RowEnd
  <2>5. TypeOK'
    BY <2>1, <2>4 DEF IInv, TypeOK, Reply, order
  <2> QED
    BY <2>4, <2>5 DEF IInv
<1> QED
  BY <1>1, <1>2

LEMMA EnvironmentInv ==
  ASSUME IInv, Environment
  PROVE  IInv'
<1>1. ASSUME NEW c \in Charges, NEW st \in {"paid", "failed"}, GatewaySettles(c, st)
      PROVE  IInv'
  <2>1. /\ gateway' \in [Charges -> Entry]
        /\ gateway[c].status = "initiated"
        /\ gateway'[c] = [status |-> st, amount |-> gateway[c].amount]
        /\ \A x \in Charges \ {c} : gateway'[x] = gateway[x]
    BY <1>1 DEF GatewaySettles, IInv, TypeOK, Entry
  <2>2. TypeOK'
    BY <1>1, <2>1 DEF GatewaySettles, IInv, TypeOK, order
  <2>3. PaidRowsAgree' /\ OneCreator'
    BY <1>1, <2>1 DEF GatewaySettles, IInv, PaidRowsAgree, OneCreator
  <2>4. ASSUME NEW o \in Slots PROVE Knows(o)'
    <3>1. req' = req /\ Knows(o)
      BY <1>1 DEF GatewaySettles, IInv
    <3>2. CASE req[o].charge = c
      BY <2>1, <3>1, <3>2 DEF Knows, NoEntry
    <3>3. CASE req[o].charge # c
      BY <2>1, <3>1, <3>3 DEF Knows
    <3> QED
      BY <3>2, <3>3
  <2> QED
    BY <2>2, <2>3, <2>4 DEF IInv
<1>2. ASSUME NEW c \in Charges, NEW n \in Notices, ReceiveWebhook(c, n)
      PROVE  IInv'
  BY <1>2 DEF ReceiveWebhook, IInv, TypeOK, PaidRowsAgree, OneCreator, Knows, order
<1>3. ASSUME NEW to \in StatusMoves, OrderMoves(to) PROVE IInv'
  BY <1>3, ConstantsOK DEF OrderMoves, IInv, TypeOK, PaidRowsAgree, OneCreator, Knows
<1> QED
  BY <1>1, <1>2, <1>3 DEF Environment

LEMMA StutterInv == ASSUME IInv, UNCHANGED vars PROVE IInv'
  BY DEF vars, order, IInv, TypeOK, PaidRowsAgree, OneCreator, Knows

LEMMA NextInv == IInv /\ [Next]_vars => IInv'
  BY ArriveInv, CreateInv, SettleInv, WebhookInv, EnvironmentInv, StutterInv
     DEF Next, Proceed

(* IInv holds of every reachable state, whatever the constants. *)
THEOREM Inductive == Spec => []IInv
  BY InitInv, NextInv, PTL DEF Spec

-----------------------------------------------------------------------------
(* No handler writes a status outside the enums of the schema.             *)
THEOREM TypeCorrect == Spec => []TypeOK
<1>1. IInv => TypeOK
  BY DEF IInv
<1> QED
  BY <1>1, Inductive, PTL

(* Only WHERE status = the status read makes the webhook confirm along the *)
(* matrix: the status it read was confirmable, the row still has it.       *)
THEOREM ConfirmsAlongMatrix == Spec => ConfirmAlongMatrix
<1>1. ASSUME IInv, NEW s \in Slots, WebhookPaidCommit(s), status' # status
      PROVE  isAllowedTransition(status, "payment_confirmed")
  <2>1. status = req[s].seen /\ status' = "payment_confirmed"
    BY <1>1 DEF WebhookPaidCommit
  <2>2. \/ req[s].seen = "payment_confirmed"
        \/ isAllowedTransition(req[s].seen, "payment_confirmed")
    BY <1>1 DEF WebhookPaidCommit, At, IInv, Knows
  <2> QED
    BY <1>1, <2>1, <2>2
<1>2. IInv => [\A s \in Slots : (WebhookPaidCommit(s) /\ status' # status) =>
        isAllowedTransition(status, "payment_confirmed")]_vars
  BY <1>1
<1> QED
  BY <1>2, Inductive, PTL DEF ConfirmAlongMatrix, Spec

(* A paid row repeats the gateway, which is final: a second notice writes  *)
(* the same entry, a failure notice cannot be in flight, and the creator's *)
(* late INSERT meets the unique externalId.                                *)
THEOREM PaidIsFinal == Spec => PaidRowIsFinal
<1>1. ASSUME IInv, [Next]_vars, NEW c \in Charges, row[c].status = "paid"
      PROVE  row'[c] = row[c]
  <2>1. gateway[c] = row[c] /\ row \in [Charges -> Entry]
    BY <1>1 DEF IInv, PaidRowsAgree, TypeOK
  <2>2. ASSUME NEW s \in Slots, Arrive(s) PROVE row' = row
    BY <2>2 DEF Arrive, CreateRead, ManualRead, SwitchRead, CollectRead,
       DetailsRead, WebhookReadPaid, WebhookReadMismatch, WebhookReadFailed,
       Accept
  <2>3. ASSUME NEW s \in Slots, CreateCommit(s) PROVE row'[c] = row[c]
    <3>1. req[s].charge # c
      BY <1>1, <2>3 DEF CreateCommit, NoEntry
    <3> QED
      BY <2>1, <2>3, <3>1 DEF CreateCommit
  <2>4. ASSUME NEW s \in Slots, WebhookPaidCommit(s) PROVE row'[c] = row[c]
    <3>1. gateway[req[s].charge] = [status |-> "paid", amount |-> req[s].amount]
      BY <1>1, <2>4 DEF WebhookPaidCommit, At, IInv, Knows
    <3> QED
      BY <2>1, <2>4, <3>1 DEF WebhookPaidCommit
  <2>5. ASSUME NEW s \in Slots, WebhookFailedCommit(s) PROVE row'[c] = row[c]
    <3>1. gateway[req[s].charge].status = "failed"
      BY <1>1, <2>5 DEF WebhookFailedCommit, At, IInv, Knows
    <3>2. req[s].charge # c
      BY <1>1, <2>1, <3>1
    <3> QED
      BY <2>1, <2>5, <3>2 DEF WebhookFailedCommit
  <2>6. ASSUME NEW s \in Slots,
               \/ GatewayCreates(s) \/ CreateFails(s) \/ ManualCommit(s)
               \/ SwitchCommit(s) \/ CollectCommit(s) \/ DetailsCommit(s)
               \/ WebhookMismatch(s)
        PROVE  row' = row
    BY <2>6 DEF GatewayCreates, CreateFails, ManualCommit, SwitchCommit,
       CollectCommit, DetailsCommit, WebhookMismatch, SettleOutside
  <2>7. ASSUME Environment PROVE row' = row
    BY <2>7 DEF Environment, GatewaySettles, ReceiveWebhook, OrderMoves
  <2>8. CASE UNCHANGED vars
    BY <2>8 DEF vars
  <2> QED
    BY <1>1, <2>2, <2>3, <2>4, <2>5, <2>6, <2>7, <2>8 DEF Next, Proceed
<1>2. IInv /\ [Next]_vars =>
        [\A c \in Charges : row[c].status = "paid" => row'[c] = row[c]]_vars
  BY <1>1
<1> QED
  BY <1>2, Inductive, PTL DEF PaidRowIsFinal, Spec

-----------------------------------------------------------------------------
(* One request at a time.                                                  *)

OneAtWork ==
  \A s, o \in Slots : (req[s].pc # "idle" /\ req[o].pc # "idle") => s = o

(* What a request read of the order is so until it is answered. *)
Fresh(s) ==
  LET r == req[s] IN
  /\ r.pc = "read" => r.seen = status
  /\ r.op \in {"create", "manual", "collect", "paid"} => r.amount = total
  /\ r.op = "collect" => payStatus = "unpaid"
  /\ r.op = "details" => payStatus # "paid"

UnpaidSawNoMoney == payStatus = "unpaid" => cash = <<>> /\ PaidRows = {}

PriceIsPaid ==
  payStatus = "paid" =>
    \/ \E c \in PaidRows : row[c].amount = total
    \/ \E i \in DOMAIN cash : cash[i].amount = total

Alone ==
  /\ OneAtWork
  /\ \A s \in Slots : req[s].pc # "idle" => Fresh(s)
  /\ UnpaidSawNoMoney
  /\ PriceIsPaid

SInv == IInv /\ (Sequential => Alone)

(* Whoever is let in finds nobody at work. *)
LEMMA FreeMeansIdle ==
  ASSUME Sequential, Free
  PROVE  \A o \in Slots : req[o].pc = "idle"
<1>1. IsFiniteSet(AtWork)
  BY ConstantsOK, FS_Subset DEF AtWork
<1>2. Cardinality(AtWork) = 0
  BY <1>1, FS_CardinalityType DEF Free, Sequential
<1>3. AtWork = {}
  BY <1>1, <1>2, FS_EmptySet
<1> QED
  BY <1>3 DEF AtWork

(* A request that begins.  What it read is what there is. *)
LEMMA BeginAlone ==
  ASSUME IInv, Sequential, Alone, NEW s \in Slots, NEW op, NEW c, NEW n, NEW asked,
         Accept(s, op, c, n, asked),
         op \in {"create", "manual", "collect", "paid"} => asked = total,
         op = "collect" => payStatus = "unpaid",
         op = "details" => payStatus # "paid"
  PROVE  Alone'
<1>1. /\ req'[s].pc = "read" /\ req'[s].op = op /\ req'[s].amount = asked
      /\ req'[s].seen = status
      /\ \A o \in Slots \ {s} : req'[o] = req[o]
      /\ UNCHANGED <<status, total, payStatus, row, cash>>
  BY DEF Accept, order, IInv, TypeOK
<1>2. \A o \in Slots : req[o].pc = "idle"
  BY FreeMeansIdle DEF Accept
<1>3. OneAtWork' /\ \A o \in Slots : req'[o].pc # "idle" => Fresh(o)'
  BY <1>1, <1>2 DEF OneAtWork, Fresh
<1>4. (UnpaidSawNoMoney /\ PriceIsPaid)'
  BY <1>1 DEF Alone, UnpaidSawNoMoney, PriceIsPaid, PaidRows
<1> QED
  BY <1>3, <1>4 DEF Alone

LEMMA ArriveAlone ==
  ASSUME IInv, Sequential, Alone, NEW s \in Slots, Arrive(s)
  PROVE  Alone'
<1>1. ASSUME NEW c \in Charges, CreateRead(s, c) PROVE Alone'
  BY <1>1, BeginAlone DEF CreateRead
<1>2. CASE ManualRead(s)
  BY <1>2, BeginAlone DEF ManualRead
<1>3. CASE SwitchRead(s)
  BY <1>3, BeginAlone DEF SwitchRead
<1>4. CASE CollectRead(s)
  BY <1>4, BeginAlone DEF CollectRead
<1>5. ASSUME NEW price \in Prices, DetailsRead(s, price) PROVE Alone'
  BY <1>5, BeginAlone DEF DetailsRead
<1>6. ASSUME NEW c \in Charges, NEW n \in Notices,
             \/ WebhookReadPaid(s, c, n) \/ WebhookReadMismatch(s, c, n)
             \/ WebhookReadFailed(s, c, n)
      PROVE  Alone'
  BY <1>6, BeginAlone DEF WebhookReadPaid, WebhookReadMismatch, WebhookReadFailed
<1> QED
  BY <1>1, <1>2, <1>3, <1>4, <1>5, <1>6 DEF Arrive

(* An answer leaves nobody at work; only the money is left to look at.     *)
LEMMA AnswerAlone ==
  ASSUME IInv, Alone, NEW s \in Slots, req[s].pc # "idle", Reply(s),
         UnpaidSawNoMoney', PriceIsPaid'
  PROVE  Alone'
<1>1. /\ req'[s].pc = "idle"
      /\ \A o \in Slots \ {s} : req'[o] = req[o]
  BY DEF Reply, NoRequest, IInv, TypeOK
<1>2. \A o \in Slots : req'[o].pc = "idle"
  BY <1>1 DEF Alone, OneAtWork
<1>3. OneAtWork' /\ \A o \in Slots : req'[o].pc # "idle" => Fresh(o)'
  BY <1>2 DEF OneAtWork
<1> QED
  BY <1>3 DEF Alone

LEMMA ProceedAlone ==
  ASSUME IInv, Sequential, Alone, NEW s \in Slots, Proceed(s)
  PROVE  Alone'
<1> DEFINE r == req[s]
<1>0. r.pc # "idle" /\ Fresh(s) /\ UnpaidSawNoMoney /\ PriceIsPaid /\ Knows(s)
  BY DEF Alone, IInv, Proceed, GatewayCreates, CreateFails, CreateCommit, ManualCommit,
     SwitchCommit, CollectCommit, DetailsCommit, WebhookMismatch,
     WebhookPaidCommit, WebhookFailedCommit, At
<1>1. CASE GatewayCreates(s)
  <2>1. /\ req'[s].pc = "answered" /\ req'[s].op = "create"
        /\ req'[s].amount = r.amount
        /\ \A o \in Slots \ {s} : req'[o] = req[o]
        /\ UNCHANGED <<status, total, payStatus, row, cash>>
    BY <1>1 DEF GatewayCreates, At, IInv, TypeOK, Request, order
  <2>2. Fresh(s)'
    BY <1>0, <1>1, <2>1 DEF Fresh, GatewayCreates, At
  <2>3. OneAtWork' /\ \A o \in Slots : req'[o].pc # "idle" => Fresh(o)'
    BY <1>0, <2>1, <2>2 DEF Alone, OneAtWork
  <2>4. (UnpaidSawNoMoney /\ PriceIsPaid)'
    BY <1>0, <2>1 DEF UnpaidSawNoMoney, PriceIsPaid, PaidRows
  <2> QED
    BY <2>3, <2>4 DEF Alone
<1>2. CASE CreateFails(s) \/ SwitchCommit(s) \/ WebhookMismatch(s)
  <2>1. Reply(s) /\ UNCHANGED <<total, payStatus, row, cash>>
    BY <1>2 DEF CreateFails, SwitchCommit, WebhookMismatch, Processed, order
  <2>2. (UnpaidSawNoMoney /\ PriceIsPaid)'
    BY <1>0, <2>1 DEF UnpaidSawNoMoney, PriceIsPaid, PaidRows
  <2> QED
    BY <1>0, <2>1, <2>2, AnswerAlone
<1>3. CASE CreateCommit(s)
  <2>1. /\ Reply(s) /\ UNCHANGED total /\ payStatus' = r.seen
        /\ r.seen \in {"initiated", "paid", "failed"} /\ r.charge \in Charges
        /\ r.amount = total
        /\ row' = [row EXCEPT ![r.charge] = [status |-> r.seen, amount |-> r.amount]]
    BY <1>0, <1>3 DEF CreateCommit, At, Knows, Fresh
  <2>2. row'[r.charge] = [status |-> r.seen, amount |-> total]
    BY <2>1 DEF IInv, TypeOK
  <2>3. PriceIsPaid'
    BY <2>1, <2>2 DEF PriceIsPaid, PaidRows
  <2>4. UnpaidSawNoMoney'
    BY <2>1 DEF UnpaidSawNoMoney
  <2> QED
    BY <1>0, <2>1, <2>3, <2>4, AnswerAlone
<1>4. ASSUME NEW by \in {"cod", "manual"}, SettleOutside(s, by),
             r.op \in {"manual", "collect"}
      PROVE  Alone'
  <2>1. /\ Reply(s) /\ total' = total /\ payStatus' = "paid"
        /\ cash' = Append(cash, [provider |-> by, amount |-> total])
    BY <1>0, <1>4 DEF SettleOutside, Fresh
  <2>2. cash \in Seq(Receipt)
    BY DEF IInv, TypeOK
  <2>3. Len(cash) + 1 \in DOMAIN cash' /\ cash'[Len(cash) + 1].amount = total
    BY <2>1, <2>2
  <2>4. PriceIsPaid' /\ UnpaidSawNoMoney'
    BY <2>1, <2>3 DEF PriceIsPaid, UnpaidSawNoMoney
  <2> QED
    BY <1>0, <2>1, <2>4, AnswerAlone
<1>5. CASE DetailsCommit(s)
  <2>1. Reply(s) /\ payStatus # "paid" /\ UNCHANGED <<payStatus, row, cash>>
    BY <1>0, <1>5 DEF DetailsCommit, At, Fresh
  <2>2. (UnpaidSawNoMoney /\ PriceIsPaid)'
    BY <1>0, <2>1 DEF UnpaidSawNoMoney, PriceIsPaid, PaidRows
  <2> QED
    BY <1>0, <2>1, <2>2, AnswerAlone
<1>6. CASE WebhookPaidCommit(s)
  <2>1. /\ Reply(s) /\ total' = total /\ payStatus' = "paid" /\ r.charge \in Charges
        /\ row' = [row EXCEPT ![r.charge] = [status |-> "paid", amount |-> total]]
    BY <1>0, <1>6 DEF WebhookPaidCommit, Processed, At, Fresh, Knows
  <2>2. row'[r.charge] = [status |-> "paid", amount |-> total]
    BY <2>1 DEF IInv, TypeOK
  <2>3. PriceIsPaid' /\ UnpaidSawNoMoney'
    BY <2>1, <2>2 DEF PriceIsPaid, UnpaidSawNoMoney, PaidRows
  <2> QED
    BY <1>0, <2>1, <2>3, AnswerAlone
<1>7. CASE WebhookFailedCommit(s)
  <2>1. /\ Reply(s) /\ UNCHANGED <<total, payStatus, cash>>
        /\ r.charge \in Charges /\ gateway[r.charge].status = "failed"
    BY <1>0, <1>7 DEF WebhookFailedCommit, Processed, At, Knows, order
  <2>2. row[r.charge].status # "paid" /\ row'[r.charge].status = "failed"
    BY <1>7, <2>1 DEF WebhookFailedCommit, IInv, TypeOK, PaidRowsAgree
  <2>3. \A c \in Charges \ {r.charge} : row'[c] = row[c]
    BY <1>7 DEF WebhookFailedCommit, IInv, TypeOK
  <2>4. PaidRows' = PaidRows /\ \A c \in PaidRows : row'[c] = row[c]
    BY <2>1, <2>2, <2>3 DEF PaidRows
  <2>5. (UnpaidSawNoMoney /\ PriceIsPaid)'
    BY <1>0, <2>1, <2>4 DEF UnpaidSawNoMoney, PriceIsPaid
  <2> QED
    BY <1>0, <2>1, <2>5, AnswerAlone
<1> QED
  BY <1>1, <1>2, <1>3, <1>4, <1>5, <1>6, <1>7
  DEF Proceed, ManualCommit, CollectCommit, At

(* Nobody else moves the order while a request is at work; the gateway and *)
(* its notices touch neither the order nor the rows.                       *)
LEMMA EnvironmentAlone ==
  ASSUME IInv, Sequential, Alone, Environment
  PROVE  Alone'
<1>1. UNCHANGED <<total, payStatus, row, cash, req>>
  BY DEF Environment, GatewaySettles, ReceiveWebhook, OrderMoves, order
<1>2. status' = status \/ \A o \in Slots : req[o].pc = "idle"
  BY FreeMeansIdle DEF Environment, GatewaySettles, ReceiveWebhook, OrderMoves, order
<1>3. OneAtWork' /\ (UnpaidSawNoMoney /\ PriceIsPaid)'
  BY <1>1 DEF Alone, OneAtWork, UnpaidSawNoMoney, PriceIsPaid, PaidRows
<1>4. \A o \in Slots : req'[o].pc # "idle" => Fresh(o)'
  BY <1>1, <1>2 DEF Alone, Fresh
<1> QED
  BY <1>3, <1>4 DEF Alone

LEMMA NextSInv == SInv /\ [Next]_vars => SInv'
<1> SUFFICES ASSUME SInv, [Next]_vars PROVE SInv'
  OBVIOUS
<1>1. IInv'
  BY NextInv DEF SInv
<1>2. overlap' = overlap
  <2>1. ASSUME NEW s \in Slots, Arrive(s) PROVE overlap' = overlap
    BY <2>1 DEF Arrive, CreateRead, ManualRead, SwitchRead, CollectRead, DetailsRead,
       WebhookReadPaid, WebhookReadMismatch, WebhookReadFailed, Accept
  <2>2. ASSUME NEW s \in Slots, Proceed(s) PROVE overlap' = overlap
    BY <2>2 DEF Proceed, GatewayCreates, CreateFails, CreateCommit, ManualCommit,
       SwitchCommit, CollectCommit, SettleOutside, DetailsCommit, WebhookMismatch,
       WebhookPaidCommit, WebhookFailedCommit, Processed, Reply
  <2>3. CASE Environment
    BY <2>3 DEF Environment, GatewaySettles, ReceiveWebhook, OrderMoves
  <2>4. CASE UNCHANGED vars
    BY <2>4 DEF vars
  <2> QED
    BY <2>1, <2>2, <2>3, <2>4 DEF Next
<1>3. ASSUME Sequential PROVE Alone'
  <2>1. IInv /\ Alone
    BY <1>3 DEF SInv
  <2>2. CASE UNCHANGED vars
    BY <2>1, <2>2 DEF vars, order, Alone, OneAtWork, Fresh, UnpaidSawNoMoney,
       PriceIsPaid, PaidRows
  <2> QED
    BY <1>3, <2>1, <2>2, ArriveAlone, ProceedAlone, EnvironmentAlone DEF Next
<1> QED
  BY <1>1, <1>2, <1>3 DEF SInv, Sequential

LEMMA InitSInv == Init => SInv
<1> SUFFICES ASSUME Init PROVE SInv
  OBVIOUS
<1>1. Alone
  BY DEF Init, Alone, OneAtWork, NoRequest, UnpaidSawNoMoney, PriceIsPaid,
     PaidRows, NoEntry
<1> QED
  BY <1>1, InitInv DEF SInv

(* With one request at a time, what a request read is so when it commits.  *)
THEOREM SequentialInductive == Spec => []SInv
  BY InitSInv, NextSInv, PTL DEF Spec

(* With one request at a time, however many charges, notices and prices    *)
(* there are, an order marked paid has a payment of exactly its price.     *)
THEOREM PaidThePrice == Spec => []PaidAtPrice
<1>1. SInv => PaidAtPrice
  BY DEF SInv, Alone, PriceIsPaid, PaidAtPrice
<1> QED
  BY <1>1, SequentialInductive, PTL

(* With one request at a time, the driver takes cash only of an order that *)
(* saw no money: an unpaid order has neither cash nor a paid row.          *)
THEOREM CashFirst == Spec => CashIsFirstMoney
<1>1. ASSUME SInv, NEW s \in Slots, Sequential, CollectCommit(s)
      PROVE  cash = <<>> /\ PaidRows = {}
  BY <1>1 DEF CollectCommit, At, SInv, Alone, Fresh, UnpaidSawNoMoney
<1>2. SInv => [\A s \in Slots : (Sequential /\ CollectCommit(s)) =>
                 cash = <<>> /\ PaidRows = {}]_vars
  BY <1>1
<1> QED
  BY <1>2, SequentialInductive, PTL DEF CashIsFirstMoney

(* With one request at a time, the webhook's UPDATE finds the status that  *)
(* was read: recording the payment and confirming the order are one step.  *)
THEOREM ConfirmsOrder == Spec => PaymentConfirmsOrder
<1>1. ASSUME SInv, NEW s \in Slots, Sequential, WebhookPaidCommit(s)
      PROVE  status' = "payment_confirmed" /\ payStatus' = "paid"
  BY <1>1 DEF WebhookPaidCommit, At, SInv, Alone, Fresh
<1>2. SInv => [\A s \in Slots : (Sequential /\ WebhookPaidCommit(s)) =>
                 status' = "payment_confirmed" /\ payStatus' = "paid"]_vars
  BY <1>1
<1> QED
  BY <1>2, SequentialInductive, PTL DEF PaymentConfirmsOrder

-----------------------------------------------------------------------------
(* Refunds.                                                                *)

(* A request that has the gateway's yes has the money returned; so has a   *)
(* completed row.                                                          *)
RefundInv ==
  /\ RefundTypeOK
  /\ \A r \in Requests :
       (pc[r] = "answered" /\ provider = "moyasar") => moved[r]
  /\ CompletedWasReturned

(* What was pending or completed, in units, is a number. *)
LEMMA TotalNat ==
  ASSUME NEW S \in SUBSET Requests
  PROVE  IsFiniteSet(Units(S)) /\ Total(S) \in Nat
<1>1. IsFiniteSet(S) /\ IsFiniteSet(1..Amount)
  BY AmountOK, FS_Subset, FS_Interval
<1>2. IsFiniteSet(S \X (1..Amount))
  BY <1>1, FS_Product
<1>3. IsFiniteSet(Units(S))
  BY <1>2, FS_Subset DEF Units
<1> QED
  BY <1>3, FS_CardinalityType DEF Total

LEMMA InitRefund == RefundInit => RefundInv
  BY AmountOK DEF RefundInit, RefundInv, RefundTypeOK, CompletedWasReturned

(* Every step keeps the types. *)
LEMMA TypeStep == RefundTypeOK /\ [RefundNext]_refundVars => RefundTypeOK'
<1> SUFFICES ASSUME RefundTypeOK, [RefundNext]_refundVars PROVE RefundTypeOK'
  OBVIOUS
<1> USE DEF RefundTypeOK, InFlight
<1>1. ASSUME NEW r \in Requests, NEW a \in 1..Amount, ReadOrder(r, a) PROVE RefundTypeOK'
  BY <1>1, AmountOK DEF ReadOrder
<1>2. ASSUME NEW r \in Requests, SumReserved(r) PROVE RefundTypeOK'
  <2>1. InStatus({"completed", "pending"}) \in SUBSET Requests
    BY DEF InStatus
  <2>2. PICK n \in Nat : n = Total(InStatus({"completed", "pending"}))
    BY <2>1, TotalNat
  <2> QED
    BY <1>2, <2>2 DEF SumReserved
<1>3. ASSUME NEW r \in Requests, Reserve(r) PROVE RefundTypeOK'
  BY <1>3 DEF Reserve
<1>4. ASSUME NEW r \in Requests, GatewayAccepts(r) PROVE RefundTypeOK'
  BY <1>4 DEF GatewayAccepts
<1>5. ASSUME NEW r \in Requests, GatewayFails(r) PROVE RefundTypeOK'
  BY <1>5 DEF GatewayFails
<1>6. ASSUME NEW r \in Requests, Complete(r) PROVE RefundTypeOK'
  BY <1>6 DEF Complete, Settled
<1>7. ASSUME NEW r \in Requests, Crash(r) PROVE RefundTypeOK'
  BY <1>7 DEF Crash
<1>8. CASE UNCHANGED refundVars
  BY <1>8 DEF refundVars
<1> QED
  BY <1>1, <1>2, <1>3, <1>4, <1>5, <1>6, <1>7, <1>8 DEF RefundNext, RefundProceeds

(* RefundInv is inductive: the gateway's yes is the only way to            *)
(* completion.                                                             *)
LEMMA NextRefund == RefundInv /\ [RefundNext]_refundVars => RefundInv'
<1> SUFFICES ASSUME RefundInv, RefundTypeOK', [RefundNext]_refundVars PROVE RefundInv'
  BY TypeStep DEF RefundInv
<1> USE DEF RefundInv, RefundTypeOK, CompletedWasReturned
<1>1. ASSUME NEW r \in Requests, NEW a \in 1..Amount, ReadOrder(r, a) PROVE RefundInv'
  BY <1>1 DEF ReadOrder
<1>2. ASSUME NEW r \in Requests, SumReserved(r) PROVE RefundInv'
  BY <1>2 DEF SumReserved
<1>3. ASSUME NEW r \in Requests, Reserve(r) PROVE RefundInv'
  BY <1>3 DEF Reserve
<1>4. ASSUME NEW r \in Requests, GatewayAccepts(r) PROVE RefundInv'
  BY <1>4 DEF GatewayAccepts
<1>5. ASSUME NEW r \in Requests, GatewayFails(r) PROVE RefundInv'
  BY <1>5 DEF GatewayFails
<1>6. ASSUME NEW r \in Requests, Complete(r) PROVE RefundInv'
  BY <1>6 DEF Complete, Settled
<1>7. ASSUME NEW r \in Requests, Crash(r) PROVE RefundInv'
  BY <1>7 DEF Crash
<1>8. CASE UNCHANGED refundVars
  BY <1>8 DEF refundVars
<1> QED
  BY <1>1, <1>2, <1>3, <1>4, <1>5, <1>6, <1>7, <1>8 DEF RefundNext, RefundProceeds

LEMMA AlwaysRefund == RefundSpec => []RefundInv
  BY InitRefund, NextRefund, PTL DEF RefundSpec

(* However many refunds overlap and wherever the process dies, a refund    *)
(* recorded as completed through the gateway was returned by it.           *)
THEOREM CompletedReturned == RefundSpec => []CompletedWasReturned
<1>1. RefundInv => CompletedWasReturned
  BY DEF RefundInv
<1> QED
  BY <1>1, AlwaysRefund, PTL

(* No transaction writes a refund, its amount or what it summed outside    *)
(* its type, wherever the process dies.                                    *)
THEOREM RefundTypes == RefundSpec => []RefundTypeOK
<1>1. RefundInv => RefundTypeOK
  BY DEF RefundInv
<1> QED
  BY <1>1, AlwaysRefund, PTL

-----------------------------------------------------------------------------
(* Sums of refunds. *)

LEMMA TotalUnion ==
  ASSUME NEW S \in SUBSET Requests, NEW T \in SUBSET Requests, S \cap T = {}
  PROVE  Total(S \cup T) = Total(S) + Total(T)
<1>1. Units(S \cup T) = Units(S) \cup Units(T)
  BY DEF Units
<1>2. Units(S) \cap Units(T) = {}
  BY DEF Units
<1>3. /\ IsFiniteSet(Units(S)) /\ IsFiniteSet(Units(T))
      /\ Cardinality(Units(S)) \in Nat /\ Cardinality(Units(T)) \in Nat
  BY TotalNat DEF Total
<1>4. PICK a, b \in Nat : a = Cardinality(Units(S)) /\ b = Cardinality(Units(T))
  BY <1>3
<1>5. Cardinality(Units(S) \cap Units(T)) = 0
  BY <1>2, FS_EmptySet
<1>6. PICK c : c = Cardinality(Units(S) \cup Units(T)) /\ c = a + b - 0
  BY <1>3, <1>4, <1>5, FS_Union
<1>7. c = a + b
  BY <1>4, <1>6
<1> QED
  BY <1>1, <1>4, <1>6, <1>7 DEF Total

LEMMA TotalOne ==
  ASSUME NEW r \in Requests, amount[r] \in 0..Amount
  PROVE  Total({r}) = amount[r]
<1>1. Units({r}) = {r} \X (1..amount[r])
  BY AmountOK DEF Units
<1>2. IsFiniteSet({r}) /\ Cardinality({r}) = 1
  BY FS_Singleton
<1>3. PICK n \in Nat : n = amount[r]
  BY AmountOK
<1>4. 1 \in Int /\ n \in Int /\ (IF 1 > n THEN 0 ELSE n - 1 + 1) = n
  BY <1>3
<1>5. IsFiniteSet(1..n) /\ Cardinality(1..n) = n
  BY <1>4, FS_Interval
<1>6. Cardinality({r} \X (1..n)) = 1 * n
  BY <1>2, <1>5, FS_Product
<1>7. 1 * n = n
  BY <1>3
<1>8. Units({r}) = {r} \X (1..n)
  BY <1>1, <1>3
<1> QED
  BY <1>3, <1>6, <1>7, <1>8 DEF Total

LEMMA TotalNone == Total({}) = 0
<1>1. Units({}) = {}
  BY DEF Units
<1> QED
  BY <1>1, FS_EmptySet DEF Total

(* With and without one request. *)
LEMMA TotalAdd ==
  ASSUME NEW S \in SUBSET Requests, NEW r \in Requests, r \notin S,
         amount[r] \in 0..Amount
  PROVE  Total(S \cup {r}) = Total(S) + amount[r]
  BY TotalUnion, TotalOne

LEMMA TotalRemove ==
  ASSUME NEW S \in SUBSET Requests, NEW r \in S, amount[r] \in 0..Amount
  PROVE  Total(S) = Total(S \ {r}) + amount[r]
<1>1. S = (S \ {r}) \cup {r}
  OBVIOUS
<1>2. r \notin S \ {r} /\ S \ {r} \in SUBSET Requests
  OBVIOUS
<1> QED
  BY <1>1, <1>2, TotalAdd

(* Sums are the same while the amounts are. *)
LEMMA TotalSame ==
  ASSUME NEW S \in SUBSET Requests, \A r \in S : amount'[r] = amount[r]
  PROVE  Total(S)' = Total(S)
<1>1. Units(S)' = Units(S)
  BY DEF Units
<1> QED
  BY <1>1 DEF Total

-----------------------------------------------------------------------------
(* One refund at a time. *)
Given == InStatus({"pending", "completed"})

(* The request in flight is alone, and reckons with what is given.         *)
Reckons(r) ==
  /\ pc[r] \in {"new", "read", "summed"} => refund[r] = "none"
  /\ pc[r] \in InFlight => amount[r] \in 1..Amount
  /\ pc[r] = "summed" =>
       cumulative[r] = Total(Given) /\ cumulative[r] + amount[r] <= Amount
  /\ pc[r] \in {"reserved", "answered"} =>
       refund[r] = "pending" /\ cumulative[r] + amount[r] = Total(Given)

OneInFlight == \A r, o \in Requests : pc[r] \in InFlight /\ pc[o] \in InFlight => r = o

SoloInv ==
  RefundTypeOK /\ OneInFlight /\ (\A r \in Requests : Reckons(r)) /\ NeverOverRefunded

LEMMA InitSolo == RefundInit => SoloInv
<1> SUFFICES ASSUME RefundInit PROVE SoloInv
  OBVIOUS
<1>1. Given = {}
  BY DEF RefundInit, Given, InStatus
<1>2. Total(Given) = 0
  BY <1>1, TotalNone
<1> QED
  BY <1>2, AmountOK DEF RefundInit, SoloInv, RefundTypeOK, OneInFlight, Reckons, NeverOverRefunded,
     Given, InFlight

(* What a step of the one request does to the sums. *)
LEMMA Sums ==
  ASSUME RefundTypeOK
  PROVE  /\ Given \in SUBSET Requests
         /\ InStatus({"pending"}) \in SUBSET Requests
         /\ InStatus({"completed"}) \in SUBSET Requests
         /\ Total(Given) \in Nat
         /\ Total(InStatus({"pending"})) \in Nat /\ Total(InStatus({"completed"})) \in Nat
         /\ Total(Given) = Total(InStatus({"pending"})) + Total(InStatus({"completed"}))
         /\ InStatus({"completed", "pending"}) = Given
<1>1. /\ Given = InStatus({"pending"}) \cup InStatus({"completed"})
      /\ InStatus({"pending"}) \cap InStatus({"completed"}) = {}
  BY DEF Given, InStatus
<1>2. /\ Given \in SUBSET Requests
      /\ InStatus({"pending"}) \in SUBSET Requests
      /\ InStatus({"completed"}) \in SUBSET Requests
      /\ InStatus({"completed", "pending"}) = Given
  BY DEF Given, InStatus
<1> QED
  BY <1>1, <1>2, TotalNat, TotalUnion

(* The same after a step. *)
SumsOK ==
  /\ Total(Given) \in Nat
  /\ Total(InStatus({"pending"})) \in Nat /\ Total(InStatus({"completed"})) \in Nat
  /\ Total(Given) = Total(InStatus({"pending"})) + Total(InStatus({"completed"}))

LEMMA SumsAfter == RefundTypeOK' => SumsOK'
<1>1. RefundTypeOK => SumsOK
  BY Sums DEF SumsOK
<1> QED
  BY <1>1, PTL

(* Nothing is summed that was not, nor left out.                           *)
SumsSame ==
  /\ Total(Given)' = Total(Given)
  /\ Total(InStatus({"pending"}))' = Total(InStatus({"pending"}))
  /\ Total(InStatus({"completed"}))' = Total(InStatus({"completed"}))

LEMMA SumsKept ==
  ASSUME RefundTypeOK, UNCHANGED refund,
         \A r \in Requests : refund[r] # "none" => amount'[r] = amount[r]
  PROVE  SumsSame
<1>1. PICK G, P, C : /\ G = Given /\ P = InStatus({"pending"})
                     /\ C = InStatus({"completed"})
  OBVIOUS
<1>2. Given' = G /\ InStatus({"pending"})' = P /\ InStatus({"completed"})' = C
  BY <1>1 DEF Given, InStatus
<1>3. \A r \in G \cup P \cup C : r \in Requests /\ refund[r] # "none"
  BY <1>1 DEF Given, InStatus
<1>4. Total(G)' = Total(G) /\ Total(P)' = Total(P) /\ Total(C)' = Total(C)
  BY <1>3, TotalSame
<1> QED
  BY <1>1, <1>2, <1>4 DEF SumsSame

(* A step that leaves the amounts alone sums what the statuses became.     *)
LEMMA SumsMoved ==
  ASSUME NEW G, NEW P, NEW C, UNCHANGED amount,
         G = Given', P = InStatus({"pending"})', C = InStatus({"completed"})'
  PROVE  /\ Total(Given)' = Total(G)
         /\ Total(InStatus({"pending"}))' = Total(P)
         /\ Total(InStatus({"completed"}))' = Total(C)
BY DEF Total, Units

(* A reservation adds its amount to what is pending ... *)
LEMMA SumsReserve ==
  ASSUME RefundTypeOK, NEW r \in Requests, refund[r] = "none", Reserve(r)
  PROVE  /\ Total(Given)' = Total(Given) + amount[r]
         /\ Total(InStatus({"pending"}))' = Total(InStatus({"pending"})) + amount[r]
         /\ Total(InStatus({"completed"}))' = Total(InStatus({"completed"}))
<1>1. /\ Given' = Given \cup {r} /\ r \notin Given
      /\ InStatus({"pending"})' = InStatus({"pending"}) \cup {r}
      /\ r \notin InStatus({"pending"})
      /\ InStatus({"completed"})' = InStatus({"completed"})
  BY DEF RefundTypeOK, Given, InStatus, Reserve
<1>2. UNCHANGED amount /\ amount[r] \in 0..Amount
  BY DEF Reserve, RefundTypeOK
<1>3. /\ Given \in SUBSET Requests
      /\ InStatus({"pending"}) \in SUBSET Requests
  BY Sums
<1> QED
  BY <1>1, <1>2, <1>3, SumsMoved, TotalAdd

(* ... a refused one takes it away again ... *)
LEMMA SumsFailed ==
  ASSUME RefundTypeOK, NEW r \in Requests, refund[r] = "pending", GatewayFails(r)
  PROVE  /\ Total(Given) = Total(Given)' + amount[r]
         /\ Total(InStatus({"pending"})) = Total(InStatus({"pending"}))' + amount[r]
         /\ Total(InStatus({"completed"}))' = Total(InStatus({"completed"}))
<1>1. /\ Given' = Given \ {r} /\ r \in Given
      /\ InStatus({"pending"})' = InStatus({"pending"}) \ {r}
      /\ r \in InStatus({"pending"})
      /\ InStatus({"completed"})' = InStatus({"completed"})
  BY DEF RefundTypeOK, Given, InStatus, GatewayFails
<1>2. UNCHANGED amount /\ amount[r] \in 0..Amount
  BY DEF GatewayFails, RefundTypeOK
<1>3. /\ Given \in SUBSET Requests
      /\ InStatus({"pending"}) \in SUBSET Requests
  BY Sums
<1> QED
  BY <1>1, <1>2, <1>3, SumsMoved, TotalRemove

(* ... and a completion moves it to what is completed. *)
LEMMA SumsComplete ==
  ASSUME RefundTypeOK, NEW r \in Requests, refund[r] = "pending", Complete(r)
  PROVE  /\ Total(Given)' = Total(Given)
         /\ Total(InStatus({"pending"})) = Total(InStatus({"pending"}))' + amount[r]
         /\ Total(InStatus({"completed"}))' = Total(InStatus({"completed"})) + amount[r]
<1>1. /\ Given' = Given
      /\ InStatus({"pending"})' = InStatus({"pending"}) \ {r}
      /\ r \in InStatus({"pending"})
      /\ InStatus({"completed"})' = InStatus({"completed"}) \cup {r}
      /\ r \notin InStatus({"completed"})
  BY DEF RefundTypeOK, Given, InStatus, Complete
<1>2. UNCHANGED amount /\ amount[r] \in 0..Amount
  BY DEF Complete, RefundTypeOK
<1>3. /\ InStatus({"pending"}) \in SUBSET Requests
      /\ InStatus({"completed"}) \in SUBSET Requests
  BY Sums
<1> QED
  BY <1>1, <1>2, <1>3, SumsMoved, TotalAdd, TotalRemove

(* While one request is in flight the others are at rest, so what holds of *)
(* them after the step is what held before.                                *)
LEMMA OthersRest ==
  ASSUME SoloInv, NEW r \in Requests, pc[r] \in InFlight, RefundTypeOK',
         \A o \in Requests \ {r} : pc'[o] = pc[o] /\ refund'[o] = refund[o]
  PROVE  OneInFlight' /\ \A o \in Requests \ {r} : Reckons(o)'
<1>1. \A o \in Requests \ {r} : pc[o] \notin InFlight /\ pc'[o] \notin InFlight
  BY DEF SoloInv, OneInFlight
<1>2. \A o \in Requests \ {r} : pc[o] = "new" => refund[o] = "none"
  BY DEF SoloInv, Reckons
<1>3. OneInFlight'
  BY <1>1 DEF OneInFlight
<1> QED
  BY <1>1, <1>2, <1>3 DEF Reckons, InFlight

LEMMA ReadSolo ==
  ASSUME together = 1, SoloInv, RefundTypeOK',
         NEW r \in Requests, NEW a \in 1..Amount, ReadOrder(r, a)
  PROVE  SoloInv'
<1>1. \A o \in Requests : pc[o] \notin InFlight
  <2>1. PICK F : F = {o \in Requests : pc[o] \in InFlight}
    OBVIOUS
  <2>2. IsFiniteSet(F) /\ Cardinality(F) < 1
    BY <2>1, AmountOK, FS_Subset DEF ReadOrder
  <2>3. Cardinality(F) \in Nat
    BY <2>2, FS_CardinalityType
  <2>4. Cardinality(F) = 0
    BY <2>2, <2>3
  <2>5. F = {}
    BY <2>2, <2>4, FS_EmptySet
  <2> QED
    BY <2>1, <2>5
<1>2. /\ UNCHANGED <<refund, payment>> /\ pc[r] = "new" /\ refund[r] = "none"
      /\ \A o \in Requests \ {r} : pc'[o] = pc[o] /\ amount'[o] = amount[o]
      /\ pc'[r] = "read" /\ amount'[r] = a
  BY DEF ReadOrder, SoloInv, RefundTypeOK, Reckons
<1>3. SumsSame
  <2>1. \A o \in Requests : refund[o] # "none" => amount'[o] = amount[o]
    BY <1>2
  <2> QED
    BY <1>2, <2>1, SumsKept DEF SoloInv
<1>4. OneInFlight' /\ \A o \in Requests : Reckons(o)'
  BY <1>1, <1>2 DEF OneInFlight, Reckons, InFlight, SoloInv
<1>5. NeverOverRefunded'
  BY <1>3 DEF NeverOverRefunded, SumsSame, Given, SoloInv
<1> QED
  BY <1>2, <1>3, <1>4, <1>5 DEF SoloInv

LEMMA SumSolo ==
  ASSUME SoloInv, RefundTypeOK', NEW r \in Requests, SumReserved(r)
  PROVE  SoloInv'
<1>1. /\ UNCHANGED <<refund, payment, amount>> /\ pc[r] = "read"
      /\ \A o \in Requests \ {r} : pc'[o] = pc[o] /\ refund'[o] = refund[o]
      /\ refund[r] = "none" /\ amount[r] \in 1..Amount
  BY DEF SumReserved, SoloInv, RefundTypeOK, Reckons, InFlight
<1>2. SumsSame
  BY <1>1, SumsKept DEF SoloInv
<1>3. PICK g \in Nat : g = Total(Given) /\ g = Total(InStatus({"completed", "pending"}))
  BY Sums DEF SoloInv
<1>4. /\ cumulative'[r] = g
      /\ pc'[r] = IF g + amount[r] > Amount THEN "ended" ELSE "summed"
  BY <1>3 DEF SumReserved, SoloInv, RefundTypeOK
<1>5. OneInFlight' /\ \A o \in Requests \ {r} : Reckons(o)'
  BY <1>1, OthersRest DEF InFlight
<1>6. Reckons(r)'
  <2>1. Total(Given)' = g
    BY <1>2, <1>3 DEF SumsSame
  <2>2. CASE g + amount[r] > Amount
    BY <1>4, <2>2 DEF Reckons, InFlight
  <2>3. CASE ~(g + amount[r] > Amount)
    <3>1. g + amount[r] <= Amount
      BY <1>1, <2>3, AmountOK
    <3> QED
      BY <1>1, <1>4, <2>1, <2>3, <3>1 DEF Reckons, InFlight
  <2> QED
    BY <2>2, <2>3
<1>7. NeverOverRefunded'
  BY <1>2 DEF NeverOverRefunded, SumsSame, Given, SoloInv
<1> QED
  BY <1>1, <1>2, <1>5, <1>6, <1>7 DEF SoloInv

LEMMA ReserveSolo ==
  ASSUME SoloInv, RefundTypeOK', NEW r \in Requests, Reserve(r)
  PROVE  SoloInv'
<1>1. /\ UNCHANGED <<payment, amount, cumulative>> /\ pc[r] = "summed"
      /\ refund[r] = "none" /\ amount[r] \in 1..Amount
      /\ cumulative[r] = Total(Given) /\ cumulative[r] + amount[r] <= Amount
      /\ \A o \in Requests \ {r} : pc'[o] = pc[o] /\ refund'[o] = refund[o]
      /\ pc'[r] = "reserved" /\ refund'[r] = "pending"
  BY DEF Reserve, SoloInv, RefundTypeOK, Reckons, InFlight
<1>2. PICK g, p, c \in Nat :
        /\ g = Total(Given) /\ p = Total(InStatus({"pending"}))
        /\ c = Total(InStatus({"completed"})) /\ g = p + c
  BY Sums DEF SoloInv
<1>3. /\ Total(Given)' = g + amount[r]
      /\ Total(InStatus({"pending"}))' = p + amount[r]
      /\ Total(InStatus({"completed"}))' = c
  BY <1>1, <1>2, SumsReserve DEF SoloInv
<1>4. OneInFlight' /\ \A o \in Requests \ {r} : Reckons(o)'
  BY <1>1, OthersRest DEF InFlight
<1>5. Reckons(r)'
  BY <1>1, <1>2, <1>3 DEF Reckons
<1>6. NeverOverRefunded'
  BY <1>1, <1>2, <1>3 DEF NeverOverRefunded, Given
<1> QED
  BY <1>4, <1>5, <1>6 DEF SoloInv

LEMMA AcceptSolo ==
  ASSUME SoloInv, RefundTypeOK', NEW r \in Requests, GatewayAccepts(r)
  PROVE  SoloInv'
<1>1. /\ UNCHANGED <<payment, amount, cumulative, refund>> /\ pc[r] = "reserved"
      /\ \A o \in Requests \ {r} : pc'[o] = pc[o] /\ refund'[o] = refund[o]
      /\ pc'[r] = "answered"
      /\ amount[r] \in 1..Amount /\ refund[r] = "pending"
      /\ cumulative[r] + amount[r] = Total(Given)
  BY DEF GatewayAccepts, SoloInv, RefundTypeOK, Reckons, InFlight
<1>2. SumsSame
  BY <1>1, SumsKept DEF SoloInv
<1>3. OneInFlight' /\ \A o \in Requests \ {r} : Reckons(o)'
  BY <1>1, OthersRest DEF InFlight
<1>4. Reckons(r)'
  BY <1>1, <1>2 DEF Reckons, SumsSame
<1>5. NeverOverRefunded'
  BY <1>2 DEF NeverOverRefunded, SumsSame, Given, SoloInv
<1> QED
  BY <1>1, <1>2, <1>3, <1>4, <1>5 DEF SoloInv

LEMMA FailSolo ==
  ASSUME SoloInv, RefundTypeOK', NEW r \in Requests, GatewayFails(r)
  PROVE  SoloInv'
<1>1. /\ UNCHANGED <<payment, amount, cumulative>> /\ pc[r] = "reserved"
      /\ \A o \in Requests \ {r} : pc'[o] = pc[o] /\ refund'[o] = refund[o]
      /\ pc'[r] = "ended"
      /\ amount[r] \in 1..Amount /\ refund[r] = "pending"
  BY DEF GatewayFails, SoloInv, RefundTypeOK, Reckons, InFlight
<1>2. PICK p, c, n \in Nat :
        /\ p = Total(InStatus({"pending"})) /\ n = Total(InStatus({"pending"}))'
        /\ c = Total(InStatus({"completed"})) /\ c = Total(InStatus({"completed"}))'
        /\ p = n + amount[r]
        /\ Total(Given) = p + c /\ Total(Given)' = n + c
  <2>1. PICK p, c \in Nat :
          /\ p = Total(InStatus({"pending"}))
          /\ c = Total(InStatus({"completed"})) /\ Total(Given) = p + c
    BY Sums DEF SoloInv
  <2>2. InStatus({"pending"}) \in SUBSET Requests
    BY DEF InStatus
  <2>3. PICK n \in Nat, d \in Nat :
          /\ n = Total(InStatus({"pending"}))' /\ d = Total(InStatus({"completed"}))'
          /\ Total(Given)' = n + d
    BY SumsAfter DEF SumsOK
  <2>4. p = n + amount[r] /\ d = c
    BY <1>1, <2>1, <2>3, SumsFailed DEF SoloInv
  <2> QED
    BY <2>1, <2>3, <2>4
<1>3. OneInFlight' /\ \A o \in Requests \ {r} : Reckons(o)'
  BY <1>1, OthersRest DEF InFlight
<1>4. Reckons(r)'
  BY <1>1 DEF Reckons, InFlight
<1>5. NeverOverRefunded'
  <2>1. p + c <= Amount
    BY <1>2 DEF NeverOverRefunded, Given, SoloInv
  <2>2. n + c <= Amount
    BY <1>1, <1>2, <2>1, AmountOK
  <2> QED
    BY <1>2, <2>2 DEF NeverOverRefunded, Given
<1> QED
  BY <1>3, <1>4, <1>5 DEF SoloInv

LEMMA CompleteSolo ==
  ASSUME SoloInv, RefundTypeOK', NEW r \in Requests, Complete(r)
  PROVE  SoloInv'
<1>1. /\ UNCHANGED <<amount, cumulative>> /\ pc[r] \in {"reserved", "answered"}
      /\ \A o \in Requests \ {r} : pc'[o] = pc[o] /\ refund'[o] = refund[o]
      /\ pc'[r] = "ended"
      /\ amount[r] \in 1..Amount /\ refund[r] = "pending"
      /\ cumulative[r] + amount[r] = Total(Given)
      /\ payment' = IF cumulative[r] + amount[r] >= Amount THEN "refunded" ELSE payment
  BY DEF Complete, Settled, SoloInv, RefundTypeOK, Reckons, InFlight, isFullyRefunded
<1>2. PICK p, c, n \in Nat :
        /\ p = Total(InStatus({"pending"})) /\ n = Total(InStatus({"pending"}))'
        /\ c = Total(InStatus({"completed"}))
        /\ c + amount[r] = Total(InStatus({"completed"}))'
        /\ p = n + amount[r]
        /\ Total(Given) = p + c /\ Total(Given)' = p + c
  <2>1. PICK p, c \in Nat :
          /\ p = Total(InStatus({"pending"}))
          /\ c = Total(InStatus({"completed"})) /\ Total(Given) = p + c
    BY Sums DEF SoloInv
  <2>2. PICK n \in Nat : n = Total(InStatus({"pending"}))'
    BY SumsAfter DEF SumsOK
  <2> QED
    BY <1>1, <2>1, <2>2, SumsComplete DEF SoloInv
<1>3. OneInFlight' /\ \A o \in Requests \ {r} : Reckons(o)'
  BY <1>1, OthersRest DEF InFlight
<1>4. Reckons(r)'
  BY <1>1 DEF Reckons, InFlight
<1>5. NeverOverRefunded'
  BY <1>2 DEF NeverOverRefunded, Given, SoloInv
<1> QED
  BY <1>3, <1>4, <1>5 DEF SoloInv

LEMMA CrashSolo ==
  ASSUME SoloInv, RefundTypeOK', NEW r \in Requests, Crash(r)
  PROVE  SoloInv'
<1>1. /\ UNCHANGED <<payment, amount, cumulative, refund>> /\ pc[r] \in InFlight
      /\ \A o \in Requests \ {r} : pc'[o] = pc[o] /\ refund'[o] = refund[o]
      /\ pc'[r] = "dead"
  BY DEF Crash, SoloInv, RefundTypeOK
<1>2. SumsSame
  BY <1>1, SumsKept DEF SoloInv
<1>3. OneInFlight' /\ \A o \in Requests \ {r} : Reckons(o)'
  BY <1>1, OthersRest
<1>4. Reckons(r)'
  BY <1>1 DEF Reckons, InFlight
<1>5. NeverOverRefunded'
  BY <1>2 DEF NeverOverRefunded, SumsSame, Given, SoloInv
<1> QED
  BY <1>1, <1>2, <1>3, <1>4, <1>5 DEF SoloInv

(* One at a time, the sums stay within the payment. *)
LEMMA NextSolo == together = 1 /\ SoloInv /\ [RefundNext]_refundVars => SoloInv'
<1> SUFFICES ASSUME together = 1, SoloInv, RefundTypeOK', [RefundNext]_refundVars
             PROVE  SoloInv'
  BY TypeStep DEF SoloInv
<1>1. ASSUME NEW r \in Requests, RefundProceeds(r) PROVE SoloInv'
  BY <1>1, SumSolo, ReserveSolo, AcceptSolo, FailSolo, CompleteSolo DEF RefundProceeds
<1>2. CASE UNCHANGED refundVars
  <2>1. UNCHANGED <<refund, payment, amount, pc, cumulative>>
    BY <1>2 DEF refundVars
  <2>2. SumsSame
    BY <2>1, SumsKept DEF SoloInv
  <2>3. OneInFlight' /\ \A o \in Requests : Reckons(o)'
    BY <2>1, <2>2 DEF SoloInv, OneInFlight, Reckons, SumsSame
  <2>4. NeverOverRefunded'
    BY <2>2 DEF NeverOverRefunded, SumsSame, Given, SoloInv
  <2> QED
    BY <2>3, <2>4 DEF SoloInv
<1> QED
  BY <1>1, <1>2, ReadSolo, CrashSolo DEF RefundNext

-----------------------------------------------------------------------------
(* How far overlapping refunds can go.  What counts is what is given and   *)
(* what is as good as given: a request that has summed inserts without     *)
(* looking again.                                                          *)
Flying  == {r \in Requests : pc[r] \in InFlight}
Summed  == {r \in Requests : pc[r] = "summed"}
Pledged == Given \cup Summed

OverInv ==
  /\ RefundTypeOK
  /\ \A r \in Requests :
       /\ pc[r] \in {"new", "read", "summed"} => refund[r] = "none"
       /\ pc[r] \in {"reserved", "answered"} => refund[r] = "pending"
       /\ pc[r] \in InFlight => amount[r] \in 1..Amount
  /\ Cardinality(Flying) <= together
  /\ Total(Pledged) <= together * Amount

LEMMA Room == RefundTypeOK => together \in Nat \ {0} /\ together * Amount \in Nat
<1> SUFFICES ASSUME RefundTypeOK PROVE together \in Nat \ {0} /\ together * Amount \in Nat
  OBVIOUS
<1>1. together \in Nat \ {0} /\ Amount \in Nat
  BY AmountOK DEF RefundTypeOK
<1> QED
  BY <1>1

LEMMA FinitelyMany ==
  ASSUME NEW S \in SUBSET Requests
  PROVE  IsFiniteSet(S) /\ Cardinality(S) \in Nat
  BY AmountOK, FS_Subset, FS_CardinalityType

(* The unit sum is monotone, and at most the whole amount for each.        *)
LEMMA TotalMonotone ==
  ASSUME NEW S \in SUBSET Requests, NEW T \in SUBSET S
  PROVE  Total(T) <= Total(S)
<1>1. Units(T) \subseteq Units(S)
  BY DEF Units
<1> QED
  BY <1>1, TotalNat, FS_Subset DEF Total

LEMMA TotalAtMost ==
  ASSUME NEW S \in SUBSET Requests
  PROVE  Total(S) <= Cardinality(S) * Amount
<1>1. IsFiniteSet(S) /\ IsFiniteSet(1..Amount) /\ Cardinality(1..Amount) = Amount
  BY FinitelyMany, AmountOK, FS_Interval
<1>2. /\ IsFiniteSet(S \X (1..Amount))
      /\ Cardinality(S \X (1..Amount)) = Cardinality(S) * Amount
  BY <1>1, FS_Product
<1>3. Units(S) \subseteq S \X (1..Amount)
  BY DEF Units
<1> QED
  BY <1>2, <1>3, FS_Subset DEF Total

LEMMA InitOver == RefundInit => OverInv
<1> SUFFICES ASSUME RefundInit PROVE OverInv
  OBVIOUS
<1>1. Pledged = {} /\ Flying = {}
  BY DEF RefundInit, Pledged, Given, InStatus, Summed, Flying, InFlight
<1>2. Total(Pledged) = 0 /\ Cardinality(Flying) = 0
  BY <1>1, TotalNone, FS_EmptySet
<1>3. RefundTypeOK
  BY AmountOK DEF RefundInit, RefundTypeOK
<1>4. 0 <= together * Amount /\ 0 <= together
  BY <1>3, Room
<1> QED
  BY <1>2, <1>3, <1>4 DEF RefundInit, OverInv, InFlight

(* A step that pledges nothing and starts nothing.                         *)
LEMMA NoMorePledged ==
  ASSUME OverInv, Pledged' \subseteq Pledged, Flying' \subseteq Flying,
         \A r \in Pledged : amount'[r] = amount[r]
  PROVE  Cardinality(Flying)' <= together /\ Total(Pledged)' <= together * Amount
<1>1. PICK F, G : F = Flying /\ G = Flying'
  OBVIOUS
<1>2. F \in SUBSET Requests /\ G \in SUBSET F
  BY <1>1 DEF Flying
<1>3. Cardinality(G) <= Cardinality(F)
  BY <1>2, FinitelyMany, FS_Subset
<1>4. Cardinality(G) \in Nat /\ Cardinality(F) \in Nat /\ together \in Nat
  BY <1>2, FinitelyMany, Room DEF OverInv
<1>5. Cardinality(Flying)' <= together
  BY <1>1, <1>3, <1>4 DEF OverInv
<1>6. PICK S, T : S = Pledged /\ T = Pledged'
  OBVIOUS
<1>7. S \in SUBSET Requests /\ T \in SUBSET S
  BY <1>6 DEF Pledged, Given, InStatus, Summed
<1>8. Total(T)' = Total(T)
  BY <1>6, <1>7, TotalSame
<1>9. PICK s, t, m \in Nat : s = Total(S) /\ t = Total(T) /\ m = together * Amount
  BY <1>7, TotalNat, Room DEF OverInv
<1>10. t <= s /\ s <= m
  BY <1>6, <1>7, <1>9, TotalMonotone DEF OverInv
<1> QED
  BY <1>5, <1>6, <1>8, <1>9, <1>10

(* The two steps that add: an arrival, and a reservation that finds room.  *)
LEMMA OverArrives ==
  ASSUME OverInv, NEW r \in Requests, NEW a \in 1..Amount, ReadOrder(r, a)
  PROVE  Cardinality(Flying)' <= together /\ Total(Pledged)' <= together * Amount
<1>1. PICK F : F = Flying /\ F \in SUBSET Requests
  BY DEF Flying
<1>2. Flying' = F \cup {r}
  BY <1>1 DEF OverInv, RefundTypeOK, ReadOrder, Flying, InFlight
<1>3. PICK n \in Nat : n = Cardinality(F) /\ n < together
  BY <1>1, FinitelyMany DEF ReadOrder, Flying
<1>4. Cardinality(F \cup {r}) \in {n, n + 1}
  BY <1>1, <1>3, FinitelyMany, FS_AddElement
<1>5. Cardinality(Flying)' <= together
  BY <1>2, <1>3, <1>4, Room DEF OverInv
<1>6. PICK S : S = Pledged /\ S \in SUBSET Requests
  BY DEF Pledged, Given, InStatus, Summed
<1>7. Pledged' = S /\ r \notin S
  BY <1>6 DEF OverInv, RefundTypeOK, ReadOrder, Pledged, Given, InStatus, Summed
<1>8. \A o \in S : amount'[o] = amount[o]
  BY <1>6, <1>7 DEF OverInv, RefundTypeOK, ReadOrder
<1>9. Total(S)' = Total(S)
  BY <1>6, <1>8, TotalSame
<1> QED
  BY <1>5, <1>6, <1>7, <1>9 DEF OverInv

(* Who else has summed is in flight too: together - 1 others at most, each  *)
(* with the whole amount at most; and what is given left room for this one.*)
LEMMA OverSums ==
  ASSUME OverInv, NEW r \in Requests, SumReserved(r)
  PROVE  Cardinality(Flying)' <= together /\ Total(Pledged)' <= together * Amount
<1>1. RefundTypeOK /\ amount[r] \in 0..Amount /\ UNCHANGED <<amount, refund>>
  BY DEF OverInv, RefundTypeOK, SumReserved
<1>2. PICK F, W, G : F = Flying /\ W = Summed /\ G = Given
  OBVIOUS
<1>3. /\ F \in SUBSET Requests /\ W \in SUBSET F /\ G \in SUBSET Requests
      /\ r \in F \ W /\ r \notin G /\ G \cap W = {}
  BY <1>2 DEF OverInv, SumReserved, Flying, InFlight, Summed, Given, InStatus
<1>4. Flying' \subseteq F
  BY <1>1, <1>2 DEF RefundTypeOK, SumReserved, Flying, InFlight
<1>5. CASE pc'[r] # "summed"
  <2>1. Pledged' \subseteq Pledged
    BY <1>1, <1>5 DEF RefundTypeOK, SumReserved, Pledged, Given, InStatus, Summed
  <2>2. \A o \in Pledged : amount'[o] = amount[o]
    BY <1>1
  <2> QED
    BY <1>2, <1>4, <2>1, <2>2, NoMorePledged
<1>6. CASE pc'[r] = "summed"
  <2>1. Pledged' = G \cup (W \cup {r})
    BY <1>1, <1>2, <1>6 DEF RefundTypeOK, SumReserved, Pledged, Given, InStatus, Summed
  <2>2. PICK g, w, a, f, k \in Nat :
          /\ g = Total(G) /\ w = Total(W) /\ a = amount[r]
          /\ f = Cardinality(F) /\ k = Cardinality(W)
    BY <1>1, <1>3, TotalNat, FinitelyMany, AmountOK
  <2>3. g + a <= Amount
    <3>1. InStatus({"completed", "pending"}) = G
      BY <1>2 DEF Given, InStatus
    <3>2. ~(g + a > Amount)
      BY <1>1, <1>6, <2>2, <3>1 DEF RefundTypeOK, SumReserved
    <3> QED
      BY <2>2, <3>2, AmountOK
  <2>4. k + 1 <= f
    <3>1. IsFiniteSet(F \ {r}) /\ Cardinality(F \ {r}) = f - 1
      BY <1>3, <2>2, FinitelyMany, FS_RemoveElement
    <3>2. W \in SUBSET (F \ {r})
      BY <1>3
    <3>3. k <= f - 1
      BY <2>2, <3>1, <3>2, FS_Subset
    <3> QED
      BY <2>2, <3>3
  <2>5. f <= together /\ w <= k * Amount
    BY <1>2, <1>3, <2>2, TotalAtMost DEF OverInv
  <2>6. Total(G \cup (W \cup {r})) = g + (w + a)
    <3>1. Total(W \cup {r}) = w + a
      BY <1>1, <1>3, <2>2, TotalAdd
    <3>2. W \cup {r} \in SUBSET Requests /\ G \cap (W \cup {r}) = {}
      BY <1>3
    <3> QED
      BY <1>3, <2>2, <3>1, <3>2, TotalUnion
  <2>7. g + (w + a) <= together * Amount
    <3>1. PICK m \in Nat, A \in Nat : m = together /\ A = Amount
      BY <1>1, Room, AmountOK
    <3>2. k + 1 <= m
      BY <2>2, <2>4, <2>5, <3>1
    <3>3. (k + 1) * A <= m * A
      BY <2>2, <3>1, <3>2
    <3>4. (k + 1) * A = k * A + A
      BY <2>2, <3>1
    <3>5. k * A \in Nat /\ m * A \in Nat
      BY <2>2, <3>1
    <3>6. g + a <= A /\ w <= k * A
      BY <2>3, <2>5, <3>1
    <3> QED
      BY <2>2, <3>1, <3>3, <3>4, <3>5, <3>6
  <2>8. Total(Pledged)' = Total(G \cup (W \cup {r}))
    <3>1. Total(G \cup (W \cup {r}))' = Total(G \cup (W \cup {r}))
      BY <1>1, <1>3, TotalSame
    <3> QED
      BY <2>1, <3>1
  <2>9. Cardinality(Flying)' <= together
    <3>1. PICK H : H = Flying' /\ H \in SUBSET F
      BY <1>4
    <3>2. Cardinality(H) <= f /\ Cardinality(H) \in Nat
      BY <1>3, <2>2, <3>1, FinitelyMany, FS_Subset
    <3> QED
      BY <1>1, <2>2, <2>5, <3>1, <3>2, Room
  <2> QED
    BY <2>6, <2>7, <2>8, <2>9
<1> QED
  BY <1>5, <1>6

LEMMA NextOver == OverInv /\ [RefundNext]_refundVars => OverInv'
<1> SUFFICES ASSUME OverInv, [RefundNext]_refundVars PROVE OverInv'
  OBVIOUS
<1> DEFINE Rows ==
      \A r \in Requests :
        /\ pc[r] \in {"new", "read", "summed"} => refund[r] = "none"
        /\ pc[r] \in {"reserved", "answered"} => refund[r] = "pending"
        /\ pc[r] \in InFlight => amount[r] \in 1..Amount
           Kept ==
      /\ Pledged' \subseteq Pledged /\ Flying' \subseteq Flying
      /\ \A r \in Pledged : amount'[r] = amount[r]
           Within == Cardinality(Flying)' <= together /\ Total(Pledged)' <= together * Amount
<1>0. RefundTypeOK /\ RefundTypeOK' /\ Rows
  BY TypeStep DEF OverInv
<1>1. ASSUME NEW r \in Requests, NEW a \in 1..Amount, ReadOrder(r, a) PROVE Rows' /\ Within
  <2>1. Rows'
    BY <1>0, <1>1 DEF RefundTypeOK, ReadOrder, InFlight
  <2> QED
    BY <1>1, <2>1, OverArrives
<1>2. ASSUME NEW r \in Requests, SumReserved(r) PROVE Rows' /\ Within
  <2>1. Rows'
    BY <1>0, <1>2 DEF RefundTypeOK, SumReserved, InFlight
  <2> QED
    BY <1>2, <2>1, OverSums
<1>3. ASSUME NEW r \in Requests, Reserve(r) \/ GatewayAccepts(r) \/ Crash(r)
      PROVE  Rows' /\ Kept
  BY <1>0, <1>3 DEF RefundTypeOK, Reserve, GatewayAccepts, Crash, Pledged, Given,
     InStatus, Summed, Flying, InFlight
<1>4. ASSUME NEW r \in Requests, GatewayFails(r) \/ Complete(r)
      PROVE  Rows' /\ Kept
  BY <1>0, <1>4 DEF RefundTypeOK, GatewayFails, Complete, Settled, Pledged, Given,
     InStatus, Summed, Flying, InFlight
<1>5. ASSUME UNCHANGED refundVars PROVE Rows' /\ Kept
  BY <1>0, <1>5 DEF refundVars, Pledged, Given, InStatus, Summed, Flying, InFlight
<1>6. (Rows' /\ Kept) \/ (Rows' /\ Within)
  BY <1>1, <1>2, <1>3, <1>4, <1>5 DEF RefundNext, RefundProceeds
<1>7. Rows' /\ Within
  BY <1>6, NoMorePledged
<1>8. together' = together
  BY DEF RefundNext, RefundProceeds, ReadOrder, SumReserved, Reserve, GatewayAccepts,
     GatewayFails, Complete, Crash, refundVars
<1> QED
  BY <1>0, <1>7, <1>8 DEF OverInv

(* However many refunds overlap, they promise and return no more than the  *)
(* payment once for each of them that may be in flight together; with one  *)
(* at a time, no more than the payment.  The run refund_over shows that    *)
(* two already exceed the payment itself.                                  *)
OverByOverlap == Total(Given) <= together * Amount

LEMMA OverWithin == OverInv => OverByOverlap
<1> SUFFICES ASSUME OverInv PROVE OverByOverlap
  OBVIOUS
<1>1. Pledged \in SUBSET Requests /\ Given \in SUBSET Pledged
  BY DEF Pledged, Given, InStatus, Summed
<1>2. PICK s, t, m \in Nat :
        s = Total(Pledged) /\ t = Total(Given) /\ m = together * Amount
  BY <1>1, TotalNat, Room DEF OverInv
<1>3. t <= s /\ s <= m
  BY <1>1, <1>2, TotalMonotone DEF OverInv
<1> QED
  BY <1>2, <1>3 DEF OverByOverlap

THEOREM OverNoFurther == RefundSpec => []OverByOverlap
  BY OverWithin, InitOver, NextOver, PTL DEF RefundSpec

-----------------------------------------------------------------------------
(* The ledger. *)

(* A row is there from the reservation on, and its request sums up as the  *)
(* ledger does; where there is one request at a time it reckons with what  *)
(* is given.                                                               *)
LedgerInv == OverInv /\ (together = 1 => SoloInv)

LEMMA NextLedgerInv == LedgerInv /\ [RefundNext]_refundVars => LedgerInv'
<1> SUFFICES ASSUME LedgerInv, [RefundNext]_refundVars PROVE LedgerInv'
  OBVIOUS
<1>1. together' = together
  BY DEF RefundNext, RefundProceeds, ReadOrder, SumReserved, Reserve, GatewayAccepts,
     GatewayFails, Complete, Crash, refundVars
<1> QED
  BY <1>1, NextOver, NextSolo DEF LedgerInv

(* The step of the ledger a step of the service is: none for a read or an  *)
(* answer ...                                                              *)
Books == [Ledger!Next]_(Ledger!vars)

LEMMA QuietStep ==
  ASSUME OverInv, UNCHANGED <<together, refund, payment>>,
         \A r \in Requests : refund[r] # "none" => amount'[r] = amount[r]
  PROVE  Books
<1>1. SumsSame
  BY SumsKept DEF OverInv
<1> QED
  BY <1>1 DEF Books, SumsSame, Ledger!vars

(* ... a reservation for the insert, which leaves the room that whoever is *)
(* under way may claim ...                                                 *)
LEMMA ReserveBooks ==
  ASSUME OverInv, OverInv', NEW r \in Requests, amount[r] \in 1..Amount, Reserve(r)
  PROVE  Books
<1>1. /\ UNCHANGED <<together, payment>>
      /\ refund[r] = "none" /\ RefundTypeOK
  BY DEF Reserve, OverInv
<1>2. PICK p, c, m \in Nat :
        /\ p = Total(InStatus({"pending"})) /\ c = Total(InStatus({"completed"}))
        /\ m = together * Amount /\ Total(Given) = p + c
  BY <1>1, Sums, Room
<1>3. /\ Total(Given)' = p + c + amount[r]
      /\ Total(InStatus({"pending"}))' = p + amount[r]
      /\ Total(InStatus({"completed"}))' = c
  BY <1>1, <1>2, SumsReserve
<1>4. Total(Given)' <= m
  <2>1. OverByOverlap'
    BY OverWithin, PTL
  <2> QED
    BY <1>1, <1>2, <2>1 DEF OverByOverlap
<1>5. p + c + amount[r] <= together * Amount
  BY <1>2, <1>3, <1>4
<1>6. Ledger!Reserve(amount[r])
  BY <1>1, <1>2, <1>3, <1>5 DEF Ledger!Reserve
<1> QED
  BY <1>6 DEF Books, Ledger!Next

(* ... a release for a failed call, and a return for the completion, which *)
(* marks the payment by the sum it has read.                               *)
LEMMA FailBooks ==
  ASSUME OverInv, RefundTypeOK', NEW r \in Requests, amount[r] \in 1..Amount,
         GatewayFails(r)
  PROVE  Books
<1>1. UNCHANGED <<together, payment>> /\ refund[r] = "pending" /\ RefundTypeOK
  BY DEF GatewayFails, OverInv
<1>2. PICK p, n, c \in Nat :
        /\ p = Total(InStatus({"pending"})) /\ n = Total(InStatus({"pending"}))'
        /\ c = Total(InStatus({"completed"})) /\ c = Total(InStatus({"completed"}))'
        /\ p = n + amount[r]
  BY <1>1, Sums, SumsAfter, SumsFailed DEF SumsOK
<1>3. Ledger!Release(amount[r])
  BY <1>1, <1>2 DEF Ledger!Release
<1> QED
  BY <1>3 DEF Books, Ledger!Next

LEMMA CompleteBooks ==
  ASSUME LedgerInv, RefundTypeOK', NEW r \in Requests, amount[r] \in 1..Amount,
         Complete(r)
  PROVE  Books
<1>1. /\ UNCHANGED together /\ refund[r] = "pending" /\ RefundTypeOK
      /\ pc[r] \in {"reserved", "answered"}
      /\ payment' = IF cumulative[r] + amount[r] >= Amount THEN "refunded" ELSE payment
  BY DEF Complete, Settled, LedgerInv, OverInv, isFullyRefunded
<1>2. PICK p, c, n \in Nat :
        /\ p = Total(InStatus({"pending"})) /\ n = Total(InStatus({"pending"}))'
        /\ c = Total(InStatus({"completed"}))
        /\ c + amount[r] = Total(InStatus({"completed"}))'
        /\ p = n + amount[r] /\ Total(Given) = p + c
  BY <1>1, Sums, SumsAfter, SumsComplete DEF SumsOK
<1>3. (payment = "refunded")' \in {payment = "refunded", TRUE}
  BY <1>1
<1>4. together = 1 => (payment = "refunded")' = (payment = "refunded" \/ p + c = Amount)
  <2>1. SUFFICES ASSUME together = 1
        PROVE  (payment = "refunded")' = (payment = "refunded" \/ p + c = Amount)
    OBVIOUS
  <2>2. cumulative[r] + amount[r] = p + c /\ p + c <= Amount
    BY <1>1, <1>2, <2>1 DEF LedgerInv, SoloInv, Reckons, NeverOverRefunded, Given
  <2> QED
    BY <1>1, <1>2, <2>2, AmountOK
<1>5. IF together = 1
      THEN (payment = "refunded")'
             = (payment = "refunded"
                \/ Total(InStatus({"pending"})) + Total(InStatus({"completed"})) = Amount)
      ELSE (payment = "refunded")' \in {payment = "refunded", TRUE}
  BY <1>2, <1>3, <1>4
<1>6. /\ amount[r] <= p /\ n = p - amount[r]
      /\ Total(InStatus({"completed"}))' = c + amount[r]
  BY <1>2
<1>7. Ledger!Return(amount[r])
  BY <1>1, <1>2, <1>5, <1>6 DEF Ledger!Return
<1> QED
  BY <1>7 DEF Books, Ledger!Next

LEMMA StepBooked == LedgerInv /\ [RefundNext]_refundVars => Books
<1> SUFFICES ASSUME LedgerInv, LedgerInv', [RefundNext]_refundVars PROVE Books
  BY NextLedgerInv
<1>1. OverInv /\ OverInv' /\ RefundTypeOK /\ RefundTypeOK'
  BY DEF LedgerInv, OverInv
<1>2. ASSUME NEW r \in Requests, NEW a \in 1..Amount, ReadOrder(r, a) PROVE Books
  <2>1. UNCHANGED <<together, refund, payment>> /\ refund[r] = "none"
    BY <1>1, <1>2 DEF ReadOrder, OverInv
  <2>2. \A o \in Requests : refund[o] # "none" => amount'[o] = amount[o]
    BY <1>1, <1>2, <2>1 DEF ReadOrder, RefundTypeOK
  <2> QED
    BY <1>1, <2>1, <2>2, QuietStep
<1>3. ASSUME NEW r \in Requests, SumReserved(r) \/ GatewayAccepts(r) \/ Crash(r) PROVE Books
  <2>1. UNCHANGED <<together, refund, payment, amount>>
    BY <1>3 DEF SumReserved, GatewayAccepts, Crash
  <2> QED
    BY <1>1, <2>1, QuietStep
<1>4. ASSUME NEW r \in Requests, Reserve(r) \/ GatewayFails(r) \/ Complete(r) PROVE Books
  <2>1. amount[r] \in 1..Amount
    BY <1>1, <1>4 DEF OverInv, Reserve, GatewayFails, Complete, Settled, InFlight
  <2> QED
    BY <1>1, <1>4, <2>1, ReserveBooks, FailBooks, CompleteBooks
<1>5. CASE UNCHANGED refundVars
  BY <1>1, <1>5, QuietStep DEF refundVars
<1> QED
  BY <1>2, <1>3, <1>4, <1>5 DEF RefundNext, RefundProceeds

(* Before anything is refunded the books are empty. *)
LEMMA InitLedger == RefundInit => LedgerInv /\ Ledger!Init
<1> SUFFICES ASSUME RefundInit PROVE LedgerInv /\ Ledger!Init
  OBVIOUS
<1>1. InStatus({"pending"}) = {} /\ InStatus({"completed"}) = {}
  BY DEF RefundInit, InStatus
<1>2. Total(InStatus({"pending"})) = 0 /\ Total(InStatus({"completed"})) = 0
  BY <1>1, TotalNone
<1>3. together \in Nat \ {0}
  BY AmountOK DEF RefundInit
<1> QED
  BY <1>2, <1>3, InitOver, InitSolo DEF RefundInit, LedgerInv, Ledger!Init

(* Reserving, calling the gateway and completing, in three transactions,   *)
(* amount to the ledger's atomic steps, for every number of requests,      *)
(* every number of them in flight together, every amount and every death   *)
(* of the process.                                                         *)
THEOREM LedgerImplemented == RefundSpec => ImplementsLedger
<1>1. LedgerInv /\ [RefundNext]_refundVars => LedgerInv' /\ [Ledger!Next]_(Ledger!vars)
  BY NextLedgerInv, StepBooked DEF Books
<1> QED
  BY <1>1, InitLedger, PTL DEF RefundSpec, ImplementsLedger, Ledger!Spec

=============================================================================
