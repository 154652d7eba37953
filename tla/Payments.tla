------------------------------ MODULE Payments ------------------------------
(***************************************************************************)
(* How one order is paid: payment.service.js (the online payment, the      *)
(* manual settlement, the switch to cash, the cash collection),            *)
(* webhook.service.js and webhook-processor.service.js (the gateway's      *)
(* notices) and setOrderDetails of order.service.js, which sets the price. *)
(*                                                                         *)
(* A slot is a request or a webhook processor at work.  Like every handler *)
(* of the server it reads the order first and writes in a transaction of   *)
(* its own later; only the webhook compares the status again, and it does  *)
(* not look at whether the comparison succeeded.  The order's status is    *)
(* moved by other handlers (OrderLifecycle), here one action.              *)
(***************************************************************************)
EXTENDS OrderStatus, FiniteSets, Sequences

CONSTANTS
  Slots,         \* requests and webhook processors that may be at work
  Overlaps,      \* how many of them may be at work together
  Charges,       \* payments at the gateway: Payment.externalId
  NoCharge,
  Notices,       \* webhook events the gateway may send of one charge
  Prices,        \* totals staff may set
  StatusMoves,   \* statuses other handlers move the order to
  MaxCash        \* bound: Payment rows of the providers cod and manual

ASSUME ConstantsOK ==
  /\ IsFiniteSet(Slots)
  /\ Overlaps \subseteq Nat \ {0}
  /\ NoCharge \notin Charges
  /\ Prices \subseteq Nat
  /\ StatusMoves \subseteq Status
  /\ MaxCash \in Nat

VARIABLES
  overlap,     \* how many may be at work together; never changes
  status,      \* Order.status
  total,       \* Order.totalPrice
  payStatus,   \* Order.paymentStatus
  method,      \* Order.paymentMethod
  invoice,     \* Invoice.paymentStatus, or "none"
  row,         \* Payment rows of provider moyasar, by externalId
  cash,        \* Payment rows of the providers cod and manual
  hook,        \* WebhookEvent.processingStatus by charge and notice
  gateway,     \* the charges as the gateway knows them
  req          \* what each slot is working on

order == <<status, total, payStatus, method>>
vars  == <<overlap, order, invoice, row, cash, hook, gateway, req>>

Amounts       == Prices \cup {0}
PaymentStatus == {"unpaid", "initiated", "paid", "failed", "refunded"}
Entry         == [status : {"none", "initiated", "paid", "failed"},
                  amount : Amounts]
NoEntry       == [status |-> "none", amount |-> 0]

NoRequest ==
  [pc |-> "idle", op |-> "none", charge |-> NoCharge, notice |-> NoCharge,
   seen |-> "none", amount |-> 0]

Receipt == [provider : {"cod", "manual"}, amount : Amounts]

Request ==
  [pc : {"idle", "read", "answered"},
   op : {"none", "create", "manual", "switch", "collect", "details", "paid",
         "failed", "mismatch"},
   charge : Charges \cup {NoCharge}, notice : Notices \cup {NoCharge},
   seen : Status \cup {"none", "initiated", "paid", "failed"},
   amount : Amounts]

TypeOK ==
  /\ overlap \in Overlaps
  /\ status \in Status
  /\ total \in Amounts
  /\ payStatus \in PaymentStatus
  /\ method \in {"online", "cash_on_delivery"}
  /\ invoice \in PaymentStatus \cup {"none"}
  /\ row \in [Charges -> Entry]
  /\ cash \in Seq(Receipt)
  /\ hook \in [Charges \X Notices -> {"none", "pending", "processed", "failed"}]
  /\ gateway \in [Charges -> Entry]
  /\ req \in [Slots -> Request]

(* What createOrder writes: nothing to pay yet, no invoice. *)
Init ==
  /\ overlap \in Overlaps
  /\ status = "pending_pickup"
  /\ total = 0
  /\ payStatus = "unpaid"
  /\ method \in {"online", "cash_on_delivery"}
  /\ invoice = "none"
  /\ row = [c \in Charges |-> NoEntry]
  /\ cash = <<>>
  /\ hook = [e \in Charges \X Notices |-> "none"]
  /\ gateway = [c \in Charges |-> NoEntry]
  /\ req = [s \in Slots |-> NoRequest]

-----------------------------------------------------------------------------
AtWork == {s \in Slots : req[s].pc # "idle"}

Free == Cardinality(AtWork) < overlap

(* The snapshot a handler validated and works with from here on. *)
Accept(s, op, c, n, amount) ==
  /\ req[s].pc = "idle" /\ Free
  /\ req' = [req EXCEPT ![s] = [pc |-> "read", op |-> op, charge |-> c,
               notice |-> n, seen |-> status, amount |-> amount]]
  /\ UNCHANGED <<overlap, order, invoice, row, cash, hook, gateway>>

At(s, pc, op) == req[s].pc = pc /\ req[s].op = op

Reply(s) == req' = [req EXCEPT ![s] = NoRequest] /\ UNCHANGED overlap

(* tx.invoice.updateMany: every invoice the order has, if any. *)
SyncInvoices(st) == invoice' = IF invoice = "none" THEN "none" ELSE st

-----------------------------------------------------------------------------
(* createMoyasarPayment: only the payment method is checked.               *)
CreateRead(s, c) ==
  /\ method = "online"
  /\ gateway[c] = NoEntry
  /\ \A o \in Slots : req[o].charge # c
  /\ Accept(s, "create", c, NoCharge, total)

(* The gateway creates the charge for the price that was read and answers  *)
(* with its status, which the handler keeps.                               *)
GatewayCreates(s) ==
  /\ At(s, "read", "create")
  /\ \E st \in {"initiated", "paid", "failed"} :
       /\ gateway' = [gateway EXCEPT ![req[s].charge] =
                        [status |-> st, amount |-> req[s].amount]]
       /\ req' = [req EXCEPT ![s] = [@ EXCEPT !.pc = "answered", !.seen = st]]
  /\ UNCHANGED <<overlap, order, invoice, row, cash, hook>>

(* The call fails, its answer is lost, or the INSERT finds a row the       *)
(* webhook wrote first (externalId is unique): nothing is written.         *)
CreateFails(s) ==
  /\ At(s, "read", "create") \/ At(s, "answered", "create")
  /\ Reply(s)
  /\ UNCHANGED <<order, invoice, row, cash, hook, gateway>>

(* INSERT the Payment row and overwrite the order's payment status.        *)
CreateCommit(s) ==
  /\ At(s, "answered", "create")
  /\ row[req[s].charge] = NoEntry
  /\ row' = [row EXCEPT ![req[s].charge] =
               [status |-> req[s].seen, amount |-> req[s].amount]]
  /\ payStatus' = req[s].seen
  /\ SyncInvoices(req[s].seen)
  /\ Reply(s)
  /\ UNCHANGED <<status, total, method, cash, hook, gateway>>

-----------------------------------------------------------------------------
(* Money outside the gateway.                                              *)

(* Order, invoices and an audit Payment row, in one transaction. *)
SettleOutside(s, provider) ==
  /\ payStatus' = "paid"
  /\ SyncInvoices("paid")
  /\ cash' = Append(cash, [provider |-> provider, amount |-> req[s].amount])
  /\ Reply(s)
  /\ UNCHANGED <<status, total, method, row, hook, gateway>>

(* markOrderPaidManually asks nothing of the payment status. *)
ManualRead(s) ==
  /\ Len(cash) < MaxCash
  /\ Accept(s, "manual", NoCharge, NoCharge, total)

ManualCommit(s) ==
  /\ At(s, "read", "manual")
  /\ Len(cash) < MaxCash
  /\ SettleOutside(s, "manual")

(* switchToCodByCustomer; switchToCodByDriver is the same step without the *)
(* test of the order's status.                                             *)
SwitchRead(s) ==
  /\ payStatus = "unpaid"
  /\ method = "online"
  /\ Accept(s, "switch", NoCharge, NoCharge, 0)

SwitchCommit(s) ==
  /\ At(s, "read", "switch")
  /\ method' = "cash_on_delivery"
  /\ Reply(s)
  /\ UNCHANGED <<status, total, payStatus, invoice, row, cash, hook, gateway>>

CollectRead_Bug(s) ==  \* a paid order is not answered early
  /\ method = "cash_on_delivery"
  /\ Len(cash) < MaxCash
  /\ Accept(s, "collect", NoCharge, NoCharge, total)

(* collectCashByDriver: a payment status other than unpaid is answered     *)
(* with success and nothing is written.                                    *)
CollectRead(s) ==
  /\ payStatus = "unpaid"
  /\ method = "cash_on_delivery"
  /\ Len(cash) < MaxCash
  /\ Accept(s, "collect", NoCharge, NoCharge, total)

CollectCommit(s) ==
  /\ At(s, "read", "collect")
  /\ Len(cash) < MaxCash
  /\ SettleOutside(s, "cod")

-----------------------------------------------------------------------------
(* setOrderDetails: the price, refused only when the order was read paid.  *)
DetailsRead_Bug(s, price) ==  \* the price may always be set
  Accept(s, "details", NoCharge, NoCharge, price)

DetailsRead(s, price) ==
  /\ payStatus # "paid"
  /\ Accept(s, "details", NoCharge, NoCharge, price)

DetailsCommit(s) ==
  /\ At(s, "read", "details")
  /\ total' = req[s].amount
  /\ Reply(s)
  /\ UNCHANGED <<status, payStatus, method, invoice, row, cash, hook, gateway>>

-----------------------------------------------------------------------------
(* The gateway and its notices.                                            *)

(* The customer pays the charge, or abandons it: final at the gateway. *)
GatewaySettles(c, st) ==
  /\ gateway[c].status = "initiated"
  /\ gateway' = [gateway EXCEPT ![c].status = st]
  /\ UNCHANGED <<overlap, order, invoice, row, cash, hook, req>>

(* receiveMoyasarWebhook: a notice that was received before is answered    *)
(* and nothing is written; a new one waits.                                *)
ReceiveWebhook(c, n) ==
  /\ gateway[c].status \in {"paid", "failed"}
  /\ hook[<<c, n>>] = "none"
  /\ hook' = [hook EXCEPT ![<<c, n>>] = "pending"]
  /\ UNCHANGED <<overlap, order, invoice, row, cash, gateway, req>>

(* processWebhookEvent reads the notice; only a processed one is left.     *)
Unprocessed(c, n) == hook[<<c, n>>] \in {"pending", "failed"}

Confirmable == status = "payment_confirmed"
               \/ isAllowedTransition(status, "payment_confirmed")

(* processPaymentPaid: the amount charged is today's price and the order   *)
(* may be confirmed.                                                       *)
WebhookReadPaid(s, c, n) ==
  /\ Unprocessed(c, n)
  /\ gateway[c].status = "paid"
  /\ gateway[c].amount = total
  /\ Confirmable
  /\ Accept(s, "paid", c, n, gateway[c].amount)

(* Another price: the notice is marked failed and nothing else happens.    *)
WebhookReadMismatch(s, c, n) ==
  /\ Unprocessed(c, n)
  /\ gateway[c].status = "paid"
  /\ gateway[c].amount # total
  /\ Accept(s, "mismatch", c, n, gateway[c].amount)

WebhookReadFailed(s, c, n) ==
  /\ Unprocessed(c, n)
  /\ gateway[c].status = "failed"
  /\ Accept(s, "failed", c, n, gateway[c].amount)

Processed(s, as) ==
  /\ hook' = [hook EXCEPT ![<<req[s].charge, req[s].notice>>] = as]
  /\ Reply(s)

WebhookMismatch(s) ==
  /\ At(s, "read", "mismatch")
  /\ Processed(s, "failed")
  /\ UNCHANGED <<order, invoice, row, cash, gateway>>

WebhookPaidCommit_Bug(s) ==  \* UPDATE by id, the status is not compared
  /\ At(s, "read", "paid")
  /\ row' = [row EXCEPT ![req[s].charge] =
               [status |-> "paid", amount |-> req[s].amount]]
  /\ status' = "payment_confirmed"
  /\ payStatus' = "paid"
  /\ invoice' = "paid"
  /\ Processed(s, "processed")
  /\ UNCHANGED <<total, method, cash, gateway>>

WebhookPaidCommit_Bug2(s) ==  \* a payment status set meanwhile is kept
  /\ At(s, "read", "paid")
  /\ row' = [row EXCEPT ![req[s].charge] =
               [status |-> "paid", amount |-> req[s].amount]]
  /\ IF status = req[s].seen /\ payStatus = "unpaid"
     THEN status' = "payment_confirmed" /\ payStatus' = "paid"
     ELSE UNCHANGED <<status, payStatus>>
  /\ invoice' = "paid"
  /\ Processed(s, "processed")
  /\ UNCHANGED <<total, method, cash, gateway>>

(* The payment row and the invoice are written whatever happens to the     *)
(* order: whether UPDATE ... WHERE status = the status read matched is not *)
(* looked at.                                                              *)
WebhookPaidCommit(s) ==
  /\ At(s, "read", "paid")
  /\ row' = [row EXCEPT ![req[s].charge] =
               [status |-> "paid", amount |-> req[s].amount]]
  /\ IF status = req[s].seen
     THEN status' = "payment_confirmed" /\ payStatus' = "paid"
     ELSE UNCHANGED <<status, payStatus>>
  /\ invoice' = "paid"
  /\ Processed(s, "processed")
  /\ UNCHANGED <<total, method, cash, gateway>>

(* processPaymentFailed: the payment row alone, its amount set only when   *)
(* the row is new.                                                         *)
WebhookFailedCommit(s) ==
  /\ At(s, "read", "failed")
  /\ row' = [row EXCEPT ![req[s].charge] =
               [status |-> "failed",
                amount |-> IF row[req[s].charge] = NoEntry THEN req[s].amount
                           ELSE row[req[s].charge].amount]]
  /\ Processed(s, "processed")
  /\ UNCHANGED <<order, invoice, cash, gateway>>

-----------------------------------------------------------------------------
(* Another handler commits a status.  Any one: claims and overlapping      *)
(* commits leave the matrix (OrderLifecycle).                              *)
OrderMoves(to) ==
  /\ Free
  /\ status' = to
  /\ UNCHANGED <<overlap, total, payStatus, method, invoice, row, cash, hook,
                 gateway, req>>

Arrive(s) ==
  \/ \E c \in Charges : CreateRead(s, c)
  \/ ManualRead(s) \/ SwitchRead(s) \/ CollectRead(s)
  \/ \E price \in Prices : DetailsRead(s, price)
  \/ \E c \in Charges, n \in Notices :
       WebhookReadPaid(s, c, n) \/ WebhookReadMismatch(s, c, n)
       \/ WebhookReadFailed(s, c, n)

Proceed(s) ==
  \/ GatewayCreates(s) \/ CreateFails(s) \/ CreateCommit(s)
  \/ ManualCommit(s) \/ SwitchCommit(s) \/ CollectCommit(s)
  \/ DetailsCommit(s)
  \/ WebhookMismatch(s) \/ WebhookPaidCommit(s) \/ WebhookFailedCommit(s)

Environment ==
  \/ \E c \in Charges, st \in {"paid", "failed"} : GatewaySettles(c, st)
  \/ \E c \in Charges, n \in Notices : ReceiveWebhook(c, n)
  \/ \E to \in StatusMoves : OrderMoves(to)

Next == (\E s \in Slots : Arrive(s) \/ Proceed(s)) \/ Environment

Spec == Init /\ [][Next]_vars
-----------------------------------------------------------------------------
(* What holds however requests overlap.                                    *)

(* The webhook confirms an order only along an arrow of the matrix from    *)
(* the status the row really has at the commit.                            *)
ConfirmAlongMatrix ==
  [][\A s \in Slots : (WebhookPaidCommit(s) /\ status' # status) =>
        isAllowedTransition(status, "payment_confirmed")]_vars

(* A Payment row recorded as paid stays paid and keeps its amount, though  *)
(* the request that created the charge may commit after its webhook.       *)
PaidRowIsFinal ==
  [][\A c \in Charges : row[c].status = "paid" => row'[c] = row[c]]_vars

-----------------------------------------------------------------------------
(* What holds when requests do not overlap.                                *)

Sequential == overlap = 1

PaidRows == {c \in Charges : row[c].status = "paid"}

(* An order marked paid has a payment of exactly its price.                *)
PaidAtPrice ==
  (Sequential /\ payStatus = "paid") =>
    \/ \E c \in PaidRows : row[c].amount = total
    \/ \E i \in DOMAIN cash : cash[i].amount = total

(* The driver takes cash only while no payment at all is recorded as made. *)
CashIsFirstMoney ==
  [][\A s \in Slots : (Sequential /\ CollectCommit(s)) =>
        cash = <<>> /\ PaidRows = {}]_vars

(* A payment the webhook records confirms the order in the same step.      *)
PaymentConfirmsOrder ==
  [][\A s \in Slots : (Sequential /\ WebhookPaidCommit(s)) =>
        status' = "payment_confirmed" /\ payStatus' = "paid"]_vars
=============================================================================
