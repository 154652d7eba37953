------------------------------- MODULE Refunds -------------------------------
(***************************************************************************)
(* processOrderRefund of refund.service.js for one payment: the read of    *)
(* the order's paid payment, the transaction that reserves the amount as a *)
(* pending Refund row, the call to the payment gateway, and the            *)
(* transaction that completes the row and marks the payment.               *)
(*                                                                         *)
(* The three parts run in different transactions, each READ COMMITTED, and *)
(* the process may die between any two of them.  Refund rows are named     *)
(* after the request that inserts them.                                    *)
(***************************************************************************)
EXTENDS Naturals, FiniteSets

CONSTANTS
  Requests,   \* the refund requests staff may send
  Amount,     \* Payment.amount
  Together    \* bounds: how many requests may be in flight together

ASSUME AmountOK ==
  /\ IsFiniteSet(Requests)
  /\ Amount \in Nat \ {0}
  /\ Together \subseteq Nat \ {0}

VARIABLES
  together,    \* which of Together this is; never changes
  provider,    \* Payment.provider: moyasar, or a cash payment
  payment,     \* Payment.status; the order and its invoices follow it
  refund,      \* Refund.status of each request's row
  amount,      \* refundAmount of each request
  pc,          \* where each request is
  cumulative,  \* the sum its reservation read
  moved        \* whether the gateway returned the money

refundVars == <<together, provider, payment, refund, amount, pc, cumulative, moved>>

InFlight == {"read", "summed", "reserved", "answered"}

RefundTypeOK ==
  /\ together \in Together
  /\ provider \in {"moyasar", "cod"}
  /\ payment \in {"paid", "refunded"}
  /\ refund \in [Requests -> {"none", "pending", "completed", "failed"}]
  /\ amount \in [Requests -> 0..Amount]
  /\ pc \in [Requests -> InFlight \cup {"new", "ended", "dead"}]
  /\ cumulative \in [Requests -> Nat]
  /\ moved \in [Requests -> BOOLEAN]

RefundInit ==
  /\ together \in Together
  /\ provider \in {"moyasar", "cod"}
  /\ payment = "paid"
  /\ refund = [r \in Requests |-> "none"]
  /\ amount = [r \in Requests |-> 0]
  /\ pc = [r \in Requests |-> "new"]
  /\ cumulative = [r \in Requests |-> 0]
  /\ moved = [r \in Requests |-> FALSE]

-----------------------------------------------------------------------------
(* The sum of the amounts of S, counted unit by unit: <<r, 1>> to          *)
(* <<r, amount[r]>> for each.                                              *)
Units(S) == {u \in S \X (1..Amount) : u[2] <= amount[u[1]]}
Total(S) == Cardinality(Units(S))

InStatus(st) == {r \in Requests : refund[r] \in st}

(* The order is read with its paid payments; without one it is refused.    *)
ReadOrder(r, a) ==
  /\ pc[r] = "new"
  /\ Cardinality({o \in Requests : pc[o] \in InFlight}) < together
  /\ payment = "paid"
  /\ amount' = [amount EXCEPT ![r] = a]
  /\ pc' = [pc EXCEPT ![r] = "read"]
  /\ UNCHANGED <<together, provider, payment, refund, cumulative, moved>>

(* The reservation sums what is pending or completed and refuses what      *)
(* exceeds the payment.                                                    *)
SumReserved(r) ==
  LET sum == Total(InStatus({"completed", "pending"}))
  IN /\ pc[r] = "read"
     /\ cumulative' = [cumulative EXCEPT ![r] = sum]
     /\ pc' = [pc EXCEPT ![r] = IF sum + amount[r] > Amount THEN "ended" ELSE "summed"]
     /\ UNCHANGED <<together, provider, payment, refund, amount, moved>>

(* It then inserts the pending row and commits. *)
Reserve(r) ==
  /\ pc[r] = "summed"
  /\ refund' = [refund EXCEPT ![r] = "pending"]
  /\ pc' = [pc EXCEPT ![r] = "reserved"]
  /\ UNCHANGED <<together, provider, payment, amount, cumulative, moved>>

(* The gateway returns the money and says so. *)
GatewayAccepts(r) ==
  /\ pc[r] = "reserved" /\ provider = "moyasar"
  /\ moved' = [moved EXCEPT ![r] = TRUE]
  /\ pc' = [pc EXCEPT ![r] = "answered"]
  /\ UNCHANGED <<together, provider, payment, refund, amount, cumulative>>

GatewayFails_Bug(r) ==  \* the row is left pending
  /\ pc[r] = "reserved" /\ provider = "moyasar"
  /\ \E m \in BOOLEAN : moved' = [moved EXCEPT ![r] = m]
  /\ pc' = [pc EXCEPT ![r] = "ended"]
  /\ UNCHANGED <<together, provider, payment, refund, amount, cumulative>>

(* It refuses, or the call fails: the row is marked failed.  When only the *)
(* answer was lost the money has moved all the same.                       *)
GatewayFails(r) ==
  /\ pc[r] = "reserved" /\ provider = "moyasar"
  /\ \E m \in BOOLEAN : moved' = [moved EXCEPT ![r] = m]
  /\ refund' = [refund EXCEPT ![r] = "failed"]
  /\ pc' = [pc EXCEPT ![r] = "ended"]
  /\ UNCHANGED <<together, provider, payment, amount, cumulative>>

Settled(r) ==
  \/ pc[r] = "answered"
  \/ pc[r] = "reserved" /\ provider # "moyasar"

isFullyRefunded_Bug2(r) ==  \* any refund marks the payment
  cumulative[r] + amount[r] > 0

isFullyRefunded(r) == cumulative[r] + amount[r] >= Amount

Complete_Bug(r) ==  \* does not wait for the gateway
  /\ pc[r] \in {"reserved", "answered"}
  /\ refund' = [refund EXCEPT ![r] = "completed"]
  /\ payment' = IF isFullyRefunded(r) THEN "refunded" ELSE payment
  /\ pc' = [pc EXCEPT ![r] = "ended"]
  /\ UNCHANGED <<together, provider, amount, cumulative, moved>>

(* The row is completed and, when this was the rest, the payment, the      *)
(* order and its invoices become refunded in the same transaction.         *)
Complete(r) ==
  /\ Settled(r)
  /\ refund' = [refund EXCEPT ![r] = "completed"]
  /\ payment' = IF isFullyRefunded(r) THEN "refunded" ELSE payment
  /\ pc' = [pc EXCEPT ![r] = "ended"]
  /\ UNCHANGED <<together, provider, amount, cumulative, moved>>

(* The process dies: what it committed stays, nothing resumes the request. *)
Crash(r) ==
  /\ pc[r] \in InFlight
  /\ pc' = [pc EXCEPT ![r] = "dead"]
  /\ UNCHANGED <<together, provider, payment, refund, amount, cumulative, moved>>

RefundProceeds(r) ==
  \/ SumReserved(r) \/ Reserve(r)
  \/ GatewayAccepts(r) \/ GatewayFails(r)
  \/ Complete(r)

RefundNext ==
  \E r \in Requests :
    (\E a \in 1..Amount : ReadOrder(r, a)) \/ RefundProceeds(r) \/ Crash(r)

RefundSpec == RefundInit /\ [][RefundNext]_refundVars

(* Node runs every started request and the gateway call returns or times   *)
(* out.                                                                    *)
FairRefundSpec == RefundSpec /\ \A r \in Requests : WF_refundVars(RefundProceeds(r))
-----------------------------------------------------------------------------
(* The ledger this service implements, wherever a process dies. *)
Ledger == INSTANCE RefundLedger WITH
  reserved <- Total(InStatus({"pending"})),
  returned <- Total(InStatus({"completed"})),
  refunded <- payment = "refunded"

(* Reservation, gateway call and completion, three transactions apart,     *)
(* amount to the ledger's atomic steps, in whatever parts a payment is     *)
(* refunded, however many requests overlap and whichever dies half way.    *)
ImplementsLedger == Ledger!Spec

(* No more is promised or returned than was paid: the comment at           *)
(* refund.service.js:32 promises it for concurrent requests.               *)
NeverOverRefunded == Total(InStatus({"pending", "completed"})) <= Amount

(* A refund recorded as completed through the gateway was really returned: *)
(* the row is never ahead of the money, however requests overlap or die.   *)
CompletedWasReturned ==
  \A r \in Requests :
    (refund[r] = "completed" /\ provider = "moyasar") => moved[r]

(* A reservation does not block the balance for ever: unless its process   *)
(* dies it is completed or released.                                       *)
ReservationsSettle ==
  \A r \in Requests :
    refund[r] = "pending" ~> (refund[r] # "pending" \/ pc[r] = "dead")
=============================================================================
