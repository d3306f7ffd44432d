------------------------------- MODULE Provider -------------------------------
(***************************************************************************)
(* Razorpay, as the code in src/ uses it (external).  The provider keeps   *)
(* its own record of orders and payments; the application learns of them   *)
(* only through responses, inspections and webhooks that may be late, lost *)
(* or repeated.  Orders cannot be cancelled, so a payment may be made and  *)
(* captured on any order at any time: after the Checkout deadline, after   *)
(* the application has abandoned the contribution, and even on an order    *)
(* whose identity the application never stored.                            *)
(*                                                                         *)
(* An order is <<c, n>>: the n-th order the provider created for           *)
(* contribution c.  The application is meant to cause at most one.         *)
(***************************************************************************)
EXTENDS Agreement

CONSTANT NoOrder           \* a payment that has not been attempted

VARIABLES
  orders,          \* contribution -> number of orders created for it
  payment_order,   \* payment -> the order it was made on
  captured         \* the payments whose money was captured

providerVars == <<orders, payment_order, captured>>

ProviderTypeOK ==
  /\ orders \in [Contributions -> Nat]
  /\ payment_order \in [Payments -> (Contributions \X Nat) \cup {NoOrder}]
  /\ captured \subseteq Payments

ProviderInit ==
  /\ orders = [c \in Contributions |-> 0]
  /\ payment_order = [p \in Payments |-> NoOrder]
  /\ captured = {}

\* POST /orders succeeded at the provider, whatever becomes of the answer.
CreateOrder(c) ==
  /\ orders' = [orders EXCEPT ![c] = @ + 1]
  /\ UNCHANGED <<payment_order, captured>>

\* A customer starts a payment on an order the provider knows.
AttemptPayment(p) ==
  /\ payment_order[p] = NoOrder
  /\ \E c \in Contributions : \E n \in 1..orders[c] :
       payment_order' = [payment_order EXCEPT ![p] = <<c, n>>]
  /\ UNCHANGED <<orders, captured>>

\* The provider captures it, at any later time, or never.
CapturePayment(p) ==
  /\ payment_order[p] # NoOrder
  /\ p \notin captured
  /\ captured' = captured \cup {p}
  /\ UNCHANGED <<orders, payment_order>>

PaymentStep == \E p \in Payments : AttemptPayment(p) \/ CapturePayment(p)

\* inspect_order reports `created`, no attempts and no payments.
Untouched(c) == \A p \in Payments : payment_order[p] # <<c, order_id[c]>>

\* The payment was captured on the order stored on contribution c: what
\* verify_payment, inspect_payment and a signed webhook establish.
CapturedFor(p, c) == /\ p \in captured
                     /\ order_id[c] # 0
                     /\ payment_order[p] = <<c, order_id[c]>>
=============================================================================
