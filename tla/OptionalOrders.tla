---------------------------- MODULE OptionalOrders ----------------------------
(***************************************************************************)
(* Online payments of an independent agreement whose payments are optional *)
(* (optional_orders.py, independent_payment_selectors.py): a durable order *)
(* intent, the provider call outside every transaction, the binding of its *)
(* answer, and exact recovery when the answer was lost.                    *)
(***************************************************************************)
EXTENDS Integers, Sequences, FiniteSets

CONSTANTS
  MaxContributions,  \* bound: payment attempts of the agreement
  Creators,          \* concurrent requests for a checkout
  Deliveries,        \* concurrent deliveries of events
  MaxFaults,         \* bound: lost answers, crashes and failures
  MaxObservations,   \* bound: recorded inspections
  MayPause,          \* bound: payments are paused and resumed at times
  Bodies,            \* the contents an event about a payment may have
  Payments, NoPayment,
  Events, NoEvent,   \* provider events, each about one captured payment
  Desks              \* the owner's sessions of refund work

ASSUME OptionalAssumption ==
  /\ MaxContributions \in Nat /\ MaxFaults \in Nat /\ MaxObservations \in Nat
  /\ MayPause \in BOOLEAN
  /\ NoPayment \notin Payments /\ NoEvent \notin Events /\ "none" \notin Bodies

Contributions == 1..MaxContributions
Successful == {"PAID", "PAID_UNALLOCATED"}

VARIABLES
  row,        \* contribution -> [channel, status, ordered, payment, expired]
  request,    \* contribution -> its OptionalPaymentOrderRequest and its binding
  untouched,  \* contributions abandoned on an untouched order, by its audit
  paused,     \* payment initiation is paused, or closure was accepted
  creator,    \* request -> [at, contribution]
  handed,     \* contributions whose checkout was handed to the customer
  orders,     \* contribution -> number of orders the provider created
  payment,    \* payment -> [order, state] at the provider
  event,      \* PaymentWebhookEvent, and the final outcomes of its attempts
  delivery,   \* delivery -> [at, event, contribution], the event's as it knows it
  verified,     \* callbacks and recoveries the provider confirmed: <<payment, event>>
  faults,
  observations, \* event -> its PaymentRefundObservations so far
  resolved,     \* payment -> the body its PaymentErrorRefundResolution is about
  retired,      \* contributions with a RefundedPaymentOrderClosure
  desk          \* session of refund work -> where it is and what it saw

orderVars == <<row, request, untouched, paused, creator, handed, orders>>
refundVars == <<verified, observations, resolved, retired, desk>>
creditVars == <<delivery, verified, observations, resolved, retired, desk>>
vars == <<row, request, untouched, paused, creator, handed, orders, payment, event,
          delivery, verified, faults, observations, resolved, retired, desk>>

ContributionRow ==
  [channel : {"none", "RAZORPAY", "IN_STORE_CASH"},
   status : {"none", "PENDING", "ABANDONED"} \cup Successful,
   ordered : BOOLEAN, payment : Payments \cup {NoPayment}, expired : BOOLEAN]
OrderRequest == {"none", "unbound", "answered", "recovered"}
ProviderPayment ==
  [order : Contributions \cup {0},
   state : {"none", "created", "failed", "captured", "partial", "refunded"}]
\* What a WebhookProcessingAttempt records of a delivery or a recovery.
Outcomes == {"PROCESSED", "REVIEW_REQUIRED"}
WebhookEvent ==
  [status : {"none", "RECEIVED"} \cup Outcomes, payment : Payments \cup {NoPayment},
   body : Bodies \cup {"none"}, contribution : Contributions \cup {0}, identified : BOOLEAN,
   attempts : SUBSET Outcomes, answered : BOOLEAN]
Delivery ==
  [at : {"idle", "find", "confirm", "finish", "review"}, event : Events \cup {NoEvent},
   contribution : Contributions \cup {0}]

NoRow == [channel |-> "none", status |-> "none", ordered |-> FALSE,
          payment |-> NoPayment, expired |-> FALSE]
Unheard == [status |-> "none", payment |-> NoPayment, body |-> "none", contribution |-> 0,
            identified |-> FALSE, attempts |-> {}, answered |-> FALSE]
NoDelivery == [at |-> "idle", event |-> NoEvent, contribution |-> 0]

OrderInit ==
  /\ row = [c \in Contributions |-> NoRow]
  /\ request = [c \in Contributions |-> "none"]
  /\ untouched = {}
  /\ paused = FALSE
  /\ creator = [w \in Creators |-> [at |-> "idle", contribution |-> 0]]
  /\ handed = {}
  /\ orders = [c \in Contributions |-> 0]
  /\ payment = [p \in Payments |-> [order |-> 0, state |-> "none"]]
  /\ event = [e \in Events |-> Unheard]
  /\ delivery = [v \in Deliveries |-> NoDelivery]
  /\ verified = {}
  /\ faults = 0

Fault == faults < MaxFaults /\ faults' = faults + 1

-----------------------------------------------------------------------------
(* What new payments wait for. *)

Rows == {c \in Contributions : row[c].status # "none"}
Online == {c \in Rows : row[c].channel = "RAZORPAY"}
Pending == {c \in Online : row[c].status = "PENDING"}

\* _has_entitlement: the payment was credited, once.
HasEntitlement(p) ==
  \/ \E c \in Rows : row[c].payment = p
  \/ \E e \in Events : event[e].payment = p /\ event[e].identified /\ event[e].status = "PROCESSED"

\* is_resolved_capture_event: a resolution is about one payment and one body.
ResolvedEvent(e) ==
  /\ event[e].identified
  /\ resolved[event[e].payment] = event[e].body
  /\ ~HasEntitlement(event[e].payment)

\* unresolved_payment_events of the agreement's rows and orders.
Unresolved(e) ==
  /\ event[e].status \in {"RECEIVED", "REVIEW_REQUIRED"}
  /\ \/ event[e].contribution # 0
     \/ event[e].identified /\ row[payment[event[e].payment].order].ordered
  /\ ~ResolvedEvent(e)

\* require_optional_order_integrity: no request is unanswered, every abandoned
\* order has its evidence, and no other checkout is open.
OrderIntegrity(c) ==
  /\ \A d \in Online : request[d] = "none" => row[d].status = "PENDING" /\ ~row[d].ordered
  /\ \A d \in Online : request[d] # "unbound"
  /\ \A d \in Online : row[d].status = "ABANDONED" => d \in untouched \cup retired
  /\ Pending \ {c} = {}

\* resumable_optional_contribution, when it returns c.
Resumable(c) ==
  /\ Pending = {c}
  /\ OrderIntegrity(c)
  /\ ~row[c].expired
  /\ IF row[c].ordered THEN request[c] = "answered" ELSE request[c] = "none"

\* validate_independent_payment_window: flexible payments while nothing is open.
PaymentAllowed(c) ==
  /\ OrderIntegrity(c)
  /\ \A d \in Rows : row[d].status # "PAID_UNALLOCATED"
  /\ \A e \in Events : ~Unresolved(e)

Admitted(c) == Resumable(c) /\ PaymentAllowed(c) /\ ~paused

-----------------------------------------------------------------------------
(* A request for a checkout. *)

CreatorAt(w, place) == creator[w].at = place
Proceed(w, place, c) ==
  creator' = [creator EXCEPT ![w] = [at |-> place, contribution |-> c]]
Rest(w) == Proceed(w, "idle", 0)

NewContribution(c) == c \notin Rows /\ (c = 1 \/ c - 1 \in Rows)

\* A request that inserts its row on what it saw before the agreement's lock.
InitiateContributionAnew(w) ==
  /\ CreatorAt(w, "idle")
  /\ \E c \in Contributions :
       /\ ~paused
       /\ NewContribution(c)
       /\ row' = [row EXCEPT ![c] = [NoRow EXCEPT !.channel = "RAZORPAY", !.status = "PENDING"]]
       /\ Proceed(w, "begin", c)
  /\ UNCHANGED <<request, untouched, paused, handed, orders, payment, event, faults,
                 creditVars>>

\* initiate_razorpay_contribution: resume the only open checkout or insert one.
InitiateContribution(w) ==
  /\ CreatorAt(w, "idle")
  /\ \/ \E c \in Rows :
          /\ Resumable(c) /\ PaymentAllowed(c)
          /\ Proceed(w, "begin", c)
          /\ UNCHANGED row
     \/ \E c \in Contributions :
          /\ Pending = {} /\ PaymentAllowed(0) /\ ~paused
          /\ NewContribution(c)
          /\ row' = [row EXCEPT ![c] = [NoRow EXCEPT !.channel = "RAZORPAY",
                                          !.status = "PENDING"]]
          /\ Proceed(w, "begin", c)
  /\ UNCHANGED <<request, untouched, paused, handed, orders, payment, event, faults,
                 creditVars>>

\* An unanswered request that is sent once more.
BeginOrderRequestAgain(w) ==
  /\ CreatorAt(w, "begin")
  /\ row[creator[w].contribution].status = "PENDING"
  /\ request' = [request EXCEPT ![creator[w].contribution] = "unbound"]
  /\ Proceed(w, "call", creator[w].contribution)
  /\ UNCHANGED <<row, untouched, paused, handed, orders, payment, event, faults, creditVars>>

\* begin_optional_order_request: one durable intent, then the call.
BeginOrderRequest(w) ==
  /\ CreatorAt(w, "begin")
  /\ LET c == creator[w].contribution IN
       /\ Admitted(c)
       /\ IF row[c].ordered
            THEN Proceed(w, "admit", c) /\ UNCHANGED request
            ELSE /\ request' = [request EXCEPT ![c] = "unbound"]
                 /\ Proceed(w, "call", c)
  /\ UNCHANGED <<row, untouched, paused, handed, orders, payment, event, faults, creditVars>>

\* create_order outside every transaction; the answer may be lost.
CallProvider(w) ==
  /\ CreatorAt(w, "call")
  /\ \/ /\ orders' = [orders EXCEPT ![creator[w].contribution] = @ + 1]
        /\ \/ Proceed(w, "bind", creator[w].contribution) /\ UNCHANGED faults
           \/ Rest(w) /\ Fault
     \/ UNCHANGED orders /\ Rest(w) /\ Fault
  /\ UNCHANGED <<row, request, untouched, paused, handed, payment, event, creditVars>>

\* _bind_response without its check that nobody bound the request meanwhile.
BindResponseBlindly(w) ==
  /\ CreatorAt(w, "bind")
  /\ LET c == creator[w].contribution IN
       /\ row[c].status = "PENDING"
       /\ row' = [row EXCEPT ![c].ordered = TRUE]
       /\ request' = [request EXCEPT ![c] = "answered"]
       /\ Proceed(w, "admit", c)
  /\ UNCHANGED <<untouched, paused, handed, orders, payment, event, faults, creditVars>>

\* _bind_response.
BindResponse(w) ==
  /\ CreatorAt(w, "bind")
  /\ LET c == creator[w].contribution IN
       /\ row[c].status = "PENDING" /\ ~row[c].ordered /\ request[c] = "unbound"
       /\ row' = [row EXCEPT ![c].ordered = TRUE]
       /\ request' = [request EXCEPT ![c] = "answered"]
       /\ Proceed(w, "admit", c)
  /\ UNCHANGED <<untouched, paused, handed, orders, payment, event, faults, creditVars>>

\* The checkout is handed out on the admission before the call.
HandCheckoutUnchecked(w) ==
  /\ CreatorAt(w, "admit")
  /\ handed' = handed \cup {creator[w].contribution}
  /\ Rest(w)
  /\ UNCHANGED <<row, request, untouched, paused, orders, payment, event, faults, creditVars>>

\* create_optional_order: the checkout is handed out only if it is admitted
\* again after the call.
HandCheckout(w) ==
  /\ CreatorAt(w, "admit")
  /\ Admitted(creator[w].contribution)
  /\ handed' = handed \cup {creator[w].contribution}
  /\ Rest(w)
  /\ UNCHANGED <<row, request, untouched, paused, orders, payment, event, faults, creditVars>>

\* A request is refused or dies between two transactions.
CreatorStops(w) ==
  /\ ~CreatorAt(w, "idle")
  /\ Rest(w)
  /\ UNCHANGED <<row, request, untouched, paused, handed, orders, payment, event,
                 faults, creditVars>>

\* recover_optional_order: the owner binds the order the provider created.
RecoverOrder(c) ==
  /\ request[c] = "unbound"
  /\ orders[c] > 0
  /\ row[c].status = "PENDING" /\ ~row[c].ordered
  /\ row' = [row EXCEPT ![c].ordered = TRUE]
  /\ request' = [request EXCEPT ![c] = "recovered"]
  /\ UNCHANGED <<untouched, paused, creator, handed, orders, payment, event, faults,
                 creditVars>>

\* An expiry that is written to the row as a status of its own.
ExpireCheckoutStatus(c) ==
  /\ row[c].status = "PENDING" /\ ~row[c].expired
  /\ row' = [row EXCEPT ![c].expired = TRUE, ![c].status = "EXPIRED"]
  /\ UNCHANGED <<request, untouched, paused, creator, handed, orders, payment, event,
                 faults, creditVars>>

\* razorpay_checkout_expired: the time of the checkout passes.
ExpireCheckout(c) ==
  /\ row[c].status = "PENDING" /\ ~row[c].expired
  /\ row' = [row EXCEPT ![c].expired = TRUE]
  /\ UNCHANGED <<request, untouched, paused, creator, handed, orders, payment, event,
                 faults, creditVars>>

\* update_payment_operations_control, for this agreement's grade.
TogglePause ==
  /\ MayPause
  /\ paused' = ~paused
  /\ UNCHANGED <<row, request, untouched, creator, handed, orders, payment, event,
                 faults, creditVars>>

\* A row abandoned although the provider's order is not known.
AbandonUnordered(c) ==
  /\ row[c].status = "PENDING" /\ row[c].expired
  /\ \A p \in Payments : payment[p].order # c
  /\ row' = [row EXCEPT ![c].status = "ABANDONED"]
  /\ untouched' = untouched \cup {c}
  /\ UNCHANGED <<request, paused, creator, handed, orders, payment, event, faults, creditVars>>

\* reconcile_abandoned_razorpay_contribution: inspection and decision, the
\* order being untouched when it is inspected. A payment made in between is
\* a late capture like one made afterwards.
AbandonUntouched(c) ==
  /\ row[c].status = "PENDING" /\ row[c].ordered /\ row[c].expired
  /\ \A p \in Payments : payment[p].order # c
  /\ row' = [row EXCEPT ![c].status = "ABANDONED"]
  /\ untouched' = untouched \cup {c}
  /\ UNCHANGED <<request, paused, creator, handed, orders, payment, event, faults, creditVars>>

\* record_in_store_cash_contribution: no pending online payment, same window.
\* Metal is allocated afterwards (AllocateLater); an INR receipt is PAID at once.
RecordCash(c) ==
  /\ NewContribution(c)
  /\ ~paused
  /\ Pending = {} /\ PaymentAllowed(0)
  /\ \E s \in Successful :
       row' = [row EXCEPT ![c] = [NoRow EXCEPT !.channel = "IN_STORE_CASH", !.status = s]]
  /\ UNCHANGED <<request, untouched, paused, creator, handed, orders, payment, event,
                 faults, creditVars>>

AllocateLater(c) ==
  /\ row[c].status = "PAID_UNALLOCATED"
  /\ row' = [row EXCEPT ![c].status = "PAID"]
  /\ UNCHANGED <<request, untouched, paused, creator, handed, orders, payment, event,
                 faults, creditVars>>

-----------------------------------------------------------------------------
(* The provider (external): an order takes payments until one is captured; a *)
(* captured payment may be refunded, in part or in full. *)

PaidOrder(c) ==
  \E p \in Payments : payment[p].order = c /\ payment[p].state \in {"captured", "partial", "refunded"}

ProviderMoves ==
  /\ \E p \in Payments :
       \/ \E c \in Contributions :
            /\ payment[p].state = "none" /\ orders[c] > 0 /\ ~PaidOrder(c)
            /\ payment' = [payment EXCEPT ![p] = [order |-> c, state |-> "created"]]
       \/ \E s \in {"captured", "failed", "partial", "refunded"} :
            /\ \/ payment[p].state = "created" /\ s \in {"captured", "failed"}
               \/ payment[p].state = "captured" /\ s \in {"partial", "refunded"}
               \/ payment[p].state = "partial" /\ s = "refunded"
            /\ payment' = [payment EXCEPT ![p].state = s]
  /\ UNCHANGED <<orderVars, event, faults, creditVars>>

OrderStep ==
  \/ \E w \in Creators :
       \/ InitiateContribution(w) \/ BeginOrderRequest(w) \/ CallProvider(w)
       \/ BindResponse(w) \/ HandCheckout(w) \/ CreatorStops(w)
  \/ \E c \in Contributions :
       \/ RecoverOrder(c) \/ ExpireCheckout(c) \/ AbandonUntouched(c)
       \/ RecordCash(c) \/ AllocateLater(c)
  \/ TogglePause \/ ProviderMoves
=============================================================================
