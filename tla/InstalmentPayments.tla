-------------------------- MODULE InstalmentPayments --------------------------
(***************************************************************************)
(* Online payments of a monthly agreement: the order request               *)
(* (_create_razorpay_order), the captured-payment webhook and its timing   *)
(* evidence, the browser callback and the release of an untouched order    *)
(* (services.py, instalment_payments.py).                                  *)
(*                                                                         *)
(* A request for an order commits three times: the claim, the ORDERING     *)
(* intent, and the provider's answer.  The provider is called inside the   *)
(* third transaction, so a crash there leaves an order nobody stored.      *)
(*                                                                         *)
(* The provider delivers an event at least once, and its deliveries may    *)
(* overlap.  Each is a request with its own copy of the event row, read at *)
(* its start and written back at its end over whatever the row holds then. *)
(***************************************************************************)
EXTENDS Instalments

CONSTANTS
  Creators,    \* concurrent requests for a checkout
  Deliveries,  \* concurrent deliveries of events
  MaxFaults    \* bound: lost answers, crashes and failures

ASSUME PaymentAssumption == MaxFaults \in Nat

VARIABLES
  creator,     \* request -> [at, contribution]
  delivery,    \* delivery -> [at, event, contribution], the event's as it knows it
  handed,      \* contributions whose checkout was handed to the customer
  inspected,   \* orders seen expired and untouched by a reconciliation
  faults

paymentVars == <<creator, delivery, handed, inspected, faults>>
requestVars == <<creator, handed, inspected>>

NoDelivery == [at |-> "idle", event |-> NoEvent, contribution |-> 0]
Resting == [at |-> "idle", contribution |-> 0]

PaymentTypeOK ==
  /\ creator \in [Creators -> [at : {"idle", "begin", "order", "resume"},
                               contribution : Contributions \cup {0}]]
  /\ delivery \in [Deliveries -> [at : {"idle", "find", "complete", "review", "review_late"},
                                  event : Events \cup {NoEvent},
                                  contribution : Contributions \cup {0}]]
  /\ handed \subseteq Contributions
  /\ inspected \subseteq Contributions
  /\ faults \in 0..MaxFaults

PaymentInit ==
  /\ creator = [w \in Creators |-> Resting]
  /\ delivery = [v \in Deliveries |-> NoDelivery]
  /\ handed = {}
  /\ inspected = {}
  /\ faults = 0

Fault == faults < MaxFaults /\ faults' = faults + 1

-----------------------------------------------------------------------------
(* A request for a checkout. *)

CreatorAt(w, place) == creator[w].at = place
Proceed(w, place, c) ==
  creator' = [creator EXCEPT ![w] = [at |-> place, contribution |-> c]]
Rest(w) == creator' = [creator EXCEPT ![w] = Resting]

\* initiate_razorpay_contribution: resume the reserved checkout, or reserve.
InitiateContribution(w) ==
  /\ CreatorAt(w, "idle")
  /\ \/ \E c \in Contributions :
          /\ Resumable(c)
          /\ Proceed(w, "begin", c)
          /\ UNCHANGED rowVars
     \/ \E c \in Contributions, p \in CurrentPeriods :
          /\ ~\E d \in InState({"RESERVED"}) :
                row[d].status = "PENDING" /\ row[d].channel = "RAZORPAY"
          /\ PayableExcept(0)
          /\ NewContribution(c)
          /\ Reserve(c, p)
          /\ Proceed(w, "begin", c)
  /\ UNCHANGED <<now, scheduleVars, event, moneyVars, recovered, delivery, handed,
                 inspected, faults>>

\* The intent recorded again for a request that is already under way.
BeginOrderRequestAgain(w) ==
  /\ CreatorAt(w, "begin")
  /\ LET c == creator[w].contribution IN
       /\ ~closing
       /\ IF row[c].ordered
            THEN Proceed(w, "resume", c) /\ UNCHANGED decisions
            ELSE /\ row[c].status = "PENDING"
                 /\ State(c) \in {"RESERVED", "ORDERING"}
                 /\ now < claim[c].expires
                 /\ AppendDecision(c, Plain("ORDERING", "PROVIDER_ORDER_REQUEST_STARTED"))
                 /\ Proceed(w, "order", c)
  /\ UNCHANGED <<now, row, claim, scheduleVars, event, moneyVars, recovered,
                 delivery, handed, inspected, faults>>

\* begin_instalment_order_request: the intent is durable before any call.
BeginOrderRequest(w) ==
  /\ CreatorAt(w, "begin")
  /\ LET c == creator[w].contribution IN
       /\ ~closing
       /\ IF row[c].ordered
            THEN Proceed(w, "resume", c) /\ UNCHANGED decisions
            ELSE /\ row[c].status = "PENDING"
                 /\ State(c) = "RESERVED"
                 /\ now < claim[c].expires
                 /\ AppendDecision(c, Plain("ORDERING", "PROVIDER_ORDER_REQUEST_STARTED"))
                 /\ Proceed(w, "order", c)
  /\ UNCHANGED <<now, row, claim, scheduleVars, event, moneyVars, recovered,
                 delivery, handed, inspected, faults>>

\* The order transaction without its second look at the agreement.
StillOrdering(c) == now < claim[c].expires /\ State(c) = "ORDERING"

\* The order transaction looks again at everything that may have changed.
StillPayable(c) == PayableExcept(c) /\ now < claim[c].expires /\ State(c) = "ORDERING"

ProviderCreates(c) == orders' = [orders EXCEPT ![c] = @ + 1]

\* The provider answers, and order and claim are recorded together.
OrderCreated(w) ==
  /\ CreatorAt(w, "order")
  /\ LET c == creator[w].contribution IN
       /\ StillPayable(c)
       /\ ~row[c].ordered
       /\ ProviderCreates(c)
       /\ row' = [row EXCEPT ![c].ordered = TRUE]
       /\ AppendDecision(c, Plain("RESERVED", "PROVIDER_ORDER_RECORDED"))
       /\ handed' = handed \cup {c}
  /\ Rest(w)
  /\ UNCHANGED <<now, claim, scheduleVars, event, captured_at, paid_order, recovered,
                 delivery, inspected, faults>>

\* The call fails or its answer is lost: FAILED is recorded, the claim stays
\* ORDERING, and the provider may have created the order all the same.
OrderFails(w) ==
  /\ CreatorAt(w, "order")
  /\ Fault
  /\ LET c == creator[w].contribution IN
       /\ StillPayable(c)
       /\ ~row[c].ordered
       /\ ProviderCreates(c) \/ UNCHANGED orders
       /\ row' = [row EXCEPT ![c].status = "FAILED"]
  /\ Rest(w)
  /\ UNCHANGED <<now, claim, decisions, scheduleVars, event, captured_at, paid_order,
                 recovered, delivery, handed, inspected>>

\* The process dies during the call and the transaction is rolled back.
OrderCrashes(w) ==
  /\ CreatorAt(w, "order")
  /\ Fault
  /\ StillPayable(creator[w].contribution)
  /\ ProviderCreates(creator[w].contribution)
  /\ Rest(w)
  /\ UNCHANGED <<now, rowVars, scheduleVars, event, captured_at, paid_order, recovered,
                 delivery, handed, inspected>>

\* A recorded order is handed out again only while it may still be paid.
ResumeCheckout(w) ==
  /\ CreatorAt(w, "resume")
  /\ Resumable(creator[w].contribution)
  /\ handed' = handed \cup {creator[w].contribution}
  /\ Rest(w)
  /\ UNCHANGED <<now, rowVars, scheduleVars, event, moneyVars, recovered, delivery,
                 inspected, faults>>

\* A request is refused, or dies between two transactions.
CreatorStops(w) ==
  /\ ~CreatorAt(w, "idle")
  /\ Rest(w)
  /\ UNCHANGED <<now, rowVars, scheduleVars, event, moneyVars, recovered, delivery, handed,
                 inspected, faults>>

-----------------------------------------------------------------------------
(* The provider (external): a payment may be made on any order it knows, *)
(* and captured at any later time. *)

Pay(p) ==
  /\ paid_order[p] = 0
  /\ \E c \in Contributions : orders[c] > 0 /\ paid_order' = [paid_order EXCEPT ![p] = c]
  /\ UNCHANGED <<now, rowVars, scheduleVars, event, captured_at, orders, recovered, paymentVars>>

Capture(p) ==
  /\ paid_order[p] # 0 /\ captured_at[p] < 0
  /\ captured_at' = [captured_at EXCEPT ![p] = now]
  /\ UNCHANGED <<now, rowVars, scheduleVars, event, paid_order, orders, recovered, paymentVars>>

CapturedFor(p, c) == captured_at[p] >= 0 /\ paid_order[p] = c /\ row[c].ordered

-----------------------------------------------------------------------------
(* Timing evidence. *)

\* _timing_state without the deadline: any payment inside the period counts.
TimingWithinPeriod(c, e) ==
  CASE ~event[e].timed -> Decision("REVIEW", "MISSING_PROVIDER_TIMING", e)
    [] event[e].timed /\ ~Within(claim[c].period, captured_at[event[e].payment]) ->
         Decision("REVIEW", "PERIOD_BOUNDARY_REVIEW", e)
    [] OTHER -> Decision("QUALIFIED", "VERIFIED_WITHIN_PERIOD", e)

\* _timing_state: when the money was captured decides, never when we heard of it.
TimingState(c, e) ==
  CASE ~event[e].timed -> Decision("REVIEW", "MISSING_PROVIDER_TIMING", e)
    [] event[e].timed /\ ~Within(claim[c].period, captured_at[event[e].payment]) ->
         Decision("REVIEW", "PERIOD_BOUNDARY_REVIEW", e)
    [] event[e].timed /\ Within(claim[c].period, captured_at[event[e].payment])
         /\ captured_at[event[e].payment] >= claim[c].expires ->
         Decision("REVIEW", "CHECKOUT_DEADLINE_REVIEW", e)
    [] OTHER -> Decision("QUALIFIED", "VERIFIED_WITHIN_PERIOD", e)

\* attribute_razorpay_instalment, given the decisions d so far: a review that
\* is open stays open, and evidence is used once.
Attributed(d, c, e) ==
  LET t == TimingState(c, e)
  IN  IF \E i \in 1..Len(d) : d[i].event = e THEN d
      ELSE IF d[Len(d)].state = "REVIEW" /\ t.state = "QUALIFIED"
        THEN Append(d, Decision("REVIEW", "PRIOR_REVIEW_UNRESOLVED", e))
        ELSE Append(d, t)
Attributable(d) == d[Len(d)].state \in {"RESERVED", "AWAITING", "REVIEW", "QUALIFIED"}

\* note_verified_instalment: funds are proved, the period is not.
Noted(d) == IF d[Len(d)].state = "RESERVED"
              THEN Append(d, Plain("AWAITING", "VERIFIED_TIMING_PENDING")) ELSE d
Notable(d) == d[Len(d)].state \in {"RESERVED", "AWAITING", "QUALIFIED", "REVIEW"}

Confirmed(c, p) == row[c].status \in Successful /\ row[c].payment = p

\* confirm_contribution and its entitlement in one transaction.
ConfirmRow(c, p) ==
  \/ /\ row[c].status = "PENDING"
     /\ Notable(decisions[c])
     /\ \E s \in Successful :
          row' = [row EXCEPT ![c].status = s, ![c].payment = p]
  \/ /\ Confirmed(c, p)
     /\ Notable(decisions[c])
     /\ UNCHANGED row

Confirmable(c, p) == row[c].status = "PENDING" \/ Confirmed(c, p)

-----------------------------------------------------------------------------
(* The webhook. *)

DeliveryAt(v, place) == delivery[v].at = place
Deliver(v, place, e, c) ==
  delivery' = [delivery EXCEPT ![v] = [at |-> place, event |-> e, contribution |-> c]]
EndDelivery(v) == delivery' = [delivery EXCEPT ![v] = NoDelivery]

\* The event is written with an outcome and an attempt, and answered with 200.
Conclude(e, outcome, c) ==
  event' = [event EXCEPT ![e].status = outcome, ![e].contribution = c,
                         ![e].attempts = @ \cup {outcome}, ![e].answered = TRUE]

\* The first delivery of a captured payment's event; it may lack its timing.
FirstDelivery(v, e) ==
  /\ DeliveryAt(v, "idle")
  /\ event[e].status = "none"
  /\ \E p \in Payments, t \in BOOLEAN :
       /\ captured_at[p] >= 0
       /\ event' = [event EXCEPT ![e] = [Unheard EXCEPT !.status = "RECEIVED",
                                           !.payment = p, !.timed = t]]
  /\ Deliver(v, "find", e, 0)
  /\ UNCHANGED <<now, rowVars, scheduleVars, moneyVars, recovered, requestVars, faults>>

\* Any later delivery of an event that is not final runs again, whether or not
\* an earlier one is still running; it loads the row as it is now.
RepeatedDelivery(v, e) ==
  /\ DeliveryAt(v, "idle")
  /\ event[e].status = "RECEIVED"
  /\ Deliver(v, "find", e, event[e].contribution)
  /\ UNCHANGED <<now, rowVars, scheduleVars, event, moneyVars, recovered, requestVars, faults>>

\* A delivery of a final event is only acknowledged; one that the owner
\* processed meanwhile is supplied with its original timing.
FinalDelivery(e) ==
  /\ \/ /\ event[e].status = "PROCESSED"
        /\ LET c == event[e].contribution IN
             /\ Attributable(decisions[c])
             /\ decisions' = [decisions EXCEPT ![c] = Attributed(@, c, e)]
     \/ /\ event[e].status = "REVIEW_REQUIRED"
        /\ UNCHANGED decisions
  /\ event' = [event EXCEPT ![e].answered = TRUE]
  /\ UNCHANGED <<now, row, claim, scheduleVars, moneyVars, recovered, paymentVars>>

\* Where a delivery goes once its row is known: a late capture is never confirmed.
Refused(c) == IF row[c].status = "ABANDONED" THEN "review_late" ELSE "review"

\* Identifiers are kept, the row is looked up by its stored order, and its
\* status is read without a lock.
FindContribution(v) ==
  /\ DeliveryAt(v, "find")
  /\ LET e == delivery[v].event
         p == event[e].payment
     IN \/ \E c \in Rows :
             /\ CapturedFor(p, c)
             /\ event' = [event EXCEPT ![e].identified = TRUE, ![e].contribution = c]
             /\ Deliver(v, IF row[c].status = "ABANDONED" THEN "review_late" ELSE "complete",
                        e, c)
        \/ /\ \A c \in Rows : ~CapturedFor(p, c)
           /\ event' = [event EXCEPT ![e].identified = TRUE]
           /\ Deliver(v, "review", e, delivery[v].contribution)
  /\ UNCHANGED <<now, rowVars, scheduleVars, moneyVars, recovered, requestVars, faults>>

\* _complete_captured_webhook: funds and timing commit together; a refusal is
\* told apart by the row's status as it is by then.
CompleteCapture(v) ==
  /\ DeliveryAt(v, "complete")
  /\ LET e == delivery[v].event
         c == delivery[v].contribution
         p == event[e].payment
     IN \/ /\ ConfirmRow(c, p)
           /\ decisions' = [decisions EXCEPT ![c] = Attributed(Noted(@), c, e)]
           /\ Conclude(e, "PROCESSED", c)
           /\ EndDelivery(v)
        \/ /\ ~Confirmable(c, p)
           /\ Deliver(v, Refused(c), e, c)
           /\ UNCHANGED <<row, decisions, event>>
  /\ UNCHANGED <<now, claim, scheduleVars, moneyVars, recovered, requestVars, faults>>

\* A late capture that reopens its released claim.
RequireReviewReopening(v) ==
  /\ delivery[v].at \in {"review", "review_late"}
  /\ LET e == delivery[v].event
         c == delivery[v].contribution
     IN /\ Conclude(e, "REVIEW_REQUIRED", c)
        /\ IF DeliveryAt(v, "review_late")
             THEN AppendDecision(c, Decision("REVIEW", "LATE_CAPTURE_AFTER_RELEASE", e))
             ELSE UNCHANGED decisions
  /\ EndDelivery(v)
  /\ UNCHANGED <<now, row, claim, scheduleVars, moneyVars, recovered, requestVars, faults>>

\* A mismatch is accepted for the owner, the event written as this delivery
\* knows it; a late capture marks its released claim
\* (note_late_instalment_capture), in the same transaction.
RequireReview(v) ==
  /\ delivery[v].at \in {"review", "review_late"}
  /\ LET e == delivery[v].event
         c == delivery[v].contribution
     IN /\ Conclude(e, "REVIEW_REQUIRED", c)
        /\ IF DeliveryAt(v, "review_late") /\ e \notin EvidenceOf(c)
             THEN AppendDecision(c, Decision("RELEASED_REVIEW", "LATE_CAPTURE_AFTER_RELEASE", e))
             ELSE UNCHANGED decisions
  /\ EndDelivery(v)
  /\ UNCHANGED <<now, row, claim, scheduleVars, moneyVars, recovered, requestVars, faults>>

\* A failure that is answered as if the delivery had been handled.
DeliveryFailsAnswering200(v) ==
  /\ delivery[v].at \in {"find", "complete"}
  /\ Fault
  /\ event' = [event EXCEPT ![delivery[v].event].status = "RECEIVED",
                             ![delivery[v].event].identified = TRUE,
                             ![delivery[v].event].contribution = delivery[v].contribution,
                             ![delivery[v].event].answered = TRUE]
  /\ EndDelivery(v)
  /\ UNCHANGED <<now, rowVars, scheduleVars, moneyVars, recovered, requestVars>>

\* The handler of an unexpected error writes the event back as this delivery
\* knows it, without reading the row again, and asks for a retry.
DeliveryFails(v) ==
  /\ delivery[v].at \in {"find", "complete"}
  /\ Fault
  /\ event' = [event EXCEPT ![delivery[v].event].status = "RECEIVED",
                             ![delivery[v].event].identified = TRUE,
                             ![delivery[v].event].contribution = delivery[v].contribution]
  /\ EndDelivery(v)
  /\ UNCHANGED <<now, rowVars, scheduleVars, moneyVars, recovered, requestVars>>

\* Its process dies, or the transaction of its review fails: nothing is written.
DeliveryDies(v) ==
  /\ ~DeliveryAt(v, "idle")
  /\ Fault
  /\ EndDelivery(v)
  /\ UNCHANGED <<now, rowVars, scheduleVars, event, moneyVars, recovered, requestVars>>

\* confirm_razorpay_contribution: the browser's report, verified at the provider.
Callback(c, p) ==
  /\ CapturedFor(p, c)
  /\ ConfirmRow(c, p)
  /\ decisions' = [decisions EXCEPT ![c] = Noted(@)]
  /\ UNCHANGED <<now, claim, scheduleVars, event, moneyVars, recovered, paymentVars>>

\* reconcile_razorpay_webhook, applied by the owner under the agreement lock.
OwnerRecovers(e) ==
  /\ event[e].identified
  /\ \E c \in Rows :
       /\ CapturedFor(event[e].payment, c)
       /\ ConfirmRow(c, event[e].payment)
       /\ decisions' = [decisions EXCEPT ![c] = IF row[c].status = "PENDING"
                                                  THEN Noted(@) ELSE @]
       /\ event' = [event EXCEPT ![e].status = "PROCESSED", ![e].contribution = c,
                                 ![e].attempts = @ \cup {"PROCESSED"}]
  /\ UNCHANGED <<now, claim, scheduleVars, moneyVars, recovered, paymentVars>>

-----------------------------------------------------------------------------
(* Release of an untouched order. *)

InspectOrder(c) ==
  /\ row[c].status = "PENDING" /\ row[c].ordered
  /\ now >= claim[c].expires
  /\ \A p \in Payments : paid_order[p] # c
  /\ inspected' = inspected \cup {c}
  /\ UNCHANGED <<ledgerVars, creator, delivery, handed, faults>>

\* A release that writes the claim's state into the row.
ReleaseMislabelled(c) ==
  /\ c \in inspected
  /\ row[c].status = "PENDING"
  /\ row' = [row EXCEPT ![c].status = "RELEASED"]
  /\ AppendDecision(c, Plain("RELEASED", "UNTOUCHED_ORDER_RECONCILED"))
  /\ UNCHANGED <<now, claim, scheduleVars, event, moneyVars, recovered, paymentVars>>

\* reconcile_abandoned_razorpay_contribution and release_reconciled_instalment.
ReleaseClaim(c) ==
  /\ c \in inspected
  /\ row[c].status = "PENDING"
  /\ State(c) = "RESERVED"
  /\ row' = [row EXCEPT ![c].status = "ABANDONED"]
  /\ AppendDecision(c, Plain("RELEASED", "UNTOUCHED_ORDER_RECONCILED"))
  /\ UNCHANGED <<now, claim, scheduleVars, event, moneyVars, recovered, paymentVars>>

-----------------------------------------------------------------------------
PaymentStep ==
  \/ \E w \in Creators :
       \/ InitiateContribution(w) \/ BeginOrderRequest(w)
       \/ OrderCreated(w) \/ OrderFails(w) \/ OrderCrashes(w)
       \/ ResumeCheckout(w) \/ CreatorStops(w)
  \/ \E p \in Payments : Pay(p) \/ Capture(p)
  \/ \E v \in Deliveries :
       \/ \E e \in Events : FirstDelivery(v, e) \/ RepeatedDelivery(v, e)
       \/ FindContribution(v) \/ CompleteCapture(v) \/ RequireReview(v)
       \/ DeliveryFails(v) \/ DeliveryDies(v)
  \/ \E e \in Events : FinalDelivery(e) \/ OwnerRecovers(e)
  \/ \E c \in Contributions :
       \/ InspectOrder(c) \/ ReleaseClaim(c)
       \/ \E p \in Payments : Callback(c, p)
=============================================================================
