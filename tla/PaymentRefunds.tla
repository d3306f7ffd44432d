---------------------------- MODULE PaymentRefunds ----------------------------
(***************************************************************************)
(* Captured payments of an independent agreement and their refunds: the    *)
(* confirmation of a capture by webhook, callback or owner (services.py),  *)
(* the owner's inspections of a refunded payment, its resolution without   *)
(* credit (payment_refund_observations.py, payment_refund_resolutions.py)  *)
(* and the retirement of a fully refunded order (refunded_orders.py).      *)
(***************************************************************************)
EXTENDS OptionalOrders, Functions

RefundVarsExcept == <<delivery, observations, resolved, retired, desk>>

NothingSeen == [provider |-> "none", status |-> "none", of |-> 0, row |-> "none",
                payment |-> NoPayment, clear |-> FALSE]
NoWork == [at |-> "idle", event |-> 0, contribution |-> 0, seen |-> NothingSeen,
           review |-> NothingSeen, number |-> 0, payments |-> {}]

RefundInit ==
  /\ observations = [e \in Events |-> 0]
  /\ resolved = [p \in Payments |-> "none"]
  /\ retired = {}
  /\ desk = [d \in Desks |-> NoWork]

-----------------------------------------------------------------------------
(* Captures. *)

\* confirm_contribution without its look at the refund resolutions.
ConfirmableAnyway(c, p) == row[c].ordered /\ row[c].status = "PENDING"

\* confirm_contribution refuses a resolved payment, and any row but a pending one.
Confirmable(c, p) == resolved[p] = "none" /\ row[c].ordered /\ row[c].status = "PENDING"

Confirmed(c, p) == row[c].status \in Successful /\ row[c].payment = p

ConfirmRow(c, p) ==
  row' = [row EXCEPT ![c].status = "PAID_UNALLOCATED", ![c].payment = p]

\* confirm_contribution when the row has this payment already, or can take it.
ConfirmContribution(c, p) ==
  \/ Confirmed(c, p) /\ resolved[p] = "none" /\ UNCHANGED row
  \/ Confirmable(c, p) /\ ConfirmRow(c, p)

\* _apply_contribution_entitlement: the metal is allocated now or later.
ApplyEntitlement(c) ==
  IF row[c].status = "PAID_UNALLOCATED"
    THEN \E s \in Successful : row' = [row EXCEPT ![c].status = s]
    ELSE UNCHANGED row

OrderOf(e) == payment[event[e].payment].order
Captured(p) == payment[p].state \in {"captured", "partial"}
EverCaptured(p) == payment[p].state \in {"captured", "partial", "refunded"}
UnchangedButRow == UNCHANGED <<request, untouched, paused, creator, handed, orders, payment>>

\* A delivery is a request with its own copy of the event row, read at its start
\* and written back at its end over whatever the row holds by then.
DeliveryAt(v, place) == delivery[v].at = place
Deliver(v, place, e, c) ==
  delivery' = [delivery EXCEPT ![v] = [at |-> place, event |-> e, contribution |-> c]]
EndDelivery(v) == delivery' = [delivery EXCEPT ![v] = NoDelivery]

\* The event is written with an outcome and an attempt, and answered with 200.
Conclude(e, outcome, c) ==
  event' = [event EXCEPT ![e].status = outcome, ![e].contribution = c,
                         ![e].attempts = @ \cup {outcome}, ![e].answered = TRUE]

\* process_razorpay_webhook: the first delivery of an event stores it.
FirstDelivery(v, e) ==
  /\ DeliveryAt(v, "idle")
  /\ event[e].status = "none"
  /\ \E p \in Payments, b \in Bodies :
       /\ EverCaptured(p)
       /\ event' = [event EXCEPT ![e] = [Unheard EXCEPT !.status = "RECEIVED",
                                           !.payment = p, !.body = b]]
  /\ Deliver(v, "find", e, 0)
  /\ UNCHANGED <<orderVars, payment, faults, refundVars>>

\* Any later delivery of an event that is not final runs again, whether or not
\* an earlier one is still running; it loads the row as it is now.
RepeatedDelivery(v, e) ==
  /\ DeliveryAt(v, "idle")
  /\ event[e].status = "RECEIVED"
  /\ Deliver(v, "find", e, event[e].contribution)
  /\ UNCHANGED <<orderVars, payment, event, faults, refundVars>>

\* A delivery of a final event is only answered.
FinalDelivery(e) ==
  /\ event[e].status \in Outcomes
  /\ event' = [event EXCEPT ![e].answered = TRUE]
  /\ UNCHANGED <<orderVars, payment, faults, creditVars>>

\* The event is bound to its order's row, unless the order is unknown here, and
\* goes to the owner when the row is abandoned or the payment was resolved.
FindContribution(v) ==
  /\ DeliveryAt(v, "find")
  /\ LET e == delivery[v].event
         c == OrderOf(e)
     IN IF row[c].ordered
          THEN /\ event' = [event EXCEPT ![e].identified = TRUE, ![e].contribution = c]
               /\ Deliver(v, IF \/ row[c].status = "ABANDONED"
                                \/ resolved[event[e].payment] = event[e].body
                               THEN "review" ELSE "confirm", e, c)
          ELSE /\ event' = [event EXCEPT ![e].identified = TRUE]
               /\ Deliver(v, "review", e, delivery[v].contribution)
  /\ UNCHANGED <<orderVars, payment, faults, refundVars>>

\* _complete_captured_webhook: the confirmation commits first ...
ConfirmCapture(v) ==
  /\ DeliveryAt(v, "confirm")
  /\ LET e == delivery[v].event
         c == delivery[v].contribution
         p == event[e].payment
     IN \/ ConfirmContribution(c, p) /\ Deliver(v, "finish", e, c)
        \/ /\ ~Confirmable(c, p) /\ ~(Confirmed(c, p) /\ resolved[p] = "none")
           /\ Deliver(v, "review", e, c)
           /\ UNCHANGED row
  /\ UnchangedButRow /\ UNCHANGED <<event, faults, refundVars>>

\* ... then the entitlement, and the event is processed.
FinishCapture(v) ==
  /\ DeliveryAt(v, "finish")
  /\ ApplyEntitlement(delivery[v].contribution)
  /\ Conclude(delivery[v].event, "PROCESSED", delivery[v].contribution)
  /\ EndDelivery(v)
  /\ UnchangedButRow /\ UNCHANGED <<faults, refundVars>>

\* The event is accepted for the owner, written as this delivery knows it.
RequireReview(v) ==
  /\ DeliveryAt(v, "review")
  /\ Conclude(delivery[v].event, "REVIEW_REQUIRED", delivery[v].contribution)
  /\ EndDelivery(v)
  /\ UNCHANGED <<orderVars, payment, faults, refundVars>>

\* A failure that answered with 200 all the same.
DeliveryFailsAnswering200(v) ==
  /\ delivery[v].at \in {"find", "confirm", "finish"}
  /\ Fault
  /\ event' = [event EXCEPT ![delivery[v].event].status = "RECEIVED",
                            ![delivery[v].event].identified = TRUE,
                            ![delivery[v].event].contribution = delivery[v].contribution,
                            ![delivery[v].event].answered = TRUE]
  /\ EndDelivery(v)
  /\ UNCHANGED <<orderVars, payment, refundVars>>

\* The handler of an unexpected error writes the event back as this delivery
\* knows it, without reading the row again, and asks for a retry.
DeliveryFails(v) ==
  /\ delivery[v].at \in {"find", "confirm", "finish"}
  /\ Fault
  /\ event' = [event EXCEPT ![delivery[v].event].status = "RECEIVED",
                            ![delivery[v].event].identified = TRUE,
                            ![delivery[v].event].contribution = delivery[v].contribution]
  /\ EndDelivery(v)
  /\ UNCHANGED <<orderVars, payment, refundVars>>

\* Its process dies, or the transaction of its review fails: nothing is written.
DeliveryDies(v) ==
  /\ ~DeliveryAt(v, "idle")
  /\ Fault
  /\ EndDelivery(v)
  /\ UNCHANGED <<orderVars, payment, event, refundVars>>

\* confirm_razorpay_contribution: the browser's callback asks the provider ...
VerifyCallback(p) ==
  /\ Captured(p)
  /\ row[payment[p].order].ordered
  /\ row[payment[p].order].status = "PENDING"
  /\ verified' = verified \cup {<<p, "callback">>}
  /\ UNCHANGED <<orderVars, payment, event, faults, RefundVarsExcept>>

\* ... and the row is confirmed with what was verified.
ConfirmCallback(p) ==
  /\ <<p, "callback">> \in verified
  /\ ConfirmContribution(payment[p].order, p)
  /\ verified' = verified \ {<<p, "callback">>}
  /\ UnchangedButRow /\ UNCHANGED <<event, faults, RefundVarsExcept>>

\* reconcile_razorpay_webhook, in two steps: the payment is inspected ...
InspectCapture(e) ==
  /\ event[e].identified
  /\ row[OrderOf(e)].ordered
  /\ Captured(event[e].payment)
  /\ verified' = verified \cup {<<event[e].payment, e>>}
  /\ UNCHANGED <<orderVars, payment, event, faults, RefundVarsExcept>>

\* ... and classified again and recovered under the agreement's lock.
RecoverCapture(e) ==
  /\ <<event[e].payment, e>> \in verified
  /\ LET c == OrderOf(e) IN
       /\ event[e].contribution \in {0, c}
       /\ \/ /\ Confirmable(c, event[e].payment)
             /\ \E s \in Successful :
                  row' = [row EXCEPT ![c].status = s, ![c].payment = event[e].payment]
          \/ /\ Confirmed(c, event[e].payment)
             /\ ApplyEntitlement(c)
       /\ event' = [event EXCEPT ![e].status = "PROCESSED", ![e].contribution = c,
                                 ![e].attempts = @ \cup {"PROCESSED"}]
  /\ verified' = verified \ {<<event[e].payment, e>>}
  /\ UnchangedButRow /\ UNCHANGED <<faults, RefundVarsExcept>>

\* A callback or a recovery is refused, or its process dies.
VerificationStops ==
  /\ \E v \in verified : verified' = verified \ {v}
  /\ UNCHANGED <<orderVars, payment, event, faults, RefundVarsExcept>>

CaptureStep ==
  \/ \E v \in Deliveries :
       \/ \E e \in Events : FirstDelivery(v, e) \/ RepeatedDelivery(v, e)
       \/ FindContribution(v) \/ ConfirmCapture(v) \/ FinishCapture(v)
       \/ RequireReview(v) \/ DeliveryFails(v) \/ DeliveryDies(v)
  \/ \E e \in Events : FinalDelivery(e) \/ InspectCapture(e) \/ RecoverCapture(e)
  \/ \E p \in Payments : VerifyCallback(p) \/ ConfirmCallback(p)
  \/ VerificationStops

-----------------------------------------------------------------------------
(* The owner's inspection of a refund and its resolution without credit. *)

DeskAt(d, place) == desk[d].at = place
Work(d, w) == desk' = [desk EXCEPT ![d] = w]
DeskOnly == UNCHANGED <<orderVars, payment, event, delivery, faults, verified>>

\* _binding, _local_snapshot and _has_entitlement of an event's payment.
Bound(e) == event[e].identified /\ row[OrderOf(e)].ordered
Local(e) == [NothingSeen EXCEPT !.status = event[e].status, !.of = event[e].contribution,
               !.row = row[OrderOf(e)].status, !.payment = row[OrderOf(e)].payment]
LocalOf(seen) == [seen EXCEPT !.provider = "none", !.clear = FALSE]

\* inspect_payment_error_refund: the local facts, then the provider, no lock held.
InspectRefund(d, e) ==
  /\ \/ DeskAt(d, "idle")
     \/ DeskAt(d, "reviewed") /\ desk[d].event = e
  /\ Bound(e)
  /\ Work(d, [desk[d] EXCEPT !.at = IF @ = "idle" THEN "observing" ELSE "rechecking",
                 !.event = e,
                 !.seen = [Local(e) EXCEPT !.provider = payment[event[e].payment].state]])
  /\ DeskOnly /\ UNCHANGED <<observations, resolved, retired>>

\* The observation is recorded if the local facts are still those it began with.
RecordObservation(d) ==
  /\ DeskAt(d, "observing") \/ DeskAt(d, "rechecking")
  /\ LET e == desk[d].event IN
       /\ FoldFunction(+, 0, observations) < MaxObservations
       /\ Bound(e) /\ Local(e) = LocalOf(desk[d].seen)
       /\ observations' = [observations EXCEPT ![e] = @ + 1]
       /\ Work(d, [desk[d] EXCEPT !.at = IF @ = "observing" THEN "observed" ELSE "rechecked",
                      !.seen.clear = ~HasEntitlement(event[e].payment),
                      !.number = observations[e] + 1])
  /\ DeskOnly /\ UNCHANGED <<resolved, retired>>

\* _review: the latest observation, a full refund, and nothing changed or credited.
Reviewable(d) ==
  LET e == desk[d].event IN
    /\ desk[d].seen.provider = "refunded" /\ desk[d].seen.clear
    /\ observations[e] = desk[d].number
    /\ Bound(e) /\ Local(e) = LocalOf(desk[d].seen)
    /\ ~HasEntitlement(event[e].payment)

\* payment_refund_review_token: what was observed is signed for confirmation.
ReviewRefund(d) ==
  /\ DeskAt(d, "observed") /\ Reviewable(d)
  /\ Work(d, [desk[d] EXCEPT !.at = "reviewed", !.review = desk[d].seen])
  /\ DeskOnly /\ UNCHANGED <<observations, resolved, retired>>

\* resolve_payment_error_refund: the fresh observation is reviewed again under
\* the locks, and equals the one the owner confirmed.
ResolveRefund(d) ==
  /\ DeskAt(d, "rechecked")
  /\ Reviewable(d)
  /\ desk[d].seen = desk[d].review
  /\ LET e == desk[d].event IN
       /\ resolved[event[e].payment] = "none"
       /\ resolved' = [resolved EXCEPT ![event[e].payment] = event[e].body]
  /\ Work(d, NoWork)
  /\ DeskOnly /\ UNCHANGED <<observations, retired>>

-----------------------------------------------------------------------------
(* Retirement of an order whose every attempt failed or was refunded. *)

AttemptsOf(c) == {p \in Payments : payment[p].order = c}

\* _events, _require_no_event_hold, _source, _resolutions.
NoEventHold(c) ==
  \A e \in Events :
    /\ event[e].status \in {"RECEIVED", "REVIEW_REQUIRED"}
    /\ \/ event[e].contribution = c
       \/ event[e].identified /\ OrderOf(e) = c
    => ResolvedEvent(e)
NeverCredited(c) ==
  row[c].status \in {"PENDING", "ABANDONED"} /\ row[c].channel = "RAZORPAY"
  /\ row[c].ordered /\ row[c].payment = NoPayment
AllResolved(c, attempts) ==
  /\ \A p \in attempts : ~HasEntitlement(p)
  /\ \A p \in attempts : payment[p].state = "refunded" => resolved[p] # "none"

\* inspect_refunded_order that looks at one refunded attempt only.
SomeAttemptOver(c) == \E p \in AttemptsOf(c) : payment[p].state = "refunded"

\* inspect_refunded_order: paid, and every attempt failed or was refunded.
AllAttemptsOver(c) ==
  /\ \E p \in AttemptsOf(c) : payment[p].state = "refunded"
  /\ \A p \in AttemptsOf(c) : payment[p].state \in {"failed", "refunded"}

\* _inspect, twice: for the review's token and again when it is confirmed.
InspectOrder(d, c) ==
  /\ \/ DeskAt(d, "idle")
     \/ DeskAt(d, "orderReviewed") /\ desk[d].contribution = c
        /\ desk[d].seen.row = row[c].status /\ desk[d].payments = AttemptsOf(c)
  /\ c \in Contributions \ retired
  /\ NeverCredited(c) /\ NoEventHold(c)
  /\ AllAttemptsOver(c)
  /\ AllResolved(c, AttemptsOf(c))
  /\ Work(d, [NoWork EXCEPT !.at = IF DeskAt(d, "idle") THEN "orderReviewed" ELSE "orderRechecked",
                 !.contribution = c, !.seen.row = row[c].status, !.payments = AttemptsOf(c)])
  /\ DeskOnly /\ UNCHANGED <<observations, resolved, retired>>

\* retire_refunded_order: events, source and resolutions once more, under lock.
RetireOrder(d) ==
  /\ DeskAt(d, "orderRechecked")
  /\ LET c == desk[d].contribution IN
       /\ c \notin retired
       /\ NoEventHold(c)
       /\ NeverCredited(c) /\ desk[d].seen.row = row[c].status
       /\ AllResolved(c, desk[d].payments)
       /\ row' = [row EXCEPT ![c].status = "ABANDONED"]
       /\ retired' = retired \cup {c}
  /\ Work(d, NoWork)
  /\ UnchangedButRow /\ UNCHANGED <<event, delivery, verified, faults, observations, resolved>>

\* A review is dropped: refused, expired after REVIEW_SECONDS, or abandoned.
DropReview(d) ==
  /\ ~DeskAt(d, "idle")
  /\ Work(d, NoWork)
  /\ DeskOnly /\ UNCHANGED <<observations, resolved, retired>>

RefundStep ==
  \E d \in Desks :
    \/ \E e \in Events : InspectRefund(d, e)
    \/ \E c \in Contributions : InspectOrder(d, c)
    \/ RecordObservation(d) \/ ReviewRefund(d) \/ ResolveRefund(d)
    \/ RetireOrder(d) \/ DropReview(d)
=============================================================================
