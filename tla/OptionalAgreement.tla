-------------------------- MODULE OptionalAgreement --------------------------
(***************************************************************************)
(* An independent agreement with optional payments as a whole: checkouts,  *)
(* captures and refunds, and what they promise together.                   *)
(***************************************************************************)
EXTENDS PaymentRefunds

Init == OrderInit /\ RefundInit

Next == OrderStep \/ CaptureStep \/ RefundStep

Spec == Init /\ [][Next]_vars

-----------------------------------------------------------------------------
Seen == [provider : {"none", "created", "failed", "captured", "partial", "refunded"},
         status : {"none", "RECEIVED", "PROCESSED", "REVIEW_REQUIRED"},
         of : Contributions \cup {0}, row : {"none", "PENDING", "ABANDONED"} \cup Successful,
         payment : Payments \cup {NoPayment}, clear : BOOLEAN]

\* The type of every variable.
TypeOK ==
  /\ row \in [Contributions -> ContributionRow]
  /\ request \in [Contributions -> OrderRequest]
  /\ untouched \subseteq Contributions /\ handed \subseteq Contributions
  /\ paused \in BOOLEAN
  /\ creator \in [Creators -> [at : {"idle", "begin", "call", "bind", "admit"},
                               contribution : Contributions \cup {0}]]
  /\ orders \in [Contributions -> Nat]
  /\ payment \in [Payments -> ProviderPayment]
  /\ event \in [Events -> WebhookEvent]
  /\ delivery \in [Deliveries -> Delivery]
  /\ verified \subseteq Payments \X (Events \cup {"callback"})
  /\ faults \in 0..MaxFaults
  /\ observations \in [Events -> Nat]
  /\ resolved \in [Payments -> Bodies \cup {"none"}]
  /\ retired \subseteq Contributions
  /\ \A d \in Desks :
       /\ desk[d].at \in {"idle", "observing", "observed", "reviewed", "rechecking",
                          "rechecked", "orderReviewed", "orderRechecked"}
       /\ desk[d].seen \in Seen /\ desk[d].review \in Seen

\* What optional_order_summary counts as an error never happens: a request
\* without a binding has no order and is still pending, an order has its
\* request, and an abandoned order its evidence.
RequestsHaveIntegrity ==
  \A c \in Online :
    /\ request[c] = "unbound" => ~row[c].ordered /\ row[c].status = "PENDING"
    /\ request[c] \in {"answered", "recovered"} <=> row[c].ordered
    /\ row[c].status = "ABANDONED" => c \in untouched \cup retired

\* However requests, lost answers, recoveries, expiries and cash receipts
\* interleave, at most one optional checkout is outstanding, the provider made
\* one order at most for it (an uncertain request is never sent again,
\* begin_optional_order_request), and the audit finds nothing.
OneOutstandingCheckout ==
  /\ TypeOK
  /\ Cardinality(Pending) <= 1
  /\ \A c \in Contributions : orders[c] <= 1
  /\ RequestsHaveIntegrity

\* A payment that was resolved as refunded without credit was fully refunded
\* and is never credited, whatever callback, delivery or recovery was under
\* way at the time (require_payment_not_refund_resolved).
NeverCreditedAndResolved ==
  \A p \in Payments :
    resolved[p] # "none" => payment[p].state = "refunded" /\ ~HasEntitlement(p)

\* A retired order holds no money of the customer: every attempt on it failed
\* or was refunded and resolved, and its row was never credited.
RetiredOrderHasNoMoney ==
  \A c \in retired :
    /\ row[c].status = "ABANDONED" /\ row[c].payment = NoPayment
    /\ \A p \in AttemptsOf(c) :
         \/ payment[p].state = "failed"
         \/ payment[p].state = "refunded" /\ resolved[p] # "none"

\* Money whose delivery was answered for good is credited, or its acceptance for
\* review is on record and it waits for the owner or was resolved as refunded,
\* whatever overlapping deliveries of the same event write after the answer.
AnsweredIsAccountedFor ==
  \A e \in Events :
    event[e].answered =>
      \/ OrderOf(e) \in Rows /\ Confirmed(OrderOf(e), event[e].payment)
      \/ /\ "REVIEW_REQUIRED" \in event[e].attempts
         /\ OrderOf(e) \in Rows /\ row[OrderOf(e)].ordered => Unresolved(e) \/ ResolvedEvent(e)

\* A checkout is handed to the customer only while no delivered money of the
\* agreement is undecided and payments are open, even if the request began,
\* and its order was created, before that changed; never for an order that
\* had to be recovered. The answer bound to a request stays the only one: a
\* late answer never replaces a recovered order, nor a recovery an answered one.
HandedWhileClear ==
  [][/\ \A c \in handed' \ handed :
          /\ ~paused
          /\ \A e \in Events : ~Unresolved(e)
          /\ \A d \in Rows : row[d].status # "PAID_UNALLOCATED"
          /\ request[c] = "answered" /\ ~row[c].expired
     /\ \A c \in Contributions :
          request[c] \in {"answered", "recovered"} => request'[c] = request[c]]_vars
=============================================================================
