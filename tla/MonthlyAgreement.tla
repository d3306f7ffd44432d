--------------------------- MODULE MonthlyAgreement ---------------------------
(***************************************************************************)
(* A monthly agreement as a whole: what the owner decides about it -       *)
(* acceptance of later timing evidence and outage holds                    *)
(* (instalment_reviews.py), resolution of a hold (instalment_outages.py)   *)
(* and binding of an order whose answer was lost                           *)
(* (instalment_order_recovery.py) - and what its ledger, its online        *)
(* payments and these decisions promise together.                          *)
(***************************************************************************)
EXTENDS InstalmentPayments

VARIABLE form  \* the review the owner has open: what it was rendered with

NoForm == [contribution |-> 0, event |-> NoEvent, sequence |-> 0]

OwnerTypeOK ==
  form \in [contribution : Contributions \cup {0}, event : Events \cup {NoEvent},
            sequence : Nat]

OwnerInit == form = NoForm

\* The owner opens the payment's evidence.
OpenReview ==
  /\ form = NoForm
  /\ \E c \in InState({"REVIEW", "AWAITING"}), e \in Events :
       /\ e \in EvidenceOf(c)
       /\ form' = [contribution |-> c, event |-> e, sequence |-> Len(decisions[c])]
  /\ UNCHANGED <<ledgerVars, paymentVars>>

\* verified_timing_source: only missing timing may be cured, never a conflict.
VerifiedTimingSource(c, e) ==
  /\ row[c].status \in Successful
  /\ row[c].channel = "RAZORPAY"
  /\ event[e].status = "PROCESSED"
  /\ event[e].contribution = c
  /\ event[e].payment = row[c].payment
  /\ \A i \in 1..Len(decisions[c]) :
       decisions[c][i].state = "REVIEW" =>
         decisions[c][i].code \in {"MISSING_PROVIDER_TIMING", "PRIOR_REVIEW_UNRESOLVED"}
  /\ TimingState(c, e).state = "QUALIFIED"

\* record_instalment_review, ACCEPT_TIMING.
AcceptTiming ==
  /\ form # NoForm
  /\ LET c == form.contribution
         e == form.event
     IN /\ form.sequence = Len(decisions[c])
        /\ CaptureExceptions = {}
        /\ State(c) \in {"REVIEW", "AWAITING"}
        /\ VerifiedTimingSource(c, e)
        /\ AppendDecision(c, Plain("QUALIFIED", "OWNER_VERIFIED_TIMING"))
  /\ form' = NoForm
  /\ UNCHANGED <<now, row, claim, scheduleVars, event, moneyVars, recovered, paymentVars>>

DiscardReview ==
  /\ form # NoForm
  /\ form' = NoForm
  /\ UNCHANGED <<ledgerVars, paymentVars>>

\* record_instalment_review, OUTAGE_HOLD.
OutageHold(p) ==
  /\ p \in Scheduled
  /\ StartsOn(p) <= now
  /\ hold[p] # "open"
  /\ hold' = [hold EXCEPT ![p] = "open"]
  /\ UNCHANGED <<now, rowVars, compensated, closing, event, moneyVars, recovered,
                 paymentVars, form>>

\* Reconciled by the rows alone, the claims' timing left open.
RowsReconciled ==
  /\ \A c \in Rows : row[c].status \notin {"PENDING", "PAID_UNALLOCATED"}
  /\ CaptureExceptions = {}

\* require_reconciled_outage_payments: no money is on its way.
Reconciled ==
  /\ Claimed = InState({"QUALIFIED"} \cup Freed)
  /\ \A c \in Rows : row[c].status \notin {"PENDING", "PAID_UNALLOCATED"}
  /\ CaptureExceptions = {}

PaidPeriods == {claim[c].period : c \in Qualified}

\* resolve_instalment_outage: one outcome, and for COMPENSATE one month more.
ResolveOutage(p, outcome) ==
  /\ hold[p] = "open"
  /\ Reconciled
  /\ \/ /\ outcome = "COMPENSATE"
        /\ now >= EndsBefore(p) /\ p \notin PaidPeriods
        /\ Cardinality(Qualified) < Required
        /\ \A i \in 1..Len(compensated) : compensated[i] # p
        /\ Len(compensated) < MaxExtra
        /\ now < StartsOn(BasePeriods + Len(compensated) + 1)
        /\ compensated' = Append(compensated, p)
     \/ /\ outcome = "RESTORED"
        /\ Within(p, now) /\ p \notin PaidPeriods
        /\ UNCHANGED compensated
     \/ /\ outcome = "QUALIFIED"
        /\ p \in PaidPeriods
        /\ UNCHANGED compensated
  /\ hold' = [hold EXCEPT ![p] = outcome]
  /\ UNCHANGED <<now, rowVars, closing, event, moneyVars, recovered, paymentVars, form>>

\* An order that is bound without the decision that says so.
RecoverOrderSilently(c) ==
  /\ c \in InState({"ORDERING"})
  /\ row[c].status \in {"PENDING", "FAILED"}
  /\ ~row[c].ordered
  /\ orders[c] > 0
  /\ row' = [row EXCEPT ![c].ordered = TRUE, ![c].status = "PENDING"]
  /\ recovered' = recovered \cup {c}
  /\ UNCHANGED <<now, claim, decisions, scheduleVars, event, moneyVars, paymentVars, form>>

\* recover_instalment_order: bind the order the provider created for the
\* intent, when its answer never arrived.
RecoverOrder(c) ==
  /\ c \in InState({"ORDERING"})
  /\ row[c].status \in {"PENDING", "FAILED"}
  /\ ~row[c].ordered
  /\ orders[c] > 0
  /\ row' = [row EXCEPT ![c].ordered = TRUE, ![c].status = "PENDING"]
  /\ AppendDecision(c, Plain("RESERVED", "PROVIDER_ORDER_RECOVERED"))
  /\ recovered' = recovered \cup {c}
  /\ UNCHANGED <<now, claim, scheduleVars, event, moneyVars, paymentVars, form>>

OwnerStep ==
  \/ OpenReview \/ AcceptTiming \/ DiscardReview
  \/ \E p \in Periods :
       \/ OutageHold(p)
       \/ \E o \in {"COMPENSATE", "RESTORED", "QUALIFIED"} : ResolveOutage(p, o)
  \/ \E c \in Contributions : RecoverOrder(c)

-----------------------------------------------------------------------------
vars == <<ledgerVars, paymentVars, form>>

Init == LedgerInit /\ PaymentInit /\ OwnerInit

Next ==
  \/ LedgerStep /\ UNCHANGED <<paymentVars, form>>
  \/ PaymentStep /\ UNCHANGED form
  \/ OwnerStep

Spec == Init /\ [][Next]_vars

-----------------------------------------------------------------------------
\* The type of every variable.
TypeOK == LedgerTypeOK /\ PaymentTypeOK /\ OwnerTypeOK

\* However requests, receipts, releases and reviews interleave, the customer
\* never has two checkouts under way (reserve_instalment's exclusive claim).
OneCheckoutAtATime == Cardinality(InState({"RESERVED", "ORDERING"})) <= 1

\* A month is claimed by one payment at most, over both channels and through
\* releases, late captures, reversals and accepted reviews.
OneClaimPerPeriod ==
  \A c, d \in Claimed :
    /\ claim[c].period = claim[d].period
    /\ State(c) \notin Freed \cup {"RELEASED_REVIEW"}
    /\ State(d) \notin Freed \cup {"RELEASED_REVIEW"}
    => c = d

\* No order of late evidence, corrections and compensating months takes more
\* money for the schedule than its required count.
NeverMoreThanRequired ==
  Cardinality(InState({"RESERVED", "ORDERING", "AWAITING", "REVIEW", "QUALIFIED"}))
    <= Required

\* A month counts only for money that came within it and, online, before the
\* checkout's deadline, whatever path qualified it and however late the news.
QualifiedIsTimely ==
  \A c \in Qualified :
    IF row[c].channel = "IN_STORE_CASH"
      THEN Within(claim[c].period, row[c].created)
      ELSE /\ row[c].payment # NoPayment
           /\ Within(claim[c].period, captured_at[row[c].payment])
           /\ captured_at[row[c].payment] < claim[c].expires

\* A month that was compensated is never credited as well.
CompensatedStaysMissed ==
  \A i \in 1..Len(compensated) :
    /\ compensated[i] \notin {claim[c].period : c \in Claimed \ InState(Freed \cup {"RELEASED_REVIEW"})}
    /\ \A j \in 1..Len(compensated) : compensated[i] = compensated[j] => i = j

\* The schedule of an agreement holds through every interleaving of requests,
\* receipts, late evidence, releases, reversals, holds and compensations: one
\* checkout under way, one claim on a month, no more claims than the required
\* count, no month credited for untimely money or beside its compensation.
ScheduleIsHonoured ==
  /\ OneCheckoutAtATime /\ OneClaimPerPeriod /\ NeverMoreThanRequired
  /\ QualifiedIsTimely /\ CompensatedStaysMissed

\* The outcome of the delivery that a decision with evidence was made from.
OutcomeFor(d) == IF d.state = "RELEASED_REVIEW" THEN "REVIEW_REQUIRED" ELSE "PROCESSED"

\* Evidence is judged by the event's payment and by the attempts kept of it. Its
\* status, which the code's audit reads, a failing delivery of the same event may
\* take back at any time (services.py:2132).
Agrees(c) ==
  /\ decisions[c][1].state = "RESERVED"
  /\ State(c) \in {"QUALIFIED", "AWAITING"} => row[c].status \in Successful
  /\ State(c) = "ORDERING" => row[c].status \in {"PENDING", "FAILED"} /\ ~row[c].ordered
  /\ State(c) \in {"RELEASED", "RELEASED_REVIEW"} => row[c].status = "ABANDONED"
  /\ State(c) = "REVERSED" <=> row[c].status = "REVERSED"
  /\ \A i \in 1..Len(decisions[c]) :
       LET d == decisions[c][i] IN
         /\ d.state = "REVERSED" => i = Len(decisions[c])
         /\ d.event # NoEvent =>
              /\ paid_order[event[d.event].payment] = c
              /\ OutcomeFor(d) \in event[d.event].attempts
              /\ d.state # "RELEASED_REVIEW" => event[d.event].payment = row[c].payment

\* Rows, claims and evidence agree after every interleaving of requests,
\* overlapping deliveries and failures, as the code's own audit asks
\* (instalment_payment_ledger_summary): an unbroken history for every row, and
\* no decision without an attempt and a payment that bear it out.
LedgerHasIntegrity == TypeOK /\ Rows = Claimed /\ \A c \in Claimed : Agrees(c)

\* Money whose delivery was answered for good is credited, or its acceptance for
\* review is on record and it waits in the owner's queue
\* (unresolved_instalment_captures), whatever overlapping deliveries of the same
\* event write after the answer.
AnsweredIsAccountedFor ==
  \A e \in Events :
    event[e].answered =>
      LET p == event[e].payment IN
        \/ paid_order[p] \in Rows /\ Confirmed(paid_order[p], p)
        \/ /\ "REVIEW_REQUIRED" \in event[e].attempts
           /\ paid_order[p] \in Rows /\ row[paid_order[p]].ordered => CaptureException(e)

\* The provider is asked for one order at most for a claim, through lost
\* answers, crashes, resumed checkouts and recoveries, and for none once the
\* agreement is held, closing, paid up, or has a capture that nobody decided,
\* even if the request began before that (begin_instalment_order_request).
NoOrderWhileBlocked ==
  [][\A c \in Contributions :
       orders'[c] # orders[c] =>
         /\ orders[c] = 0
         /\ OpenHolds = {} /\ ~closing /\ CaptureExceptions = {}
         /\ Cardinality(Qualified) < Required]_vars

\* A decision is never rewritten, a reversed claim is final and a released one
\* never counts again.
ClaimsAreFinal ==
  [][\A c \in Contributions :
       /\ Len(decisions[c]) <= Len(decisions'[c])
       /\ SubSeq(decisions'[c], 1, Len(decisions[c])) = decisions[c]
       /\ c \in InState({"REVERSED"}) => decisions'[c] = decisions[c]
       /\ c \in InState({"RELEASED", "RELEASED_REVIEW"}) =>
            State(c)' \in {"RELEASED", "RELEASED_REVIEW"}]_vars
=============================================================================
