---------------------------- MODULE MetalAgreement ----------------------------
(***************************************************************************)
(* One legacy metal agreement: online checkout, the payment provider, the  *)
(* confirmation of captured payments and the showroom, running             *)
(* concurrently on the rows they share.                                    *)
(***************************************************************************)
EXTENDS Checkout, Showroom

vars == <<agreementVars, providerVars, checkoutVars, confirmationVars, showroomVars>>

TypeOK == /\ AgreementTypeOK
          /\ ProviderTypeOK
          /\ CheckoutTypeOK
          /\ ConfirmationTypeOK
          /\ ShowroomTypeOK

Init == /\ AgreementInit
        /\ ProviderInit
        /\ CheckoutInit
        /\ ConfirmationInit
        /\ ShowroomInit

Next ==
  \/ ClockStep /\ UNCHANGED <<providerVars, checkoutVars, confirmationVars, showroomVars>>
  \/ PaymentStep /\ UNCHANGED <<agreementVars, checkoutVars, confirmationVars, showroomVars>>
  \/ CheckoutStep /\ UNCHANGED <<confirmationVars, showroomVars>>
  \/ ConfirmationStep /\ UNCHANGED <<providerVars, checkoutVars, showroomVars>>
  \/ ShowroomStep /\ UNCHANGED <<providerVars, checkoutVars>>

Spec == Init /\ [][Next]_vars

(* What the code and its surroundings keep doing.  A web request that has     *)
(* started runs on: its process is not suspended for ever.  Razorpay delivers *)
(* an unanswered event again and again, so one that could be received over    *)
(* and over is received in the end, even if each request slot is busy at      *)
(* times.  Nothing is assumed of customers or of the owner.                   *)
RunsOn(w) == WorkerStep(w) /\ UNCHANGED <<providerVars, checkoutVars, showroomVars, owner_results>>

Delivered(p) == /\ \E w \in Workers : ReceiveWebhook(w, p)
                /\ UNCHANGED <<providerVars, checkoutVars, showroomVars, owner_results>>

FairSpec == /\ Spec
            /\ \A w \in Workers : WF_vars(RunsOn(w))
            /\ \A p \in Payments : SF_vars(Delivered(p))

-----------------------------------------------------------------------------
(* Safety. *)

Credited(p) == \E c \in Rows : reference[c] = p /\ status[c] \in Successful

\* PAY-030: an agreement has at most one unresolved online contribution.  The
\* database would refuse a second; no interleaving of the code gets that far.
OneUnresolvedCheckout ==
  \A c, d \in Rows :
    /\ channel[c] = "RAZORPAY" /\ status[c] \in {"PENDING", "PAID_UNALLOCATED"}
    /\ channel[d] = "RAZORPAY" /\ status[d] \in {"PENDING", "PAID_UNALLOCATED"}
    => c = d

\* A once-per-month agreement never holds two successful contributions for the
\* same accounting month, online or cash, though a payment may be confirmed
\* months after its checkout and a cash receipt may be corrected and replaced.
OneSuccessPerMonth ==
  OncePerMonth =>
    \A c, d \in Rows : /\ status[c] \in Successful /\ status[d] \in Successful
                       /\ period[c] = period[d]
                       => c = d

\* PAY-024: the monthly rule never refuses money that was honestly received:
\* while an online contribution waits for its payment, neither another checkout
\* nor a cash receipt can take its month, so a capture that arrives months
\* later can still be confirmed.
PendingCanBeConfirmed ==
  \A c \in Rows : status[c] = "PENDING" => ConfirmationAllowed(c)

\* METAL-001: metal is credited once, at the rate locked when the contribution
\* was created, and a row says PAID exactly when that has happened, whichever
\* of the callback, the webhook, the retry, the recovery and the cash receipt
\* ran the allocation.  A corrected row keeps what it had.
PaidIffAllocatedOnce ==
  \A c \in Rows :
    /\ allocations[c] \in {<<>>, <<scheme_rate[c]>>}
    /\ status[c] = "PAID" => allocations[c] # <<>>
    /\ allocations[c] # <<>> => status[c] \in {"PAID", "REVERSED"}

\* FIN-001: a payment is credited to one contribution, the one whose stored
\* order it was captured on, and only when it was captured; and an event is
\* PROCESSED only when its payment has been credited.
CreditIsCaptured ==
  /\ \A c \in Rows :
       /\ reference[c] # NoPayment => CapturedFor(reference[c], c)
       /\ status[c] \in Successful /\ channel[c] = "RAZORPAY" => reference[c] # NoPayment
       /\ status[c] \notin Successful => reference[c] = NoPayment
  /\ \A p \in Payments : event[p] = "PROCESSED" => Credited(p)

\* PAY-031, PAY-032: the provider is asked for an order once per contribution (a
\* lost answer is held for recovery, never sent again), and two forms rendered
\* from the same payment history never start two contributions: each one was
\* started by a form that showed every earlier one.
OneProviderOrder ==
  /\ \A c \in Contributions : orders[c] <= 1
  /\ \A c \in order_request : \E k \in Keys : submission[k] = c /\ form[k] = c - 1

\* PAY-010, PAY-015: a captured payment is answered with 200 only when it is
\* credited or a review of it is on record, whatever retries, time-outs and
\* crashes came before.
AcknowledgedIsAccountedFor ==
  \A p \in acknowledged : Credited(p) \/ "REVIEW_REQUIRED" \in attempts[p]

\* RED-001: no sequence of payments, corrections and redemptions withdraws
\* more metal than was accumulated.
NeverOverdrawn == Balance >= 0

\* An agreement marked REDEEMED has been fully redeemed: nothing is left.
RedeemedIsSettled == account_status = "REDEEMED" => Balance = 0

-----------------------------------------------------------------------------
(* Action properties. *)

\* PAY-010, PAY-026: an abandoned contribution is never paid and a reversed one
\* never restored; a credited one stays credited, unless it is a cash receipt
\* that is corrected.
OutcomeIsFinal ==
  [][\A c \in Contributions :
       /\ status[c] \in {"ABANDONED", "REVERSED"} => status'[c] = status[c]
       /\ status[c] \in Successful =>
            \/ status'[c] \in Successful
            \/ status'[c] = "REVERSED" /\ channel[c] = "IN_STORE_CASH"]_vars

\* The provider order, the credited payment and the allocation of a row, once
\* set, stay.
EvidenceIsKept ==
  [][\A c \in Contributions :
       /\ order_id[c] # 0 => order_id'[c] = order_id[c]
       /\ reference[c] # NoPayment => reference'[c] = reference[c]
       /\ allocations[c] # <<>> => allocations'[c] = allocations[c]]_vars

\* ARCHITECTURE.md: "Signed permanent mismatches are durably accepted into
\* REVIEW_REQUIRED with HTTP 200": an acknowledged event leaves the review
\* queue only by being processed.
ReviewIsDurable ==
  [][\A p \in acknowledged :
       event[p] = "REVIEW_REQUIRED" => event'[p] \in {"REVIEW_REQUIRED", "PROCESSED"}]_vars

-----------------------------------------------------------------------------
(* Liveness and refinement. *)

\* PAY-021: received money is never ignored: every captured payment is in the
\* end credited, or a delivery of its event records that it needs the owner's
\* review, through time-outs, crashes and transient failures.
CapturedIsDecided ==
  \A p \in Payments :
    p \in captured ~> Credited(p) \/ "REVIEW_REQUIRED" \in attempts[p]

\* The rows, read as the ledger the workflow promises.
Outcome(c) == CASE status[c] \in {"none", "PENDING"} -> "open"
                [] status[c] \in Successful -> "paid"
                [] status[c] \in {"ABANDONED", "REVERSED"} -> "closed"

Ledger == INSTANCE PaymentLedger WITH
            outcome <- [c \in Contributions |-> Outcome(c)],
            payer <- reference,
            metal <- {c \in Contributions : allocations[c] # <<>>}

\* Under every interleaving of requests, retries, crashes and owner actions the
\* rows change only as the ledger allows.
ImplementsLedger == Ledger!Spec

-----------------------------------------------------------------------------
(* What the tables of a metal agreement demand of their rows (models.py):  *)
(* the constraints of the database, the clean() of a row and the save()    *)
(* that refuses to change a retained one.  The handlers do not rely on     *)
(* them: a handler that ran into one would fail with the money received    *)
(* and nothing recorded.                                                   *)

Online(c) == channel[c] = "RAZORPAY"
Cash(c) == channel[c] = "IN_STORE_CASH"
Confirmed == {"PAID", "PAID_UNALLOCATED", "REVERSED"}
Redemptions == {s \in Settlements : redeemed[s] # 0}
Issued == {r \in Receipts : receipt[r] # 0}

\* Contribution.Meta.constraints
ContributionAdmitted(c) ==
  /\ Online(c) /\ status[c] \in Confirmed => reference[c] # NoPayment
  /\ Cash(c) => order_id[c] = 0 /\ ~expired[c] /\ status[c] \in Confirmed
  /\ status[c] = "REVERSED" => Cash(c)
  /\ \A d \in Rows \ {c} :
       /\ reference[c] = reference[d] => reference[c] = NoPayment
       /\ ~( /\ Online(c) /\ Online(d)
             /\ {status[c], status[d]} \subseteq {"PENDING", "PAID_UNALLOCATED"} )
       /\ OncePerMonth /\ period[c] = period[d] =>
            /\ ~({status[c], status[d]} \subseteq Successful)
            /\ ~(status[c] = "PENDING" /\ status[d] = "PENDING")

\* Contribution.save: the terms of a requested order are frozen.
ContributionKept(c) ==
  c \in order_request =>
    /\ period'[c] = period[c] /\ scheme_rate'[c] = scheme_rate[c]
    /\ channel'[c] = channel[c]
    /\ order_id[c] # 0 => order_id'[c] = order_id[c]

\* RazorpayCheckoutSubmission
SubmissionKept(k) == submission[k] # 0 => submission'[k] = submission[k]

\* RazorpayOrderRequest, of one contribution and with its locked terms.
OrderRequestAdmitted(c) == c \in Rows /\ Online(c)
OrderRequestsKept == order_request \subseteq order_request'

\* RazorpayOrderRecovery, of one request.
OrderRecoveryAdmitted(c) == c \in order_request /\ order_id[c] # 0
OrderRecoveriesKept == recovery \subseteq recovery'

\* InStoreCashReceipt
CashReceiptAdmitted(r) ==
  /\ receipt[r] \in Rows /\ Cash(receipt[r])
  /\ \A q \in Issued : receipt[q] = receipt[r] => q = r
CashReceiptKept(r) == receipt[r] # 0 => receipt'[r] = receipt[r]

\* InStoreCashContributionReversal: the row's status stands for it.
CashReversalAdmitted(c) == Cash(c) /\ \E r \in Issued : receipt[r] = c
CashReversalKept(c) == status[c] = "REVERSED" => status'[c] = "REVERSED"

\* MetalAllocation: one for a contribution, at the rate locked on it.
AllocationAdmitted(c) ==
  /\ Len(allocations[c]) <= 1
  /\ allocations[c] # <<>> => allocations[c][1] = scheme_rate[c] /\ AllocatedGrams(c) > 0
AllocationKept(c) == allocations[c] # <<>> => allocations'[c] = allocations[c]

\* PaymentWebhookEvent: one row for an event, never removed.
WebhookEventKept(p) == event[p] # "none" => event'[p] # "none"

\* WebhookProcessingAttempt
AttemptsKept(p) == attempts[p] \subseteq attempts'[p]

\* Redemption: the entitlement of the agreement, a positive amount of it.
RedemptionAdmitted(s) == redeemed[s] > 0 /\ redeemed_after[s] \in 1..latest
RedemptionKept(s) ==
  redeemed[s] # 0 => redeemed'[s] = redeemed[s] /\ redeemed_after'[s] = redeemed_after[s]

\* RedemptionReversal, one for a redemption.
RedemptionReversalAdmitted(s) == s \in Redemptions
RedemptionReversalsKept == reversed \subseteq reversed'

\* SchemeRate: a publication is never changed, the current one is the last.
SchemeRatesKept == current_rate <= current_rate'

\* Every column the constraints and the saves speak of.
records ==
  <<rowVars, current_rate, order_request, submission, recovery, receipt, event,
    attempts, redeemed, redeemed_after, reversed>>

RowsAdmitted ==
  /\ \A c \in Rows : ContributionAdmitted(c) /\ AllocationAdmitted(c)
  /\ \A c \in order_request : OrderRequestAdmitted(c)
  /\ \A c \in recovery : OrderRecoveryAdmitted(c)
  /\ \A r \in Issued : CashReceiptAdmitted(r)
  /\ \A c \in Rows : status[c] = "REVERSED" => CashReversalAdmitted(c)
  /\ \A s \in Redemptions : RedemptionAdmitted(s)
  /\ \A s \in reversed : RedemptionReversalAdmitted(s)

RowsKept ==
  /\ \A c \in Rows : ContributionKept(c) /\ AllocationKept(c) /\ CashReversalKept(c)
  /\ \A k \in Keys : SubmissionKept(k)
  /\ OrderRequestsKept /\ OrderRecoveriesKept /\ SchemeRatesKept /\ RedemptionReversalsKept
  /\ \A r \in Receipts : CashReceiptKept(r)
  /\ \A p \in Payments : WebhookEventKept(p) /\ AttemptsKept(p)
  /\ \A s \in Settlements : RedemptionKept(s)

\* No interleaving of checkouts, captures, corrections and redemptions gets as
\* far as a constraint of the database or the save() of a retained row: what a
\* handler has decided, the tables admit.
RowsStand == [][records' # records => RowsAdmitted' /\ RowsKept]_vars

-----------------------------------------------------------------------------
(* What the customer and the owner are told about a metal agreement        *)
(* (selectors.py): the statement, the liability summary, the acquisition   *)
(* summary and the daily totals.  Each is computed from other rows, so     *)
(* they agree only while the rows do.                                      *)

Sum(f(_), S) == SumFunction([x \in S |-> f(x)])

\* get_scheme_statement: an entry for every confirmed contribution with the
\* metal allocated to it, one for every correction, redemption and reversal.
StatementEntries ==
  {[kind |-> "contribution", grams |-> AllocatedGrams(c), of |-> c] :
     c \in {d \in Rows : status[d] \in Confirmed}}
  \cup {[kind |-> "correction", grams |-> 0 - AllocatedGrams(c), of |-> c] :
     c \in {d \in Rows : status[d] = "REVERSED"}}
  \cup {[kind |-> "redemption", grams |-> 0 - redeemed[s], of |-> s] : s \in Redemptions}
  \cup {[kind |-> "restoration", grams |-> redeemed[s], of |-> s] : s \in reversed}

RemainingEntitlement == Balance

\* get_owner_liability_summary: by grade, from PAID rows and standing redemptions.
LiabilityGrams ==
  Sum(AllocatedGrams, {c \in Rows : status[c] = "PAID"})
    - Sum(LAMBDA s : redeemed[s], {s \in Redemptions : s \notin reversed})

\* get_metal_acquisition_summary: contributions and grams acquired, whatever
\* was redeemed since.
AcquiredFor == Cardinality({c \in Rows : status[c] = "PAID" /\ allocations[c] # <<>>})
AcquiredGrams == Sum(AllocatedGrams, {c \in Rows : status[c] = "PAID"})

\* get_in_store_cash_daily_summary, all of it within one day.
CashReceived == Cardinality(Issued)
CashReversed == Cardinality({c \in Rows : status[c] = "REVERSED"})

\* get_owner_contribution_daily_summary
VerifiedOnline == Cardinality({c \in Rows : status[c] \in Successful /\ Online(c)})
Verified == Cardinality({c \in Rows : status[c] \in Successful})

\* get_owner_exception_queue: money received and not yet metal, deliveries in
\* review and checkouts whose deadline passed.
ExceptionQueue ==
  {<<"allocation", c>> : c \in {d \in Rows : status[d] = "PAID_UNALLOCATED"}}
  \cup {<<"webhook", p>> : p \in {q \in Payments : event[q] = "REVIEW_REQUIRED"}}
  \cup {<<"checkout", c>> : c \in {d \in Rows : status[d] = "PENDING" /\ expired[d]}}

\* The statement adds up to the entitlement it shows, which is what the owner
\* owes; the day's verified payments are its online payments and its receipts
\* less its corrections; and what the books do not explain by metal is in the
\* owner's queue, between any two steps of any request.
ReportsAgree ==
  /\ Sum(LAMBDA e : e.grams, StatementEntries) = RemainingEntitlement
  /\ LiabilityGrams = RemainingEntitlement
  /\ AcquiredGrams >= RemainingEntitlement
  /\ Verified = VerifiedOnline + CashReceived - CashReversed
  /\ Verified - AcquiredFor =
       Cardinality({item \in ExceptionQueue : item[1] = "allocation"})
=============================================================================
