------------------------------ MODULE Instalments ------------------------------
(***************************************************************************)
(* The ledger of a monthly agreement (instalments.py, the first half of    *)
(* instalment_payments.py): the agreed periods, the exclusive claim that a *)
(* payment takes on one of them, and the append-only decisions about it.   *)
(*                                                                         *)
(* Time is a tick; a period is two ticks long, so that a checkout may end  *)
(* inside its period and a payment may come after the checkout and before  *)
(* the period's end.  A claim's state is its last decision.                *)
(***************************************************************************)
EXTENDS Integers, Sequences, FiniteSets

CONSTANTS
  MaxContributions,  \* bound: payment attempts of the agreement
  BasePeriods,       \* periods of the accepted schedule, extensions included
  Required,          \* required_instalment_count
  MaxExtra,          \* bound: compensating months (the code allows three)
  CheckoutTicks,     \* RAZORPAY_CHECKOUT_EXPIRY_MINUTES
  MaxTime,           \* bound: the last tick
  Payments, NoPayment,
  Events, NoEvent    \* provider events, each about one captured payment

ASSUME InstalmentAssumption ==
  /\ MaxContributions \in Nat /\ BasePeriods \in Nat /\ Required \in Nat
  /\ MaxExtra \in 0..3 /\ CheckoutTicks \in Nat \ {0} /\ MaxTime \in Nat
  /\ NoPayment \notin Payments /\ NoEvent \notin Events

Contributions == 1..MaxContributions
Periods == 1..BasePeriods + MaxExtra
Successful == {"PAID", "PAID_UNALLOCATED"}
ClaimStates == {"RESERVED", "ORDERING", "AWAITING", "QUALIFIED", "REVIEW",
                "REVERSED", "RELEASED", "RELEASED_REVIEW"}
OpenWithoutIntents == {"RESERVED", "AWAITING", "REVIEW", "RELEASED_REVIEW"}
Open == {"RESERVED", "ORDERING", "AWAITING", "REVIEW", "RELEASED_REVIEW"}
Freed == {"REVERSED", "RELEASED"}

VARIABLES
  now,
  row,         \* contribution -> [channel, status, ordered, payment, created]
  claim,       \* contribution -> [period, expires] of its reservation
  decisions,   \* contribution -> its InstalmentPaymentDecisions, in sequence
  compensated, \* the period each compensating month was added for, in order
  hold,        \* period -> state of its latest outage hold
  closing,     \* a closure of the agreement has been accepted
  event,       \* PaymentWebhookEvent, and the final outcomes of its attempts
  captured_at, \* payment -> tick of its capture at the provider, or 0 - 1
  paid_order,  \* payment -> contribution on whose order it was made, or 0
  orders,      \* contribution -> number of orders the provider created
  recovered    \* contributions with an InstalmentOrderRecovery

rowVars == <<row, claim, decisions>>
scheduleVars == <<compensated, hold, closing>>
moneyVars == <<captured_at, paid_order, orders>>
ledgerVars == <<now, row, claim, decisions, compensated, hold, closing, event,
                captured_at, paid_order, orders, recovered>>

NoRow == [channel |-> "none", status |-> "none", ordered |-> FALSE,
          payment |-> NoPayment, created |-> 0]
NoClaim == [period |-> 0, expires |-> 0]
Unheard == [status |-> "none", payment |-> NoPayment, timed |-> FALSE, contribution |-> 0,
            identified |-> FALSE, attempts |-> {}, answered |-> FALSE]

\* The rows, with what their columns and constraints allow.
ContributionRow ==
  [channel : {"none", "RAZORPAY", "IN_STORE_CASH"},
   status : {"none", "PENDING", "FAILED", "ABANDONED", "REVERSED"} \cup Successful,
   ordered : BOOLEAN, payment : Payments \cup {NoPayment}, created : 0..MaxTime]
InstalmentReservation == [period : Periods \cup {0}, expires : Nat]
DecisionCodes ==
  {"CURRENT_PERIOD_RESERVED", "PROVIDER_ORDER_REQUEST_STARTED", "PROVIDER_ORDER_RECORDED",
   "PROVIDER_ORDER_RECOVERED", "VERIFIED_TIMING_PENDING", "VERIFIED_WITHIN_PERIOD",
   "MISSING_PROVIDER_TIMING", "PERIOD_BOUNDARY_REVIEW", "CHECKOUT_DEADLINE_REVIEW",
   "PRIOR_REVIEW_UNRESOLVED", "OWNER_VERIFIED_TIMING", "CASH_ENTRY_REVERSED",
   "UNTOUCHED_ORDER_RECONCILED", "LATE_CAPTURE_AFTER_RELEASE"}
InstalmentPaymentDecision ==
  [state : ClaimStates, code : DecisionCodes, event : Events \cup {NoEvent}]
\* What a WebhookProcessingAttempt records of a delivery or of the owner's
\* recovery; ALREADY_PROCESSED is a recovery that found the payment credited.
Outcomes == {"PROCESSED", "REVIEW_REQUIRED"}
PaymentWebhookEvent ==
  [status : {"none", "RECEIVED"} \cup Outcomes,
   payment : Payments \cup {NoPayment}, timed : BOOLEAN,
   contribution : Contributions \cup {0}, identified : BOOLEAN,
   attempts : SUBSET Outcomes, answered : BOOLEAN]
HoldStates == {"none", "open", "RESTORED", "QUALIFIED", "COMPENSATE"}
IsCompensations(s) == s \in Seq(Periods) /\ Len(s) <= MaxExtra
OrderRecoveries == SUBSET Contributions

LedgerTypeOK ==
  /\ now \in 0..MaxTime
  /\ row \in [Contributions -> ContributionRow]
  /\ claim \in [Contributions -> InstalmentReservation]
  /\ decisions \in [Contributions -> Seq(InstalmentPaymentDecision)]
  /\ IsCompensations(compensated)
  /\ hold \in [Periods -> HoldStates]
  /\ closing \in BOOLEAN
  /\ event \in [Events -> PaymentWebhookEvent]
  /\ captured_at \in [Payments -> (0..MaxTime) \cup {0 - 1}]
  /\ paid_order \in [Payments -> Contributions \cup {0}]
  /\ orders \in [Contributions -> Nat]
  /\ recovered \in OrderRecoveries

LedgerInit ==
  /\ now = 0
  /\ row = [c \in Contributions |-> NoRow]
  /\ claim = [c \in Contributions |-> NoClaim]
  /\ decisions = [c \in Contributions |-> <<>>]
  /\ compensated = <<>>
  /\ hold = [p \in Periods |-> "none"]
  /\ closing = FALSE
  /\ event = [e \in Events |-> Unheard]
  /\ captured_at = [p \in Payments |-> 0 - 1]
  /\ paid_order = [p \in Payments |-> 0]
  /\ orders = [c \in Contributions |-> 0]
  /\ recovered = {}

-----------------------------------------------------------------------------
(* The schedule (instalments.py). *)

\* Half-open windows; compensating months continue the same period basis.
StartsOn(p) == 2 * (p - 1)
EndsBefore(p) == 2 * p
Scheduled == 1..BasePeriods + Len(compensated)

\* window_for_instant
Within(p, t) == StartsOn(p) <= t /\ t < EndsBefore(p)
CurrentPeriods == {p \in Scheduled : Within(p, now)}

-----------------------------------------------------------------------------
(* Claims. *)

Rows == {c \in Contributions : row[c].status # "none"}
Claimed == {c \in Contributions : decisions[c] # <<>>}
State(c) == decisions[c][Len(decisions[c])].state
InState(S) == {c \in Claimed : State(c) \in S}
Qualified == InState({"QUALIFIED"})

Decision(state, code, e) == [state |-> state, code |-> code, event |-> e]
Plain(state, code) == Decision(state, code, NoEvent)

\* _append
AppendDecision(c, d) == decisions' = [decisions EXCEPT ![c] = Append(@, d)]

EvidenceOf(c) == {decisions[c][i].event : i \in 1..Len(decisions[c])} \ {NoEvent}

\* unresolved_instalment_captures: captures retained for the owner, those whose
\* order was linked after the delivery included.
CaptureException(e) ==
  /\ event[e].status \in {"RECEIVED", "REVIEW_REQUIRED"}
  /\ \/ event[e].contribution # 0
     \/ /\ event[e].identified
        /\ row[paid_order[event[e].payment]].ordered
CaptureExceptions == {e \in Events : CaptureException(e)}
OpenHolds == {p \in Periods : hold[p] = "open"}

\* The guard without its search for a claim on the period.
PayableWithoutOpenClaim(c) ==
  /\ ~closing
  /\ OpenHolds = {}
  /\ CaptureExceptions = {}
  /\ c \notin recovered
  /\ CurrentPeriods # {}
  /\ Cardinality(Qualified) < Required
  /\ InState(Open) \ {c} = {}

\* The guard without the count of what is already paid.
PayableBeyondRequired(c) ==
  /\ ~closing
  /\ OpenHolds = {}
  /\ CaptureExceptions = {}
  /\ c \notin recovered
  /\ CurrentPeriods # {}
  /\ InState(Open) \ {c} = {}
  /\ \A p \in CurrentPeriods, d \in Claimed \ {c} :
       claim[d].period = p => State(d) \in Freed

\* current_instalment_period: the guard of every new payment, re-evaluated
\* before each provider call; c is the contribution it leaves out of account.
PayableExcept(c) ==
  /\ ~closing
  /\ OpenHolds = {}
  /\ CaptureExceptions = {}
  /\ c \notin recovered
  /\ CurrentPeriods # {}
  /\ Cardinality(Qualified) < Required
  /\ InState(Open) \ {c} = {}
  /\ \A p \in CurrentPeriods, d \in Claimed \ {c} :
       claim[d].period = p => State(d) \in Freed

Minimum(a, b) == IF a < b THEN a ELSE b

\* resumable_instalment_contribution, and the checks it makes.
Resumable(c) ==
  /\ c \in InState({"RESERVED"})
  /\ row[c].status = "PENDING"
  /\ row[c].channel = "RAZORPAY"
  /\ PayableExcept(c)
  /\ claim[c].period \in CurrentPeriods
  /\ now < claim[c].expires

NewContribution(c) == c \notin Rows /\ (c = 1 \/ c - 1 \in Rows)

\* initiate_contribution and reserve_instalment: the row and its claim.
Reserve(c, p) ==
  /\ row' = [row EXCEPT ![c] = [NoRow EXCEPT !.channel = "RAZORPAY",
                                  !.status = "PENDING", !.created = now]]
  /\ claim' = [claim EXCEPT ![c] = [period |-> p,
                 expires |-> Minimum(EndsBefore(p), now + CheckoutTicks)]]
  /\ AppendDecision(c, Plain("RESERVED", "CURRENT_PERIOD_RESERVED"))

\* record_in_store_cash: receipt, claim and qualification in one transaction.
RecordCash(c, p) ==
  /\ \A d \in Rows : ~(row[d].status = "PENDING" /\ row[d].channel = "RAZORPAY")
  /\ NewContribution(c)
  /\ p \in CurrentPeriods
  /\ PayableExcept(0)
  /\ row' = [row EXCEPT ![c] = [NoRow EXCEPT !.channel = "IN_STORE_CASH",
                                  !.status = "PAID_UNALLOCATED", !.created = now]]
  /\ claim' = [claim EXCEPT ![c] = [period |-> p, expires |-> EndsBefore(p)]]
  /\ decisions' = [decisions EXCEPT ![c] =
       <<Plain("RESERVED", "CURRENT_PERIOD_RESERVED"),
         Plain("QUALIFIED", "VERIFIED_WITHIN_PERIOD")>>]
  /\ UNCHANGED <<now, scheduleVars, event, moneyVars, recovered>>

\* reverse_in_store_cash_contribution, within the correction window of one tick.
ReverseCash(c) ==
  /\ row[c].channel = "IN_STORE_CASH"
  /\ row[c].status \in Successful
  /\ now <= row[c].created + 1
  /\ row' = [row EXCEPT ![c].status = "REVERSED"]
  /\ AppendDecision(c, Plain("REVERSED", "CASH_ENTRY_REVERSED"))
  /\ UNCHANGED <<now, claim, scheduleVars, event, moneyVars, recovered>>

\* The metal of a paid row is allocated by a later transaction.
AllocateLater(c) ==
  /\ row[c].status = "PAID_UNALLOCATED"
  /\ row' = [row EXCEPT ![c].status = "PAID"]
  /\ UNCHANGED <<now, claim, decisions, scheduleVars, event, moneyVars, recovered>>

Tick == /\ now < MaxTime
        /\ now' = now + 1
        /\ UNCHANGED <<rowVars, scheduleVars, event, moneyVars, recovered>>

\* review_scheme_closure accepts a closure of the agreement; never undone.
AcceptClosure ==
  /\ ~closing
  /\ closing' = TRUE
  /\ UNCHANGED <<now, rowVars, compensated, hold, event, moneyVars, recovered>>

LedgerStep ==
  \/ \E c \in Contributions :
       \/ \E p \in Periods : RecordCash(c, p)
       \/ ReverseCash(c) \/ AllocateLater(c)
  \/ Tick \/ AcceptClosure
=============================================================================
