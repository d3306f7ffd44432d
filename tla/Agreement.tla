------------------------------ MODULE Agreement ------------------------------
(***************************************************************************)
(* The rows of one legacy (schema version 1) metal agreement: the          *)
(* SchemeAccount, its Contributions and their MetalAllocations, together   *)
(* with the three clocks every operation reads: the accounting month, the  *)
(* current Scheme Rate and the owner's payment controls.                   *)
(*                                                                         *)
(* A contribution's primary key is its creation rank, so the rows present  *)
(* are 1 .. latest.  A column is a function on primary keys.  The other    *)
(* modules extend this one; each of their actions is one database          *)
(* transaction or one call to the payment provider.                        *)
(***************************************************************************)
EXTENDS Naturals, Sequences

CONSTANTS
  MaxContributions,       \* bound: contribution rows a run may create
  MaxMonth,               \* bound: accounting months that pass
  MaxRate,                \* bound: Scheme Rate publications
  Payments,               \* provider payments (and, one each, webhook events)
  NoPayment,              \* a contribution with no gateway_reference
  OncePerMonth,           \* frequency_rule_snapshot = ONCE_PER_MONTH
  EligibleFrom,           \* the agreement's eligible_from month
  AllowAfterEligibility   \* allow_post_eligibility_contributions_snapshot

ASSUME BoundsAssumption == /\ MaxContributions \in Nat
                           /\ MaxMonth \in Nat
                           /\ MaxRate \in Nat \ {0}
                           /\ EligibleFrom \in Nat
ASSUME RuleAssumption == /\ OncePerMonth \in BOOLEAN
                         /\ AllowAfterEligibility \in BOOLEAN
ASSUME PaymentAssumption == NoPayment \notin Payments

VARIABLES
  account_status,   \* SchemeAccount.status, as stored
  month,            \* the current accounting month (India-local date)
  current_rate,     \* the Scheme Rate in force, numbered by publication
  initiation_open,  \* get_payment_availability(...).allowed
  latest,           \* highest contribution primary key, 0 when there is none
  status,           \* Contribution.status, "none" where no row exists
  channel,          \* Contribution.payment_channel
  period,           \* Contribution.contribution_period
  scheme_rate,      \* Contribution.scheme_rate, locked when the row is created
  order_id,         \* Contribution.gateway_order_id, 0 when NULL
  reference,        \* Contribution.gateway_reference
  expired,          \* Contribution.razorpay_checkout_expired
  allocations       \* MetalAllocation rows of a contribution: the rates used

clockVars == <<month, current_rate, initiation_open>>
rowVars == <<latest, status, channel, period, scheme_rate, order_id,
             reference, expired, allocations>>
agreementVars == <<account_status, clockVars, rowVars>>

Contributions == 1..MaxContributions
Rates == 1..MaxRate
Statuses == {"none", "PENDING", "PAID", "PAID_UNALLOCATED", "ABANDONED", "REVERSED"}
Successful == {"PAID", "PAID_UNALLOCATED"}
Channels == {"RAZORPAY", "IN_STORE_CASH"}

Rows == {c \in Contributions : status[c] # "none"}

AgreementTypeOK ==
  /\ account_status \in {"ACTIVE", "REDEEMED"}
  /\ month \in Nat
  /\ current_rate \in Rates
  /\ initiation_open \in BOOLEAN
  /\ latest \in 0..MaxContributions
  /\ status \in [Contributions -> Statuses]
  /\ channel \in [Contributions -> Channels]
  /\ period \in [Contributions -> Nat]
  /\ scheme_rate \in [Contributions -> Rates]
  /\ order_id \in [Contributions -> Nat]
  /\ reference \in [Contributions -> Payments \cup {NoPayment}]
  /\ expired \in [Contributions -> BOOLEAN]
  /\ allocations \in [Contributions -> Seq(Rates)]

AgreementInit ==
  /\ account_status = "ACTIVE"
  /\ month = 0
  /\ current_rate = 1
  /\ initiation_open = TRUE
  /\ latest = 0
  /\ status = [c \in Contributions |-> "none"]
  /\ channel = [c \in Contributions |-> "RAZORPAY"]
  /\ period = [c \in Contributions |-> 0]
  /\ scheme_rate = [c \in Contributions |-> 1]
  /\ order_id = [c \in Contributions |-> 0]
  /\ reference = [c \in Contributions |-> NoPayment]
  /\ expired = [c \in Contributions |-> FALSE]
  /\ allocations = [c \in Contributions |-> <<>>]

-----------------------------------------------------------------------------
(* Rules shared by the online and the showroom channel. *)

\* A successful payment other than c already stands in accounting month m.
SuccessInPeriod(m, c) ==
  \E d \in Rows \ {c} : status[d] \in Successful /\ period[d] = m

\* A plan rule forgotten: the month may already be paid.
ContributionAllowedTwiceAMonth(exclude) ==
  /\ account_status # "REDEEMED"
  /\ month >= EligibleFrom => AllowAfterEligibility

\* validate_contribution_allowed: may the agreement take a payment today,
\* leaving the row `exclude` (0 for none) out of the monthly rule?
ContributionAllowed(exclude) ==
  /\ account_status # "REDEEMED"
  /\ month >= EligibleFrom => AllowAfterEligibility
  /\ OncePerMonth => ~SuccessInPeriod(month, exclude)

\* validate_contribution_confirmation_allowed: the month is the row's own.
ConfirmationAllowed(c) == OncePerMonth => ~SuccessInPeriod(period[c], c)

\* Contribution(...).save() of a new row: the next key, today's month, and the
\* Scheme Rate in force, which _lock_current_scheme_rate freezes on the row.
InsertContribution(c, newStatus, newChannel) ==
  /\ c = latest + 1
  /\ latest' = c
  /\ status' = [status EXCEPT ![c] = newStatus]
  /\ channel' = [channel EXCEPT ![c] = newChannel]
  /\ period' = [period EXCEPT ![c] = month]
  /\ scheme_rate' = [scheme_rate EXCEPT ![c] = current_rate]
  /\ UNCHANGED <<order_id, reference, expired, allocations>>

-----------------------------------------------------------------------------
(* The clocks.  Each is moved by someone else: time, or the owner. *)

NextMonth ==
  /\ month < MaxMonth
  /\ month' = month + 1
  /\ UNCHANGED <<account_status, current_rate, initiation_open, rowVars>>

\* publish_scheme_rate appends a rate, which is current from now on.
PublishSchemeRate ==
  /\ current_rate < MaxRate
  /\ current_rate' = current_rate + 1
  /\ UNCHANGED <<account_status, month, initiation_open, rowVars>>

\* update_payment_operations_control, the weekly schedule or the kill switch
\* closes or reopens payment initiation.
TogglePaymentInitiation ==
  /\ initiation_open' = ~initiation_open
  /\ UNCHANGED <<account_status, month, current_rate, rowVars>>

\* The row's Checkout deadline passes.  Only an unconfirmed row's matters.
CheckoutExpires(c) ==
  /\ status[c] = "PENDING"
  /\ ~expired[c]
  /\ expired' = [expired EXCEPT ![c] = TRUE]
  /\ UNCHANGED <<account_status, clockVars, latest, status, channel, period,
                 scheme_rate, order_id, reference, allocations>>

ClockStep == \/ NextMonth
             \/ PublishSchemeRate
             \/ TogglePaymentInitiation
             \/ \E c \in Contributions : CheckoutExpires(c)
=============================================================================
