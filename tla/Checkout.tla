------------------------------- MODULE Checkout -------------------------------
(***************************************************************************)
(* Durable, idempotent online checkout (checkout_services.py) and the      *)
(* provider-verified abandonment of an expired one.                        *)
(*                                                                         *)
(* Every rendered payment form carries a submission key and a signed copy  *)
(* of the latest contribution key at that time.  The first transaction     *)
(* maps the key to a contribution, new or existing; a new one is followed, *)
(* outside any transaction, by exactly one call to the provider and then   *)
(* by a transaction that stores the returned order.                        *)
(***************************************************************************)
EXTENDS Provider

CONSTANT Keys              \* submission keys: one per rendered form

NotRendered == MaxContributions + 1

VARIABLES
  form,            \* key -> latest contribution when its form was rendered
  submission,      \* RazorpayCheckoutSubmission: key -> contribution, 0 if none
  order_request,   \* contributions with a RazorpayOrderRequest
  recovery,        \* contributions with a RazorpayOrderRecovery
  creator,         \* the request that created a contribution: where it stands
  inspected        \* contributions with an untouched inspection to apply

checkoutVars == <<form, submission, order_request, recovery, creator, inspected>>

CheckoutTypeOK ==
  /\ form \in [Keys -> 0..NotRendered]
  /\ submission \in [Keys -> 0..MaxContributions]
  /\ order_request \subseteq Contributions
  /\ recovery \subseteq Contributions
  /\ creator \in [Contributions -> {"gone", "calling", "answered"}]
  /\ inspected \subseteq Contributions

CheckoutInit ==
  /\ form = [k \in Keys |-> NotRendered]
  /\ submission = [k \in Keys |-> 0]
  /\ order_request = {}
  /\ recovery = {}
  /\ creator = [c \in Contributions |-> "gone"]
  /\ inspected = {}

-----------------------------------------------------------------------------
\* GET of the payment form.
RenderForm(k) ==
  /\ form[k] = NotRendered
  /\ form' = [form EXCEPT ![k] = latest]
  /\ UNCHANGED <<agreementVars, submission, order_request, recovery, creator, inspected>>

\* A pending checkout of an earlier month forgotten.
UnresolvedThisMonth == {c \in Rows : /\ period[c] = month
                                     /\ \/ status[c] = "PENDING" /\ channel[c] = "RAZORPAY"
                                        \/ status[c] = "PAID_UNALLOCATED"}

\* Contributions that hold the account: an unresolved online payment, or any
\* payment whose metal is still to be credited.
Unresolved == {c \in Rows : \/ status[c] = "PENDING" /\ channel[c] = "RAZORPAY"
                            \/ status[c] = "PAID_UNALLOCATED"}

\* The form shows the whole payment history: nothing was added since.
HistoryUnread(k) == TRUE
HistoryReviewed(k) == form[k] = latest

\* Request evidence that a later submission may not step over.
HeldEvidence == \E c \in order_request : order_id[c] = 0 /\ status[c] # "PENDING"

\* The first transaction commits a resolution to an existing contribution only
\* if its last checks do not raise: they are skipped for a checkout that is
\* over, expired, recovered or still without an order.
ResolutionCommits(c) ==
  \/ status[c] # "PENDING"
  \/ expired[c]
  \/ c \in recovery
  \/ c \in order_request /\ order_id[c] = 0
  \/ ContributionAllowed(c) /\ initiation_open

Resolve(k, c) ==
  /\ ResolutionCommits(c)
  /\ submission' = [submission EXCEPT ![k] = c]
  /\ UNCHANGED <<agreementVars, form, order_request, recovery, creator, inspected>>

\* A new key while one checkout is pending becomes an alias of it.
AliasPending(k) ==
  /\ form[k] # NotRendered /\ submission[k] = 0
  /\ ~HeldEvidence
  /\ \E c \in Unresolved : /\ Unresolved = {c}
                           /\ status[c] = "PENDING"
                           /\ Resolve(k, c)

\* The history moved on since the form was rendered: the customer is shown the
\* latest online payment instead of starting another.
AliasLatest(k) ==
  /\ form[k] # NotRendered /\ submission[k] = 0
  /\ ~HeldEvidence
  /\ Unresolved = {}
  /\ ~HistoryReviewed(k)
  /\ latest # 0 /\ channel[latest] = "RAZORPAY"
  /\ submission' = [submission EXCEPT ![k] = latest]
  /\ UNCHANGED <<agreementVars, form, order_request, recovery, creator, inspected>>

\* A new checkout: the contribution with its locked rate and deadline, the
\* submission and the order request commit together.  The request then goes on
\* to call the provider.
InitiateCheckout(k) ==
  /\ form[k] # NotRendered /\ submission[k] = 0
  /\ ~HeldEvidence
  /\ Unresolved = {}
  /\ HistoryReviewed(k)
  /\ initiation_open
  /\ ContributionAllowed(0)
  /\ \E c \in Contributions :
       /\ InsertContribution(c, "PENDING", "RAZORPAY")
       /\ submission' = [submission EXCEPT ![k] = c]
       /\ order_request' = order_request \cup {c}
       /\ creator' = [creator EXCEPT ![c] = "calling"]
  /\ UNCHANGED <<account_status, clockVars, form, recovery, inspected>>

\* A lost answer retried blindly.
CallProviderUntilAnswered(c) ==
  /\ creator[c] = "calling"
  /\ CreateOrder(c)
  /\ \E answer \in {"answered", "calling"} : creator' = [creator EXCEPT ![c] = answer]
  /\ UNCHANGED <<agreementVars, form, submission, order_request, recovery, inspected>>

\* The provider creates the order; the answer comes back or is lost.
CallProvider(c) ==
  /\ creator[c] = "calling"
  /\ CreateOrder(c)
  /\ \E answer \in {"answered", "gone"} : creator' = [creator EXCEPT ![c] = answer]
  /\ UNCHANGED <<agreementVars, form, submission, order_request, recovery, inspected>>

\* The call fails without creating an order, the process stops between two
\* steps, or the answer is malformed: the committed request stays pending.
CreatorStops(c) ==
  /\ creator[c] # "gone"
  /\ creator' = [creator EXCEPT ![c] = "gone"]
  /\ UNCHANGED <<agreementVars, providerVars, form, submission, order_request,
                 recovery, inspected>>

\* The second transaction stores the returned order, if the row still waits
\* for it.
BindOrder(c) ==
  /\ creator[c] = "answered"
  /\ creator' = [creator EXCEPT ![c] = "gone"]
  /\ order_id' = IF status[c] = "PENDING" /\ order_id[c] = 0
                   THEN [order_id EXCEPT ![c] = orders[c]]
                   ELSE order_id
  /\ UNCHANGED <<account_status, clockVars, latest, status, channel, period,
                 scheme_rate, reference, expired, allocations,
                 form, submission, order_request, recovery, inspected>>

\* recover_order_identity(apply=True): an owner binds a lost order after an
\* authenticated provider read matches it to the original request.
RecoverOrderIdentity(c) ==
  /\ c \in order_request /\ c \notin recovery
  /\ status[c] = "PENDING" /\ order_id[c] = 0
  /\ \E n \in 1..orders[c] : order_id' = [order_id EXCEPT ![c] = n]
  /\ recovery' = recovery \cup {c}
  /\ UNCHANGED <<account_status, clockVars, latest, status, channel, period,
                 scheme_rate, reference, expired, allocations,
                 form, submission, order_request, creator, inspected>>

-----------------------------------------------------------------------------
(* reconcile_abandoned_razorpay_contribution: the provider is read outside   *)
(* the lock, the decision is applied under it.                               *)

InspectOrder(c) ==
  /\ status[c] = "PENDING" /\ channel[c] = "RAZORPAY"
  /\ order_id[c] # 0
  /\ expired[c]
  /\ Untouched(c)
  /\ inspected' = inspected \cup {c}
  /\ UNCHANGED <<agreementVars, form, submission, order_request, recovery, creator>>

\* The order reference dropped with the attempt.
ApplyAbandonmentForgetting(c) ==
  /\ c \in inspected
  /\ inspected' = inspected \ {c}
  /\ status[c] = "PENDING"
  /\ status' = [status EXCEPT ![c] = "ABANDONED"]
  /\ order_id' = [order_id EXCEPT ![c] = 0]
  /\ UNCHANGED <<account_status, clockVars, latest, channel, period, scheme_rate,
                 reference, expired, allocations,
                 form, submission, order_request, recovery, creator>>

\* The inspection applied without looking at the row again.
ApplyStaleAbandonment(c) ==
  /\ c \in inspected
  /\ inspected' = inspected \ {c}
  /\ status' = [status EXCEPT ![c] = "ABANDONED"]
  /\ UNCHANGED <<account_status, clockVars, latest, channel, period, scheme_rate,
                 order_id, reference, expired, allocations,
                 form, submission, order_request, recovery, creator>>

\* The contribution is abandoned if it still waits for its payment.
ApplyAbandonment(c) ==
  /\ c \in inspected
  /\ inspected' = inspected \ {c}
  /\ status' = IF status[c] = "PENDING" THEN [status EXCEPT ![c] = "ABANDONED"]
                                         ELSE status
  /\ UNCHANGED <<account_status, clockVars, latest, channel, period, scheme_rate,
                 order_id, reference, expired, allocations,
                 form, submission, order_request, recovery, creator>>

-----------------------------------------------------------------------------
CheckoutStep ==
  \/ \E k \in Keys : /\ UNCHANGED providerVars
                     /\ \/ RenderForm(k)
                        \/ AliasPending(k)
                        \/ AliasLatest(k)
                        \/ InitiateCheckout(k)
  \/ \E c \in Contributions : \/ CallProvider(c)
                              \/ CreatorStops(c)
  \/ \E c \in Contributions : /\ UNCHANGED providerVars
                              /\ \/ BindOrder(c)
                                 \/ RecoverOrderIdentity(c)
                                 \/ InspectOrder(c)
                                 \/ ApplyAbandonment(c)
=============================================================================
