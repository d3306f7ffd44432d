----------------------------- MODULE Confirmation -----------------------------
(***************************************************************************)
(* From captured money to credited metal: the browser callback, the signed *)
(* payment.captured webhook, the owner's retry and the owner's webhook     *)
(* recovery (services.py).                                                 *)
(*                                                                         *)
(* A worker is one web request.  Between two of its transactions any other *)
(* worker may run, and it carries with it what it read before: which       *)
(* contribution and which webhook event it is working on, and how far it   *)
(* got.  Only the owner's recovery is one transaction from end to end.     *)
(***************************************************************************)
EXTENDS Provider

CONSTANTS
  Workers,        \* concurrent web requests
  MaxFaults       \* bound: failures injected into a behaviour

ASSUME FaultAssumption == MaxFaults \in Nat

VARIABLES
  worker,         \* worker -> [kind, at, payment, contribution]
  listening,      \* workers whose answer the provider still waits for
  event,          \* PaymentWebhookEvent.status of the payment's event
  identified,     \* events that retain the provider's order and payment id
  attempts,       \* final WebhookProcessingAttempt outcomes of deliveries
  owner_results,  \* events with a safe owner-recovery attempt on record
  acknowledged,   \* payments whose event the provider saw answered with 200
  faults          \* failures injected so far

confirmationVars == <<worker, listening, event, identified, attempts,
                      owner_results, acknowledged, faults>>

Places == {"idle", "find", "confirm", "allocate", "mark", "finish", "review", "defer"}
Final == {"PROCESSED", "REVIEW_REQUIRED"}

Idle == [kind |-> "entitle", at |-> "idle", payment |-> NoPayment, contribution |-> 0]

\* A request about a payment, and one about a contribution only.
WorkerRecords ==
  [kind : {"webhook", "callback"}, at : Places, payment : Payments,
   contribution : 0..MaxContributions]
  \cup [kind : {"entitle"}, at : Places, payment : {NoPayment},
        contribution : 0..MaxContributions]

ConfirmationTypeOK ==
  /\ worker \in [Workers -> WorkerRecords]
  /\ listening \subseteq Workers
  /\ event \in [Payments -> {"none", "RECEIVED"} \cup Final]
  /\ identified \subseteq Payments
  /\ attempts \in [Payments -> SUBSET Final]
  /\ owner_results \subseteq Payments
  /\ acknowledged \subseteq Payments
  /\ faults \in 0..MaxFaults

ConfirmationInit ==
  /\ worker = [w \in Workers |-> Idle]
  /\ listening = {}
  /\ event = [p \in Payments |-> "none"]
  /\ identified = {}
  /\ attempts = [p \in Payments |-> {}]
  /\ owner_results = {}
  /\ acknowledged = {}
  /\ faults = 0

-----------------------------------------------------------------------------
(* What a worker does next. *)

At(w, place) == worker[w].at = place
Serving(w, kind, place) == worker[w].kind = kind /\ worker[w].at = place

GoTo(w, place) == worker' = [worker EXCEPT ![w].at = place]

Begin(w, kind, place, p, c) ==
  worker' = [worker EXCEPT ![w] = [kind |-> kind, at |-> place,
                                   payment |-> p, contribution |-> c]]

\* The request ends.  Its answer counts only if the provider still waits.
End(w) == /\ worker' = [worker EXCEPT ![w] = Idle]
          /\ listening' = listening \ {w}

Record(p, outcome) == attempts' = [attempts EXCEPT ![p] = @ \cup {outcome}]

\* HTTP 200 to the current delivery: the provider will not deliver again.
Answer200(w, p) ==
  /\ End(w)
  /\ acknowledged' = IF w \in listening THEN acknowledged \cup {p} ELSE acknowledged

\* HTTP 503, or no answer at all: the provider will deliver again.
AnswerFailure(w) == End(w) /\ UNCHANGED acknowledged

Fault == /\ faults < MaxFaults
         /\ faults' = faults + 1

-----------------------------------------------------------------------------
(* The row steps that the three paths share. *)

\* The row confirmed without looking at its status again under the lock.
ConfirmRowUnchecked(c, p) ==
  /\ status' = [status EXCEPT ![c] = "PAID_UNALLOCATED"]
  /\ reference' = [reference EXCEPT ![c] = p]
  /\ UNCHANGED <<account_status, clockVars, latest, channel, period, scheme_rate,
                 order_id, expired, allocations>>

\* confirm_contribution, the branch that credits the payment to the row.
ConfirmRow(c, p) ==
  /\ status[c] = "PENDING"
  /\ channel[c] = "RAZORPAY"
  /\ ConfirmationAllowed(c)
  /\ status' = [status EXCEPT ![c] = "PAID_UNALLOCATED"]
  /\ reference' = [reference EXCEPT ![c] = p]
  /\ UNCHANGED <<account_status, clockVars, latest, channel, period, scheme_rate,
                 order_id, expired, allocations>>

\* confirm_contribution, the branch that finds the same payment already there.
AlreadyConfirmed(c, p) == status[c] \in Successful /\ reference[c] = p

\* A second allocation made because the first was not looked for.
AllocateRowAgain(c) ==
  /\ status[c] \in Successful
  /\ allocations' = [allocations EXCEPT ![c] = Append(@, scheme_rate[c])]
  /\ status' = [status EXCEPT ![c] = "PAID"]
  /\ UNCHANGED <<account_status, clockVars, latest, channel, period, scheme_rate,
                 order_id, reference, expired>>

\* allocate_metal when no allocation exists: quantity at the locked rate.
AllocateRow(c) ==
  /\ allocations[c] = <<>>
  /\ status[c] \in Successful
  /\ allocations' = [allocations EXCEPT ![c] = Append(@, scheme_rate[c])]
  /\ status' = [status EXCEPT ![c] = "PAID"]
  /\ UNCHANGED <<account_status, clockVars, latest, channel, period, scheme_rate,
                 order_id, reference, expired>>

\* allocate_metal when one exists: it is returned, and the status caught up.
KeepAllocation(c) ==
  /\ allocations[c] # <<>>
  /\ status' = IF status[c] = "PAID_UNALLOCATED"
                 THEN [status EXCEPT ![c] = "PAID"] ELSE status
  /\ UNCHANGED <<account_status, clockVars, latest, channel, period, scheme_rate,
                 order_id, reference, expired, allocations>>

Allocate(c) == AllocateRow(c) \/ KeepAllocation(c)

\* The failure recorded although another request has allocated meanwhile.
MarkUnallocatedBlindly(c) ==
  /\ status[c] \in Successful
  /\ status' = [status EXCEPT ![c] = "PAID_UNALLOCATED"]
  /\ UNCHANGED <<account_status, clockVars, latest, channel, period, scheme_rate,
                 order_id, reference, expired, allocations>>

\* mark_contribution_paid_unallocated after a failed allocation.
MarkUnallocated(c) ==
  /\ status[c] \in Successful
  /\ status' = [status EXCEPT ![c] = IF allocations[c] # <<>> THEN "PAID"
                                                              ELSE "PAID_UNALLOCATED"]
  /\ UNCHANGED <<account_status, clockVars, latest, channel, period, scheme_rate,
                 order_id, reference, expired, allocations>>

-----------------------------------------------------------------------------
(* Webhook delivery. *)

\* A repeated delivery dropped because its event row exists.
ReceiveWebhookOnce(w, p) ==
  /\ At(w, "idle")
  /\ p \in captured
  /\ p \notin acknowledged
  /\ \A v \in listening : worker[v].payment # p
  /\ UNCHANGED <<agreementVars, identified, attempts, faults>>
  /\ IF event[p] # "none"
       THEN /\ acknowledged' = acknowledged \cup {p}
            /\ UNCHANGED <<worker, listening, event>>
       ELSE /\ Begin(w, "webhook", "find", p, 0)
            /\ listening' = listening \cup {w}
            /\ event' = [event EXCEPT ![p] = "RECEIVED"]
            /\ UNCHANGED acknowledged

\* The provider delivers the event of a captured payment while no answer to an
\* earlier delivery is awaited; get_or_create finds or makes the event row.
ReceiveWebhook(w, p) ==
  /\ At(w, "idle")
  /\ p \in captured
  /\ p \notin acknowledged
  /\ \A v \in listening : worker[v].payment # p
  /\ UNCHANGED <<agreementVars, identified, faults>>
  /\ IF event[p] \in Final
       THEN /\ acknowledged' = acknowledged \cup {p}
            /\ UNCHANGED <<worker, listening, event, attempts>>
       ELSE /\ Begin(w, "webhook", "find", p, 0)
            /\ listening' = listening \cup {w}
            /\ event' = [event EXCEPT ![p] = "RECEIVED"]
            /\ UNCHANGED <<attempts, acknowledged>>

\* The provider gives up on an answer.  The request runs on regardless.
DeliveryTimesOut(w) ==
  /\ w \in listening
  /\ Fault
  /\ listening' = listening \ {w}
  /\ UNCHANGED <<agreementVars, worker, event, identified, attempts, acknowledged>>

\* Where a delivery goes once it has found its contribution: a late capture on
\* an abandoned one is never confirmed.
DismissLateCapture(c) == IF status[c] = "ABANDONED" THEN "finish" ELSE "confirm"
AfterLookup(c) == IF status[c] = "ABANDONED" THEN "review" ELSE "confirm"

\* Retain the identifiers and look the contribution up by the stored order.
FindContribution(w) ==
  /\ Serving(w, "webhook", "find")
  /\ LET p == worker[w].payment IN
       /\ identified' = identified \cup {p}
       /\ \/ \E c \in Rows :
               /\ CapturedFor(p, c)
               /\ worker' = [worker EXCEPT ![w].contribution = c,
                                           ![w].at = AfterLookup(c)]
          \/ /\ \A c \in Rows : ~CapturedFor(p, c)
             /\ GoTo(w, "review")
  /\ UNCHANGED <<agreementVars, listening, event, attempts, acknowledged, faults>>

\* _complete_captured_webhook, its last transaction.
FinishWebhook(w) ==
  /\ Serving(w, "webhook", "finish")
  /\ LET p == worker[w].payment IN
       /\ event' = [event EXCEPT ![p] = "PROCESSED"]
       /\ Record(p, "PROCESSED")
       /\ Answer200(w, p)
  /\ UNCHANGED <<agreementVars, identified, faults>>

\* The mismatch rejected instead of accepted for review.
RejectWebhook(w) ==
  /\ Serving(w, "webhook", "review")
  /\ event' = [event EXCEPT ![worker[w].payment] = "FAILED"]
  /\ AnswerFailure(w)
  /\ UNCHANGED <<agreementVars, identified, attempts, faults>>

\* A permanent mismatch is accepted into owner reconciliation.
RequireReview(w) ==
  /\ Serving(w, "webhook", "review")
  /\ LET p == worker[w].payment IN
       /\ event' = [event EXCEPT ![p] = "REVIEW_REQUIRED"]
       /\ Record(p, "REVIEW_REQUIRED")
       /\ Answer200(w, p)
  /\ UNCHANGED <<agreementVars, identified, faults>>

\* Any other exception while the event is being processed.
TransientFailure(w) ==
  /\ worker[w].kind = "webhook"
  /\ worker[w].at \in {"find", "confirm", "allocate", "mark", "finish"}
  /\ Fault
  /\ GoTo(w, "defer")
  /\ UNCHANGED <<agreementVars, listening, event, identified, attempts, acknowledged>>

\* The failure acknowledged as if it had been handled.
DeferWebhookAnswering200(w) ==
  /\ Serving(w, "webhook", "defer")
  /\ LET p == worker[w].payment IN
       /\ event' = [event EXCEPT ![p] = "RECEIVED"]
       /\ identified' = identified \cup {p}
       /\ Answer200(w, p)
  /\ UNCHANGED <<agreementVars, attempts, faults>>

\* The handler of that exception writes the event back as this request knows
\* it, without reading the row again, and answers 503.
DeferWebhook(w) ==
  /\ Serving(w, "webhook", "defer")
  /\ LET p == worker[w].payment IN
       /\ event' = [event EXCEPT ![p] = "RECEIVED"]
       /\ identified' = identified \cup {p}
  /\ AnswerFailure(w)
  /\ UNCHANGED <<agreementVars, attempts, faults>>

-----------------------------------------------------------------------------
(* The browser callback (confirm_razorpay_contribution). *)

\* The browser believed without asking the provider.
ReceiveCallbackUnverified(w, p, c) ==
  /\ At(w, "idle")
  /\ status[c] = "PENDING"
  /\ order_id[c] # 0
  /\ Begin(w, "callback", "confirm", p, c)
  /\ UNCHANGED <<agreementVars, listening, event, identified, attempts,
                 acknowledged, faults>>

\* The unlocked read of the row, and the provider's answer that the payment was
\* captured for the stored order.  A row already credited with this payment
\* goes straight to its entitlement.
ReceiveCallback(w, p, c) ==
  /\ At(w, "idle")
  /\ CapturedFor(p, c)
  /\ \/ /\ status[c] = "PENDING"
        /\ Begin(w, "callback", "confirm", p, c)
     \/ /\ AlreadyConfirmed(c, p)
        /\ Begin(w, "callback", "allocate", p, c)
  /\ UNCHANGED <<agreementVars, listening, event, identified, attempts,
                 acknowledged, faults>>

\* The owner retries the allocation of a payment in the exception queue.
RetryAllocation(w, c) ==
  /\ At(w, "idle")
  /\ status[c] = "PAID_UNALLOCATED"
  /\ Begin(w, "entitle", "allocate", NoPayment, c)
  /\ UNCHANGED <<agreementVars, listening, event, identified, attempts,
                 acknowledged, faults>>

-----------------------------------------------------------------------------
(* Steps common to the requests. *)

\* confirm_contribution under the account lock.  A refusal ends a callback and
\* sends a webhook to review.
ConfirmContribution(w) ==
  /\ At(w, "confirm")
  /\ LET p == worker[w].payment
         c == worker[w].contribution
     IN \/ /\ ConfirmRow(c, p)
           /\ GoTo(w, "allocate")
           /\ UNCHANGED listening
        \/ /\ AlreadyConfirmed(c, p)
           /\ GoTo(w, "allocate")
           /\ UNCHANGED <<agreementVars, listening>>
        \/ /\ ~AlreadyConfirmed(c, p)
           /\ status[c] # "PENDING" \/ ~ConfirmationAllowed(c)
           /\ IF worker[w].kind = "webhook"
                THEN GoTo(w, "review") /\ UNCHANGED listening
                ELSE End(w)
           /\ UNCHANGED agreementVars
  /\ UNCHANGED <<event, identified, attempts, acknowledged, faults>>

\* After the entitlement a webhook completes its event; the others are done.
Conclude(w) == IF worker[w].kind = "webhook"
                 THEN GoTo(w, "finish") /\ UNCHANGED listening
                 ELSE End(w)

AllocateMetal(w) ==
  /\ At(w, "allocate")
  /\ Allocate(worker[w].contribution)
  /\ Conclude(w)
  /\ UNCHANGED <<event, identified, attempts, acknowledged, faults>>

\* The allocation is refused or fails; nothing of it is kept.
AllocationFails(w) ==
  /\ At(w, "allocate")
  /\ \/ Fault
     \/ /\ allocations[worker[w].contribution] = <<>>
        /\ status[worker[w].contribution] \notin Successful
        /\ UNCHANGED faults
  /\ GoTo(w, "mark")
  /\ UNCHANGED <<agreementVars, listening, event, identified, attempts, acknowledged>>

\* The failure is recorded on the row.  An expected error is swallowed, any
\* other is raised again; recording is refused if the row was corrected away.
MarkContribution(w) ==
  /\ At(w, "mark")
  /\ \/ MarkUnallocated(worker[w].contribution)
     \/ /\ status[worker[w].contribution] \notin Successful
        /\ UNCHANGED agreementVars
  /\ \/ Conclude(w)
     \/ /\ worker[w].kind = "webhook"
        /\ GoTo(w, "defer")
        /\ UNCHANGED listening
  /\ UNCHANGED <<event, identified, attempts, acknowledged, faults>>

\* The process of a request dies, at any point; the provider sees no answer.
Crash(w) ==
  /\ ~At(w, "idle")
  /\ Fault
  /\ AnswerFailure(w)
  /\ UNCHANGED <<agreementVars, event, identified, attempts>>

-----------------------------------------------------------------------------
(* The owner's webhook recovery (reconcile_razorpay_webhook). *)

\* _classify_webhook_recovery
Recoverable(p, c) ==
  /\ p \in identified
  /\ CapturedFor(p, c)
  /\ status[c] = "PENDING" \/ AlreadyConfirmed(c, p)

\* Dry run: a fresh provider inspection whose result, ELIGIBLE_FOR_RECOVERY or
\* ALREADY_PROCESSED, is recorded.
InspectWebhook(p) ==
  /\ \E c \in Rows : Recoverable(p, c)
  /\ owner_results' = owner_results \cup {p}
  /\ UNCHANGED <<agreementVars, worker, listening, event, identified, attempts,
                 acknowledged, faults>>

\* confirm_contribution and allocate_metal, committed together.
ConfirmAndAllocateRow(c, p) ==
  /\ status[c] = "PENDING"
  /\ channel[c] = "RAZORPAY"
  /\ ConfirmationAllowed(c)
  /\ status' = [status EXCEPT ![c] = "PAID"]
  /\ reference' = [reference EXCEPT ![c] = p]
  /\ allocations' = [allocations EXCEPT ![c] = Append(@, scheme_rate[c])]
  /\ UNCHANGED <<account_status, clockVars, latest, channel, period, scheme_rate,
                 order_id, expired>>

\* What a recovery does to the row: the allocation may fail, which leaves the
\* payment confirmed and unallocated.
RecoverRow(p, c) ==
  \/ ConfirmAndAllocateRow(c, p) /\ UNCHANGED faults
  \/ ConfirmRow(c, p) /\ Fault
  \/ /\ AlreadyConfirmed(c, p) /\ status[c] = "PAID_UNALLOCATED"
     /\ \/ Allocate(c) /\ UNCHANGED faults
        \/ MarkUnallocated(c) /\ Fault
  \/ /\ AlreadyConfirmed(c, p) /\ status[c] = "PAID"
     /\ UNCHANGED <<agreementVars, faults>>

\* Apply, after a recorded safe result: re-classified under the locks.
RecoverWebhook(p, c) ==
  /\ p \in owner_results
  /\ Recoverable(p, c)
  /\ RecoverRow(p, c)
  /\ event' = [event EXCEPT ![p] = "PROCESSED"]
  /\ UNCHANGED <<worker, listening, identified, attempts, owner_results, acknowledged>>

-----------------------------------------------------------------------------
WorkerStep(w) ==
  \/ FindContribution(w) \/ ConfirmContribution(w) \/ AllocateMetal(w)
  \/ AllocationFails(w) \/ MarkContribution(w)
  \/ FinishWebhook(w) \/ RequireReview(w) \/ DeferWebhook(w)

ConfirmationStep ==
  \/ \E w \in Workers :
       /\ UNCHANGED owner_results
       /\ \/ WorkerStep(w)
          \/ \E p \in Payments : ReceiveWebhook(w, p)
          \/ \E p \in Payments, c \in Contributions : ReceiveCallback(w, p, c)
          \/ \E c \in Contributions : RetryAllocation(w, c)
          \/ TransientFailure(w) \/ DeliveryTimesOut(w) \/ Crash(w)
  \/ \E p \in Payments : \/ InspectWebhook(p)
                         \/ \E c \in Contributions : RecoverWebhook(p, c)
=============================================================================
