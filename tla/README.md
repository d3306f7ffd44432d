# Verification of the savings-scheme application

TLA+ modules, TLC runs and TLAPS proofs about the Django application in this
repository: a jewellery shop's savings schemes. Customers save online through
Razorpay or in cash at the showroom, in metal or in rupees, monthly or when they
like; after the agreed time what they saved is handed over as jewellery, with a
benefit they may have earned, or given back.

What is hard about it is that nothing happens at one place. A payment is confirmed
by the browser's callback, by a signed webhook that the provider repeats until it is
answered, or by the owner; between the transactions of one request any other
request may run; the provider's answers may be lost; orders cannot be cancelled, so
money may arrive for an attempt the application has given up; and the owner works
in several sessions, from pages and signed previews that may be stale.

    tlc -config MCMonthlyAgreement_monthly.cfg MCMonthlyAgreement
    tlapm MonthlyAgreement_proofs.tla

## 1. The system

All state is in PostgreSQL. Requests run concurrently in several processes; a
service function opens one or more transactions, takes row locks on the
agreement and then on its rows, and calls the provider outside them. The parts
(src/schemes unless noted), with their state, operations, and what makes them
correct:

| Part | State | Operations | Correct when |
|---|---|---|---|
| Agreement and contribution rules: `services.py`, `models.py` | `SchemeAccount`, `Contribution`, `MetalAllocation` | create a contribution, lock its rate, monthly rule | a month is paid once; evidence is never rewritten |
| Legacy online checkout: `checkout_services.py` | `RazorpayCheckoutSubmission`, `RazorpayOrderRequest`, `RazorpayOrderRecovery` | submit a form, call the provider, bind the order, recover a lost order | one open checkout; one provider order per contribution |
| Abandonment: `services.py`, a management command | the contribution | inspect an expired order, abandon the row | never abandons a paid row; nothing abandoned is paid later |
| Capture and confirmation: `services.py`, `views.py` | `PaymentWebhookEvent`, `WebhookProcessingAttempt` | callback, webhook, owner's recovery | captured money is credited once or put up for review, never lost |
| Metal allocation: `services.py` | `MetalAllocation` | allocate, retry, mark failed | PAID exactly when allocated, once, at the locked rate |
| Showroom cash: `services.py` | `InStoreCashReceipt`, reversals | preview, record, replay, reverse | a month is paid once across channels |
| Redemption: `services.py`, `selectors.py` | `Redemption`, `RedemptionReversal` | redeem part or all, reverse | never more than was accumulated |
| Provider: `payments.py` (external) | orders, payments | create, inspect, verify | - |
| Monthly reservations: `instalment*.py` | periods, claims, decisions, holds | reserve, order, attribute, review, release, reverse, hold | one live claim per period; a late capture never qualifies silently |
| Optional orders: `optional_orders.py` | intents, bindings | begin, bind, recover | one checkout outstanding, none handed out over undecided money |
| Refunds: `payment_refund_*.py`, `refunded_orders.py` | observations, resolutions, closures of orders | observe twice, resolve, retire | a refunded payment is never credited |
| INR principal and settlement: `inr_*.py` | receipts, proposals, fulfilments, returns | propose, fulfil, complete, void, return | the legs add up to the principal, once |
| Closures and settlements: `closures.py`, `settlements.py` | requests, events | request, review, cancel, settle, reverse | the retained history is one its readers accept |
| Benefits: `benefit*.py` | awards, fulfilments, reversals, reapplications | award, consume, return, reapply | a right is used once at a time |
| Enrolment: `services.py`, `enrolment_*.py` | requests, agreements | submit, withdraw, decide, convert | one agreement per request, on the terms shown |
| Plans: `plan_*.py`, `catalogue_lifecycle.py` | versions, revisions, publication | version, edit, publish, withdraw, close | what is listed was published; a closure is final |
| Contracts: `plan_policies.py`, `contract*.py`, `eligibility*.py`, `operations.py`, `cash*.py` | policies, terms, schedules, credits | propose, agree, open and close, credit | agreed terms can be operated; dates and rupees are as agreed |
| Reminders: `reminders.py` | reminders, attempts | deliver | bounded retries, no stale mail |
| Accounts: `src/accounts` | invitations, registrations, applications, deletion requests | issue, accept, verify, approve, contain, erase | one live link; an erased login stays erased |
| Content, presentation, deployment | - | - | not modelled: no protocol of their own |

They interact through shared rows (contributions above all), through calls made
inside a transaction (confirmation calls the allocation and the instalment
attribution; a settlement calls the benefits) and through the provider, whose
webhooks come back asynchronously. `PROJECT.json` lists the hazards at the lines
where they bite, with the properties that would catch them.

## 2. The models

Each action is one database transaction, one call to the provider or one page
load, with the guards the code evaluates under its locks. What a request has read
and still carries with it (the contribution a worker found, the event it writes
back, an inspection, a signed preview) is state of the request (`worker`,
`creator`, `desk`), and what it reads again under a lock is not: that is how stale
state shows up. A row is a record in a sequence or a function on primary keys; a key
is the creation rank. Each area is a family of modules, composed by the last but
the MC module.

### Metal agreements (legacy, schema version 1)

`Agreement` (rows, clocks, switches), `Provider` (external), `Checkout`,
`Confirmation` (a worker is a web request with a program counter; it may crash,
fail or lose its listener between transactions), `Showroom` (cash, redemption),
`MetalAgreement` (composition, what the tables admit, the five reports, properties,
fairness), `PaymentLedger` (what the workflow promises: open, paid or closed
contributions and their payers).

Abstractions: all contributions of an agreement have one amount, so a quantity is
a function of the rate (`Grams`). A payment has one webhook event; other event types
change no payment row, and only the final result of an attempt is kept. A key used
again replays what is recorded; a replayed cash receipt also runs its entitlement
again, so `ReplayCash` is an action. An order is `<<contribution, n>>`, so that a
second order for a contribution can be told apart. There is one provider mode.
Unique constraints are not used as guards: `RowsStand` shows that every step is
one the tables admit, so the locks suffice. Reports are of one day, without order
and wording.

### Monthly agreements

`Instalments` (periods, claims, decisions, the audit's view of them),
`InstalmentPayments` (requests, orders, captures, events, cash), `MonthlyAgreement`
(the owner's part: review of late evidence, release, reversal, holds and their
outcomes; and the composition). A period is two ticks long and a checkout lives
`CheckoutTicks`. A claim is a record with its evidence; decisions are a sequence that
only grows. An ORDERING claim whose provider call was lost, or an AWAITING claim
whose event was answered, may wait for the owner for ever: the code is
conservative there (STATUS.md:3062), and no liveness is claimed. Deliveries of one
event overlap: each is a request with a place and a copy of the event of its own
(`delivery`), takes what it read at its start for granted, and when it fails writes
RECEIVED and the contribution it knew over whatever stands in the row by then. So
what an event says now is no evidence of what was decided on it, and the properties
read the attempts (`WebhookProcessingAttempt`), which are only ever added. The
payment switch and the legacy monthly rule are left to the metal modules.

### Optional payments and refunds

`OptionalOrders` (intents, the provider call, exact recovery of a lost answer,
admission before and after it, abandonment, cash), `PaymentRefunds` (an
inspection outside the locks, a second one, the review, the resolution and the
retirement of an order, by two sessions), `OptionalAgreement`. Deliveries overlap
and fail as in the monthly family: the stale RECEIVED of run review reaches
answered events here too, whether they were processed or accepted for review, and
takes the latter off the owner's exception list. What survives it is the attempt, and
that an event which is not decided keeps the agreement on review;
`AnsweredIsAccountedFor` says this much and no more. The expiry of a
review token is the loss of the review (`DropReview`). The answer of the provider is
reduced to what it proves about one payment. An unstarted PENDING row that expires
blocks the agreement until reviewed, as documented.

### Closing an agreement

`Closures` (request, review, cancellation; `ClosureHistoryIsValid` replays the
retained events as every handler does), `BenefitRights`, `Settlements` (of metal and
of INR agreements), `ClosedAgreement`, `PrincipalDisposition` (the
abstract promise: principal is handed over once and in full). A signed preview
carries the whole evidence it was computed from and is compared with today's when
it is used; an idempotent replay is a stutter; an expired token is a preview that is
never used. All contributions have one amount; what a benefit is worth is left
out. Only agreements with an independent contract are modelled; the earlier
`preview_inr_settlement` differs in its gate.

### Plans and enrolment

`PlanCatalogue` (configuration versions, drafts, audited edits, publication,
withdrawal, closure; pages carry digests), `EnrolmentRequests` (submission,
decision, conversion, enrolment at the counter). One transaction per service; a
page stays loaded, so one session of the owner reaches every stale state. Grades
stand for denominations. The form of a request from before revisions is not
bound to a digest, as in the code.

### Accounts

`CustomerLogins` (links, sign-in in two steps, Google), `PlanApplications`
(registration, verification, progress, completion, approval), `AccountDeletions`
(containment, completion, notices). One person's identity is followed. Acceptance
of a mail is one outcome of sending it; allauth and Django are external. Email-matched
registrations that expired or were rejected block a completion by design.

### Reminders

`Reminders`: the command's plan, its loop, the second look under the account's row
lock, attempts, the retry limit. A lost SMTP answer or a crash may mail twice, as
documented; `--limit` is one of the ways a run may end. The evidence behind a date
is reduced to whether it stands and whether a reported capture is undecided. What
changes a date under the agreement's row lock (payments, holds, closures) waits for a
delivery; what does not wait is the report of a capture: the webhook writes and links
its event without that lock, and until it is decided no date stands
(`CaptureReported`). `Stands` is about the agreement's own rows, `Certain` about such
doubts. A completed INR settlement is read with the evidence it was agreed on, so an
event decided after it leaves it unread for good (`Unsound`).

### Contracts

`PlanPolicies` (the policy matrix, its two descriptions, the terms an agreement
keeps), `Calendar` (months, periods, eligibility windows, opening hours),
`CashSavings` (rounded credits, maturity, payouts), `Contracts` (their composition: one of
independent questions is asked in a behaviour). They are mostly pure functions,
checked against reference definitions over bounded inputs. Opening times are 0..2;
amounts are small and positive.

### Not modelled

The Wagtail content, blog and catalogue pages (no protocol), the management checks
and the deployment (read-only), and the layout, wording and admin of the views. Modelled
in part: the evidence of INR principal (its source and refusal are in `Closures`),
Google sign-in (eligibility of a credential only).

## 3. The runs

| Run | Instance | Shows |
|---|---|---|
| capture | 1 contribution, 2 payments, 2 requests, 2 failures | money is credited once, from a captured payment, or reviewed; outcomes and evidence stay |
| agreement | 2 contributions, 2 months, 2 rates; forms, receipts, redemptions | one open checkout and one order, a month paid once, never overdrawn, reports agree, tables admit every step, `PaymentLedger` is implemented |
| settled | as capture with 1 payment, fair | each captured payment is decided in the end |
| redeemed, review | 2 contributions; 1 contribution with 2 requests, 2 failures | *violated*, see below |
| monthly | 3 contributions, 3 periods, 2 payments, 2 events, 2 overlapping deliveries, 2 requests, 1 failure | the schedule is honoured, the ledger keeps its integrity, no answered money is lost, no order is made while blocked, decisions are final |
| optional | 2 contributions, 2 payments, 2 events, 2 overlapping deliveries, 2 requests, 2 sessions, 1 failure | one outstanding checkout; a payment is credited, resolved or waiting, never two of these; retired orders stay empty |
| closing | 2 contributions, 2 dispositions, 2 decisions, 2 sessions, both modes | every history stays one its readers accept; a benefit is spent once; refunds stay within captures; `PrincipalDisposition` is implemented |
| enrolment | 2 versions, 1 plan, 5 saves, 2 requests, 2 agreements | agreements are as requested; a closed plan takes nothing new |
| accounts | 2 logins, 2 links, 2 registrations, 2 deletion requests | one working link; approval as confirmed; outcomes are owed; removal is final |
| reminders | 2 overlapping runs, 2 changes, 2 faults | reminded once, of what is true |
| contracts | policies, schedules, hours and amounts in `MCContracts` | agreed terms are operable, dates and money are kept |

Each of these models would be too large with all of its hazards at once, so the MC
modules state a `Bound` (or `Scenarios`): a disjunction of small scenarios, each of
which combines the hazards that touch each other.

- *metal.* Two payments on one order are the smallest double payment, two requests the
  smallest race, two failures let a step fail and its retry fail too. A second
  month lets a checkout outlive its month; a second, dearer rate keeps metal
  bought at one from being mistaken for metal bought at the other. Agreement: two
  forms with payments that may be closed; or two of form, receipt, failure and
  redemption; or two concurrent requests with two receipts and redemptions at two
  rates.
- *monthly.* Two payments and events about one checkout, whose deliveries overlap; or
  two requests and rows with one of failure, closure and outage, deliveries
  overlapping over one row with a failure; or cash over three periods with an
  outage. Required = 2 with one extra period is the least schedule with a missed
  month, its compensation and a month after it.
- *optional.* Two checkouts without a failure or one with it, a pause instead of a
  failure; or a handed checkout with two payments and events; or refund work by two
  sessions over one payment or by one over two, or by one over one with two
  overlapping deliveries of which one may fail.
- *closing.* Two sessions over one receipt, or one session over two, with a note or
  a second disposition. `Amount` = 2 and invoices of 1 and 3 split a receipt.
- *enrolment.* One departure (a gate, a customer, an overdue request, a closure)
  against the saves; *accounts.* two setbacks before a first sign-in, one by who
  leaves, none by who returns; *reminders.* two changes or faults anywhere.

Symmetry is used in the safety runs for interchangeable model values, never with
fairness. `CHECK_DEADLOCK FALSE` stands in the runs whose system really may stop: an
agreement that is closed, a login that is removed, a catalogue that is closed or a
run of reminders that is over has nothing left to do. In the metal runs the
clocks and pages keep going and deadlock is checked.

Fairness (`FairSpec`, run settled only). Weak fairness on a request's next step:
a started request runs on, unless the model crashes it. Strong fairness on the
delivery of each event: Razorpay repeats an unanswered event for as long as it is
not acknowledged, and a web server takes it when a slot is free from time to
time. Nothing is assumed of customers or of the owner; in particular no one is
assumed to retry, recover or abandon anything. The number of failures is finite.

### Two disagreements

- **redeemed / RedeemedIsSettled.** `complete_redemption` compares the requested
  quantity with the balance of PAID contributions and closes the agreement when
  they are equal (`services.py:2580`). A payment that was captured, or paid and
  not yet allocated, is credited afterwards: the agreement is REDEEMED with metal
  left, and can no longer be redeemed (`services.py:2531`) unless a redemption is
  reversed. `eligibility.py:5-6` says an agreement stays eligible until its
  entitlement is fully redeemed.
- **review / ReviewIsDurable.** The handler of unexpected errors in
  `process_razorpay_webhook` (`services.py:2128-2157`) sets the event back to
  RECEIVED without reading it again. If the provider had timed that delivery out
  and a second delivery has been accepted for review and answered 200, the event
  leaves the owner's exception queue and is never delivered again.
  `ARCHITECTURE.md:305-306` calls the acceptance durable. The attempt row that
  recorded the review survives, which is why `AcknowledgedIsAccountedFor` and
  `CapturedIsDecided` are stated over attempts. The monthly and optional models have
  the same handler, and their properties are stated over attempts for the same reason.
  In a monthly agreement its stale write also reaches an event that a decision cites:
  the audit demands PROCESSED of it (`instalment_selectors.py:343`), counts an integrity
  error, and no eligibility is confirmed while the event says RECEIVED.

What the models show and no run asks: a notice may leave although a capture was
reported while its delivery held the row lock (`reminders.py:335` says that locking
"serializes qualification changes with dispatch", which the report of a capture is not
subject to). `RemindsTheTruth` is what the lock does keep: a delivery begins on a
certain event, and the agreement's own rows still bear the letter out when it leaves.

## 4. What is proved

The `_proofs` modules hold the theorems, for any number of rows, payments, events,
requests, sessions and failures, from the named assumptions on the constants alone,
which TLC evaluates in the runs. `PROJECT.json` lists them with the properties they
state.

| Module | Theorems (each `Spec => []P` or `Spec => P`) |
|---|---|
| `MetalAgreement_proofs` | `TypeOK`, `PaidIffAllocatedOnce`, `OneUnresolvedCheckout`, `OneSuccessPerMonth`, `PendingCanBeConfirmed`, `OutcomeIsFinal`, `EvidenceIsKept`, `CreditIsCaptured`, `AcknowledgedIsAccountedFor`, `OneProviderOrder`, `NeverOverdrawn`, `RowsStand`, `ReportsAgree`, `ImplementsLedger` |
| `MonthlyAgreement_proofs` | `ScheduleIsHonoured`, `LedgerHasIntegrity`, `AnsweredIsAccountedFor`, `NoOrderWhileBlocked`, `ClaimsAreFinal` |
| `OptionalAgreement_proofs` | `OneOutstandingCheckout`, `AnsweredIsAccountedFor`, `HandedWhileClear`, `NeverCreditedAndResolved`, `RetiredOrderHasNoMoney` |
| `ClosedAgreement_proofs` | `BenefitSpentOnce`, `HistoriesValidate`, `RefundsWithinCapture`, `ImplementsDisposition` |
| `EnrolmentRequests_proofs` | `AgreedIsRequested`, `ClosedTakesNothingNew` |
| `Customers_proofs` (of `AccountDeletions` and of `Reminders`) | `OneWorkingLink`, `ApprovedAsConfirmed`, `OutcomeIsOwed`, `RemovedIsFinal`; `RemindedOnce`, `RemindsTheTruth` |
| `Contracts_proofs` | `AgreedIsOperable`, `DatesAreKept`, `MoneyIsKept` |

`Sums` holds the lemmas about sums over finite sets that the balance, the reports, the
legs of a settlement and the credits and payouts of `Contracts` need: a sum is determined by its terms, grows with them, splits over a union, carries
over along a one-to-one map, and entries cancelled by counter-entries add up to what is
not cancelled. The library's induction rules take an operator and cannot be used; each
induction here takes, among the subsets for which the statement fails, one with the
fewest members.

None of these properties is inductive by itself. Each module states the invariant
that is, proves that the initial states have it and that every action keeps it, and
classifies the actions first, so that a part of the invariant is proved against the
few kinds of step there are rather than against every action.

**Metal.** `RowStep` says what any step can do to the rows: nothing, start,
receive, bind, abandon, correct, confirm, allocate or mark one row. `RowInv` adds
`FreshRows` (keys beyond the latest are untouched, otherwise an inserted row might
already carry an allocation), `PendingIsOnline`, `MonthIsExclusive` (a month has at
most one row that is pending or successful; `OneSuccessPerMonth` alone is not
preserved, since confirming a pending row could make a second success) and
`ReferenceIsCredit` (a payment reference stands on a successful online row only,
which makes it permanent). The request invariant says what a worker at each of its
places knows about the row and payment it carries; from it follow that credited money
was captured, that answered events are decided, and that an order is asked for once,
from a form that was reviewed. The refinement of `PaymentLedger` is proved by the same
classes of step: each is a step of the ledger or a stutter.

`NeverOverdrawn` rests on `BalanceInv`: redemptions and their reversals count rows
that exist, none takes more than was there, and what is redeemed stays within what
the allocated rows add up to. Rows are only ever allocated, which adds; the one step
that takes away, the correction of a cash receipt, is refused unless the balance holds
what it removes. `RowsStand`, that no step writes a row the tables would refuse or
rewrites one that `save` keeps, adds `TableInv`: cash rows are received, deadlines
belong to online rows, receipts and their reversals name rows of their kind, and a
request's order stands on the row it was asked for. `ReportsAgree` then follows from both: a
cancelled entry and its counter-entry leave the statement at the balance, receipts
are one to one with cash rows, and the queue of work is one to one with the rows that
were paid and are not allocated.

**Monthly.** `MonthlyInv` is the types, what a claim in each state rests on, what an
event, a running delivery and the evidence may be, orders and their requests, and the
schedule. A stale delivery may write RECEIVED over any status, so a decision rests on an
attempt (`EvidenceHolds`): attempts stand, PROCESSED only with the credit it was
recorded for (`EventSound`), and a running delivery knows its order's row or none.
Steps are of a claim (opened or continued), of money, of an event, of the schedule or
of a request; a claim's step is followed through the decision it appends.

**Optional.** `OptionalInv` is the types, sound rows, at most one pending row, at most
one call for an intent, and sound events and deliveries: an attempt that was recorded
stands, with the credit or the identity it was recorded for, whatever a failing
delivery writes over the status (`EventSound`, `Writes`), and a running delivery knows
the row of its order or none (`DeliverySound`). The refund part adds what a resolution, a
session's inspection and a retirement prove about a payment: an inspection taken
before a capture or a refund is stale, and the invariant is that only evidence which
cannot become false is ever acted upon.

**Closing.** `BenefitInv` says that rows point at rows; that the first invoice used no
approval; and that an INR proposal still to be handed over is bound to nothing while
there was no invoice, and to an approval about the last one since. The last part is what
the handover needs and no handler checks: between proposal and handover another
invoice would use the approval up. That none is written in between follows from the
linear chain of retired dispositions which every handler checks again.

`ClosingInv` is `BenefitInv` and what the tables say together. A request's status is
the replay of its events, which is a fold: `ReplayGrows` shows that one more event
advances the replay by one, from a table of the replays of all prefixes. One request is
in force and the account is where it has come to. The dispositions are a chain about
one closure of which only the last can be in force; principal rests while one is, in
INR from the first proposal on; an invoice and the refunds of the rest add up to all
of it (`SplitIsWhole`: the receipts are numbered one to one, so what precedes each is
what the earlier ones add up to); invoices follow the handovers of benefits; and what
a session loaded names rows that exist. `HistoriesValidate` follows from the invariant
at every state, so no handler's validation can come to refuse a history the handlers
wrote. `RefundsWithinCapture` alone is not inductive: a proposal checks its refunds
against the past when it is made, and they are paid later. `RefundsAreCovered` adds
that what the proposal in force still owes fits beside what was paid, which holds on
because no other proposal can be made meanwhile. For `ImplementsDisposition`, what the
customer holds is what the one disposition in force has handed over, between nothing
and the principal, and all of it when completed (`HandedIsSound`); each step of the
closing is then one of the promise or a stutter. The assumptions are a positive amount,
natural bounds, and jewellery of natural cost.

**Enrolment.** `EnrolmentInv`: sound plans and revisions, closed families, requests
bound to the revision they showed, agreements under the evidence they cite, one
agreement for a request, at most one pending request for a plan.

**Accounts.** Logins that are removed are shut; at most one link works; progress
access of a removed person is shut; an agreement is made once; each notice is owed by
one completion.

**Reminders.** The row lock holds from the second look to the record of the answer;
one accepted attempt stands; each further letter is one whose answer was lost. While
it is held, no step changes the agreement's own rows, so what stood and was certain
when the delivery began still stands when the letter leaves; that it is still certain
does not follow.

**Contracts.** `ContractsInv` says that the answer given last is right and that the
cash agreement is sound; each kind of question is answered by a lemma about the
operators alone, so the theorems hold for every row of the configurations' table, every
date, set of missed months, weekly hours, amount, rate and percentage, and not only for
those of `MCContracts`.

- *Policies.* `RowsAgree`: for schema 1 and 2, and for each side of the required and
  the optional obligation, the constraints of the table imply the typed validation
  (`StoredIsOperational`), and the validation implies the constraints where a row can
  be written both ways (`ValidTwoIsStored`). `AgreementIsOperable` follows the fields an
  agreement takes from its row through the agreement's constraints, the terms resolved
  again and the amounts a payment may have.
- *Dates.* A date's place is decided by its month, counted from the first, and by its
  day within it. Every boundary of a schedule is a date of the start's month plus its
  number (`BoundaryIsDate`), whatever the day is clamped to, which makes windows
  gapless, never empty and each boundary the start of one window only. For a
  completion, payments are assumed in the first windows that were not missed: with
  `k` of `required + 3` missed there are `required + 3 - k` left, so a fourth miss
  leaves too few; with fewer, the first window left unpaid already has the required
  number before it, and the last paid one is within `required + k` (`PaidWindows`).
  The next opening is the least number of days ahead that qualifies, and a closed
  instant of today after the opening is one after the closing too (`NextOpeningFound`).
- *Money.* `HalfUp` is within half of its divisor (`HalfUpIsNear`), so each credit adds
  at most half its rate to the difference between metal and money, and a percentage of
  more is not less (`CashBonusGrows`). Payouts are sums over what stands. `CashIsPaidOnce`
  alone is not inductive: the bonus earned must not shrink under payouts made, which it
  does not because nothing is paid out before maturity, and from then on what counts
  for the bonus only grows.

The assumptions are the types of the table's fields, NULL being neither a number nor a
grade, dates being dates, windows opening before they close, and positive rates and
instalments.

Only model-checked: `CapturedIsDecided`, which is liveness under fairness and beyond
the prover.
