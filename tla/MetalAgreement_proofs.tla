------------------------ MODULE MetalAgreement_proofs ------------------------
(***************************************************************************)
(* Theorems about MetalAgreement, for every number of contributions,       *)
(* payments, submission keys, requests and faults.                         *)
(***************************************************************************)
EXTENDS MetalAgreement, Sums, TLAPS

-----------------------------------------------------------------------------
(* Type correctness, one component at a time. *)

\* The empty agreement has the right types.
LEMMA InitTypeOK == Init => TypeOK
  BY BoundsAssumption, RuleAssumption, PaymentAssumption, FaultAssumption
     DEF Init, AgreementInit, ProviderInit, CheckoutInit, ConfirmationInit, ShowroomInit,
         TypeOK, AgreementTypeOK, ProviderTypeOK, CheckoutTypeOK, ConfirmationTypeOK,
         ShowroomTypeOK, Contributions, Rates, Statuses, Channels, NotRendered, Idle,
         WorkerRecords, Places, Final

\* A step that leaves a component's variables alone keeps their types.
LEMMA AgreementKept == AgreementTypeOK /\ UNCHANGED agreementVars => AgreementTypeOK'
  BY DEF AgreementTypeOK, agreementVars, clockVars, rowVars

\* The same of the provider's record.
LEMMA ProviderKept == ProviderTypeOK /\ UNCHANGED providerVars => ProviderTypeOK'
  BY DEF ProviderTypeOK, providerVars

\* The same of the checkout's tables.
LEMMA CheckoutKept == CheckoutTypeOK /\ UNCHANGED checkoutVars => CheckoutTypeOK'
  BY DEF CheckoutTypeOK, checkoutVars

\* The same of the requests and events.
LEMMA ConfirmationKept ==
  ConfirmationTypeOK /\ UNCHANGED confirmationVars => ConfirmationTypeOK'
  BY DEF ConfirmationTypeOK, confirmationVars

\* The same of the showroom's tables.
LEMMA ShowroomKept == ShowroomTypeOK /\ UNCHANGED showroomVars => ShowroomTypeOK'
  BY DEF ShowroomTypeOK, showroomVars

\* Time, rates, the payment controls and deadlines.
LEMMA ClockTypeOK == AgreementTypeOK /\ ClockStep => AgreementTypeOK'
<1>1. AgreementTypeOK /\ NextMonth => AgreementTypeOK'
  BY DEF NextMonth, AgreementTypeOK, rowVars
<1>2. AgreementTypeOK /\ PublishSchemeRate => AgreementTypeOK'
  BY BoundsAssumption DEF PublishSchemeRate, AgreementTypeOK, rowVars, Rates
<1>3. AgreementTypeOK /\ TogglePaymentInitiation => AgreementTypeOK'
  BY DEF TogglePaymentInitiation, AgreementTypeOK, rowVars
<1>4. ASSUME NEW c \in Contributions, AgreementTypeOK, CheckoutExpires(c)
      PROVE  AgreementTypeOK'
  BY <1>4 DEF CheckoutExpires, AgreementTypeOK, clockVars
<1>5. QED
  BY <1>1, <1>2, <1>3, <1>4 DEF ClockStep

\* A payment attempted or captured at the provider.
LEMMA PaymentTypeOK == ProviderTypeOK /\ PaymentStep => ProviderTypeOK'
<1>1. ASSUME NEW p \in Payments, ProviderTypeOK, AttemptPayment(p)
      PROVE  ProviderTypeOK'
  BY <1>1 DEF AttemptPayment, ProviderTypeOK
<1>2. ASSUME NEW p \in Payments, ProviderTypeOK, CapturePayment(p)
      PROVE  ProviderTypeOK'
  BY <1>2 DEF CapturePayment, ProviderTypeOK
<1>3. QED
  BY <1>1, <1>2 DEF PaymentStep

\* A new row, whatever its channel and first status.
LEMMA InsertTypeOK ==
  ASSUME AgreementTypeOK, UNCHANGED <<account_status, clockVars>>,
         NEW c \in Contributions, NEW s \in Statuses, NEW ch \in Channels,
         InsertContribution(c, s, ch)
  PROVE  AgreementTypeOK'
  BY BoundsAssumption DEF InsertContribution, AgreementTypeOK, clockVars, Contributions

\* The steps that confirm, credit and re-open a row.
LEMMA RowTypeOK ==
  ASSUME AgreementTypeOK, NEW c,
         \/ \E p \in Payments : ConfirmRow(c, p)
         \/ Allocate(c)
         \/ MarkUnallocated(c)
  PROVE  AgreementTypeOK'
<1>1. ASSUME NEW p \in Payments, ConfirmRow(c, p)
      PROVE  AgreementTypeOK'
  BY <1>1 DEF ConfirmRow, AgreementTypeOK, clockVars, Statuses
<1>2. CASE AllocateRow(c)
  <2>1. /\ status' \in [Contributions -> Statuses]
        /\ UNCHANGED <<account_status, month, current_rate, initiation_open, latest,
                       channel, period, scheme_rate, order_id, reference, expired>>
    BY <1>2 DEF AllocateRow, AgreementTypeOK, clockVars, Statuses
  <2>2. allocations' \in [Contributions -> Seq(Rates)]
    <3>1. CASE c \in Contributions
      <4>1. allocations[c] \in Seq(Rates) /\ scheme_rate[c] \in Rates
        BY <3>1 DEF AgreementTypeOK
      <4>2. Append(allocations[c], scheme_rate[c]) \in Seq(Rates)
        BY <4>1
      <4>3. QED
        BY <1>2, <4>2 DEF AllocateRow, AgreementTypeOK
    <3>2. CASE c \notin Contributions
      BY <1>2, <3>2 DEF AllocateRow, AgreementTypeOK
    <3>3. QED
      BY <3>1, <3>2
  <2>3. QED
    BY <2>1, <2>2 DEF AgreementTypeOK
<1>3. CASE KeepAllocation(c)
  BY <1>3 DEF KeepAllocation, AgreementTypeOK, clockVars, Statuses
<1>4. CASE MarkUnallocated(c)
  BY <1>4 DEF MarkUnallocated, AgreementTypeOK, clockVars, Statuses
<1>5. QED
  BY <1>1, <1>2, <1>3, <1>4 DEF Allocate

\* The checkout, one step of CheckoutStep at a time.
LEMMA CheckoutTypeCorrect ==
  ASSUME AgreementTypeOK, ProviderTypeOK, CheckoutTypeOK, CheckoutStep
  PROVE  AgreementTypeOK' /\ ProviderTypeOK' /\ CheckoutTypeOK'
<1> DEFINE Goal == AgreementTypeOK' /\ ProviderTypeOK' /\ CheckoutTypeOK'
<1>1. ASSUME NEW k \in Keys, UNCHANGED providerVars, RenderForm(k)
      PROVE  Goal
  BY <1>1, AgreementKept, ProviderKept, BoundsAssumption
     DEF RenderForm, CheckoutTypeOK, AgreementTypeOK, NotRendered
<1>2. ASSUME NEW k \in Keys, NEW c \in 0..MaxContributions, UNCHANGED agreementVars,
             UNCHANGED <<providerVars, form, order_request, recovery, creator, inspected>>,
             submission' = [submission EXCEPT ![k] = c]
      PROVE  Goal
  BY <1>2, AgreementKept, ProviderKept DEF CheckoutTypeOK
<1>3. ASSUME NEW k \in Keys, UNCHANGED providerVars, AliasPending(k)
      PROVE  Goal
  <2>1. PICK c \in Rows : Resolve(k, c)
    BY <1>3 DEF AliasPending, Unresolved
  <2>2. c \in 0..MaxContributions
    BY BoundsAssumption DEF Rows, Contributions
  <2>3. QED
    BY <1>2, <1>3, <2>1, <2>2 DEF Resolve
<1>4. ASSUME NEW k \in Keys, UNCHANGED providerVars, AliasLatest(k)
      PROVE  Goal
  BY <1>2, <1>4 DEF AliasLatest, AgreementTypeOK
<1>5. ASSUME NEW k \in Keys, UNCHANGED providerVars, InitiateCheckout(k)
      PROVE  Goal
  <2>1. PICK c \in Contributions :
          /\ InsertContribution(c, "PENDING", "RAZORPAY")
          /\ submission' = [submission EXCEPT ![k] = c]
          /\ order_request' = order_request \cup {c}
          /\ creator' = [creator EXCEPT ![c] = "calling"]
    BY <1>5 DEF InitiateCheckout
  <2>2. AgreementTypeOK'
    BY <1>5, <2>1, InsertTypeOK DEF InitiateCheckout, Statuses, Channels
  <2>3. CheckoutTypeOK'
    BY <1>5, <2>1, BoundsAssumption DEF InitiateCheckout, CheckoutTypeOK, Contributions
  <2>4. QED
    BY <1>5, <2>2, <2>3, ProviderKept
<1>6. ASSUME NEW c \in Contributions, CallProvider(c)
      PROVE  Goal
  BY <1>6, AgreementKept DEF CallProvider, CreateOrder, ProviderTypeOK, CheckoutTypeOK
<1>7. ASSUME NEW c \in Contributions, CreatorStops(c)
      PROVE  Goal
  BY <1>7, AgreementKept, ProviderKept DEF CreatorStops, CheckoutTypeOK
<1>8. ASSUME NEW c \in Contributions, UNCHANGED providerVars, BindOrder(c)
      PROVE  Goal
  <2>1. AgreementTypeOK'
    BY <1>8 DEF BindOrder, AgreementTypeOK, ProviderTypeOK, clockVars
  <2>2. CheckoutTypeOK'
    BY <1>8 DEF BindOrder, CheckoutTypeOK
  <2>3. QED
    BY <1>8, <2>1, <2>2, ProviderKept
<1>9. ASSUME NEW c \in Contributions, UNCHANGED providerVars, RecoverOrderIdentity(c)
      PROVE  Goal
  <2>1. PICK n \in 1..orders[c] : order_id' = [order_id EXCEPT ![c] = n]
    BY <1>9 DEF RecoverOrderIdentity
  <2>2. n \in Nat
    BY <2>1 DEF ProviderTypeOK
  <2>3. AgreementTypeOK'
    BY <1>9, <2>1, <2>2 DEF RecoverOrderIdentity, AgreementTypeOK, clockVars
  <2>4. CheckoutTypeOK'
    BY <1>9 DEF RecoverOrderIdentity, CheckoutTypeOK
  <2>5. QED
    BY <1>9, <2>3, <2>4, ProviderKept
<1>10. ASSUME NEW c \in Contributions, UNCHANGED providerVars, InspectOrder(c)
       PROVE  Goal
  BY <1>10, AgreementKept, ProviderKept DEF InspectOrder, CheckoutTypeOK
<1>11. ASSUME NEW c \in Contributions, UNCHANGED providerVars, ApplyAbandonment(c)
       PROVE  Goal
  <2>1. AgreementTypeOK'
    BY <1>11 DEF ApplyAbandonment, AgreementTypeOK, clockVars, Statuses
  <2>2. CheckoutTypeOK'
    BY <1>11 DEF ApplyAbandonment, CheckoutTypeOK
  <2>3. QED
    BY <1>11, <2>1, <2>2, ProviderKept
<1>12. QED
  BY <1>1, <1>3, <1>4, <1>5, <1>6, <1>7, <1>8, <1>9, <1>10, <1>11 DEF CheckoutStep

\* What the request helpers do to the request record.
LEMMA GoToTypeOK ==
  ASSUME worker \in [Workers -> WorkerRecords], NEW w \in Workers, NEW place \in Places,
         GoTo(w, place)
  PROVE  worker' \in [Workers -> WorkerRecords]
<1>1. [worker[w] EXCEPT !.at = place] \in WorkerRecords
  BY DEF WorkerRecords
<1>2. QED
  BY <1>1 DEF GoTo

\* A request that starts.
LEMMA BeginTypeOK ==
  ASSUME worker \in [Workers -> WorkerRecords], NEW w \in Workers,
         NEW kind, NEW place \in Places, NEW p, NEW c \in 0..MaxContributions,
         \/ kind \in {"webhook", "callback"} /\ p \in Payments
         \/ kind = "entitle" /\ p = NoPayment,
         Begin(w, kind, place, p, c)
  PROVE  worker' \in [Workers -> WorkerRecords]
<1>1. [kind |-> kind, at |-> place, payment |-> p, contribution |-> c] \in WorkerRecords
  BY DEF WorkerRecords
<1>2. QED
  BY <1>1 DEF Begin

\* A request that ends.
LEMMA EndTypeOK ==
  ASSUME worker \in [Workers -> WorkerRecords], listening \subseteq Workers,
         NEW w \in Workers, End(w)
  PROVE  worker' \in [Workers -> WorkerRecords] /\ listening' \subseteq Workers
<1>1. Idle \in WorkerRecords
  BY BoundsAssumption DEF Idle, WorkerRecords, Places
<1>2. QED
  BY <1>1 DEF End

\* A request after its entitlement.
LEMMA ConcludeTypeOK ==
  ASSUME worker \in [Workers -> WorkerRecords], listening \subseteq Workers,
         NEW w \in Workers, Conclude(w)
  PROVE  worker' \in [Workers -> WorkerRecords] /\ listening' \subseteq Workers
  BY GoToTypeOK, EndTypeOK DEF Conclude, Places

\* A contribution read out of a request record, and one named by the caller.
LEMMA Keys0 == Contributions \subseteq 0..MaxContributions
  BY BoundsAssumption DEF Contributions

\* A webhook works on a payment.
LEMMA WebhookHasPayment ==
  ASSUME worker \in [Workers -> WorkerRecords], NEW w \in Workers,
         worker[w].kind = "webhook"
  PROVE  worker[w].payment \in Payments
  BY DEF WorkerRecords

\* The steps a started request takes by itself.
LEMMA WorkerStepTypeOK ==
  ASSUME AgreementTypeOK, ConfirmationTypeOK, NEW w \in Workers, WorkerStep(w),
         UNCHANGED owner_results
  PROVE  AgreementTypeOK' /\ ConfirmationTypeOK'
<1> DEFINE p == worker[w].payment
           c == worker[w].contribution
           Goal == AgreementTypeOK' /\ ConfirmationTypeOK'
<1> USE DEF ConfirmationTypeOK
<1>1. CASE FindContribution(w)
  <2>1. p \in Payments
    BY <1>1, WebhookHasPayment DEF FindContribution, Serving
  <2>2. worker' \in [Workers -> WorkerRecords]
    <3>1. CASE GoTo(w, "review")
      BY <3>1, GoToTypeOK DEF Places
    <3>2. ASSUME NEW d \in Rows,
                 worker' = [worker EXCEPT ![w].contribution = d, ![w].at = AfterLookup(d)]
          PROVE  worker' \in [Workers -> WorkerRecords]
      <4>1. d \in 0..MaxContributions
        BY Keys0 DEF Rows
      <4>2. AfterLookup(d) \in Places
        BY DEF AfterLookup, Places
      <4>3. [worker[w] EXCEPT !.contribution = d, !.at = AfterLookup(d)] \in WorkerRecords
        BY <4>1, <4>2 DEF WorkerRecords
      <4>4. QED
        BY <3>2, <4>3
    <3>3. QED
      BY <1>1, <3>1, <3>2 DEF FindContribution
  <2>3. QED
    BY <1>1, <2>1, <2>2, AgreementKept DEF FindContribution
<1>2. CASE ConfirmContribution(w)
  <2>1. CASE ConfirmRow(c, p) /\ GoTo(w, "allocate") /\ UNCHANGED listening
    <3>1. AgreementTypeOK'
      BY <2>1 DEF ConfirmRow, AgreementTypeOK, clockVars, Statuses, WorkerRecords
    <3>2. QED
      BY <1>2, <2>1, <3>1, GoToTypeOK DEF ConfirmContribution, Places
  <2>2. CASE UNCHANGED <<agreementVars, listening>> /\ \E place \in Places : GoTo(w, place)
    BY <1>2, <2>2, AgreementKept, GoToTypeOK DEF ConfirmContribution
  <2>3. CASE UNCHANGED agreementVars /\ End(w)
    BY <1>2, <2>3, AgreementKept, EndTypeOK DEF ConfirmContribution
  <2>4. QED
    BY <1>2, <2>1, <2>2, <2>3 DEF ConfirmContribution, Places
<1>3. CASE AllocateMetal(w)
  <2>1. AgreementTypeOK'
    BY <1>3, RowTypeOK DEF AllocateMetal
  <2>2. QED
    BY <1>3, <2>1, ConcludeTypeOK DEF AllocateMetal
<1>4. CASE AllocationFails(w)
  BY <1>4, AgreementKept, GoToTypeOK, FaultAssumption DEF AllocationFails, Fault, Places
<1>5. CASE MarkContribution(w)
  <2>1. AgreementTypeOK'
    BY <1>5, RowTypeOK, AgreementKept DEF MarkContribution
  <2>2. worker' \in [Workers -> WorkerRecords] /\ listening' \subseteq Workers
    BY <1>5, ConcludeTypeOK, GoToTypeOK DEF MarkContribution, Places
  <2>3. QED
    BY <1>5, <2>1, <2>2 DEF MarkContribution
<1>6. CASE FinishWebhook(w)
  BY <1>6, AgreementKept, EndTypeOK, WebhookHasPayment
     DEF FinishWebhook, Serving, Answer200, Record, Final
<1>7. CASE RequireReview(w)
  BY <1>7, AgreementKept, EndTypeOK, WebhookHasPayment
     DEF RequireReview, Serving, Answer200, Record, Final
<1>8. CASE DeferWebhook(w)
  BY <1>8, AgreementKept, EndTypeOK, WebhookHasPayment
     DEF DeferWebhook, Serving, AnswerFailure
<1>9. QED
  BY <1>1, <1>2, <1>3, <1>4, <1>5, <1>6, <1>7, <1>8 DEF WorkerStep

\* The row a webhook recovery works on.
LEMMA RecoverRowTypeOK ==
  ASSUME AgreementTypeOK, faults \in 0..MaxFaults, NEW p \in Payments,
         NEW c \in Contributions, RecoverRow(p, c)
  PROVE  AgreementTypeOK' /\ faults' \in 0..MaxFaults
<1>1. faults' \in 0..MaxFaults
  BY FaultAssumption DEF RecoverRow, Fault
<1>2. CASE ConfirmRow(c, p) \/ Allocate(c) \/ MarkUnallocated(c)
  BY <1>1, <1>2, RowTypeOK
<1>3. CASE UNCHANGED agreementVars
  BY <1>1, <1>3, AgreementKept
<1>4. CASE ConfirmAndAllocateRow(c, p)
  <2>1. allocations[c] \in Seq(Rates) /\ scheme_rate[c] \in Rates
    BY DEF AgreementTypeOK
  <2>2. Append(allocations[c], scheme_rate[c]) \in Seq(Rates)
    BY <2>1
  <2>3. QED
    BY <1>1, <1>4, <2>2 DEF ConfirmAndAllocateRow, AgreementTypeOK, clockVars, Statuses
<1>5. QED
  BY <1>2, <1>3, <1>4 DEF RecoverRow

\* The requests, the events and the owner's recovery.
LEMMA ConfirmationTypeCorrect ==
  ASSUME AgreementTypeOK, ConfirmationTypeOK, ConfirmationStep
  PROVE  AgreementTypeOK' /\ ConfirmationTypeOK'
<1> DEFINE Goal == AgreementTypeOK' /\ ConfirmationTypeOK'
<1> USE DEF ConfirmationTypeOK
<1>1. ASSUME NEW w \in Workers, UNCHANGED owner_results, WorkerStep(w)
      PROVE  Goal
  BY <1>1, WorkerStepTypeOK
<1>2. ASSUME NEW w \in Workers, UNCHANGED owner_results, NEW p \in Payments,
             ReceiveWebhook(w, p)
      PROVE  Goal
  <2>1. CASE event[p] \in Final
    BY <1>2, <2>1, AgreementKept DEF ReceiveWebhook
  <2>2. CASE event[p] \notin Final
    <3>1. worker' \in [Workers -> WorkerRecords]
      <4>1. Begin(w, "webhook", "find", p, 0)
        BY <1>2, <2>2 DEF ReceiveWebhook
      <4>2. 0 \in 0..MaxContributions /\ "find" \in Places
        BY BoundsAssumption DEF Places
      <4>3. QED
        BY <4>1, <4>2, BeginTypeOK
    <3>2. QED
      BY <1>2, <2>2, <3>1, AgreementKept DEF ReceiveWebhook
  <2>3. QED
    BY <2>1, <2>2
<1>3. ASSUME NEW w \in Workers, UNCHANGED owner_results, NEW p \in Payments,
             NEW c \in Contributions, ReceiveCallback(w, p, c)
      PROVE  Goal
  BY <1>3, AgreementKept, BeginTypeOK, Keys0 DEF ReceiveCallback, Places
<1>4. ASSUME NEW w \in Workers, UNCHANGED owner_results, NEW c \in Contributions,
             RetryAllocation(w, c)
      PROVE  Goal
  BY <1>4, AgreementKept, BeginTypeOK, Keys0 DEF RetryAllocation, Places
<1>5. ASSUME NEW w \in Workers, UNCHANGED owner_results, TransientFailure(w)
      PROVE  Goal
  BY <1>5, AgreementKept, GoToTypeOK, FaultAssumption DEF TransientFailure, Fault, Places
<1>6. ASSUME NEW w \in Workers, UNCHANGED owner_results, DeliveryTimesOut(w)
      PROVE  Goal
  BY <1>6, AgreementKept, FaultAssumption DEF DeliveryTimesOut, Fault
<1>7. ASSUME NEW w \in Workers, UNCHANGED owner_results, Crash(w)
      PROVE  Goal
  BY <1>7, AgreementKept, EndTypeOK, FaultAssumption DEF Crash, Fault, AnswerFailure
<1>8. ASSUME NEW p \in Payments, InspectWebhook(p)
      PROVE  Goal
  BY <1>8, AgreementKept DEF InspectWebhook
<1>9. ASSUME NEW p \in Payments, NEW c \in Contributions, RecoverWebhook(p, c)
      PROVE  Goal
  BY <1>9, RecoverRowTypeOK DEF RecoverWebhook, Final
<1>10. QED
  BY <1>1, <1>2, <1>3, <1>4, <1>5, <1>6, <1>7, <1>8, <1>9 DEF ConfirmationStep

\* Cash receipts, corrections and redemptions.
LEMMA ShowroomTypeCorrect ==
  ASSUME AgreementTypeOK, ConfirmationTypeOK, ShowroomTypeOK, ShowroomStep
  PROVE  AgreementTypeOK' /\ ConfirmationTypeOK' /\ ShowroomTypeOK'
<1> DEFINE Goal == AgreementTypeOK' /\ ConfirmationTypeOK' /\ ShowroomTypeOK'
<1>1. ASSUME NEW r \in Receipts, PreviewCash(r)
      PROVE  Goal
  BY <1>1, AgreementKept, ConfirmationKept DEF PreviewCash, ShowroomTypeOK, AgreementTypeOK
<1>2. ASSUME NEW r \in Receipts, NEW w \in Workers, RecordCash(w, r)
      PROVE  Goal
  <2>1. PICK c \in Contributions :
          /\ InsertContribution(c, "PAID_UNALLOCATED", "IN_STORE_CASH")
          /\ receipt' = [receipt EXCEPT ![r] = c]
          /\ correction_open' = correction_open \cup {c}
          /\ Begin(w, "entitle", "allocate", NoPayment, c)
    BY <1>2 DEF RecordCash
  <2>2. AgreementTypeOK'
    BY <1>2, <2>1, InsertTypeOK DEF RecordCash, Statuses, Channels
  <2>3. ConfirmationTypeOK'
    BY <1>2, <2>1, BeginTypeOK, Keys0 DEF RecordCash, ConfirmationTypeOK, Places
  <2>4. ShowroomTypeOK'
    BY <1>2, <2>1, Keys0 DEF RecordCash, ShowroomTypeOK
  <2>5. QED
    BY <2>2, <2>3, <2>4
<1>3. ASSUME NEW r \in Receipts, NEW w \in Workers, ReplayCash(w, r)
      PROVE  Goal
  <2>1. worker' \in [Workers -> WorkerRecords]
    BY <1>3, BeginTypeOK DEF ReplayCash, ConfirmationTypeOK, ShowroomTypeOK, Places
  <2>2. QED
    BY <1>3, <2>1, AgreementKept, ShowroomKept DEF ReplayCash, ConfirmationTypeOK
<1>4. ASSUME NEW c \in Contributions, CorrectionCloses(c)
      PROVE  Goal
  BY <1>4, AgreementKept, ConfirmationKept DEF CorrectionCloses, ShowroomTypeOK
<1>5. ASSUME NEW c \in Contributions, ReverseCash(c)
      PROVE  Goal
  <2>1. AgreementTypeOK'
    BY <1>5 DEF ReverseCash, AgreementTypeOK, clockVars, Statuses
  <2>2. QED
    BY <1>5, <2>1, ConfirmationKept, ShowroomKept DEF ReverseCash
<1>6. ASSUME NEW s \in Settlements, CompleteRedemption(s)
      PROVE  Goal
  <2>1. PICK amount \in Quantities :
          /\ redeemed' = [redeemed EXCEPT ![s] = amount]
          /\ account_status' = IF amount = Outstanding THEN "REDEEMED" ELSE account_status
    BY <1>6 DEF CompleteRedemption
  <2>2. AgreementTypeOK'
    BY <1>6, <2>1 DEF CompleteRedemption, AgreementTypeOK, clockVars, rowVars
  <2>3. ShowroomTypeOK'
    BY <1>6, <2>1, GramsAssumption DEF CompleteRedemption, ShowroomTypeOK, AgreementTypeOK
  <2>4. QED
    BY <1>6, <2>2, <2>3, ConfirmationKept DEF CompleteRedemption
<1>7. ASSUME NEW s \in Settlements, ReverseRedemption(s)
      PROVE  Goal
  <2>1. AgreementTypeOK'
    BY <1>7 DEF ReverseRedemption, AgreementTypeOK, clockVars, rowVars
  <2>2. ShowroomTypeOK'
    BY <1>7 DEF ReverseRedemption, ShowroomTypeOK
  <2>3. QED
    BY <1>7, <2>1, <2>2, ConfirmationKept DEF ReverseRedemption
<1>8. QED
  BY <1>1, <1>2, <1>3, <1>4, <1>5, <1>6, <1>7 DEF ShowroomStep

\* Every variable keeps its type, whatever the size of the instance.
THEOREM TypeCorrect == Spec => []TypeOK
<1>1. Init => TypeOK
  BY InitTypeOK
<1>2. TypeOK /\ [Next]_vars => TypeOK'
  <2> SUFFICES ASSUME TypeOK, [Next]_vars
               PROVE  TypeOK'
    OBVIOUS
  <2> USE DEF TypeOK
  <2>1. CASE /\ ClockStep
             /\ UNCHANGED <<providerVars, checkoutVars, confirmationVars, showroomVars>>
    BY <2>1, ClockTypeOK, ProviderKept, CheckoutKept, ConfirmationKept, ShowroomKept
  <2>2. CASE /\ PaymentStep
             /\ UNCHANGED <<agreementVars, checkoutVars, confirmationVars, showroomVars>>
    BY <2>2, AgreementKept, PaymentTypeOK, CheckoutKept, ConfirmationKept, ShowroomKept
  <2>3. CASE CheckoutStep /\ UNCHANGED <<confirmationVars, showroomVars>>
    BY <2>3, CheckoutTypeCorrect, ConfirmationKept, ShowroomKept
  <2>4. CASE ConfirmationStep /\ UNCHANGED <<providerVars, checkoutVars, showroomVars>>
    BY <2>4, ConfirmationTypeCorrect, ProviderKept, CheckoutKept, ShowroomKept
  <2>5. CASE ShowroomStep /\ UNCHANGED <<providerVars, checkoutVars>>
    BY <2>5, ShowroomTypeCorrect, ProviderKept, CheckoutKept
  <2>6. CASE UNCHANGED vars
    BY <2>6, AgreementKept, ProviderKept, CheckoutKept, ConfirmationKept, ShowroomKept
       DEF vars
  <2>7. QED
    BY <2>1, <2>2, <2>3, <2>4, <2>5, <2>6 DEF Next
<1>3. QED
  BY <1>1, <1>2, PTL DEF Spec

-----------------------------------------------------------------------------
(* What a step of the system, whoever takes it, can do to the rows. *)

rowColumns == <<latest, status, channel, period, scheme_rate, order_id, reference,
                allocations>>

Started(c) == /\ InsertContribution(c, "PENDING", "RAZORPAY")
              /\ Unresolved = {}
              /\ ContributionAllowed(0)

Received(c) == /\ InsertContribution(c, "PAID_UNALLOCATED", "IN_STORE_CASH")
               /\ ~OnlinePending
               /\ ContributionAllowed(0)

Bound(c) == /\ status[c] = "PENDING"
            /\ order_id[c] = 0
            /\ \E n \in Nat : order_id' = [order_id EXCEPT ![c] = n]
            /\ UNCHANGED <<latest, status, channel, period, scheme_rate, reference,
                           allocations>>

Abandoned(c) == /\ status[c] = "PENDING"
                /\ status' = [status EXCEPT ![c] = "ABANDONED"]
                /\ UNCHANGED <<latest, channel, period, scheme_rate, order_id, reference,
                               allocations>>

Corrected(c) == /\ channel[c] = "IN_STORE_CASH"
                /\ status[c] \in Successful
                /\ allocations[c] = <<>> \/ Balance >= AllocatedGrams(c)
                /\ status' = [status EXCEPT ![c] = "REVERSED"]
                /\ UNCHANGED <<latest, channel, period, scheme_rate, order_id, reference,
                               allocations>>

\* The steps that pay no online contribution.
QuietStep ==
  \/ UNCHANGED rowColumns
  \/ \E c \in Contributions :
       \/ Started(c) \/ Received(c) \/ Bound(c) \/ Abandoned(c) \/ Corrected(c)
       \/ AllocateRow(c) \/ KeepAllocation(c) \/ MarkUnallocated(c)

RowStep ==
  \/ QuietStep
  \/ \E c \in Contributions : \E p : ConfirmRow(c, p) \/ ConfirmAndAllocateRow(c, p)

\* The clocks change no row, except that a deadline passes.
LEMMA ClockRowStep == ClockStep => QuietStep
  BY DEF ClockStep, NextMonth, PublishSchemeRate, TogglePaymentInitiation, CheckoutExpires,
         QuietStep, rowColumns, rowVars

\* The checkout inserts, binds and abandons rows.
LEMMA CheckoutRowStep ==
  ASSUME AgreementTypeOK, ProviderTypeOK, CheckoutStep
  PROVE  QuietStep
<1> USE DEF QuietStep, rowColumns
<1>1. CASE UNCHANGED rowVars
  BY <1>1 DEF rowVars
<1>2. ASSUME NEW k \in Keys, InitiateCheckout(k)
      PROVE  QuietStep
  BY <1>2 DEF InitiateCheckout, Started
<1>3. ASSUME NEW c \in Contributions, BindOrder(c)
      PROVE  QuietStep
  <2>1. orders[c] \in Nat
    BY DEF ProviderTypeOK
  <2>2. QED
    BY <1>3, <2>1 DEF BindOrder, Bound
<1>4. ASSUME NEW c \in Contributions, RecoverOrderIdentity(c)
      PROVE  QuietStep
  <2>1. PICK n \in 1..orders[c] : order_id' = [order_id EXCEPT ![c] = n]
    BY <1>4 DEF RecoverOrderIdentity
  <2>2. n \in Nat
    BY <2>1 DEF ProviderTypeOK
  <2>3. QED
    BY <1>4, <2>1, <2>2 DEF RecoverOrderIdentity, Bound
<1>5. ASSUME NEW c \in Contributions, ApplyAbandonment(c)
      PROVE  QuietStep
  BY <1>5 DEF ApplyAbandonment, Abandoned
<1>6. QED
  BY <1>1, <1>2, <1>3, <1>4, <1>5
     DEF CheckoutStep, RenderForm, AliasPending, Resolve, AliasLatest, CallProvider,
         CreatorStops, InspectOrder, agreementVars

\* A request whose contribution names no row changes none.
LEMMA RequestRowStep ==
  ASSUME AgreementTypeOK, NEW c,
         (\E p : ConfirmRow(c, p)) \/ Allocate(c) \/ MarkUnallocated(c)
  PROVE  RowStep
<1>1. CASE c \in Contributions
  BY <1>1 DEF RowStep, QuietStep, Allocate
<1>2. CASE c \notin Contributions
  BY <1>2 DEF AgreementTypeOK, RowStep, QuietStep, rowColumns, ConfirmRow, Allocate, AllocateRow,
              KeepAllocation, MarkUnallocated
<1>3. QED
  BY <1>1, <1>2

\* The requests and the recovery confirm rows, credit them and mark them.
LEMMA ConfirmationRowStep ==
  ASSUME AgreementTypeOK, ConfirmationTypeOK, ConfirmationStep
  PROVE  RowStep
<1>1. CASE UNCHANGED agreementVars
  BY <1>1 DEF RowStep, QuietStep, rowColumns, agreementVars, rowVars
<1>2. ASSUME NEW w \in Workers, ConfirmContribution(w)
      PROVE  RowStep
  <2>1. CASE UNCHANGED agreementVars
    BY <1>1, <2>1
  <2>2. CASE ConfirmRow(worker[w].contribution, worker[w].payment)
    BY <2>2, RequestRowStep
  <2>3. QED
    BY <1>2, <2>1, <2>2 DEF ConfirmContribution
<1>3. ASSUME NEW w \in Workers, AllocateMetal(w)
      PROVE  RowStep
  BY <1>3, RequestRowStep DEF AllocateMetal
<1>4. ASSUME NEW w \in Workers, MarkContribution(w)
      PROVE  RowStep
  BY <1>1, <1>4, RequestRowStep DEF MarkContribution
<1>5. ASSUME NEW p \in Payments, NEW c \in Contributions, RecoverWebhook(p, c)
      PROVE  RowStep
  BY <1>1, <1>5 DEF RecoverWebhook, RecoverRow, RowStep, QuietStep, Allocate
<1>6. QED
  BY <1>1, <1>2, <1>3, <1>4, <1>5
     DEF ConfirmationStep, WorkerStep, FindContribution, AllocationFails, FinishWebhook,
         RequireReview, DeferWebhook, ReceiveWebhook, ReceiveCallback, RetryAllocation,
         TransientFailure, DeliveryTimesOut, Crash, InspectWebhook

\* The showroom inserts cash rows and reverses them.
LEMMA ShowroomRowStep == ShowroomStep => QuietStep
<1> USE DEF QuietStep, rowColumns
<1>1. CASE UNCHANGED rowVars
  BY <1>1 DEF rowVars
<1>2. ASSUME NEW r \in Receipts, NEW w \in Workers, RecordCash(w, r)
      PROVE  QuietStep
  BY <1>2 DEF RecordCash, Received
<1>3. ASSUME NEW c \in Contributions, ReverseCash(c)
      PROVE  QuietStep
  BY <1>3 DEF ReverseCash, Corrected
<1>4. QED
  BY <1>1, <1>2, <1>3
     DEF ShowroomStep, PreviewCash, ReplayCash, CorrectionCloses, CompleteRedemption,
         ReverseRedemption, agreementVars

\* Whatever the system does, it does one of these things to the rows.
LEMMA EveryStepIsRowStep == TypeOK /\ [Next]_vars => RowStep
<1> SUFFICES ASSUME TypeOK, [Next]_vars
             PROVE  RowStep
  OBVIOUS
<1>1. CASE UNCHANGED agreementVars
  BY <1>1 DEF RowStep, QuietStep, rowColumns, agreementVars, rowVars
<1>2. QED
  BY <1>1, ClockRowStep, CheckoutRowStep, ConfirmationRowStep, ShowroomRowStep
     DEF RowStep, Next, TypeOK, vars

-----------------------------------------------------------------------------
(* Metal is credited once. *)

\* The keys above `latest` are unused: no row, and nothing on it.
FreshRows ==
  \A c \in Contributions :
    /\ status[c] = "none" <=> c > latest
    /\ status[c] = "none" => /\ allocations[c] = <<>>
                             /\ order_id[c] = 0
                             /\ reference[c] = NoPayment

\* Inserting the next row leaves the rows after it fresh.
LEMMA InsertFreshRows ==
  ASSUME AgreementTypeOK, FreshRows, NEW c \in Contributions, NEW s, s # "none", NEW ch,
         InsertContribution(c, s, ch)
  PROVE  FreshRows'
<1>1. /\ latest \in Nat /\ c = latest + 1 /\ latest' = c
      /\ UNCHANGED <<order_id, reference, allocations>>
      /\ \A d \in Contributions : status'[d] = IF d = c THEN s ELSE status[d]
  BY BoundsAssumption DEF InsertContribution, AgreementTypeOK
<1>2. \A d \in Contributions : d \in Nat
  BY BoundsAssumption DEF Contributions
<1>3. ASSUME NEW d \in Contributions
      PROVE  status'[d] = "none" <=> d > latest'
  <2>1. d \in Nat /\ (status[d] = "none" <=> d > latest)
    BY <1>2 DEF FreshRows
  <2>2. CASE d = c
    BY <1>1, <2>1, <2>2
  <2>3. CASE d # c
    <3>1. d > latest <=> d > latest + 1
      BY <1>1, <2>1, <2>3
    <3>2. QED
      BY <1>1, <2>1, <2>3, <3>1
  <2>4. QED
    BY <2>2, <2>3
<1>4. QED
  BY <1>1, <1>3 DEF FreshRows

\* Rows beyond the latest key stay untouched.
LEMMA FreshRowsStep ==
  ASSUME AgreementTypeOK, FreshRows, RowStep
  PROVE  FreshRows'
<1> USE DEF AgreementTypeOK, FreshRows, Contributions
<1>1. CASE UNCHANGED rowColumns
  BY <1>1 DEF rowColumns
<1>2. ASSUME NEW c \in Contributions, Started(c) \/ Received(c)
      PROVE  FreshRows'
  BY <1>2, InsertFreshRows DEF Started, Received
<1>3. ASSUME NEW c \in Contributions,
             Bound(c) \/ Abandoned(c) \/ Corrected(c) \/ KeepAllocation(c) \/ MarkUnallocated(c)
      PROVE  FreshRows'
  <2>1. CASE Bound(c)
    BY <2>1 DEF Bound
  <2>2. CASE Abandoned(c)
    BY <2>2 DEF Abandoned
  <2>3. CASE Corrected(c)
    BY <2>3 DEF Corrected, Successful
  <2>4. CASE KeepAllocation(c)
    BY <2>4 DEF KeepAllocation
  <2>5. CASE MarkUnallocated(c)
    BY <2>5 DEF MarkUnallocated, Successful
  <2>6. QED
    BY <1>3, <2>1, <2>2, <2>3, <2>4, <2>5
<1>4. ASSUME NEW c \in Contributions, AllocateRow(c)
      PROVE  FreshRows'
  BY <1>4 DEF AllocateRow, Successful
<1>5. ASSUME NEW c \in Contributions, NEW p, ConfirmRow(c, p) \/ ConfirmAndAllocateRow(c, p)
      PROVE  FreshRows'
  <2>1. CASE ConfirmRow(c, p)
    BY <2>1 DEF ConfirmRow
  <2>2. CASE ConfirmAndAllocateRow(c, p)
    BY <2>2 DEF ConfirmAndAllocateRow
  <2>3. QED
    BY <1>5, <2>1, <2>2
<1>6. QED
  BY <1>1, <1>2, <1>3, <1>4, <1>5 DEF RowStep, QuietStep

\* No row step credits metal twice or at another rate.
LEMMA PaidIffAllocatedOnceStep ==
  ASSUME AgreementTypeOK, FreshRows, PaidIffAllocatedOnce, RowStep
  PROVE  PaidIffAllocatedOnce'
<1> USE DEF AgreementTypeOK, FreshRows, PaidIffAllocatedOnce, Rows
<1>1. CASE UNCHANGED rowColumns
  BY <1>1 DEF rowColumns
<1>2. ASSUME NEW c \in Contributions, Started(c) \/ Received(c)
      PROVE  PaidIffAllocatedOnce'
  <2>1. status[c] = "none"
    BY <1>2, BoundsAssumption DEF Started, Received, InsertContribution, Contributions
  <2>2. QED
    BY <1>2, <2>1 DEF Started, Received, InsertContribution
<1>3. ASSUME NEW c \in Contributions,
             Bound(c) \/ Abandoned(c) \/ Corrected(c) \/ KeepAllocation(c) \/ MarkUnallocated(c)
      PROVE  PaidIffAllocatedOnce'
  <2>1. CASE Bound(c)
    BY <2>1 DEF Bound
  <2>2. CASE Abandoned(c)
    BY <2>2 DEF Abandoned
  <2>3. CASE Corrected(c)
    BY <2>3 DEF Corrected, Successful
  <2>4. CASE KeepAllocation(c)
    BY <2>4 DEF KeepAllocation
  <2>5. CASE MarkUnallocated(c)
    BY <2>5 DEF MarkUnallocated, Successful
  <2>6. QED
    BY <1>3, <2>1, <2>2, <2>3, <2>4, <2>5
<1>4. ASSUME NEW c \in Contributions, allocations[c] = <<>>
      PROVE  Append(allocations[c], scheme_rate[c]) = <<scheme_rate[c]>>
  BY <1>4
<1>5. ASSUME NEW c \in Contributions, AllocateRow(c)
      PROVE  PaidIffAllocatedOnce'
  BY <1>4, <1>5 DEF AllocateRow, Successful
<1>6. ASSUME NEW c \in Contributions, NEW p, ConfirmRow(c, p)
      PROVE  PaidIffAllocatedOnce'
  BY <1>6 DEF ConfirmRow
<1>7. ASSUME NEW c \in Contributions, NEW p, ConfirmAndAllocateRow(c, p)
      PROVE  PaidIffAllocatedOnce'
  <2>1. allocations[c] = <<>>
    BY <1>7 DEF ConfirmAndAllocateRow
  <2>2. QED
    BY <1>4, <1>7, <2>1 DEF ConfirmAndAllocateRow
<1>8. QED
  BY <1>1, <1>2, <1>3, <1>5, <1>6, <1>7 DEF RowStep, QuietStep

-----------------------------------------------------------------------------
(* One checkout at a time, one success per month. *)

\* Recording an allocation, or its failure, never re-opens a settled row.
LEMMA SettledStaysSettled ==
  ASSUME AgreementTypeOK, PaidIffAllocatedOnce, NEW c \in Contributions,
         AllocateRow(c) \/ KeepAllocation(c) \/ MarkUnallocated(c)
  PROVE  /\ \A d \in Contributions :
              /\ status'[d] = "PAID_UNALLOCATED" => status[d] = "PAID_UNALLOCATED"
              /\ status'[d] \in Successful <=> status[d] \in Successful
              /\ status'[d] = "PENDING" <=> status[d] = "PENDING"
              /\ status'[d] = "none" <=> status[d] = "none"
         /\ UNCHANGED <<channel, period>>
<1> USE DEF AgreementTypeOK, PaidIffAllocatedOnce, Rows, Successful
<1>1. CASE AllocateRow(c)
  BY <1>1 DEF AllocateRow
<1>2. CASE KeepAllocation(c)
  BY <1>2 DEF KeepAllocation
<1>3. CASE MarkUnallocated(c)
  BY <1>3 DEF MarkUnallocated
<1>4. QED
  BY <1>1, <1>2, <1>3

\* Only an insertion could make a second unresolved row.
LEMMA OneUnresolvedCheckoutStep ==
  ASSUME AgreementTypeOK, PaidIffAllocatedOnce, OneUnresolvedCheckout, RowStep
  PROVE  OneUnresolvedCheckout'
<1> USE DEF AgreementTypeOK, OneUnresolvedCheckout, Rows
<1>1. CASE UNCHANGED rowColumns
  BY <1>1 DEF rowColumns
<1>2. ASSUME NEW c \in Contributions, Started(c)
      PROVE  OneUnresolvedCheckout'
  BY <1>2 DEF Started, InsertContribution, Unresolved
<1>3. ASSUME NEW c \in Contributions, Received(c)
      PROVE  OneUnresolvedCheckout'
  BY <1>3 DEF Received, InsertContribution
<1>4. ASSUME NEW c \in Contributions, Bound(c)
      PROVE  OneUnresolvedCheckout'
  BY <1>4 DEF Bound
<1>5. ASSUME NEW c \in Contributions, Abandoned(c) \/ Corrected(c)
      PROVE  OneUnresolvedCheckout'
  BY <1>5 DEF Abandoned, Corrected
<1>6. ASSUME NEW c \in Contributions,
             AllocateRow(c) \/ KeepAllocation(c) \/ MarkUnallocated(c)
      PROVE  OneUnresolvedCheckout'
  BY <1>6, SettledStaysSettled
<1>7. ASSUME NEW c \in Contributions, NEW p, ConfirmRow(c, p) \/ ConfirmAndAllocateRow(c, p)
      PROVE  OneUnresolvedCheckout'
  <2>1. /\ status[c] = "PENDING" /\ channel[c] = "RAZORPAY" /\ UNCHANGED channel
        /\ \A d \in Contributions : d # c => status'[d] = status[d]
    BY <1>7 DEF ConfirmRow, ConfirmAndAllocateRow
  <2>2. \A d \in Contributions :
          /\ channel'[d] = "RAZORPAY" /\ status'[d] \in {"PENDING", "PAID_UNALLOCATED"}
          => channel[d] = "RAZORPAY" /\ status[d] \in {"PENDING", "PAID_UNALLOCATED"}
    BY <2>1
  <2>3. QED
    BY <2>2
<1>8. QED
  BY <1>1, <1>2, <1>3, <1>4, <1>5, <1>6, <1>7 DEF RowStep, QuietStep

\* Only an online row waits for a payment.
PendingIsOnline == \A c \in Contributions : status[c] = "PENDING" => channel[c] = "RAZORPAY"

\* A cash row is never pending.
LEMMA PendingIsOnlineStep ==
  ASSUME AgreementTypeOK, PaidIffAllocatedOnce, PendingIsOnline, RowStep
  PROVE  PendingIsOnline'
<1> USE DEF AgreementTypeOK, PendingIsOnline
<1>1. CASE UNCHANGED rowColumns
  BY <1>1 DEF rowColumns
<1>2. ASSUME NEW c \in Contributions, Started(c) \/ Received(c)
      PROVE  PendingIsOnline'
  BY <1>2 DEF Started, Received, InsertContribution
<1>3. ASSUME NEW c \in Contributions, Bound(c) \/ Abandoned(c) \/ Corrected(c)
      PROVE  PendingIsOnline'
  BY <1>3 DEF Bound, Abandoned, Corrected
<1>4. ASSUME NEW c \in Contributions,
             AllocateRow(c) \/ KeepAllocation(c) \/ MarkUnallocated(c)
      PROVE  PendingIsOnline'
  BY <1>4, SettledStaysSettled
<1>5. ASSUME NEW c \in Contributions, NEW p, ConfirmRow(c, p) \/ ConfirmAndAllocateRow(c, p)
      PROVE  PendingIsOnline'
  BY <1>5 DEF ConfirmRow, ConfirmAndAllocateRow
<1>6. QED
  BY <1>1, <1>2, <1>3, <1>4, <1>5 DEF RowStep, QuietStep

\* The monthly rule spelled out over all the keys: no two successes share a
\* month, and none has the month of a row that waits for its payment.
MonthIsExclusive ==
  OncePerMonth =>
    \A c, d \in Contributions :
      /\ c # d
      /\ status[c] \in Successful \cup {"PENDING"}
      /\ status[d] \in Successful
      => period[c] # period[d]

\* The exclusive month is the two properties the runs check.
LEMMA MonthlyRule == MonthIsExclusive <=> OneSuccessPerMonth /\ PendingCanBeConfirmed
<1>1. MonthIsExclusive => OneSuccessPerMonth
  BY RuleAssumption DEF MonthIsExclusive, OneSuccessPerMonth, Rows
<1>2. MonthIsExclusive => PendingCanBeConfirmed
  BY DEF MonthIsExclusive, PendingCanBeConfirmed, ConfirmationAllowed, SuccessInPeriod, Rows
<1>3. OneSuccessPerMonth /\ PendingCanBeConfirmed => MonthIsExclusive
  BY DEF MonthIsExclusive, OneSuccessPerMonth, PendingCanBeConfirmed, ConfirmationAllowed,
         SuccessInPeriod, Rows, Successful
<1>4. QED
  BY <1>1, <1>2, <1>3

\* No row step puts a second holder into a month.
LEMMA MonthIsExclusiveStep ==
  ASSUME AgreementTypeOK, FreshRows, PaidIffAllocatedOnce, OneUnresolvedCheckout,
         PendingIsOnline, MonthIsExclusive, RowStep
  PROVE  MonthIsExclusive'
<1> USE DEF AgreementTypeOK, MonthIsExclusive
<1>1. CASE UNCHANGED rowColumns
  BY <1>1 DEF rowColumns
<1>2. ASSUME NEW c \in Contributions, ContributionAllowed(0), OncePerMonth,
             NEW d \in Contributions, status[d] \in Successful
      PROVE  period[d] # month
  <2>1. d # 0 /\ d \in Rows
    BY <1>2 DEF Contributions, Rows, Successful
  <2>2. QED
    BY <1>2, <2>1 DEF ContributionAllowed, SuccessInPeriod
<1>3. ASSUME NEW c \in Contributions, Started(c)
      PROVE  MonthIsExclusive'
  BY <1>2, <1>3 DEF Started, InsertContribution, Successful
<1>4. ASSUME NEW c \in Contributions, Received(c)
      PROVE  MonthIsExclusive'
  <2>1. \A d \in Contributions : status[d] # "PENDING"
    BY <1>4 DEF Received, OnlinePending, PendingIsOnline, Rows
  <2>2. QED
    BY <1>2, <1>4, <2>1 DEF Received, InsertContribution, Successful
<1>5. ASSUME NEW c \in Contributions, Bound(c) \/ Abandoned(c) \/ Corrected(c)
      PROVE  MonthIsExclusive'
  <2>1. /\ \A d \in Contributions : status'[d] \in Successful => status[d] \in Successful
        /\ \A d \in Contributions :
             status'[d] \in Successful \cup {"PENDING"} => status[d] \in Successful \cup {"PENDING"}
        /\ UNCHANGED period
    <3>1. CASE Bound(c)
      BY <3>1 DEF Bound
    <3>2. CASE Abandoned(c)
      BY <3>2 DEF Abandoned, Successful
    <3>3. CASE Corrected(c)
      BY <3>3 DEF Corrected, Successful
    <3>4. QED
      BY <1>5, <3>1, <3>2, <3>3
  <2>2. QED
    BY <2>1
<1>6. ASSUME NEW c \in Contributions,
             AllocateRow(c) \/ KeepAllocation(c) \/ MarkUnallocated(c)
      PROVE  MonthIsExclusive'
  BY <1>6, SettledStaysSettled
<1>7. ASSUME NEW c \in Contributions, NEW p, ConfirmRow(c, p) \/ ConfirmAndAllocateRow(c, p)
      PROVE  MonthIsExclusive'
  <2>1. \A d \in Contributions : d # c => status[d] # "PENDING"
    BY <1>7 DEF ConfirmRow, ConfirmAndAllocateRow, OneUnresolvedCheckout, PendingIsOnline, Rows
  <2>2. \A d \in Contributions \ {c} :
          OncePerMonth /\ status[d] \in Successful => period[d] # period[c]
    BY <1>7 DEF ConfirmRow, ConfirmAndAllocateRow, ConfirmationAllowed, SuccessInPeriod,
                Rows, Successful
  <2>3. /\ \A d \in Contributions : status'[d] \in Successful => d = c \/ status[d] \in Successful
        /\ \A d \in Contributions : status'[d] = "PENDING" => d # c /\ status[d] = "PENDING"
        /\ UNCHANGED period
    BY <1>7 DEF ConfirmRow, ConfirmAndAllocateRow, Successful
  <2>4. \A d \in Contributions : status'[d] # "PENDING"
    BY <2>1, <2>3
  <2>5. ASSUME OncePerMonth, NEW d \in Contributions, NEW e \in Contributions, d # e,
               status'[d] \in Successful, status'[e] \in Successful
        PROVE  period[d] # period[e]
    <3>1. CASE d = c \/ e = c
      BY <2>2, <2>3, <2>5, <3>1
    <3>2. CASE d # c /\ e # c
      BY <2>3, <2>5, <3>2
    <3>3. QED
      BY <3>1, <3>2
  <2>6. QED
    BY <2>3, <2>4, <2>5
<1>8. QED
  BY <1>1, <1>3, <1>4, <1>5, <1>6, <1>7 DEF RowStep, QuietStep

-----------------------------------------------------------------------------
(* What a step may not do to a row. *)

\* Only a credited online row names a payment.
ReferenceIsCredit ==
  \A c \in Contributions :
    reference[c] # NoPayment => channel[c] = "RAZORPAY" /\ status[c] \in Successful

\* A payment reference appears with its credit and stays.
LEMMA ReferenceIsCreditStep ==
  ASSUME AgreementTypeOK, FreshRows, PaidIffAllocatedOnce, ReferenceIsCredit, RowStep
  PROVE  ReferenceIsCredit'
<1> USE DEF AgreementTypeOK, ReferenceIsCredit
<1>1. CASE UNCHANGED rowColumns
  BY <1>1 DEF rowColumns
<1>2. ASSUME NEW c \in Contributions, Started(c) \/ Received(c)
      PROVE  ReferenceIsCredit'
  <2>1. status[c] = "none"
    BY <1>2, BoundsAssumption DEF Started, Received, InsertContribution, FreshRows, Contributions
  <2>2. QED
    BY <1>2, <2>1 DEF Started, Received, InsertContribution, FreshRows
<1>3. ASSUME NEW c \in Contributions, Bound(c) \/ Abandoned(c) \/ Corrected(c)
      PROVE  ReferenceIsCredit'
  BY <1>3 DEF Bound, Abandoned, Corrected, Successful
<1>4. ASSUME NEW c \in Contributions,
             AllocateRow(c) \/ KeepAllocation(c) \/ MarkUnallocated(c)
      PROVE  ReferenceIsCredit'
  BY <1>4, SettledStaysSettled DEF AllocateRow, KeepAllocation, MarkUnallocated
<1>5. ASSUME NEW c \in Contributions, NEW p, ConfirmRow(c, p) \/ ConfirmAndAllocateRow(c, p)
      PROVE  ReferenceIsCredit'
  BY <1>5 DEF ConfirmRow, ConfirmAndAllocateRow, Successful
<1>6. QED
  BY <1>1, <1>2, <1>3, <1>4, <1>5 DEF RowStep, QuietStep

\* OutcomeIsFinal, as a relation between two states.
OutcomeKept ==
  \A c \in Contributions :
    /\ status[c] \in {"ABANDONED", "REVERSED"} => status'[c] = status[c]
    /\ status[c] \in Successful =>
         \/ status'[c] \in Successful
         \/ status'[c] = "REVERSED" /\ channel[c] = "IN_STORE_CASH"

\* One row step takes no outcome back.
LEMMA OutcomeKeptStep ==
  ASSUME AgreementTypeOK, FreshRows, PaidIffAllocatedOnce, RowStep
  PROVE  OutcomeKept
<1> USE DEF AgreementTypeOK, OutcomeKept
<1>1. CASE UNCHANGED rowColumns
  BY <1>1 DEF rowColumns
<1>2. ASSUME NEW c \in Contributions, Started(c) \/ Received(c)
      PROVE  OutcomeKept
  <2>1. status[c] = "none"
    BY <1>2, BoundsAssumption DEF Started, Received, InsertContribution, FreshRows, Contributions
  <2>2. QED
    BY <1>2, <2>1 DEF Started, Received, InsertContribution, Successful
<1>3. ASSUME NEW c \in Contributions, Bound(c) \/ Abandoned(c) \/ Corrected(c)
      PROVE  OutcomeKept
  BY <1>3 DEF Bound, Abandoned, Corrected, Successful
<1>4. ASSUME NEW c \in Contributions,
             AllocateRow(c) \/ KeepAllocation(c) \/ MarkUnallocated(c)
      PROVE  OutcomeKept
  BY <1>4 DEF AllocateRow, KeepAllocation, MarkUnallocated, Successful
<1>5. ASSUME NEW c \in Contributions, NEW p, ConfirmRow(c, p) \/ ConfirmAndAllocateRow(c, p)
      PROVE  OutcomeKept
  BY <1>5 DEF ConfirmRow, ConfirmAndAllocateRow, Successful
<1>6. QED
  BY <1>1, <1>2, <1>3, <1>4, <1>5 DEF RowStep, QuietStep

\* EvidenceIsKept, as a relation between two states.
EvidenceKept ==
  \A c \in Contributions :
    /\ order_id[c] # 0 => order_id'[c] = order_id[c]
    /\ reference[c] # NoPayment => reference'[c] = reference[c]
    /\ allocations[c] # <<>> => allocations'[c] = allocations[c]

\* One row step rewrites no evidence.
LEMMA EvidenceKeptStep ==
  ASSUME AgreementTypeOK, PaidIffAllocatedOnce, ReferenceIsCredit, RowStep
  PROVE  EvidenceKept
<1> USE DEF AgreementTypeOK, EvidenceKept
<1>1. CASE UNCHANGED rowColumns
  BY <1>1 DEF rowColumns
<1>2. ASSUME NEW c \in Contributions,
             \/ Started(c) \/ Received(c) \/ Abandoned(c) \/ Corrected(c)
             \/ KeepAllocation(c) \/ MarkUnallocated(c)
      PROVE  EvidenceKept
  BY <1>2 DEF Started, Received, InsertContribution, Abandoned, Corrected, KeepAllocation,
              MarkUnallocated
<1>3. ASSUME NEW c \in Contributions, Bound(c)
      PROVE  EvidenceKept
  BY <1>3 DEF Bound
<1>4. ASSUME NEW c \in Contributions, AllocateRow(c)
      PROVE  EvidenceKept
  BY <1>4 DEF AllocateRow
<1>5. ASSUME NEW c \in Contributions, NEW p, ConfirmRow(c, p) \/ ConfirmAndAllocateRow(c, p)
      PROVE  EvidenceKept
  BY <1>5 DEF ConfirmRow, ConfirmAndAllocateRow, ReferenceIsCredit, PaidIffAllocatedOnce,
              Rows, Successful
<1>6. QED
  BY <1>1, <1>2, <1>3, <1>4, <1>5 DEF RowStep, QuietStep

-----------------------------------------------------------------------------
(* The invariant of the rows, and what follows from it. *)

RowInv == /\ TypeOK
          /\ FreshRows
          /\ PaidIffAllocatedOnce
          /\ OneUnresolvedCheckout
          /\ PendingIsOnline
          /\ MonthIsExclusive
          /\ ReferenceIsCredit

\* The invariant of the rows holds of the empty agreement.
LEMMA InitRowInv == Init => RowInv
<1> SUFFICES ASSUME Init PROVE RowInv
  OBVIOUS
<1>1. \A c \in Contributions : status[c] = "none" /\ reference[c] = NoPayment
  BY DEF Init, AgreementInit
<1>2. Rows = {}
  BY <1>1 DEF Rows
<1>3. FreshRows
  BY BoundsAssumption DEF Init, AgreementInit, FreshRows, Contributions
<1>4. QED
  BY <1>1, <1>2, <1>3, InitTypeOK
     DEF RowInv, PaidIffAllocatedOnce, OneUnresolvedCheckout, PendingIsOnline,
         MonthIsExclusive, ReferenceIsCredit, Successful

\* The invariant of the rows, from which the theorems below follow.
LEMMA RowInvariant == Spec => []RowInv
<1>1. RowInv /\ TypeOK' /\ [Next]_vars => RowInv'
  BY EveryStepIsRowStep, FreshRowsStep, PaidIffAllocatedOnceStep, OneUnresolvedCheckoutStep,
     PendingIsOnlineStep, MonthIsExclusiveStep, ReferenceIsCreditStep
     DEF RowInv, TypeOK
<1>2. QED
  BY <1>1, InitRowInv, TypeCorrect, PTL DEF Spec

\* METAL-001, for any number of requests, retries, crashes and receipts.
THEOREM MetalIsCreditedOnce == Spec => []PaidIffAllocatedOnce
<1>1. RowInv => PaidIffAllocatedOnce
  BY DEF RowInv
<1>2. QED
  BY <1>1, RowInvariant, PTL

\* PAY-030: the account lock and the checks under it suffice, whatever the
\* number of forms, tabs and payments.
THEOREM CheckoutsAreExclusive == Spec => []OneUnresolvedCheckout
<1>1. RowInv => OneUnresolvedCheckout
  BY DEF RowInv
<1>2. QED
  BY <1>1, RowInvariant, PTL

\* A month of a once-per-month agreement is paid at most once.
THEOREM MonthIsPaidOnce == Spec => []OneSuccessPerMonth
<1>1. RowInv => OneSuccessPerMonth
  BY MonthlyRule DEF RowInv
<1>2. QED
  BY <1>1, RowInvariant, PTL

\* A checkout that waits for its payment keeps its month free: when the money
\* comes, the rule of the month never refuses to credit it.
THEOREM PendingIsConfirmable == Spec => []PendingCanBeConfirmed
<1>1. RowInv => PendingCanBeConfirmed
  BY MonthlyRule DEF RowInv
<1>2. QED
  BY <1>1, RowInvariant, PTL

\* No interleaving of requests takes an outcome back.
THEOREM OutcomesAreFinal == Spec => OutcomeIsFinal
<1>1. RowInv /\ [Next]_vars => [OutcomeKept]_vars
  BY EveryStepIsRowStep, OutcomeKeptStep DEF RowInv, TypeOK
<1>2. QED
  BY <1>1, RowInvariant, PTL DEF Spec, OutcomeIsFinal, OutcomeKept

\* Orders, payment references and allocations are never rewritten.
THEOREM EvidenceIsPermanent == Spec => EvidenceIsKept
<1>1. RowInv /\ [Next]_vars => [EvidenceKept]_vars
  BY EveryStepIsRowStep, EvidenceKeptStep DEF RowInv, TypeOK
<1>2. QED
  BY <1>1, RowInvariant, PTL DEF Spec, EvidenceIsKept, EvidenceKept
-----------------------------------------------------------------------------
(* What each request of a metal agreement knows between its transactions,   *)
(* and the theorems that rest on it: credited money was captured, what was  *)
(* acknowledged is accounted for, an order is requested once, and the whole *)
(* implements the abstract PaymentLedger.                                   *)

-----------------------------------------------------------------------------
(* What stays true of a row and of a payment, whoever takes the next step. *)

\* A captured payment was made on an order.
CapturedWasAttempted == \A p \in captured : payment_order[p] # NoOrder

\* Money does not move from one order to another, or back.
PaymentsKept ==
  /\ captured \subseteq captured'
  /\ \A p \in captured : payment_order'[p] = payment_order[p]

\* Only the provider's own steps touch its record of payments.
LEMMA PaymentsKeptStep ==
  ASSUME ProviderTypeOK, CapturedWasAttempted, [Next]_vars
  PROVE  PaymentsKept /\ CapturedWasAttempted'
<1> USE DEF ProviderTypeOK, CapturedWasAttempted, PaymentsKept
<1>1. CASE UNCHANGED <<payment_order, captured>>
  BY <1>1
<1>2. ASSUME NEW p \in Payments, AttemptPayment(p)
      PROVE  PaymentsKept /\ CapturedWasAttempted'
  BY <1>2 DEF AttemptPayment
<1>3. ASSUME NEW p \in Payments, CapturePayment(p)
      PROVE  PaymentsKept /\ CapturedWasAttempted'
  BY <1>3 DEF CapturePayment
<1>4. CheckoutStep => UNCHANGED <<payment_order, captured>>
  BY DEF CheckoutStep, CallProvider, CreateOrder, CreatorStops, providerVars
<1>5. QED
  BY <1>1, <1>2, <1>3, <1>4 DEF Next, PaymentStep, vars, providerVars

\* What no step takes back: outcomes, evidence, captured money.
Kept == OutcomeKept /\ EvidenceKept /\ PaymentsKept

\* Every step keeps it.
LEMMA KeptStep == RowInv /\ CapturedWasAttempted /\ [Next]_vars => Kept
  BY EveryStepIsRowStep, OutcomeKeptStep, EvidenceKeptStep, PaymentsKeptStep
     DEF RowInv, TypeOK, Kept

\* A payment captured for a contribution stays captured for it.
LEMMA CapturedForKept ==
  ASSUME Kept, NEW c \in Contributions, NEW p, CapturedFor(p, c)
  PROVE  CapturedFor(p, c)'
  BY DEF Kept, PaymentsKept, EvidenceKept, CapturedFor

\* A contribution credited with an online payment stays credited with it.
LEMMA AlreadyConfirmedKept ==
  ASSUME RowInv, Kept, NEW c \in Contributions, NEW p \in Payments, AlreadyConfirmed(c, p)
  PROVE  AlreadyConfirmed(c, p)'
  BY PaymentAssumption
     DEF RowInv, ReferenceIsCredit, Kept, OutcomeKept, EvidenceKept, AlreadyConfirmed, Successful

-----------------------------------------------------------------------------
(* The request invariant: what a request at each place has established. *)

Carrying == {"confirm", "allocate", "mark", "finish"}

Sound(r) ==
  /\ r.at \in Carrying => r.contribution \in Contributions
  /\ r.kind = "entitle" => r.at \in {"idle", "allocate", "mark"}
  /\ r.kind # "entitle" /\ r.at \in Carrying => CapturedFor(r.payment, r.contribution)
  /\ r.kind # "entitle" /\ r.at \in {"allocate", "mark", "finish"} =>
       AlreadyConfirmed(r.contribution, r.payment)

RequestsAreSound == \A w \in Workers : Sound(worker[w])

\* What a request has established stays true while others run.
LEMMA SoundKept ==
  ASSUME RowInv, Kept, NEW r \in WorkerRecords, Sound(r)
  PROVE  Sound(r)'
<1>1. r.kind # "entitle" => r.payment \in Payments
  BY DEF WorkerRecords
<1>2. r.at \in Carrying => r.contribution \in Contributions
  BY DEF Sound
<1>3. r.kind # "entitle" /\ r.at \in Carrying => CapturedFor(r.payment, r.contribution)'
  BY <1>2, CapturedForKept DEF Sound
<1>4. r.kind # "entitle" /\ r.at \in {"allocate", "mark", "finish"} =>
        AlreadyConfirmed(r.contribution, r.payment)'
  BY <1>1, <1>2, AlreadyConfirmedKept DEF Sound, Carrying
<1>5. QED
  BY <1>2, <1>3, <1>4 DEF Sound

\* One request moves on, the others wait.
LEMMA OneMoves ==
  ASSUME RowInv, Kept, RequestsAreSound, NEW w \in Workers, NEW r,
         worker' = [worker EXCEPT ![w] = r], Sound(r)'
  PROVE  RequestsAreSound'
<1>1. ASSUME NEW v \in Workers
      PROVE  Sound(worker[v])'
  <2>1. worker[v] \in WorkerRecords /\ worker \in [Workers -> WorkerRecords]
    BY DEF RowInv, TypeOK, ConfirmationTypeOK
  <2>2. CASE v = w
    BY <2>1, <2>2 DEF Sound
  <2>3. CASE v # w
    <3>1. worker'[v] = worker[v]
      BY <2>1, <2>3
    <3>2. DEFINE q == worker[v]
    <3>3. ASSUME NEW x, x \in WorkerRecords, Sound(x)
          PROVE  Sound(x)'
      BY <3>3, SoundKept
    <3>4. Sound(worker[v])
      BY DEF RequestsAreSound
    <3>5. QED
      BY <2>1, <3>1, <3>3, <3>4 DEF Sound
  <2>4. QED
    BY <2>2, <2>3
<1>2. QED
  BY <1>1 DEF RequestsAreSound

\* No request moves.
LEMMA NoneMoves ==
  ASSUME RowInv, Kept, RequestsAreSound, UNCHANGED worker
  PROVE  RequestsAreSound'
<1>1. ASSUME NEW v \in Workers
      PROVE  Sound(worker[v])'
  <2>1. worker[v] \in WorkerRecords /\ Sound(worker[v])
    BY DEF RowInv, TypeOK, ConfirmationTypeOK, RequestsAreSound
  <2>2. ASSUME NEW x, x \in WorkerRecords, Sound(x)
        PROVE  Sound(x)'
    BY <2>2, SoundKept
  <2>3. QED
    BY <2>1, <2>2 DEF Sound
<1>2. QED
  BY <1>1 DEF RequestsAreSound

\* A request that ends knows nothing.
LEMMA EndIsSound ==
  ASSUME RowInv, Kept, RequestsAreSound, NEW w \in Workers, End(w)
  PROVE  RequestsAreSound'
<1>1. Sound(Idle)'
  BY DEF Sound, Idle, Carrying
<1>2. QED
  BY <1>1, OneMoves DEF End

\* A request that moves to another place with what it has.
LEMMA GoToIsSound ==
  ASSUME RowInv, Kept, RequestsAreSound, NEW w \in Workers, NEW place, GoTo(w, place),
         \/ place \notin Carrying /\ worker[w].kind # "entitle"
         \/ worker[w].at \in {"allocate", "mark"} /\ place \in {"allocate", "mark"}
         \/ /\ worker[w].at \in {"allocate", "mark"} /\ place = "finish"
            /\ worker[w].kind = "webhook"
         \/ /\ worker[w].at = "confirm" /\ place = "allocate"
            /\ \E c, p : /\ c = worker[w].contribution /\ p = worker[w].payment
                        /\ AlreadyConfirmed(c, p)'
  PROVE  RequestsAreSound'
<1> DEFINE r == [worker[w] EXCEPT !.at = place]
<1>1. worker[w] \in WorkerRecords /\ Sound(worker[w])
  BY DEF RowInv, TypeOK, ConfirmationTypeOK, RequestsAreSound
<1>2. ASSUME NEW x, x \in WorkerRecords, Sound(x)
      PROVE  Sound(x)'
  BY <1>2, SoundKept
<1>3. /\ r.at = place /\ r.kind = worker[w].kind
      /\ r.payment = worker[w].payment /\ r.contribution = worker[w].contribution
  BY <1>1 DEF WorkerRecords
<1>4. worker' = [worker EXCEPT ![w] = r]
  BY DEF GoTo, RowInv, TypeOK, ConfirmationTypeOK
<1>5. QED
  BY <1>1, <1>2, <1>3, <1>4, OneMoves DEF Sound, Carrying

\* After the entitlement, and after a failed one.
LEMMA ConcludeIsSound ==
  ASSUME RowInv, Kept, RequestsAreSound, NEW w \in Workers,
         worker[w].at \in {"allocate", "mark"}, Conclude(w)
  PROVE  RequestsAreSound'
  BY GoToIsSound, EndIsSound DEF Conclude

\* The steps a started request takes by itself.
LEMMA WorkerStepIsSound ==
  ASSUME RowInv, Kept, RequestsAreSound, NEW w \in Workers, WorkerStep(w)
  PROVE  RequestsAreSound'
<1>0. PICK p, c : p = worker[w].payment /\ c = worker[w].contribution
  OBVIOUS
<1>1. worker[w] \in WorkerRecords /\ Sound(worker[w])
  BY DEF RowInv, TypeOK, ConfirmationTypeOK, RequestsAreSound
<1>2. CASE FindContribution(w)
  <2>1. worker[w].kind = "webhook" /\ p \in Payments
    BY <1>0, <1>1, <1>2 DEF FindContribution, Serving, WorkerRecords
  <2>2. CASE GoTo(w, "review")
    BY <2>1, <2>2, GoToIsSound DEF Carrying
  <2>3. ASSUME NEW d \in Contributions, CapturedFor(p, d),
               worker' = [worker EXCEPT ![w].contribution = d, ![w].at = AfterLookup(d)]
        PROVE  RequestsAreSound'
    <3>0. PICK r : r = [worker[w] EXCEPT !.contribution = d, !.at = AfterLookup(d)]
      OBVIOUS
    <3>1. /\ r.kind = "webhook" /\ r.payment = p /\ r.contribution = d
          /\ r.at = AfterLookup(d)
      BY <1>0, <1>1, <2>1, <3>0 DEF WorkerRecords
    <3>2. d \in Contributions /\ CapturedFor(p, d)'
      BY <2>3, CapturedForKept
    <3>3. Sound(r)'
      BY <3>1, <3>2 DEF Sound, Carrying, AfterLookup
    <3>4. worker' = [worker EXCEPT ![w] = r]
      BY <2>3, <3>0 DEF RowInv, TypeOK, ConfirmationTypeOK
    <3>5. QED
      BY <3>3, <3>4, OneMoves
  <2>4. QED
    BY <1>0, <1>2, <2>2, <2>3 DEF FindContribution, Rows
<1>3. CASE ConfirmContribution(w)
  <2>1. /\ c \in Contributions /\ p \in Payments
        /\ worker[w].kind \in {"webhook", "callback"}
    BY <1>0, <1>1, <1>3 DEF ConfirmContribution, At, Sound, Carrying, WorkerRecords
  <2>2. CASE ConfirmRow(c, p) /\ GoTo(w, "allocate")
    <3>1. AlreadyConfirmed(c, p)'
      BY <2>1, <2>2 DEF ConfirmRow, AlreadyConfirmed, Successful, RowInv, TypeOK, AgreementTypeOK
    <3>2. QED
      BY <1>0, <1>3, <2>2, <3>1, GoToIsSound DEF ConfirmContribution, At
  <2>3. CASE AlreadyConfirmed(c, p) /\ GoTo(w, "allocate")
    <3>1. AlreadyConfirmed(c, p)'
      BY <2>1, <2>3, AlreadyConfirmedKept
    <3>2. QED
      BY <1>0, <1>3, <2>3, <3>1, GoToIsSound DEF ConfirmContribution, At
  <2>4. CASE GoTo(w, "review")
    BY <2>1, <2>4, GoToIsSound DEF Carrying
  <2>5. QED
    BY <1>0, <1>3, <2>2, <2>3, <2>4, EndIsSound DEF ConfirmContribution
<1>4. CASE AllocateMetal(w)
  BY <1>4, ConcludeIsSound DEF AllocateMetal, At
<1>5. CASE AllocationFails(w)
  BY <1>5, GoToIsSound DEF AllocationFails, At
<1>6. CASE MarkContribution(w)
  <2>1. CASE Conclude(w)
    BY <1>6, <2>1, ConcludeIsSound DEF MarkContribution, At
  <2>2. CASE worker[w].kind = "webhook" /\ GoTo(w, "defer")
    BY <2>2, GoToIsSound DEF Carrying
  <2>3. QED
    BY <1>6, <2>1, <2>2 DEF MarkContribution
<1>7. CASE FinishWebhook(w) \/ RequireReview(w) \/ DeferWebhook(w)
  BY <1>7, EndIsSound DEF FinishWebhook, RequireReview, DeferWebhook, Answer200, AnswerFailure
<1>8. QED
  BY <1>2, <1>3, <1>4, <1>5, <1>6, <1>7 DEF WorkerStep

\* A request that starts.
LEMMA BeginIsSound ==
  ASSUME RowInv, Kept, RequestsAreSound, NEW w \in Workers,
         NEW kind, NEW place, NEW p, NEW c, Begin(w, kind, place, p, c),
         \/ kind = "webhook" /\ place = "find"
         \/ /\ kind = "callback" /\ c \in Contributions /\ p \in Payments
            /\ CapturedFor(p, c)
            /\ \/ place = "confirm"
               \/ place = "allocate" /\ AlreadyConfirmed(c, p)
         \/ kind = "entitle" /\ place = "allocate" /\ c \in Contributions
  PROVE  RequestsAreSound'
<1> DEFINE r == [kind |-> kind, at |-> place, payment |-> p, contribution |-> c]
<1>1. /\ CapturedFor(p, c) /\ c \in Contributions => CapturedFor(p, c)'
      /\ AlreadyConfirmed(c, p) /\ c \in Contributions /\ p \in Payments =>
           AlreadyConfirmed(c, p)'
  BY CapturedForKept, AlreadyConfirmedKept
<1>2. Sound(r)'
  BY <1>1 DEF Sound, Carrying
<1>3. QED
  BY <1>2, OneMoves DEF Begin

\* Every step of the system leaves each request with sound knowledge.
LEMMA RequestsAreSoundStep ==
  ASSUME RowInv, Kept, RequestsAreSound, [Next]_vars
  PROVE  RequestsAreSound'
<1>1. CASE UNCHANGED worker
  BY <1>1, NoneMoves
<1>2. ASSUME NEW w \in Workers, NEW p \in Payments, ReceiveWebhook(w, p)
      PROVE  RequestsAreSound'
  BY <1>1, <1>2, BeginIsSound DEF ReceiveWebhook
<1>3. ASSUME NEW w \in Workers, NEW p \in Payments, NEW c \in Contributions,
             ReceiveCallback(w, p, c)
      PROVE  RequestsAreSound'
  <2>1. CapturedFor(p, c)
    BY <1>3 DEF ReceiveCallback
  <2>2. CASE Begin(w, "callback", "confirm", p, c)
    BY <2>1, <2>2, BeginIsSound
  <2>3. CASE AlreadyConfirmed(c, p) /\ Begin(w, "callback", "allocate", p, c)
    BY <2>1, <2>3, BeginIsSound
  <2>4. QED
    BY <1>3, <2>2, <2>3 DEF ReceiveCallback
<1>4. ASSUME NEW w \in Workers, NEW c \in Contributions, RetryAllocation(w, c)
      PROVE  RequestsAreSound'
  BY <1>4, BeginIsSound DEF RetryAllocation
<1>5. ASSUME NEW w \in Workers, TransientFailure(w)
      PROVE  RequestsAreSound'
  BY <1>5, GoToIsSound DEF TransientFailure, Carrying
<1>6. ASSUME NEW w \in Workers, Crash(w)
      PROVE  RequestsAreSound'
  BY <1>6, EndIsSound DEF Crash, AnswerFailure
<1>7. ASSUME NEW w \in Workers, NEW r \in Receipts, RecordCash(w, r)
      PROVE  RequestsAreSound'
  BY <1>7, BeginIsSound DEF RecordCash
<1>8. ASSUME NEW w \in Workers, NEW r \in Receipts, ReplayCash(w, r)
      PROVE  RequestsAreSound'
  <2>1. receipt[r] \in Contributions
    BY <1>8 DEF ReplayCash, RowInv, TypeOK, ShowroomTypeOK, Contributions
  <2>2. QED
    BY <1>8, <2>1, BeginIsSound DEF ReplayCash
<1>9. ConfirmationStep => RequestsAreSound'
  BY <1>1, <1>2, <1>3, <1>4, <1>5, <1>6, WorkerStepIsSound
     DEF ConfirmationStep, DeliveryTimesOut, InspectWebhook, RecoverWebhook
<1>10. ShowroomStep => RequestsAreSound'
  BY <1>1, <1>7, <1>8
     DEF ShowroomStep, PreviewCash, CorrectionCloses, ReverseCash, CompleteRedemption,
         ReverseRedemption, confirmationVars
<1>11. QED
  BY <1>1, <1>9, <1>10 DEF Next, vars, confirmationVars

-----------------------------------------------------------------------------
(* Credited money was captured. *)

\* An online contribution is paid, with a payment captured for it.
PaidStep ==
  \E c \in Contributions, p \in Payments :
    /\ CapturedFor(p, c)
    /\ ConfirmRow(c, p) \/ ConfirmAndAllocateRow(c, p)
    /\ UNCHANGED providerVars

\* Each path confirms a row only with a payment captured for it.
LEMMA EveryPaymentIsCaptured == RowInv /\ RequestsAreSound /\ [Next]_vars => QuietStep \/ PaidStep
<1> SUFFICES ASSUME RowInv, RequestsAreSound, [Next]_vars
             PROVE  QuietStep \/ PaidStep
  OBVIOUS
<1>1. CASE UNCHANGED agreementVars
  BY <1>1 DEF QuietStep, rowColumns, agreementVars, rowVars
<1>2. ASSUME NEW c \in Contributions, Allocate(c) \/ MarkUnallocated(c)
      PROVE  QuietStep
  BY <1>2 DEF QuietStep, Allocate
<1>3. CASE ConfirmationStep /\ UNCHANGED providerVars
  <2>1. ASSUME NEW w \in Workers, ConfirmContribution(w)
        PROVE  QuietStep \/ PaidStep
    <3>1. /\ Sound(worker[w]) /\ worker[w] \in WorkerRecords
          /\ worker[w].at = "confirm"
      BY <2>1 DEF RequestsAreSound, RowInv, TypeOK, ConfirmationTypeOK, ConfirmContribution, At
    <3>2. /\ worker[w].contribution \in Contributions /\ worker[w].payment \in Payments
          /\ CapturedFor(worker[w].payment, worker[w].contribution)
      BY <3>1 DEF Sound, Carrying, WorkerRecords
    <3>3. QED
      BY <1>1, <1>3, <2>1, <3>2 DEF ConfirmContribution, PaidStep
  <2>2. ASSUME NEW w \in Workers, AllocateMetal(w) \/ MarkContribution(w)
        PROVE  QuietStep
    <3>1. Sound(worker[w]) /\ worker[w].at \in {"allocate", "mark"}
      BY <2>2 DEF RequestsAreSound, AllocateMetal, MarkContribution, At
    <3>2. worker[w].contribution \in Contributions
      BY <3>1 DEF Sound, Carrying
    <3>3. CASE UNCHANGED agreementVars
      BY <3>3 DEF QuietStep, rowColumns, agreementVars, rowVars
    <3>4. QED
      BY <1>2, <2>2, <3>2, <3>3 DEF AllocateMetal, MarkContribution
  <2>3. ASSUME NEW p \in Payments, NEW c \in Contributions, RecoverWebhook(p, c)
        PROVE  QuietStep \/ PaidStep
    BY <1>1, <1>2, <1>3, <2>3 DEF RecoverWebhook, Recoverable, RecoverRow, PaidStep
  <2>4. QED
    BY <1>1, <1>3, <2>1, <2>2, <2>3
       DEF ConfirmationStep, WorkerStep, FindContribution, AllocationFails, FinishWebhook,
           RequireReview, DeferWebhook, ReceiveWebhook, ReceiveCallback, RetryAllocation,
           TransientFailure, DeliveryTimesOut, Crash, InspectWebhook
<1>4. QED
  BY <1>1, <1>3, ClockRowStep, CheckoutRowStep, ShowroomRowStep
     DEF Next, RowInv, TypeOK, vars

\* CreditIsCaptured over the keys, as far as it is about rows.
CreditIsEarned ==
  \A c \in Contributions :
    /\ \A p \in Payments : reference[c] = p => CapturedFor(p, c)
    /\ status[c] \in Successful /\ channel[c] = "RAZORPAY" => reference[c] # NoPayment

\* A quiet step moves no payment reference and makes no online success.
LEMMA QuietStepCreditsNothing ==
  ASSUME AgreementTypeOK, FreshRows, PaidIffAllocatedOnce, QuietStep
  PROVE  /\ UNCHANGED reference
         /\ \A c \in Contributions :
              status'[c] \in Successful /\ channel'[c] = "RAZORPAY" =>
                status[c] \in Successful /\ channel[c] = "RAZORPAY"
<1> USE DEF AgreementTypeOK
<1>1. CASE UNCHANGED rowColumns
  BY <1>1 DEF rowColumns
<1>2. ASSUME NEW d \in Contributions, Started(d) \/ Received(d)
      PROVE  /\ UNCHANGED reference
             /\ \A c \in Contributions :
                  status'[c] \in Successful /\ channel'[c] = "RAZORPAY" =>
                    status[c] \in Successful /\ channel[c] = "RAZORPAY"
  BY <1>2 DEF Started, Received, InsertContribution, Successful
<1>3. ASSUME NEW d \in Contributions, Bound(d) \/ Abandoned(d) \/ Corrected(d)
      PROVE  /\ UNCHANGED reference
             /\ \A c \in Contributions :
                  status'[c] \in Successful /\ channel'[c] = "RAZORPAY" =>
                    status[c] \in Successful /\ channel[c] = "RAZORPAY"
  BY <1>3 DEF Bound, Abandoned, Corrected, Successful
<1>4. ASSUME NEW d \in Contributions,
             AllocateRow(d) \/ KeepAllocation(d) \/ MarkUnallocated(d)
      PROVE  /\ UNCHANGED reference
             /\ \A c \in Contributions :
                  status'[c] \in Successful /\ channel'[c] = "RAZORPAY" =>
                    status[c] \in Successful /\ channel[c] = "RAZORPAY"
  <2>1. UNCHANGED reference
    BY <1>4 DEF AllocateRow, KeepAllocation, MarkUnallocated
  <2>2. QED
    BY <1>4, <2>1, SettledStaysSettled
<1>5. QED
  BY <1>1, <1>2, <1>3, <1>4 DEF QuietStep

\* A credit appears with money captured for it, and keeps it.
LEMMA CreditIsEarnedStep ==
  ASSUME RowInv, Kept, RequestsAreSound, CreditIsEarned, [Next]_vars
  PROVE  CreditIsEarned'
<1> USE DEF RowInv, TypeOK
<1>1. CASE QuietStep
  <2>1. ASSUME NEW c \in Contributions, NEW p \in Payments, reference'[c] = p
        PROVE  CapturedFor(p, c)'
    BY <1>1, <2>1, QuietStepCreditsNothing, CapturedForKept DEF CreditIsEarned
  <2>2. ASSUME NEW c \in Contributions, status'[c] \in Successful, channel'[c] = "RAZORPAY"
        PROVE  reference'[c] # NoPayment
    BY <1>1, <2>2, QuietStepCreditsNothing DEF CreditIsEarned
  <2>3. QED
    BY <2>1, <2>2 DEF CreditIsEarned, CapturedFor
<1>2. CASE PaidStep
  <2>1. PICK c \in Contributions, p \in Payments :
          /\ CapturedFor(p, c)
          /\ ConfirmRow(c, p) \/ ConfirmAndAllocateRow(c, p)
    BY <1>2 DEF PaidStep
  <2>2. /\ reference' = [reference EXCEPT ![c] = p]
        /\ p # NoPayment
        /\ UNCHANGED channel
        /\ \A d \in Contributions : d # c => status'[d] = status[d]
    BY <2>1, PaymentAssumption DEF ConfirmRow, ConfirmAndAllocateRow, AgreementTypeOK
  <2>3. ASSUME NEW d \in Contributions, NEW q \in Payments, reference'[d] = q
        PROVE  CapturedFor(q, d)'
    <3>1. CapturedFor(q, d)
      BY <2>1, <2>2, <2>3 DEF CreditIsEarned, AgreementTypeOK
    <3>2. QED
      BY <3>1, CapturedForKept
  <2>4. ASSUME NEW d \in Contributions, status'[d] \in Successful, channel'[d] = "RAZORPAY"
        PROVE  reference'[d] # NoPayment
    BY <2>2, <2>4 DEF CreditIsEarned, AgreementTypeOK
  <2>5. QED
    BY <2>3, <2>4 DEF CreditIsEarned, CapturedFor
<1>3. QED
  BY <1>1, <1>2, EveryPaymentIsCaptured

-----------------------------------------------------------------------------
(* What an event and its acknowledgement say. *)

EventsAreSound ==
  \A p \in Payments :
    /\ event[p] = "PROCESSED" => Credited(p)
    /\ event[p] = "REVIEW_REQUIRED" => "REVIEW_REQUIRED" \in attempts[p]

\* A row credited with the payment is what Credited speaks of.
LEMMA ConfirmedIsCredited ==
  ASSUME NEW c \in Contributions, NEW p, AlreadyConfirmed(c, p)
  PROVE  Credited(p)
  BY DEF AlreadyConfirmed, Credited, Rows, Successful

\* The same in the next state.
LEMMA ConfirmedIsCreditedNext ==
  ASSUME NEW c \in Contributions, NEW p, AlreadyConfirmed(c, p)'
  PROVE  Credited(p)'
  BY DEF AlreadyConfirmed, Credited, Rows, Successful

\* A credited payment stays credited: only cash receipts are corrected away.
LEMMA CreditedKept ==
  ASSUME RowInv, Kept, NEW p \in Payments, Credited(p)
  PROVE  Credited(p)'
<1>1. PICK c \in Contributions : AlreadyConfirmed(c, p)
  BY DEF Credited, Rows, AlreadyConfirmed
<1>2. QED
  BY <1>1, AlreadyConfirmedKept, ConfirmedIsCreditedNext

\* The owner's recovery leaves the payment credited.
LEMMA RecoveryCredits ==
  ASSUME RowInv, Kept, NEW p \in Payments, NEW c \in Contributions, RecoverRow(p, c)
  PROVE  Credited(p)'
<1>1. CASE AlreadyConfirmed(c, p)
  BY <1>1, AlreadyConfirmedKept, ConfirmedIsCreditedNext
<1>2. CASE ConfirmRow(c, p) \/ ConfirmAndAllocateRow(c, p)
  <2>1. AlreadyConfirmed(c, p)'
    BY <1>2 DEF ConfirmRow, ConfirmAndAllocateRow, AlreadyConfirmed, Successful,
                RowInv, TypeOK, AgreementTypeOK
  <2>2. QED
    BY <2>1, ConfirmedIsCreditedNext
<1>3. QED
  BY <1>1, <1>2 DEF RecoverRow

\* An event says what has happened to its payment, and is answered with 200
\* only then.
LEMMA AnswersAreSoundStep ==
  ASSUME RowInv, Kept, RequestsAreSound, EventsAreSound, AcknowledgedIsAccountedFor,
         [Next]_vars
  PROVE  EventsAreSound' /\ AcknowledgedIsAccountedFor'
<1> USE DEF RowInv, TypeOK, ConfirmationTypeOK, EventsAreSound, AcknowledgedIsAccountedFor
<1> DEFINE Goal == EventsAreSound' /\ AcknowledgedIsAccountedFor'
<1>0. \A p \in Payments : Credited(p) => Credited(p)'
  BY CreditedKept
<1>1. CASE UNCHANGED <<event, attempts, acknowledged>>
  BY <1>0, <1>1
<1>2. ASSUME NEW w \in Workers, NEW p \in Payments, ReceiveWebhook(w, p)
      PROVE  Goal
  BY <1>0, <1>2 DEF ReceiveWebhook, Final
<1>3. ASSUME NEW w \in Workers, FinishWebhook(w)
      PROVE  Goal
  <2>1. PICK p, c : p = worker[w].payment /\ c = worker[w].contribution
    OBVIOUS
  <2>2. p \in Payments /\ c \in Contributions /\ AlreadyConfirmed(c, p)
    BY <1>3, <2>1, WebhookHasPayment
       DEF FinishWebhook, Serving, RequestsAreSound, Sound, Carrying
  <2>3. Credited(p)'
    BY <1>0, <2>2, ConfirmedIsCredited
  <2>4. /\ event' = [event EXCEPT ![p] = "PROCESSED"]
        /\ attempts' = [attempts EXCEPT ![p] = @ \cup {"PROCESSED"}]
        /\ acknowledged' \subseteq acknowledged \cup {p}
    BY <1>3, <2>1 DEF FinishWebhook, Record, Answer200
  <2>5. QED
    BY <1>0, <2>2, <2>3, <2>4
<1>4. ASSUME NEW w \in Workers, RequireReview(w)
      PROVE  Goal
  <2>1. PICK p : p = worker[w].payment
    OBVIOUS
  <2>2. p \in Payments
    BY <1>4, <2>1, WebhookHasPayment DEF RequireReview, Serving
  <2>3. /\ event' = [event EXCEPT ![p] = "REVIEW_REQUIRED"]
        /\ attempts' = [attempts EXCEPT ![p] = @ \cup {"REVIEW_REQUIRED"}]
        /\ acknowledged' \subseteq acknowledged \cup {p}
    BY <1>4, <2>1 DEF RequireReview, Record, Answer200
  <2>4. QED
    BY <1>0, <2>2, <2>3
<1>5. ASSUME NEW w \in Workers, DeferWebhook(w)
      PROVE  Goal
  BY <1>0, <1>5, WebhookHasPayment DEF DeferWebhook, Serving, AnswerFailure
<1>6. ASSUME NEW p \in Payments, NEW c \in Contributions, RecoverWebhook(p, c)
      PROVE  Goal
  <2>1. Credited(p)'
    BY <1>6, RecoveryCredits DEF RecoverWebhook
  <2>2. QED
    BY <1>0, <1>6, <2>1 DEF RecoverWebhook
<1>7. ConfirmationStep => Goal
  BY <1>1, <1>2, <1>3, <1>4, <1>5, <1>6
     DEF ConfirmationStep, WorkerStep, FindContribution, ConfirmContribution, AllocateMetal,
         AllocationFails, MarkContribution, ReceiveCallback, RetryAllocation,
         TransientFailure, DeliveryTimesOut, Crash, AnswerFailure, InspectWebhook
<1>8. ShowroomStep => Goal
  BY <1>1 DEF ShowroomStep, PreviewCash, RecordCash, ReplayCash, CorrectionCloses,
              ReverseCash, CompleteRedemption, ReverseRedemption, confirmationVars
<1>9. QED
  BY <1>1, <1>7, <1>8 DEF Next, vars, confirmationVars

-----------------------------------------------------------------------------
(* The invariant of the requests, and what follows from it. *)

RequestInv == /\ RowInv
              /\ CapturedWasAttempted
              /\ RequestsAreSound
              /\ CreditIsEarned
              /\ EventsAreSound
              /\ AcknowledgedIsAccountedFor

\* Nothing has been asked, credited or acknowledged yet.
LEMMA InitRequestInv == Init => RequestInv
<1> SUFFICES ASSUME Init PROVE RequestInv
  OBVIOUS
<1>1. /\ \A c \in Contributions : status[c] = "none" /\ reference[c] = NoPayment
      /\ captured = {} /\ acknowledged = {}
      /\ \A p \in Payments : event[p] = "none"
      /\ \A w \in Workers : worker[w] = Idle
  BY DEF Init, AgreementInit, ProviderInit, ConfirmationInit
<1>2. RequestsAreSound
  BY <1>1 DEF RequestsAreSound, Sound, Idle, Carrying
<1>3. CreditIsEarned
  BY <1>1, PaymentAssumption DEF CreditIsEarned, Successful
<1>4. QED
  BY <1>1, <1>2, <1>3, InitRowInv
     DEF RequestInv, CapturedWasAttempted, EventsAreSound, AcknowledgedIsAccountedFor

\* The invariant of the requests.
LEMMA RequestInvariant == Spec => []RequestInv
<1>1. RequestInv /\ RowInv' /\ [Next]_vars => RequestInv'
  <2> SUFFICES ASSUME RequestInv, RowInv', [Next]_vars
               PROVE  RequestInv'
    OBVIOUS
  <2>1. Kept
    BY KeptStep DEF RequestInv
  <2>2. CapturedWasAttempted'
    BY PaymentsKeptStep DEF RequestInv, RowInv, TypeOK
  <2>3. QED
    BY <2>1, <2>2, RequestsAreSoundStep, CreditIsEarnedStep, AnswersAreSoundStep
       DEF RequestInv
<1>2. QED
  BY <1>1, InitRequestInv, RowInvariant, PTL DEF Spec

\* FIN-001: whichever of the callback, the webhook and the recovery credits a
\* row, it does so with a payment captured on the order stored on that row.
THEOREM CreditsAreCaptured == Spec => []CreditIsCaptured
<1>1. RequestInv => CreditIsCaptured
  BY DEF RequestInv, RowInv, TypeOK, AgreementTypeOK, CreditIsEarned, EventsAreSound,
         ReferenceIsCredit, CreditIsCaptured, Rows
<1>2. QED
  BY <1>1, RequestInvariant, PTL

\* PAY-010, PAY-015: no number of retries, time-outs and crashes gets a payment
\* acknowledged and forgotten.
THEOREM AcknowledgedIsSafe == Spec => []AcknowledgedIsAccountedFor
<1>1. RequestInv => AcknowledgedIsAccountedFor
  BY DEF RequestInv
<1>2. QED
  BY <1>1, RequestInvariant, PTL

-----------------------------------------------------------------------------
(* The provider is asked once. *)

\* A request calls the provider before any order exists, and only for a row.
OrdersAreSingle ==
  \A c \in Contributions :
    /\ orders[c] \in {0, 1}
    /\ creator[c] = "calling" => orders[c] = 0
    /\ status[c] = "none" => orders[c] = 0 /\ creator[c] = "gone"

\* Each order request was started by a form that showed every earlier row.
FormsWereReviewed ==
  \A c \in order_request : \E k \in Keys : submission[k] = c /\ form[k] = c - 1

\* A row does not vanish.
LEMMA RowsStay ==
  ASSUME AgreementTypeOK, PaidIffAllocatedOnce, RowStep
  PROVE  \A d \in Contributions : status'[d] = "none" => status[d] = "none"
<1> USE DEF AgreementTypeOK
<1>1. CASE UNCHANGED rowColumns
  BY <1>1 DEF rowColumns
<1>2. ASSUME NEW c \in Contributions, Started(c) \/ Received(c)
      PROVE  \A d \in Contributions : status'[d] = "none" => status[d] = "none"
  BY <1>2 DEF Started, Received, InsertContribution
<1>3. ASSUME NEW c \in Contributions, Bound(c) \/ Abandoned(c) \/ Corrected(c)
      PROVE  \A d \in Contributions : status'[d] = "none" => status[d] = "none"
  BY <1>3 DEF Bound, Abandoned, Corrected
<1>4. ASSUME NEW c \in Contributions,
             AllocateRow(c) \/ KeepAllocation(c) \/ MarkUnallocated(c)
      PROVE  \A d \in Contributions : status'[d] = "none" => status[d] = "none"
  BY <1>4, SettledStaysSettled
<1>5. ASSUME NEW c \in Contributions, NEW p, ConfirmRow(c, p) \/ ConfirmAndAllocateRow(c, p)
      PROVE  \A d \in Contributions : status'[d] = "none" => status[d] = "none"
  BY <1>5 DEF ConfirmRow, ConfirmAndAllocateRow
<1>6. QED
  BY <1>1, <1>2, <1>3, <1>4, <1>5 DEF RowStep, QuietStep

\* A first transaction starts one contribution, from a form that showed all
\* the others.
LEMMA InitiateAsksOnce ==
  ASSUME TypeOK, FreshRows, OrdersAreSingle, FormsWereReviewed,
         NEW k \in Keys, InitiateCheckout(k), UNCHANGED providerVars
  PROVE  OrdersAreSingle' /\ FormsWereReviewed'
<1> USE DEF TypeOK, AgreementTypeOK, ProviderTypeOK, CheckoutTypeOK
<1>1. PICK c \in Contributions :
        /\ InsertContribution(c, "PENDING", "RAZORPAY")
        /\ submission' = [submission EXCEPT ![k] = c]
        /\ order_request' = order_request \cup {c}
        /\ creator' = [creator EXCEPT ![c] = "calling"]
  BY DEF InitiateCheckout
<1>2. /\ c \in Nat /\ c = latest + 1 /\ latest \in Nat
      /\ status' = [status EXCEPT ![c] = "PENDING"]
      /\ UNCHANGED <<orders, form>>
      /\ submission[k] = 0 /\ form[k] = latest
  BY <1>1, BoundsAssumption
     DEF InitiateCheckout, InsertContribution, HistoryReviewed, providerVars, Contributions
<1>3. status[c] = "none"
  BY <1>2 DEF FreshRows
<1>4. OrdersAreSingle'
  BY <1>1, <1>2, <1>3 DEF OrdersAreSingle
<1>5. ASSUME NEW d \in order_request'
      PROVE  \E j \in Keys : submission'[j] = d /\ form'[j] = d - 1
  <2>1. CASE d = c
    BY <1>1, <1>2, <2>1
  <2>2. CASE d # c
    <3>1. PICK j \in Keys : submission[j] = d /\ form[j] = d - 1
      BY <1>1, <1>5, <2>2 DEF FormsWereReviewed
    <3>2. d # 0
      BY <1>1, <1>5, <2>2 DEF Contributions
    <3>3. QED
      BY <1>1, <1>2, <3>1, <3>2
  <2>3. QED
    BY <2>1, <2>2
<1>6. QED
  BY <1>4, <1>5 DEF FormsWereReviewed

\* A form is rendered once and submitted once.
LEMMA FormsStayReviewed ==
  ASSUME CheckoutTypeOK, FormsWereReviewed, UNCHANGED order_request,
         \/ UNCHANGED <<form, submission>>
         \/ \E k \in Keys : \E m : /\ form[k] = NotRendered
                                   /\ form' = [form EXCEPT ![k] = m]
                                   /\ UNCHANGED submission
         \/ \E k \in Keys : \E c : /\ submission[k] = 0
                                   /\ submission' = [submission EXCEPT ![k] = c]
                                   /\ UNCHANGED form
  PROVE  FormsWereReviewed'
<1> USE DEF CheckoutTypeOK
<1>1. ASSUME NEW d \in order_request
      PROVE  \E j \in Keys : submission'[j] = d /\ form'[j] = d - 1
  <2>1. PICK j \in Keys : submission[j] = d /\ form[j] = d - 1
    BY DEF FormsWereReviewed
  <2>2. d \in Nat /\ d # 0 /\ d - 1 # NotRendered
    BY BoundsAssumption DEF Contributions, NotRendered
  <2>3. submission'[j] = d /\ form'[j] = d - 1
    BY <2>1, <2>2
  <2>4. QED
    BY <2>3
<1>2. QED
  BY <1>1 DEF FormsWereReviewed

\* The whole checkout asks the provider once.
LEMMA CheckoutAsksOnce ==
  ASSUME TypeOK, FreshRows, OrdersAreSingle, FormsWereReviewed, CheckoutStep,
         \A d \in Contributions : status'[d] = "none" => status[d] = "none"
  PROVE  OrdersAreSingle' /\ FormsWereReviewed'
<1> DEFINE Goal == OrdersAreSingle' /\ FormsWereReviewed'
<1> USE DEF TypeOK, ProviderTypeOK, CheckoutTypeOK
<1>1. UNCHANGED <<orders, creator>> => OrdersAreSingle'
  BY DEF OrdersAreSingle
<1>2. ASSUME NEW k \in Keys, UNCHANGED providerVars,
             RenderForm(k) \/ AliasPending(k) \/ AliasLatest(k)
      PROVE  Goal
  <2>1. UNCHANGED <<orders, creator, order_request>>
    BY <1>2 DEF RenderForm, AliasPending, AliasLatest, Resolve, providerVars
  <2>2. FormsWereReviewed'
    BY <1>2, <2>1, FormsStayReviewed DEF RenderForm, AliasPending, AliasLatest, Resolve
  <2>3. QED
    BY <1>1, <2>1, <2>2
<1>3. ASSUME NEW c \in Contributions, CallProvider(c)
      PROVE  Goal
  <2>1. FormsWereReviewed'
    BY <1>3, FormsStayReviewed DEF CallProvider
  <2>2. /\ creator[c] = "calling" /\ orders[c] = 0 /\ status[c] # "none"
        /\ orders' = [orders EXCEPT ![c] = 1]
    <3>1. creator[c] = "calling" /\ orders' = [orders EXCEPT ![c] = orders[c] + 1]
      BY <1>3 DEF CallProvider, CreateOrder
    <3>2. orders[c] = 0 /\ status[c] # "none"
      BY <3>1 DEF OrdersAreSingle
    <3>3. QED
      BY <3>1, <3>2
  <2>3. \E answer \in {"answered", "gone"} : creator' = [creator EXCEPT ![c] = answer]
    BY <1>3 DEF CallProvider
  <2>4. OrdersAreSingle'
    BY <2>2, <2>3 DEF OrdersAreSingle
  <2>5. QED
    BY <2>1, <2>4
<1>4. ASSUME NEW c \in Contributions, CreatorStops(c) \/ BindOrder(c), UNCHANGED orders
      PROVE  Goal
  <2>1. FormsWereReviewed'
    BY <1>4, FormsStayReviewed DEF CreatorStops, BindOrder
  <2>2. creator' = [creator EXCEPT ![c] = "gone"]
    BY <1>4 DEF CreatorStops, BindOrder
  <2>3. QED
    BY <1>4, <2>1, <2>2 DEF OrdersAreSingle
<1>5. ASSUME NEW c \in Contributions, UNCHANGED providerVars,
             RecoverOrderIdentity(c) \/ InspectOrder(c) \/ ApplyAbandonment(c)
      PROVE  Goal
  <2>1. UNCHANGED <<orders, creator, form, submission, order_request>>
    BY <1>5 DEF RecoverOrderIdentity, InspectOrder, ApplyAbandonment, providerVars
  <2>2. QED
    BY <1>1, <2>1, FormsStayReviewed
<1>6. QED
  BY <1>2, <1>3, <1>4, <1>5, InitiateAsksOnce DEF CheckoutStep, CreatorStops, providerVars

\* PAY-031, PAY-032: any number of forms, lost answers and recoveries leads to
\* at most one provider order per contribution, each started by a reviewed form.
THEOREM OrdersAreRequestedOnce == Spec => []OneProviderOrder
<1> DEFINE OrderInv == OrdersAreSingle /\ FormsWereReviewed
<1>1. Init => OrderInv
  BY DEF Init, AgreementInit, ProviderInit, CheckoutInit, OrdersAreSingle, FormsWereReviewed
<1>2. RowInv /\ OrderInv /\ [Next]_vars => OrderInv'
  <2> SUFFICES ASSUME RowInv, OrderInv, [Next]_vars
               PROVE  OrderInv'
    OBVIOUS
  <2>1. \A d \in Contributions : status'[d] = "none" => status[d] = "none"
    BY EveryStepIsRowStep, RowsStay DEF RowInv, TypeOK
  <2>2. CASE UNCHANGED <<orders, checkoutVars>>
    BY <2>1, <2>2, FormsStayReviewed DEF OrdersAreSingle, checkoutVars, RowInv, TypeOK
  <2>3. CASE PaymentStep /\ UNCHANGED checkoutVars
    BY <2>2, <2>3 DEF PaymentStep, AttemptPayment, CapturePayment
  <2>4. CASE CheckoutStep
    BY <2>1, <2>4, CheckoutAsksOnce DEF RowInv
  <2>5. QED
    BY <2>2, <2>3, <2>4 DEF Next, vars, providerVars
<1>3. RowInv /\ OrderInv => OneProviderOrder
  BY DEF OrdersAreSingle, FormsWereReviewed, OneProviderOrder
<1>4. QED
  BY <1>1, <1>2, <1>3, RowInvariant, PTL DEF Spec

-----------------------------------------------------------------------------
(* The system implements the ledger. *)

LedgerOutcome == [c \in Contributions |-> Outcome(c)]
LedgerMetal == {c \in Contributions : allocations[c] # <<>>}

\* How a status reads in the ledger, before and after a step.
LEMMA OutcomeValues ==
  ASSUME AgreementTypeOK, AgreementTypeOK', NEW c \in Contributions
  PROVE  /\ Outcome(c) = IF status[c] \in {"none", "PENDING"} THEN "open"
                         ELSE IF status[c] \in Successful THEN "paid" ELSE "closed"
         /\ Outcome(c)' = IF status'[c] \in {"none", "PENDING"} THEN "open"
                          ELSE IF status'[c] \in Successful THEN "paid" ELSE "closed"
<1>1. status[c] \in Statuses /\ status'[c] \in Statuses
  BY DEF AgreementTypeOK
<1>2. QED
  BY <1>1 DEF Outcome, Statuses, Successful

\* One row changes its outcome, the others keep theirs.
LEMMA OneOutcomeChanges ==
  ASSUME AgreementTypeOK, AgreementTypeOK', NEW c \in Contributions, NEW s \in Statuses,
         status' = [status EXCEPT ![c] = s]
  PROVE  LedgerOutcome' = [LedgerOutcome EXCEPT ![c] = Outcome(c)']
<1>1. \A d \in Contributions : d # c => Outcome(d)' = Outcome(d)
  BY OutcomeValues DEF AgreementTypeOK
<1>2. QED
  BY <1>1 DEF LedgerOutcome

\* An allocation that is added is there.
LEMMA AllocationAppears ==
  ASSUME AgreementTypeOK, NEW c \in Contributions
  PROVE  Append(allocations[c], scheme_rate[c]) # <<>>
<1>1. allocations[c] \in Seq(Rates) /\ scheme_rate[c] \in Rates
  BY DEF AgreementTypeOK
<1>2. QED
  BY <1>1

\* The row steps that the ledger does not see.
LEMMA LedgerStutters ==
  ASSUME AgreementTypeOK, AgreementTypeOK', FreshRows, PaidIffAllocatedOnce,
         \/ UNCHANGED rowColumns
         \/ \E c \in Contributions : Started(c) \/ Bound(c) \/ KeepAllocation(c)
                                     \/ MarkUnallocated(c)
  PROVE  UNCHANGED <<LedgerOutcome, reference, LedgerMetal>>
<1> USE DEF AgreementTypeOK
<1>1. UNCHANGED <<reference, allocations>>
  BY DEF rowColumns, Started, InsertContribution, Bound, KeepAllocation, MarkUnallocated
<1>2. ASSUME NEW d \in Contributions
      PROVE  Outcome(d)' = Outcome(d)
  <2>1. CASE UNCHANGED status
    BY <2>1, OutcomeValues
  <2>2. ASSUME NEW c \in Contributions, Started(c)
        PROVE  Outcome(d)' = Outcome(d)
    <3>1. status[c] = "none" /\ status' = [status EXCEPT ![c] = "PENDING"]
      BY <2>2, BoundsAssumption DEF Started, InsertContribution, FreshRows, Contributions
    <3>2. QED
      BY <3>1, OutcomeValues
  <2>3. ASSUME NEW c \in Contributions, KeepAllocation(c) \/ MarkUnallocated(c)
        PROVE  Outcome(d)' = Outcome(d)
    <3>1. status'[d] \in Successful <=> status[d] \in Successful
      BY <2>3, SettledStaysSettled
    <3>2. status'[d] # status[d] => status[d] \in Successful
      BY <2>3 DEF KeepAllocation, MarkUnallocated, Successful
    <3>3. QED
      BY <3>1, <3>2, OutcomeValues DEF Successful
  <2>4. QED
    BY <2>1, <2>2, <2>3 DEF rowColumns, Bound
<1>3. QED
  BY <1>1, <1>2 DEF LedgerOutcome, LedgerMetal

\* A payment of an online row is a payment of the ledger.
LEMMA LedgerPays ==
  ASSUME RowInv, RowInv', CreditIsEarned, PaidStep
  PROVE  \E p \in Payments, c \in Contributions : Ledger!Pay(p, c)
<1> USE DEF RowInv, TypeOK, AgreementTypeOK
<1>1. PICK c \in Contributions, p \in Payments :
        /\ CapturedFor(p, c)
        /\ ConfirmRow(c, p) \/ ConfirmAndAllocateRow(c, p)
        /\ UNCHANGED providerVars
  BY DEF PaidStep
<1>2. PICK s \in Successful : status' = [status EXCEPT ![c] = s]
  BY <1>1 DEF ConfirmRow, ConfirmAndAllocateRow, Successful
<1>3. /\ status[c] = "PENDING" /\ reference' = [reference EXCEPT ![c] = p]
      /\ UNCHANGED captured
  BY <1>1 DEF ConfirmRow, ConfirmAndAllocateRow, providerVars
<1>4. Outcome(c) = "open" /\ Outcome(c)' = "paid"
  BY <1>2, <1>3, OutcomeValues DEF Successful
<1>5. LedgerOutcome' = [LedgerOutcome EXCEPT ![c] = "paid"]
  BY <1>2, <1>4, OneOutcomeChanges DEF Successful, Statuses
<1>6. \A d \in Contributions : reference[d] # p
  <2>1. ASSUME NEW d \in Contributions, reference[d] = p
        PROVE  FALSE
    <3>1. CapturedFor(p, d)
      BY <2>1 DEF CreditIsEarned
    <3>2. d = c
      BY <1>1, <3>1 DEF CapturedFor
    <3>3. QED
      BY <1>3, <2>1, <3>2, PaymentAssumption DEF ReferenceIsCredit, Successful
  <2>2. QED
    BY <2>1
<1>7. LedgerMetal' \in {LedgerMetal, LedgerMetal \cup {c}}
  <2>1. CASE ConfirmRow(c, p)
    BY <2>1 DEF ConfirmRow, LedgerMetal
  <2>2. CASE ConfirmAndAllocateRow(c, p)
    <3>1. Append(allocations[c], scheme_rate[c]) # <<>>
      BY AllocationAppears
    <3>2. allocations' = [allocations EXCEPT ![c] = Append(allocations[c], scheme_rate[c])]
      BY <2>2 DEF ConfirmAndAllocateRow
    <3>3. QED
      BY <3>1, <3>2 DEF LedgerMetal
  <2>3. QED
    BY <1>1, <2>1, <2>2
<1>8. p \in captured
  BY <1>1 DEF CapturedFor
<1>9. Ledger!Pay(p, c)
  BY <1>3, <1>4, <1>5, <1>6, <1>7, <1>8 DEF Ledger!Pay, LedgerOutcome, LedgerMetal
<1>10. QED
  BY <1>9

\* A quiet step is a cash payment, a credit of metal or a closing, or nothing
\* the ledger sees.
LEMMA LedgerOfQuietStep ==
  ASSUME RowInv, RowInv', QuietStep, UNCHANGED captured
  PROVE  Ledger!Next \/ UNCHANGED Ledger!vars
<1> USE DEF RowInv, TypeOK, AgreementTypeOK
<1>1. ASSUME NEW c \in Contributions, Received(c)
      PROVE  Ledger!PayCash(c)
  <2>1. /\ status[c] = "none" /\ status' = [status EXCEPT ![c] = "PAID_UNALLOCATED"]
        /\ UNCHANGED <<reference, allocations>>
    BY <1>1, BoundsAssumption DEF Received, InsertContribution, FreshRows, Contributions
  <2>2. Outcome(c) = "open" /\ Outcome(c)' = "paid"
    BY <2>1, OutcomeValues DEF Successful
  <2>3. LedgerOutcome' = [LedgerOutcome EXCEPT ![c] = "paid"]
    BY <2>1, <2>2, OneOutcomeChanges DEF Statuses
  <2>4. QED
    BY <2>1, <2>2, <2>3 DEF Ledger!PayCash, LedgerOutcome
<1>2. ASSUME NEW c \in Contributions, Abandoned(c) \/ Corrected(c)
      PROVE  Ledger!Close(c)
  <2>1. PICK s \in {"ABANDONED", "REVERSED"} : status' = [status EXCEPT ![c] = s]
    BY <1>2 DEF Abandoned, Corrected
  <2>2. /\ status[c] \in Successful \cup {"PENDING"}
        /\ reference[c] = NoPayment
        /\ UNCHANGED <<reference, allocations>>
    BY <1>2 DEF Abandoned, Corrected, ReferenceIsCredit, Successful
  <2>3. Outcome(c) # "closed" /\ Outcome(c)' = "closed"
    BY <2>1, <2>2, OutcomeValues DEF Successful
  <2>4. LedgerOutcome' = [LedgerOutcome EXCEPT ![c] = "closed"]
    BY <2>1, <2>3, OneOutcomeChanges DEF Statuses
  <2>5. QED
    BY <2>2, <2>3, <2>4 DEF Ledger!Close, LedgerOutcome
<1>3. ASSUME NEW c \in Contributions, AllocateRow(c)
      PROVE  Ledger!CreditMetal(c)
  <2>1. /\ status[c] \in Successful /\ allocations[c] = <<>>
        /\ status' = [status EXCEPT ![c] = "PAID"]
        /\ allocations' = [allocations EXCEPT ![c] = Append(allocations[c], scheme_rate[c])]
        /\ UNCHANGED reference
    BY <1>3 DEF AllocateRow
  <2>2. Outcome(c) = "paid" /\ Outcome(c)' = "paid"
    BY <2>1, OutcomeValues DEF Successful
  <2>3. LedgerOutcome' = LedgerOutcome
    <3>1. \A d \in Contributions : Outcome(d)' = Outcome(d)
      BY <2>1, <2>2, OutcomeValues
    <3>2. QED
      BY <3>1 DEF LedgerOutcome
  <2>4. Append(allocations[c], scheme_rate[c]) # <<>>
    BY AllocationAppears
  <2>5. c \notin LedgerMetal /\ LedgerMetal' = LedgerMetal \cup {c}
    BY <2>1, <2>4 DEF LedgerMetal
  <2>6. QED
    BY <2>1, <2>2, <2>3, <2>5 DEF Ledger!CreditMetal, LedgerOutcome, LedgerMetal
<1>4. CASE \/ UNCHANGED rowColumns
           \/ \E c \in Contributions : Started(c) \/ Bound(c) \/ KeepAllocation(c)
                                       \/ MarkUnallocated(c)
  BY <1>4, LedgerStutters DEF Ledger!vars, LedgerOutcome, LedgerMetal
<1>5. QED
  BY <1>1, <1>2, <1>3, <1>4 DEF QuietStep, Ledger!Next

\* Money moves at the provider.
LEMMA LedgerCaptures ==
  ASSUME RowInv, RowInv', UNCHANGED agreementVars, PaymentStep \/ UNCHANGED providerVars
  PROVE  Ledger!Next \/ UNCHANGED Ledger!vars
<1>1. UNCHANGED <<LedgerOutcome, reference, LedgerMetal>>
  BY LedgerStutters DEF RowInv, TypeOK, agreementVars, rowVars, rowColumns
<1>2. CASE UNCHANGED captured
  BY <1>1, <1>2 DEF Ledger!vars, LedgerOutcome, LedgerMetal
<1>3. ASSUME NEW p \in Payments, CapturePayment(p)
      PROVE  Ledger!Capture(p)
  BY <1>1, <1>3 DEF CapturePayment, Ledger!Capture, LedgerOutcome, LedgerMetal
<1>4. UNCHANGED captured \/ \E p \in Payments : CapturePayment(p)
  BY DEF PaymentStep, AttemptPayment, providerVars
<1>5. QED
  BY <1>2, <1>3, <1>4 DEF Ledger!Next

\* Every interleaving of requests, retries, crashes and owner actions is a
\* behaviour of the ledger.
THEOREM MetalImplementsLedger == Spec => ImplementsLedger
<1>1. Init => Ledger!Init
  <2> SUFFICES ASSUME Init PROVE Ledger!Init
    OBVIOUS
  <2>1. \A c \in Contributions : Outcome(c) = "open"
    BY DEF Init, AgreementInit, Outcome, Successful
  <2>2. \A c \in Contributions : allocations[c] = <<>>
    BY DEF Init, AgreementInit
  <2>3. QED
    BY <2>1, <2>2 DEF Init, AgreementInit, ProviderInit, Ledger!Init
<1>2. RequestInv /\ RowInv' /\ [Next]_vars => [Ledger!Next]_(Ledger!vars)
  <2> SUFFICES ASSUME RequestInv, RowInv', [Next]_vars
               PROVE  Ledger!Next \/ UNCHANGED Ledger!vars
    OBVIOUS
  <2>1. CASE UNCHANGED agreementVars /\ (PaymentStep \/ UNCHANGED providerVars)
    BY <2>1, LedgerCaptures DEF RequestInv
  <2>2. CASE QuietStep /\ UNCHANGED captured
    BY <2>2, LedgerOfQuietStep DEF RequestInv
  <2>3. CASE PaidStep
    BY <2>3, LedgerPays DEF RequestInv, Ledger!Next
  <2>4. QuietStep \/ PaidStep
    BY EveryPaymentIsCaptured DEF RequestInv
  <2>5. \/ UNCHANGED captured
        \/ UNCHANGED agreementVars /\ PaymentStep
    BY DEF Next, vars, providerVars, CheckoutStep, CallProvider, CreateOrder, CreatorStops
  <2>6. QED
    BY <2>1, <2>2, <2>3, <2>4, <2>5
<1>3. QED
  BY <1>1, <1>2, RequestInvariant, RowInvariant, PTL DEF Spec, ImplementsLedger, Ledger!Spec

-----------------------------------------------------------------------------
(* Metal is never overdrawn. *)

\* What allocations at the rates a buy.
BoughtBy(a) == SumFunction([i \in DOMAIN a |-> Grams[a[i]]])

\* The grams of the PAID rows, of the standing redemptions, and who they are.
PaidIn(st) == {c \in Contributions : st[c] = "PAID"}
PaidGrams(st, al) == [c \in PaidIn(st) |-> BoughtBy(al[c])]
StandingIn(red, rev) == {s \in Settlements : red[s] # 0} \ rev
TakenGrams(red, rev) == [s \in StandingIn(red, rev) |-> red[s]]

\* One allocation buys the grams of its rate, none buys none.
LEMMA GramsBought ==
  BoughtBy(<<>>) = 0 /\ \A r \in Rates : BoughtBy(<<r>>) = Grams[r] /\ Grams[r] \in Nat \ {0}
<1>1. BoughtBy(<<>>) = 0
  <2>1. PICK f : f = [i \in DOMAIN <<>> |-> Grams[<<>>[i]]]
    OBVIOUS
  <2>2. DOMAIN f = {}
    BY <2>1
  <2>3. SumFunction(f) = 0
    BY <2>2, SumOfNone
  <2>4. QED
    BY <2>1, <2>3 DEF BoughtBy
<1>2. ASSUME NEW r \in Rates
      PROVE  BoughtBy(<<r>>) = Grams[r] /\ Grams[r] \in Nat \ {0}
  <2>1. Grams[r] \in Nat \ {0}
    BY GramsAssumption
  <2>2. PICK f, g : f = [i \in {} |-> 0] /\ g = [i \in DOMAIN <<r>> |-> Grams[<<r>>[i]]]
    OBVIOUS
  <2>3. DOMAIN f = {} /\ DOMAIN g = DOMAIN f \cup {1} /\ g[1] = Grams[r]
    BY <2>2
  <2>4. IsFiniteSet(DOMAIN f)
    BY <2>3, FS_EmptySet
  <2>5. SumFunction(g) = SumFunction(f) + g[1]
    BY <2>1, <2>3, <2>4, SumGrows
  <2>6. SumFunction(f) = 0
    BY <2>3, SumOfNone
  <2>7. SumFunction(g) = Grams[r]
    BY <2>1, <2>3, <2>5, <2>6
  <2>8. QED
    BY <2>1, <2>2, <2>7 DEF BoughtBy
<1>3. QED
  BY <1>1, <1>2

\* The balance, as sums of the columns.
LEMMA BalanceColumns ==
  /\ Accumulated = SumFunction(PaidGrams(status, allocations))
  /\ Withdrawn = SumFunction(TakenGrams(redeemed, reversed))
  /\ \A c \in Contributions : AllocatedGrams(c) = BoughtBy(allocations[c])
  /\ Accumulated' = SumFunction(PaidGrams(status', allocations'))
  /\ Withdrawn' = SumFunction(TakenGrams(redeemed', reversed'))
<1>1. /\ {d \in Rows : status[d] = "PAID"} = PaidIn(status)
      /\ {d \in Rows' : status'[d] = "PAID"} = PaidIn(status')
  BY DEF Rows, PaidIn
<1>2. /\ Accumulated = SumFunction(PaidGrams(status, allocations))
      /\ Accumulated' = SumFunction(PaidGrams(status', allocations'))
  BY <1>1 DEF Accumulated, PaidGrams, AllocatedGrams, BoughtBy
<1>3. /\ Withdrawn = SumFunction(TakenGrams(redeemed, reversed))
      /\ Withdrawn' = SumFunction(TakenGrams(redeemed', reversed'))
  BY DEF Withdrawn, TakenGrams, StandingRedemptions, StandingIn
<1>4. \A c \in Contributions : AllocatedGrams(c) = BoughtBy(allocations[c])
  BY DEF AllocatedGrams, BoughtBy
<1>5. QED
  BY <1>2, <1>3, <1>4

\* The paid rows are finitely many, and each counts for what its allocation bought.
LEMMA PaidRowsCount ==
  \A st, al :
    (\A c \in PaidIn(st) : \E r \in Rates : al[c] = <<r>>) =>
      /\ IsFiniteSet(PaidIn(st)) /\ DOMAIN PaidGrams(st, al) = PaidIn(st)
      /\ \A c \in PaidIn(st) :
           PaidGrams(st, al)[c] = BoughtBy(al[c]) /\ PaidGrams(st, al)[c] \in Nat
      /\ SumFunction(PaidGrams(st, al)) \in Nat
<1> SUFFICES ASSUME NEW st, NEW al, \A c \in PaidIn(st) : \E r \in Rates : al[c] = <<r>>
             PROVE  /\ IsFiniteSet(PaidIn(st)) /\ DOMAIN PaidGrams(st, al) = PaidIn(st)
                    /\ \A c \in PaidIn(st) : /\ PaidGrams(st, al)[c] = BoughtBy(al[c])
                                             /\ PaidGrams(st, al)[c] \in Nat
                    /\ SumFunction(PaidGrams(st, al)) \in Nat
  OBVIOUS
<1>1. IsFiniteSet(PaidIn(st))
  <2>1. IsFiniteSet(Contributions)
    BY BoundsAssumption, FS_Interval DEF Contributions
  <2>2. QED
    BY <2>1, FS_Subset DEF PaidIn
<1>2. \A c \in PaidIn(st) : BoughtBy(al[c]) \in Nat
  BY GramsBought
<1>3. /\ DOMAIN PaidGrams(st, al) = PaidIn(st)
      /\ \A c \in PaidIn(st) :
           PaidGrams(st, al)[c] = BoughtBy(al[c]) /\ PaidGrams(st, al)[c] \in Nat
  BY <1>2 DEF PaidGrams
<1>4. SumFunction(PaidGrams(st, al)) \in Nat
  BY <1>1, <1>3, SumType
<1>5. QED
  BY <1>1, <1>3, <1>4

\* A row that is paid has one allocation.
LEMMA PaidRowsAreAllocated ==
  /\ RowInv => \A c \in PaidIn(status) : \E r \in Rates : allocations[c] = <<r>>
  /\ RowInv' => \A c \in PaidIn(status') : \E r \in Rates : allocations'[c] = <<r>>
<1>1. RowInv => \A c \in PaidIn(status) : \E r \in Rates : allocations[c] = <<r>>
  BY DEF RowInv, TypeOK, AgreementTypeOK, PaidIffAllocatedOnce, PaidIn, Rows
<1>2. RowInv' => \A c \in PaidIn(status') : \E r \in Rates : allocations'[c] = <<r>>
  BY DEF RowInv, TypeOK, AgreementTypeOK, PaidIffAllocatedOnce, PaidIn, Rows
<1>3. QED
  BY <1>1, <1>2

\* A row stops being PAID only when the owner corrects it.
LEMMA PaidRowsStay ==
  ASSUME RowInv, RowStep
  PROVE  \/ PaidIn(status) \subseteq PaidIn(status')
         \/ \E c \in Contributions : Corrected(c)
<1> USE DEF PaidIn
<1>0. status \in [Contributions -> Statuses]
  BY DEF RowInv, TypeOK, AgreementTypeOK
<1>1. CASE UNCHANGED rowColumns
  BY <1>1 DEF rowColumns
<1>2. ASSUME NEW c \in Contributions, Started(c) \/ Received(c)
      PROVE  PaidIn(status) \subseteq PaidIn(status')
  <2>1. status[c] = "none"
    BY <1>2, BoundsAssumption
       DEF Started, Received, InsertContribution, Contributions, RowInv, FreshRows, TypeOK,
           AgreementTypeOK
  <2>2. \A d \in Contributions : d # c => status'[d] = status[d]
    BY <1>0, <1>2 DEF Started, Received, InsertContribution
  <2>3. QED
    BY <2>1, <2>2
<1>3. ASSUME NEW c \in Contributions, Bound(c) \/ Abandoned(c)
      PROVE  PaidIn(status) \subseteq PaidIn(status')
  BY <1>0, <1>3 DEF Bound, Abandoned
<1>4. ASSUME NEW c \in Contributions, AllocateRow(c) \/ KeepAllocation(c)
      PROVE  PaidIn(status) \subseteq PaidIn(status')
  BY <1>0, <1>4 DEF AllocateRow, KeepAllocation
<1>5. ASSUME NEW c \in Contributions, MarkUnallocated(c)
      PROVE  PaidIn(status) \subseteq PaidIn(status')
  <2>1. status[c] = "PAID" => allocations[c] # <<>>
    BY DEF RowInv, PaidIffAllocatedOnce, Rows
  <2>2. QED
    BY <1>0, <1>5, <2>1 DEF MarkUnallocated
<1>6. ASSUME NEW c \in Contributions, NEW p, ConfirmRow(c, p) \/ ConfirmAndAllocateRow(c, p)
      PROVE  PaidIn(status) \subseteq PaidIn(status')
  BY <1>0, <1>6 DEF ConfirmRow, ConfirmAndAllocateRow
<1>7. QED
  BY <1>1, <1>2, <1>3, <1>4, <1>5, <1>6 DEF RowStep, QuietStep

\* What a step does to the metal accumulated: it grows, or a correction takes
\* away what the balance holds.
LEMMA AccumulatedStep ==
  ASSUME RowInv, RowInv', RowStep, Withdrawn \in Nat
  PROVE  /\ Accumulated \in Nat /\ Accumulated' \in Nat
         /\ Accumulated' >= Accumulated \/ Accumulated' >= Withdrawn
<1>1. PICK f, g : f = PaidGrams(status, allocations) /\ g = PaidGrams(status', allocations')
  OBVIOUS
<1>2. PICK P, Q : P = PaidIn(status) /\ Q = PaidIn(status')
  OBVIOUS
<1>3. /\ IsFiniteSet(P) /\ DOMAIN f = P /\ SumFunction(f) \in Nat
      /\ \A c \in P : f[c] = BoughtBy(allocations[c]) /\ f[c] \in Nat
  BY <1>1, <1>2, PaidRowsAreAllocated, PaidRowsCount
<1>4. /\ IsFiniteSet(Q) /\ DOMAIN g = Q /\ SumFunction(g) \in Nat
      /\ \A c \in Q : g[c] = BoughtBy(allocations'[c]) /\ g[c] \in Nat
  BY <1>1, <1>2, PaidRowsAreAllocated, PaidRowsCount
<1>5. Accumulated = SumFunction(f) /\ Accumulated' = SumFunction(g)
  BY <1>1, BalanceColumns
<1>6. \A c \in P : allocations'[c] = allocations[c]
  <2>1. \A c \in P : c \in Contributions /\ allocations[c] # <<>>
    BY <1>2, PaidRowsAreAllocated DEF PaidIn
  <2>2. EvidenceKept
    BY EvidenceKeptStep DEF RowInv, TypeOK
  <2>3. QED
    BY <2>1, <2>2 DEF EvidenceKept
<1>7. CASE P \subseteq Q
  <2>1. \A c \in P : f[c] = g[c]
    BY <1>3, <1>4, <1>6, <1>7
  <2>2. SumFunction(g) >= SumFunction(f)
    BY <1>3, <1>4, <1>7, <2>1, SumMonotone
  <2>3. QED
    BY <1>3, <1>4, <1>5, <2>2
<1>8. ASSUME ~(P \subseteq Q), NEW c \in Contributions, Corrected(c)
      PROVE  Accumulated' >= Withdrawn
  <2>1. \A d \in Contributions : d # c => status'[d] = status[d]
    BY <1>8 DEF Corrected, RowInv, TypeOK, AgreementTypeOK
  <2>2. status'[c] = "REVERSED"
    BY <1>8 DEF Corrected, RowInv, TypeOK, AgreementTypeOK
  <2>3. c \in P /\ c \notin Q /\ P = Q \cup {c}
    BY <1>2, <1>8, <2>1, <2>2 DEF PaidIn
  <2>4. \A d \in Q : g[d] \in Int /\ f[d] = g[d]
    BY <1>3, <1>4, <1>6, <2>3
  <2>5. SumFunction(f) = SumFunction(g) + f[c]
    BY <1>3, <1>4, <2>3, <2>4, SumGrows
  <2>6. f[c] = AllocatedGrams(c)
    BY <1>3, <2>3, BalanceColumns
  <2>7. allocations[c] # <<>>
    BY <1>2, <2>3, PaidRowsAreAllocated
  <2>8. Accumulated - Withdrawn >= f[c]
    BY <1>8, <2>6, <2>7 DEF Corrected, Balance
  <2>9. QED
    BY <1>3, <1>4, <1>5, <2>3, <2>5, <2>8
<1>9. QED
  BY <1>2, <1>3, <1>4, <1>5, <1>7, <1>8, PaidRowsStay

\* The redemptions and their reversals change only as the owner completes and
\* reverses them, which leaves the rows alone.
LEMMA RedemptionStep ==
  [Next]_vars =>
    \/ UNCHANGED <<redeemed, reversed>>
    \/ /\ UNCHANGED <<status, allocations>>
       /\ \E s \in Settlements : CompleteRedemption(s) \/ ReverseRedemption(s)
<1> SUFFICES ASSUME [Next]_vars
             PROVE  \/ UNCHANGED <<redeemed, reversed>>
                    \/ /\ UNCHANGED <<status, allocations>>
                       /\ \E s \in Settlements : CompleteRedemption(s) \/ ReverseRedemption(s)
  OBVIOUS
<1>1. CASE UNCHANGED showroomVars
  BY <1>1 DEF showroomVars
<1>2. CASE ShowroomStep
  <2>1. ASSUME NEW s \in Settlements, CompleteRedemption(s) \/ ReverseRedemption(s)
        PROVE  UNCHANGED <<status, allocations>>
    BY <2>1 DEF CompleteRedemption, ReverseRedemption, rowVars
  <2>2. ASSUME NEW r \in Receipts,
               PreviewCash(r) \/ \E w \in Workers : RecordCash(w, r) \/ ReplayCash(w, r)
        PROVE  UNCHANGED <<redeemed, reversed>>
    BY <2>2 DEF PreviewCash, RecordCash, ReplayCash, showroomVars
  <2>3. ASSUME NEW c \in Contributions, CorrectionCloses(c) \/ ReverseCash(c)
        PROVE  UNCHANGED <<redeemed, reversed>>
    BY <2>3 DEF CorrectionCloses, ReverseCash, showroomVars
  <2>4. QED
    BY <1>2, <2>1, <2>2, <2>3 DEF ShowroomStep
<1>3. QED
  BY <1>1, <1>2 DEF Next, vars

\* The standing redemptions, finitely many, have a sum.
LEMMA TakenCounts ==
  \A red, rev :
    /\ IsFiniteSet({s \in Settlements : red[s] # 0})
    /\ \A s \in Settlements : red[s] \in Nat
    => /\ IsFiniteSet(StandingIn(red, rev)) /\ DOMAIN TakenGrams(red, rev) = StandingIn(red, rev)
       /\ \A s \in StandingIn(red, rev) :
            TakenGrams(red, rev)[s] = red[s] /\ TakenGrams(red, rev)[s] \in Nat
       /\ SumFunction(TakenGrams(red, rev)) \in Nat
<1> SUFFICES ASSUME NEW red, NEW rev, IsFiniteSet({s \in Settlements : red[s] # 0}),
                    \A s \in Settlements : red[s] \in Nat
             PROVE  /\ IsFiniteSet(StandingIn(red, rev))
                    /\ DOMAIN TakenGrams(red, rev) = StandingIn(red, rev)
                    /\ \A s \in StandingIn(red, rev) :
                         TakenGrams(red, rev)[s] = red[s] /\ TakenGrams(red, rev)[s] \in Nat
                    /\ SumFunction(TakenGrams(red, rev)) \in Nat
  OBVIOUS
<1>1. StandingIn(red, rev) \subseteq {s \in Settlements : red[s] # 0}
  BY DEF StandingIn
<1>2. IsFiniteSet(StandingIn(red, rev))
  BY <1>1, FS_Subset
<1>3. /\ DOMAIN TakenGrams(red, rev) = StandingIn(red, rev)
      /\ \A s \in StandingIn(red, rev) :
           TakenGrams(red, rev)[s] = red[s] /\ TakenGrams(red, rev)[s] \in Nat
  BY DEF TakenGrams, StandingIn
<1>4. SumFunction(TakenGrams(red, rev)) \in Nat
  BY <1>2, <1>3, SumType
<1>5. QED
  BY <1>2, <1>3, <1>4

\* What the redemptions need to be counted: they are finitely many, and a
\* reversal is of one of them.
RedemptionsCount == IsFiniteSet(Redemptions) /\ reversed \subseteq Redemptions

BalanceInv == RowInv /\ RedemptionsCount /\ NeverOverdrawn

\* The redemptions stay countable.
LEMMA RedemptionsCountStep ==
  ASSUME TypeOK, RedemptionsCount, [Next]_vars
  PROVE  RedemptionsCount'
<1>0. redeemed \in [Settlements -> Nat] /\ reversed \subseteq Settlements
  BY DEF TypeOK, ShowroomTypeOK
<1>1. CASE UNCHANGED <<redeemed, reversed>>
  BY <1>1 DEF RedemptionsCount, Redemptions
<1>2. ASSUME NEW s \in Settlements, CompleteRedemption(s)
      PROVE  RedemptionsCount'
  <2>1. /\ reversed' = reversed
        /\ \A t \in Settlements : t # s => redeemed'[t] = redeemed[t]
        /\ redeemed[s] = 0
    BY <1>0, <1>2 DEF CompleteRedemption
  <2>2. Redemptions' \subseteq Redemptions \cup {s} /\ Redemptions \subseteq Redemptions'
    BY <2>1 DEF Redemptions
  <2>3. IsFiniteSet(Redemptions \cup {s})
    BY FS_AddElement DEF RedemptionsCount
  <2>4. IsFiniteSet(Redemptions')
    BY <2>2, <2>3, FS_Subset
  <2>5. QED
    BY <2>1, <2>2, <2>4 DEF RedemptionsCount
<1>3. ASSUME NEW s \in Settlements, ReverseRedemption(s)
      PROVE  RedemptionsCount'
  BY <1>3 DEF ReverseRedemption, RedemptionsCount, Redemptions, StandingRedemptions
<1>4. QED
  BY <1>1, <1>2, <1>3, RedemptionStep

\* What a step does to the metal withdrawn: a redemption adds to it what the
\* balance holds, a reversal takes away, nothing else changes it.
LEMMA WithdrawnStep ==
  ASSUME TypeOK, RedemptionsCount, RedemptionsCount', TypeOK', [Next]_vars, Accumulated \in Nat
  PROVE  /\ Withdrawn \in Nat /\ Withdrawn' \in Nat
         /\ \/ Withdrawn' = Withdrawn
            \/ Accumulated' = Accumulated /\ (Withdrawn' <= Withdrawn \/ Withdrawn' <= Accumulated)
<1>0. /\ redeemed \in [Settlements -> Nat] /\ redeemed' \in [Settlements -> Nat]
      /\ reversed \subseteq Settlements
  BY DEF TypeOK, ShowroomTypeOK
<1>1. PICK f, g : f = TakenGrams(redeemed, reversed) /\ g = TakenGrams(redeemed', reversed')
  OBVIOUS
<1>2. PICK S, T : S = StandingIn(redeemed, reversed) /\ T = StandingIn(redeemed', reversed')
  OBVIOUS
<1>3. /\ IsFiniteSet(S) /\ DOMAIN f = S /\ SumFunction(f) \in Nat
      /\ \A s \in S : f[s] = redeemed[s] /\ f[s] \in Nat
  BY <1>0, <1>1, <1>2, TakenCounts DEF RedemptionsCount, Redemptions
<1>4. /\ IsFiniteSet(T) /\ DOMAIN g = T /\ SumFunction(g) \in Nat
      /\ \A s \in T : g[s] = redeemed'[s] /\ g[s] \in Nat
  BY <1>0, <1>1, <1>2, TakenCounts DEF RedemptionsCount, Redemptions
<1>5. Withdrawn = SumFunction(f) /\ Withdrawn' = SumFunction(g)
  BY <1>1, BalanceColumns
<1>6. CASE UNCHANGED <<redeemed, reversed>>
  <2>1. f = g
    BY <1>1, <1>6
  <2>2. QED
    BY <1>3, <1>5, <2>1
<1>7. ASSUME NEW s \in Settlements, CompleteRedemption(s), UNCHANGED <<status, allocations>>
      PROVE  Accumulated' = Accumulated /\ Withdrawn' <= Accumulated
  <2>1. Accumulated' = Accumulated
    BY <1>7, BalanceColumns
  <2>2. PICK amount \in Quantities :
          /\ amount <= Outstanding /\ redeemed' = [redeemed EXCEPT ![s] = amount]
    BY <1>7 DEF CompleteRedemption
  <2>3. redeemed[s] = 0 /\ reversed' = reversed /\ s \notin reversed /\ amount \in Nat \ {0}
    BY <1>7, GramsAssumption DEF CompleteRedemption, RedemptionsCount, Redemptions
  <2>4. T = S \cup {s} /\ s \notin S
    BY <1>0, <1>2, <2>2, <2>3 DEF StandingIn
  <2>5. g[s] = amount /\ \A t \in S : f[t] \in Int /\ g[t] = f[t]
    BY <1>0, <1>2, <1>3, <1>4, <2>2, <2>3, <2>4 DEF StandingIn
  <2>6. SumFunction(g) = SumFunction(f) + g[s]
    BY <1>3, <1>4, <2>3, <2>4, <2>5, SumGrows
  <2>7. amount <= Accumulated - Withdrawn
    BY <2>2 DEF Outstanding, Balance
  <2>8. QED
    BY <1>3, <1>5, <2>1, <2>3, <2>5, <2>6, <2>7
<1>8. ASSUME NEW s \in Settlements, ReverseRedemption(s), UNCHANGED <<status, allocations>>
      PROVE  Accumulated' = Accumulated /\ Withdrawn' <= Withdrawn
  <2>1. Accumulated' = Accumulated
    BY <1>8, BalanceColumns
  <2>2. redeemed' = redeemed /\ T \subseteq S
    BY <1>2, <1>8 DEF ReverseRedemption, StandingIn
  <2>3. \A t \in T : g[t] = f[t]
    BY <1>3, <1>4, <2>2
  <2>4. SumFunction(f) >= SumFunction(g)
    BY <1>3, <1>4, <2>2, <2>3, SumMonotone
  <2>5. QED
    BY <1>3, <1>4, <1>5, <2>1, <2>4
<1>9. QED
  BY <1>3, <1>4, <1>5, <1>6, <1>7, <1>8, RedemptionStep

\* The invariant of the balance, of which the theorem is a part.
LEMMA BalanceInvariant == Spec => []BalanceInv
<1>1. Init => BalanceInv
  <2> SUFFICES ASSUME Init PROVE BalanceInv
    OBVIOUS
  <2>1. RowInv
    BY InitRowInv
  <2>2. Redemptions = {} /\ reversed = {} /\ PaidIn(status) = {}
    BY DEF Init, ShowroomInit, AgreementInit, Redemptions, PaidIn
  <2>3. StandingIn(redeemed, reversed) = {}
    BY <2>2 DEF StandingIn, Redemptions
  <2>4. /\ DOMAIN PaidGrams(status, allocations) = {}
        /\ DOMAIN TakenGrams(redeemed, reversed) = {}
    BY <2>2, <2>3 DEF PaidGrams, TakenGrams
  <2>5. Accumulated = 0 /\ Withdrawn = 0
    BY <2>4, SumOfNone, BalanceColumns
  <2>6. RedemptionsCount
    BY <2>2, FS_EmptySet DEF RedemptionsCount
  <2>7. QED
    BY <2>1, <2>5, <2>6 DEF BalanceInv, NeverOverdrawn, Balance
<1>2. RowInv' /\ BalanceInv /\ [Next]_vars => BalanceInv'
  <2> SUFFICES ASSUME RowInv', BalanceInv, [Next]_vars PROVE BalanceInv'
    OBVIOUS
  <2>1. TypeOK /\ TypeOK' /\ RowInv /\ RedemptionsCount
    BY DEF BalanceInv, RowInv
  <2>2. RedemptionsCount' /\ RowStep
    BY <2>1, RedemptionsCountStep, EveryStepIsRowStep
  <2>3. Accumulated \in Nat
    BY <2>1, PaidRowsAreAllocated, PaidRowsCount, BalanceColumns
  <2>4. /\ Withdrawn \in Nat /\ Withdrawn' \in Nat
        /\ \/ Withdrawn' = Withdrawn
           \/ /\ Accumulated' = Accumulated
              /\ Withdrawn' <= Withdrawn \/ Withdrawn' <= Accumulated
    BY <2>1, <2>2, <2>3, WithdrawnStep
  <2>5. Accumulated' \in Nat /\ (Accumulated' >= Accumulated \/ Accumulated' >= Withdrawn)
    BY <2>1, <2>2, <2>4, AccumulatedStep
  <2>6. Accumulated - Withdrawn >= 0
    BY DEF BalanceInv, NeverOverdrawn, Balance
  <2>7. Accumulated' - Withdrawn' >= 0
    <3>1. ASSUME NEW a \in Nat, NEW w \in Nat, NEW b \in Nat, NEW v \in Nat, a - w >= 0,
                 v = w \/ (b = a /\ (v <= w \/ v <= a)), b >= a \/ b >= w
          PROVE  b - v >= 0
      BY <3>1
    <3>2. QED
      BY <2>3, <2>4, <2>5, <2>6, <3>1
  <2>8. QED
    BY <2>2, <2>7 DEF BalanceInv, NeverOverdrawn, Balance
<1>3. QED
  BY <1>1, <1>2, RowInvariant, PTL DEF Spec

\* RED-001: no sequence of payments, allocations, corrections, redemptions and
\* reversals withdraws more metal than was accumulated.
THEOREM MetalIsNotOverdrawn == Spec => []NeverOverdrawn
<1>1. BalanceInv => NeverOverdrawn
  BY DEF BalanceInv
<1>2. QED
  BY <1>1, BalanceInvariant, PTL

-----------------------------------------------------------------------------
(* The rows are such as the tables admit. *)

\* What a step leaves of the rows there are.
LEMMA TermsStay ==
  ASSUME RowInv, RowStep
  PROVE  /\ latest \in Nat /\ latest' \in Nat /\ latest' >= latest
         /\ \A c \in Contributions :
              status[c] # "none" =>
                /\ status'[c] # "none" /\ channel'[c] = channel[c]
                /\ period'[c] = period[c] /\ scheme_rate'[c] = scheme_rate[c]
<1>0. /\ latest \in Nat /\ channel \in [Contributions -> Channels]
      /\ period \in [Contributions -> Nat] /\ scheme_rate \in [Contributions -> Rates]
  BY BoundsAssumption DEF RowInv, TypeOK, AgreementTypeOK
<1>1. \A c \in Contributions : status[c] # "none" => status'[c] # "none"
  BY RowsStay DEF RowInv, TypeOK
<1>2. CASE UNCHANGED <<latest, channel, period, scheme_rate>>
  BY <1>0, <1>1, <1>2
<1>3. ASSUME NEW c \in Contributions, Started(c) \/ Received(c)
      PROVE  /\ latest' \in Nat /\ latest' >= latest /\ status[c] = "none"
             /\ \A d \in Contributions :
                  d # c => /\ channel'[d] = channel[d] /\ period'[d] = period[d]
                           /\ scheme_rate'[d] = scheme_rate[d]
  <2>1. /\ c = latest + 1 /\ latest' = c
        /\ \E ch : channel' = [channel EXCEPT ![c] = ch]
        /\ period' = [period EXCEPT ![c] = month]
        /\ scheme_rate' = [scheme_rate EXCEPT ![c] = current_rate]
    BY <1>3 DEF Started, Received, InsertContribution
  <2>2. status[c] = "none"
    BY <1>0, <2>1 DEF RowInv, FreshRows, Contributions
  <2>3. latest' \in Nat /\ latest' >= latest
    BY <1>0, <2>1
  <2>4. QED
    BY <1>0, <2>1, <2>2, <2>3
<1>4. ASSUME NEW c \in Contributions,
             \/ Bound(c) \/ Abandoned(c) \/ Corrected(c)
             \/ AllocateRow(c) \/ KeepAllocation(c) \/ MarkUnallocated(c)
             \/ \E p : ConfirmRow(c, p) \/ ConfirmAndAllocateRow(c, p)
      PROVE  UNCHANGED <<latest, channel, period, scheme_rate>>
  BY <1>4 DEF Bound, Abandoned, Corrected, AllocateRow, KeepAllocation, MarkUnallocated,
              ConfirmRow, ConfirmAndAllocateRow
<1>5. CASE UNCHANGED rowColumns
  BY <1>2, <1>5 DEF rowColumns
<1>6. ASSUME NEW c \in Contributions, Started(c) \/ Received(c)
      PROVE  /\ latest' \in Nat /\ latest' >= latest
             /\ \A d \in Contributions :
                  status[d] # "none" =>
                    /\ channel'[d] = channel[d] /\ period'[d] = period[d]
                    /\ scheme_rate'[d] = scheme_rate[d]
  BY <1>3, <1>6
<1>7. QED
  BY <1>0, <1>1, <1>2, <1>4, <1>5, <1>6 DEF RowStep, QuietStep

\* A cash row has no order and was paid; only a cash row is corrected.
CashRowsAreReceived ==
  \A c \in Contributions :
    /\ status[c] # "none" /\ channel[c] = "IN_STORE_CASH" =>
         order_id[c] = 0 /\ status[c] \in {"PAID", "PAID_UNALLOCATED", "REVERSED"}
    /\ status[c] = "REVERSED" => channel[c] = "IN_STORE_CASH"

\* No row step makes one of another kind.
LEMMA CashRowsStep ==
  ASSUME RowInv, RowStep, CashRowsAreReceived
  PROVE  CashRowsAreReceived'
<1> USE DEF CashRowsAreReceived
<1>0. /\ status \in [Contributions -> Statuses] /\ channel \in [Contributions -> Channels]
      /\ order_id \in [Contributions -> Nat] /\ latest \in Nat
      /\ \A c \in Contributions : status[c] = "none" => order_id[c] = 0
      /\ \A c \in Contributions : status[c] = "PENDING" => channel[c] = "RAZORPAY"
  BY BoundsAssumption DEF RowInv, TypeOK, AgreementTypeOK, FreshRows, PendingIsOnline
<1>1. CASE UNCHANGED rowColumns
  BY <1>1 DEF rowColumns
<1>2. ASSUME NEW c \in Contributions, Started(c) \/ Received(c)
      PROVE  CashRowsAreReceived'
  <2>1. c = latest + 1 /\ UNCHANGED order_id
    BY <1>2 DEF Started, Received, InsertContribution
  <2>2. status[c] = "none"
    BY <1>0, <2>1 DEF RowInv, FreshRows, Contributions
  <2>3. \A d \in Contributions : d # c => status'[d] = status[d] /\ channel'[d] = channel[d]
    BY <1>0, <1>2 DEF Started, Received, InsertContribution
  <2>4. \/ status'[c] = "PENDING" /\ channel'[c] = "RAZORPAY"
        \/ status'[c] = "PAID_UNALLOCATED" /\ channel'[c] = "IN_STORE_CASH"
    BY <1>0, <1>2 DEF Started, Received, InsertContribution
  <2>5. QED
    BY <1>0, <2>1, <2>2, <2>3, <2>4
<1>3. ASSUME NEW c \in Contributions, Bound(c)
      PROVE  CashRowsAreReceived'
  <2>1. /\ UNCHANGED <<status, channel>> /\ channel[c] = "RAZORPAY"
        /\ \A d \in Contributions : d # c => order_id'[d] = order_id[d]
    BY <1>0, <1>3 DEF Bound
  <2>2. QED
    BY <2>1
<1>4. ASSUME NEW c \in Contributions, Abandoned(c)
      PROVE  CashRowsAreReceived'
  BY <1>0, <1>4 DEF Abandoned
<1>5. ASSUME NEW c \in Contributions, Corrected(c)
      PROVE  CashRowsAreReceived'
  BY <1>0, <1>5 DEF Corrected, Successful
<1>6. ASSUME NEW c \in Contributions, AllocateRow(c) \/ KeepAllocation(c)
      PROVE  CashRowsAreReceived'
  BY <1>0, <1>6 DEF AllocateRow, KeepAllocation, Successful
<1>7. ASSUME NEW c \in Contributions, MarkUnallocated(c)
      PROVE  CashRowsAreReceived'
  BY <1>0, <1>7 DEF MarkUnallocated, Successful
<1>8. ASSUME NEW c \in Contributions, NEW p, ConfirmRow(c, p) \/ ConfirmAndAllocateRow(c, p)
      PROVE  CashRowsAreReceived'
  BY <1>0, <1>8 DEF ConfirmRow, ConfirmAndAllocateRow
<1>9. QED
  BY <1>1, <1>2, <1>3, <1>4, <1>5, <1>6, <1>7, <1>8 DEF RowStep, QuietStep

\* A request touches the rows by confirming, crediting or marking one.
LEMMA RequestsTouchOneRow ==
  ConfirmationStep =>
    \/ UNCHANGED agreementVars
    \/ \E c : \/ \E p : ConfirmRow(c, p) \/ ConfirmAndAllocateRow(c, p)
              \/ Allocate(c) \/ MarkUnallocated(c)
<1>1. ASSUME NEW w \in Workers, WorkerStep(w)
      PROVE  \/ UNCHANGED agreementVars
             \/ \E c : (\E p : ConfirmRow(c, p)) \/ Allocate(c) \/ MarkUnallocated(c)
  BY <1>1 DEF WorkerStep, FindContribution, ConfirmContribution, AllocateMetal, AllocationFails,
              MarkContribution, FinishWebhook, RequireReview, DeferWebhook
<1>2. ASSUME NEW p \in Payments, NEW c \in Contributions, RecoverWebhook(p, c)
      PROVE  \/ UNCHANGED agreementVars
             \/ ConfirmRow(c, p) \/ ConfirmAndAllocateRow(c, p)
             \/ Allocate(c) \/ MarkUnallocated(c)
  BY <1>2 DEF RecoverWebhook, RecoverRow
<1>3. QED
  BY <1>1, <1>2 DEF ConfirmationStep, ReceiveWebhook, ReceiveCallback, RetryAllocation,
                    TransientFailure, DeliveryTimesOut, Crash, InspectWebhook

\* The Checkout deadline of an online row is all that can pass.
DeadlinesAreOnline ==
  \A c \in Contributions : expired[c] => status[c] # "none" /\ channel[c] = "RAZORPAY"

\* Nothing else expires.
LEMMA DeadlinesStep ==
  ASSUME RowInv, RowStep, DeadlinesAreOnline, [Next]_vars
  PROVE  DeadlinesAreOnline'
<1>1. \A c \in Contributions :
        status[c] # "none" => status'[c] # "none" /\ channel'[c] = channel[c]
  BY TermsStay
<1>2. CASE UNCHANGED expired
  BY <1>1, <1>2 DEF DeadlinesAreOnline
<1>3. ASSUME NEW c \in Contributions, CheckoutExpires(c)
      PROVE  DeadlinesAreOnline'
  <2>1. status[c] # "none" /\ channel[c] = "RAZORPAY"
    BY <1>3 DEF CheckoutExpires, RowInv, PendingIsOnline
  <2>2. \A d \in Contributions : d # c => expired'[d] = expired[d]
    BY <1>3 DEF CheckoutExpires, RowInv, TypeOK, AgreementTypeOK
  <2>3. QED
    BY <1>1, <2>1, <2>2 DEF DeadlinesAreOnline
<1>4. ClockStep => UNCHANGED expired \/ \E c \in Contributions : CheckoutExpires(c)
  BY DEF ClockStep, NextMonth, PublishSchemeRate, TogglePaymentInitiation, rowVars
<1>5. CheckoutStep => UNCHANGED expired
  BY DEF CheckoutStep, RenderForm, AliasPending, Resolve, AliasLatest, InitiateCheckout,
         InsertContribution, CallProvider, CreatorStops, BindOrder, RecoverOrderIdentity,
         InspectOrder, ApplyAbandonment, agreementVars, rowVars
<1>6. ConfirmationStep => UNCHANGED expired
  BY RequestsTouchOneRow
     DEF ConfirmRow, ConfirmAndAllocateRow, Allocate, AllocateRow, KeepAllocation,
         MarkUnallocated, agreementVars, rowVars
<1>7. ShowroomStep => UNCHANGED expired
  BY DEF ShowroomStep, PreviewCash, RecordCash, InsertContribution, ReplayCash,
         CorrectionCloses, ReverseCash, CompleteRedemption, ReverseRedemption,
         agreementVars, rowVars
<1>8. QED
  BY <1>2, <1>3, <1>4, <1>5, <1>6, <1>7 DEF Next, vars, agreementVars, rowVars

\* What the showroom, the checkout and the requests write of their own tables.
LEMMA ReceiptStep ==
  [Next]_vars => \/ UNCHANGED receipt
                 \/ \E r \in Receipts, c \in Contributions :
                      /\ receipt[r] = 0 /\ receipt' = [receipt EXCEPT ![r] = c]
                      /\ InsertContribution(c, "PAID_UNALLOCATED", "IN_STORE_CASH")
<1>1. ASSUME NEW r \in Receipts, NEW w \in Workers, RecordCash(w, r)
      PROVE  \E c \in Contributions :
               /\ receipt[r] = 0 /\ receipt' = [receipt EXCEPT ![r] = c]
               /\ InsertContribution(c, "PAID_UNALLOCATED", "IN_STORE_CASH")
  BY <1>1 DEF RecordCash
<1>2. ShowroomStep => \/ UNCHANGED receipt
                      \/ \E r \in Receipts, w \in Workers : RecordCash(w, r)
  BY DEF ShowroomStep, PreviewCash, ReplayCash, CorrectionCloses, ReverseCash,
         CompleteRedemption, ReverseRedemption, showroomVars
<1>3. QED
  BY <1>1, <1>2 DEF Next, vars, showroomVars

\* A receipt is of a cash row of its own, and every cash row has one.
ReceiptsAreRows ==
  /\ \A r \in Receipts :
       receipt[r] # 0 => /\ receipt[r] \in Contributions /\ status[receipt[r]] # "none"
                         /\ channel[receipt[r]] = "IN_STORE_CASH"
  /\ \A q, r \in Receipts : receipt[q] # 0 /\ receipt[q] = receipt[r] => q = r
  /\ \A c \in Contributions :
       status[c] # "none" /\ channel[c] = "IN_STORE_CASH" => \E r \in Receipts : receipt[r] = c

\* A row without a receipt is made online only.
LEMMA NewRowsAreOnline ==
  ASSUME RowInv, RowStep, UNCHANGED receipt, [Next]_vars
  PROVE  \A c \in Contributions :
           status[c] = "none" /\ status'[c] # "none" => channel'[c] = "RAZORPAY"
<1>0. /\ status \in [Contributions -> Statuses] /\ channel \in [Contributions -> Channels]
      /\ receipt \in [Receipts -> 0..MaxContributions]
  BY DEF RowInv, TypeOK, AgreementTypeOK, ShowroomTypeOK
<1> DEFINE Goal == \A c \in Contributions :
                     status[c] = "none" /\ status'[c] # "none" => channel'[c] = "RAZORPAY"
<1>1. CASE UNCHANGED status
  BY <1>1
<1>2. ASSUME NEW k \in Keys, InitiateCheckout(k)
      PROVE  Goal
  <2>1. PICK c \in Contributions : InsertContribution(c, "PENDING", "RAZORPAY")
    BY <1>2 DEF InitiateCheckout
  <2>2. \A d \in Contributions : d # c => status'[d] = status[d]
    BY <1>0, <2>1 DEF InsertContribution
  <2>3. channel'[c] = "RAZORPAY"
    BY <1>0, <2>1 DEF InsertContribution
  <2>4. QED
    BY <2>2, <2>3
<1>3. ASSUME NEW c \in Contributions, ApplyAbandonment(c)
      PROVE  Goal
  BY <1>0, <1>3 DEF ApplyAbandonment
<1>4. CheckoutStep => Goal
  BY <1>1, <1>2, <1>3
     DEF CheckoutStep, RenderForm, AliasPending, Resolve, AliasLatest, CallProvider,
         CreatorStops, BindOrder, RecoverOrderIdentity, InspectOrder, agreementVars, rowVars
<1>5. ASSUME NEW c, \/ \E p : ConfirmRow(c, p) \/ ConfirmAndAllocateRow(c, p)
                    \/ Allocate(c) \/ MarkUnallocated(c)
      PROVE  Goal
  BY <1>0, <1>5 DEF ConfirmRow, ConfirmAndAllocateRow, Allocate, AllocateRow, KeepAllocation,
                    MarkUnallocated, Successful
<1>6. ConfirmationStep => Goal
  BY <1>1, <1>5, RequestsTouchOneRow DEF agreementVars, rowVars
<1>7. ASSUME NEW c \in Contributions, ReverseCash(c)
      PROVE  Goal
  BY <1>0, <1>7 DEF ReverseCash, Successful
<1>8. ASSUME NEW r \in Receipts, NEW w \in Workers, RecordCash(w, r)
      PROVE  FALSE
  <2>1. PICK c \in Contributions : receipt[r] = 0 /\ receipt' = [receipt EXCEPT ![r] = c]
    BY <1>8 DEF RecordCash
  <2>2. c # 0 /\ receipt'[r] = receipt[r]
    BY <2>1 DEF Contributions
  <2>3. QED
    BY <1>0, <2>1, <2>2
<1>9. ShowroomStep => Goal
  BY <1>1, <1>7, <1>8
     DEF ShowroomStep, PreviewCash, ReplayCash, CorrectionCloses, CompleteRedemption,
         ReverseRedemption, agreementVars, rowVars
<1>10. QED
  BY <1>1, <1>4, <1>6, <1>9
     DEF Next, vars, ClockStep, NextMonth, PublishSchemeRate, TogglePaymentInitiation,
         CheckoutExpires, agreementVars, rowVars

\* Receipts and cash rows stay one to one.
LEMMA ReceiptsAreRowsStep ==
  ASSUME RowInv, RowStep, ReceiptsAreRows, [Next]_vars
  PROVE  ReceiptsAreRows'
<1>0. /\ receipt \in [Receipts -> 0..MaxContributions]
      /\ status \in [Contributions -> Statuses] /\ channel \in [Contributions -> Channels]
      /\ latest \in Nat /\ 0 \notin Contributions
  BY BoundsAssumption DEF RowInv, TypeOK, AgreementTypeOK, ShowroomTypeOK, Contributions
<1>1. \A c \in Contributions :
        status[c] # "none" => status'[c] # "none" /\ channel'[c] = channel[c]
  BY TermsStay
<1>2. CASE UNCHANGED receipt
  <2>1. \A c \in Contributions :
          status[c] = "none" /\ status'[c] # "none" => channel'[c] = "RAZORPAY"
    BY <1>2, NewRowsAreOnline
  <2>2. QED
    BY <1>1, <1>2, <2>1 DEF ReceiptsAreRows
<1>3. ASSUME NEW r \in Receipts, NEW c \in Contributions,
             receipt[r] = 0, receipt' = [receipt EXCEPT ![r] = c],
             InsertContribution(c, "PAID_UNALLOCATED", "IN_STORE_CASH")
      PROVE  ReceiptsAreRows'
  <2>1. /\ status'[c] = "PAID_UNALLOCATED" /\ channel'[c] = "IN_STORE_CASH"
        /\ \A d \in Contributions : d # c => status'[d] = status[d] /\ channel'[d] = channel[d]
        /\ c = latest + 1
    BY <1>0, <1>3 DEF InsertContribution
  <2>2. status[c] = "none"
    BY <1>0, <2>1 DEF RowInv, FreshRows, Contributions
  <2>3. /\ receipt'[r] = c
        /\ \A q \in Receipts : q # r => receipt'[q] = receipt[q]
        /\ \A q \in Receipts : receipt[q] # c
    BY <1>0, <1>3, <2>2 DEF ReceiptsAreRows
  <2>4. \A q \in Receipts :
          receipt'[q] # 0 => /\ receipt'[q] \in Contributions /\ status'[receipt'[q]] # "none"
                             /\ channel'[receipt'[q]] = "IN_STORE_CASH"
    BY <1>1, <2>1, <2>3 DEF ReceiptsAreRows
  <2>5. \A q, t \in Receipts : receipt'[q] # 0 /\ receipt'[q] = receipt'[t] => q = t
    BY <2>3 DEF ReceiptsAreRows
  <2>6. \A d \in Contributions :
          status'[d] # "none" /\ channel'[d] = "IN_STORE_CASH" =>
            \E q \in Receipts : receipt'[q] = d
    <3>1. SUFFICES ASSUME NEW d \in Contributions, d # c, status'[d] # "none",
                          channel'[d] = "IN_STORE_CASH"
                   PROVE  \E q \in Receipts : receipt'[q] = d
      BY <2>3
    <3>2. PICK q \in Receipts : receipt[q] = d
      BY <2>1, <3>1 DEF ReceiptsAreRows
    <3>3. q # r
      BY <1>0, <1>3, <3>2
    <3>4. QED
      BY <2>3, <3>2, <3>3
  <2>7. QED
    BY <2>4, <2>5, <2>6 DEF ReceiptsAreRows
<1>4. QED
  BY <1>2, <1>3, ReceiptStep

\* An order is requested, and recovered, for an online row.
OrderRequestsAreRows ==
  /\ \A c \in order_request : status[c] # "none" /\ channel[c] = "RAZORPAY"
  /\ \A c \in recovery : c \in order_request /\ order_id[c] # 0

\* The requests and recoveries stay, and are of such rows.
LEMMA OrderRequestsStep ==
  ASSUME RowInv, RowStep, OrderRequestsAreRows, EvidenceKept, [Next]_vars
  PROVE  OrderRequestsAreRows' /\ OrderRequestsKept /\ OrderRecoveriesKept
<1> USE DEF OrderRequestsAreRows, OrderRequestsKept, OrderRecoveriesKept
<1>0. /\ order_request \subseteq Contributions /\ recovery \subseteq Contributions
      /\ order_id \in [Contributions -> Nat] /\ orders \in [Contributions -> Nat]
      /\ status \in [Contributions -> Statuses] /\ channel \in [Contributions -> Channels]
  BY DEF RowInv, TypeOK, AgreementTypeOK, CheckoutTypeOK, ProviderTypeOK
<1>1. /\ \A c \in Contributions :
           status[c] # "none" => status'[c] # "none" /\ channel'[c] = channel[c]
      /\ \A c \in Contributions : order_id[c] # 0 => order_id'[c] = order_id[c]
  BY TermsStay DEF EvidenceKept
<1>2. CASE UNCHANGED <<order_request, recovery>>
  BY <1>0, <1>1, <1>2
<1>3. ASSUME NEW k \in Keys, InitiateCheckout(k)
      PROVE  OrderRequestsAreRows' /\ OrderRequestsKept /\ OrderRecoveriesKept
  <2>1. PICK c \in Contributions : /\ InsertContribution(c, "PENDING", "RAZORPAY")
                                   /\ order_request' = order_request \cup {c}
    BY <1>3 DEF InitiateCheckout
  <2>2. /\ recovery' = recovery /\ status'[c] # "none" /\ channel'[c] = "RAZORPAY"
    BY <1>0, <1>3, <2>1 DEF InitiateCheckout, InsertContribution
  <2>3. QED
    BY <1>0, <1>1, <2>1, <2>2
<1>4. ASSUME NEW c \in Contributions, RecoverOrderIdentity(c)
      PROVE  OrderRequestsAreRows' /\ OrderRequestsKept /\ OrderRecoveriesKept
  <2>1. PICK n \in 1..orders[c] : order_id' = [order_id EXCEPT ![c] = n]
    BY <1>4 DEF RecoverOrderIdentity
  <2>2. order_id'[c] # 0
    BY <1>0, <2>1
  <2>3. c \in order_request /\ recovery' = recovery \cup {c} /\ order_request' = order_request
    BY <1>4 DEF RecoverOrderIdentity
  <2>4. QED
    BY <1>0, <1>1, <2>2, <2>3
<1>5. CheckoutStep => \/ UNCHANGED <<order_request, recovery>>
                      \/ \E k \in Keys : InitiateCheckout(k)
                      \/ \E c \in Contributions : RecoverOrderIdentity(c)
  BY DEF CheckoutStep, RenderForm, AliasPending, Resolve, AliasLatest, CallProvider,
         CreatorStops, BindOrder, InspectOrder, ApplyAbandonment
<1>6. QED
  BY <1>2, <1>3, <1>4, <1>5 DEF Next, vars, checkoutVars

\* A redemption is dated by a row there was.
RedemptionsAreDated == \A s \in Settlements : redeemed[s] # 0 => redeemed_after[s] \in 1..latest

\* Metal is redeemed only when a contribution was paid.
LEMMA RedemptionsAreDatedStep ==
  ASSUME BalanceInv, RowStep, RedemptionsAreDated, [Next]_vars
  PROVE  /\ RedemptionsAreDated'
         /\ \A s \in Settlements : RedemptionKept(s)
<1> USE DEF RedemptionKept
<1>0. /\ RowInv /\ redeemed \in [Settlements -> Nat]
      /\ redeemed_after \in [Settlements -> 0..MaxContributions]
      /\ latest \in Nat /\ latest' \in Nat /\ latest' >= latest
  BY TermsStay DEF BalanceInv, RowInv, TypeOK, ShowroomTypeOK
<1>1. CASE UNCHANGED <<redeemed, redeemed_after>>
  BY <1>0, <1>1 DEF RedemptionsAreDated
<1>2. ASSUME NEW s \in Settlements, CompleteRedemption(s)
      PROVE  RedemptionsAreDated' /\ \A t \in Settlements : RedemptionKept(t)
  <2>1. PICK amount \in Quantities :
          amount <= Outstanding /\ redeemed' = [redeemed EXCEPT ![s] = amount]
    BY <1>2 DEF CompleteRedemption
  <2>2. /\ redeemed[s] = 0 /\ amount \in Nat \ {0}
        /\ redeemed_after' = [redeemed_after EXCEPT ![s] = latest]
    BY <1>2, GramsAssumption DEF CompleteRedemption
  <2>3. Accumulated \in Nat /\ Withdrawn \in Nat
    <3>1. Accumulated \in Nat
      BY <1>0, PaidRowsAreAllocated, PaidRowsCount, BalanceColumns
    <3>2. Withdrawn \in Nat
      BY <1>0, TakenCounts, BalanceColumns DEF BalanceInv, RedemptionsCount, Redemptions
    <3>3. QED
      BY <3>1, <3>2
  <2>4. Accumulated # 0
    BY <2>1, <2>2, <2>3 DEF Outstanding, Balance
  <2>5. PaidIn(status) # {}
    <3>1. SUFFICES ASSUME PaidIn(status) = {}
                   PROVE  FALSE
      OBVIOUS
    <3>2. DOMAIN PaidGrams(status, allocations) = {}
      BY <3>1 DEF PaidGrams
    <3>3. Accumulated = 0
      BY <3>2, SumOfNone, BalanceColumns
    <3>4. QED
      BY <2>4, <3>3
  <2>6. latest \in 1..latest'
    BY <1>0, <2>5 DEF PaidIn, RowInv, FreshRows, Contributions
  <2>7. QED
    BY <1>0, <2>1, <2>2, <2>6 DEF RedemptionsAreDated
<1>3. ShowroomStep => \/ UNCHANGED <<redeemed, redeemed_after>>
                      \/ \E s \in Settlements : CompleteRedemption(s)
  BY DEF ShowroomStep, PreviewCash, RecordCash, ReplayCash, CorrectionCloses, ReverseCash,
         ReverseRedemption, showroomVars
<1>4. QED
  BY <1>1, <1>2, <1>3 DEF Next, vars, showroomVars

\* The invariant of the tables.
TableInv == /\ RequestInv
            /\ BalanceInv
            /\ CashRowsAreReceived
            /\ DeadlinesAreOnline
            /\ ReceiptsAreRows
            /\ OrderRequestsAreRows
            /\ RedemptionsAreDated

\* The tables are empty to begin with.
LEMMA InitTables ==
  Init => /\ CashRowsAreReceived /\ DeadlinesAreOnline /\ ReceiptsAreRows
          /\ OrderRequestsAreRows /\ RedemptionsAreDated
<1> SUFFICES ASSUME Init
             PROVE  /\ CashRowsAreReceived /\ DeadlinesAreOnline /\ ReceiptsAreRows
                    /\ OrderRequestsAreRows /\ RedemptionsAreDated
  OBVIOUS
<1>1. \A c \in Contributions : status[c] = "none" /\ ~expired[c]
  BY DEF Init, AgreementInit
<1>2. CashRowsAreReceived /\ DeadlinesAreOnline
  BY <1>1 DEF CashRowsAreReceived, DeadlinesAreOnline
<1>3. ReceiptsAreRows
  BY <1>1 DEF Init, ShowroomInit, ReceiptsAreRows
<1>4. OrderRequestsAreRows /\ RedemptionsAreDated
  BY DEF Init, CheckoutInit, ShowroomInit, OrderRequestsAreRows, RedemptionsAreDated
<1>5. QED
  BY <1>2, <1>3, <1>4

\* The invariant of the tables holds throughout.
LEMMA TableInvariant == Spec => []TableInv
<1>1. Init => CashRowsAreReceived /\ DeadlinesAreOnline /\ ReceiptsAreRows
              /\ OrderRequestsAreRows /\ RedemptionsAreDated
  BY InitTables
<1>2. TableInv /\ [Next]_vars =>
        /\ CashRowsAreReceived' /\ DeadlinesAreOnline' /\ ReceiptsAreRows'
        /\ OrderRequestsAreRows' /\ RedemptionsAreDated'
  <2> SUFFICES ASSUME TableInv, [Next]_vars
               PROVE  /\ CashRowsAreReceived' /\ DeadlinesAreOnline' /\ ReceiptsAreRows'
                      /\ OrderRequestsAreRows' /\ RedemptionsAreDated'
    OBVIOUS
  <2>1. RowInv /\ BalanceInv /\ TypeOK
    BY DEF TableInv, BalanceInv, RowInv
  <2>2. RowStep
    BY <2>1, EveryStepIsRowStep
  <2>3. EvidenceKept
    BY <2>1, <2>2, EvidenceKeptStep DEF RowInv, TypeOK
  <2>4. CashRowsAreReceived' /\ DeadlinesAreOnline'
    BY <2>1, <2>2, CashRowsStep, DeadlinesStep DEF TableInv
  <2>5. ReceiptsAreRows'
    BY <2>1, <2>2, ReceiptsAreRowsStep DEF TableInv
  <2>6. OrderRequestsAreRows'
    BY <2>1, <2>2, <2>3, OrderRequestsStep DEF TableInv
  <2>7. RedemptionsAreDated'
    BY <2>1, <2>2, RedemptionsAreDatedStep DEF TableInv
  <2>8. QED
    BY <2>4, <2>5, <2>6, <2>7
<1> DEFINE Tables == /\ CashRowsAreReceived /\ DeadlinesAreOnline /\ ReceiptsAreRows
                     /\ OrderRequestsAreRows /\ RedemptionsAreDated
<1>3. TableInv <=> RequestInv /\ BalanceInv /\ Tables
  BY DEF TableInv
<1>4. Init => Tables
  BY <1>1
<1>5. RequestInv /\ BalanceInv /\ Tables /\ [Next]_vars => Tables'
  BY <1>2, <1>3
<1> HIDE DEF Tables
<1>6. QED
  BY <1>3, <1>4, <1>5, RequestInvariant, BalanceInvariant, PTL DEF Spec

\* One contribution, against the constraints of its table.
LEMMA ContributionsAreAdmitted ==
  TableInv => \A c \in Rows : ContributionAdmitted(c)
<1> SUFFICES ASSUME TableInv, NEW c \in Rows
             PROVE  ContributionAdmitted(c)
  OBVIOUS
<1>1. /\ RowInv /\ CashRowsAreReceived /\ DeadlinesAreOnline /\ CreditIsEarned
      /\ reference \in [Contributions -> Payments \cup {NoPayment}]
      /\ channel \in [Contributions -> Channels]
      /\ c \in Contributions /\ status[c] # "none"
  BY DEF TableInv, RequestInv, RowInv, TypeOK, AgreementTypeOK, Rows
<1>2. Online(c) /\ status[c] \in Confirmed => reference[c] # NoPayment
  BY <1>1 DEF Online, Confirmed, CreditIsEarned, CashRowsAreReceived, Successful
<1>3. /\ Cash(c) => order_id[c] = 0 /\ ~expired[c] /\ status[c] \in Confirmed
      /\ status[c] = "REVERSED" => Cash(c)
  BY <1>1 DEF Cash, Confirmed, CashRowsAreReceived, DeadlinesAreOnline
<1>4. ASSUME NEW d \in Rows \ {c}, reference[c] = reference[d], reference[c] # NoPayment
      PROVE  FALSE
  <2>1. reference[c] \in Payments /\ d \in Contributions
    BY <1>1, <1>4 DEF Rows
  <2>2. CapturedFor(reference[c], c) /\ CapturedFor(reference[c], d)
    BY <1>1, <1>4, <2>1 DEF CreditIsEarned
  <2>3. <<c, order_id[c]>> = <<d, order_id[d]>>
    BY <2>2 DEF CapturedFor
  <2>4. QED
    BY <1>4, <2>3
<1>5. ASSUME NEW d \in Rows \ {c}, Online(c), Online(d),
             {status[c], status[d]} \subseteq {"PENDING", "PAID_UNALLOCATED"}
      PROVE  FALSE
  BY <1>1, <1>5 DEF RowInv, OneUnresolvedCheckout, Online
<1>6. ASSUME NEW d \in Rows \ {c}, OncePerMonth, period[c] = period[d]
      PROVE  /\ ~({status[c], status[d]} \subseteq Successful)
             /\ ~(status[c] = "PENDING" /\ status[d] = "PENDING")
  <2>1. d \in Contributions /\ d # c
    BY <1>6 DEF Rows
  <2>2. ~({status[c], status[d]} \subseteq Successful)
    BY <1>1, <1>6, <2>1 DEF RowInv, MonthIsExclusive
  <2>3. status[c] = "PENDING" /\ status[d] = "PENDING" => Online(c) /\ Online(d)
    BY <1>1, <2>1 DEF RowInv, PendingIsOnline, Online
  <2>4. ~(status[c] = "PENDING" /\ status[d] = "PENDING")
    BY <1>5, <1>6, <2>3
  <2>5. QED
    BY <2>2, <2>4
<1>7. QED
  BY <1>2, <1>3, <1>4, <1>5, <1>6 DEF ContributionAdmitted

\* One allocation, at the rate locked on its contribution.
LEMMA AllocationsAreAdmitted ==
  TableInv => \A c \in Rows : AllocationAdmitted(c)
<1> SUFFICES ASSUME TableInv, NEW c \in Rows
             PROVE  AllocationAdmitted(c)
  OBVIOUS
<1>1. /\ c \in Contributions /\ scheme_rate[c] \in Rates
      /\ allocations[c] \in {<<>>, <<scheme_rate[c]>>}
  BY DEF TableInv, BalanceInv, RowInv, TypeOK, AgreementTypeOK, PaidIffAllocatedOnce, Rows
<1>2. AllocatedGrams(c) = BoughtBy(allocations[c])
  BY <1>1, BalanceColumns
<1>3. CASE allocations[c] = <<>>
  BY <1>3 DEF AllocationAdmitted
<1>4. CASE allocations[c] = <<scheme_rate[c]>>
  <2>1. AllocatedGrams(c) \in Nat \ {0}
    BY <1>1, <1>2, <1>4, GramsBought
  <2>2. AllocatedGrams(c) > 0
    BY <2>1
  <2>3. Len(allocations[c]) <= 1 /\ allocations[c][1] = scheme_rate[c]
    BY <1>4
  <2>4. QED
    BY <2>2, <2>3 DEF AllocationAdmitted
<1>5. QED
  BY <1>1, <1>3, <1>4

\* Every row is one the constraints admit.
LEMMA TablesAdmitRows == TableInv => RowsAdmitted
<1> SUFFICES ASSUME TableInv
             PROVE  RowsAdmitted
  OBVIOUS
<1>1. /\ RowInv /\ RedemptionsCount /\ ReceiptsAreRows /\ OrderRequestsAreRows
      /\ RedemptionsAreDated /\ CashRowsAreReceived
      /\ order_request \subseteq Contributions /\ recovery \subseteq Contributions
      /\ redeemed \in [Settlements -> Nat]
  BY DEF TableInv, BalanceInv, RowInv, TypeOK, CheckoutTypeOK, ShowroomTypeOK
<1>2. \A c \in Rows : ContributionAdmitted(c) /\ AllocationAdmitted(c)
  BY ContributionsAreAdmitted, AllocationsAreAdmitted
<1>3. /\ \A c \in order_request : OrderRequestAdmitted(c)
      /\ \A c \in recovery : OrderRecoveryAdmitted(c)
  BY <1>1 DEF OrderRequestAdmitted, OrderRecoveryAdmitted, OrderRequestsAreRows, Rows, Online
<1>4. \A r \in Issued : CashReceiptAdmitted(r)
  BY <1>1 DEF Issued, CashReceiptAdmitted, ReceiptsAreRows, Rows, Cash
<1>5. \A c \in Rows : status[c] = "REVERSED" => CashReversalAdmitted(c)
  <2> SUFFICES ASSUME NEW c \in Rows, status[c] = "REVERSED"
               PROVE  CashReversalAdmitted(c)
    OBVIOUS
  <2>1. c \in Contributions /\ channel[c] = "IN_STORE_CASH" /\ c # 0
    BY <1>1, BoundsAssumption DEF CashRowsAreReceived, Rows, Contributions
  <2>2. PICK r \in Receipts : receipt[r] = c
    BY <1>1, <2>1 DEF ReceiptsAreRows
  <2>3. QED
    BY <2>1, <2>2 DEF CashReversalAdmitted, Cash, Issued
<1>6. /\ \A s \in Redemptions : RedemptionAdmitted(s)
      /\ \A s \in reversed : RedemptionReversalAdmitted(s)
  BY <1>1 DEF Redemptions, RedemptionAdmitted, RedemptionsAreDated, RedemptionReversalAdmitted,
              RedemptionsCount
<1>7. QED
  BY <1>2, <1>3, <1>4, <1>5, <1>6 DEF RowsAdmitted

\* A submission key keeps its contribution.
LEMMA SubmissionsStay ==
  ASSUME TypeOK, [Next]_vars
  PROVE  \A k \in Keys : SubmissionKept(k)
<1>0. submission \in [Keys -> 0..MaxContributions]
  BY DEF TypeOK, CheckoutTypeOK
<1>1. CASE UNCHANGED submission
  BY <1>1 DEF SubmissionKept
<1>2. ASSUME NEW k \in Keys, submission[k] = 0, \E c : submission' = [submission EXCEPT ![k] = c]
      PROVE  \A j \in Keys : SubmissionKept(j)
  BY <1>0, <1>2 DEF SubmissionKept
<1>3. CheckoutStep =>
        \/ UNCHANGED submission
        \/ \E k \in Keys : /\ submission[k] = 0
                           /\ \E c : submission' = [submission EXCEPT ![k] = c]
  BY DEF CheckoutStep, RenderForm, AliasPending, Resolve, AliasLatest, InitiateCheckout,
         CallProvider, CreatorStops, BindOrder, RecoverOrderIdentity, InspectOrder,
         ApplyAbandonment
<1>4. QED
  BY <1>1, <1>2, <1>3 DEF Next, vars, checkoutVars

\* The event of a payment stays, and its attempts are only added to.
LEMMA EventsStay ==
  ASSUME TypeOK, [Next]_vars
  PROVE  \A p \in Payments : WebhookEventKept(p) /\ AttemptsKept(p)
<1> USE DEF WebhookEventKept, AttemptsKept
<1>0. /\ event \in [Payments -> {"none", "RECEIVED"} \cup Final]
      /\ attempts \in [Payments -> SUBSET Final]
  BY DEF TypeOK, ConfirmationTypeOK
<1>1. CASE UNCHANGED <<event, attempts>>
  BY <1>1
<1>2. ASSUME NEW p, NEW s \in {"RECEIVED"} \cup Final, event' = [event EXCEPT ![p] = s],
             UNCHANGED attempts \/ \E o : attempts' = [attempts EXCEPT ![p] = @ \cup {o}]
      PROVE  \A q \in Payments : WebhookEventKept(q) /\ AttemptsKept(q)
  BY <1>0, <1>2 DEF Final
<1>3. ASSUME NEW w \in Workers, FinishWebhook(w) \/ RequireReview(w) \/ DeferWebhook(w)
      PROVE  \A q \in Payments : WebhookEventKept(q) /\ AttemptsKept(q)
  BY <1>2, <1>3 DEF FinishWebhook, RequireReview, DeferWebhook, Record, Final
<1>4. ASSUME NEW w \in Workers, NEW p \in Payments, ReceiveWebhook(w, p)
      PROVE  \A q \in Payments : WebhookEventKept(q) /\ AttemptsKept(q)
  BY <1>1, <1>2, <1>4 DEF ReceiveWebhook
<1>5. ASSUME NEW p \in Payments, NEW c \in Contributions, RecoverWebhook(p, c)
      PROVE  \A q \in Payments : WebhookEventKept(q) /\ AttemptsKept(q)
  BY <1>2, <1>5 DEF RecoverWebhook, Final
<1>6. ConfirmationStep =>
        \/ UNCHANGED <<event, attempts>>
        \/ \E w \in Workers : \/ FinishWebhook(w) \/ RequireReview(w) \/ DeferWebhook(w)
                              \/ \E p \in Payments : ReceiveWebhook(w, p)
        \/ \E p \in Payments, c \in Contributions : RecoverWebhook(p, c)
  BY DEF ConfirmationStep, WorkerStep, FindContribution, ConfirmContribution, AllocateMetal,
         AllocationFails, MarkContribution, ReceiveCallback, RetryAllocation, TransientFailure,
         DeliveryTimesOut, Crash, InspectWebhook
<1>7. UNCHANGED confirmationVars => UNCHANGED <<event, attempts>>
  BY DEF confirmationVars
<1>8. ASSUME ShowroomStep
      PROVE  UNCHANGED <<event, attempts>>
  BY <1>8 DEF ShowroomStep, PreviewCash, RecordCash, ReplayCash, CorrectionCloses, ReverseCash,
              CompleteRedemption, ReverseRedemption, confirmationVars
<1>9. QED
  BY <1>1, <1>3, <1>4, <1>5, <1>6, <1>7, <1>8 DEF Next, vars

\* The rates are published one after the other; a reversal is not reversed.
LEMMA PublicationsStay ==
  ASSUME TypeOK, [Next]_vars
  PROVE  SchemeRatesKept /\ RedemptionReversalsKept
<1>1. SchemeRatesKept
  <2>0. current_rate \in Nat
    BY BoundsAssumption DEF TypeOK, AgreementTypeOK, Rates
  <2>1. UNCHANGED current_rate \/ PublishSchemeRate
    <3>1. ClockStep => UNCHANGED current_rate \/ PublishSchemeRate
      BY DEF ClockStep, NextMonth, TogglePaymentInitiation, CheckoutExpires, clockVars
    <3>2. CheckoutStep => UNCHANGED current_rate
      BY DEF CheckoutStep, RenderForm, AliasPending, Resolve, AliasLatest, InitiateCheckout,
             CallProvider, CreatorStops, BindOrder, RecoverOrderIdentity, InspectOrder,
             ApplyAbandonment, agreementVars, clockVars
    <3>3. ConfirmationStep => UNCHANGED current_rate
      BY RequestsTouchOneRow
         DEF ConfirmRow, ConfirmAndAllocateRow, Allocate, AllocateRow, KeepAllocation,
             MarkUnallocated, agreementVars, clockVars
    <3>4. ShowroomStep => UNCHANGED current_rate
      BY DEF ShowroomStep, PreviewCash, RecordCash, ReplayCash, CorrectionCloses, ReverseCash,
             CompleteRedemption, ReverseRedemption, agreementVars, clockVars
    <3>5. QED
      BY <3>1, <3>2, <3>3, <3>4 DEF Next, vars, agreementVars, clockVars
  <2>2. QED
    BY <2>0, <2>1 DEF PublishSchemeRate, SchemeRatesKept
<1>2. RedemptionReversalsKept
  BY RedemptionStep DEF CompleteRedemption, ReverseRedemption, RedemptionReversalsKept
<1>3. QED
  BY <1>1, <1>2

\* No step changes a row its save() retains.
LEMMA RowsAreKept ==
  ASSUME TableInv, [Next]_vars
  PROVE  RowsKept
<1>1. /\ RowInv /\ BalanceInv /\ TypeOK /\ OrderRequestsAreRows /\ RedemptionsAreDated
      /\ RowStep
  <2>1. RowInv /\ BalanceInv /\ TypeOK /\ OrderRequestsAreRows /\ RedemptionsAreDated
    BY DEF TableInv, BalanceInv, RowInv
  <2>2. QED
    BY <2>1, EveryStepIsRowStep
<1>2. EvidenceKept /\ OutcomeKept
  BY <1>1, EvidenceKeptStep, OutcomeKeptStep DEF RowInv, TypeOK
<1>3. \A c \in Rows : ContributionKept(c) /\ AllocationKept(c) /\ CashReversalKept(c)
  <2>1. \A c \in Contributions :
          status[c] # "none" => /\ channel'[c] = channel[c] /\ period'[c] = period[c]
                                /\ scheme_rate'[c] = scheme_rate[c]
    BY <1>1, TermsStay
  <2>2. QED
    BY <1>2, <2>1 DEF Rows, ContributionKept, AllocationKept, CashReversalKept, EvidenceKept,
                      OutcomeKept
<1>4. \A k \in Keys : SubmissionKept(k)
  BY <1>1, SubmissionsStay
<1>5. OrderRequestsKept /\ OrderRecoveriesKept
  BY <1>1, <1>2, OrderRequestsStep
<1>6. SchemeRatesKept /\ RedemptionReversalsKept
  BY <1>1, PublicationsStay
<1>7. \A r \in Receipts : CashReceiptKept(r)
  <2>1. receipt \in [Receipts -> 0..MaxContributions]
    BY <1>1 DEF TypeOK, ShowroomTypeOK
  <2>2. QED
    BY <2>1, ReceiptStep DEF CashReceiptKept
<1>8. \A p \in Payments : WebhookEventKept(p) /\ AttemptsKept(p)
  BY <1>1, EventsStay
<1>9. \A s \in Settlements : RedemptionKept(s)
  BY <1>1, RedemptionsAreDatedStep
<1>10. QED
  BY <1>3, <1>4, <1>5, <1>6, <1>7, <1>8, <1>9 DEF RowsKept

\* What a handler has decided the tables admit: no interleaving, however many
\* rows, payments, receipts and redemptions there are, gets as far as a
\* constraint of the database or the save() of a retained row.
THEOREM TablesStand == Spec => RowsStand
<1>1. TableInv => RowsAdmitted
  BY TablesAdmitRows
<1>2. TableInv /\ RowsAdmitted' /\ [Next]_vars => [records' # records => RowsAdmitted' /\ RowsKept]_vars
  BY RowsAreKept
<1>3. QED
  BY <1>1, <1>2, TableInvariant, PTL DEF Spec, RowsStand

-----------------------------------------------------------------------------
(* The books agree. *)

\* The rows, by what became of them.
PaidRows == {c \in Rows : status[c] = "PAID"}
UnallocatedRows == {c \in Rows : status[c] = "PAID_UNALLOCATED"}
ReversedRows == {c \in Rows : status[c] = "REVERSED"}

\* They are finitely many, and what each counts for.
LEMMA RowsAddUp ==
  TableInv =>
    /\ IsFiniteSet(PaidRows) /\ IsFiniteSet(UnallocatedRows) /\ IsFiniteSet(ReversedRows)
    /\ PaidRows \cap UnallocatedRows = {} /\ PaidRows \cap ReversedRows = {}
    /\ UnallocatedRows \cap ReversedRows = {}
    /\ PaidRows \cup UnallocatedRows \cup ReversedRows = {c \in Rows : status[c] \in Confirmed}
    /\ PaidRows \cup UnallocatedRows = {c \in Rows : status[c] \in Successful}
    /\ \A c \in Rows : AllocatedGrams(c) \in Nat
    /\ \A c \in UnallocatedRows : AllocatedGrams(c) = 0
    /\ \A c \in PaidRows : allocations[c] # <<>>
<1> SUFFICES ASSUME TableInv
             PROVE  /\ /\ IsFiniteSet(PaidRows) /\ IsFiniteSet(UnallocatedRows)
                       /\ IsFiniteSet(ReversedRows)
                    /\ /\ PaidRows \cap UnallocatedRows = {} /\ PaidRows \cap ReversedRows = {}
                       /\ UnallocatedRows \cap ReversedRows = {}
                       /\ PaidRows \cup UnallocatedRows \cup ReversedRows
                            = {c \in Rows : status[c] \in Confirmed}
                       /\ PaidRows \cup UnallocatedRows = {c \in Rows : status[c] \in Successful}
                    /\ \A c \in Rows : AllocatedGrams(c) \in Nat
                    /\ \A c \in UnallocatedRows : AllocatedGrams(c) = 0
                    /\ \A c \in PaidRows : allocations[c] # <<>>
  OBVIOUS
<1>1. /\ \A c \in Rows : c \in Contributions /\ scheme_rate[c] \in Rates
      /\ \A c \in Rows : /\ allocations[c] \in {<<>>, <<scheme_rate[c]>>}
                         /\ status[c] = "PAID" => allocations[c] # <<>>
                         /\ status[c] = "PAID_UNALLOCATED" => allocations[c] = <<>>
  BY DEF TableInv, BalanceInv, RowInv, TypeOK, AgreementTypeOK, PaidIffAllocatedOnce, Rows
<1>2. IsFiniteSet(PaidRows) /\ IsFiniteSet(UnallocatedRows) /\ IsFiniteSet(ReversedRows)
  <2>1. IsFiniteSet(Contributions)
    BY BoundsAssumption, FS_Interval DEF Contributions
  <2>2. /\ PaidRows \in SUBSET Contributions /\ UnallocatedRows \in SUBSET Contributions
        /\ ReversedRows \in SUBSET Contributions
    BY DEF Rows, PaidRows, UnallocatedRows, ReversedRows
  <2>3. QED
    BY <2>1, <2>2, FS_Subset
<1>3. /\ PaidRows \cap UnallocatedRows = {} /\ PaidRows \cap ReversedRows = {}
      /\ UnallocatedRows \cap ReversedRows = {}
      /\ PaidRows \cup UnallocatedRows \cup ReversedRows
           = {c \in Rows : status[c] \in Confirmed}
      /\ PaidRows \cup UnallocatedRows = {c \in Rows : status[c] \in Successful}
  BY DEF Confirmed, Successful, PaidRows, UnallocatedRows, ReversedRows
<1>4. ASSUME NEW c \in Rows
      PROVE  AllocatedGrams(c) \in Nat /\ (allocations[c] = <<>> => AllocatedGrams(c) = 0)
  <2>1. AllocatedGrams(c) = BoughtBy(allocations[c])
    BY <1>1, BalanceColumns
  <2>2. BoughtBy(allocations[c]) \in Nat /\ BoughtBy(<<>>) = 0
    BY <1>1, GramsBought
  <2>3. QED
    BY <2>1, <2>2
<1>5. /\ \A c \in UnallocatedRows : c \in Rows /\ allocations[c] = <<>>
      /\ \A c \in PaidRows : allocations[c] # <<>>
  BY <1>1 DEF UnallocatedRows, PaidRows
<1>6. QED
  BY <1>2, <1>3, <1>4, <1>5

\* The entries of the statement: what was bought and taken back, what was
\* redeemed and restored.
LEMMA StatementIsEntries ==
  ASSUME TableInv
  PROVE  \E f, g, h, m, k, n, l, P, U, R, M, K, N, L :
           /\ Entries(f, g, h, m, k, n, l, P, U, R, Redemptions, reversed, M, K, N, L)
           /\ StatementEntries = M \cup K \cup N \cup L
           /\ \A e \in StatementEntries : f[e] = e.grams
           /\ P = PaidRows
           /\ \A c \in P : g[c] = AllocatedGrams(c)
           /\ \A s \in Redemptions : h[s] = redeemed[s]
<1>1. PICK P, U, R : P = PaidRows /\ U = UnallocatedRows /\ R = ReversedRows
  OBVIOUS
<1>2. PICK C, D, V : C = P \cup U \cup R /\ D = Redemptions /\ V = reversed
  OBVIOUS
<1>3. /\ IsFiniteSet(P) /\ IsFiniteSet(U) /\ IsFiniteSet(R) /\ IsFiniteSet(D) /\ V \subseteq D
      /\ P \cap U = {} /\ P \cap R = {} /\ U \cap R = {}
      /\ C = {c \in Rows : status[c] \in Confirmed}
      /\ \A c \in C : AllocatedGrams(c) \in Nat
      /\ \A c \in U : AllocatedGrams(c) = 0
      /\ \A s \in D : redeemed[s] \in Nat
  <2>1. IsFiniteSet(D) /\ V \subseteq D
    BY <1>2 DEF TableInv, BalanceInv, RedemptionsCount
  <2>2. \A s \in D : redeemed[s] \in Nat
    BY <1>2 DEF TableInv, BalanceInv, RowInv, TypeOK, ShowroomTypeOK, Redemptions
  <2>3. /\ IsFiniteSet(P) /\ IsFiniteSet(U) /\ IsFiniteSet(R)
        /\ P \cap U = {} /\ P \cap R = {} /\ U \cap R = {}
        /\ P \cup U \cup R = {c \in Rows : status[c] \in Confirmed}
        /\ \A c \in Rows : AllocatedGrams(c) \in Nat
        /\ \A c \in U : AllocatedGrams(c) = 0
    BY <1>1, RowsAddUp
  <2>4. QED
    BY <1>2, <2>1, <2>2, <2>3
<1>4. PICK g, h : g = [c \in C |-> AllocatedGrams(c)] /\ h = [s \in D |-> redeemed[s]]
  OBVIOUS
<1>5. PICK m, k :
        /\ m = [c \in C |-> [kind |-> "contribution", grams |-> AllocatedGrams(c), of |-> c]]
        /\ k = [c \in C |-> [kind |-> "correction", grams |-> 0 - AllocatedGrams(c), of |-> c]]
  OBVIOUS
<1>6. PICK n, l :
        /\ n = [s \in D |-> [kind |-> "redemption", grams |-> 0 - redeemed[s], of |-> s]]
        /\ l = [s \in D |-> [kind |-> "restoration", grams |-> redeemed[s], of |-> s]]
  OBVIOUS
<1>7. PICK f, T : /\ T = {m[c] : c \in C} \cup {k[c] : c \in C} \cup {n[s] : s \in D} \cup {l[s] : s \in D}
                  /\ f = [e \in T |-> e.grams]
  OBVIOUS
<1>8. PICK M, K, N, L : /\ M = {m[c] : c \in C} /\ K = {k[c] : c \in R}
                        /\ N = {n[s] : s \in D} /\ L = {l[s] : s \in V}
  OBVIOUS
<1>9. StatementEntries = M \cup K \cup N \cup L
  <2>1. M = {[kind |-> "contribution", grams |-> AllocatedGrams(c), of |-> c] :
               c \in {d \in Rows : status[d] \in Confirmed}}
    BY <1>3, <1>5, <1>8
  <2>2. K = {[kind |-> "correction", grams |-> 0 - AllocatedGrams(c), of |-> c] :
               c \in {d \in Rows : status[d] = "REVERSED"}}
    BY <1>1, <1>2, <1>5, <1>8 DEF ReversedRows
  <2>3. N = {[kind |-> "redemption", grams |-> 0 - redeemed[s], of |-> s] : s \in Redemptions}
    BY <1>2, <1>6, <1>8
  <2>4. L = {[kind |-> "restoration", grams |-> redeemed[s], of |-> s] : s \in reversed}
    BY <1>2, <1>3, <1>6, <1>8
  <2>5. QED
    BY <2>1, <2>2, <2>3, <2>4 DEF StatementEntries
<1>10. /\ \A c \in C : g[c] = AllocatedGrams(c) /\ g[c] \in Int
       /\ \A s \in D : h[s] = redeemed[s] /\ h[s] \in Int
       /\ \A c \in U : g[c] = 0
  BY <1>2, <1>3, <1>4
<1>11. /\ \A c \in C : /\ m[c].kind = "contribution" /\ m[c].grams = g[c] /\ m[c].of = c
                       /\ k[c].kind = "correction" /\ k[c].grams = 0 - g[c] /\ k[c].of = c
       /\ \A s \in D : /\ n[s].kind = "redemption" /\ n[s].grams = 0 - h[s] /\ n[s].of = s
                       /\ l[s].kind = "restoration" /\ l[s].grams = h[s] /\ l[s].of = s
  BY <1>5, <1>6, <1>10
<1>12. /\ \A c \in C : m[c] \in T /\ k[c] \in T
       /\ \A s \in D : n[s] \in T /\ l[s] \in T
       /\ \A e \in T : f[e] = e.grams
  BY <1>7
<1>13. /\ \A c \in C : f[m[c]] = g[c] /\ f[k[c]] = 0 - g[c]
       /\ \A s \in D : f[n[s]] = 0 - h[s] /\ f[l[s]] = h[s]
  BY <1>11, <1>12
<1>14. /\ \A x, y \in C : m[x] = m[y] \/ k[x] = k[y] => x = y
       /\ \A x, y \in D : n[x] = n[y] \/ l[x] = l[y] => x = y
       /\ \A x, y \in C : m[x] # k[y]
       /\ \A x, y \in D : n[x] # l[y]
       /\ \A x \in C : \A y \in D :
            m[x] # n[y] /\ m[x] # l[y] /\ k[x] # n[y] /\ k[x] # l[y]
  BY <1>11
<1>15. /\ \A z : z \in M <=> \E x \in C : z = m[x]
       /\ \A z : z \in K <=> \E x \in R : z = k[x]
       /\ \A z : z \in N <=> \E x \in D : z = n[x]
       /\ \A z : z \in L <=> \E x \in V : z = l[x]
  BY <1>8
<1>16. Entries(f, g, h, m, k, n, l, P, U, R, D, V, M, K, N, L)
  BY <1>2, <1>3, <1>10, <1>13, <1>14, <1>15 DEF Entries
<1>17. \A e \in StatementEntries : f[e] = e.grams
  <2>1. M \cup K \cup N \cup L \subseteq T
    BY <1>2, <1>3, <1>12, <1>15
  <2>2. QED
    BY <1>9, <1>12, <2>1
<1>18. P \subseteq C
  BY <1>2
<1>19. QED
  BY <1>1, <1>2, <1>9, <1>10, <1>16, <1>17, <1>18

\* What was accumulated and withdrawn are sums over the rows.
LEMMA BalanceAddsUp ==
  ASSUME TableInv
  PROVE  \A g, h, P :
           /\ P = PaidRows
           /\ \A c \in P : g[c] = AllocatedGrams(c)
           /\ \A s \in Redemptions : h[s] = redeemed[s]
           => /\ Accumulated = SumFunctionOnSet(g, P)
              /\ Withdrawn = SumFunctionOnSet(h, Redemptions \ reversed)
<1> SUFFICES ASSUME NEW g, NEW h, NEW P, P = PaidRows,
                    \A c \in P : g[c] = AllocatedGrams(c),
                    \A s \in Redemptions : h[s] = redeemed[s]
             PROVE  /\ Accumulated = SumFunctionOnSet(g, P)
                    /\ Withdrawn = SumFunctionOnSet(h, Redemptions \ reversed)
  OBVIOUS
<1>1. Accumulated = SumFunctionOnSet(g, P)
  <2>1. PICK a : a = [c \in P |-> AllocatedGrams(c)]
    OBVIOUS
  <2>2. DOMAIN a = P /\ \A c \in P : a[c] = g[c]
    BY <2>1
  <2>3. IsFiniteSet(P)
    BY RowsAddUp
  <2>4. Accumulated = SumFunction(a)
    BY <2>1 DEF Accumulated, PaidRows
  <2>5. SumFunction(a) = SumFunctionOnSet(a, P)
    BY <2>2 DEF SumFunction
  <2>6. SumFunctionOnSet(a, P) = SumFunctionOnSet(g, P)
    BY <2>2, <2>3, SumsAgree
  <2>7. QED
    BY <2>4, <2>5, <2>6
<1>2. Withdrawn = SumFunctionOnSet(h, Redemptions \ reversed)
  <2>1. PICK a, S : S = Redemptions \ reversed /\ a = [s \in S |-> redeemed[s]]
    OBVIOUS
  <2>2. DOMAIN a = S /\ \A s \in S : a[s] = h[s]
    BY <2>1
  <2>3. IsFiniteSet(S)
    <3>1. S \in SUBSET Redemptions /\ IsFiniteSet(Redemptions)
      BY <2>1 DEF TableInv, BalanceInv, RedemptionsCount
    <3>2. QED
      BY <3>1, FS_Subset
  <2>4. Withdrawn = SumFunction(a)
    BY <2>1 DEF Withdrawn, StandingRedemptions, Redemptions
  <2>5. SumFunction(a) = SumFunctionOnSet(a, S)
    BY <2>2 DEF SumFunction
  <2>6. SumFunctionOnSet(a, S) = SumFunctionOnSet(h, S)
    BY <2>2, <2>3, SumsAgree
  <2>7. QED
    BY <2>1, <2>4, <2>5, <2>6
<1>3. QED
  BY <1>1, <1>2

\* The statement adds up to the entitlement it shows.
LEMMA StatementAddsUp ==
  TableInv => Sum(LAMBDA e : e.grams, StatementEntries) = RemainingEntitlement
<1> SUFFICES ASSUME TableInv
             PROVE  Sum(LAMBDA e : e.grams, StatementEntries) = RemainingEntitlement
  OBVIOUS
<1>1. PICK f, g, h, m, k, n, l, P, U, R, M, K, N, L :
        /\ Entries(f, g, h, m, k, n, l, P, U, R, Redemptions, reversed, M, K, N, L)
        /\ StatementEntries = M \cup K \cup N \cup L
        /\ \A e \in StatementEntries : f[e] = e.grams
        /\ P = PaidRows
        /\ \A c \in P : g[c] = AllocatedGrams(c)
        /\ \A s \in Redemptions : h[s] = redeemed[s]
  BY StatementIsEntries
<1>2. PICK D, V : D = Redemptions /\ V = reversed
  OBVIOUS
<1>3. Entries(f, g, h, m, k, n, l, P, U, R, D, V, M, K, N, L)
  BY <1>1, <1>2
<1>4. /\ SumFunctionOnSet(f, M \cup K \cup N \cup L)
           = SumFunctionOnSet(g, P) - SumFunctionOnSet(h, D \ V)
      /\ IsFiniteSet(M \cup K \cup N \cup L)
  BY <1>3, EntriesAddUp
<1>5. Accumulated = SumFunctionOnSet(g, P) /\ Withdrawn = SumFunctionOnSet(h, D \ V)
  BY <1>1, <1>2, BalanceAddsUp
<1>6. PICK a, S : S = StatementEntries /\ a = [e \in S |-> e.grams]
  OBVIOUS
<1>7. DOMAIN a = S /\ \A e \in S : a[e] = f[e]
  BY <1>1, <1>6
<1>8. SumFunctionOnSet(a, S) = SumFunctionOnSet(f, S)
  BY <1>1, <1>4, <1>6, <1>7, SumsAgree
<1>9. SumFunction(a) = SumFunctionOnSet(a, S)
  BY <1>7 DEF SumFunction
<1>10. Sum(LAMBDA e : e.grams, StatementEntries) = SumFunction(a)
  BY <1>6 DEF Sum
<1>11. QED
  BY <1>1, <1>4, <1>5, <1>6, <1>8, <1>9, <1>10 DEF RemainingEntitlement, Balance

\* The liability is the entitlement, and no more is left than was acquired.
LEMMA LiabilityAddsUp ==
  TableInv => LiabilityGrams = RemainingEntitlement /\ AcquiredGrams >= RemainingEntitlement
<1> SUFFICES ASSUME TableInv
             PROVE  LiabilityGrams = RemainingEntitlement /\ AcquiredGrams >= RemainingEntitlement
  OBVIOUS
<1>1. Sum(AllocatedGrams, {c \in Rows : status[c] = "PAID"}) = Accumulated
  BY DEF Sum, Accumulated
<1>2. Sum(LAMBDA s : redeemed[s], {s \in Redemptions : s \notin reversed}) = Withdrawn
  <2>1. {s \in Redemptions : s \notin reversed} = StandingRedemptions
    BY DEF Redemptions, StandingRedemptions
  <2>2. QED
    BY <2>1 DEF Sum, Withdrawn
<1>3. Accumulated \in Nat /\ Withdrawn \in Nat
  <2>1. Accumulated \in Nat
    BY PaidRowsAreAllocated, PaidRowsCount, BalanceColumns DEF TableInv, BalanceInv
  <2>2. redeemed \in [Settlements -> Nat] /\ IsFiniteSet({s \in Settlements : redeemed[s] # 0})
    BY DEF TableInv, BalanceInv, RowInv, TypeOK, ShowroomTypeOK, RedemptionsCount, Redemptions
  <2>3. Withdrawn \in Nat
    BY <2>2, TakenCounts, BalanceColumns
  <2>4. QED
    BY <2>1, <2>3
<1>4. QED
  BY <1>1, <1>2, <1>3 DEF LiabilityGrams, AcquiredGrams, RemainingEntitlement, Balance

\* The receipts are as many as the cash rows.
LEMMA ReceiptsAddUp ==
  ASSUME TableInv
  PROVE  \A J : J = {c \in Rows : Cash(c)} => IsFiniteSet(J) /\ Cardinality(J) = CashReceived
<1> SUFFICES ASSUME NEW J, J = {c \in Rows : Cash(c)}
             PROVE  IsFiniteSet(J) /\ Cardinality(J) = CashReceived
  OBVIOUS
<1>0. ReceiptsAreRows /\ 0 \notin Contributions
  BY DEF TableInv, Contributions
<1>1. PICK I, m : I = Issued /\ m = receipt
  OBVIOUS
<1>2. \A z : z \in J <=> \E r \in I : z = m[r]
  <2>1. ASSUME NEW r \in I
        PROVE  m[r] \in J
    BY <1>0, <1>1, <2>1 DEF Issued, ReceiptsAreRows, Rows, Cash
  <2>2. ASSUME NEW c \in J
        PROVE  \E r \in I : c = m[r]
    <3>1. c \in Contributions /\ status[c] # "none" /\ channel[c] = "IN_STORE_CASH"
      BY DEF Rows, Cash
    <3>2. PICK r \in Receipts : receipt[r] = c
      BY <1>0, <3>1 DEF ReceiptsAreRows
    <3>3. r \in I
      BY <1>0, <1>1, <3>1, <3>2 DEF Issued
    <3>4. QED
      BY <1>1, <3>2, <3>3
  <2>3. QED
    BY <2>1, <2>2
<1>3. \A x, y \in I : m[x] = m[y] => x = y
  BY <1>0, <1>1 DEF Issued, ReceiptsAreRows
<1>4. IsFiniteSet(J)
  <2>1. IsFiniteSet(Contributions)
    BY BoundsAssumption, FS_Interval DEF Contributions
  <2>2. J \in SUBSET Contributions
    BY DEF Rows
  <2>3. QED
    BY <2>1, <2>2, FS_Subset
<1>5. Cardinality(J) = Cardinality(I)
  <2>1. PICK b : b = [r \in I |-> m[r]]
    OBVIOUS
  <2>2. b \in Injection(I, J) /\ b \in Surjection(I, J)
    BY <1>2, <1>3, <2>1 DEF Injection, IsInjective, Surjection
  <2>3. IsFiniteSet(I)
    BY <1>4, <2>2, FS_Injection
  <2>4. ExistsBijection(I, J)
    BY <2>2 DEF Bijection, ExistsBijection
  <2>5. QED
    BY <2>3, <2>4, FS_Bijection
<1>6. QED
  BY <1>1, <1>4, <1>5 DEF CashReceived

\* The verified payments are the online ones and the receipts not corrected.
LEMMA VerifiedAddsUp ==
  TableInv => Verified = VerifiedOnline + CashReceived - CashReversed
<1> SUFFICES ASSUME TableInv
             PROVE  Verified = VerifiedOnline + CashReceived - CashReversed
  OBVIOUS
<1>1. PICK S, O, J, I, R :
        /\ S = {c \in Rows : status[c] \in Successful}
        /\ O = {c \in Rows : status[c] \in Successful /\ Online(c)}
        /\ I = {c \in Rows : status[c] \in Successful /\ Cash(c)}
        /\ J = {c \in Rows : Cash(c)}
        /\ R = {c \in Rows : status[c] = "REVERSED"}
  OBVIOUS
<1>2. \A c \in Rows : /\ Online(c) \/ Cash(c)
                      /\ ~(Online(c) /\ Cash(c))
                      /\ status[c] = "REVERSED" => Cash(c)
                      /\ Cash(c) => status[c] \in Successful \/ status[c] = "REVERSED"
                      /\ status[c] = "REVERSED" => status[c] \notin Successful
  BY DEF TableInv, BalanceInv, RowInv, TypeOK, AgreementTypeOK, CashRowsAreReceived, Rows,
         Online, Cash, Successful, Channels
<1>3. S = O \cup I /\ O \cap I = {} /\ J = I \cup R /\ I \cap R = {}
  BY <1>1, <1>2
<1>4. IsFiniteSet(O) /\ IsFiniteSet(I) /\ IsFiniteSet(R)
  <2>1. IsFiniteSet(Contributions)
    BY BoundsAssumption, FS_Interval DEF Contributions
  <2>2. O \in SUBSET Contributions /\ I \in SUBSET Contributions /\ R \in SUBSET Contributions
    BY <1>1 DEF Rows
  <2>3. QED
    BY <2>1, <2>2, FS_Subset
<1>5. Cardinality(O) \in Nat /\ Cardinality(I) \in Nat /\ Cardinality(R) \in Nat
  BY <1>4, FS_CardinalityType
<1>6. Cardinality(O \cap I) = 0 /\ Cardinality(I \cap R) = 0
  BY <1>3, FS_EmptySet
<1>7. /\ Cardinality(S) = Cardinality(O) + Cardinality(I) - Cardinality(O \cap I)
      /\ Cardinality(J) = Cardinality(I) + Cardinality(R) - Cardinality(I \cap R)
  BY <1>3, <1>4, FS_Union
<1>8. Cardinality(J) = CashReceived
  BY <1>1, ReceiptsAddUp
<1>9. /\ Verified = Cardinality(S) /\ VerifiedOnline = Cardinality(O)
      /\ CashReversed = Cardinality(R)
  BY <1>1 DEF Verified, VerifiedOnline, CashReversed
<1>10. QED
  BY <1>5, <1>6, <1>7, <1>8, <1>9

\* What is verified and not yet metal is in the owner's queue.
LEMMA QueueAddsUp ==
  TableInv => Verified - AcquiredFor =
                Cardinality({item \in ExceptionQueue : item[1] = "allocation"})
<1> SUFFICES ASSUME TableInv
             PROVE  Verified - AcquiredFor =
                      Cardinality({item \in ExceptionQueue : item[1] = "allocation"})
  OBVIOUS
<1>1. PICK P, U, I : /\ P = PaidRows /\ U = UnallocatedRows
                     /\ I = {item \in ExceptionQueue : item[1] = "allocation"}
  OBVIOUS
<1>2. /\ IsFiniteSet(P) /\ IsFiniteSet(U) /\ P \cap U = {}
      /\ P \cup U = {c \in Rows : status[c] \in Successful}
      /\ \A c \in P : allocations[c] # <<>>
  BY <1>1, RowsAddUp
<1>3. PICK m : m = [c \in U |-> <<"allocation", c>>]
  OBVIOUS
<1>4. \A x, y \in U : m[x] = m[y] => x = y
  <2>1. \A x \in U : m[x][2] = x
    BY <1>3
  <2>2. QED
    BY <2>1
<1>5. \A z : z \in I <=> \E c \in U : z = m[c]
  <2>1. I = {<<"allocation", c>> : c \in {d \in Rows : status[d] = "PAID_UNALLOCATED"}}
    <3>1. ASSUME NEW c \in {d \in Rows : status[d] = "PAID_UNALLOCATED"}
          PROVE  <<"allocation", c>> \in I
      BY <1>1, <3>1 DEF ExceptionQueue
    <3>2. ASSUME NEW item \in I
          PROVE  \E c \in {d \in Rows : status[d] = "PAID_UNALLOCATED"} : item = <<"allocation", c>>
      BY <1>1, <3>2 DEF ExceptionQueue
    <3>3. QED
      BY <3>1, <3>2
  <2>2. U = {d \in Rows : status[d] = "PAID_UNALLOCATED"}
    BY <1>1 DEF UnallocatedRows
  <2>3. QED
    BY <1>3, <2>1, <2>2
<1>6. Cardinality(I) = Cardinality(U)
  BY <1>2, <1>4, <1>5, AsMany
<1>7. Verified = Cardinality(P) + Cardinality(U)
  <2>1. Cardinality(P \cup U) = Cardinality(P) + Cardinality(U) - Cardinality(P \cap U)
    BY <1>2, FS_Union
  <2>2. Cardinality(P \cap U) = 0
    BY <1>2, FS_EmptySet
  <2>3. Cardinality(P) \in Nat /\ Cardinality(U) \in Nat
    BY <1>2, FS_CardinalityType
  <2>4. Verified = Cardinality(P \cup U)
    BY <1>2 DEF Verified
  <2>5. QED
    BY <2>1, <2>2, <2>3, <2>4
<1>8. AcquiredFor = Cardinality(P)
  <2>1. {c \in Rows : status[c] = "PAID" /\ allocations[c] # <<>>} = P
    BY <1>1, <1>2 DEF PaidRows
  <2>2. QED
    BY <2>1 DEF AcquiredFor
<1>9. Cardinality(P) \in Nat /\ Cardinality(U) \in Nat
  BY <1>2, FS_CardinalityType
<1>10. QED
  BY <1>1, <1>6, <1>7, <1>8, <1>9

\* The statement, the liability, the acquisition summary, the daily totals and
\* the owner's queue agree, whatever the rows, receipts and redemptions are.
THEOREM BooksAgree == Spec => []ReportsAgree
<1>1. TableInv => ReportsAgree
  BY StatementAddsUp, LiabilityAddsUp, VerifiedAddsUp, QueueAddsUp DEF ReportsAgree
<1>2. QED
  BY <1>1, TableInvariant, PTL
=============================================================================
