----------------------- MODULE OptionalAgreement_proofs -----------------------
(***************************************************************************)
(* Theorems about OptionalAgreement, for every number of checkouts,        *)
(* requests, payments, events, overlapping deliveries and sessions of      *)
(* refund work.                                                            *)
(***************************************************************************)
EXTENDS OptionalAgreement, FiniteSetTheorems, TLAPS

-----------------------------------------------------------------------------
(* Types, and what each request, event and session must know to go on. *)

DeskPlaces == {"idle", "observing", "observed", "reviewed", "rechecking", "rechecked",
               "orderReviewed", "orderRechecked"}

DeskRecords ==
  [at : DeskPlaces, event : Events \cup {0}, contribution : Contributions \cup {0},
   seen : Seen, review : Seen, number : Nat, payments : SUBSET Payments]

\* A request that has begun works on a contribution.
CreatorsAreBound ==
  \A w \in Creators : creator[w].at # "idle" => creator[w].contribution \in Contributions

\* A payment that was attempted has an order.
PaymentsAreBound == \A p \in Payments : payment[p].state # "none" => payment[p].order # 0

\* An event that was delivered is about an attempted payment, and so is what a
\* callback or the owner verified.
EventsAreBound ==
  /\ \A e \in Events :
       /\ event[e].status = "none" => event[e] = Unheard
       /\ event[e].status # "none" =>
            event[e].payment \in Payments /\ payment[event[e].payment].order # 0
  /\ \A x \in verified : payment[x[1]].order # 0

\* A delivery that runs is about a stored event, which it identified before it
\* confirms, finishes or asks for review.
DeliveriesAreBound ==
  \A v \in Deliveries :
    delivery[v].at # "idle" =>
      /\ delivery[v].event \in Events
      /\ event[delivery[v].event].status # "none"
      /\ delivery[v].at # "find" => event[delivery[v].event].identified

\* Refund work is about an identified event, or about a contribution.
DesksAreBound ==
  \A d \in Desks :
    /\ desk[d].at \in {"observing", "observed", "reviewed", "rechecking", "rechecked"} =>
         desk[d].event \in Events /\ event[desk[d].event].identified
    /\ desk[d].at \in {"orderReviewed", "orderRechecked"} =>
         desk[d].contribution \in Contributions

Typed == /\ TypeOK
         /\ desk \in [Desks -> DeskRecords]
         /\ CreatorsAreBound
         /\ PaymentsAreBound
         /\ EventsAreBound
         /\ DeliveriesAreBound
         /\ DesksAreBound

\* Nothing seen yet is a sight of the right type.
LEMMA NothingTyped == NothingSeen \in Seen /\ NoWork \in DeskRecords
  BY DEF NothingSeen, NoWork, Seen, DeskRecords, DeskPlaces

\* The empty agreement.
LEMMA InitTyped == Init => Typed
<1> SUFFICES ASSUME Init PROVE Typed
  OBVIOUS
<1>1. desk \in [Desks -> DeskRecords] /\ \A d \in Desks : desk[d] = NoWork
  BY NothingTyped DEF Init, RefundInit
<1>2. \A d \in Desks : desk[d].at = "idle" /\ desk[d].seen \in Seen /\ desk[d].review \in Seen
  BY <1>1, NothingTyped DEF NoWork
<1>3. row \in [Contributions -> ContributionRow]
  BY DEF Init, OrderInit, NoRow, ContributionRow
<1>4. /\ event \in [Events -> WebhookEvent] /\ \A e \in Events : event[e] = Unheard
      /\ delivery \in [Deliveries -> Delivery] /\ \A v \in Deliveries : delivery[v].at = "idle"
  BY DEF Init, OrderInit, Unheard, NoDelivery, WebhookEvent, Delivery, Outcomes
<1>5. payment \in [Payments -> ProviderPayment]
  BY DEF Init, OrderInit, ProviderPayment
<1>6. TypeOK
  <2>1. request \in [Contributions -> OrderRequest] /\ orders \in [Contributions -> Nat]
    BY DEF Init, OrderInit, OrderRequest
  <2>2. creator \in [Creators -> [at : {"idle", "begin", "call", "bind", "admit"},
                                  contribution : Contributions \cup {0}]]
    BY DEF Init, OrderInit
  <2>3. /\ untouched \subseteq Contributions /\ handed \subseteq Contributions
        /\ paused \in BOOLEAN
        /\ verified \subseteq Payments \X (Events \cup {"callback"})
        /\ faults \in 0..MaxFaults
    <3>1. verified = {} /\ faults = 0 /\ untouched = {} /\ handed = {} /\ paused = FALSE
      BY DEF Init, OrderInit
    <3>2. faults \in 0..MaxFaults
      BY <3>1, OptionalAssumption
    <3>3. verified \subseteq Payments \X (Events \cup {"callback"})
      BY <3>1
    <3>4. QED
      BY <3>1, <3>2, <3>3
  <2>4. /\ observations \in [Events -> Nat]
        /\ resolved \in [Payments -> Bodies \cup {"none"}]
        /\ retired \subseteq Contributions
    BY DEF Init, RefundInit
  <2>5. QED
    BY <1>2, <1>3, <1>4, <1>5, <2>1, <2>2, <2>3, <2>4 DEF TypeOK
<1>7. /\ CreatorsAreBound /\ PaymentsAreBound /\ EventsAreBound
      /\ DeliveriesAreBound /\ DesksAreBound
  BY <1>2, <1>4
     DEF Init, OrderInit, CreatorsAreBound, PaymentsAreBound, EventsAreBound,
         DeliveriesAreBound, DesksAreBound, Unheard
<1>8. QED
  BY <1>1, <1>6, <1>7 DEF Typed

\* A row whose fields are updated stays a row.
LEMMA RowFields ==
  ASSUME NEW r \in ContributionRow
  PROVE  /\ [r EXCEPT !.ordered = TRUE] \in ContributionRow
         /\ [r EXCEPT !.expired = TRUE] \in ContributionRow
         /\ \A s \in {"PENDING", "ABANDONED"} \cup Successful :
              /\ [r EXCEPT !.status = s] \in ContributionRow
              /\ \A p \in Payments : [r EXCEPT !.status = s, !.payment = p] \in ContributionRow
  BY DEF ContributionRow

\* A request that proceeds.
LEMMA ProceedTyped ==
  ASSUME Typed, NEW w \in Creators,
         NEW place \in {"begin", "call", "bind", "admit"}, NEW c \in Contributions,
         Proceed(w, place, c) \/ Rest(w)
  PROVE  /\ creator' \in [Creators -> [at : {"idle", "begin", "call", "bind", "admit"},
                                       contribution : Contributions \cup {0}]]
         /\ CreatorsAreBound'
  BY DEF Typed, TypeOK, CreatorsAreBound, Proceed, Rest

\* What a checkout step leaves alone keeps the types of the rest.
LEMMA OrderTyped ==
  ASSUME Typed, UNCHANGED <<payment, event, creditVars>>,
         row' \in [Contributions -> ContributionRow],
         request' \in [Contributions -> OrderRequest],
         untouched' \subseteq Contributions, handed' \subseteq Contributions,
         paused' \in BOOLEAN,
         creator' \in [Creators -> [at : {"idle", "begin", "call", "bind", "admit"},
                                    contribution : Contributions \cup {0}]],
         CreatorsAreBound', orders' \in [Contributions -> Nat], faults' \in 0..MaxFaults
  PROVE  Typed'
  BY DEF Typed, TypeOK, PaymentsAreBound, EventsAreBound, DeliveriesAreBound,
         DesksAreBound, creditVars

\* The checkouts keep every type.
LEMMA OrderStepTyped == Typed /\ OrderStep => Typed'
<1> SUFFICES ASSUME Typed, OrderStep PROVE Typed'
  OBVIOUS
<1> DEFINE Same == UNCHANGED <<payment, event, creditVars>>
<1>0. /\ NoRow \in ContributionRow
      /\ \A c \in Contributions : row[c] \in ContributionRow
  BY DEF NoRow, ContributionRow, Typed, TypeOK
<1>1. ASSUME NEW w \in Creators, InitiateContribution(w)
      PROVE  Typed'
  <2>1. PICK c \in Contributions :
          /\ Proceed(w, "begin", c)
          /\ \/ UNCHANGED row
             \/ row' = [row EXCEPT ![c] = [NoRow EXCEPT !.channel = "RAZORPAY",
                                             !.status = "PENDING"]]
    BY <1>1 DEF InitiateContribution, Rows
  <2>2. [NoRow EXCEPT !.channel = "RAZORPAY", !.status = "PENDING"] \in ContributionRow
    BY DEF NoRow, ContributionRow
  <2>3. row' \in [Contributions -> ContributionRow]
    BY <2>1, <2>2 DEF Typed, TypeOK
  <2>4. QED
    BY <1>1, <2>1, <2>3, ProceedTyped, OrderTyped
       DEF InitiateContribution, Typed, TypeOK
<1>2. ASSUME NEW w \in Creators, BeginOrderRequest(w)
      PROVE  Typed'
  <2>1. PICK c \in Contributions : c = creator[w].contribution
    BY <1>2 DEF BeginOrderRequest, CreatorAt, Typed, CreatorsAreBound
  <2>2. /\ Proceed(w, "admit", c) \/ Proceed(w, "call", c)
        /\ request' = request \/ request' = [request EXCEPT ![c] = "unbound"]
    BY <1>2, <2>1 DEF BeginOrderRequest
  <2>3. request' \in [Contributions -> OrderRequest]
    BY <2>2 DEF Typed, TypeOK, OrderRequest
  <2>4. QED
    BY <1>2, <2>2, <2>3, ProceedTyped, OrderTyped DEF BeginOrderRequest, Typed, TypeOK
<1>3. ASSUME NEW w \in Creators, CallProvider(w)
      PROVE  Typed'
  <2>1. PICK c \in Contributions : c = creator[w].contribution
    BY <1>3 DEF CallProvider, CreatorAt, Typed, CreatorsAreBound
  <2>2. /\ Proceed(w, "bind", c) \/ Rest(w)
        /\ orders' = orders \/ orders' = [orders EXCEPT ![c] = @ + 1]
        /\ UNCHANGED faults \/ Fault
    BY <1>3, <2>1 DEF CallProvider
  <2>3. orders' \in [Contributions -> Nat] /\ faults' \in 0..MaxFaults
    BY <2>2, OptionalAssumption DEF Typed, TypeOK, Fault
  <2>4. QED
    BY <1>3, <2>2, <2>3, ProceedTyped, OrderTyped DEF CallProvider, Typed, TypeOK
<1>4. ASSUME NEW w \in Creators, BindResponse(w)
      PROVE  Typed'
  <2>1. PICK c \in Contributions : c = creator[w].contribution
    BY <1>4 DEF BindResponse, CreatorAt, Typed, CreatorsAreBound
  <2>2. /\ Proceed(w, "admit", c)
        /\ row' = [row EXCEPT ![c].ordered = TRUE]
        /\ request' = [request EXCEPT ![c] = "answered"]
    BY <1>4, <2>1 DEF BindResponse
  <2>3. row' \in [Contributions -> ContributionRow] /\ request' \in [Contributions -> OrderRequest]
    BY <1>0, <2>2, RowFields DEF Typed, TypeOK, OrderRequest
  <2>4. QED
    BY <1>4, <2>2, <2>3, ProceedTyped, OrderTyped DEF BindResponse, Typed, TypeOK
<1>5. ASSUME NEW w \in Creators, HandCheckout(w) \/ CreatorStops(w)
      PROVE  Typed'
  <2>1. PICK c \in Contributions : c = creator[w].contribution
    BY <1>5 DEF HandCheckout, CreatorStops, CreatorAt, Typed, CreatorsAreBound
  <2>2. Rest(w) /\ handed' \subseteq Contributions
    BY <1>5, <2>1 DEF HandCheckout, CreatorStops, Typed, TypeOK
  <2>3. QED
    BY <1>5, <2>1, <2>2, ProceedTyped, OrderTyped
       DEF HandCheckout, CreatorStops, Typed, TypeOK
<1>6. ASSUME NEW c \in Contributions,
             \/ RecoverOrder(c) \/ ExpireCheckout(c) \/ AbandonUntouched(c)
             \/ RecordCash(c) \/ AllocateLater(c)
      PROVE  Typed'
  <2>1. row' \in [Contributions -> ContributionRow]
    <3>1. CASE RecoverOrder(c)
      BY <1>0, <3>1, RowFields DEF RecoverOrder, Typed, TypeOK
    <3>2. CASE ExpireCheckout(c)
      BY <1>0, <3>2, RowFields DEF ExpireCheckout, Typed, TypeOK
    <3>3. CASE AbandonUntouched(c)
      BY <1>0, <3>3, RowFields DEF AbandonUntouched, Typed, TypeOK
    <3>4. CASE RecordCash(c)
      <4>1. PICK s \in Successful :
              row' = [row EXCEPT ![c] = [NoRow EXCEPT !.channel = "IN_STORE_CASH", !.status = s]]
        BY <3>4 DEF RecordCash
      <4>2. [NoRow EXCEPT !.channel = "IN_STORE_CASH", !.status = s] \in ContributionRow
        BY DEF NoRow, ContributionRow
      <4>3. QED
        BY <4>1, <4>2 DEF Typed, TypeOK
    <3>5. CASE AllocateLater(c)
      BY <1>0, <3>5, RowFields DEF AllocateLater, Typed, TypeOK, Successful
    <3>6. QED
      BY <1>6, <3>1, <3>2, <3>3, <3>4, <3>5
  <2>2. request' \in [Contributions -> OrderRequest] /\ untouched' \subseteq Contributions
    BY <1>6 DEF RecoverOrder, ExpireCheckout, AbandonUntouched, RecordCash, AllocateLater,
                Typed, TypeOK, OrderRequest
  <2>3. UNCHANGED <<paused, creator, handed, orders, payment, event, faults, creditVars>>
    BY <1>6 DEF RecoverOrder, ExpireCheckout, AbandonUntouched, RecordCash, AllocateLater
  <2>4. QED
    BY <2>1, <2>2, <2>3, OrderTyped DEF Typed, TypeOK, CreatorsAreBound
<1>7. CASE TogglePause
  BY <1>7, OrderTyped DEF TogglePause, Typed, TypeOK, CreatorsAreBound
<1>8. CASE ProviderMoves
  <2>1. PICK p \in Payments :
          \/ \E c \in Contributions :
               /\ payment[p].state = "none"
               /\ payment' = [payment EXCEPT ![p] = [order |-> c, state |-> "created"]]
          \/ \E s \in {"captured", "failed", "partial", "refunded"} :
               /\ payment[p].state # "none"
               /\ payment' = [payment EXCEPT ![p].state = s]
    BY <1>8 DEF ProviderMoves
  <2> DEFINE StillBound ==
               /\ payment' \in [Payments -> ProviderPayment]
               /\ \A q \in Payments : payment[q].order # 0 => payment'[q].order # 0
               /\ PaymentsAreBound'
  <2>2. StillBound
    <3>0. /\ payment \in [Payments -> ProviderPayment]
          /\ \A q \in Payments : payment[q].state # "none" => payment[q].order # 0
          /\ \A c \in Contributions : c # 0
      BY OptionalAssumption DEF Typed, TypeOK, PaymentsAreBound, Contributions
    <3>1. ASSUME NEW c \in Contributions,
                 payment' = [payment EXCEPT ![p] = [order |-> c, state |-> "created"]]
          PROVE  StillBound
      BY <3>0, <3>1 DEF PaymentsAreBound, ProviderPayment
    <3>2. ASSUME NEW s \in {"captured", "failed", "partial", "refunded"},
                 payment[p].state # "none", payment' = [payment EXCEPT ![p].state = s]
          PROVE  StillBound
      BY <3>0, <3>2 DEF PaymentsAreBound, ProviderPayment
    <3>3. QED
      BY <2>1, <3>1, <3>2
  <2>3. \A x \in verified : x[1] \in Payments
    BY DEF Typed, TypeOK
  <2>4. UNCHANGED <<orderVars, event, faults, creditVars>>
    BY <1>8 DEF ProviderMoves
  <2>5. TypeOK'
    BY <2>2, <2>4 DEF Typed, TypeOK, orderVars, creditVars
  <2>6. EventsAreBound'
    BY <2>2, <2>3, <2>4 DEF Typed, EventsAreBound, creditVars
  <2>7. /\ CreatorsAreBound' /\ DeliveriesAreBound' /\ DesksAreBound'
        /\ (desk \in [Desks -> DeskRecords])'
    BY <2>4
       DEF Typed, CreatorsAreBound, DeliveriesAreBound, DesksAreBound, orderVars, creditVars
  <2>8. QED
    BY <2>2, <2>5, <2>6, <2>7 DEF Typed
<1>9. QED
  BY <1>1, <1>2, <1>3, <1>4, <1>5, <1>6, <1>7, <1>8 DEF OrderStep

\* What a capture leaves alone keeps the types of the rest.
LEMMA CaptureTyped ==
  ASSUME Typed, UNCHANGED <<request, untouched, paused, creator, handed, orders, payment>>,
         UNCHANGED <<observations, resolved, retired, desk>>,
         row' \in [Contributions -> ContributionRow],
         event' \in [Events -> WebhookEvent], EventsAreBound',
         delivery' \in [Deliveries -> Delivery], DeliveriesAreBound',
         \A e \in Events : event[e].identified => event'[e].identified,
         verified' \subseteq Payments \X (Events \cup {"callback"}), faults' \in 0..MaxFaults
  PROVE  Typed'
<1>1. TypeOK'
  BY DEF Typed, TypeOK
<1>2. CreatorsAreBound' /\ PaymentsAreBound' /\ DesksAreBound'
  BY DEF Typed, CreatorsAreBound, PaymentsAreBound, DesksAreBound
<1>3. QED
  BY <1>1, <1>2 DEF Typed

\* What an event keeps whatever is written to it once it is stored.
GrowsTo(r, x) ==
  /\ x \in WebhookEvent /\ x.status # "none"
  /\ x.payment = r.payment /\ x.body = r.body
  /\ r.identified => x.identified
  /\ r.answered => x.answered
  /\ r.attempts \subseteq x.attempts

\* An event that is found, written back by a failure, or answered again.
LEMMA EventFields ==
  ASSUME NEW r \in WebhookEvent, r.status # "none"
  PROVE  /\ r.identified \in BOOLEAN /\ r.contribution \in Contributions \cup {0}
         /\ GrowsTo(r, r) /\ GrowsTo(r, [r EXCEPT !.answered = TRUE])
         /\ GrowsTo(r, [r EXCEPT !.identified = TRUE])
         /\ \A c \in Contributions \cup {0} :
              /\ GrowsTo(r, [r EXCEPT !.identified = TRUE, !.contribution = c])
              /\ GrowsTo(r, [r EXCEPT !.status = "RECEIVED", !.identified = TRUE,
                                      !.contribution = c])
  BY DEF WebhookEvent, GrowsTo

\* An event that is concluded with an outcome has one more attempt.
Concluded(r, x, outcome, c) ==
  /\ GrowsTo(r, x) /\ x.status = outcome /\ x.contribution = c
  /\ x.identified = r.identified /\ x.attempts = r.attempts \cup {outcome}

LEMMA ConcludedFields ==
  ASSUME NEW r \in WebhookEvent, NEW outcome \in Outcomes, NEW c \in Contributions \cup {0},
         NEW b \in BOOLEAN, r.answered => b,
         NEW x, x = [r EXCEPT !.status = outcome, !.contribution = c,
                              !.attempts = @ \cup {outcome}, !.answered = b]
  PROVE  Concluded(r, x, outcome, c)
<1>1. PICK a : a = r.attempts \cup {outcome}
  OBVIOUS
<1>2. r.attempts \in SUBSET Outcomes
  BY DEF WebhookEvent
<1>3. a \in SUBSET Outcomes /\ r.attempts \subseteq a
  BY <1>1, <1>2
<1>4. x = [r EXCEPT !.status = outcome, !.contribution = c, !.attempts = a, !.answered = b]
  BY <1>1
<1>5. outcome # "none"
  BY DEF Outcomes
<1>6. QED
  BY <1>1, <1>3, <1>4, <1>5 DEF WebhookEvent, GrowsTo, Concluded

\* An event is rewritten.
LEMMA EventTyped ==
  ASSUME Typed, NEW e \in Events, event[e].status # "none",
         NEW x, GrowsTo(event[e], x), event' = [event EXCEPT ![e] = x], UNCHANGED payment,
         verified' \subseteq verified
  PROVE  /\ event' \in [Events -> WebhookEvent]
         /\ EventsAreBound'
         /\ \A d \in Events : event[d].identified => event'[d].identified
         /\ \A d \in Events : event[d].status # "none" => event'[d].status # "none"
<1>1. event \in [Events -> WebhookEvent] /\ EventsAreBound
  BY DEF Typed, TypeOK
<1>2. \A d \in Events : event'[d] = IF d = e THEN x ELSE event[d]
  BY <1>1
<1>3. x \in WebhookEvent /\ x.status # "none" /\ x.payment = event[e].payment
      /\ (event[e].identified => x.identified)
  BY DEF GrowsTo
<1>4. EventsAreBound'
  BY <1>1, <1>2, <1>3 DEF EventsAreBound
<1>5. QED
  BY <1>1, <1>2, <1>3, <1>4

\* A delivery starts or goes on.
Places == {"find", "confirm", "finish", "review"}
GoesOn(v, place, e, c) ==
  /\ Deliver(v, place, e, c)
  /\ event'[e].status # "none"
  /\ place # "find" => event'[e].identified

LEMMA DeliveryTyped ==
  ASSUME Typed,
         \A d \in Events : event[d].identified => event'[d].identified,
         \A d \in Events : event[d].status # "none" => event'[d].status # "none",
         \/ UNCHANGED delivery
         \/ \E v \in Deliveries : EndDelivery(v)
         \/ \E v \in Deliveries, place \in Places, e \in Events, c \in Contributions \cup {0} :
              GoesOn(v, place, e, c)
  PROVE  delivery' \in [Deliveries -> Delivery] /\ DeliveriesAreBound'
<1>1. delivery \in [Deliveries -> Delivery] /\ DeliveriesAreBound
  BY DEF Typed, TypeOK
<1>2. CASE UNCHANGED delivery
  BY <1>1, <1>2 DEF DeliveriesAreBound
<1>3. ASSUME NEW v \in Deliveries, EndDelivery(v)
      PROVE  delivery' \in [Deliveries -> Delivery] /\ DeliveriesAreBound'
  <2>1. NoDelivery \in Delivery /\ NoDelivery.at = "idle"
    BY DEF NoDelivery, Delivery
  <2>2. QED
    BY <1>1, <1>3, <2>1 DEF EndDelivery, DeliveriesAreBound
<1>4. ASSUME NEW v \in Deliveries, NEW place \in Places, NEW e \in Events,
             NEW c \in Contributions \cup {0}, GoesOn(v, place, e, c)
      PROVE  delivery' \in [Deliveries -> Delivery] /\ DeliveriesAreBound'
  <2>1. PICK k : k = [at |-> place, event |-> e, contribution |-> c]
    OBVIOUS
  <2>2. k \in Delivery /\ k.at = place /\ k.event = e
    BY <1>4, <2>1 DEF Delivery, Places
  <2>3. delivery' = [delivery EXCEPT ![v] = k]
    BY <1>4, <2>1 DEF GoesOn, Deliver
  <2>4. \A u \in Deliveries : delivery'[u] = IF u = v THEN k ELSE delivery[u]
    BY <1>1, <2>3
  <2>5. DeliveriesAreBound'
    BY <1>1, <1>4, <2>2, <2>4 DEF DeliveriesAreBound, GoesOn
  <2>6. QED
    BY <1>1, <2>2, <2>3, <2>5
<1>5. QED
  BY <1>2, <1>3, <1>4

\* The order a stored event's payment was made on.
LEMMA OrderTypes ==
  ASSUME Typed
  PROVE  /\ \A p \in Payments : payment[p].order \in Contributions \cup {0}
         /\ \A e \in Events : event[e].status # "none" =>
              event[e].payment \in Payments /\ OrderOf(e) \in Contributions
         /\ \A e \in Events : event[e].identified => event[e].status # "none"
<1>1. \A p \in Payments : payment[p] \in ProviderPayment
  BY DEF Typed, TypeOK
<1>2. \A p \in Payments : payment[p].order \in Contributions \cup {0}
  BY <1>1 DEF ProviderPayment
<1>3. QED
  BY <1>2 DEF Typed, EventsAreBound, OrderOf, Unheard

\* What a running delivery knows.
LEMMA RunningDelivery ==
  ASSUME Typed, NEW v \in Deliveries, delivery[v].at # "idle"
  PROVE  /\ delivery[v].event \in Events /\ event[delivery[v].event].status # "none"
         /\ event[delivery[v].event] \in WebhookEvent
         /\ event[delivery[v].event].payment \in Payments
         /\ OrderOf(delivery[v].event) \in Contributions
         /\ delivery[v].contribution \in Contributions \cup {0}
         /\ delivery[v].at # "find" => event[delivery[v].event].identified
<1>1. delivery[v] \in Delivery /\ event \in [Events -> WebhookEvent]
  BY DEF Typed, TypeOK
<1>2. delivery[v].contribution \in Contributions \cup {0}
  BY <1>1 DEF Delivery
<1>3. QED
  BY <1>1, <1>2, OrderTypes DEF Typed, DeliveriesAreBound

\* A credit of a row, or its entitlement.
LEMMA CreditTyped ==
  ASSUME Typed, NEW c \in Contributions, NEW p \in Payments,
         \/ UNCHANGED row \/ ApplyEntitlement(c)
         \/ \E s \in Successful : row' = [row EXCEPT ![c].status = s, ![c].payment = p]
  PROVE  row' \in [Contributions -> ContributionRow]
<1>1. row \in [Contributions -> ContributionRow] /\ row[c] \in ContributionRow
  BY DEF Typed, TypeOK
<1>2. ASSUME NEW s \in Successful, row' = [row EXCEPT ![c].status = s, ![c].payment = p]
      PROVE  row' \in [Contributions -> ContributionRow]
  <2>1. [row[c] EXCEPT !.status = s, !.payment = p] \in ContributionRow
    BY <1>1, RowFields
  <2>2. QED
    BY <1>1, <1>2, <2>1
<1>3. ASSUME NEW s \in Successful, row' = [row EXCEPT ![c].status = s]
      PROVE  row' \in [Contributions -> ContributionRow]
  <2>1. [row[c] EXCEPT !.status = s] \in ContributionRow
    BY <1>1, RowFields
  <2>2. QED
    BY <1>1, <1>3, <2>1
<1>4. QED
  BY <1>1, <1>2, <1>3 DEF ApplyEntitlement

\* Deliveries, callbacks and recoveries keep every type.
LEMMA CaptureStepTyped == Typed /\ CaptureStep => Typed'
<1> SUFFICES ASSUME Typed, CaptureStep PROVE Typed'
  OBVIOUS
<1>0. /\ event \in [Events -> WebhookEvent] /\ \A e \in Events : event[e] \in WebhookEvent
      /\ row \in [Contributions -> ContributionRow]
      /\ verified \subseteq Payments \X (Events \cup {"callback"})
      /\ faults \in 0..MaxFaults
  BY DEF Typed, TypeOK
<1>1. ASSUME NEW v \in Deliveries, NEW e \in Events, FirstDelivery(v, e)
      PROVE  Typed'
  <2>1. PICK p \in Payments, b \in Bodies :
          /\ EverCaptured(p)
          /\ event' = [event EXCEPT ![e] = [Unheard EXCEPT !.status = "RECEIVED",
                                              !.payment = p, !.body = b]]
    BY <1>1 DEF FirstDelivery
  <2>2. PICK x : x = [Unheard EXCEPT !.status = "RECEIVED", !.payment = p, !.body = b]
    OBVIOUS
  <2>3. x \in WebhookEvent /\ x.status # "none" /\ x.payment = p
    BY <2>2 DEF Unheard, WebhookEvent, Outcomes
  <2>4. payment[p].order # 0 /\ event[e].status = "none" /\ ~event[e].identified
    BY <1>1, <2>1
       DEF FirstDelivery, EverCaptured, Typed, PaymentsAreBound, EventsAreBound, Unheard
  <2>5. UNCHANGED <<orderVars, payment, faults, refundVars>> /\ Deliver(v, "find", e, 0)
    BY <1>1 DEF FirstDelivery
  <2>6. \A d \in Events : event'[d] = IF d = e THEN x ELSE event[d]
    BY <1>0, <2>1, <2>2
  <2>7. EventsAreBound'
    BY <2>3, <2>4, <2>5, <2>6 DEF Typed, EventsAreBound, refundVars
  <2>8. /\ \A d \in Events : event[d].identified => event'[d].identified
        /\ \A d \in Events : event[d].status # "none" => event'[d].status # "none"
        /\ event' \in [Events -> WebhookEvent]
    BY <1>0, <2>1, <2>2, <2>3, <2>4, <2>6
  <2>9. GoesOn(v, "find", e, 0) /\ "find" \in Places
    BY <2>3, <2>5, <2>6 DEF GoesOn, Places
  <2>10. delivery' \in [Deliveries -> Delivery] /\ DeliveriesAreBound'
    BY <2>8, <2>9, DeliveryTyped
  <2>11. QED
    BY <1>0, <2>5, <2>7, <2>8, <2>10, CaptureTyped DEF orderVars, refundVars
<1>2. ASSUME NEW e \in Events, NEW x, event[e].status # "none", GrowsTo(event[e], x),
             event' = [event EXCEPT ![e] = x], verified' \subseteq verified,
             UNCHANGED <<request, untouched, paused, creator, handed, orders, payment>>,
             UNCHANGED <<observations, resolved, retired, desk>>,
             row' \in [Contributions -> ContributionRow], faults' \in 0..MaxFaults,
             \/ UNCHANGED delivery
             \/ \E v \in Deliveries : EndDelivery(v)
             \/ \E v \in Deliveries, place \in Places, c \in Contributions \cup {0} :
                  GoesOn(v, place, e, c)
      PROVE  Typed'
  <2>1. verified' \subseteq Payments \X (Events \cup {"callback"})
    BY <1>0, <1>2
  <2>2. /\ event' \in [Events -> WebhookEvent] /\ EventsAreBound'
        /\ \A d \in Events : event[d].identified => event'[d].identified
        /\ \A d \in Events : event[d].status # "none" => event'[d].status # "none"
    BY <1>2, EventTyped
  <2>3. delivery' \in [Deliveries -> Delivery] /\ DeliveriesAreBound'
    BY <1>2, <2>2, DeliveryTyped
  <2>4. QED
    BY <1>2, <2>1, <2>2, <2>3, CaptureTyped
<1>3. ASSUME NEW v \in Deliveries, FindContribution(v)
      PROVE  Typed'
  <2>1. PICK e, c : e = delivery[v].event /\ c = OrderOf(e)
    OBVIOUS
  <2>2. /\ e \in Events /\ event[e].status # "none" /\ c \in Contributions
        /\ delivery[v].contribution \in Contributions \cup {0}
        /\ event[e] \in WebhookEvent
    BY <1>3, <2>1, RunningDelivery DEF FindContribution, DeliveryAt
  <2>3. UNCHANGED <<orderVars, payment, faults, refundVars>>
    BY <1>3 DEF FindContribution
  <2>4. PICK place, a, x :
          /\ Deliver(v, place, e, a) /\ place \in {"review", "confirm"}
          /\ a \in Contributions \cup {0}
          /\ event' = [event EXCEPT ![e] = x]
          /\ \/ x = [event[e] EXCEPT !.identified = TRUE, !.contribution = c]
             \/ x = [event[e] EXCEPT !.identified = TRUE]
    BY <1>3, <2>1, <2>2 DEF FindContribution
  <2>5. GrowsTo(event[e], x) /\ x.identified
    <3>1. PICK r : r = event[e]
      OBVIOUS
    <3>2. /\ GrowsTo(r, [r EXCEPT !.identified = TRUE])
          /\ GrowsTo(r, [r EXCEPT !.identified = TRUE, !.contribution = c])
      BY <2>2, <3>1, EventFields
    <3>3. \/ x = [r EXCEPT !.identified = TRUE, !.contribution = c]
          \/ x = [r EXCEPT !.identified = TRUE]
      BY <2>4, <3>1
    <3>4. x.identified
      BY <2>2, <3>1, <3>3 DEF WebhookEvent
    <3>5. QED
      BY <3>1, <3>2, <3>3, <3>4
  <2>6. event'[e] = x /\ x.status # "none"
    BY <1>0, <2>2, <2>4, <2>5 DEF GrowsTo
  <2>7. GoesOn(v, place, e, a) /\ place \in Places
    BY <2>4, <2>5, <2>6 DEF GoesOn, Places
  <2>8. QED
    BY <1>0, <1>2, <2>2, <2>3, <2>4, <2>5, <2>7 DEF orderVars, refundVars
<1>4. ASSUME NEW v \in Deliveries, ConfirmCapture(v)
      PROVE  Typed'
  <2>1. PICK e, c, p : e = delivery[v].event /\ c = delivery[v].contribution
                       /\ p = event[e].payment
    OBVIOUS
  <2>2. /\ e \in Events /\ event[e].status # "none" /\ p \in Payments
        /\ c \in Contributions \cup {0} /\ event[e].identified
        /\ event[e] \in WebhookEvent
    BY <1>4, <2>1, RunningDelivery DEF ConfirmCapture, DeliveryAt
  <2>3. row' \in [Contributions -> ContributionRow]
    <3>1. CASE c \in Contributions
      BY <1>4, <2>1, <2>2, <3>1, CreditTyped
         DEF ConfirmCapture, ConfirmContribution, ConfirmRow, Successful
    <3>2. CASE c \notin Contributions
      BY <1>0, <1>4, <2>1, <3>2 DEF ConfirmCapture, ConfirmContribution, ConfirmRow
    <3>3. QED
      BY <3>1, <3>2
  <2>4. PICK place \in {"finish", "review"} : Deliver(v, place, e, c)
    BY <1>4, <2>1 DEF ConfirmCapture
  <2>5. UNCHANGED <<request, untouched, paused, creator, handed, orders, payment, event, faults>>
        /\ UNCHANGED refundVars
    BY <1>4 DEF ConfirmCapture, UnchangedButRow
  <2>6. event' = [event EXCEPT ![e] = event[e]] /\ GrowsTo(event[e], event[e])
    BY <1>0, <2>2, <2>5, EventFields
  <2>7. GoesOn(v, place, e, c) /\ place \in Places
    BY <2>2, <2>4, <2>5 DEF GoesOn, Places
  <2>8. QED
    BY <1>0, <1>2, <2>2, <2>3, <2>5, <2>6, <2>7 DEF refundVars
<1>5. ASSUME NEW v \in Deliveries, FinishCapture(v) \/ RequireReview(v)
      PROVE  Typed'
  <2>1. PICK e, c : e = delivery[v].event /\ c = delivery[v].contribution
    OBVIOUS
  <2>2. /\ e \in Events /\ event[e].status # "none" /\ event[e].payment \in Payments
        /\ c \in Contributions \cup {0} /\ event[e] \in WebhookEvent
    BY <1>5, <2>1, RunningDelivery DEF FinishCapture, RequireReview, DeliveryAt
  <2>3. row' \in [Contributions -> ContributionRow]
    <3>1. CASE c \in Contributions
      BY <1>0, <1>5, <2>1, <2>2, <3>1, CreditTyped DEF FinishCapture, RequireReview, orderVars
    <3>2. CASE c \notin Contributions
      BY <1>0, <1>5, <2>1, <3>2 DEF FinishCapture, RequireReview, ApplyEntitlement, orderVars
    <3>3. QED
      BY <3>1, <3>2
  <2>4. PICK outcome, x :
          /\ outcome \in Outcomes
          /\ x = [event[e] EXCEPT !.status = outcome, !.contribution = c,
                                  !.attempts = @ \cup {outcome}, !.answered = TRUE]
          /\ event' = [event EXCEPT ![e] = x]
    <3>1. PICK outcome \in Outcomes : Conclude(e, outcome, c)
      BY <1>5, <2>1 DEF FinishCapture, RequireReview, Outcomes
    <3>2. PICK x : x = [event[e] EXCEPT !.status = outcome, !.contribution = c,
                          !.attempts = @ \cup {outcome}, !.answered = TRUE]
      OBVIOUS
    <3>3. event' = [event EXCEPT ![e] = x]
      BY <1>0, <2>2, <3>1, <3>2 DEF Conclude
    <3>4. QED
      BY <3>1, <3>2, <3>3
  <2>5. GrowsTo(event[e], x)
    <3>1. PICK r, b : r = event[e] /\ b = TRUE
      OBVIOUS
    <3>2. x = [r EXCEPT !.status = outcome, !.contribution = c,
                        !.attempts = @ \cup {outcome}, !.answered = b]
      BY <2>4, <3>1
    <3>3. /\ r \in WebhookEvent /\ outcome \in Outcomes /\ c \in Contributions \cup {0}
          /\ b \in BOOLEAN
          /\ r.answered => b
      BY <2>2, <2>4, <3>1
    <3>4. Concluded(r, x, outcome, c)
      BY <3>2, <3>3, ConcludedFields
    <3>5. QED
      BY <3>1, <3>4 DEF Concluded
  <2>6. /\ UNCHANGED <<request, untouched, paused, creator, handed, orders, payment, faults>>
        /\ UNCHANGED refundVars /\ EndDelivery(v)
    BY <1>5 DEF FinishCapture, RequireReview, UnchangedButRow, orderVars
  <2>7. QED
    BY <1>0, <1>2, <2>2, <2>3, <2>4, <2>5, <2>6 DEF refundVars
<1>6. ASSUME NEW v \in Deliveries, DeliveryFails(v) \/ DeliveryDies(v)
      PROVE  Typed'
  <2>1. PICK e, c : e = delivery[v].event /\ c = delivery[v].contribution
    OBVIOUS
  <2>2. /\ e \in Events /\ event[e].status # "none"
        /\ c \in Contributions \cup {0} /\ event[e] \in WebhookEvent
    BY <1>6, <2>1, RunningDelivery DEF DeliveryFails, DeliveryDies, DeliveryAt
  <2>3. PICK x : /\ event' = [event EXCEPT ![e] = x]
                 /\ \/ x = event[e]
                    \/ x = [event[e] EXCEPT !.status = "RECEIVED", !.identified = TRUE,
                                            !.contribution = c]
    <3>1. CASE DeliveryFails(v)
      BY <2>1, <3>1 DEF DeliveryFails
    <3>2. CASE DeliveryDies(v)
      BY <1>0, <2>2, <3>2 DEF DeliveryDies
    <3>3. QED
      BY <1>6, <3>1, <3>2
  <2>4. GrowsTo(event[e], x)
    BY <2>2, <2>3, EventFields
  <2>5. /\ UNCHANGED <<orderVars, payment, refundVars>> /\ EndDelivery(v)
        /\ faults' \in 0..MaxFaults
    BY <1>0, <1>6, OptionalAssumption DEF DeliveryFails, DeliveryDies, Fault
  <2>6. QED
    BY <1>0, <1>2, <2>2, <2>3, <2>4, <2>5 DEF orderVars, refundVars
<1>7. ASSUME NEW e \in Events, FinalDelivery(e)
      PROVE  Typed'
  <2>1. event[e].status # "none" /\ event' = [event EXCEPT ![e].answered = TRUE]
        /\ UNCHANGED <<orderVars, payment, faults, creditVars>>
    BY <1>7 DEF FinalDelivery, Outcomes
  <2>2. PICK x : x = [event[e] EXCEPT !.answered = TRUE]
    OBVIOUS
  <2>3. GrowsTo(event[e], x) /\ event' = [event EXCEPT ![e] = x]
    BY <1>0, <2>1, <2>2, EventFields
  <2>4. QED
    BY <1>0, <1>2, <2>1, <2>3 DEF orderVars, creditVars
<1>8. ASSUME NEW e \in Events, RecoverCapture(e)
      PROVE  Typed'
  <2>1. PICK c, p : c = OrderOf(e) /\ p = event[e].payment
    OBVIOUS
  <2>2. /\ <<p, e>> \in verified /\ p \in Payments
        /\ payment[p].order # 0 /\ c = payment[p].order
    BY <1>0, <1>8, <2>1 DEF RecoverCapture, Typed, EventsAreBound, OrderOf
  <2>3. c \in Contributions /\ event[e].status # "none" /\ event[e] \in WebhookEvent
    <3>1. event[e].status # "none"
      BY <2>1, <2>2, OptionalAssumption DEF Typed, EventsAreBound, Unheard
    <3>2. QED
      BY <1>0, <2>2, <3>1, OrderTypes
  <2>4. row' \in [Contributions -> ContributionRow]
    BY <1>8, <2>1, <2>2, <2>3, CreditTyped DEF RecoverCapture
  <2>5. PICK x : x = [event[e] EXCEPT !.status = "PROCESSED", !.contribution = c,
                        !.attempts = @ \cup {"PROCESSED"}, !.answered = event[e].answered]
    OBVIOUS
  <2>6. "PROCESSED" \in Outcomes /\ event[e].answered \in BOOLEAN
    BY <2>3 DEF Outcomes, WebhookEvent
  <2>7. GrowsTo(event[e], x)
    <3>1. PICK r, outcome, b : r = event[e] /\ outcome = "PROCESSED" /\ b = r.answered
      OBVIOUS
    <3>2. x = [r EXCEPT !.status = outcome, !.contribution = c,
                        !.attempts = @ \cup {outcome}, !.answered = b]
      BY <2>5, <3>1
    <3>3. /\ r \in WebhookEvent /\ outcome \in Outcomes /\ c \in Contributions \cup {0}
          /\ b \in BOOLEAN
          /\ r.answered => b
      BY <2>3, <2>6, <3>1
    <3>4. Concluded(r, x, outcome, c)
      BY <3>2, <3>3, ConcludedFields
    <3>5. QED
      BY <3>1, <3>4 DEF Concluded
  <2>8. event' = [event EXCEPT ![e] = x] /\ verified' \subseteq verified
    BY <1>0, <1>8, <2>1, <2>3, <2>5 DEF RecoverCapture, WebhookEvent
  <2>9. UNCHANGED <<request, untouched, paused, creator, handed, orders, payment, faults,
                    delivery, observations, resolved, retired, desk>>
    BY <1>8 DEF RecoverCapture, UnchangedButRow, RefundVarsExcept
  <2>10. QED
    BY <1>0, <1>2, <2>3, <2>4, <2>7, <2>8, <2>9
<1>9. ASSUME UNCHANGED <<event, faults, payment>>, UNCHANGED RefundVarsExcept,
             UNCHANGED <<request, untouched, paused, creator, handed, orders>>,
             row' \in [Contributions -> ContributionRow],
             NEW x, verified' \subseteq verified \cup {x},
             \/ x \in verified
             \/ /\ x \in Payments \X (Events \cup {"callback"})
                /\ payment[x[1]].order # 0
      PROVE  Typed'
  <2>1. verified' \subseteq Payments \X (Events \cup {"callback"})
    BY <1>0, <1>9
  <2>2. EventsAreBound'
    BY <1>9 DEF Typed, EventsAreBound
  <2>3. delivery' \in [Deliveries -> Delivery] /\ DeliveriesAreBound'
    BY <1>9, DeliveryTyped DEF RefundVarsExcept
  <2>4. QED
    BY <1>0, <1>9, <2>1, <2>2, <2>3, CaptureTyped DEF RefundVarsExcept
<1>10. ASSUME NEW p \in Payments, VerifyCallback(p)
       PROVE  Typed'
  <2>1. payment[p].order # 0
    BY <1>10 DEF VerifyCallback, Captured, Typed, PaymentsAreBound
  <2>2. PICK x : x = <<p, "callback">>
    OBVIOUS
  <2>3. x \in Payments \X (Events \cup {"callback"}) /\ x[1] = p
    BY <2>2
  <2>4. QED
    BY <1>0, <1>9, <1>10, <2>1, <2>2, <2>3 DEF VerifyCallback, orderVars
<1>11. ASSUME NEW p \in Payments, ConfirmCallback(p)
       PROVE  Typed'
  <2>1. PICK x : x = <<p, "callback">>
    OBVIOUS
  <2>2. x \in verified /\ x[1] = p /\ verified' \subseteq verified
    BY <1>11, <2>1 DEF ConfirmCallback
  <2>3. payment[p].order \in Contributions
    BY <2>2, OrderTypes DEF Typed, EventsAreBound
  <2>4. row' \in [Contributions -> ContributionRow]
    BY <1>11, <2>3, CreditTyped DEF ConfirmCallback, ConfirmContribution, ConfirmRow, Successful
  <2>5. QED
    BY <1>9, <1>11, <2>2, <2>4 DEF ConfirmCallback, UnchangedButRow
<1>12. ASSUME NEW e \in Events, InspectCapture(e)
       PROVE  Typed'
  <2>1. event[e].payment \in Payments /\ payment[event[e].payment].order # 0
    BY <1>12, OrderTypes DEF InspectCapture, Typed, EventsAreBound
  <2>2. PICK x : x = <<event[e].payment, e>>
    OBVIOUS
  <2>3. x \in Payments \X (Events \cup {"callback"}) /\ payment[x[1]].order # 0
    BY <2>1, <2>2
  <2>4. QED
    BY <1>0, <1>9, <1>12, <2>2, <2>3 DEF InspectCapture, orderVars
<1>13. CASE VerificationStops
  <2>1. PICK x \in verified : verified' = verified \ {x}
    BY <1>13 DEF VerificationStops
  <2>2. QED
    BY <1>0, <1>9, <1>13, <2>1 DEF VerificationStops, orderVars
<1>14. ASSUME NEW v \in Deliveries, NEW e \in Events, RepeatedDelivery(v, e)
       PROVE  Typed'
  <2>1. /\ event[e].status # "none" /\ Deliver(v, "find", e, event[e].contribution)
        /\ UNCHANGED <<orderVars, payment, event, faults, refundVars>>
    BY <1>14 DEF RepeatedDelivery
  <2>2. /\ event' = [event EXCEPT ![e] = event[e]] /\ GrowsTo(event[e], event[e])
        /\ event[e].contribution \in Contributions \cup {0}
    BY <1>0, <2>1, EventFields
  <2>3. GoesOn(v, "find", e, event[e].contribution) /\ "find" \in Places
    BY <2>1 DEF GoesOn, Places
  <2>4. QED
    BY <1>0, <1>2, <2>1, <2>2, <2>3 DEF orderVars, refundVars
<1>15. QED
  BY <1>1, <1>3, <1>4, <1>5, <1>6, <1>7, <1>8, <1>10, <1>11, <1>12, <1>13, <1>14
     DEF CaptureStep

\* Refund work that is put down or goes on.
LEMMA DeskTyped ==
  ASSUME Typed, NEW d \in Desks, NEW k \in DeskRecords, Work(d, k),
         k.at \in {"observing", "observed", "reviewed", "rechecking", "rechecked"} =>
           k.event \in Events /\ event[k.event].identified,
         k.at \in {"orderReviewed", "orderRechecked"} => k.contribution \in Contributions,
         UNCHANGED <<request, untouched, paused, creator, handed, orders, payment>>,
         UNCHANGED <<event, delivery, verified, faults>>,
         row' \in [Contributions -> ContributionRow],
         observations' \in [Events -> Nat],
         resolved' \in [Payments -> Bodies \cup {"none"}],
         retired' \subseteq Contributions
  PROVE  Typed'
<1>1. desk \in [Desks -> DeskRecords]
  BY DEF Typed
<1>2. desk' \in [Desks -> DeskRecords] /\ \A f \in Desks : desk'[f] = IF f = d THEN k ELSE desk[f]
  BY <1>1 DEF Work
<1>3. DesksAreBound'
  BY <1>2 DEF Typed, DesksAreBound
<1>4. \A f \in Desks : /\ desk'[f].at \in DeskPlaces
                       /\ desk'[f].seen \in Seen /\ desk'[f].review \in Seen
  BY <1>2 DEF DeskRecords
<1>5. TypeOK'
  BY <1>4 DEF Typed, TypeOK, DeskPlaces
<1>6. CreatorsAreBound' /\ PaymentsAreBound' /\ EventsAreBound' /\ DeliveriesAreBound'
  BY DEF Typed, CreatorsAreBound, PaymentsAreBound, EventsAreBound, DeliveriesAreBound
<1>7. QED
  BY <1>2, <1>3, <1>5, <1>6 DEF Typed

\* What is seen of an identified event has the type of a sight.
LEMMA LocalTyped ==
  ASSUME Typed, NEW e \in Events, event[e].identified
  PROVE  \A s \in {"none", "created", "failed", "captured", "partial", "refunded"} :
           [Local(e) EXCEPT !.provider = s] \in Seen
<1>1. event[e] \in WebhookEvent /\ row \in [Contributions -> ContributionRow]
  BY DEF Typed, TypeOK
<1>2. OrderOf(e) \in Contributions
  BY OrderTypes
<1>3. row[OrderOf(e)] \in ContributionRow
  BY <1>1, <1>2
<1>4. /\ event[e].status \in {"none", "RECEIVED", "PROCESSED", "REVIEW_REQUIRED"}
      /\ event[e].contribution \in Contributions \cup {0}
      /\ row[OrderOf(e)].status \in {"none", "PENDING", "ABANDONED"} \cup Successful
      /\ row[OrderOf(e)].payment \in Payments \cup {NoPayment}
  BY <1>1, <1>3 DEF WebhookEvent, ContributionRow, Outcomes
<1>5. QED
  BY <1>4 DEF Local, NothingSeen, Seen

\* Refund work keeps every type.
LEMMA RefundStepTyped == Typed /\ RefundStep => Typed'
<1> SUFFICES ASSUME Typed, NEW d \in Desks,
                    \/ \E e \in Events : InspectRefund(d, e)
                    \/ \E c \in Contributions : InspectOrder(d, c)
                    \/ RecordObservation(d) \/ ReviewRefund(d) \/ ResolveRefund(d)
                    \/ RetireOrder(d) \/ DropReview(d)
             PROVE  Typed'
  BY DEF RefundStep
<1>0. /\ row \in [Contributions -> ContributionRow]
      /\ observations \in [Events -> Nat]
      /\ resolved \in [Payments -> Bodies \cup {"none"}]
      /\ retired \subseteq Contributions
      /\ desk[d] \in DeskRecords
      /\ \A e \in Events : event[e] \in WebhookEvent
  BY DEF Typed, TypeOK
<1>1. ASSUME NEW e \in Events, InspectRefund(d, e)
      PROVE  Typed'
  <2>1. event[e].identified
    BY <1>1 DEF InspectRefund, Bound
  <2>2. payment[event[e].payment].state
          \in {"none", "created", "failed", "captured", "partial", "refunded"}
    <3>1. event[e].payment \in Payments
      BY <2>1, OrderTypes DEF Typed, EventsAreBound
    <3>2. payment[event[e].payment] \in ProviderPayment
      BY <3>1 DEF Typed, TypeOK
    <3>3. QED
      BY <3>2 DEF ProviderPayment
  <2>3. PICK seen, place :
          /\ place \in {"observing", "rechecking"}
          /\ seen = [Local(e) EXCEPT !.provider = payment[event[e].payment].state]
          /\ Work(d, [desk[d] EXCEPT !.at = place, !.event = e, !.seen = seen])
    <3>1. PICK seen : seen = [Local(e) EXCEPT !.provider = payment[event[e].payment].state]
      OBVIOUS
    <3>2. PICK place : place = IF desk[d].at = "idle" THEN "observing" ELSE "rechecking"
      OBVIOUS
    <3>3. Work(d, [desk[d] EXCEPT !.at = place, !.event = e, !.seen = seen])
      BY <1>1, <3>1, <3>2 DEF InspectRefund, Work
    <3>4. QED
      BY <3>1, <3>2, <3>3
  <2>4. seen \in Seen
    BY <2>1, <2>2, <2>3, LocalTyped
  <2>5. PICK k : k = [desk[d] EXCEPT !.at = place, !.event = e, !.seen = seen]
    OBVIOUS
  <2>6. k \in DeskRecords /\ k.event = e /\ k.at = place
    BY <1>0, <2>3, <2>4, <2>5 DEF DeskRecords, DeskPlaces
  <2>7. QED
    BY <1>0, <1>1, <2>1, <2>3, <2>5, <2>6, DeskTyped DEF InspectRefund, DeskOnly, orderVars
<1>2. ASSUME NEW c \in Contributions, InspectOrder(d, c)
      PROVE  Typed'
  <2>1. row[c].status \in {"none", "PENDING", "ABANDONED"} \cup Successful
    BY <1>0 DEF ContributionRow
  <2>2. PICK place \in {"orderReviewed", "orderRechecked"} :
          Work(d, [NoWork EXCEPT !.at = place, !.contribution = c,
                     !.seen.row = row[c].status, !.payments = AttemptsOf(c)])
    BY <1>2 DEF InspectOrder
  <2>3. PICK k : k = [NoWork EXCEPT !.at = place, !.contribution = c,
                        !.seen.row = row[c].status, !.payments = AttemptsOf(c)]
    OBVIOUS
  <2>4. k \in DeskRecords /\ k.contribution = c /\ k.at = place
    <3>1. AttemptsOf(c) \in SUBSET Payments
      BY DEF AttemptsOf
    <3>2. [NothingSeen EXCEPT !.row = row[c].status] \in Seen
      BY <2>1 DEF NothingSeen, Seen
    <3>3. QED
      BY <2>3, <3>1, <3>2, NothingTyped DEF NoWork, DeskRecords, DeskPlaces
  <2>5. QED
    BY <1>0, <1>2, <2>2, <2>3, <2>4, DeskTyped DEF InspectOrder, DeskOnly, orderVars
<1>3. ASSUME RecordObservation(d)
      PROVE  Typed'
  <2>1. PICK e : e = desk[d].event
    OBVIOUS
  <2>2. e \in Events /\ event[e].identified /\ observations[e] \in Nat
    BY <1>0, <1>3, <2>1 DEF RecordObservation, DeskAt, Typed, DesksAreBound
  <2>3. PICK place \in {"observed", "rechecked"}, clear \in BOOLEAN :
          Work(d, [desk[d] EXCEPT !.at = place, !.seen.clear = clear,
                                  !.number = observations[e] + 1])
    BY <1>3, <2>1 DEF RecordObservation, HasEntitlement
  <2>4. PICK k : k = [desk[d] EXCEPT !.at = place, !.seen.clear = clear,
                                     !.number = observations[e] + 1]
    OBVIOUS
  <2>5. k \in DeskRecords /\ k.event = e /\ k.at = place
    <3>1. desk[d].seen \in Seen
      BY <1>0 DEF DeskRecords
    <3>2. [desk[d].seen EXCEPT !.clear = clear] \in Seen
      BY <3>1 DEF Seen
    <3>3. PICK seen : seen = [desk[d].seen EXCEPT !.clear = clear]
      OBVIOUS
    <3>4. k = [desk[d] EXCEPT !.at = place, !.seen = seen, !.number = observations[e] + 1]
      BY <1>0, <2>4, <3>3 DEF DeskRecords
    <3>5. seen \in Seen /\ observations[e] + 1 \in Nat
      BY <2>2, <3>2, <3>3
    <3>6. QED
      BY <1>0, <2>1, <3>4, <3>5 DEF DeskRecords, DeskPlaces
  <2>6. observations' \in [Events -> Nat]
    <3>1. observations' = [observations EXCEPT ![e] = observations[e] + 1]
      BY <1>3, <2>1 DEF RecordObservation
    <3>2. QED
      BY <1>0, <2>2, <3>1
  <2>7. QED
    BY <1>0, <1>3, <2>2, <2>3, <2>4, <2>5, <2>6, DeskTyped
       DEF RecordObservation, DeskOnly, orderVars
<1>4. ASSUME ReviewRefund(d)
      PROVE  Typed'
  <2>1. PICK k : k = [desk[d] EXCEPT !.at = "reviewed", !.review = desk[d].seen]
    OBVIOUS
  <2>2. k \in DeskRecords /\ k.event = desk[d].event /\ k.at = "reviewed"
    BY <1>0, <2>1 DEF DeskRecords, DeskPlaces
  <2>3. desk[d].event \in Events /\ event[desk[d].event].identified
    BY <1>4 DEF ReviewRefund, DeskAt, Typed, DesksAreBound
  <2>4. QED
    BY <1>0, <1>4, <2>1, <2>2, <2>3, DeskTyped DEF ReviewRefund, DeskOnly, orderVars
<1>5. ASSUME ResolveRefund(d)
      PROVE  Typed'
  <2>1. PICK e : e = desk[d].event
    OBVIOUS
  <2>2. e \in Events /\ event[e].identified
    BY <1>5, <2>1 DEF ResolveRefund, DeskAt, Typed, DesksAreBound
  <2>3. event[e].body \in Bodies \cup {"none"}
    BY <1>0, <2>2 DEF WebhookEvent
  <2>4. resolved' = [resolved EXCEPT ![event[e].payment] = event[e].body]
    BY <1>5, <2>1 DEF ResolveRefund
  <2>5. resolved' \in [Payments -> Bodies \cup {"none"}]
    BY <1>0, <2>3, <2>4
  <2>6. NoWork.at = "idle" /\ NoWork \in DeskRecords
    BY NothingTyped DEF NoWork
  <2>7. QED
    BY <1>0, <1>5, <2>5, <2>6, DeskTyped DEF ResolveRefund, DeskOnly, orderVars
<1>6. ASSUME RetireOrder(d)
      PROVE  Typed'
  <2>1. PICK c : c = desk[d].contribution
    OBVIOUS
  <2>2. c \in Contributions
    BY <1>6, <2>1 DEF RetireOrder, DeskAt, Typed, DesksAreBound
  <2>3. [row[c] EXCEPT !.status = "ABANDONED"] \in ContributionRow
    BY <1>0, <2>2, RowFields
  <2>4. row' \in [Contributions -> ContributionRow] /\ retired' \subseteq Contributions
    BY <1>0, <1>6, <2>1, <2>2, <2>3 DEF RetireOrder
  <2>5. NoWork.at = "idle" /\ NoWork \in DeskRecords
    BY NothingTyped DEF NoWork
  <2>6. QED
    BY <1>0, <1>6, <2>4, <2>5, DeskTyped DEF RetireOrder, UnchangedButRow
<1>7. ASSUME DropReview(d)
      PROVE  Typed'
  <2>1. NoWork.at = "idle" /\ NoWork \in DeskRecords
    BY NothingTyped DEF NoWork
  <2>2. QED
    BY <1>0, <1>7, <2>1, DeskTyped DEF DropReview, DeskOnly, orderVars
<1>8. QED
  BY <1>1, <1>2, <1>3, <1>4, <1>5, <1>6, <1>7

\* Nothing changes.
LEMMA StutterTyped == Typed /\ UNCHANGED vars => Typed'
  BY DEF Typed, TypeOK, CreatorsAreBound, PaymentsAreBound, EventsAreBound,
         DeliveriesAreBound, DesksAreBound, vars

\* Every step keeps every type.
LEMMA StepTyped == Typed /\ [Next]_vars => Typed'
  BY OrderStepTyped, CaptureStepTyped, RefundStepTyped, StutterTyped DEF Next

\* The agreement is well typed for every number of checkouts, requests and payments.
LEMMA AlwaysTyped == Spec => []Typed
  BY InitTyped, StepTyped, PTL DEF Spec

-----------------------------------------------------------------------------
(* One outstanding checkout: rows, requests and orders. *)

\* A row that does not exist is empty; what was not paid has no payment; a
\* request waits for the order of a pending row, and an order has its request.
RowsAreSound ==
  \A c \in Contributions :
    /\ row[c].status = "none" => row[c] = NoRow /\ request[c] = "none"
    /\ row[c].status \notin Successful => row[c].payment = NoPayment
    /\ row[c].status = "PENDING" => row[c].channel = "RAZORPAY"
    /\ row[c].status = "ABANDONED" => c \in untouched \cup retired
    /\ request[c] = "unbound" => ~row[c].ordered /\ row[c].status = "PENDING"
    /\ request[c] \in {"answered", "recovered"} <=> row[c].ordered

OnePending ==
  \A c, d \in Contributions : row[c].status = "PENDING" /\ row[d].status = "PENDING" => c = d

\* Only the session that made the request unbound calls the provider, and only
\* before there is an order.
CallsAreSingle ==
  /\ \A c \in Contributions : orders[c] \in {0, 1} /\ (request[c] = "none" => orders[c] = 0)
  /\ \A w \in Creators :
       /\ creator[w].at = "call" =>
            request[creator[w].contribution] = "unbound" /\ orders[creator[w].contribution] = 0
       /\ creator[w].at = "bind" => orders[creator[w].contribution] = 1
       /\ creator[w].at = "admit" => row[creator[w].contribution].ordered
  /\ \A w, v \in Creators :
       creator[w].at = "call" /\ creator[v].at = "call"
         /\ creator[w].contribution = creator[v].contribution => w = v

\* An event knows no row or its order's; its attempts stand whatever a failure
\* writes over its status, a processed one was credited, one for review is about
\* an identified payment, and nothing was answered without an attempt.
EventSound(e) ==
  /\ event[e].contribution # 0 => event[e].contribution = OrderOf(e)
  /\ event[e].status \in Outcomes => event[e].status \in event[e].attempts
  /\ "PROCESSED" \in event[e].attempts => Confirmed(OrderOf(e), event[e].payment)
  /\ "REVIEW_REQUIRED" \in event[e].attempts => event[e].identified
  /\ event[e].answered => event[e].attempts # {}

\* A running delivery knows no row or its order's, which it must know to
\* confirm, and it finishes a row that is credited.
DeliverySound(v) ==
  LET e == delivery[v].event
      c == delivery[v].contribution
  IN delivery[v].at # "idle" =>
       /\ c # 0 => c = OrderOf(e)
       /\ delivery[v].at \in {"confirm", "finish"} => c = OrderOf(e)
       /\ delivery[v].at = "finish" => Confirmed(OrderOf(e), event[e].payment)

EventsAreSound ==
  /\ \A p \in Payments : payment[p].order # 0 => payment[p].state # "none"
  /\ \A e \in Events : EventSound(e)
  /\ \A v \in Deliveries : DeliverySound(v)

OptionalInv ==
  Typed /\ RowsAreSound /\ OnePending /\ CallsAreSingle /\ EventsAreSound

\* A row is credited with a payment by this step or was so before.
Credited(c, p) == row'[c].status \in Successful /\ row'[c].payment = p

\* What no step takes back: an order, a credit and an abandonment; a credit is
\* given to a pending row, for a payment that was not resolved.
RowsAreKept ==
  \A c \in Contributions :
    /\ row[c].ordered => row'[c].ordered
    /\ row[c].status \in Successful =>
         row'[c].status \in Successful /\ row'[c].payment = row[c].payment
    /\ row[c].status = "ABANDONED" => row'[c].status = "ABANDONED"
    /\ row'[c].payment # row[c].payment =>
         row'[c].payment \in Payments /\ resolved[row'[c].payment] = "none"

\* What a step does to the rows and their requests: a request begins, a row is
\* inserted, an order is bound, a checkout expires, an order is left, a pending
\* row is credited, a credit is settled.
Becomes(c, status, ordered, paid) ==
  /\ \A d \in Contributions \ {c} : row'[d] = row[d]
  /\ row'[c].channel = row[c].channel /\ row'[c].status = status
  /\ row'[c].ordered = ordered /\ row'[c].payment = paid

BeginMove(c) ==
  /\ UNCHANGED row
  /\ row[c].status = "PENDING" /\ ~row[c].ordered
  /\ request[c] = "none" /\ request' = [request EXCEPT ![c] = "unbound"]
InsertMove(c) ==
  /\ row[c].status = "none" /\ UNCHANGED request
  /\ \A d \in Contributions \ {c} : row'[d] = row[d]
  /\ row'[c].payment = NoPayment /\ ~row'[c].ordered
  /\ \/ row'[c].status = "PENDING" /\ row'[c].channel = "RAZORPAY"
        /\ \A d \in Contributions : row[d].status # "PENDING"
     \/ row'[c].status \in Successful
OrderMove(c) ==
  /\ request[c] = "unbound" /\ row[c].status = "PENDING"
  /\ Becomes(c, row[c].status, TRUE, row[c].payment)
  /\ \E s \in {"answered", "recovered"} : request' = [request EXCEPT ![c] = s]
ExpireMove(c) ==
  /\ row[c].status = "PENDING" /\ UNCHANGED request
  /\ Becomes(c, row[c].status, row[c].ordered, row[c].payment)
LeaveMove(c) ==
  /\ row[c].status \in {"PENDING", "ABANDONED"} /\ row[c].ordered /\ UNCHANGED request
  /\ Becomes(c, "ABANDONED", row[c].ordered, row[c].payment)
  /\ c \in untouched' \cup retired'
PayMove(c) ==
  /\ row[c].status = "PENDING" /\ row[c].ordered /\ UNCHANGED request
  /\ \E p \in Payments, s \in Successful :
       resolved[p] = "none" /\ Becomes(c, s, row[c].ordered, p)
SettleMove(c) ==
  /\ row[c].status \in Successful /\ UNCHANGED request
  /\ \E s \in Successful : Becomes(c, s, row[c].ordered, row[c].payment)

RowMove ==
  /\ untouched \subseteq untouched' /\ retired \subseteq retired'
  /\ \/ UNCHANGED <<row, request>>
     \/ \E c \in Contributions :
          \/ BeginMove(c) \/ InsertMove(c) \/ OrderMove(c) \/ ExpireMove(c)
          \/ LeaveMove(c) \/ PayMove(c) \/ SettleMove(c)

\* One row's update.
LEMMA RowUpdates ==
  ASSUME Typed, NEW c \in Contributions
  PROVE  /\ \A s : row' = [row EXCEPT ![c].status = s] =>
                     Becomes(c, s, row[c].ordered, row[c].payment)
         /\ \A s, p : row' = [row EXCEPT ![c].status = s, ![c].payment = p] =>
                        Becomes(c, s, row[c].ordered, p)
         /\ row' = [row EXCEPT ![c].ordered = TRUE] =>
              Becomes(c, row[c].status, TRUE, row[c].payment)
         /\ row' = [row EXCEPT ![c].expired = TRUE] =>
              Becomes(c, row[c].status, row[c].ordered, row[c].payment)
<1>1. row \in [Contributions -> ContributionRow] /\ row[c] \in ContributionRow
  BY DEF Typed, TypeOK
<1>2. QED
  BY <1>1 DEF Becomes, ContributionRow

\* Where a delivery confirms or finishes, its row and its payment are known.
LEMMA ConfirmTypes ==
  ASSUME Typed, EventsAreSound, NEW v \in Deliveries, delivery[v].at \in {"confirm", "finish"}
  PROVE  LET e == delivery[v].event IN
           /\ e \in Events /\ event[e].status # "none" /\ event[e].payment \in Payments
           /\ delivery[v].contribution = OrderOf(e) /\ OrderOf(e) \in Contributions
           /\ delivery[v].at = "finish" => Confirmed(OrderOf(e), event[e].payment)
  BY RunningDelivery DEF EventsAreSound, DeliverySound

\* The checkouts move one row at most.
LEMMA OrderMoves == OptionalInv /\ OrderStep => RowMove
<1> SUFFICES ASSUME OptionalInv, OrderStep PROVE RowMove
  OBVIOUS
<1>0. Typed /\ RowsAreSound
  BY DEF OptionalInv
<1>1. ASSUME NEW w \in Creators, InitiateContribution(w)
      PROVE  RowMove
  <2>1. CASE UNCHANGED row
    BY <1>1, <2>1 DEF InitiateContribution, RowMove, creditVars
  <2>2. ASSUME NEW c \in Contributions, Pending = {}, NewContribution(c),
               row' = [row EXCEPT ![c] = [NoRow EXCEPT !.channel = "RAZORPAY",
                                            !.status = "PENDING"]]
        PROVE  RowMove
    <3>1. row[c].status = "none" /\ \A d \in Contributions : row[d].status # "PENDING"
      BY <1>0, <2>2 DEF NewContribution, Rows, Pending, Online, RowsAreSound
    <3>2. /\ \A d \in Contributions \ {c} : row'[d] = row[d]
          /\ row'[c].payment = NoPayment /\ ~row'[c].ordered
          /\ row'[c].status = "PENDING" /\ row'[c].channel = "RAZORPAY"
      BY <1>0, <2>2 DEF NoRow, Typed, TypeOK
    <3>3. InsertMove(c)
      BY <1>1, <3>1, <3>2 DEF InsertMove, InitiateContribution
    <3>4. QED
      BY <1>1, <3>3 DEF RowMove, InitiateContribution, creditVars
  <2>3. QED
    BY <1>1, <2>1, <2>2 DEF InitiateContribution
<1>2. ASSUME NEW w \in Creators, BeginOrderRequest(w)
      PROVE  RowMove
  <2>1. PICK c \in Contributions : c = creator[w].contribution
    BY <1>0, <1>2 DEF BeginOrderRequest, CreatorAt, Typed, CreatorsAreBound
  <2>2. CASE row[c].ordered
    BY <1>2, <2>1, <2>2 DEF BeginOrderRequest, RowMove, creditVars
  <2>3. CASE ~row[c].ordered
    <3>1. request[c] = "none" /\ row[c].status = "PENDING"
      BY <1>2, <2>1, <2>3 DEF BeginOrderRequest, Admitted, Resumable, Pending
    <3>2. BeginMove(c)
      BY <1>2, <2>1, <2>3, <3>1 DEF BeginOrderRequest, BeginMove
    <3>3. QED
      BY <1>2, <3>2 DEF BeginOrderRequest, RowMove, creditVars
  <2>4. QED
    BY <2>2, <2>3
<1>3. ASSUME NEW w \in Creators, CallProvider(w) \/ HandCheckout(w) \/ CreatorStops(w)
      PROVE  RowMove
  BY <1>3 DEF CallProvider, HandCheckout, CreatorStops, RowMove, creditVars
<1>4. ASSUME NEW w \in Creators, BindResponse(w)
      PROVE  RowMove
  <2>1. PICK c \in Contributions : c = creator[w].contribution
    BY <1>0, <1>4 DEF BindResponse, CreatorAt, Typed, CreatorsAreBound
  <2>2. OrderMove(c)
    BY <1>0, <1>4, <2>1, RowUpdates DEF BindResponse, OrderMove
  <2>3. QED
    BY <1>4, <2>2 DEF BindResponse, RowMove, creditVars
<1>5. ASSUME NEW c \in Contributions, RecoverOrder(c)
      PROVE  RowMove
  <2>1. OrderMove(c)
    BY <1>0, <1>5, RowUpdates DEF RecoverOrder, OrderMove
  <2>2. QED
    BY <1>5, <2>1 DEF RecoverOrder, RowMove, creditVars
<1>6. ASSUME NEW c \in Contributions, ExpireCheckout(c)
      PROVE  RowMove
  <2>1. ExpireMove(c)
    BY <1>0, <1>6, RowUpdates DEF ExpireCheckout, ExpireMove
  <2>2. QED
    BY <1>6, <2>1 DEF ExpireCheckout, RowMove, creditVars
<1>7. ASSUME NEW c \in Contributions, AbandonUntouched(c)
      PROVE  RowMove
  <2>1. LeaveMove(c)
    BY <1>0, <1>7, RowUpdates DEF AbandonUntouched, LeaveMove
  <2>2. QED
    BY <1>7, <2>1 DEF AbandonUntouched, RowMove, creditVars
<1>8. ASSUME NEW c \in Contributions, RecordCash(c)
      PROVE  RowMove
  <2>1. row[c].status = "none"
    BY <1>8 DEF RecordCash, NewContribution, Rows
  <2>2. /\ \A d \in Contributions \ {c} : row'[d] = row[d]
        /\ row'[c].payment = NoPayment /\ ~row'[c].ordered /\ row'[c].status \in Successful
    <3>1. PICK s \in Successful :
            row' = [row EXCEPT ![c] = [NoRow EXCEPT !.channel = "IN_STORE_CASH", !.status = s]]
      BY <1>8 DEF RecordCash
    <3>2. QED
      BY <1>0, <3>1 DEF NoRow, Typed, TypeOK
  <2>3. InsertMove(c)
    BY <1>8, <2>1, <2>2 DEF RecordCash, InsertMove
  <2>4. QED
    BY <1>8, <2>3 DEF RecordCash, RowMove, creditVars
<1>9. ASSUME NEW c \in Contributions, AllocateLater(c)
      PROVE  RowMove
  <2>1. SettleMove(c)
    BY <1>0, <1>9, RowUpdates DEF AllocateLater, SettleMove, Successful
  <2>2. QED
    BY <1>9, <2>1 DEF AllocateLater, RowMove, creditVars
<1>10. CASE TogglePause \/ ProviderMoves
  BY <1>10 DEF TogglePause, ProviderMoves, RowMove, creditVars, orderVars
<1>11. QED
  BY <1>1, <1>2, <1>3, <1>4, <1>5, <1>6, <1>7, <1>8, <1>9, <1>10 DEF OrderStep

\* A confirmation credits a pending row, and an entitlement settles a credit.
LEMMA CreditMoves ==
  ASSUME Typed, NEW c \in Contributions, NEW p \in Payments, UNCHANGED request,
         untouched \subseteq untouched', retired \subseteq retired',
         \/ ConfirmContribution(c, p)
         \/ Confirmed(c, p) /\ ApplyEntitlement(c)
         \/ /\ Confirmable(c, p)
            /\ \E s \in Successful : row' = [row EXCEPT ![c].status = s, ![c].payment = p]
  PROVE  RowMove
<1>1. CASE UNCHANGED row
  BY <1>1 DEF RowMove
<1>2. ASSUME Confirmable(c, p), NEW s \in Successful,
             row' = [row EXCEPT ![c].status = s, ![c].payment = p]
      PROVE  RowMove
  <2>1. PayMove(c)
    BY <1>2, RowUpdates DEF PayMove, Confirmable
  <2>2. QED
    BY <2>1 DEF RowMove
<1>3. ASSUME row[c].status \in Successful, NEW s \in Successful,
             row' = [row EXCEPT ![c].status = s]
      PROVE  RowMove
  <2>1. SettleMove(c)
    BY <1>3, RowUpdates DEF SettleMove
  <2>2. QED
    BY <2>1 DEF RowMove
<1>4. "PAID_UNALLOCATED" \in Successful
  BY DEF Successful
<1>5. QED
  BY <1>1, <1>2, <1>3, <1>4 DEF ConfirmContribution, ConfirmRow, ApplyEntitlement, Confirmed

\* Captures move one row at most, to a credit.
LEMMA CaptureMoves == OptionalInv /\ CaptureStep => RowMove
<1> SUFFICES ASSUME OptionalInv, CaptureStep PROVE RowMove
  OBVIOUS
<1>0. Typed /\ EventsAreSound
  BY DEF OptionalInv
<1>1. ASSUME NEW v \in Deliveries, ConfirmCapture(v)
      PROVE  RowMove
  <2>1. PICK e, c, p : e = delivery[v].event /\ c = delivery[v].contribution
                       /\ p = event[e].payment
    OBVIOUS
  <2>2. c \in Contributions /\ p \in Payments
    BY <1>0, <1>1, <2>1, ConfirmTypes DEF ConfirmCapture, DeliveryAt
  <2>3. ConfirmContribution(c, p) \/ UNCHANGED row
    BY <1>1, <2>1 DEF ConfirmCapture
  <2>4. UNCHANGED <<request, untouched, retired>>
    BY <1>1 DEF ConfirmCapture, UnchangedButRow, refundVars
  <2>5. QED
    BY <1>0, <2>2, <2>3, <2>4, CreditMoves DEF RowMove
<1>2. ASSUME NEW v \in Deliveries, FinishCapture(v)
      PROVE  RowMove
  <2>1. PICK e, c, p : e = delivery[v].event /\ c = delivery[v].contribution
                       /\ p = event[e].payment
    OBVIOUS
  <2>2. c \in Contributions /\ p \in Payments /\ Confirmed(c, p)
    BY <1>0, <1>2, <2>1, ConfirmTypes DEF FinishCapture, DeliveryAt
  <2>3. ApplyEntitlement(c)
    BY <1>2, <2>1 DEF FinishCapture
  <2>4. UNCHANGED <<request, untouched, retired>>
    BY <1>2 DEF FinishCapture, UnchangedButRow, refundVars
  <2>5. QED
    BY <1>0, <2>2, <2>3, <2>4, CreditMoves
<1>3. ASSUME NEW e \in Events, RecoverCapture(e)
      PROVE  RowMove
  <2>1. PICK c, p : c = OrderOf(e) /\ p = event[e].payment
    OBVIOUS
  <2>2. p \in Payments /\ c \in Contributions
    <3>1. <<p, e>> \in verified /\ verified \subseteq Payments \X (Events \cup {"callback"})
      BY <1>0, <1>3, <2>1 DEF RecoverCapture, Typed, TypeOK
    <3>2. event[e].status # "none"
      BY <1>0, <2>1, <3>1, OptionalAssumption DEF Typed, EventsAreBound, Unheard
    <3>3. QED
      BY <1>0, <2>1, <3>1, <3>2, OrderTypes
  <2>3. QED
    BY <1>0, <1>3, <2>1, <2>2, CreditMoves
       DEF RecoverCapture, UnchangedButRow, RefundVarsExcept
<1>4. ASSUME NEW p \in Payments, ConfirmCallback(p)
      PROVE  RowMove
  <2>1. payment[p].order \in Contributions
    BY <1>0, <1>4, OrderTypes DEF ConfirmCallback, Typed, EventsAreBound
  <2>2. QED
    BY <1>0, <1>4, <2>1, CreditMoves DEF ConfirmCallback, UnchangedButRow, RefundVarsExcept
<1>5. ASSUME NEW v \in Deliveries, NEW e \in Events,
             FirstDelivery(v, e) \/ RepeatedDelivery(v, e)
      PROVE  RowMove
  BY <1>5 DEF FirstDelivery, RepeatedDelivery, RowMove, orderVars, refundVars
<1>6. ASSUME VerificationStops \/ \E p \in Payments : VerifyCallback(p)
      PROVE  RowMove
  BY <1>6 DEF VerificationStops, VerifyCallback, RowMove, orderVars, RefundVarsExcept
<1>7. ASSUME NEW v \in Deliveries,
             FindContribution(v) \/ RequireReview(v) \/ DeliveryFails(v) \/ DeliveryDies(v)
      PROVE  RowMove
  BY <1>7 DEF FindContribution, RequireReview, DeliveryFails, DeliveryDies, RowMove,
              orderVars, refundVars
<1>8. ASSUME NEW e \in Events, FinalDelivery(e) \/ InspectCapture(e)
      PROVE  RowMove
  BY <1>8 DEF FinalDelivery, InspectCapture, RowMove, orderVars, creditVars, RefundVarsExcept
<1>9. QED
  BY <1>1, <1>2, <1>3, <1>4, <1>5, <1>6, <1>7, <1>8 DEF CaptureStep

\* Refund work leaves one row at most: the one whose order it retires.
LEMMA RefundMoves == OptionalInv /\ RefundStep => RowMove
<1> SUFFICES ASSUME OptionalInv, NEW d \in Desks,
                    \/ \E e \in Events : InspectRefund(d, e)
                    \/ \E c \in Contributions : InspectOrder(d, c)
                    \/ RecordObservation(d) \/ ReviewRefund(d) \/ ResolveRefund(d)
                    \/ RetireOrder(d) \/ DropReview(d)
             PROVE  RowMove
  BY DEF RefundStep
<1>0. Typed
  BY DEF OptionalInv
<1>1. CASE RetireOrder(d)
  <2>1. PICK c : c = desk[d].contribution
    OBVIOUS
  <2>2. c \in Contributions
    BY <1>0, <1>1, <2>1 DEF RetireOrder, DeskAt, Typed, DesksAreBound
  <2>3. LeaveMove(c)
    BY <1>0, <1>1, <2>1, <2>2, RowUpdates
       DEF RetireOrder, NeverCredited, LeaveMove, UnchangedButRow
  <2>4. QED
    BY <1>1, <2>1, <2>2, <2>3 DEF RetireOrder, RowMove, UnchangedButRow
<1>2. CASE ~RetireOrder(d)
  <2>1. DeskOnly /\ UNCHANGED retired
    BY <1>2 DEF InspectRefund, InspectOrder, RecordObservation, ReviewRefund, ResolveRefund,
                DropReview
  <2>2. QED
    BY <2>1 DEF DeskOnly, RowMove, orderVars
<1>3. QED
  BY <1>1, <1>2

\* Every step moves one row at most.
LEMMA StepMoves == OptionalInv /\ [Next]_vars => RowMove
<1> SUFFICES ASSUME OptionalInv, [Next]_vars PROVE RowMove
  OBVIOUS
<1>1. CASE UNCHANGED vars
  BY <1>1 DEF vars, RowMove
<1>2. QED
  BY <1>1, OrderMoves, CaptureMoves, RefundMoves DEF Next
-----------------------------------------------------------------------------
(* The moves keep the rows sound. *)

\* Nothing that was ordered, credited or abandoned is taken back.
LEMMA MovesKeepRows == OptionalInv /\ RowMove => RowsAreKept
<1> SUFFICES ASSUME OptionalInv, RowMove, NEW d \in Contributions
             PROVE  /\ row[d].ordered => row'[d].ordered
                    /\ row[d].status \in Successful =>
                         row'[d].status \in Successful /\ row'[d].payment = row[d].payment
                    /\ row[d].status = "ABANDONED" => row'[d].status = "ABANDONED"
                    /\ row'[d].payment # row[d].payment =>
                         row'[d].payment \in Payments /\ resolved[row'[d].payment] = "none"
  BY DEF RowsAreKept
<1>1. /\ row[d].status = "none" => row[d] = NoRow
      /\ "PENDING" \notin Successful /\ "ABANDONED" \notin Successful /\ "none" \notin Successful
  BY DEF OptionalInv, RowsAreSound, Successful
<1>2. NoRow.ordered = FALSE /\ NoRow.payment = NoPayment
  BY DEF NoRow
<1>3. CASE row'[d] = row[d]
  BY <1>3
<1>4. ASSUME InsertMove(d)
      PROVE  /\ row[d].status = "none" /\ ~row[d].ordered
             /\ row[d].payment = NoPayment /\ row'[d].payment = NoPayment
  BY <1>1, <1>2, <1>4 DEF InsertMove
<1>5. ASSUME row'[d] # row[d]
      PROVE  \/ InsertMove(d) \/ OrderMove(d) \/ ExpireMove(d)
             \/ LeaveMove(d) \/ PayMove(d) \/ SettleMove(d)
  BY <1>5 DEF RowMove, BeginMove, InsertMove, OrderMove, ExpireMove, LeaveMove, PayMove,
              SettleMove, Becomes
<1>6. QED
  BY <1>1, <1>3, <1>4, <1>5
     DEF OrderMove, ExpireMove, LeaveMove, PayMove, SettleMove, Becomes

\* Every row stays sound.
LEMMA MovesKeepSound == OptionalInv /\ RowMove => RowsAreSound'
<1> SUFFICES ASSUME OptionalInv, RowMove, NEW d \in Contributions
             PROVE  /\ row'[d].status = "none" => row'[d] = NoRow /\ request'[d] = "none"
                    /\ row'[d].status \notin Successful => row'[d].payment = NoPayment
                    /\ row'[d].status = "PENDING" => row'[d].channel = "RAZORPAY"
                    /\ row'[d].status = "ABANDONED" => d \in untouched' \cup retired'
                    /\ request'[d] = "unbound" => ~row'[d].ordered /\ row'[d].status = "PENDING"
                    /\ request'[d] \in {"answered", "recovered"} <=> row'[d].ordered
  BY DEF RowsAreSound
<1>1. /\ row[d].status = "none" => row[d] = NoRow /\ request[d] = "none"
      /\ row[d].status \notin Successful => row[d].payment = NoPayment
      /\ row[d].status = "PENDING" => row[d].channel = "RAZORPAY"
      /\ row[d].status = "ABANDONED" => d \in untouched \cup retired
      /\ request[d] = "unbound" => ~row[d].ordered /\ row[d].status = "PENDING"
      /\ request[d] \in {"answered", "recovered"} <=> row[d].ordered
  BY DEF OptionalInv, RowsAreSound
<1>2. /\ request \in [Contributions -> OrderRequest]
      /\ untouched \subseteq untouched' /\ retired \subseteq retired'
      /\ "PAID" \in Successful /\ "PENDING" \notin Successful /\ "ABANDONED" \notin Successful
      /\ "none" \notin Successful
      /\ NoRow.status = "none" /\ NoRow.ordered = FALSE
  BY DEF OptionalInv, Typed, TypeOK, RowMove, Successful, NoRow
<1>3. CASE row'[d] = row[d] /\ request'[d] = request[d]
  BY <1>1, <1>2, <1>3
<1>4. CASE row'[d] # row[d] \/ request'[d] # request[d]
  <2>1. \/ BeginMove(d) \/ InsertMove(d) \/ OrderMove(d) \/ ExpireMove(d)
        \/ LeaveMove(d) \/ PayMove(d) \/ SettleMove(d)
    BY <1>2, <1>4 DEF RowMove, BeginMove, InsertMove, OrderMove, ExpireMove, LeaveMove,
                      PayMove, SettleMove, Becomes
  <2>2. CASE BeginMove(d)
    BY <1>1, <1>2, <2>2 DEF BeginMove
  <2>3. CASE InsertMove(d)
    BY <1>1, <1>2, <2>3 DEF InsertMove
  <2>4. CASE OrderMove(d)
    BY <1>1, <1>2, <2>4 DEF OrderMove, Becomes
  <2>5. CASE ExpireMove(d)
    BY <1>1, <1>2, <2>5 DEF ExpireMove, Becomes
  <2>6. CASE LeaveMove(d)
    <3>1. row[d].payment = NoPayment
      BY <1>1, <1>2, <2>6 DEF LeaveMove
    <3>2. QED
      BY <1>1, <1>2, <2>6, <3>1 DEF LeaveMove, Becomes
  <2>7. CASE PayMove(d)
    BY <1>1, <1>2, <2>7 DEF PayMove, Becomes
  <2>8. CASE SettleMove(d)
    BY <1>1, <1>2, <2>8 DEF SettleMove, Becomes
  <2>9. QED
    BY <2>1, <2>2, <2>3, <2>4, <2>5, <2>6, <2>7, <2>8
<1>5. QED
  BY <1>3, <1>4

\* There is one pending row at most: a row is inserted only when there is none.
LEMMA MovesKeepOnePending == OptionalInv /\ RowMove => OnePending'
<1> SUFFICES ASSUME OptionalInv, RowMove, NEW c \in Contributions, NEW d \in Contributions,
                    row'[c].status = "PENDING", row'[d].status = "PENDING"
             PROVE  c = d
  BY DEF OnePending
<1>0. "PENDING" \notin Successful
  BY DEF Successful
<1>1. \A f \in Contributions :
        row'[f].status = "PENDING" => row[f].status = "PENDING" \/ InsertMove(f)
  BY <1>0 DEF RowMove, BeginMove, InsertMove, OrderMove, ExpireMove, LeaveMove, PayMove,
          SettleMove, Becomes
<1>2. ASSUME NEW f \in Contributions, InsertMove(f), row'[f].status = "PENDING",
             NEW g \in Contributions, row'[g].status = "PENDING"
      PROVE  f = g
  BY <1>0, <1>2 DEF InsertMove
<1>3. QED
  BY <1>1, <1>2 DEF OptionalInv, OnePending

-----------------------------------------------------------------------------
(* Requests, payments and events stay sound. *)

\* What the provider never takes back: the order of a payment, a failure and a
\* full refund; a paid order takes no other payment.
PaymentsAdvance ==
  \A p \in Payments :
    /\ payment[p].order # 0 => payment'[p].order = payment[p].order
    /\ payment[p].state \in {"failed", "refunded"} => payment'[p] = payment[p]
    /\ payment'[p].order # payment[p].order => ~PaidOrder(payment'[p].order)
    /\ payment'[p].order # 0 => payment'[p].state # "none"

\* Every step advances the payments.
LEMMA PaymentsMove == OptionalInv /\ [Next]_vars => PaymentsAdvance
<1> SUFFICES ASSUME OptionalInv, [Next]_vars PROVE PaymentsAdvance
  OBVIOUS
<1>0. /\ payment \in [Payments -> ProviderPayment]
      /\ \A p \in Payments : payment[p].order # 0 => payment[p].state # "none"
  BY DEF OptionalInv, EventsAreSound, Typed, TypeOK
<1>1. CASE UNCHANGED payment
  BY <1>0, <1>1 DEF PaymentsAdvance
<1>2. CASE ProviderMoves
  <2>1. PICK p \in Payments :
          \/ \E c \in Contributions :
               /\ payment[p].state = "none" /\ ~PaidOrder(c)
               /\ payment' = [payment EXCEPT ![p] = [order |-> c, state |-> "created"]]
          \/ \E s \in {"captured", "failed", "partial", "refunded"} :
               /\ payment[p].state \in {"created", "captured", "partial"}
               /\ payment' = [payment EXCEPT ![p].state = s]
    BY <1>2 DEF ProviderMoves
  <2>2. ASSUME NEW c \in Contributions, payment[p].state = "none", ~PaidOrder(c),
               payment' = [payment EXCEPT ![p] = [order |-> c, state |-> "created"]]
        PROVE  PaymentsAdvance
    <3>1. payment[p].order = 0
      BY <1>0, <2>2
    <3>2. payment'[p].order = c /\ payment'[p].state = "created"
      BY <1>0, <2>2
    <3>3. \A q \in Payments \ {p} : payment'[q] = payment[q]
      BY <1>0, <2>2
    <3>4. QED
      BY <1>0, <2>2, <3>1, <3>2, <3>3 DEF PaymentsAdvance
  <2>3. ASSUME NEW s \in {"captured", "failed", "partial", "refunded"},
               payment[p].state \in {"created", "captured", "partial"},
               payment' = [payment EXCEPT ![p].state = s]
        PROVE  PaymentsAdvance
    <3>1. payment'[p].order = payment[p].order /\ payment'[p].state = s
      BY <1>0, <2>3 DEF ProviderPayment
    <3>2. \A q \in Payments \ {p} : payment'[q] = payment[q]
      BY <1>0, <2>3
    <3>3. QED
      BY <1>0, <2>3, <3>1, <3>2 DEF PaymentsAdvance
  <2>4. QED
    BY <2>1, <2>2, <2>3
<1>3. CASE UNCHANGED vars
  BY <1>1, <1>3 DEF vars
<1>4. CASE CaptureStep
  BY <1>1, <1>4
     DEF CaptureStep, FirstDelivery, RepeatedDelivery, FindContribution, ConfirmCapture,
         FinishCapture, RequireReview, DeliveryFails, DeliveryDies, FinalDelivery,
         InspectCapture, RecoverCapture, VerifyCallback, ConfirmCallback, VerificationStops, UnchangedButRow
<1>5. CASE RefundStep
  BY <1>1, <1>5
     DEF RefundStep, InspectRefund, InspectOrder, RecordObservation, ReviewRefund,
         ResolveRefund, RetireOrder, DropReview, UnchangedButRow, DeskOnly
<1>6. CASE OrderStep
  BY <1>1, <1>2, <1>6
     DEF OrderStep, InitiateContribution, BeginOrderRequest, CallProvider, BindResponse,
         HandCheckout, CreatorStops, RecoverOrder, ExpireCheckout, AbandonUntouched,
         RecordCash, AllocateLater, TogglePause
<1>7. QED
  BY <1>3, <1>4, <1>5, <1>6 DEF Next

\* Captures and refund work leave requests and orders alone.
LEMMA OthersKeepRequests ==
  CaptureStep \/ RefundStep => UNCHANGED <<request, untouched, paused, creator, handed, orders>>
  BY DEF CaptureStep, FirstDelivery, RepeatedDelivery, FindContribution, ConfirmCapture,
         FinishCapture, RequireReview, DeliveryFails, DeliveryDies, FinalDelivery,
         InspectCapture, RecoverCapture, VerifyCallback, ConfirmCallback, VerificationStops,
         RefundStep, InspectRefund, InspectOrder, RecordObservation, ReviewRefund,
         ResolveRefund, RetireOrder, DropReview, UnchangedButRow, DeskOnly, orderVars

\* A request is sent to the provider once.
LEMMA StepKeepsCalls == OptionalInv /\ RowMove /\ [Next]_vars => CallsAreSingle'
<1> SUFFICES ASSUME OptionalInv, RowMove, [Next]_vars PROVE CallsAreSingle'
  OBVIOUS
<1>0. /\ creator \in [Creators -> [at : {"idle", "begin", "call", "bind", "admit"},
                                   contribution : Contributions \cup {0}]]
      /\ request \in [Contributions -> OrderRequest]
      /\ orders \in [Contributions -> Nat]
      /\ \A w \in Creators : creator[w].at # "idle" => creator[w].contribution \in Contributions
      /\ CallsAreSingle
  BY DEF OptionalInv, Typed, TypeOK, CreatorsAreBound
<1>1. \A c \in Contributions : row[c].ordered => row'[c].ordered
  BY MovesKeepRows DEF RowsAreKept
<1>2. ASSUME UNCHANGED <<request, orders>>,
             \A w \in Creators :
               creator'[w] = creator[w] \/ creator'[w].at \in {"idle", "begin"}
      PROVE  CallsAreSingle'
  <2>1. \A w \in Creators : creator'[w].at \in {"call", "bind", "admit"} => creator'[w] = creator[w]
    BY <1>2
  <2>2. \A w \in Creators : creator'[w].at = "admit" => row'[creator'[w].contribution].ordered
    BY <1>0, <1>1, <2>1 DEF CallsAreSingle
  <2>3. QED
    BY <1>0, <1>2, <2>1, <2>2 DEF CallsAreSingle
<1>3. ASSUME UNCHANGED <<request, creator, orders>>
      PROVE  CallsAreSingle'
  BY <1>2, <1>3
<1>4. ASSUME NEW w \in Creators, InitiateContribution(w) \/ HandCheckout(w) \/ CreatorStops(w)
      PROVE  CallsAreSingle'
  <2>1. \A v \in Creators : creator'[v] = creator[v] \/ creator'[v].at \in {"idle", "begin"}
    BY <1>0, <1>4 DEF InitiateContribution, HandCheckout, CreatorStops, Proceed, Rest
  <2>2. QED
    BY <1>2, <1>4, <2>1 DEF InitiateContribution, HandCheckout, CreatorStops
<1>5. ASSUME NEW w \in Creators, BeginOrderRequest(w)
      PROVE  CallsAreSingle'
  <2>1. PICK c \in Contributions : c = creator[w].contribution
    BY <1>0, <1>5 DEF BeginOrderRequest, CreatorAt
  <2>2. CASE row[c].ordered
    <3>1. UNCHANGED <<request, orders>> /\ Proceed(w, "admit", c) /\ row'[c].ordered
      BY <1>1, <1>5, <2>1, <2>2 DEF BeginOrderRequest
    <3>2. QED
      BY <1>0, <1>1, <3>1 DEF CallsAreSingle, Proceed
  <2>3. CASE ~row[c].ordered
    <3>1. /\ request[c] = "none" /\ request' = [request EXCEPT ![c] = "unbound"]
          /\ Proceed(w, "call", c) /\ UNCHANGED orders
      BY <1>5, <2>1, <2>3 DEF BeginOrderRequest, Admitted, Resumable
    <3>2. orders[c] = 0
      BY <1>0, <3>1 DEF CallsAreSingle
    <3>3. \A v \in Creators : creator[v].at = "call" => creator[v].contribution # c
      BY <1>0, <3>1 DEF CallsAreSingle
    <3>4. \A v \in Creators \ {w} : creator'[v] = creator[v]
      BY <1>0, <3>1 DEF Proceed
    <3>5. creator'[w].at = "call" /\ creator'[w].contribution = c
      BY <1>0, <3>1 DEF Proceed
    <3>6. QED
      BY <1>0, <1>1, <3>1, <3>2, <3>3, <3>4, <3>5 DEF CallsAreSingle
  <2>4. QED
    BY <2>2, <2>3
<1>6. ASSUME NEW w \in Creators, CallProvider(w)
      PROVE  CallsAreSingle'
  <2>1. PICK c \in Contributions : c = creator[w].contribution
    BY <1>0, <1>6 DEF CallProvider, CreatorAt
  <2>2. creator[w].at = "call" /\ request[c] = "unbound" /\ orders[c] = 0 /\ UNCHANGED request
    BY <1>0, <1>6, <2>1 DEF CallProvider, CreatorAt, CallsAreSingle
  <2>3. CASE UNCHANGED orders /\ Rest(w)
    <3>1. \A v \in Creators : creator'[v] = creator[v] \/ creator'[v].at \in {"idle", "begin"}
      BY <1>0, <2>3 DEF Proceed, Rest
    <3>2. QED
      BY <1>2, <2>2, <2>3, <3>1
  <2>4. CASE orders' = [orders EXCEPT ![c] = @ + 1] /\ (Proceed(w, "bind", c) \/ Rest(w))
    <3>1. orders'[c] = 1 /\ \A d \in Contributions \ {c} : orders'[d] = orders[d]
      BY <1>0, <2>2, <2>4
    <3>2. \A v \in Creators \ {w} : creator'[v] = creator[v]
      BY <1>0, <2>4 DEF Proceed, Rest
    <3>3. \/ creator'[w].at = "idle"
          \/ (creator'[w].at = "bind" /\ creator'[w].contribution = c)
      BY <1>0, <2>4 DEF Proceed, Rest
    <3>4. \A v \in Creators \ {w} : creator[v].at \in {"call", "bind"} => creator[v].contribution # c
      BY <1>0, <2>1, <2>2 DEF CallsAreSingle
    <3>5. \A d \in Contributions : orders'[d] \in {0, 1} /\ (request'[d] = "none" => orders'[d] = 0)
      BY <1>0, <2>2, <3>1 DEF CallsAreSingle
    <3>6. \A v \in Creators :
            /\ creator'[v].at = "call" =>
                 /\ request'[creator'[v].contribution] = "unbound"
                 /\ orders'[creator'[v].contribution] = 0
            /\ creator'[v].at = "bind" => orders'[creator'[v].contribution] = 1
            /\ creator'[v].at = "admit" => row'[creator'[v].contribution].ordered
      <4>1. ASSUME NEW v \in Creators \ {w}
            PROVE  /\ creator'[v].at = "call" =>
                        /\ request'[creator'[v].contribution] = "unbound"
                        /\ orders'[creator'[v].contribution] = 0
                   /\ creator'[v].at = "bind" => orders'[creator'[v].contribution] = 1
                   /\ creator'[v].at = "admit" => row'[creator'[v].contribution].ordered
        BY <1>0, <1>1, <2>2, <3>1, <3>2, <3>4 DEF CallsAreSingle
      <4>2. QED
        BY <3>1, <3>3, <4>1
    <3>7. \A u, v \in Creators :
            creator'[u].at = "call" /\ creator'[v].at = "call"
              /\ creator'[u].contribution = creator'[v].contribution => u = v
      <4>1. \A u \in Creators : creator'[u].at = "call" => u # w /\ creator'[u] = creator[u]
        BY <3>2, <3>3
      <4>2. QED
        BY <1>0, <4>1 DEF CallsAreSingle
    <3>8. QED
      BY <3>5, <3>6, <3>7 DEF CallsAreSingle
  <2>5. QED
    BY <1>6, <2>1, <2>3, <2>4 DEF CallProvider
<1>7. ASSUME NEW w \in Creators, BindResponse(w)
      PROVE  CallsAreSingle'
  <2>1. PICK c \in Contributions : c = creator[w].contribution
    BY <1>0, <1>7 DEF BindResponse, CreatorAt
  <2>2. /\ orders[c] = 1 /\ UNCHANGED orders
        /\ request' = [request EXCEPT ![c] = "answered"] /\ Proceed(w, "admit", c)
        /\ row' = [row EXCEPT ![c].ordered = TRUE]
    BY <1>0, <1>7, <2>1 DEF BindResponse, CreatorAt, CallsAreSingle
  <2>3. row'[c].ordered
    BY <2>2, RowUpdates DEF OptionalInv, Becomes
  <2>4. \A v \in Creators : creator[v].at = "call" => creator[v].contribution # c
    BY <1>0, <2>2 DEF CallsAreSingle
  <2>5. \A v \in Creators \ {w} : creator'[v] = creator[v]
    BY <1>0, <2>2 DEF Proceed
  <2>6. creator'[w].at = "admit" /\ creator'[w].contribution = c
    BY <1>0, <2>2 DEF Proceed
  <2>7. QED
    BY <1>0, <1>1, <2>2, <2>3, <2>4, <2>5, <2>6 DEF CallsAreSingle
<1>8. ASSUME NEW c \in Contributions, RecoverOrder(c)
      PROVE  CallsAreSingle'
  <2>1. /\ orders[c] > 0 /\ UNCHANGED <<creator, orders>>
        /\ request' = [request EXCEPT ![c] = "recovered"]
    BY <1>8 DEF RecoverOrder
  <2>2. \A v \in Creators : creator[v].at = "call" => creator[v].contribution # c
    BY <1>0, <2>1 DEF CallsAreSingle
  <2>3. QED
    BY <1>0, <1>1, <2>1, <2>2 DEF CallsAreSingle
<1>9. ASSUME NEW c \in Contributions,
             ExpireCheckout(c) \/ AbandonUntouched(c) \/ RecordCash(c) \/ AllocateLater(c)
      PROVE  CallsAreSingle'
  BY <1>3, <1>9 DEF ExpireCheckout, AbandonUntouched, RecordCash, AllocateLater
<1>10. CASE TogglePause \/ ProviderMoves \/ UNCHANGED vars
  BY <1>3, <1>10 DEF TogglePause, ProviderMoves, orderVars, vars
<1>11. CASE CaptureStep \/ RefundStep
  BY <1>3, <1>11, OthersKeepRequests
<1>12. QED
  BY <1>4, <1>5, <1>6, <1>7, <1>8, <1>9, <1>10, <1>11 DEF Next, OrderStep

\* What is kept for every stored event.
LEMMA EventKept ==
  ASSUME OptionalInv, RowsAreKept, PaymentsAdvance, NEW e \in Events,
         event[e].status # "none", event'[e].payment = event[e].payment
  PROVE  /\ event[e].payment \in Payments /\ OrderOf(e)' = OrderOf(e)
         /\ OrderOf(e) \in Contributions /\ OrderOf(e) # 0
         /\ \A c \in Contributions, p \in Payments : Confirmed(c, p) => Credited(c, p)
<1>1. event[e].payment \in Payments /\ payment[event[e].payment].order # 0
  BY DEF OptionalInv, Typed, EventsAreBound
<1>2. OrderOf(e)' = OrderOf(e)
  BY <1>1 DEF PaymentsAdvance, OrderOf
<1>3. OrderOf(e) \in Contributions /\ OrderOf(e) # 0
  BY OrderTypes, OptionalAssumption DEF OptionalInv, Contributions
<1>4. \A c \in Contributions, p \in Payments : Confirmed(c, p) => Credited(c, p)
  BY DEF RowsAreKept, Confirmed, Credited
<1>5. QED
  BY <1>1, <1>2, <1>3, <1>4

\* An event no step touches.
LEMMA EventRests ==
  ASSUME OptionalInv, RowsAreKept, PaymentsAdvance, NEW e \in Events, event'[e] = event[e]
  PROVE  EventSound(e)'
<1>1. EventSound(e) /\ (event[e].status = "none" => event[e] = Unheard)
  BY DEF OptionalInv, EventsAreSound, Typed, EventsAreBound
<1>2. CASE event[e].status = "none"
  BY <1>1, <1>2 DEF EventSound, Unheard, Outcomes
<1>3. CASE event[e].status # "none"
  <2>1. PICK c, p : c = OrderOf(e) /\ p = event[e].payment
    OBVIOUS
  <2>2. /\ OrderOf(e)' = c /\ event'[e].payment = p
        /\ Confirmed(c, p) => Credited(c, p)
    BY <1>3, <2>1, EventKept
  <2>3. Credited(c, p) => Confirmed(OrderOf(e), event[e].payment)'
    BY <2>2 DEF Confirmed, Credited
  <2>4. QED
    BY <1>1, <2>1, <2>2, <2>3 DEF EventSound
<1>4. QED
  BY <1>2, <1>3

\* What a step writes to a stored event: at most one more attempt, a processed
\* one with its credit, and a status that repeats an attempt or is RECEIVED.
Writes(e, x) ==
  /\ event[e].status # "none" /\ GrowsTo(event[e], x) /\ event' = [event EXCEPT ![e] = x]
  /\ x.contribution \in {0, event[e].contribution, OrderOf(e)}
  /\ \/ x.attempts = event[e].attempts /\ x.status \in {event[e].status, "RECEIVED"}
     \/ \E outcome \in Outcomes :
          /\ x.status = outcome /\ x.attempts = event[e].attempts \cup {outcome}
          /\ outcome = "PROCESSED" => Credited(OrderOf(e), event[e].payment)
          /\ outcome = "REVIEW_REQUIRED" => event[e].identified
  /\ x.answered => event[e].answered \/ x.attempts # {}

LEMMA EventGoesOn ==
  ASSUME OptionalInv, RowsAreKept, PaymentsAdvance, NEW e \in Events, NEW x, Writes(e, x)
  PROVE  /\ \A d \in Events : EventSound(d)'
         /\ \A d \in Events : event'[d].payment = event[d].payment
<1>1. event \in [Events -> WebhookEvent] /\ EventSound(e) /\ event[e].status # "none"
  BY DEF OptionalInv, Typed, TypeOK, EventsAreSound, Writes
<1>2. \A d \in Events : event'[d] = IF d = e THEN x ELSE event[d]
  BY <1>1 DEF Writes
<1>3. x.payment = event[e].payment /\ event'[e] = x
  BY <1>2 DEF Writes, GrowsTo
<1>4. PICK c, p : c = OrderOf(e) /\ p = event[e].payment
  OBVIOUS
<1>5. /\ OrderOf(e)' = c /\ event'[e].payment = p
      /\ Confirmed(c, p) => Credited(c, p)
  BY <1>1, <1>3, <1>4, EventKept
<1>6. Credited(c, p) => Confirmed(OrderOf(e), event[e].payment)'
  BY <1>5 DEF Confirmed, Credited
<1>7. "PROCESSED" \in x.attempts => Confirmed(OrderOf(e), event[e].payment)'
  BY <1>1, <1>4, <1>5, <1>6 DEF Writes, EventSound, Outcomes
<1>8. /\ x.contribution # 0 => x.contribution = c
      /\ x.status \in Outcomes => x.status \in x.attempts
      /\ "REVIEW_REQUIRED" \in x.attempts => x.identified
      /\ x.answered => x.attempts # {}
  <2>1. x.contribution # 0 => x.contribution = c
    BY <1>1, <1>4 DEF Writes, EventSound
  <2>2. x.status \in Outcomes => x.status \in x.attempts
    BY <1>1 DEF Writes, EventSound, Outcomes
  <2>3. "REVIEW_REQUIRED" \in x.attempts => x.identified
    BY <1>1 DEF Writes, EventSound, Outcomes, GrowsTo
  <2>4. x.answered => x.attempts # {}
    BY <1>1 DEF Writes, EventSound
  <2>5. QED
    BY <2>1, <2>2, <2>3, <2>4
<1>9. EventSound(e)'
  BY <1>3, <1>5, <1>7, <1>8 DEF EventSound
<1>10. QED
  BY <1>2, <1>3, <1>9, EventRests

\* How a delivery moves: it knows no row or its order's, which it must know to
\* confirm, and it finishes once the row is credited.
DeliveryMove ==
  \/ UNCHANGED delivery
  \/ \E v \in Deliveries : EndDelivery(v)
  \/ \E v \in Deliveries, place \in Places, e \in Events, c \in Contributions \cup {0} :
       /\ Deliver(v, place, e, c)
       /\ c # 0 => event[e].status # "none" /\ c = OrderOf(e)
       /\ place \in {"confirm", "finish"} => c # 0
       /\ place = "finish" => Credited(c, event[e].payment)

LEMMA DeliveryGoesOn ==
  ASSUME OptionalInv, RowsAreKept, PaymentsAdvance, DeliveryMove,
         \A e \in Events : event[e].status # "none" => event'[e].payment = event[e].payment
  PROVE  \A v \in Deliveries : DeliverySound(v)'
<1>0. delivery \in [Deliveries -> Delivery]
  BY DEF OptionalInv, Typed, TypeOK
<1>1. ASSUME NEW v \in Deliveries, delivery'[v] = delivery[v]
      PROVE  DeliverySound(v)'
  <2>1. CASE delivery[v].at = "idle"
    BY <1>1, <2>1 DEF DeliverySound
  <2>2. CASE delivery[v].at # "idle"
    <3>1. PICK e, c, p : /\ e = delivery[v].event /\ c = OrderOf(e)
                         /\ p = event[e].payment
      OBVIOUS
    <3>2. /\ e \in Events /\ event[e].status # "none" /\ DeliverySound(v)
          /\ event'[e].payment = p
      BY <2>2, <3>1, RunningDelivery DEF OptionalInv, EventsAreSound
    <3>3. /\ OrderOf(e)' = c /\ c \in Contributions /\ p \in Payments
          /\ Confirmed(c, p) => Credited(c, p)
      BY <3>1, <3>2, EventKept
    <3>4. Credited(c, p) => Confirmed(OrderOf(e), event[e].payment)'
      BY <3>2, <3>3 DEF Confirmed, Credited
    <3>5. delivery'[v].event = e
      BY <1>1, <3>1
    <3>6. QED
      BY <1>1, <2>2, <3>1, <3>2, <3>3, <3>4, <3>5 DEF DeliverySound
  <2>3. QED
    BY <2>1, <2>2
<1>2. CASE UNCHANGED delivery
  BY <1>1, <1>2
<1>3. ASSUME NEW v \in Deliveries, EndDelivery(v)
      PROVE  \A u \in Deliveries : DeliverySound(u)'
  <2>1. delivery'[v].at = "idle" /\ \A u \in Deliveries \ {v} : delivery'[u] = delivery[u]
    BY <1>0, <1>3 DEF EndDelivery, NoDelivery
  <2>2. DeliverySound(v)'
    BY <2>1 DEF DeliverySound
  <2>3. QED
    BY <1>1, <2>1, <2>2
<1>4. ASSUME NEW v \in Deliveries, NEW place \in Places, NEW e \in Events,
             NEW c \in Contributions \cup {0}, Deliver(v, place, e, c),
             c # 0 => event[e].status # "none" /\ c = OrderOf(e),
             place \in {"confirm", "finish"} => c # 0,
             place = "finish" => Credited(c, event[e].payment)
      PROVE  \A u \in Deliveries : DeliverySound(u)'
  <2>1. /\ delivery'[v].at = place /\ delivery'[v].event = e /\ delivery'[v].contribution = c
        /\ \A u \in Deliveries \ {v} : delivery'[u] = delivery[u]
    BY <1>0, <1>4 DEF Deliver
  <2>2. PICK p : p = event[e].payment
    OBVIOUS
  <2>3. c # 0 => OrderOf(e)' = c /\ event'[e].payment = p
    BY <1>4, <2>2, EventKept
  <2>4. c # 0 /\ Credited(c, p) => Confirmed(OrderOf(e), event[e].payment)'
    BY <2>3 DEF Confirmed, Credited
  <2>5. DeliverySound(v)'
    BY <1>4, <2>1, <2>2, <2>3, <2>4 DEF DeliverySound
  <2>6. QED
    BY <1>1, <2>1, <2>5
<1>5. QED
  BY <1>2, <1>3, <1>4 DEF DeliveryMove

\* A confirmation, or the entitlement of a confirmed row, leaves the row credited.
LEMMA CreditGiven ==
  ASSUME OptionalInv, RowsAreKept, NEW c \in Contributions, NEW p \in Payments,
         \/ ConfirmContribution(c, p)
         \/ Confirmed(c, p)
         \/ \E s \in Successful : row' = [row EXCEPT ![c].status = s, ![c].payment = p]
  PROVE  Credited(c, p)
<1>1. Confirmed(c, p) => Credited(c, p)
  BY DEF RowsAreKept, Confirmed, Credited
<1>2. ASSUME NEW s \in Successful, row' = [row EXCEPT ![c].status = s, ![c].payment = p]
      PROVE  Credited(c, p)
  <2>1. Becomes(c, s, row[c].ordered, p)
    BY <1>2, RowUpdates DEF OptionalInv
  <2>2. QED
    BY <2>1 DEF Becomes, Credited
<1>3. ConfirmRow(c, p) => Credited(c, p)
  BY <1>2 DEF ConfirmRow, Successful
<1>4. QED
  BY <1>1, <1>2, <1>3 DEF ConfirmContribution

\* Every event and every delivery stays sound.
LEMMA StepKeepsEvents ==
  OptionalInv /\ RowsAreKept /\ PaymentsAdvance /\ [Next]_vars => EventsAreSound'
<1> SUFFICES ASSUME OptionalInv, RowsAreKept, PaymentsAdvance, [Next]_vars
             PROVE  EventsAreSound'
  OBVIOUS
<1>0. /\ event \in [Events -> WebhookEvent] /\ \A e \in Events : event[e] \in WebhookEvent
      /\ Typed /\ EventsAreSound
      /\ \A p \in Payments : payment'[p].order # 0 => payment'[p].state # "none"
  BY DEF OptionalInv, Typed, TypeOK, PaymentsAdvance
<1>1. ASSUME UNCHANGED event, DeliveryMove PROVE EventsAreSound'
  BY <1>0, <1>1, EventRests, DeliveryGoesOn DEF EventsAreSound
<1>2. ASSUME NEW e \in Events, NEW x, Writes(e, x), DeliveryMove
      PROVE  EventsAreSound'
  BY <1>0, <1>2, EventGoesOn, DeliveryGoesOn DEF EventsAreSound
<1>3. ASSUME NEW v \in Deliveries, NEW e \in Events, FirstDelivery(v, e)
      PROVE  EventsAreSound'
  <2>1. PICK p \in Payments, b \in Bodies :
          event' = [event EXCEPT ![e] = [Unheard EXCEPT !.status = "RECEIVED",
                                           !.payment = p, !.body = b]]
    BY <1>3 DEF FirstDelivery
  <2>2. /\ event'[e].status = "RECEIVED" /\ event'[e].attempts = {}
        /\ event'[e].contribution = 0 /\ ~event'[e].answered
        /\ \A d \in Events \ {e} : event'[d] = event[d]
    BY <1>0, <2>1 DEF Unheard
  <2>3. EventSound(e)'
    BY <2>2 DEF EventSound, Outcomes
  <2>4. event[e].status = "none" /\ Deliver(v, "find", e, 0) /\ "find" \in Places
    BY <1>3 DEF FirstDelivery, Places
  <2>5. DeliveryMove
    BY <2>4 DEF DeliveryMove
  <2>6. QED
    BY <1>0, <2>2, <2>3, <2>4, <2>5, EventRests, DeliveryGoesOn DEF EventsAreSound
<1>4. ASSUME NEW v \in Deliveries, NEW e \in Events, RepeatedDelivery(v, e)
      PROVE  EventsAreSound'
  <2>1. PICK c : c = event[e].contribution
    OBVIOUS
  <2>2. /\ event[e].status # "none" /\ Deliver(v, "find", e, c) /\ "find" \in Places
        /\ UNCHANGED event /\ c \in Contributions \cup {0} /\ (c # 0 => c = OrderOf(e))
    BY <1>0, <1>4, <2>1 DEF RepeatedDelivery, EventsAreSound, EventSound, WebhookEvent, Places
  <2>3. DeliveryMove
    BY <2>2 DEF DeliveryMove
  <2>4. QED
    BY <1>1, <2>2, <2>3
<1>5. ASSUME NEW v \in Deliveries, FindContribution(v)
      PROVE  EventsAreSound'
  <2>1. PICK e, c : e = delivery[v].event /\ c = OrderOf(e)
    OBVIOUS
  <2>2. /\ e \in Events /\ event[e].status # "none" /\ c \in Contributions /\ c # 0
        /\ event[e] \in WebhookEvent /\ DeliverySound(v) /\ delivery[v].at = "find"
        /\ delivery[v].contribution \in Contributions \cup {0}
    BY <1>0, <1>5, <2>1, RunningDelivery, OptionalAssumption
       DEF FindContribution, DeliveryAt, EventsAreSound, Contributions
  <2>3. PICK place, a, x :
          /\ Deliver(v, place, e, a) /\ place \in {"review", "confirm"}
          /\ a = c \/ (place = "review" /\ a = delivery[v].contribution)
          /\ event' = [event EXCEPT ![e] = x]
          /\ \/ x = [event[e] EXCEPT !.identified = TRUE, !.contribution = c]
             \/ x = [event[e] EXCEPT !.identified = TRUE]
    BY <1>5, <2>1, <2>2 DEF FindContribution
  <2>4. /\ GrowsTo(event[e], x) /\ x.contribution \in {event[e].contribution, c}
        /\ x.attempts = event[e].attempts /\ x.status = event[e].status
        /\ x.answered = event[e].answered
    <3>1. PICK r : r = event[e]
      OBVIOUS
    <3>2. /\ GrowsTo(r, [r EXCEPT !.identified = TRUE])
          /\ GrowsTo(r, [r EXCEPT !.identified = TRUE, !.contribution = c])
      BY <2>2, <3>1, EventFields
    <3>3. \/ x = [r EXCEPT !.identified = TRUE, !.contribution = c]
          \/ x = [r EXCEPT !.identified = TRUE]
      BY <2>3, <3>1
    <3>4. /\ x.contribution \in {r.contribution, c} /\ x.attempts = r.attempts
          /\ x.status = r.status /\ x.answered = r.answered
      BY <2>2, <3>1, <3>3 DEF WebhookEvent
    <3>5. QED
      BY <3>1, <3>2, <3>3, <3>4
  <2>5. Writes(e, x)
    BY <2>1, <2>2, <2>3, <2>4 DEF Writes
  <2>6. a \in Contributions \cup {0} /\ (a # 0 => a = OrderOf(e)) /\ place \in Places
    BY <2>1, <2>2, <2>3 DEF DeliverySound, Places
  <2>7. DeliveryMove
    BY <2>1, <2>2, <2>3, <2>6 DEF DeliveryMove
  <2>8. QED
    BY <1>2, <2>2, <2>5, <2>7
<1>6. ASSUME NEW v \in Deliveries, ConfirmCapture(v)
      PROVE  EventsAreSound'
  <2>1. PICK e, c, p : e = delivery[v].event /\ c = delivery[v].contribution
                       /\ p = event[e].payment
    OBVIOUS
  <2>2. /\ e \in Events /\ event[e].status # "none" /\ p \in Payments
        /\ c \in Contributions /\ c = OrderOf(e) /\ c # 0
    BY <1>0, <1>6, <2>1, ConfirmTypes, OptionalAssumption
       DEF ConfirmCapture, DeliveryAt, Contributions
  <2>3. PICK place : /\ Deliver(v, place, e, c) /\ place \in {"finish", "review"}
                     /\ place = "finish" => ConfirmContribution(c, p)
    BY <1>6, <2>1 DEF ConfirmCapture
  <2>4. place = "finish" => Credited(c, p)
    BY <2>2, <2>3, CreditGiven
  <2>5. DeliveryMove
    BY <2>1, <2>2, <2>3, <2>4 DEF DeliveryMove, Places
  <2>6. QED
    BY <1>1, <1>6, <2>5 DEF ConfirmCapture
<1>7. ASSUME NEW v \in Deliveries, FinishCapture(v) \/ RequireReview(v)
      PROVE  EventsAreSound'
  <2>1. PICK e, c, p : e = delivery[v].event /\ c = delivery[v].contribution
                       /\ p = event[e].payment
    OBVIOUS
  <2>2. /\ e \in Events /\ event[e].status # "none" /\ event[e] \in WebhookEvent
        /\ DeliverySound(v) /\ c \in Contributions \cup {0} /\ event[e].identified
        /\ EndDelivery(v) /\ delivery[v].at # "idle"
    BY <1>0, <1>7, <2>1, RunningDelivery
       DEF FinishCapture, RequireReview, DeliveryAt, EventsAreSound
  <2>3. PICK outcome \in Outcomes :
          /\ Conclude(e, outcome, c)
          /\ outcome = "PROCESSED" => delivery[v].at = "finish"
    BY <1>7, <2>1 DEF FinishCapture, RequireReview, DeliveryAt, Outcomes
  <2>4. PICK x : x = [event[e] EXCEPT !.status = outcome, !.contribution = c,
                        !.attempts = @ \cup {outcome}, !.answered = TRUE]
    OBVIOUS
  <2>5. event' = [event EXCEPT ![e] = x]
    BY <1>0, <2>2, <2>3, <2>4 DEF Conclude
  <2>6. /\ GrowsTo(event[e], x) /\ x.status = outcome /\ x.contribution = c
        /\ x.attempts = event[e].attempts \cup {outcome}
    <3>1. PICK r, b : r = event[e] /\ b = TRUE
      OBVIOUS
    <3>2. x = [r EXCEPT !.status = outcome, !.contribution = c,
                        !.attempts = @ \cup {outcome}, !.answered = b]
      BY <2>4, <3>1
    <3>3. /\ r \in WebhookEvent /\ outcome \in Outcomes /\ c \in Contributions \cup {0}
          /\ b \in BOOLEAN
          /\ r.answered => b
      BY <2>2, <3>1
    <3>4. Concluded(r, x, outcome, c)
      BY <3>2, <3>3, ConcludedFields
    <3>5. QED
      BY <3>1, <3>4 DEF Concluded
  <2>7. outcome = "PROCESSED" => Credited(OrderOf(e), event[e].payment)
    <3>1. outcome = "PROCESSED" => /\ Confirmed(OrderOf(e), event[e].payment)
                                   /\ OrderOf(e) \in Contributions /\ p \in Payments
      BY <1>0, <2>1, <2>3, ConfirmTypes
    <3>2. QED
      BY <2>1, <3>1, CreditGiven
  <2>8. x.contribution \in {0, OrderOf(e)}
    BY <2>1, <2>2, <2>6 DEF DeliverySound
  <2>9. Writes(e, x)
    BY <2>2, <2>5, <2>6, <2>7, <2>8 DEF Writes
  <2>10. QED
    BY <1>2, <2>2, <2>9 DEF DeliveryMove
<1>8. ASSUME NEW v \in Deliveries, DeliveryFails(v)
      PROVE  EventsAreSound'
  <2>1. PICK e, c : e = delivery[v].event /\ c = delivery[v].contribution
    OBVIOUS
  <2>2. /\ e \in Events /\ event[e].status # "none" /\ event[e] \in WebhookEvent
        /\ DeliverySound(v) /\ c \in Contributions \cup {0}
        /\ EndDelivery(v) /\ delivery[v].at # "idle"
    BY <1>0, <1>8, <2>1, RunningDelivery DEF DeliveryFails, EventsAreSound
  <2>3. PICK x : x = [event[e] EXCEPT !.status = "RECEIVED", !.identified = TRUE,
                                      !.contribution = c]
    OBVIOUS
  <2>4. event' = [event EXCEPT ![e] = x]
    BY <1>0, <1>8, <2>1, <2>2, <2>3 DEF DeliveryFails
  <2>5. GrowsTo(event[e], x)
    BY <2>2, <2>3, EventFields
  <2>6. /\ x.status = "RECEIVED" /\ x.contribution = c /\ x.attempts = event[e].attempts
        /\ x.answered = event[e].answered
    BY <2>2, <2>3 DEF WebhookEvent
  <2>7. Writes(e, x)
    BY <2>1, <2>2, <2>4, <2>5, <2>6 DEF Writes, DeliverySound
  <2>8. QED
    BY <1>2, <2>2, <2>7 DEF DeliveryMove
<1>9. ASSUME NEW e \in Events, FinalDelivery(e)
      PROVE  EventsAreSound'
  <2>1. /\ event[e].status # "none" /\ event[e].attempts # {} /\ UNCHANGED delivery
        /\ event[e] \in WebhookEvent
    BY <1>0, <1>9 DEF FinalDelivery, Outcomes, EventsAreSound, EventSound, creditVars
  <2>2. PICK x : x = [event[e] EXCEPT !.answered = TRUE]
    OBVIOUS
  <2>3. GrowsTo(event[e], x) /\ event' = [event EXCEPT ![e] = x]
    BY <1>0, <1>9, <2>1, <2>2, EventFields DEF FinalDelivery
  <2>4. /\ x.status = event[e].status /\ x.contribution = event[e].contribution
        /\ x.attempts = event[e].attempts
    BY <2>1, <2>2 DEF WebhookEvent
  <2>5. Writes(e, x)
    BY <2>1, <2>3, <2>4 DEF Writes
  <2>6. QED
    BY <1>2, <2>1, <2>5 DEF DeliveryMove
<1>10. ASSUME NEW e \in Events, RecoverCapture(e)
       PROVE  EventsAreSound'
  <2>1. PICK c, p : c = OrderOf(e) /\ p = event[e].payment
    OBVIOUS
  <2>2. /\ p \in Payments /\ c \in Contributions /\ event[e].status # "none"
        /\ event[e] \in WebhookEvent
    <3>1. <<p, e>> \in verified /\ verified \subseteq Payments \X (Events \cup {"callback"})
      BY <1>0, <1>10, <2>1 DEF RecoverCapture, Typed, TypeOK
    <3>2. event[e].status # "none"
      BY <1>0, <2>1, <3>1, OptionalAssumption DEF Typed, EventsAreBound, Unheard
    <3>3. QED
      BY <1>0, <2>1, <3>1, <3>2, OrderTypes
  <2>3. PICK x, outcome, b :
          /\ outcome = "PROCESSED" /\ b = event[e].answered
          /\ x = [event[e] EXCEPT !.status = outcome, !.contribution = c,
                                  !.attempts = @ \cup {outcome}, !.answered = b]
    OBVIOUS
  <2>4. event' = [event EXCEPT ![e] = x]
    BY <1>0, <1>10, <2>1, <2>2, <2>3 DEF RecoverCapture, WebhookEvent
  <2>5. outcome \in Outcomes /\ b \in BOOLEAN /\ (event[e].answered => b)
        /\ c \in Contributions \cup {0}
    BY <2>2, <2>3 DEF Outcomes, WebhookEvent
  <2>6. /\ GrowsTo(event[e], x) /\ x.status = outcome /\ x.contribution = c
        /\ x.attempts = event[e].attempts \cup {outcome}
    <3>1. PICK r : r = event[e]
      OBVIOUS
    <3>2. x = [r EXCEPT !.status = outcome, !.contribution = c,
                        !.attempts = @ \cup {outcome}, !.answered = b]
      BY <2>3, <3>1
    <3>3. /\ r \in WebhookEvent /\ outcome \in Outcomes /\ c \in Contributions \cup {0}
          /\ b \in BOOLEAN
          /\ r.answered => b
      BY <2>2, <2>5, <3>1
    <3>4. Concluded(r, x, outcome, c)
      BY <3>2, <3>3, ConcludedFields
    <3>5. QED
      BY <3>1, <3>4 DEF Concluded
  <2>7. Credited(c, p)
    BY <1>10, <2>1, <2>2, CreditGiven DEF RecoverCapture
  <2>8. Writes(e, x)
    BY <2>1, <2>2, <2>3, <2>4, <2>5, <2>6, <2>7 DEF Writes
  <2>9. UNCHANGED delivery
    BY <1>10 DEF RecoverCapture, RefundVarsExcept
  <2>10. QED
    BY <1>2, <2>8, <2>9 DEF DeliveryMove
<1>11. ASSUME \/ VerificationStops \/ (\E p \in Payments : VerifyCallback(p) \/ ConfirmCallback(p))
              \/ (\E e \in Events : InspectCapture(e))
       PROVE  EventsAreSound'
  <2>1. UNCHANGED <<event, delivery>>
    BY <1>11 DEF VerificationStops, VerifyCallback, ConfirmCallback, InspectCapture,
                 RefundVarsExcept
  <2>2. QED
    BY <1>1, <2>1 DEF DeliveryMove
<1>12. ASSUME NEW v \in Deliveries, DeliveryDies(v)
       PROVE  EventsAreSound'
  BY <1>1, <1>12 DEF DeliveryDies, DeliveryMove
<1>13. CASE RefundStep
  <2>1. UNCHANGED <<event, delivery>>
    BY <1>13
       DEF RefundStep, InspectRefund, InspectOrder, RecordObservation, ReviewRefund,
           ResolveRefund, RetireOrder, DropReview, DeskOnly
  <2>2. QED
    BY <1>1, <2>1 DEF DeliveryMove
<1>14. CASE OrderStep
  <2>1. UNCHANGED <<event, delivery>>
    BY <1>14
       DEF OrderStep, InitiateContribution, BeginOrderRequest, CallProvider, BindResponse,
           HandCheckout, CreatorStops, RecoverOrder, ExpireCheckout, AbandonUntouched,
           RecordCash, AllocateLater, TogglePause, ProviderMoves, creditVars
  <2>2. QED
    BY <1>1, <2>1 DEF DeliveryMove
<1>15. CASE UNCHANGED vars
  BY <1>1, <1>15 DEF vars, DeliveryMove
<1>16. QED
  BY <1>3, <1>4, <1>5, <1>6, <1>7, <1>8, <1>9, <1>10, <1>11, <1>12, <1>13, <1>14, <1>15
     DEF Next, CaptureStep

\* The invariant, and what it gives: at most one checkout is outstanding, with
\* one order, and what was answered for good is credited or with the owner.
LEMMA InitSound == Init => OptionalInv
<1> SUFFICES ASSUME Init PROVE OptionalInv
  OBVIOUS
<1>1. /\ \A c \in Contributions : row[c] = NoRow /\ request[c] = "none" /\ orders[c] = 0
      /\ \A w \in Creators : creator[w].at = "idle"
      /\ \A p \in Payments : payment[p].order = 0
      /\ \A e \in Events : event[e] = Unheard
      /\ \A v \in Deliveries : delivery[v].at = "idle"
  BY DEF Init, OrderInit, NoDelivery
<1>2. RowsAreSound /\ OnePending /\ CallsAreSingle
  <2>1. /\ NoRow.status = "none" /\ NoRow.ordered = FALSE /\ NoRow.payment = NoPayment
    BY DEF NoRow
  <2>2. RowsAreSound
    BY <1>1, <2>1 DEF RowsAreSound
  <2>3. OnePending
    BY <1>1, <2>1 DEF OnePending
  <2>4. CallsAreSingle
    BY <1>1 DEF CallsAreSingle
  <2>5. QED
    BY <2>2, <2>3, <2>4
<1>3. EventsAreSound
  BY <1>1 DEF EventsAreSound, EventSound, DeliverySound, Unheard, Outcomes
<1>4. QED
  BY <1>2, <1>3, InitTyped DEF OptionalInv

LEMMA StepSound == OptionalInv /\ [Next]_vars => OptionalInv'
  BY StepTyped, StepMoves, MovesKeepRows, MovesKeepSound, MovesKeepOnePending, PaymentsMove,
     StepKeepsCalls, StepKeepsEvents DEF OptionalInv

LEMMA AlwaysSound == Spec => []OptionalInv
  BY InitSound, StepSound, PTL DEF Spec

\* However requests, lost answers, recoveries, expiries and cash receipts
\* interleave, one optional checkout at most is outstanding, with at most one
\* order of the provider, and the audit of the requests finds nothing.
THEOREM CheckoutsAreSingle == Spec => []OneOutstandingCheckout
<1>1. OptionalInv => OneOutstandingCheckout
  <2> SUFFICES ASSUME OptionalInv PROVE OneOutstandingCheckout
    OBVIOUS
  <2>1. Cardinality(Pending) <= 1
    <3>1. CASE Pending = {}
      BY <3>1, FS_EmptySet
    <3>2. ASSUME NEW c \in Pending PROVE Cardinality(Pending) <= 1
      <4>1. Pending = {c}
        BY <3>2 DEF OptionalInv, OnePending, Pending, Online, Rows
      <4>2. QED
        BY <4>1, FS_Singleton
    <3>3. QED
      BY <3>1, <3>2
  <2>2. \A c \in Contributions : orders[c] <= 1
    BY DEF OptionalInv, CallsAreSingle
  <2>3. RequestsHaveIntegrity
    BY DEF OptionalInv, RowsAreSound, RequestsHaveIntegrity, Online, Rows
  <2>4. QED
    BY <2>1, <2>2, <2>3 DEF OneOutstandingCheckout, OptionalInv, Typed
<1>2. QED
  BY <1>1, AlwaysSound, PTL

\* Money whose delivery was answered for good is credited, or its acceptance for
\* review is on record and it waits for the owner or was resolved, whatever
\* failed before, whatever was recovered meanwhile, and whatever an overlapping
\* delivery of the same event wrote over the answer.
THEOREM AnsweredIsKept == Spec => []AnsweredIsAccountedFor
<1>1. OptionalInv => AnsweredIsAccountedFor
  <2> SUFFICES ASSUME OptionalInv, NEW e \in Events, event[e].answered
               PROVE  \/ OrderOf(e) \in Rows /\ Confirmed(OrderOf(e), event[e].payment)
                      \/ /\ "REVIEW_REQUIRED" \in event[e].attempts
                         /\ row[OrderOf(e)].ordered => Unresolved(e) \/ ResolvedEvent(e)
    BY DEF AnsweredIsAccountedFor
  <2>1. /\ event[e] \in WebhookEvent /\ EventSound(e) /\ event[e].attempts # {}
        /\ event[e].status = "none" => event[e] = Unheard
    BY DEF OptionalInv, Typed, TypeOK, EventsAreBound, EventsAreSound, EventSound
  <2>2. event[e].attempts \subseteq Outcomes /\ event[e].status \in {"RECEIVED"} \cup Outcomes
    BY <2>1 DEF WebhookEvent, Unheard
  <2>3. OrderOf(e) \in Contributions
    BY <2>1, <2>2, OrderTypes DEF OptionalInv, Unheard, Outcomes
  <2>4. CASE "PROCESSED" \in event[e].attempts
    <3>1. Confirmed(OrderOf(e), event[e].payment)
      BY <2>1, <2>4 DEF EventSound
    <3>2. QED
      BY <2>3, <3>1 DEF Confirmed, Rows, Successful
  <2>5. CASE "PROCESSED" \notin event[e].attempts
    <3>1. "REVIEW_REQUIRED" \in event[e].attempts
      BY <2>1, <2>2, <2>5 DEF Outcomes
    <3>2. event[e].status \in {"RECEIVED", "REVIEW_REQUIRED"} /\ event[e].identified
      BY <2>1, <2>2, <2>5, <3>1 DEF Outcomes, EventSound
    <3>3. QED
      BY <3>1, <3>2 DEF Unresolved, OrderOf
  <2>6. QED
    BY <2>4, <2>5
<1>2. QED
  BY <1>1, AlwaysSound, PTL

-----------------------------------------------------------------------------
(* A checkout is handed out while nothing is undecided. *)

\* What a step does to the bound answer of a request, and to the checkouts
\* that were handed to the customer.
LEMMA StepHandsWhileClear ==
  ASSUME OptionalInv, [Next]_vars
  PROVE  /\ \A c \in handed' \ handed :
              /\ ~paused
              /\ \A e \in Events : ~Unresolved(e)
              /\ \A d \in Rows : row[d].status # "PAID_UNALLOCATED"
              /\ request[c] = "answered" /\ ~row[c].expired
         /\ \A c \in Contributions :
              request[c] \in {"answered", "recovered"} => request'[c] = request[c]
<1>1. ASSUME NEW c \in Contributions, request[c] \in {"answered", "recovered"}
      PROVE  request'[c] = request[c]
  <2>1. request \in [Contributions -> OrderRequest] /\ RowMove
    BY StepMoves DEF OptionalInv, Typed, TypeOK
  <2>2. QED
    BY <1>1, <2>1 DEF RowMove, BeginMove, InsertMove, OrderMove, ExpireMove, LeaveMove,
                      PayMove, SettleMove
<1>2. ASSUME NEW c \in handed' \ handed
      PROVE  /\ ~paused
             /\ \A e \in Events : ~Unresolved(e)
             /\ \A d \in Rows : row[d].status # "PAID_UNALLOCATED"
             /\ request[c] = "answered" /\ ~row[c].expired
  <2>1. OrderStep
    BY <1>2, OthersKeepRequests DEF Next, vars
  <2>2. PICK w \in Creators : HandCheckout(w)
    BY <1>2, <2>1
       DEF OrderStep, InitiateContribution, BeginOrderRequest, CallProvider, BindResponse,
           CreatorStops, RecoverOrder, ExpireCheckout, AbandonUntouched, RecordCash,
           AllocateLater, TogglePause, ProviderMoves, orderVars
  <2>3. c = creator[w].contribution /\ Admitted(c) /\ creator[w].at = "admit"
    BY <1>2, <2>2 DEF HandCheckout, CreatorAt
  <2>4. row[c].ordered
    BY <2>3 DEF OptionalInv, CallsAreSingle
  <2>5. QED
    BY <2>3, <2>4 DEF Admitted, Resumable, PaymentAllowed
<1>3. QED
  BY <1>1, <1>2

\* A checkout is handed to the customer only while payments are open and no
\* delivered money is undecided, and the answer bound to a request is final,
\* however late the provider answers.
THEOREM HandedWhenClear == Spec => HandedWhileClear
<1>1. OptionalInv /\ [Next]_vars =>
        [/\ \A c \in handed' \ handed :
              /\ ~paused
              /\ \A e \in Events : ~Unresolved(e)
              /\ \A d \in Rows : row[d].status # "PAID_UNALLOCATED"
              /\ request[c] = "answered" /\ ~row[c].expired
         /\ \A c \in Contributions :
              request[c] \in {"answered", "recovered"} => request'[c] = request[c]]_vars
  BY StepHandsWhileClear
<1>2. QED
  BY <1>1, AlwaysSound, PTL DEF Spec, HandedWhileClear

-----------------------------------------------------------------------------
(* Refunds: what is resolved was refunded and is never credited. *)

\* A payment has entitlement exactly when a row is credited with it.
LEMMA Entitlement ==
  ASSUME OptionalInv, NEW p \in Payments
  PROVE  HasEntitlement(p) <=> \E c \in Contributions : row[c].payment = p
<1>1. ASSUME NEW c \in Contributions, row[c].payment = p PROVE c \in Rows
  BY <1>1, OptionalAssumption DEF OptionalInv, RowsAreSound, Rows, NoRow
<1>2. ASSUME NEW e \in Events, event[e].payment = p, event[e].status = "PROCESSED"
      PROVE  \E c \in Contributions : row[c].payment = p
  <2>1. EventSound(e) /\ OrderOf(e) \in Contributions
    BY <1>2, OrderTypes DEF OptionalInv, EventsAreSound
  <2>2. QED
    BY <1>2, <2>1 DEF EventSound, Confirmed, Outcomes
<1>3. QED
  BY <1>1, <1>2 DEF HasEntitlement, Rows

\* A resolved payment was refunded and credits no row; a refund that was seen
\* happened; a retired order, and one under review, is over.
RefundsAreSound ==
  /\ \A p \in Payments :
       resolved[p] # "none" =>
         payment[p].state = "refunded" /\ \A c \in Contributions : row[c].payment # p
  /\ \A d \in Desks :
       /\ desk[d].at \in {"observing", "observed", "reviewed", "rechecking", "rechecked"}
            /\ desk[d].seen.provider = "refunded" =>
              payment[event[desk[d].event].payment].state = "refunded"
       /\ desk[d].at \in {"orderReviewed", "orderRechecked"} =>
            /\ AllAttemptsOver(desk[d].contribution)
            /\ desk[d].payments = AttemptsOf(desk[d].contribution)
  /\ \A c \in retired :
       /\ row[c].status = "ABANDONED" /\ AllAttemptsOver(c)
       /\ \A p \in AttemptsOf(c) : payment[p].state = "refunded" => resolved[p] # "none"

\* An order that is over stays over: nothing else is paid on a paid order.
LEMMA OverStays ==
  ASSUME OptionalInv, PaymentsAdvance, NEW c \in Contributions, AllAttemptsOver(c)
  PROVE  /\ AllAttemptsOver(c)' /\ AttemptsOf(c)' = AttemptsOf(c)
         /\ \A p \in AttemptsOf(c) : payment'[p] = payment[p]
<1>1. c # 0 /\ PaidOrder(c)
  BY OptionalAssumption DEF Contributions, AllAttemptsOver, AttemptsOf, PaidOrder
<1>2. \A p \in AttemptsOf(c) : payment'[p] = payment[p]
  BY DEF PaymentsAdvance, AllAttemptsOver, AttemptsOf
<1>3. \A p \in Payments : payment'[p].order = c => payment[p].order = c
  BY <1>1 DEF PaymentsAdvance
<1>4. AttemptsOf(c)' = AttemptsOf(c)
  BY <1>2, <1>3 DEF AttemptsOf
<1>5. QED
  BY <1>2, <1>4 DEF AllAttemptsOver

\* A delivered event stays about its payment.
LEMMA EventPaymentsStay ==
  ASSUME OptionalInv, [Next]_vars, NEW e \in Events, event[e].status # "none"
  PROVE  event'[e].payment = event[e].payment
<1>0. event \in [Events -> WebhookEvent] /\ event[e] \in WebhookEvent
  BY DEF OptionalInv, Typed, TypeOK
<1>1. CASE CaptureStep
  <2>1. ASSUME NEW v \in Deliveries, NEW d \in Events,
               FirstDelivery(v, d) \/ RepeatedDelivery(v, d)
        PROVE  event'[e] = event[e]
    BY <1>0, <2>1 DEF FirstDelivery, RepeatedDelivery
  <2>2. ASSUME NEW v \in Deliveries,
               \/ FindContribution(v) \/ FinishCapture(v) \/ RequireReview(v) \/ DeliveryFails(v)
        PROVE  event'[e].payment = event[e].payment
    <3>1. PICK d : d = delivery[v].event
      OBVIOUS
    <3>2. CASE FindContribution(v)
      BY <1>0, <3>1, <3>2 DEF FindContribution, WebhookEvent
    <3>3. CASE FinishCapture(v) \/ RequireReview(v)
      <4>1. PICK outcome, c : Conclude(d, outcome, c)
        BY <3>1, <3>3 DEF FinishCapture, RequireReview
      <4>2. QED
        BY <1>0, <4>1 DEF Conclude, WebhookEvent
    <3>4. CASE DeliveryFails(v)
      BY <1>0, <3>1, <3>4 DEF DeliveryFails, WebhookEvent
    <3>5. QED
      BY <2>2, <3>2, <3>3, <3>4
  <2>3. ASSUME NEW d \in Events, FinalDelivery(d) \/ RecoverCapture(d)
        PROVE  event'[e].payment = event[e].payment
    BY <1>0, <2>3 DEF FinalDelivery, RecoverCapture, WebhookEvent
  <2>4. ASSUME \/ VerificationStops
               \/ \E v \in Deliveries : ConfirmCapture(v) \/ DeliveryDies(v)
               \/ \E p \in Payments : VerifyCallback(p) \/ ConfirmCallback(p)
               \/ \E d \in Events : InspectCapture(d)
        PROVE  event' = event
    BY <2>4 DEF VerificationStops, ConfirmCapture, DeliveryDies, VerifyCallback,
                ConfirmCallback, InspectCapture
  <2>5. QED
    BY <1>1, <2>1, <2>2, <2>3, <2>4 DEF CaptureStep
<1>2. CASE RefundStep
  BY <1>2
     DEF RefundStep, InspectRefund, InspectOrder, RecordObservation, ReviewRefund,
         ResolveRefund, RetireOrder, DropReview, DeskOnly
<1>3. CASE OrderStep
  BY <1>3
     DEF OrderStep, InitiateContribution, BeginOrderRequest, CallProvider, BindResponse,
         HandCheckout, CreatorStops, RecoverOrder, ExpireCheckout, AbandonUntouched,
         RecordCash, AllocateLater, TogglePause, ProviderMoves
<1>4. CASE UNCHANGED vars
  BY <1>4 DEF vars
<1>5. QED
  BY <1>1, <1>2, <1>3, <1>4 DEF Next

\* Steps that resolve nothing, retire nothing and leave refund work alone.
LEMMA OthersKeepRefunds ==
  OrderStep \/ CaptureStep \/ UNCHANGED vars => UNCHANGED <<resolved, retired, desk>>
<1>1. OrderStep => UNCHANGED <<resolved, retired, desk>>
  BY DEF OrderStep, InitiateContribution, BeginOrderRequest, CallProvider, BindResponse,
         HandCheckout, CreatorStops, RecoverOrder, ExpireCheckout, AbandonUntouched,
         RecordCash, AllocateLater, TogglePause, ProviderMoves, creditVars
<1>2. CaptureStep => UNCHANGED <<resolved, retired, desk>>
  BY DEF CaptureStep, FirstDelivery, RepeatedDelivery, FindContribution, ConfirmCapture,
         FinishCapture, RequireReview, DeliveryFails, DeliveryDies, FinalDelivery,
         InspectCapture, RecoverCapture, VerifyCallback, ConfirmCallback, VerificationStops,
         refundVars, creditVars, RefundVarsExcept
<1>3. QED
  BY <1>1, <1>2 DEF vars

\* The refund work of one session: what was resolved stays so, and the session
\* saw what it says.
DeskSound(d) ==
  /\ desk[d].at \in {"observing", "observed", "reviewed", "rechecking", "rechecked"}
       /\ desk[d].seen.provider = "refunded" =>
         payment[event[desk[d].event].payment].state = "refunded"
  /\ desk[d].at \in {"orderReviewed", "orderRechecked"} =>
       /\ AllAttemptsOver(desk[d].contribution)
       /\ desk[d].payments = AttemptsOf(desk[d].contribution)

ResolvedSound(p) ==
  resolved[p] # "none" =>
    payment[p].state = "refunded" /\ \A c \in Contributions : row[c].payment # p

RetiredSound(c) ==
  /\ row[c].status = "ABANDONED" /\ AllAttemptsOver(c)
  /\ \A p \in AttemptsOf(c) : payment[p].state = "refunded" => resolved[p] # "none"

LEMMA RefundParts ==
  RefundsAreSound <=> /\ \A p \in Payments : ResolvedSound(p)
                      /\ \A d \in Desks : DeskSound(d)
                      /\ \A c \in retired : RetiredSound(c)
  BY DEF RefundsAreSound, ResolvedSound, DeskSound, RetiredSound

\* A session no step touches stays sound.
LEMMA DeskRests ==
  ASSUME OptionalInv, RefundsAreSound, PaymentsAdvance, [Next]_vars, NEW d \in Desks,
         desk'[d] = desk[d]
  PROVE  DeskSound(d)'
<1>1. DeskSound(d)
  BY RefundParts
<1>2. ASSUME desk[d].at \in {"observing", "observed", "reviewed", "rechecking", "rechecked"},
             desk[d].seen.provider = "refunded"
      PROVE  payment'[event'[desk[d].event].payment].state = "refunded"
  <2>1. PICK e \in Events : e = desk[d].event /\ event[e].identified
    BY <1>2 DEF OptionalInv, Typed, DesksAreBound
  <2>2. event[e].status # "none" /\ event[e].payment \in Payments
    BY <2>1, OrderTypes DEF OptionalInv, Typed, EventsAreBound
  <2>3. event'[e].payment = event[e].payment /\ payment[event[e].payment].state = "refunded"
    BY <1>1, <1>2, <2>1, <2>2, EventPaymentsStay DEF DeskSound
  <2>4. QED
    BY <2>1, <2>2, <2>3 DEF PaymentsAdvance
<1>3. ASSUME desk[d].at \in {"orderReviewed", "orderRechecked"}
      PROVE  /\ AllAttemptsOver(desk[d].contribution)'
             /\ desk'[d].payments = AttemptsOf(desk[d].contribution)'
  <2>1. PICK c \in Contributions : c = desk[d].contribution
    BY <1>3 DEF OptionalInv, Typed, DesksAreBound
  <2>2. AllAttemptsOver(c)' /\ desk[d].payments = AttemptsOf(c)'
    BY <1>1, <1>3, <2>1, OverStays DEF DeskSound
  <2>3. desk'[d].contribution = c
    BY <2>1
  <2>4. QED
    BY <2>1, <2>2, <2>3 DEF AllAttemptsOver, AttemptsOf
<1>4. QED
  BY <1>2, <1>3 DEF DeskSound, AllAttemptsOver, AttemptsOf

\* What was resolved, or retired, before a step that takes back no resolution.
LEMMA RefundsRest ==
  ASSUME OptionalInv, RefundsAreSound, RowsAreKept, PaymentsAdvance,
         \A q \in Payments : resolved[q] # "none" => resolved'[q] = resolved[q]
  PROVE  /\ \A q \in Payments : resolved[q] # "none" => ResolvedSound(q)'
         /\ \A c \in retired : RetiredSound(c)'
<1>1. ASSUME NEW q \in Payments, resolved[q] # "none"
      PROVE  ResolvedSound(q)'
  <2>1. payment[q].state = "refunded" /\ \A c \in Contributions : row[c].payment # q
    BY <1>1, RefundParts DEF ResolvedSound
  <2>2. \A c \in Contributions : row'[c].payment # q
    BY <1>1, <2>1 DEF RowsAreKept
  <2>3. QED
    BY <2>1, <2>2 DEF ResolvedSound, PaymentsAdvance
<1>2. ASSUME NEW c \in retired
      PROVE  RetiredSound(c)'
  <2>1. c \in Contributions /\ RetiredSound(c)
    BY RefundParts DEF OptionalInv, Typed, TypeOK
  <2>2. /\ AllAttemptsOver(c)' /\ AttemptsOf(c)' = AttemptsOf(c)
        /\ \A p \in AttemptsOf(c) : payment'[p] = payment[p]
    BY <2>1, OverStays DEF RetiredSound
  <2>3. row'[c].status = "ABANDONED"
    BY <2>1 DEF RetiredSound, RowsAreKept
  <2>4. \A p \in AttemptsOf(c) : p \in Payments
    BY DEF AttemptsOf
  <2>5. QED
    BY <2>1, <2>2, <2>3, <2>4 DEF RetiredSound
<1>3. QED
  BY <1>1, <1>2

\* A step that changes one session's work, and resolves or retires nothing.
LEMMA DeskMoves ==
  ASSUME OptionalInv, RefundsAreSound, RowsAreKept, PaymentsAdvance, [Next]_vars,
         NEW d \in Desks, NEW k, Work(d, k), UNCHANGED <<resolved, retired>>, DeskSound(d)'
  PROVE  RefundsAreSound'
<1>1. \A f \in Desks \ {d} : desk'[f] = desk[f]
  BY DEF Work, OptionalInv, Typed
<1>2. \A f \in Desks : DeskSound(f)'
  BY <1>1, DeskRests
<1>3. \A p \in Payments : ResolvedSound(p)'
  BY RefundsRest DEF ResolvedSound
<1>4. \A c \in retired' : RetiredSound(c)'
  BY RefundsRest
<1>5. QED
  BY <1>2, <1>3, <1>4 DEF RefundsAreSound, ResolvedSound, DeskSound, RetiredSound

\* A step other than refund work keeps the refunds sound.
LEMMA OthersKeepSound ==
  ASSUME OptionalInv, RefundsAreSound, RowsAreKept, PaymentsAdvance, [Next]_vars,
         UNCHANGED <<resolved, retired, desk>>
  PROVE  RefundsAreSound'
<1>1. \A f \in Desks : DeskSound(f)'
  BY DeskRests
<1>2. \A p \in Payments : ResolvedSound(p)'
  BY RefundsRest DEF ResolvedSound
<1>3. \A c \in retired' : RetiredSound(c)'
  BY RefundsRest
<1>4. QED
  BY <1>1, <1>2, <1>3 DEF RefundsAreSound, ResolvedSound, DeskSound, RetiredSound

\* Refund work keeps the refunds sound: what is resolved was seen refunded and
\* has no credit, what is retired is over and resolved.
LEMMA RefundWorkKeepsSound ==
  ASSUME OptionalInv, RefundsAreSound, RowsAreKept, PaymentsAdvance, RefundStep
  PROVE  RefundsAreSound'
<1>0. /\ desk \in [Desks -> DeskRecords] /\ \A d \in Desks : desk[d] \in DeskRecords
      /\ [Next]_vars
      /\ resolved \in [Payments -> Bodies \cup {"none"}]
      /\ \A d \in Desks : DeskSound(d)
  BY RefundParts DEF OptionalInv, Typed, TypeOK, Next
<1>1. ASSUME NEW d \in Desks, NEW e \in Events, InspectRefund(d, e)
      PROVE  RefundsAreSound'
  <2>1. PICK seen, place :
          /\ place \in {"observing", "rechecking"}
          /\ seen = [Local(e) EXCEPT !.provider = payment[event[e].payment].state]
          /\ Work(d, [desk[d] EXCEPT !.at = place, !.event = e, !.seen = seen])
    <3>1. PICK seen : seen = [Local(e) EXCEPT !.provider = payment[event[e].payment].state]
      OBVIOUS
    <3>2. PICK place : place = IF desk[d].at = "idle" THEN "observing" ELSE "rechecking"
      OBVIOUS
    <3>3. Work(d, [desk[d] EXCEPT !.at = place, !.event = e, !.seen = seen])
      BY <1>1, <3>1, <3>2 DEF InspectRefund, Work
    <3>4. QED
      BY <3>1, <3>2, <3>3
  <2>2. seen.provider = payment[event[e].payment].state
    BY <2>1 DEF Local, NothingSeen
  <2>3. PICK k : k = [desk[d] EXCEPT !.at = place, !.event = e, !.seen = seen]
    OBVIOUS
  <2>4. k.at = place /\ k.event = e /\ k.seen = seen /\ desk'[d] = k
    BY <1>0, <2>1, <2>3 DEF Work, DeskRecords
  <2>5. UNCHANGED <<payment, event, resolved, retired>>
    BY <1>1 DEF InspectRefund, DeskOnly
  <2>6. DeskSound(d)'
    BY <2>1, <2>2, <2>4, <2>5 DEF DeskSound
  <2>7. QED
    BY <1>0, <2>1, <2>3, <2>5, <2>6, DeskMoves
<1>2. ASSUME NEW d \in Desks, NEW c \in Contributions, InspectOrder(d, c)
      PROVE  RefundsAreSound'
  <2>1. PICK place \in {"orderReviewed", "orderRechecked"} :
          Work(d, [NoWork EXCEPT !.at = place, !.contribution = c,
                     !.seen.row = row[c].status, !.payments = AttemptsOf(c)])
    BY <1>2 DEF InspectOrder
  <2>2. PICK k : k = [NoWork EXCEPT !.at = place, !.contribution = c,
                        !.seen.row = row[c].status, !.payments = AttemptsOf(c)]
    OBVIOUS
  <2>3. k.at = place /\ k.contribution = c /\ k.payments = AttemptsOf(c) /\ desk'[d] = k
    BY <1>0, <2>1, <2>2 DEF Work, NoWork
  <2>4. AllAttemptsOver(c) /\ UNCHANGED <<payment, resolved, retired>>
    BY <1>2 DEF InspectOrder, DeskOnly
  <2>5. AllAttemptsOver(c)' /\ AttemptsOf(c)' = AttemptsOf(c)
    BY <2>4 DEF AllAttemptsOver, AttemptsOf
  <2>6. desk'[d].contribution = c /\ desk'[d].at = place /\ desk'[d].payments = AttemptsOf(c)'
    BY <2>3, <2>5
  <2>7. DeskSound(d)'
    BY <2>1, <2>5, <2>6 DEF DeskSound, AllAttemptsOver, AttemptsOf
  <2>8. QED
    BY <1>0, <2>1, <2>2, <2>4, <2>7, DeskMoves
<1>3. ASSUME NEW d \in Desks, RecordObservation(d)
      PROVE  RefundsAreSound'
  <2>1. PICK e : e = desk[d].event
    OBVIOUS
  <2>2. PICK place \in {"observed", "rechecked"}, clear \in BOOLEAN :
          Work(d, [desk[d] EXCEPT !.at = place, !.seen.clear = clear,
                                  !.number = observations[e] + 1])
    BY <1>3, <2>1 DEF RecordObservation, HasEntitlement
  <2>3. PICK k : k = [desk[d] EXCEPT !.at = place, !.seen.clear = clear,
                                     !.number = observations[e] + 1]
    OBVIOUS
  <2>4. k.at = place /\ k.event = e /\ k.seen.provider = desk[d].seen.provider /\ desk'[d] = k
    <3>1. desk[d].seen \in Seen
      BY <1>0 DEF DeskRecords
    <3>2. QED
      BY <1>0, <2>1, <2>2, <2>3, <3>1 DEF Work, DeskRecords, Seen
  <2>5. UNCHANGED <<payment, event, resolved, retired>>
    BY <1>3 DEF RecordObservation, DeskOnly
  <2>6. desk[d].at \in {"observing", "rechecking"}
    BY <1>3 DEF RecordObservation, DeskAt
  <2>7. DeskSound(d)'
    BY <1>0, <2>1, <2>4, <2>5, <2>6 DEF DeskSound
  <2>8. QED
    BY <1>0, <2>2, <2>3, <2>5, <2>7, DeskMoves
<1>4. ASSUME NEW d \in Desks, ReviewRefund(d)
      PROVE  RefundsAreSound'
  <2>1. PICK k : k = [desk[d] EXCEPT !.at = "reviewed", !.review = desk[d].seen]
    OBVIOUS
  <2>2. Work(d, k) /\ desk[d].at = "observed" /\ UNCHANGED <<payment, event, resolved, retired>>
    BY <1>4, <2>1 DEF ReviewRefund, DeskOnly, DeskAt
  <2>3. k.at = "reviewed" /\ k.event = desk[d].event /\ k.seen = desk[d].seen /\ desk'[d] = k
    BY <1>0, <2>1, <2>2 DEF Work, DeskRecords
  <2>4. DeskSound(d)'
    BY <1>0, <2>2, <2>3 DEF DeskSound
  <2>5. QED
    BY <1>0, <2>2, <2>4, DeskMoves
<1>5. ASSUME NEW d \in Desks, DropReview(d)
      PROVE  RefundsAreSound'
  <2>1. Work(d, NoWork) /\ UNCHANGED <<resolved, retired>>
    BY <1>5 DEF DropReview
  <2>2. desk'[d].at = "idle"
    BY <1>0, <2>1 DEF Work, NoWork
  <2>3. DeskSound(d)'
    BY <2>2 DEF DeskSound
  <2>4. QED
    BY <1>0, <2>1, <2>3, DeskMoves
<1>6. ASSUME NEW d \in Desks, ResolveRefund(d)
      PROVE  RefundsAreSound'
  <2>1. PICK e : e = desk[d].event
    OBVIOUS
  <2>2. PICK p : p = event[e].payment
    OBVIOUS
  <2>3. /\ desk[d].at = "rechecked" /\ Reviewable(d) /\ resolved[p] = "none"
        /\ resolved' = [resolved EXCEPT ![p] = event[e].body]
        /\ Work(d, NoWork)
        /\ UNCHANGED <<row, payment, event, retired>>
    BY <1>6, <2>1, <2>2 DEF ResolveRefund, DeskAt, DeskOnly, orderVars
  <2>4. e \in Events /\ p \in Payments
    BY <2>1, <2>2, <2>3, OrderTypes DEF OptionalInv, Typed, DesksAreBound, EventsAreBound
  <2>5. payment[p].state = "refunded" /\ ~HasEntitlement(p)
    BY <1>0, <2>1, <2>2, <2>3 DEF Reviewable, DeskSound
  <2>6. \A q \in Payments : resolved[q] # "none" => resolved'[q] = resolved[q]
    BY <1>0, <2>3
  <2>7. \A q \in Payments \ {p} : resolved'[q] = resolved[q]
    BY <1>0, <2>3
  <2>8. \A c \in Contributions : row[c].payment # p
    BY <2>4, <2>5, Entitlement
  <2>9. ResolvedSound(p)'
    BY <2>3, <2>5, <2>8 DEF ResolvedSound
  <2>10. \A q \in Payments : ResolvedSound(q)'
    <3>1. ASSUME NEW q \in Payments \ {p} PROVE ResolvedSound(q)'
      BY <2>6, <2>7, <3>1, RefundsRest DEF ResolvedSound
    <3>2. QED
      BY <2>9, <3>1
  <2>11. \A c \in retired' : RetiredSound(c)'
    BY <2>3, <2>6, RefundsRest
  <2>12. \A f \in Desks : DeskSound(f)'
    <3>1. desk'[d].at = "idle"
      BY <1>0, <2>3 DEF Work, NoWork
    <3>2. DeskSound(d)'
      BY <3>1 DEF DeskSound
    <3>3. \A f \in Desks \ {d} : desk'[f] = desk[f]
      BY <1>0, <2>3 DEF Work
    <3>4. QED
      BY <1>0, <3>2, <3>3, DeskRests
  <2>13. QED
    BY <2>10, <2>11, <2>12 DEF RefundsAreSound, ResolvedSound, DeskSound, RetiredSound
<1>7. ASSUME NEW d \in Desks, RetireOrder(d)
      PROVE  RefundsAreSound'
  <2>1. PICK c : c = desk[d].contribution
    OBVIOUS
  <2>2. /\ desk[d].at = "orderRechecked" /\ NeverCredited(c) /\ AllResolved(c, desk[d].payments)
        /\ row' = [row EXCEPT ![c].status = "ABANDONED"] /\ retired' = retired \cup {c}
        /\ Work(d, NoWork) /\ UNCHANGED <<payment, resolved>>
    BY <1>7, <2>1 DEF RetireOrder, DeskAt, UnchangedButRow
  <2>3. c \in Contributions
    BY <2>1, <2>2 DEF OptionalInv, Typed, DesksAreBound
  <2>4. AllAttemptsOver(c) /\ desk[d].payments = AttemptsOf(c)
    BY <1>0, <2>1, <2>2 DEF DeskSound
  <2>5. row'[c].status = "ABANDONED"
    BY <2>2, <2>3, RowUpdates DEF OptionalInv, Becomes
  <2>6. AllAttemptsOver(c)' /\ AttemptsOf(c)' = AttemptsOf(c)
    BY <2>2, <2>4 DEF AllAttemptsOver, AttemptsOf
  <2>7. RetiredSound(c)'
    <3>1. \A p \in AttemptsOf(c) : payment[p].state = "refunded" => resolved[p] # "none"
      BY <2>2, <2>4 DEF AllResolved
    <3>2. QED
      BY <2>2, <2>5, <2>6, <3>1 DEF RetiredSound
  <2>8. /\ \A p \in Payments : ResolvedSound(p)'
        /\ \A f \in retired : RetiredSound(f)'
    BY <2>2, RefundsRest DEF ResolvedSound
  <2>9. \A f \in retired' : RetiredSound(f)'
    BY <2>2, <2>7, <2>8
  <2>10. \A f \in Desks : DeskSound(f)'
    <3>1. desk'[d].at = "idle"
      BY <1>0, <2>2 DEF Work, NoWork
    <3>2. DeskSound(d)'
      BY <3>1 DEF DeskSound
    <3>3. \A f \in Desks \ {d} : desk'[f] = desk[f]
      BY <1>0, <2>2 DEF Work
    <3>4. QED
      BY <1>0, <3>2, <3>3, DeskRests
  <2>11. QED
    BY <2>8, <2>9, <2>10 DEF RefundsAreSound, ResolvedSound, DeskSound, RetiredSound
<1>8. QED
  BY <1>1, <1>2, <1>3, <1>4, <1>5, <1>6, <1>7 DEF RefundStep

\* Refunds are always sound.
LEMMA AlwaysRefundsSound == Spec => [](OptionalInv /\ RefundsAreSound)
<1>1. Init => OptionalInv /\ RefundsAreSound
  BY InitSound DEF Init, RefundInit, RefundsAreSound, NoWork
<1>2. OptionalInv /\ RefundsAreSound /\ [Next]_vars => (OptionalInv /\ RefundsAreSound)'
  <2> SUFFICES ASSUME OptionalInv, RefundsAreSound, [Next]_vars
               PROVE  OptionalInv' /\ RefundsAreSound'
    OBVIOUS
  <2>1. OptionalInv' /\ RowsAreKept /\ PaymentsAdvance
    BY StepSound, StepMoves, MovesKeepRows, PaymentsMove
  <2>2. CASE RefundStep
    BY <2>1, <2>2, RefundWorkKeepsSound
  <2>3. CASE OrderStep \/ CaptureStep \/ UNCHANGED vars
    BY <2>1, <2>3, OthersKeepRefunds, OthersKeepSound
  <2>4. QED
    BY <2>1, <2>2, <2>3 DEF Next
<1>3. QED
  BY <1>1, <1>2, PTL DEF Spec

\* A payment that was resolved as refunded without credit was fully refunded
\* and is never credited, whatever delivery, callback or recovery was under way.
THEOREM ResolvedIsNeverCredited == Spec => []NeverCreditedAndResolved
<1>1. OptionalInv /\ RefundsAreSound => NeverCreditedAndResolved
  BY Entitlement DEF RefundsAreSound, NeverCreditedAndResolved
<1>2. QED
  BY <1>1, AlwaysRefundsSound, PTL

\* A retired order holds no money of the customer, and never will: nothing is
\* paid on it any more, and its row is never credited.
THEOREM RetiredIsEmpty == Spec => []RetiredOrderHasNoMoney
<1>1. OptionalInv /\ RefundsAreSound => RetiredOrderHasNoMoney
  <2> SUFFICES ASSUME OptionalInv, RefundsAreSound, NEW c \in retired
               PROVE  /\ row[c].status = "ABANDONED" /\ row[c].payment = NoPayment
                      /\ \A p \in AttemptsOf(c) :
                           \/ payment[p].state = "failed"
                           \/ payment[p].state = "refunded" /\ resolved[p] # "none"
    BY DEF RetiredOrderHasNoMoney
  <2>1. c \in Contributions /\ RetiredSound(c)
    BY RefundParts DEF OptionalInv, Typed, TypeOK
  <2>2. row[c].payment = NoPayment
    BY <2>1 DEF RetiredSound, OptionalInv, RowsAreSound, Successful
  <2>3. QED
    BY <2>1, <2>2 DEF RetiredSound, AllAttemptsOver
<1>2. QED
  BY <1>1, AlwaysRefundsSound, PTL
=============================================================================
