----------------------- MODULE MonthlyAgreement_proofs -----------------------
(***************************************************************************)
(* Theorems about MonthlyAgreement, for any number of payment attempts,    *)
(* periods, payments, events, overlapping deliveries and requests.  Steps  *)
(* are first classified by the claim, the event, the delivery and the      *)
(* request that they change; the invariant is then proved against the      *)
(* classes.                                                                *)
(***************************************************************************)
EXTENDS MonthlyAgreement, FiniteSetTheorems, TLAPS

-----------------------------------------------------------------------------
(* What each row, event, delivery and request stands for. *)

Live == {"RESERVED", "ORDERING", "AWAITING", "REVIEW", "QUALIFIED"}
Unpaid == {"RESERVED", "ORDERING"}
Settled == {"AWAITING", "REVIEW", "QUALIFIED"}
Dropped == {"RELEASED", "RELEASED_REVIEW"}

LastState(d) == d[Len(d)].state

\* Money that came within the period and before the checkout's deadline.
Timely(r, k, captured) ==
  /\ r.payment \in Payments
  /\ Within(k.period, captured[r.payment]) /\ captured[r.payment] < k.expires

\* What the state of a claim says of its row.
StateAgrees(s, r, k, captured) ==
  /\ s \in Unpaid => r.channel = "RAZORPAY" /\ r.payment = NoPayment
  /\ s = "RESERVED" => r.status = "PENDING"
  /\ s = "ORDERING" => r.status \in {"PENDING", "FAILED"} /\ ~r.ordered
  /\ s \in Settled => r.status \in Successful
  /\ s \in {"AWAITING", "REVIEW"} => r.channel = "RAZORPAY" /\ r.payment \in Payments
  /\ s = "QUALIFIED" =>
       \/ r.channel = "IN_STORE_CASH" /\ r.payment = NoPayment /\ Within(k.period, r.created)
       \/ r.channel = "RAZORPAY" /\ Timely(r, k, captured)
  /\ s = "REVERSED" => r.status = "REVERSED"
  /\ s \in Dropped => r.status = "ABANDONED"

\* A claim, with the decisions d about it, and its row.
ClaimSound(r, k, d, captured) ==
  /\ d # <<>> /\ d[1].state = "RESERVED" /\ k.period \in Periods
  /\ StateAgrees(LastState(d), r, k, captured)
  /\ \A i \in 1..Len(d) :
       /\ d[i].state = "REVERSED" => i = Len(d)
       /\ d[i].state = "RELEASED_REVIEW" => r.status = "ABANDONED"

ClaimsAreSound ==
  \A c \in Contributions :
    IF decisions[c] = <<>> THEN row[c] = NoRow
    ELSE ClaimSound(row[c], claim[c], decisions[c], captured_at)

\* An event is of a captured payment.  What its row says may be taken back by an
\* overlapping delivery; its attempts stand, and a processed one was credited.
EventSound(x, rows, paid) ==
  /\ x.status = "none" => x = Unheard
  /\ x.status # "none" => x.payment \in Payments
  /\ x.contribution # 0 => paid[x.payment] = x.contribution
  /\ "PROCESSED" \in x.attempts =>
       /\ paid[x.payment] # 0
       /\ rows[paid[x.payment]].status \in Successful
       /\ rows[paid[x.payment]].payment = x.payment
  /\ x.status = "PROCESSED" => x.contribution # 0
  /\ x.status \in Outcomes => x.status \in x.attempts
  /\ x.attempts # {} => x.identified
  /\ x.answered => x.attempts # {}
EventsAreSound == \A e \in Events : EventSound(event[e], row, paid_order)

\* A delivery under way knows the row of its event, or none.
DeliveryRecord == [at : {"idle", "find", "complete", "review", "review_late"},
                   event : Events \cup {NoEvent}, contribution : Contributions \cup {0}]
DeliverySound(x, told, rows, paid) ==
  x.at # "idle" =>
    /\ x.event \in Events /\ told[x.event].status # "none"
    /\ x.contribution # 0 => paid[told[x.event].payment] = x.contribution
    /\ x.at # "find" => told[x.event].identified
    /\ x.at \in {"complete", "review_late"} => x.contribution # 0
    /\ x.at = "review_late" => rows[x.contribution].status = "ABANDONED"
DeliveriesAreSound ==
  \A v \in Deliveries : DeliverySound(delivery[v], event, row, paid_order)

\* A decision with evidence rests on an attempt, and on money of its row's order.
EvidenceHolds(d, c, told, paid) ==
  d.event # NoEvent =>
    OutcomeFor(d) \in told[d.event].attempts /\ paid[told[d.event].payment] = c
EvidenceIsSound ==
  \A c \in Contributions : \A i \in 1..Len(decisions[c]) :
    EvidenceHolds(decisions[c][i], c, event, paid_order)

\* The provider has no order of a claim whose intent was not recorded, and one
\* request at most is about to ask for it.
OrdersAreSound ==
  \A c \in Contributions :
    decisions[c] = <<>> \/ (State(c) = "RESERVED" /\ ~row[c].ordered) => orders[c] = 0
CreatorsAreSound ==
  \A w \in Creators :
    /\ creator[w].at # "idle" => creator[w].contribution \in Claimed
    /\ creator[w].at = "order" =>
         LET c == creator[w].contribution
         IN  /\ ~row[c].ordered =>
                  State(c) = "ORDERING" /\ orders[c] = 0 /\ row[c].status = "PENDING"
             /\ \A v \in Creators : creator[v].at = "order" /\ creator[v].contribution = c => v = w

\* The schedule, claim against claim.
LiveClaims == InState(Live)
ScheduleSound ==
  /\ \A c, d \in InState(Unpaid) : c = d
  /\ \A c, d \in LiveClaims : claim[c].period = claim[d].period => c = d
  /\ Cardinality(LiveClaims) <= Required
  /\ \A i, j \in 1..Len(compensated) : compensated[i] = compensated[j] => i = j
  /\ \A i \in 1..Len(compensated) :
       EndsBefore(compensated[i]) <= now /\ \A c \in LiveClaims : claim[c].period # compensated[i]

\* The owner's review is of a claim, and of evidence.
FormSound == form = NoForm \/ (form.contribution \in Claimed /\ form.event \in Events)

MonthlyInv ==
  /\ TypeOK /\ ClaimsAreSound /\ EventsAreSound /\ DeliveriesAreSound
  /\ EvidenceIsSound /\ OrdersAreSound /\ CreatorsAreSound /\ ScheduleSound /\ FormSound

-----------------------------------------------------------------------------
(* Decisions. *)

Decisions == Seq(InstalmentPaymentDecision)

\* Decisions are only added.
Extended(old, new) == Len(old) <= Len(new) /\ \A i \in 1..Len(old) : new[i] = old[i]

LEMMA DecisionRow ==
  ASSUME NEW state \in ClaimStates, NEW code \in DecisionCodes, NEW e \in Events \cup {NoEvent}
  PROVE  /\ Decision(state, code, e) \in InstalmentPaymentDecision
         /\ Decision(state, code, e).state = state /\ Decision(state, code, e).event = e
  BY DEF Decision, InstalmentPaymentDecision

LEMMA PlainRow ==
  ASSUME NEW state \in ClaimStates, NEW code \in DecisionCodes
  PROVE  /\ Plain(state, code) \in InstalmentPaymentDecision
         /\ Plain(state, code).state = state /\ Plain(state, code).event = NoEvent
  BY DEF Plain, Decision, InstalmentPaymentDecision

\* A decision added to those of a claim.
LEMMA OneMore ==
  ASSUME NEW d \in Decisions, d # <<>>, NEW x \in InstalmentPaymentDecision
  PROVE  LET new == Append(d, x)
         IN  /\ new \in Decisions /\ new # <<>> /\ Len(new) = Len(d) + 1 /\ Extended(d, new)
             /\ LastState(new) = x.state /\ new[Len(new)] = x /\ new[1] = d[1]
             /\ \A i \in 1..Len(new) : i <= Len(d) \/ new[i] = x
<1>1. PICK new : new = Append(d, x)
  OBVIOUS
<1>2. /\ new \in Decisions /\ Len(new) = Len(d) + 1 /\ new[Len(new)] = x /\ Len(d) \in Nat
      /\ Len(d) >= 1 /\ \A i \in 1..Len(d) : new[i] = d[i]
  BY <1>1 DEF Decisions
<1>3. new # <<>> /\ Extended(d, new) /\ LastState(new) = x.state /\ new[1] = d[1]
  BY <1>2 DEF Extended, LastState
<1>4. \A i \in 1..Len(new) : i <= Len(d) \/ new[i] = x
  BY <1>2
<1>5. QED
  BY <1>1, <1>2, <1>3, <1>4

LEMMA Prefix ==
  ASSUME NEW old \in Decisions, NEW new \in Decisions, Extended(old, new)
  PROVE  SubSeq(new, 1, Len(old)) = old
<1>1. Len(old) \in Nat /\ Len(new) \in Nat /\ Len(old) <= Len(new)
  BY DEF Decisions, Extended
<1>2. /\ SubSeq(new, 1, Len(old)) \in Decisions /\ Len(SubSeq(new, 1, Len(old))) = Len(old)
      /\ \A i \in 1..Len(old) : SubSeq(new, 1, Len(old))[i] = new[i]
  BY <1>1 DEF Decisions
<1>3. QED
  BY <1>2 DEF Decisions, Extended

-----------------------------------------------------------------------------
(* What a step does to a claim and its row. *)

OnlyRow(c, r, k, d) ==
  /\ row' = [row EXCEPT ![c] = r] /\ claim' = [claim EXCEPT ![c] = k]
  /\ decisions' = [decisions EXCEPT ![c] = d]

\* The states a claim may go on to.
Move(s, t) ==
  /\ t \in Live => s \in Live
  /\ t \in Unpaid => s \in Unpaid
  /\ s \in Dropped => t \in Dropped

\* What no step takes back from a row.
RowKept(old, new) ==
  /\ old.ordered => new.ordered
  /\ old.status = "ABANDONED" => new.status = "ABANDONED"
  /\ old.status \in Successful /\ old.payment \in Payments =>
       new.status \in Successful /\ new.payment = old.payment

\* The request that asked for the claim's order gives up.
OrderLost(c) ==
  \E w \in Creators :
    /\ creator[w].at = "order" /\ creator[w].contribution = c
    /\ creator' = [creator EXCEPT ![w] = Resting]

\* An order is bound in the step that ends its intent.
IntentKept(c, r, d) ==
  ~r.ordered =>
    /\ LastState(d) = "RESERVED" => d = decisions[c]
    /\ State(c) = "ORDERING" => LastState(d) = "ORDERING"
    /\ row[c].status = "PENDING" /\ LastState(d) = "ORDERING" => r.status = "PENDING" \/ OrderLost(c)

Continued(c) ==
  \E r \in ContributionRow, d \in Decisions :
    /\ OnlyRow(c, r, claim[c], d) /\ decisions[c] # <<>>
    /\ ClaimSound(r, claim[c], d, captured_at)
    /\ Extended(decisions[c], d) /\ Move(State(c), LastState(d)) /\ RowKept(row[c], r)
    /\ State(c) = "REVERSED" => d = decisions[c]
    /\ IntentKept(c, r, d)
    /\ \A i \in 1..Len(d) : i <= Len(decisions[c]) \/ EvidenceHolds(d[i], c, event', paid_order)

Opened(c) ==
  \E r \in ContributionRow, k \in InstalmentReservation, d \in Decisions :
    /\ OnlyRow(c, r, k, d) /\ decisions[c] = <<>>
    /\ ClaimSound(r, k, d, captured_at) /\ LastState(d) \in Live
    /\ PayableExcept(0) /\ k.period \in CurrentPeriods
    /\ \A i \in 1..Len(d) : d[i].event = NoEvent

\* The step leaves every claim alone, or changes one.
ClaimStep == UNCHANGED rowVars \/ \E c \in Contributions : Opened(c) \/ Continued(c)

\* A claim as it is, with its last decision.
LEMMA ClaimTyped ==
  ASSUME LedgerTypeOK, NEW c \in Contributions
  PROVE  /\ row[c] \in ContributionRow /\ claim[c] \in InstalmentReservation /\ decisions[c] \in Decisions
         /\ decisions[c] # <<>> => LastState(decisions[c]) = State(c) /\ State(c) \in ClaimStates
         /\ Len(decisions[c]) \in Nat /\ (decisions[c] # <<>> => Len(decisions[c]) \in 1..Len(decisions[c]))
<1>1. row[c] \in ContributionRow /\ claim[c] \in InstalmentReservation /\ decisions[c] \in Decisions
  BY DEF LedgerTypeOK, Decisions
<1>2. Len(decisions[c]) \in Nat /\ (decisions[c] # <<>> => Len(decisions[c]) \in 1..Len(decisions[c]))
  BY <1>1 DEF Decisions
<1>3. decisions[c] # <<>> => decisions[c][Len(decisions[c])] \in InstalmentPaymentDecision
  BY <1>1, <1>2 DEF Decisions
<1>4. QED
  BY <1>1, <1>2, <1>3 DEF LastState, State, InstalmentPaymentDecision

\* A step that changes the row of a claim, and decides nothing.
LEMMA RowChanged ==
  ASSUME LedgerTypeOK, ClaimsAreSound, NEW c \in Contributions, decisions[c] # <<>>,
         NEW r \in ContributionRow, row' = [row EXCEPT ![c] = r], claim' = claim, decisions' = decisions,
         StateAgrees(State(c), r, claim[c], captured_at), RowKept(row[c], r),
         ~r.ordered /\ row[c].status = "PENDING" /\ State(c) = "ORDERING" => r.status = "PENDING" \/ OrderLost(c)
  PROVE  Continued(c)
<1>1. /\ decisions[c] \in Decisions /\ LastState(decisions[c]) = State(c)
      /\ Len(decisions[c]) \in Nat
  BY ClaimTyped
<1>2. OnlyRow(c, r, claim[c], decisions[c])
  BY DEF OnlyRow, LedgerTypeOK
<1>3. ClaimSound(row[c], claim[c], decisions[c], captured_at)
  BY DEF ClaimsAreSound
<1>4. ClaimSound(r, claim[c], decisions[c], captured_at)
  BY <1>1, <1>3 DEF ClaimSound, RowKept
<1>5. Extended(decisions[c], decisions[c]) /\ Move(State(c), State(c))
  BY <1>1 DEF Extended, Move
<1>6. IntentKept(c, r, decisions[c])
  BY <1>1 DEF IntentKept
<1>7. QED
  BY <1>1, <1>2, <1>4, <1>5, <1>6 DEF Continued

\* A step that decides once about a claim.
LEMMA OneDecision ==
  ASSUME LedgerTypeOK, ClaimsAreSound, NEW c \in Contributions, decisions[c] # <<>>,
         NEW r \in ContributionRow, NEW x \in InstalmentPaymentDecision,
         row' = [row EXCEPT ![c] = r], claim' = claim,
         decisions' = [decisions EXCEPT ![c] = Append(decisions[c], x)],
         StateAgrees(x.state, r, claim[c], captured_at), State(c) # "REVERSED",
         Move(State(c), x.state), RowKept(row[c], r), EvidenceHolds(x, c, event', paid_order),
         ~r.ordered => /\ x.state # "RESERVED" /\ (State(c) = "ORDERING" => x.state = "ORDERING")
                       /\ (row[c].status = "PENDING" /\ x.state = "ORDERING" => r.status = "PENDING")
  PROVE  Continued(c)
<1>1. /\ decisions[c] \in Decisions /\ LastState(decisions[c]) = State(c)
      /\ Len(decisions[c]) \in 1..Len(decisions[c]) /\ Len(decisions[c]) \in Nat
  BY ClaimTyped
<1>2. PICK d : d = Append(decisions[c], x)
  OBVIOUS
<1>3. /\ d \in Decisions /\ d # <<>> /\ Len(d) = Len(decisions[c]) + 1 /\ Extended(decisions[c], d)
      /\ LastState(d) = x.state /\ d[Len(d)] = x /\ d[1] = decisions[c][1]
      /\ \A i \in 1..Len(d) : i <= Len(decisions[c]) \/ d[i] = x
  BY <1>1, <1>2, OneMore
<1>4. OnlyRow(c, r, claim[c], d)
  BY <1>2 DEF OnlyRow, LedgerTypeOK
<1>5. ClaimSound(row[c], claim[c], decisions[c], captured_at)
  BY DEF ClaimsAreSound
<1>6. ASSUME NEW i \in 1..Len(d)
      PROVE  /\ d[i].state = "REVERSED" => i = Len(d)
             /\ d[i].state = "RELEASED_REVIEW" => r.status = "ABANDONED"
  <2>1. CASE i <= Len(decisions[c])
    <3>1. i \in 1..Len(decisions[c]) /\ d[i] = decisions[c][i]
      BY <1>1, <1>3, <2>1 DEF Extended
    <3>2. decisions[c][i].state # "REVERSED"
      BY <1>1, <1>5, <3>1 DEF ClaimSound, LastState
    <3>3. decisions[c][i].state = "RELEASED_REVIEW" => row[c].status = "ABANDONED"
      BY <1>5, <3>1 DEF ClaimSound
    <3>4. QED
      BY <3>1, <3>2, <3>3 DEF RowKept
  <2>2. CASE d[i] = x /\ i > Len(decisions[c])
    BY <1>1, <1>3, <2>2 DEF StateAgrees, Dropped
  <2>3. QED
    BY <1>1, <1>3, <2>1, <2>2
<1>7. ClaimSound(r, claim[c], d, captured_at)
  BY <1>3, <1>5, <1>6 DEF ClaimSound
<1>8. IntentKept(c, r, d)
  BY <1>3 DEF IntentKept
<1>9. \A i \in 1..Len(d) : i <= Len(decisions[c]) \/ EvidenceHolds(d[i], c, event', paid_order)
  BY <1>3
<1>10. QED
  BY <1>3, <1>4, <1>7, <1>8, <1>9 DEF Continued

\* Rows without a claim are rows that were never made.
LEMMA RowsAndClaims ==
  ASSUME MonthlyInv, NEW c \in Contributions
  PROVE  /\ c \in Claimed <=> decisions[c] # <<>>
         /\ c \in Rows <=> decisions[c] # <<>>
         /\ decisions[c] # <<>> =>
              /\ State(c) \in ClaimStates /\ StateAgrees(State(c), row[c], claim[c], captured_at)
              /\ claim[c].period \in Periods
<1>1. LedgerTypeOK /\ ClaimsAreSound
  BY DEF MonthlyInv, TypeOK
<1>2. CASE decisions[c] = <<>>
  <2>1. row[c] = NoRow
    BY <1>1, <1>2 DEF ClaimsAreSound
  <2>2. row[c].status = "none"
    BY <2>1 DEF NoRow
  <2>3. QED
    BY <1>2, <2>2 DEF Claimed, Rows
<1>3. CASE decisions[c] # <<>>
  <2>1. ClaimSound(row[c], claim[c], decisions[c], captured_at)
    BY <1>1, <1>3 DEF ClaimsAreSound
  <2>2. State(c) \in ClaimStates /\ StateAgrees(State(c), row[c], claim[c], captured_at)
    BY <1>1, <1>3, <2>1, ClaimTyped DEF ClaimSound
  <2>3. row[c].status # "none"
    BY <2>2 DEF StateAgrees, ClaimStates, Settled, Dropped, Successful
  <2>4. QED
    BY <1>3, <2>1, <2>2, <2>3 DEF Claimed, Rows, ClaimSound
<1>4. QED
  BY <1>2, <1>3

LEMMA PeriodsInUse ==
  ASSUME LedgerTypeOK, NEW p \in CurrentPeriods
  PROVE  p \in Periods /\ Within(p, now) /\ EndsBefore(p) \in Nat /\ now \in Nat
<1>1. Len(compensated) \in Nat /\ Len(compensated) <= MaxExtra /\ now \in Nat
  BY InstalmentAssumption DEF LedgerTypeOK, IsCompensations, Periods
<1>2. p \in 1..BasePeriods + Len(compensated) /\ Within(p, now)
  BY DEF CurrentPeriods, Scheduled
<1>3. p \in Periods /\ p \in Nat
  BY <1>1, <1>2, InstalmentAssumption DEF Periods
<1>4. QED
  BY <1>1, <1>2, <1>3 DEF EndsBefore

LEMMA ReservedClaim ==
  ASSUME MonthlyInv, NEW c \in Contributions, NEW p \in CurrentPeriods,
         PayableExcept(0), NewContribution(c), Reserve(c, p)
  PROVE  Opened(c)
<1>t. LedgerTypeOK /\ decisions[c] = <<>>
  BY RowsAndClaims DEF MonthlyInv, TypeOK, NewContribution
<1>1. p \in Periods /\ EndsBefore(p) \in Nat /\ now \in Nat /\ now \in 0..MaxTime
  BY <1>t, PeriodsInUse DEF LedgerTypeOK
<1>2. PICK r : r = [NoRow EXCEPT !.channel = "RAZORPAY", !.status = "PENDING", !.created = now]
  OBVIOUS
<1>3. /\ r = [channel |-> "RAZORPAY", status |-> "PENDING", ordered |-> FALSE,
              payment |-> NoPayment, created |-> now]
  BY <1>2 DEF NoRow
<1>4. /\ r \in ContributionRow /\ r.channel = "RAZORPAY" /\ r.status = "PENDING"
      /\ r.payment = NoPayment
  BY <1>1, <1>3 DEF ContributionRow
<1>5. PICK expires : expires = Minimum(EndsBefore(p), now + CheckoutTicks)
  OBVIOUS
<1>6. expires \in Nat
  BY <1>1, <1>5, InstalmentAssumption DEF Minimum
<1>7. PICK k : k = [period |-> p, expires |-> expires]
  OBVIOUS
<1>8. k \in InstalmentReservation /\ k.period = p
  BY <1>1, <1>6, <1>7 DEF InstalmentReservation
<1>9. PICK x : x = Plain("RESERVED", "CURRENT_PERIOD_RESERVED")
  OBVIOUS
<1>10. x \in InstalmentPaymentDecision /\ x.state = "RESERVED" /\ x.event = NoEvent
  BY <1>9 DEF Plain, Decision, InstalmentPaymentDecision, ClaimStates, DecisionCodes
<1>11. PICK d : d = <<x>>
  OBVIOUS
<1>12. d \in Decisions /\ Len(d) = 1 /\ d[1] = x /\ d # <<>> /\ LastState(d) = "RESERVED"
  BY <1>10, <1>11 DEF Decisions, LastState
<1>13. OnlyRow(c, r, k, d)
  <2>1. row' = [row EXCEPT ![c] = r] /\ claim' = [claim EXCEPT ![c] = k]
    BY <1>2, <1>5, <1>7 DEF Reserve
  <2>2. decisions' = [decisions EXCEPT ![c] = Append(<<>>, x)]
    BY <1>t, <1>9 DEF Reserve, AppendDecision
  <2>3. Append(<<>>, x) = d
    BY <1>11
  <2>4. QED
    BY <2>1, <2>2, <2>3 DEF OnlyRow
<1>14. ClaimSound(r, k, d, captured_at)
  BY <1>1, <1>4, <1>8, <1>10, <1>12
  DEF ClaimSound, StateAgrees, Unpaid, Settled, Dropped
<1>15. LastState(d) \in Live /\ k.period \in CurrentPeriods
       /\ \A i \in 1..Len(d) : d[i].event = NoEvent
  BY <1>8, <1>10, <1>12 DEF Live
<1>16. QED
  BY <1>t, <1>4, <1>8, <1>12, <1>13, <1>14, <1>15 DEF Opened

LEMMA CashClaim ==
  ASSUME MonthlyInv, NEW c \in Contributions, NEW p \in Periods, RecordCash(c, p)
  PROVE  Opened(c)
<1>t. LedgerTypeOK /\ decisions[c] = <<>> /\ p \in CurrentPeriods /\ PayableExcept(0)
  BY RowsAndClaims DEF MonthlyInv, TypeOK, NewContribution, RecordCash
<1>1. EndsBefore(p) \in Nat /\ now \in 0..MaxTime /\ Within(p, now)
  BY <1>t, PeriodsInUse DEF LedgerTypeOK
<1>2. PICK r : r = [NoRow EXCEPT !.channel = "IN_STORE_CASH", !.status = "PAID_UNALLOCATED",
                                 !.created = now]
  OBVIOUS
<1>3. r = [channel |-> "IN_STORE_CASH", status |-> "PAID_UNALLOCATED", ordered |-> FALSE,
           payment |-> NoPayment, created |-> now]
  BY <1>2 DEF NoRow
<1>4. /\ r \in ContributionRow /\ r.channel = "IN_STORE_CASH" /\ r.status = "PAID_UNALLOCATED"
      /\ r.payment = NoPayment /\ r.created = now
  BY <1>1, <1>3 DEF ContributionRow, Successful
<1>5. PICK k : k = [period |-> p, expires |-> EndsBefore(p)]
  OBVIOUS
<1>6. k \in InstalmentReservation /\ k.period = p
  BY <1>1, <1>5 DEF InstalmentReservation
<1>7. PICK x, y : /\ x = Plain("RESERVED", "CURRENT_PERIOD_RESERVED")
                  /\ y = Plain("QUALIFIED", "VERIFIED_WITHIN_PERIOD")
  OBVIOUS
<1>8. /\ x \in InstalmentPaymentDecision /\ x.state = "RESERVED" /\ x.event = NoEvent
      /\ y \in InstalmentPaymentDecision /\ y.state = "QUALIFIED" /\ y.event = NoEvent
  BY <1>7 DEF Plain, Decision, InstalmentPaymentDecision, ClaimStates, DecisionCodes
<1>9. PICK d : d = <<x, y>>
  OBVIOUS
<1>10. /\ d \in Decisions /\ Len(d) = 2 /\ d[1] = x /\ d[2] = y /\ d # <<>>
       /\ LastState(d) = "QUALIFIED" /\ \A i \in 1..Len(d) : i = 1 \/ i = 2
  BY <1>8, <1>9 DEF Decisions, LastState
<1>11. OnlyRow(c, r, k, d)
  BY <1>2, <1>5, <1>7, <1>9 DEF OnlyRow, RecordCash
<1>12. StateAgrees("QUALIFIED", r, k, captured_at)
  BY <1>1, <1>4, <1>6 DEF StateAgrees, Unpaid, Settled, Dropped, Successful
<1>13. ClaimSound(r, k, d, captured_at)
  BY <1>6, <1>8, <1>10, <1>12 DEF ClaimSound
<1>14. LastState(d) \in Live /\ k.period \in CurrentPeriods
       /\ \A i \in 1..Len(d) : d[i].event = NoEvent
  BY <1>t, <1>6, <1>8, <1>10 DEF Live
<1>15. QED
  BY <1>t, <1>4, <1>6, <1>10, <1>11, <1>13, <1>14 DEF Opened

LEMMA ReversedClaim ==
  ASSUME MonthlyInv, NEW c \in Contributions, ReverseCash(c)
  PROVE  Continued(c)
<1>t. /\ LedgerTypeOK /\ ClaimsAreSound /\ row[c] \in ContributionRow /\ NoPayment \notin Payments
      /\ row[c].channel = "IN_STORE_CASH" /\ row[c].status \in Successful
  BY InstalmentAssumption DEF MonthlyInv, TypeOK, LedgerTypeOK, ReverseCash
<1>1. decisions[c] # <<>>
  BY <1>t, RowsAndClaims DEF Rows, Successful
<1>2. State(c) = "QUALIFIED" /\ row[c].payment = NoPayment
  <2>1. State(c) \in ClaimStates /\ StateAgrees(State(c), row[c], claim[c], captured_at)
    BY <1>1, RowsAndClaims
  <2>2. QED
    BY <1>t, <2>1 DEF StateAgrees, ClaimStates, Unpaid, Settled, Dropped, Successful
<1>3. PICK r : r = [row[c] EXCEPT !.status = "REVERSED"]
  OBVIOUS
<1>4. r \in ContributionRow /\ r.status = "REVERSED" /\ RowKept(row[c], r)
  BY <1>t, <1>2, <1>3 DEF ContributionRow, RowKept, Successful
<1>5. PICK x : x = Plain("REVERSED", "CASH_ENTRY_REVERSED")
  OBVIOUS
<1>6. x \in InstalmentPaymentDecision /\ x.state = "REVERSED" /\ x.event = NoEvent
  BY <1>5 DEF Plain, Decision, InstalmentPaymentDecision, ClaimStates, DecisionCodes
<1>7. /\ row' = [row EXCEPT ![c] = r] /\ claim' = claim
      /\ decisions' = [decisions EXCEPT ![c] = Append(decisions[c], x)]
  BY <1>3, <1>5 DEF ReverseCash, AppendDecision
<1>8. /\ StateAgrees(x.state, r, claim[c], captured_at) /\ State(c) # "REVERSED"
      /\ Move(State(c), x.state) /\ EvidenceHolds(x, c, event', paid_order)
      /\ x.state # "RESERVED" /\ State(c) # "ORDERING" /\ x.state # "ORDERING"
  BY <1>2, <1>4, <1>6
  DEF StateAgrees, Move, EvidenceHolds, Live, Unpaid, Settled, Dropped
<1>9. QED
  BY <1>t, <1>1, <1>4, <1>6, <1>7, <1>8, OneDecision

LEMMA AllocatedRow ==
  ASSUME MonthlyInv, NEW c \in Contributions, AllocateLater(c)
  PROVE  Continued(c)
<1>t. /\ LedgerTypeOK /\ ClaimsAreSound /\ row[c] \in ContributionRow
      /\ row[c].status = "PAID_UNALLOCATED"
  BY DEF MonthlyInv, TypeOK, LedgerTypeOK, AllocateLater
<1>1. decisions[c] # <<>>
  BY <1>t, RowsAndClaims DEF Rows
<1>2. StateAgrees(State(c), row[c], claim[c], captured_at) /\ State(c) \in ClaimStates
  BY <1>1, RowsAndClaims
<1>3. PICK r : r = [row[c] EXCEPT !.status = "PAID"]
  OBVIOUS
<1>4. /\ r \in ContributionRow /\ r.status = "PAID" /\ RowKept(row[c], r) /\ r.channel = row[c].channel
      /\ r.payment = row[c].payment /\ r.created = row[c].created /\ r.ordered = row[c].ordered
  BY <1>t, <1>3 DEF ContributionRow, RowKept, Successful
<1>5. row' = [row EXCEPT ![c] = r] /\ claim' = claim /\ decisions' = decisions
  BY <1>3 DEF AllocateLater
<1>6. StateAgrees(State(c), r, claim[c], captured_at) /\ State(c) \notin Unpaid
  BY <1>t, <1>2, <1>4 DEF StateAgrees, Timely, Unpaid, Settled, Dropped, Successful
<1>7. QED
  BY <1>t, <1>1, <1>4, <1>5, <1>6, RowChanged DEF Unpaid

\* The intent of an order, and the order bound to it.
LEMMA IntendedClaim ==
  ASSUME MonthlyInv, NEW w \in Creators, BeginOrderRequest(w)
  PROVE  UNCHANGED rowVars \/ \E c \in Contributions : Continued(c)
<1>1. PICK c : c = creator[w].contribution /\ c \in Contributions /\ decisions[c] # <<>>
  BY RowsAndClaims DEF MonthlyInv, CreatorsAreSound, BeginOrderRequest, CreatorAt, Claimed
<1>t. LedgerTypeOK /\ ClaimsAreSound /\ row[c] \in ContributionRow
  BY <1>1 DEF MonthlyInv, TypeOK, LedgerTypeOK
<1>2. CASE UNCHANGED decisions
  BY <1>2 DEF BeginOrderRequest, rowVars
<1>3. PICK x : x = Plain("ORDERING", "PROVIDER_ORDER_REQUEST_STARTED")
  OBVIOUS
<1>4. x \in InstalmentPaymentDecision /\ x.state = "ORDERING" /\ x.event = NoEvent
  BY <1>3 DEF Plain, Decision, InstalmentPaymentDecision, ClaimStates, DecisionCodes
<1>5. CASE /\ row[c].status = "PENDING" /\ State(c) = "RESERVED" /\ ~row[c].ordered
           /\ AppendDecision(c, Plain("ORDERING", "PROVIDER_ORDER_REQUEST_STARTED"))
  <2>1. /\ row' = [row EXCEPT ![c] = row[c]] /\ claim' = claim
        /\ decisions' = [decisions EXCEPT ![c] = Append(decisions[c], x)]
    BY <1>t, <1>3, <1>5 DEF BeginOrderRequest, AppendDecision, LedgerTypeOK
  <2>2. StateAgrees("RESERVED", row[c], claim[c], captured_at)
    BY <1>1, <1>5, RowsAndClaims
  <2>3. /\ StateAgrees(x.state, row[c], claim[c], captured_at) /\ State(c) # "REVERSED"
        /\ Move(State(c), x.state) /\ RowKept(row[c], row[c]) /\ EvidenceHolds(x, c, event', paid_order)
        /\ x.state # "RESERVED" /\ State(c) # "ORDERING"
    BY <1>4, <1>5, <2>2
    DEF StateAgrees, Move, RowKept, EvidenceHolds, Live, Unpaid, Settled, Dropped
  <2>4. QED
    BY <1>t, <1>1, <1>4, <1>5, <2>1, <2>3, OneDecision
<1>6. QED
  BY <1>1, <1>2, <1>5 DEF BeginOrderRequest

LEMMA OrderedClaim ==
  ASSUME MonthlyInv, NEW c \in Contributions, c \in InState({"ORDERING"}), ~row[c].ordered,
         NEW code \in DecisionCodes, NEW r \in ContributionRow,
         r.ordered, r.status = "PENDING", r.channel = row[c].channel, r.payment = row[c].payment,
         row' = [row EXCEPT ![c] = r], claim' = claim,
         AppendDecision(c, Plain("RESERVED", code))
  PROVE  Continued(c)
<1>t. LedgerTypeOK /\ ClaimsAreSound /\ decisions[c] # <<>> /\ State(c) = "ORDERING"
  BY DEF MonthlyInv, TypeOK, InState, Claimed
<1>1. PICK x : x = Plain("RESERVED", code)
  OBVIOUS
<1>2. x \in InstalmentPaymentDecision /\ x.state = "RESERVED" /\ x.event = NoEvent
  BY <1>1 DEF Plain, Decision, InstalmentPaymentDecision, ClaimStates
<1>3. decisions' = [decisions EXCEPT ![c] = Append(decisions[c], x)]
  BY <1>1 DEF AppendDecision
<1>4. StateAgrees("ORDERING", row[c], claim[c], captured_at)
  BY <1>t, RowsAndClaims
<1>5. /\ StateAgrees(x.state, r, claim[c], captured_at) /\ State(c) # "REVERSED"
      /\ Move(State(c), x.state) /\ RowKept(row[c], r) /\ EvidenceHolds(x, c, event', paid_order)
  BY <1>t, <1>2, <1>4
  DEF StateAgrees, Move, RowKept, EvidenceHolds, Live, Unpaid, Settled, Dropped, Successful
<1>6. QED
  BY <1>t, <1>2, <1>3, <1>5, OneDecision

LEMMA CreatedOrder ==
  ASSUME MonthlyInv, NEW w \in Creators, OrderCreated(w)
  PROVE  \E c \in Contributions : Continued(c)
<1>1. PICK c : c = creator[w].contribution /\ c \in Contributions /\ c \in Claimed
  BY DEF MonthlyInv, CreatorsAreSound, OrderCreated, CreatorAt, Claimed
<1>2. row[c] \in ContributionRow /\ ~row[c].ordered /\ row[c].status = "PENDING" /\ State(c) = "ORDERING"
  BY <1>1 DEF MonthlyInv, TypeOK, LedgerTypeOK, CreatorsAreSound, OrderCreated, CreatorAt
<1>3. PICK r : r = [row[c] EXCEPT !.ordered = TRUE]
  OBVIOUS
<1>4. /\ r \in ContributionRow /\ r.ordered /\ r.status = "PENDING" /\ r.channel = row[c].channel
      /\ r.payment = row[c].payment
  BY <1>2, <1>3 DEF ContributionRow
<1>5. /\ row' = [row EXCEPT ![c] = r] /\ claim' = claim
      /\ AppendDecision(c, Plain("RESERVED", "PROVIDER_ORDER_RECORDED"))
  BY <1>1, <1>3 DEF OrderCreated
<1>6. c \in InState({"ORDERING"}) /\ "PROVIDER_ORDER_RECORDED" \in DecisionCodes
  BY <1>1, <1>2 DEF InState, DecisionCodes
<1>7. Continued(c)
  BY <1>1, <1>2, <1>4, <1>5, <1>6, OrderedClaim
<1>8. QED
  BY <1>1, <1>7

LEMMA RecoveredOrder ==
  ASSUME MonthlyInv, NEW c \in Contributions, RecoverOrder(c)
  PROVE  Continued(c)
<1>1. row[c] \in ContributionRow /\ ~row[c].ordered /\ c \in InState({"ORDERING"})
  BY DEF MonthlyInv, TypeOK, LedgerTypeOK, RecoverOrder
<1>2. PICK r : r = [row[c] EXCEPT !.ordered = TRUE, !.status = "PENDING"]
  OBVIOUS
<1>3. /\ r \in ContributionRow /\ r.ordered /\ r.status = "PENDING" /\ r.channel = row[c].channel
      /\ r.payment = row[c].payment
  BY <1>1, <1>2 DEF ContributionRow
<1>4. row' = [row EXCEPT ![c] = r]
  <2>1. row' = [row EXCEPT ![c].ordered = TRUE, ![c].status = "PENDING"]
    BY DEF RecoverOrder
  <2>2. row \in [Contributions -> ContributionRow]
    BY DEF MonthlyInv, TypeOK, LedgerTypeOK
  <2>3. QED
    BY <1>2, <2>1, <2>2
<1>5. claim' = claim /\ AppendDecision(c, Plain("RESERVED", "PROVIDER_ORDER_RECOVERED"))
      /\ "PROVIDER_ORDER_RECOVERED" \in DecisionCodes
  BY DEF RecoverOrder, DecisionCodes
<1>6. QED
  BY <1>1, <1>3, <1>4, <1>5, OrderedClaim

\* The order that failed leaves its intent behind.
LEMMA FailedOrder ==
  ASSUME MonthlyInv, NEW w \in Creators, OrderFails(w)
  PROVE  \E c \in Contributions : Continued(c)
<1>1. PICK c : c = creator[w].contribution /\ c \in Contributions /\ decisions[c] # <<>>
  BY DEF MonthlyInv, CreatorsAreSound, OrderFails, CreatorAt, Claimed
<1>2. /\ LedgerTypeOK /\ ClaimsAreSound /\ row[c] \in ContributionRow
      /\ ~row[c].ordered /\ State(c) = "ORDERING"
  BY <1>1 DEF MonthlyInv, TypeOK, LedgerTypeOK, OrderFails, StillPayable
<1>3. PICK r : r = [row[c] EXCEPT !.status = "FAILED"]
  OBVIOUS
<1>4. /\ r \in ContributionRow /\ r.ordered = row[c].ordered /\ r.status = "FAILED"
      /\ r.channel = row[c].channel /\ r.payment = row[c].payment
  BY <1>2, <1>3 DEF ContributionRow
<1>5. row' = [row EXCEPT ![c] = r] /\ claim' = claim /\ decisions' = decisions
  BY <1>1, <1>3 DEF OrderFails
<1>6. StateAgrees("ORDERING", row[c], claim[c], captured_at)
  BY <1>1, <1>2, RowsAndClaims
<1>7. StateAgrees(State(c), r, claim[c], captured_at) /\ RowKept(row[c], r)
  BY <1>2, <1>4, <1>6
  DEF StateAgrees, RowKept, Unpaid, Settled, Dropped, Successful
<1>8. OrderLost(c)
  BY <1>1 DEF OrderLost, OrderFails, CreatorAt, Rest
<1>9. Continued(c)
  BY <1>1, <1>2, <1>4, <1>5, <1>7, <1>8, RowChanged
<1>10. QED
  BY <1>1, <1>9

LEMMA ReleasedClaim ==
  ASSUME MonthlyInv, NEW c \in Contributions, ReleaseClaim(c)
  PROVE  Continued(c)
<1>t. /\ LedgerTypeOK /\ ClaimsAreSound /\ row[c] \in ContributionRow
      /\ row[c].status = "PENDING" /\ State(c) = "RESERVED"
  BY DEF MonthlyInv, TypeOK, LedgerTypeOK, ReleaseClaim
<1>1. decisions[c] # <<>>
  BY <1>t, RowsAndClaims DEF Rows
<1>2. PICK r : r = [row[c] EXCEPT !.status = "ABANDONED"]
  OBVIOUS
<1>3. r \in ContributionRow /\ r.status = "ABANDONED" /\ RowKept(row[c], r)
  BY <1>t, <1>2 DEF ContributionRow, RowKept, Successful
<1>4. PICK x : x = Plain("RELEASED", "UNTOUCHED_ORDER_RECONCILED")
  OBVIOUS
<1>5. x \in InstalmentPaymentDecision /\ x.state = "RELEASED" /\ x.event = NoEvent
  BY <1>4 DEF Plain, Decision, InstalmentPaymentDecision, ClaimStates, DecisionCodes
<1>6. /\ row' = [row EXCEPT ![c] = r] /\ claim' = claim
      /\ decisions' = [decisions EXCEPT ![c] = Append(decisions[c], x)]
  BY <1>2, <1>4 DEF ReleaseClaim, AppendDecision
<1>7. /\ StateAgrees(x.state, r, claim[c], captured_at) /\ State(c) # "REVERSED"
      /\ Move(State(c), x.state) /\ EvidenceHolds(x, c, event', paid_order)
      /\ x.state # "RESERVED" /\ State(c) # "ORDERING" /\ x.state # "ORDERING"
  BY <1>t, <1>3, <1>5
  DEF StateAgrees, Move, EvidenceHolds, Live, Unpaid, Settled, Dropped
<1>8. QED
  BY <1>t, <1>1, <1>3, <1>5, <1>6, <1>7, OneDecision

\* Timing evidence qualifies a claim only for timely money.
LEMMA TimingSound ==
  ASSUME MonthlyInv, NEW c \in Contributions, decisions[c] # <<>>, NEW e \in Events,
         NEW r, r.payment = event[e].payment, r.payment \in Payments
  PROVE  /\ TimingState(c, e) \in InstalmentPaymentDecision /\ TimingState(c, e).event = e
         /\ TimingState(c, e).state \in {"REVIEW", "QUALIFIED"}
         /\ TimingState(c, e).state = "QUALIFIED" => Timely(r, claim[c], captured_at)
<1>1. /\ captured_at[r.payment] \in Int /\ claim[c].expires \in Int /\ event[e].timed \in BOOLEAN
  BY InstalmentAssumption
  DEF MonthlyInv, TypeOK, LedgerTypeOK, InstalmentReservation, PaymentWebhookEvent
<1>2. /\ Decision("QUALIFIED", "VERIFIED_WITHIN_PERIOD", e).state = "QUALIFIED"
      /\ Decision("REVIEW", "MISSING_PROVIDER_TIMING", e).state = "REVIEW"
      /\ Decision("REVIEW", "PERIOD_BOUNDARY_REVIEW", e).state = "REVIEW"
      /\ Decision("REVIEW", "CHECKOUT_DEADLINE_REVIEW", e).state = "REVIEW"
  BY DEF Decision
<1>3. CASE event[e].timed /\ Timely(r, claim[c], captured_at)
  <2>1. TimingState(c, e) = Decision("QUALIFIED", "VERIFIED_WITHIN_PERIOD", e)
    BY <1>1, <1>3 DEF TimingState, Timely
  <2>2. QED
    BY <1>3, <2>1 DEF Decision, InstalmentPaymentDecision, ClaimStates, DecisionCodes
<1>4. CASE ~(event[e].timed /\ Timely(r, claim[c], captured_at))
  <2>1. \/ TimingState(c, e) = Decision("REVIEW", "MISSING_PROVIDER_TIMING", e)
        \/ TimingState(c, e) = Decision("REVIEW", "PERIOD_BOUNDARY_REVIEW", e)
        \/ TimingState(c, e) = Decision("REVIEW", "CHECKOUT_DEADLINE_REVIEW", e)
    BY <1>1, <1>4 DEF TimingState, Timely
  <2>2. QED
    BY <1>2, <2>1 DEF Decision, InstalmentPaymentDecision, ClaimStates, DecisionCodes
<1>5. QED
  BY <1>3, <1>4

LEMMA AttributedSound ==
  ASSUME MonthlyInv, NEW c \in Contributions, decisions[c] # <<>>, NEW e \in Events,
         NEW r, r.payment = event[e].payment, r.payment \in Payments,
         NEW d \in Decisions, d # <<>>
  PROVE  \/ Attributed(d, c, e) = d
         \/ \E x \in InstalmentPaymentDecision :
              /\ Attributed(d, c, e) = Append(d, x) /\ x.event = e
              /\ x.state \in {"REVIEW", "QUALIFIED"}
              /\ x.state = "QUALIFIED" => Timely(r, claim[c], captured_at)
<1>1. PICK t : t = TimingState(c, e)
  OBVIOUS
<1>2. /\ t \in InstalmentPaymentDecision /\ t.event = e /\ t.state \in {"REVIEW", "QUALIFIED"}
      /\ t.state = "QUALIFIED" => Timely(r, claim[c], captured_at)
  BY <1>1, TimingSound
<1>3. PICK x : x = Decision("REVIEW", "PRIOR_REVIEW_UNRESOLVED", e)
  OBVIOUS
<1>4. x \in InstalmentPaymentDecision /\ x.event = e /\ x.state = "REVIEW"
  BY <1>3 DEF Decision, InstalmentPaymentDecision, ClaimStates, DecisionCodes
<1>5. Attributed(d, c, e) = d \/ Attributed(d, c, e) = Append(d, x) \/ Attributed(d, c, e) = Append(d, t)
  BY <1>1, <1>3 DEF Attributed
<1>6. QED
  BY <1>2, <1>4, <1>5

LEMMA NotedSound ==
  ASSUME NEW d \in Decisions, d # <<>>, LastState(d) \in {"RESERVED"} \cup Settled
  PROVE  \/ Noted(d) = d /\ LastState(d) \in Settled
         \/ \E x \in InstalmentPaymentDecision :
              /\ Noted(d) = Append(d, x) /\ x.event = NoEvent /\ x.state = "AWAITING"
              /\ LastState(d) = "RESERVED"
<1>1. PICK x : x = Plain("AWAITING", "VERIFIED_TIMING_PENDING")
  OBVIOUS
<1>2. x \in InstalmentPaymentDecision /\ x.event = NoEvent /\ x.state = "AWAITING"
  BY <1>1 DEF Plain, Decision, InstalmentPaymentDecision, ClaimStates, DecisionCodes
<1>3. QED
  BY <1>1, <1>2 DEF Noted, LastState, Settled

\* Money confirmed for a claim: the row is successful, with that payment.
LEMMA ConfirmedRow ==
  ASSUME MonthlyInv, NEW c \in Contributions, NEW p \in Payments, ConfirmRow(c, p)
  PROVE  /\ decisions[c] # <<>> /\ State(c) \in {"RESERVED"} \cup Settled
         /\ row[c].status = "PENDING" <=> State(c) = "RESERVED"
         /\ \E r \in ContributionRow :
              /\ row' = [row EXCEPT ![c] = r] /\ r.status \in Successful /\ r.payment = p
              /\ r.channel = "RAZORPAY" /\ RowKept(row[c], r)
              /\ r = row[c] \/ State(c) = "RESERVED"
<1>t. /\ row \in [Contributions -> ContributionRow] /\ row[c] \in ContributionRow
      /\ NoPayment \notin Payments /\ LedgerTypeOK
  BY InstalmentAssumption DEF MonthlyInv, TypeOK, LedgerTypeOK
<1>1. decisions[c] # <<>>
  BY RowsAndClaims DEF Rows, ConfirmRow, Confirmed, Successful
<1>2. State(c) \in ClaimStates /\ StateAgrees(State(c), row[c], claim[c], captured_at)
  BY <1>1, RowsAndClaims
<1>3. State(c) \in {"RESERVED"} \cup Settled
  BY <1>1 DEF ConfirmRow, Notable, Settled, State
<1>4. row[c].status = "PENDING" <=> State(c) = "RESERVED"
  BY <1>2, <1>3 DEF StateAgrees, Settled, Successful
<1>5. CASE /\ row[c].status = "PENDING"
           /\ \E s \in Successful : row' = [row EXCEPT ![c].status = s, ![c].payment = p]
  <2>1. PICK s \in Successful : row' = [row EXCEPT ![c].status = s, ![c].payment = p]
    BY <1>5
  <2>2. PICK r : r = [row[c] EXCEPT !.status = s, !.payment = p]
    OBVIOUS
  <2>3. /\ r \in ContributionRow /\ r.status \in Successful /\ r.payment = p
        /\ r.channel = row[c].channel /\ RowKept(row[c], r)
    BY <1>t, <1>5, <2>2 DEF ContributionRow, RowKept, Successful
  <2>4. row' = [row EXCEPT ![c] = r]
    BY <1>t, <2>1, <2>2
  <2>5. row[c].channel = "RAZORPAY"
    BY <1>2, <1>4, <1>5 DEF StateAgrees, Unpaid
  <2>6. QED
    BY <1>1, <1>3, <1>4, <1>5, <2>3, <2>4, <2>5
<1>6. CASE Confirmed(c, p) /\ UNCHANGED row
  <2>1. row' = [row EXCEPT ![c] = row[c]]
    BY <1>t, <1>6
  <2>2. row[c].status \in Successful /\ row[c].payment = p
    BY <1>6 DEF Confirmed
  <2>3. row[c].channel = "RAZORPAY"
    BY <1>t, <1>2, <1>3, <2>2 DEF StateAgrees, Unpaid, Settled, Successful
  <2>4. QED
    BY <1>t, <1>1, <1>3, <1>4, <2>1, <2>2, <2>3 DEF RowKept
<1>7. QED
  BY <1>5, <1>6 DEF ConfirmRow

\* Decisions that follow money: of evidence, or that funds are proved.
LEMMA PaidClaim ==
  ASSUME MonthlyInv, NEW c \in Contributions, decisions[c] # <<>>,
         State(c) \in {"RESERVED"} \cup Settled,
         NEW r \in ContributionRow, r.status \in Successful, RowKept(row[c], r),
         NEW d \in Decisions, d # <<>>, Extended(decisions[c], d),
         LastState(d) \in Settled, StateAgrees(LastState(d), r, claim[c], captured_at),
         \A i \in 1..Len(d) : i <= Len(decisions[c])
                              \/ (d[i].state \in Settled /\ EvidenceHolds(d[i], c, event', paid_order)),
         row' = [row EXCEPT ![c] = r], claim' = claim, decisions' = [decisions EXCEPT ![c] = d]
  PROVE  Continued(c)
<1>1. /\ LedgerTypeOK /\ decisions[c] \in Decisions /\ LastState(decisions[c]) = State(c)
      /\ Len(decisions[c]) \in 1..Len(decisions[c]) /\ Len(decisions[c]) \in Nat
  BY ClaimTyped DEF MonthlyInv, TypeOK
<1>2. OnlyRow(c, r, claim[c], d)
  BY <1>1 DEF OnlyRow, LedgerTypeOK
<1>3. ClaimSound(row[c], claim[c], decisions[c], captured_at)
  BY DEF MonthlyInv, ClaimsAreSound
<1>4. ASSUME NEW i \in 1..Len(d)
      PROVE  d[i].state # "REVERSED" /\ (d[i].state = "RELEASED_REVIEW" => r.status = "ABANDONED")
  <2>1. CASE i <= Len(decisions[c])
    <3>1. i \in 1..Len(decisions[c]) /\ d[i] = decisions[c][i]
      BY <1>1, <2>1 DEF Extended
    <3>2. decisions[c][i].state # "REVERSED"
      BY <1>1, <1>3, <3>1 DEF ClaimSound, LastState, Settled
    <3>3. decisions[c][i].state = "RELEASED_REVIEW" => row[c].status = "ABANDONED"
      BY <1>3, <3>1 DEF ClaimSound
    <3>4. QED
      BY <3>1, <3>2, <3>3 DEF RowKept
  <2>2. CASE d[i].state \in Settled
    BY <2>2 DEF Settled
  <2>3. QED
    BY <2>1, <2>2
<1>5. d[1] = decisions[c][1]
  BY <1>1 DEF Extended
<1>6. ClaimSound(r, claim[c], d, captured_at)
  BY <1>3, <1>4, <1>5 DEF ClaimSound
<1>7. Move(State(c), LastState(d)) /\ IntentKept(c, r, d) /\ State(c) # "REVERSED"
  BY DEF Move, IntentKept, Settled, Live, Unpaid, Dropped
<1>8. QED
  BY <1>2, <1>6, <1>7 DEF Continued

\* Once funds are proved, the claim waits for its timing or stays decided.
LEMMA NotedDecisions ==
  ASSUME MonthlyInv, NEW c \in Contributions, NEW p \in Payments, decisions[c] # <<>>,
         State(c) \in {"RESERVED"} \cup Settled,
         NEW r \in ContributionRow, r.status \in Successful, r.payment = p, r.channel = "RAZORPAY",
         r = row[c] \/ State(c) = "RESERVED"
  PROVE  LET d == Noted(decisions[c])
         IN  /\ d \in Decisions /\ d # <<>> /\ Extended(decisions[c], d) /\ LastState(d) \in Settled
             /\ StateAgrees(LastState(d), r, claim[c], captured_at)
             /\ \A i \in 1..Len(d) : i <= Len(decisions[c])
                                     \/ (d[i].state \in Settled /\ d[i].event = NoEvent)
             /\ State(c) \in Settled => d = decisions[c]
<1>1. PICK d : d = Noted(decisions[c])
  OBVIOUS
<1>2. decisions[c] \in Decisions /\ LastState(decisions[c]) = State(c) /\ Len(decisions[c]) \in Nat
  BY ClaimTyped DEF MonthlyInv, TypeOK
<1>3. \/ d = decisions[c] /\ LastState(decisions[c]) \in Settled
      \/ \E x \in InstalmentPaymentDecision :
           /\ d = Append(decisions[c], x) /\ x.event = NoEvent /\ x.state = "AWAITING"
           /\ LastState(decisions[c]) = "RESERVED"
  BY <1>1, <1>2, NotedSound
<1>4. CASE d = decisions[c] /\ LastState(decisions[c]) \in Settled
  <2>1. r = row[c]
    BY <1>2, <1>4 DEF Settled
  <2>2. StateAgrees(State(c), row[c], claim[c], captured_at)
    BY RowsAndClaims
  <2>3. Extended(decisions[c], d) /\ LastState(d) = State(c)
    BY <1>2, <1>4 DEF Extended
  <2>4. QED
    BY <1>1, <1>2, <1>4, <2>1, <2>2, <2>3
<1>5. ASSUME NEW x \in InstalmentPaymentDecision, d = Append(decisions[c], x), x.event = NoEvent,
             x.state = "AWAITING", LastState(decisions[c]) = "RESERVED"
      PROVE  /\ d \in Decisions /\ d # <<>> /\ Extended(decisions[c], d) /\ LastState(d) \in Settled
             /\ StateAgrees(LastState(d), r, claim[c], captured_at)
             /\ \A i \in 1..Len(d) : i <= Len(decisions[c])
                                     \/ (d[i].state \in Settled /\ d[i].event = NoEvent)
             /\ State(c) \in Settled => d = decisions[c]
  <2>1. /\ d \in Decisions /\ d # <<>> /\ Len(d) = Len(decisions[c]) + 1 /\ Extended(decisions[c], d)
        /\ LastState(d) = x.state
        /\ \A i \in 1..Len(d) : i <= Len(decisions[c]) \/ d[i] = x
    BY <1>2, <1>5, OneMore
  <2>2. StateAgrees("AWAITING", r, claim[c], captured_at)
    BY DEF StateAgrees, Unpaid, Settled, Dropped
  <2>3. QED
    BY <1>2, <1>5, <2>1, <2>2 DEF Settled
<1>6. QED
  BY <1>1, <1>3, <1>4, <1>5

LEMMA NotedClaim ==
  ASSUME MonthlyInv, NEW c \in Contributions, NEW p \in Payments, ConfirmRow(c, p), claim' = claim,
         \/ decisions' = [decisions EXCEPT ![c] = Noted(@)]
         \/ decisions' = [decisions EXCEPT ![c] = IF row[c].status = "PENDING" THEN Noted(@) ELSE @]
  PROVE  Continued(c)
<1>1. /\ decisions[c] # <<>> /\ State(c) \in {"RESERVED"} \cup Settled
      /\ row[c].status = "PENDING" <=> State(c) = "RESERVED"
  BY ConfirmedRow
<1>2. PICK r \in ContributionRow :
        /\ row' = [row EXCEPT ![c] = r] /\ r.status \in Successful /\ r.payment = p
        /\ r.channel = "RAZORPAY" /\ RowKept(row[c], r) /\ (r = row[c] \/ State(c) = "RESERVED")
  BY ConfirmedRow
<1>3. PICK d : d = Noted(decisions[c])
  OBVIOUS
<1>4. /\ d \in Decisions /\ d # <<>> /\ Extended(decisions[c], d) /\ LastState(d) \in Settled
      /\ StateAgrees(LastState(d), r, claim[c], captured_at)
      /\ \A i \in 1..Len(d) : i <= Len(decisions[c])
                              \/ (d[i].state \in Settled /\ d[i].event = NoEvent)
      /\ State(c) \in Settled => d = decisions[c]
  BY <1>1, <1>2, <1>3, NotedDecisions
<1>5. decisions' = [decisions EXCEPT ![c] = d]
  BY <1>1, <1>3, <1>4
<1>6. \A i \in 1..Len(d) : i <= Len(decisions[c])
                           \/ (d[i].state \in Settled /\ EvidenceHolds(d[i], c, event', paid_order))
  BY <1>4 DEF EvidenceHolds
<1>7. QED
  BY <1>1, <1>2, <1>4, <1>5, <1>6, PaidClaim

LEMMA CallbackClaim ==
  ASSUME MonthlyInv, NEW c \in Contributions, NEW p \in Payments, Callback(c, p)
  PROVE  Continued(c)
  BY NotedClaim DEF Callback

\* What an event is about.
LEMMA EventTyped ==
  ASSUME MonthlyInv, NEW e \in Events
  PROVE  /\ event \in [Events -> PaymentWebhookEvent] /\ event[e] \in PaymentWebhookEvent
         /\ EventSound(event[e], row, paid_order) /\ e # NoEvent
         /\ event[e].status # "none" \/ event[e].identified => event[e].payment \in Payments
         /\ paid_order \in [Payments -> Contributions \cup {0}]
<1>1. /\ event \in [Events -> PaymentWebhookEvent] /\ event[e] \in PaymentWebhookEvent
      /\ EventSound(event[e], row, paid_order) /\ paid_order \in [Payments -> Contributions \cup {0}]
  BY DEF MonthlyInv, TypeOK, LedgerTypeOK, EventsAreSound
<1>2. e # NoEvent
  BY InstalmentAssumption
<1>3. event[e].identified => event[e].status # "none"
  BY <1>1 DEF EventSound, Unheard
<1>4. event[e].status # "none" => event[e].payment \in Payments
  BY <1>1 DEF EventSound
<1>5. QED
  BY <1>1, <1>2, <1>3, <1>4

\* What a delivery under way is about.
LEMMA DeliveryTyped ==
  ASSUME MonthlyInv, NEW v \in Deliveries
  PROVE  /\ delivery \in [Deliveries -> DeliveryRecord] /\ delivery[v] \in DeliveryRecord
         /\ delivery[v].contribution \in Contributions \cup {0}
         /\ DeliverySound(delivery[v], event, row, paid_order)
         /\ delivery[v].at # "idle" =>
              /\ delivery[v].event \in Events /\ event[delivery[v].event].status # "none"
              /\ event[delivery[v].event].payment \in Payments
<1>1. /\ delivery \in [Deliveries -> DeliveryRecord] /\ delivery[v] \in DeliveryRecord
      /\ DeliverySound(delivery[v], event, row, paid_order)
  BY DEF MonthlyInv, TypeOK, PaymentTypeOK, DeliveryRecord, DeliveriesAreSound
<1>2. delivery[v].at # "idle" =>
        delivery[v].event \in Events /\ event[delivery[v].event].status # "none"
  BY <1>1 DEF DeliverySound
<1>3. delivery[v].contribution \in Contributions \cup {0}
  BY <1>1 DEF DeliveryRecord
<1>4. QED
  BY <1>1, <1>2, <1>3, EventTyped

LEMMA OwnerRecoveredClaim ==
  ASSUME MonthlyInv, NEW e \in Events, OwnerRecovers(e)
  PROVE  \E c \in Contributions : Continued(c)
<1>1. event[e].payment \in Payments
  BY EventTyped DEF OwnerRecovers
<1>2. PICK c \in Rows : /\ ConfirmRow(c, event[e].payment)
                        /\ decisions' = [decisions EXCEPT ![c] = IF row[c].status = "PENDING"
                                                                   THEN Noted(@) ELSE @]
  BY DEF OwnerRecovers
<1>3. c \in Contributions /\ claim' = claim
  BY DEF Rows, OwnerRecovers
<1>4. QED
  BY <1>1, <1>2, <1>3, NotedClaim

\* Evidence attributed to decisions d that the money's confirmation left.
LEMMA AttributedClaim ==
  ASSUME MonthlyInv, NEW c \in Contributions, decisions[c] # <<>>,
         State(c) \in {"RESERVED"} \cup Settled, NEW e \in Events, e # NoEvent,
         NEW r \in ContributionRow, r.status \in Successful, r.channel = "RAZORPAY",
         r.payment = event[e].payment, r.payment \in Payments, RowKept(row[c], r),
         NEW d \in Decisions, d # <<>>, Extended(decisions[c], d),
         LastState(d) \in Settled, StateAgrees(LastState(d), r, claim[c], captured_at),
         \A i \in 1..Len(d) : i <= Len(decisions[c])
                              \/ (d[i].state \in Settled /\ d[i].event = NoEvent),
         "PROCESSED" \in event'[e].attempts, paid_order[event'[e].payment] = c,
         row' = [row EXCEPT ![c] = r], claim' = claim,
         decisions' = [decisions EXCEPT ![c] = Attributed(d, c, e)]
  PROVE  Continued(c)
<1>1. PICK n : n = Attributed(d, c, e)
  OBVIOUS
<1>2. n = d \/ \E x \in InstalmentPaymentDecision :
                 /\ n = Append(d, x) /\ x.event = e /\ x.state \in {"REVIEW", "QUALIFIED"}
                 /\ x.state = "QUALIFIED" => Timely(r, claim[c], captured_at)
  BY <1>1, AttributedSound
<1>3. \A i \in 1..Len(d) : i <= Len(decisions[c])
                           \/ (d[i].state \in Settled /\ EvidenceHolds(d[i], c, event', paid_order))
  BY DEF EvidenceHolds
<1>4. CASE n = d
  BY <1>1, <1>3, <1>4, PaidClaim
<1>5. ASSUME NEW x \in InstalmentPaymentDecision, n = Append(d, x), x.event = e,
             x.state \in {"REVIEW", "QUALIFIED"},
             x.state = "QUALIFIED" => Timely(r, claim[c], captured_at)
      PROVE  Continued(c)
  <2>1. /\ n \in Decisions /\ n # <<>> /\ Len(n) = Len(d) + 1 /\ Extended(d, n)
        /\ LastState(n) = x.state
        /\ \A i \in 1..Len(n) : i <= Len(d) \/ n[i] = x
    BY <1>5, OneMore
  <2>2. Len(d) \in Nat /\ Len(decisions[c]) \in Nat /\ Len(n) \in Nat
    BY <2>1, ClaimTyped DEF MonthlyInv, TypeOK, Decisions
  <2>3. Extended(decisions[c], n)
    BY <2>1, <2>2 DEF Extended
  <2>4. EvidenceHolds(x, c, event', paid_order) /\ x.state \in Settled
    BY <1>5 DEF EvidenceHolds, OutcomeFor, Settled
  <2>5. \A i \in 1..Len(n) : i <= Len(decisions[c])
                             \/ (n[i].state \in Settled /\ EvidenceHolds(n[i], c, event', paid_order))
    BY <1>3, <2>1, <2>2, <2>4 DEF Extended
  <2>6. StateAgrees(LastState(n), r, claim[c], captured_at)
    BY <1>5, <2>1 DEF StateAgrees, Unpaid, Settled, Dropped
  <2>7. LastState(n) \in Settled
    BY <2>1, <2>4
  <2>8. decisions' = [decisions EXCEPT ![c] = n]
    BY <1>1
  <2>9. QED
    BY <2>1, <2>3, <2>5, <2>6, <2>7, <2>8, PaidClaim
<1>6. QED
  BY <1>2, <1>4, <1>5

LEMMA CompletedClaim ==
  ASSUME MonthlyInv, NEW v \in Deliveries, CompleteCapture(v)
  PROVE  UNCHANGED rowVars \/ \E c \in Contributions : Continued(c)
<1>1. PICK e, c, p : e = delivery[v].event /\ c = delivery[v].contribution /\ p = event[e].payment
  OBVIOUS
<1>2. /\ delivery[v].at = "complete" /\ DeliverySound(delivery[v], event, row, paid_order)
      /\ e \in Events /\ p \in Payments /\ c \in Contributions \cup {0} /\ claim' = claim
  BY <1>1, DeliveryTyped DEF CompleteCapture, DeliveryAt
<1>3. /\ c \in Contributions /\ paid_order[p] = c
      /\ event \in [Events -> PaymentWebhookEvent] /\ event[e] \in PaymentWebhookEvent
      /\ e # NoEvent
  BY <1>1, <1>2, EventTyped DEF DeliverySound
<1>4. CASE /\ ConfirmRow(c, p)
           /\ decisions' = [decisions EXCEPT ![c] = Attributed(Noted(@), c, e)]
           /\ Conclude(e, "PROCESSED", c)
  <2>1. decisions[c] # <<>> /\ State(c) \in {"RESERVED"} \cup Settled
    BY <1>2, <1>3, <1>4, ConfirmedRow
  <2>2. PICK r \in ContributionRow :
          /\ row' = [row EXCEPT ![c] = r] /\ r.status \in Successful /\ r.payment = p
          /\ r.channel = "RAZORPAY" /\ RowKept(row[c], r) /\ (r = row[c] \/ State(c) = "RESERVED")
    BY <1>2, <1>3, <1>4, ConfirmedRow
  <2>3. PICK d : d = Noted(decisions[c])
    OBVIOUS
  <2>4. /\ d \in Decisions /\ d # <<>> /\ Extended(decisions[c], d) /\ LastState(d) \in Settled
        /\ StateAgrees(LastState(d), r, claim[c], captured_at)
        /\ \A i \in 1..Len(d) : i <= Len(decisions[c])
                                \/ (d[i].state \in Settled /\ d[i].event = NoEvent)
    BY <1>2, <1>3, <2>1, <2>2, <2>3, NotedDecisions
  <2>5. "PROCESSED" \in event'[e].attempts /\ paid_order[event'[e].payment] = c
    BY <1>1, <1>2, <1>3, <1>4 DEF PaymentWebhookEvent, Conclude
  <2>6. decisions' = [decisions EXCEPT ![c] = Attributed(d, c, e)]
    BY <1>4, <2>3
  <2>7. Continued(c)
    BY <1>1, <1>2, <1>3, <2>1, <2>2, <2>4, <2>5, <2>6, AttributedClaim
  <2>8. QED
    BY <1>3, <2>7
<1>5. CASE UNCHANGED <<row, decisions>>
  BY <1>2, <1>5 DEF rowVars
<1>6. QED
  BY <1>1, <1>4, <1>5 DEF CompleteCapture

LEMMA RedeliveredClaim ==
  ASSUME MonthlyInv, NEW e \in Events, FinalDelivery(e)
  PROVE  UNCHANGED rowVars \/ \E c \in Contributions : Continued(c)
<1>1. PICK c, p : c = event[e].contribution /\ p = event[e].payment
  OBVIOUS
<1>2. /\ row' = row /\ claim' = claim /\ p \in Payments /\ e # NoEvent
      /\ event \in [Events -> PaymentWebhookEvent] /\ event[e] \in PaymentWebhookEvent
      /\ EventSound(event[e], row, paid_order)
  BY <1>1, EventTyped DEF FinalDelivery
<1>3. CASE UNCHANGED decisions
  BY <1>2, <1>3 DEF rowVars
<1>4. CASE /\ event[e].status = "PROCESSED" /\ Attributable(decisions[c])
           /\ decisions' = [decisions EXCEPT ![c] = Attributed(@, c, e)]
  <2>1. /\ c \in Contributions /\ paid_order[p] = c
        /\ row[c].status \in Successful /\ row[c].payment = p
    BY <1>1, <1>2, <1>4 DEF EventSound, PaymentWebhookEvent, Outcomes
  <2>2. decisions[c] # <<>>
    BY <2>1, RowsAndClaims DEF Rows, Successful
  <2>3. /\ row \in [Contributions -> ContributionRow] /\ row[c] \in ContributionRow
        /\ decisions[c] \in Decisions /\ LastState(decisions[c]) = State(c)
        /\ NoPayment \notin Payments
    BY <2>1, <2>2, ClaimTyped, InstalmentAssumption DEF MonthlyInv, TypeOK, LedgerTypeOK
  <2>4. State(c) \in ClaimStates /\ StateAgrees(State(c), row[c], claim[c], captured_at)
    BY <2>1, <2>2, RowsAndClaims
  <2>5. State(c) \in Settled /\ row[c].channel = "RAZORPAY"
    BY <1>2, <2>1, <2>3, <2>4
    DEF StateAgrees, ClaimStates, Unpaid, Settled, Dropped, Successful
  <2>6. Extended(decisions[c], decisions[c]) /\ RowKept(row[c], row[c])
        /\ row' = [row EXCEPT ![c] = row[c]]
        /\ \A i \in 1..Len(decisions[c]) : i <= Len(decisions[c])
    BY <1>2, <2>1, <2>3 DEF Extended, RowKept, Decisions
  <2>7. "PROCESSED" \in event'[e].attempts /\ paid_order[event'[e].payment] = c
    <3>1. event'[e].attempts = event[e].attempts /\ event'[e].payment = p
      BY <1>1, <1>2 DEF PaymentWebhookEvent, FinalDelivery
    <3>2. QED
      BY <1>2, <1>4, <2>1, <3>1 DEF EventSound, Outcomes
  <2>8. decisions' = [decisions EXCEPT ![c] = Attributed(decisions[c], c, e)]
    BY <1>4
  <2>9. /\ LastState(decisions[c]) \in Settled
        /\ StateAgrees(LastState(decisions[c]), row[c], claim[c], captured_at)
        /\ row[c].payment = event[e].payment /\ row[c].payment \in Payments
    BY <1>1, <1>2, <2>1, <2>3, <2>4, <2>5
  <2>10. Continued(c)
    BY <1>2, <2>1, <2>2, <2>3, <2>5, <2>6, <2>7, <2>8, <2>9, AttributedClaim
  <2>11. QED
    BY <2>1, <2>10
<1>5. QED
  BY <1>1, <1>3, <1>4 DEF FinalDelivery

LEMMA ReviewedClaim ==
  ASSUME MonthlyInv, NEW v \in Deliveries, RequireReview(v)
  PROVE  UNCHANGED rowVars \/ \E c \in Contributions : Continued(c)
<1>1. PICK e, c : e = delivery[v].event /\ c = delivery[v].contribution
  OBVIOUS
<1>2. /\ row' = row /\ claim' = claim /\ DeliverySound(delivery[v], event, row, paid_order)
      /\ delivery[v].at # "idle" /\ e \in Events /\ c \in Contributions \cup {0}
  BY <1>1, DeliveryTyped DEF RequireReview, DeliverySound
<1>3. event \in [Events -> PaymentWebhookEvent] /\ event[e] \in PaymentWebhookEvent
  BY <1>2, EventTyped
<1>4. CASE UNCHANGED decisions
  BY <1>2, <1>4 DEF rowVars
<1>5. CASE /\ delivery[v].at = "review_late"
           /\ AppendDecision(c, Decision("RELEASED_REVIEW", "LATE_CAPTURE_AFTER_RELEASE", e))
  <2>1. c \in Contributions /\ row[c].status = "ABANDONED" /\ paid_order[event[e].payment] = c
    BY <1>1, <1>2, <1>5 DEF DeliverySound
  <2>2. /\ decisions[c] # <<>> /\ row \in [Contributions -> ContributionRow]
        /\ row[c] \in ContributionRow /\ LedgerTypeOK /\ ClaimsAreSound
    BY <2>1, RowsAndClaims DEF Rows, MonthlyInv, TypeOK, LedgerTypeOK
  <2>3. State(c) \in ClaimStates /\ StateAgrees(State(c), row[c], claim[c], captured_at)
    BY <2>1, <2>2, RowsAndClaims
  <2>4. State(c) \in Dropped
    BY <2>1, <2>3 DEF StateAgrees, ClaimStates, Unpaid, Settled, Dropped, Successful
  <2>5. PICK x : x = Decision("RELEASED_REVIEW", "LATE_CAPTURE_AFTER_RELEASE", e)
    OBVIOUS
  <2>6. x \in InstalmentPaymentDecision /\ x.state = "RELEASED_REVIEW" /\ x.event = e
    BY <1>2, <2>5 DEF Decision, InstalmentPaymentDecision, ClaimStates, DecisionCodes
  <2>7. "REVIEW_REQUIRED" \in event'[e].attempts /\ paid_order[event'[e].payment] = c
    BY <1>1, <1>2, <1>3, <2>1 DEF PaymentWebhookEvent, RequireReview, Conclude
  <2>8. /\ StateAgrees(x.state, row[c], claim[c], captured_at) /\ State(c) # "REVERSED"
        /\ Move(State(c), x.state) /\ RowKept(row[c], row[c])
        /\ EvidenceHolds(x, c, event', paid_order)
        /\ x.state # "RESERVED" /\ State(c) # "ORDERING" /\ x.state # "ORDERING"
    BY <2>1, <2>4, <2>6, <2>7
    DEF StateAgrees, Move, RowKept, EvidenceHolds, OutcomeFor, Live, Unpaid, Settled, Dropped
  <2>9. /\ row' = [row EXCEPT ![c] = row[c]] /\ claim' = claim
        /\ decisions' = [decisions EXCEPT ![c] = Append(decisions[c], x)]
    BY <1>2, <1>5, <2>2, <2>5 DEF AppendDecision
  <2>10. Continued(c)
    BY <2>1, <2>2, <2>6, <2>8, <2>9, OneDecision
  <2>11. QED
    BY <2>1, <2>10
<1>6. QED
  BY <1>1, <1>4, <1>5 DEF RequireReview, DeliveryAt

LEMMA AcceptedClaim ==
  ASSUME MonthlyInv, AcceptTiming
  PROVE  \E c \in Contributions : Continued(c)
<1>1. PICK c, e : c = form.contribution /\ e = form.event
  OBVIOUS
<1>2. /\ c \in Contributions /\ decisions[c] # <<>> /\ e \in Events
      /\ State(c) \in {"REVIEW", "AWAITING"} /\ VerifiedTimingSource(c, e)
      /\ AppendDecision(c, Plain("QUALIFIED", "OWNER_VERIFIED_TIMING"))
      /\ row' = row /\ claim' = claim
  BY <1>1 DEF MonthlyInv, FormSound, Claimed, AcceptTiming
<1>3. /\ LedgerTypeOK /\ ClaimsAreSound /\ row \in [Contributions -> ContributionRow]
      /\ row[c] \in ContributionRow
  BY <1>2 DEF MonthlyInv, TypeOK, LedgerTypeOK
<1>4. StateAgrees(State(c), row[c], claim[c], captured_at)
  BY <1>2, RowsAndClaims
<1>5. row[c].payment \in Payments /\ row[c].channel = "RAZORPAY" /\ row[c].status \in Successful
  BY <1>2, <1>4 DEF StateAgrees, Settled
<1>6. row[c].payment = event[e].payment /\ TimingState(c, e).state = "QUALIFIED"
  BY <1>2 DEF VerifiedTimingSource
<1>7. Timely(row[c], claim[c], captured_at)
  BY <1>2, <1>3, <1>5, <1>6, TimingSound
<1>8. PICK x : x = Plain("QUALIFIED", "OWNER_VERIFIED_TIMING")
  OBVIOUS
<1>9. x \in InstalmentPaymentDecision /\ x.state = "QUALIFIED" /\ x.event = NoEvent
  BY <1>8 DEF Plain, Decision, InstalmentPaymentDecision, ClaimStates, DecisionCodes
<1>10. /\ row' = [row EXCEPT ![c] = row[c]] /\ claim' = claim
       /\ decisions' = [decisions EXCEPT ![c] = Append(decisions[c], x)]
  BY <1>2, <1>3, <1>8 DEF AppendDecision
<1>11. /\ StateAgrees(x.state, row[c], claim[c], captured_at) /\ State(c) # "REVERSED"
       /\ Move(State(c), x.state) /\ RowKept(row[c], row[c]) /\ EvidenceHolds(x, c, event', paid_order)
       /\ x.state # "RESERVED" /\ State(c) # "ORDERING" /\ x.state # "ORDERING"
  BY <1>2, <1>5, <1>7, <1>9
  DEF StateAgrees, Move, RowKept, EvidenceHolds, Live, Unpaid, Settled, Dropped
<1>12. Continued(c)
  BY <1>2, <1>3, <1>9, <1>10, <1>11, OneDecision
<1>13. QED
  BY <1>2, <1>12

LEMMA InitiatedClaim ==
  ASSUME MonthlyInv, NEW w \in Creators, InitiateContribution(w)
  PROVE  UNCHANGED rowVars \/ \E c \in Contributions : Opened(c)
<1>1. CASE UNCHANGED rowVars
  BY <1>1
<1>2. ASSUME NEW c \in Contributions, NEW p \in CurrentPeriods,
             PayableExcept(0), NewContribution(c), Reserve(c, p)
      PROVE  \E d \in Contributions : Opened(d)
  BY <1>2, ReservedClaim
<1>3. QED
  BY <1>1, <1>2 DEF InitiateContribution

\* Every step leaves all claims alone, opens one or continues one.
LEMMA ClaimSteps == MonthlyInv /\ Next => ClaimStep
<1> SUFFICES ASSUME MonthlyInv, Next PROVE ClaimStep
  OBVIOUS
<1>1. ASSUME LedgerStep PROVE ClaimStep
  <2>1. ASSUME NEW c \in Contributions, NEW p \in Periods, RecordCash(c, p) PROVE ClaimStep
    BY <2>1, CashClaim DEF ClaimStep
  <2>2. ASSUME NEW c \in Contributions, ReverseCash(c) \/ AllocateLater(c) PROVE ClaimStep
    BY <2>2, ReversedClaim, AllocatedRow DEF ClaimStep
  <2>3. ASSUME Tick \/ AcceptClosure PROVE ClaimStep
    BY <2>3 DEF ClaimStep, Tick, AcceptClosure
  <2>4. QED
    BY <1>1, <2>1, <2>2, <2>3 DEF LedgerStep
<1>2. ASSUME PaymentStep PROVE ClaimStep
  <2>1. ASSUME NEW w \in Creators, InitiateContribution(w) \/ BeginOrderRequest(w) PROVE ClaimStep
    BY <2>1, InitiatedClaim, IntendedClaim DEF ClaimStep
  <2>2. ASSUME NEW w \in Creators, OrderCreated(w) \/ OrderFails(w) PROVE ClaimStep
    BY <2>2, CreatedOrder, FailedOrder DEF ClaimStep
  <2>3. ASSUME NEW w \in Creators, OrderCrashes(w) \/ ResumeCheckout(w) \/ CreatorStops(w)
        PROVE  ClaimStep
    BY <2>3 DEF ClaimStep, OrderCrashes, ResumeCheckout, CreatorStops
  <2>4. ASSUME NEW p \in Payments, Pay(p) \/ Capture(p) PROVE ClaimStep
    BY <2>4 DEF ClaimStep, Pay, Capture
  <2>5. ASSUME NEW v \in Deliveries, CompleteCapture(v) \/ RequireReview(v) PROVE ClaimStep
    BY <2>5, CompletedClaim, ReviewedClaim DEF ClaimStep
  <2>6. ASSUME NEW e \in Events, FinalDelivery(e) \/ OwnerRecovers(e) PROVE ClaimStep
    BY <2>6, RedeliveredClaim, OwnerRecoveredClaim DEF ClaimStep
  <2>7. ASSUME NEW v \in Deliveries,
               \/ \E e \in Events : FirstDelivery(v, e) \/ RepeatedDelivery(v, e)
               \/ FindContribution(v) \/ DeliveryFails(v) \/ DeliveryDies(v)
        PROVE  ClaimStep
    BY <2>7 DEF ClaimStep, FirstDelivery, RepeatedDelivery, FindContribution, DeliveryFails,
                DeliveryDies
  <2>8. ASSUME NEW c \in Contributions, InspectOrder(c) PROVE ClaimStep
    BY <2>8 DEF ClaimStep, InspectOrder, ledgerVars, rowVars
  <2>9. ASSUME NEW c \in Contributions, ReleaseClaim(c) PROVE ClaimStep
    BY <2>9, ReleasedClaim DEF ClaimStep
  <2>10. ASSUME NEW c \in Contributions, NEW p \in Payments, Callback(c, p) PROVE ClaimStep
    BY <2>10, CallbackClaim DEF ClaimStep
  <2>11. QED
    BY <1>2, <2>1, <2>2, <2>3, <2>4, <2>5, <2>6, <2>7, <2>8, <2>9, <2>10 DEF PaymentStep
<1>3. ASSUME OwnerStep PROVE ClaimStep
  <2>1. ASSUME OpenReview \/ DiscardReview PROVE ClaimStep
    BY <2>1 DEF ClaimStep, OpenReview, DiscardReview, ledgerVars, rowVars
  <2>2. ASSUME AcceptTiming PROVE ClaimStep
    BY <2>2, AcceptedClaim DEF ClaimStep
  <2>3. ASSUME NEW p \in Periods, OutageHold(p) PROVE ClaimStep
    BY <2>3 DEF ClaimStep, OutageHold
  <2>4. ASSUME NEW p \in Periods, NEW o \in {"COMPENSATE", "RESTORED", "QUALIFIED"}, ResolveOutage(p, o)
        PROVE  ClaimStep
    BY <2>4 DEF ClaimStep, ResolveOutage
  <2>5. ASSUME NEW c \in Contributions, RecoverOrder(c) PROVE ClaimStep
    BY <2>5, RecoveredOrder DEF ClaimStep
  <2>6. QED
    BY <1>3, <2>1, <2>2, <2>3, <2>4, <2>5 DEF OwnerStep
<1>4. QED
  BY <1>1, <1>2, <1>3 DEF Next

-----------------------------------------------------------------------------
(* What a step does to the money at the provider. *)

MoneyStep ==
  \/ UNCHANGED <<captured_at, paid_order>>
  \/ /\ UNCHANGED <<rowVars, event>>
     /\ \E p \in Payments :
          \/ /\ paid_order[p] = 0 /\ UNCHANGED captured_at
             /\ \E c \in Contributions : paid_order' = [paid_order EXCEPT ![p] = c]
          \/ /\ captured_at[p] < 0 /\ UNCHANGED paid_order
             /\ captured_at' = [captured_at EXCEPT ![p] = now]

LEMMA MoneySteps == Next => MoneyStep
<1> SUFFICES ASSUME Next PROVE MoneyStep
  OBVIOUS
<1>1. ASSUME LedgerStep PROVE UNCHANGED <<captured_at, paid_order>>
  BY <1>1 DEF LedgerStep, RecordCash, ReverseCash, AllocateLater, Tick, AcceptClosure, moneyVars
<1>2. ASSUME PaymentStep PROVE MoneyStep
  <2>1. ASSUME NEW w \in Creators,
               \/ InitiateContribution(w) \/ BeginOrderRequest(w) \/ OrderCreated(w)
               \/ OrderFails(w) \/ OrderCrashes(w) \/ ResumeCheckout(w) \/ CreatorStops(w)
        PROVE  UNCHANGED <<captured_at, paid_order>>
    BY <2>1 DEF InitiateContribution, BeginOrderRequest, OrderCreated, OrderFails, OrderCrashes,
                ResumeCheckout, CreatorStops, moneyVars
  <2>2. ASSUME NEW p \in Payments, Pay(p) PROVE MoneyStep
    BY <2>2 DEF Pay, MoneyStep
  <2>3. ASSUME NEW p \in Payments, Capture(p) PROVE MoneyStep
    BY <2>3 DEF Capture, MoneyStep
  <2>4. ASSUME \/ \E v \in Deliveries :
                    \/ \E e \in Events : FirstDelivery(v, e) \/ RepeatedDelivery(v, e)
                    \/ FindContribution(v) \/ CompleteCapture(v) \/ RequireReview(v)
                    \/ DeliveryFails(v) \/ DeliveryDies(v)
               \/ \E e \in Events : FinalDelivery(e) \/ OwnerRecovers(e)
        PROVE  UNCHANGED <<captured_at, paid_order>>
    BY <2>4 DEF FirstDelivery, RepeatedDelivery, FinalDelivery, FindContribution, CompleteCapture,
                RequireReview, DeliveryFails, DeliveryDies, OwnerRecovers, moneyVars
  <2>5. ASSUME NEW c \in Contributions, \/ InspectOrder(c) \/ ReleaseClaim(c)
                                        \/ \E p \in Payments : Callback(c, p)
        PROVE  UNCHANGED <<captured_at, paid_order>>
    BY <2>5 DEF InspectOrder, ReleaseClaim, Callback, moneyVars, ledgerVars
  <2>6. QED
    BY <1>2, <2>1, <2>2, <2>3, <2>4, <2>5 DEF PaymentStep, MoneyStep
<1>3. ASSUME OwnerStep PROVE UNCHANGED <<captured_at, paid_order>>
  BY <1>3 DEF OwnerStep, OpenReview, AcceptTiming, DiscardReview, OutageHold, ResolveOutage,
              RecoverOrder, moneyVars, ledgerVars
<1>4. QED
  BY <1>1, <1>2, <1>3 DEF Next, MoneyStep

\* Money once captured keeps its time.
LEMMA TimelyKept ==
  ASSUME MonthlyInv, MoneyStep, NEW r, NEW k, k.period \in Periods, Timely(r, k, captured_at)
  PROVE  Timely(r, k, captured_at')
<1>1. /\ captured_at \in [Payments -> (0..MaxTime) \cup {0 - 1}] /\ r.payment \in Payments
      /\ k.period \in Nat /\ k.period >= 1
  BY InstalmentAssumption DEF MonthlyInv, TypeOK, LedgerTypeOK, Timely, Periods
<1>2. captured_at[r.payment] >= 0
  BY <1>1, InstalmentAssumption DEF Timely, Within, StartsOn
<1>3. captured_at'[r.payment] = captured_at[r.payment]
  BY <1>1, <1>2 DEF MoneyStep
<1>4. QED
  BY <1>3 DEF Timely

LEMMA ClaimsStaySound == MonthlyInv /\ ClaimStep /\ MoneyStep => ClaimsAreSound'
<1> SUFFICES ASSUME MonthlyInv, ClaimStep, MoneyStep, NEW c \in Contributions
             PROVE  IF decisions'[c] = <<>> THEN row'[c] = NoRow
                    ELSE ClaimSound(row'[c], claim'[c], decisions'[c], captured_at')
  BY DEF ClaimsAreSound
<1>t. /\ row \in [Contributions -> ContributionRow]
      /\ claim \in [Contributions -> InstalmentReservation]
      /\ decisions \in [Contributions -> Seq(InstalmentPaymentDecision)]
  BY DEF MonthlyInv, TypeOK, LedgerTypeOK
<1>1. decisions[c] = <<>> => row[c] = NoRow
  BY DEF MonthlyInv, ClaimsAreSound
<1>2. decisions[c] # <<>> => ClaimSound(row[c], claim[c], decisions[c], captured_at)
  BY DEF MonthlyInv, ClaimsAreSound
<1>3. ASSUME NEW r, NEW k, NEW d, ClaimSound(r, k, d, captured_at)
      PROVE  ClaimSound(r, k, d, captured_at')
  <2>1. Timely(r, k, captured_at) => Timely(r, k, captured_at')
    BY <1>3, TimelyKept DEF ClaimSound
  <2>2. StateAgrees(LastState(d), r, k, captured_at) => StateAgrees(LastState(d), r, k, captured_at')
    BY <2>1 DEF StateAgrees
  <2>3. QED
    BY <1>3, <2>2 DEF ClaimSound
<1>4. CASE UNCHANGED rowVars
  BY <1>1, <1>2, <1>3, <1>4 DEF rowVars
<1>5. ASSUME NEW b \in Contributions, NEW r, NEW k, NEW d, OnlyRow(b, r, k, d), d # <<>>,
             ClaimSound(r, k, d, captured_at)
      PROVE  IF decisions'[c] = <<>> THEN row'[c] = NoRow
             ELSE ClaimSound(row'[c], claim'[c], decisions'[c], captured_at')
  <2>1. CASE b = c
    <3>1. row'[c] = r /\ claim'[c] = k /\ decisions'[c] = d
      BY <1>t, <1>5, <2>1 DEF OnlyRow
    <3>2. QED
      BY <1>3, <1>5, <3>1
  <2>2. CASE b # c
    <3>1. row'[c] = row[c] /\ claim'[c] = claim[c] /\ decisions'[c] = decisions[c]
      BY <1>t, <1>5, <2>2 DEF OnlyRow
    <3>2. QED
      BY <1>1, <1>2, <1>3, <3>1
  <2>3. QED
    BY <2>1, <2>2
<1>6. QED
  BY <1>4, <1>5 DEF ClaimStep, Opened, Continued, ClaimSound

\* No row loses its order, its abandonment or its money.
LEMMA RowsAreKept ==
  ASSUME MonthlyInv, ClaimStep, NEW c \in Contributions
  PROVE  RowKept(row[c], row'[c])
<1>t. row \in [Contributions -> ContributionRow]
  BY DEF MonthlyInv, TypeOK, LedgerTypeOK
<1>1. RowKept(row[c], row[c])
  BY DEF RowKept
<1>2. CASE UNCHANGED rowVars
  BY <1>1, <1>2 DEF rowVars
<1>3. ASSUME NEW b \in Contributions, Opened(b) PROVE RowKept(row[c], row'[c])
  <2>1. PICK r : row' = [row EXCEPT ![b] = r] /\ decisions[b] = <<>>
    BY <1>3 DEF Opened, OnlyRow
  <2>2. row[b] = NoRow
    BY <2>1 DEF MonthlyInv, ClaimsAreSound
  <2>3. RowKept(NoRow, r)
    BY DEF RowKept, NoRow, Successful
  <2>4. QED
    BY <1>t, <1>1, <2>1, <2>2, <2>3
<1>4. ASSUME NEW b \in Contributions, Continued(b) PROVE RowKept(row[c], row'[c])
  <2>1. PICK r : row' = [row EXCEPT ![b] = r] /\ RowKept(row[b], r)
    BY <1>4 DEF Continued, OnlyRow
  <2>2. QED
    BY <1>t, <1>1, <2>1
<1>5. QED
  BY <1>2, <1>3, <1>4 DEF ClaimStep

-----------------------------------------------------------------------------
(* What a step does to an event. *)

\* The attempts of an event and what it is about are never taken back.
EventGrows(old, new) ==
  /\ old.attempts \subseteq new.attempts
  /\ old.status # "none" => new.status # "none" /\ new.payment = old.payment
  /\ old.identified => new.identified

EventStep ==
  \/ UNCHANGED event
  \/ \E e \in Events, x \in PaymentWebhookEvent :
       /\ event' = [event EXCEPT ![e] = x]
       /\ EventSound(x, row', paid_order) /\ EventGrows(event[e], x)

DeliveryStep ==
  \/ UNCHANGED delivery
  \/ \E v \in Deliveries, x \in DeliveryRecord :
       /\ delivery' = [delivery EXCEPT ![v] = x]
       /\ DeliverySound(x, event', row', paid_order)

LEMMA Ended ==
  ASSUME MonthlyInv, NEW v \in Deliveries, EndDelivery(v)
  PROVE  DeliveryStep
<1>1. PICK x : x = NoDelivery
  OBVIOUS
<1>2. x \in DeliveryRecord /\ DeliverySound(x, event', row', paid_order)
  BY <1>1 DEF NoDelivery, DeliveryRecord, DeliverySound
<1>3. QED
  BY <1>1, <1>2 DEF EndDelivery, DeliveryStep

LEMMA Moved ==
  ASSUME MonthlyInv, NEW v \in Deliveries, NEW e \in Events, NEW c \in Contributions \cup {0},
         NEW place \in {"find", "complete", "review", "review_late"}, Deliver(v, place, e, c),
         event'[e].status # "none", c # 0 => paid_order[event'[e].payment] = c,
         place # "find" => event'[e].identified,
         place \in {"complete", "review_late"} => c # 0,
         place = "review_late" => row'[c].status = "ABANDONED"
  PROVE  DeliveryStep
<1>1. PICK x : x = [at |-> place, event |-> e, contribution |-> c]
  OBVIOUS
<1>2. x \in DeliveryRecord /\ x.at = place /\ x.event = e /\ x.contribution = c
  BY <1>1 DEF DeliveryRecord
<1>3. DeliverySound(x, event', row', paid_order)
  BY <1>2 DEF DeliverySound
<1>4. QED
  BY <1>1, <1>2, <1>3 DEF Deliver, DeliveryStep

LEMMA FirstDelivered ==
  ASSUME MonthlyInv, NEW v \in Deliveries, NEW e \in Events, FirstDelivery(v, e)
  PROVE  EventStep /\ DeliveryStep
<1>1. PICK p \in Payments, t \in BOOLEAN :
        event' = [event EXCEPT ![e] = [Unheard EXCEPT !.status = "RECEIVED", !.payment = p,
                                                      !.timed = t]]
  BY DEF FirstDelivery
<1>2. PICK x : x = [Unheard EXCEPT !.status = "RECEIVED", !.payment = p, !.timed = t]
  OBVIOUS
<1>3. x = [status |-> "RECEIVED", payment |-> p, timed |-> t, contribution |-> 0,
           identified |-> FALSE, attempts |-> {}, answered |-> FALSE]
  BY <1>2 DEF Unheard
<1>4. x \in PaymentWebhookEvent
  BY <1>3 DEF PaymentWebhookEvent
<1>5. event' = [event EXCEPT ![e] = x]
  BY <1>1, <1>2
<1>6. EventSound(x, row', paid_order)
  BY <1>3 DEF EventSound, Outcomes
<1>7. event[e] = Unheard /\ event \in [Events -> PaymentWebhookEvent]
  BY EventTyped DEF EventSound, FirstDelivery
<1>8. EventGrows(event[e], x)
  BY <1>7 DEF EventGrows, Unheard
<1>9. event'[e].status # "none" /\ Deliver(v, "find", e, 0)
  BY <1>3, <1>5, <1>7 DEF FirstDelivery
<1>10. DeliveryStep
  BY <1>9, Moved
<1>11. QED
  BY <1>4, <1>5, <1>6, <1>8, <1>10 DEF EventStep

LEMMA Redelivered ==
  ASSUME MonthlyInv, NEW v \in Deliveries, NEW e \in Events, RepeatedDelivery(v, e)
  PROVE  EventStep /\ DeliveryStep
<1>1. PICK c : c = event[e].contribution
  OBVIOUS
<1>2. /\ c \in Contributions \cup {0}
      /\ c # 0 => paid_order[event[e].payment] = c
      /\ event[e].status # "none" /\ event' = event /\ Deliver(v, "find", e, c)
  BY <1>1, EventTyped DEF RepeatedDelivery, EventSound, PaymentWebhookEvent
<1>3. event'[e].status # "none" /\ (c # 0 => paid_order[event'[e].payment] = c)
  BY <1>2
<1>4. DeliveryStep
  BY <1>2, <1>3, Moved
<1>5. QED
  BY <1>2, <1>4 DEF EventStep

LEMMA Acknowledged ==
  ASSUME MonthlyInv, NEW e \in Events, FinalDelivery(e)
  PROVE  EventStep /\ DeliveryStep
<1>1. /\ event \in [Events -> PaymentWebhookEvent] /\ event[e] \in PaymentWebhookEvent
      /\ EventSound(event[e], row, paid_order) /\ row' = row /\ delivery' = delivery
      /\ event[e].status \in Outcomes
  BY EventTyped DEF FinalDelivery, Outcomes, paymentVars
<1>2. PICK x : x = [event[e] EXCEPT !.answered = TRUE]
  OBVIOUS
<1>3. /\ x \in PaymentWebhookEvent /\ x.status = event[e].status /\ x.payment = event[e].payment
      /\ x.contribution = event[e].contribution /\ x.attempts = event[e].attempts
      /\ x.identified = event[e].identified
  BY <1>1, <1>2 DEF PaymentWebhookEvent
<1>4. event' = [event EXCEPT ![e] = x]
  BY <1>1, <1>2 DEF FinalDelivery
<1>5. EventSound(x, row', paid_order) /\ EventGrows(event[e], x)
  BY <1>1, <1>3 DEF EventSound, EventGrows, Outcomes
<1>6. QED
  BY <1>1, <1>3, <1>4, <1>5 DEF EventStep, DeliveryStep

LEMMA FoundEvent ==
  ASSUME MonthlyInv, NEW v \in Deliveries, FindContribution(v)
  PROVE  EventStep /\ DeliveryStep
<1>1. PICK e : e = delivery[v].event
  OBVIOUS
<1>2. /\ e \in Events /\ event[e].status # "none" /\ row' = row
      /\ DeliverySound(delivery[v], event, row, paid_order) /\ delivery[v].at = "find"
      /\ delivery[v].contribution \in Contributions \cup {0}
  BY <1>1, DeliveryTyped DEF FindContribution, DeliveryAt, rowVars
<1>3. /\ event \in [Events -> PaymentWebhookEvent] /\ event[e] \in PaymentWebhookEvent
      /\ EventSound(event[e], row, paid_order)
  BY <1>2, EventTyped
<1>4. ASSUME NEW c \in Rows, CapturedFor(event[e].payment, c),
             event' = [event EXCEPT ![e].identified = TRUE, ![e].contribution = c],
             Deliver(v, IF row[c].status = "ABANDONED" THEN "review_late" ELSE "complete", e, c)
      PROVE  EventStep /\ DeliveryStep
  <2>1. c \in Contributions /\ c # 0 /\ paid_order[event[e].payment] = c
    BY <1>4 DEF Rows, CapturedFor, Contributions
  <2>2. PICK x : x = [event[e] EXCEPT !.identified = TRUE, !.contribution = c]
    OBVIOUS
  <2>3. /\ x \in PaymentWebhookEvent /\ x.status = event[e].status /\ x.identified
        /\ x.payment = event[e].payment /\ x.contribution = c
        /\ x.attempts = event[e].attempts /\ x.answered = event[e].answered
    BY <1>3, <2>1, <2>2 DEF PaymentWebhookEvent
  <2>4. event' = [event EXCEPT ![e] = x]
    BY <1>3, <1>4, <2>2
  <2>5. EventSound(x, row', paid_order) /\ EventGrows(event[e], x)
    BY <1>2, <1>3, <2>1, <2>3 DEF EventSound, EventGrows
  <2>6. PICK place : place = IF row[c].status = "ABANDONED" THEN "review_late" ELSE "complete"
    OBVIOUS
  <2>7. /\ place \in {"complete", "review_late"}
        /\ place = "review_late" => row'[c].status = "ABANDONED"
    BY <1>2, <2>6
  <2>8. event'[e] = x
    BY <1>2, <1>3, <2>4
  <2>9. DeliveryStep
    BY <1>2, <1>4, <2>1, <2>3, <2>6, <2>7, <2>8, Moved
  <2>10. QED
    BY <1>2, <2>3, <2>4, <2>5, <2>9 DEF EventStep
<1>5. CASE /\ event' = [event EXCEPT ![e].identified = TRUE]
           /\ Deliver(v, "review", e, delivery[v].contribution)
  <2>1. PICK x : x = [event[e] EXCEPT !.identified = TRUE]
    OBVIOUS
  <2>2. /\ x \in PaymentWebhookEvent /\ x.status = event[e].status /\ x.identified
        /\ x.payment = event[e].payment /\ x.contribution = event[e].contribution
        /\ x.attempts = event[e].attempts /\ x.answered = event[e].answered
    BY <1>3, <2>1 DEF PaymentWebhookEvent
  <2>3. event' = [event EXCEPT ![e] = x]
    BY <1>3, <1>5, <2>1
  <2>4. EventSound(x, row', paid_order) /\ EventGrows(event[e], x)
    BY <1>2, <1>3, <2>2 DEF EventSound, EventGrows
  <2>5. event'[e] = x
    BY <1>2, <1>3, <2>3
  <2>6. delivery[v].contribution # 0 => paid_order[event[e].payment] = delivery[v].contribution
    BY <1>1, <1>2 DEF DeliverySound
  <2>7. DeliveryStep
    BY <1>2, <1>5, <2>2, <2>5, <2>6, Moved
  <2>8. QED
    BY <1>2, <2>2, <2>3, <2>4, <2>7 DEF EventStep
<1>6. QED
  BY <1>1, <1>4, <1>5 DEF FindContribution

\* An event written with an outcome, by a delivery or by the owner.
LEMMA ConcludedEvent ==
  ASSUME MonthlyInv, NEW e \in Events, event[e].identified,
         NEW c \in Contributions \cup {0}, c # 0 => paid_order[event[e].payment] = c,
         NEW outcome \in Outcomes, NEW x,
         \E b \in BOOLEAN :
           x = [event[e] EXCEPT !.status = outcome, !.contribution = c,
                                !.attempts = @ \cup {outcome}, !.answered = b],
         event' = [event EXCEPT ![e] = x],
         \/ outcome = "REVIEW_REQUIRED" /\ row' = row
         \/ c # 0 /\ row'[c].status \in Successful /\ row'[c].payment = event[e].payment
  PROVE  EventStep
<1>1. /\ event \in [Events -> PaymentWebhookEvent] /\ event[e] \in PaymentWebhookEvent
      /\ EventSound(event[e], row, paid_order)
  BY EventTyped
<1>2. /\ x \in PaymentWebhookEvent /\ x.status = outcome /\ x.identified
      /\ x.payment = event[e].payment /\ x.contribution = c
      /\ x.attempts = event[e].attempts \cup {outcome}
  <2>1. PICK y, a : y = event[e] /\ a = y.attempts \cup {outcome}
    OBVIOUS
  <2>2. y.attempts \in SUBSET Outcomes
    BY <1>1, <2>1 DEF PaymentWebhookEvent
  <2>3. a \in SUBSET Outcomes
    BY <2>1, <2>2
  <2>4. PICK b \in BOOLEAN :
          x = [y EXCEPT !.status = outcome, !.contribution = c, !.attempts = a, !.answered = b]
    BY <2>1
  <2>5. y \in PaymentWebhookEvent /\ y.identified
    BY <1>1, <2>1
  <2>6. /\ x \in PaymentWebhookEvent /\ x.status = outcome /\ x.identified
        /\ x.payment = y.payment /\ x.contribution = c /\ x.attempts = a
    BY <2>3, <2>4, <2>5 DEF PaymentWebhookEvent
  <2>7. QED
    BY <2>1, <2>6
<1>3. event[e].status # "none"
  BY <1>1 DEF EventSound, Unheard
<1>4. EventGrows(event[e], x)
  BY <1>2, <1>3 DEF EventGrows, Outcomes
<1>5. EventSound(x, row', paid_order)
  BY <1>1, <1>2, <1>3 DEF EventSound, Outcomes
<1>6. QED
  BY <1>2, <1>4, <1>5 DEF EventStep

LEMMA CompletedEvent ==
  ASSUME MonthlyInv, NEW v \in Deliveries, CompleteCapture(v)
  PROVE  EventStep /\ DeliveryStep
<1>1. PICK e, c, p : e = delivery[v].event /\ c = delivery[v].contribution /\ p = event[e].payment
  OBVIOUS
<1>2. /\ e \in Events /\ event[e].status # "none" /\ p \in Payments
      /\ DeliverySound(delivery[v], event, row, paid_order) /\ delivery[v].at = "complete"
      /\ c \in Contributions \cup {0}
  BY <1>1, DeliveryTyped DEF CompleteCapture, DeliveryAt
<1>3. /\ c \in Contributions /\ c # 0 /\ paid_order[p] = c /\ event[e].identified
      /\ event \in [Events -> PaymentWebhookEvent] /\ event[e] \in PaymentWebhookEvent
      /\ row \in [Contributions -> ContributionRow]
  BY <1>1, <1>2, EventTyped DEF DeliverySound, MonthlyInv, TypeOK, LedgerTypeOK
<1>4. CASE ConfirmRow(c, p) /\ Conclude(e, "PROCESSED", c) /\ EndDelivery(v)
  <2>1. PICK x : x = [event[e] EXCEPT !.status = "PROCESSED", !.contribution = c,
                                      !.attempts = @ \cup {"PROCESSED"}, !.answered = TRUE]
    OBVIOUS
  <2>2. event' = [event EXCEPT ![e] = x]
    BY <1>3, <1>4, <2>1 DEF Conclude
  <2>3. PICK r \in ContributionRow : row' = [row EXCEPT ![c] = r] /\ r.status \in Successful
                                     /\ r.payment = p
    BY <1>2, <1>3, <1>4, ConfirmedRow
  <2>4. row'[c].status \in Successful /\ row'[c].payment = event[e].payment
    BY <1>1, <1>3, <2>3
  <2>5. "PROCESSED" \in Outcomes
    BY DEF Outcomes
  <2>6. EventStep
    BY <1>1, <1>2, <1>3, <2>1, <2>2, <2>4, <2>5, ConcludedEvent
  <2>7. QED
    BY <1>4, <2>6, Ended
<1>5. CASE Deliver(v, Refused(c), e, c) /\ UNCHANGED <<row, event>>
  <2>1. PICK place : place = Refused(c)
    OBVIOUS
  <2>2. /\ place \in {"review", "review_late"}
        /\ place = "review_late" => row'[c].status = "ABANDONED"
    BY <1>5, <2>1 DEF Refused
  <2>3. DeliveryStep
    BY <1>1, <1>2, <1>3, <1>5, <2>1, <2>2, Moved
  <2>4. QED
    BY <1>5, <2>3 DEF EventStep
<1>6. QED
  BY <1>1, <1>4, <1>5 DEF CompleteCapture

LEMMA ReviewedEvent ==
  ASSUME MonthlyInv, NEW v \in Deliveries, RequireReview(v)
  PROVE  EventStep /\ DeliveryStep
<1>1. PICK e, c : e = delivery[v].event /\ c = delivery[v].contribution
  OBVIOUS
<1>2. /\ e \in Events /\ c \in Contributions \cup {0} /\ event[e].identified
      /\ c # 0 => paid_order[event[e].payment] = c
  BY <1>1, DeliveryTyped DEF RequireReview, DeliverySound
<1>3. PICK x : x = [event[e] EXCEPT !.status = "REVIEW_REQUIRED", !.contribution = c,
                                    !.attempts = @ \cup {"REVIEW_REQUIRED"}, !.answered = TRUE]
  OBVIOUS
<1>4. event' = [event EXCEPT ![e] = x] /\ row' = row /\ EndDelivery(v)
  BY <1>1, <1>2, <1>3, EventTyped DEF RequireReview, Conclude
<1>5. "REVIEW_REQUIRED" \in Outcomes
  BY DEF Outcomes
<1>6. EventStep
  BY <1>2, <1>3, <1>4, <1>5, ConcludedEvent
<1>7. QED
  BY <1>4, <1>6, Ended

\* The event of a delivery that fails, as that delivery knows it.
LEMMA FailedEvent ==
  ASSUME MonthlyInv, NEW v \in Deliveries, DeliveryFails(v) \/ DeliveryDies(v)
  PROVE  EventStep /\ DeliveryStep
<1>1. PICK e, c : e = delivery[v].event /\ c = delivery[v].contribution
  OBVIOUS
<1>2. EndDelivery(v) /\ delivery[v].at # "idle" /\ row' = row
  BY DEF DeliveryFails, DeliveryDies, DeliveryAt, rowVars
<1>3. CASE DeliveryFails(v)
  <2>1. /\ e \in Events /\ c \in Contributions \cup {0} /\ event[e].status # "none"
        /\ c # 0 => paid_order[event[e].payment] = c
    BY <1>1, <1>2, DeliveryTyped DEF DeliverySound
  <2>2. /\ event \in [Events -> PaymentWebhookEvent] /\ event[e] \in PaymentWebhookEvent
        /\ EventSound(event[e], row, paid_order)
    BY <2>1, EventTyped
  <2>3. PICK x : x = [event[e] EXCEPT !.status = "RECEIVED", !.identified = TRUE, !.contribution = c]
    OBVIOUS
  <2>4. /\ x \in PaymentWebhookEvent /\ x.status = "RECEIVED" /\ x.identified
        /\ x.payment = event[e].payment /\ x.contribution = c
        /\ x.attempts = event[e].attempts /\ x.answered = event[e].answered
    BY <2>1, <2>2, <2>3 DEF PaymentWebhookEvent
  <2>5. event' = [event EXCEPT ![e] = x]
    BY <1>1, <1>3, <2>2, <2>3 DEF DeliveryFails
  <2>6. EventSound(x, row', paid_order) /\ EventGrows(event[e], x)
    BY <1>2, <2>1, <2>2, <2>4 DEF EventSound, EventGrows, Outcomes
  <2>7. QED
    BY <1>2, <2>1, <2>4, <2>5, <2>6, Ended DEF EventStep
<1>4. CASE DeliveryDies(v)
  BY <1>2, <1>4, Ended DEF DeliveryDies, EventStep
<1>5. QED
  BY <1>3, <1>4

LEMMA RecoveredEvent ==
  ASSUME MonthlyInv, NEW e \in Events, OwnerRecovers(e)
  PROVE  EventStep /\ DeliveryStep
<1>1. /\ event \in [Events -> PaymentWebhookEvent] /\ event[e] \in PaymentWebhookEvent
      /\ event[e].identified /\ event[e].payment \in Payments /\ delivery' = delivery
      /\ row \in [Contributions -> ContributionRow]
  BY EventTyped DEF OwnerRecovers, paymentVars, MonthlyInv, TypeOK, LedgerTypeOK
<1>2. PICK c \in Rows :
        /\ CapturedFor(event[e].payment, c) /\ ConfirmRow(c, event[e].payment)
        /\ event' = [event EXCEPT ![e].status = "PROCESSED", ![e].contribution = c,
                                  ![e].attempts = @ \cup {"PROCESSED"}]
  BY DEF OwnerRecovers
<1>3. c \in Contributions /\ c # 0 /\ paid_order[event[e].payment] = c
  BY <1>2 DEF Rows, CapturedFor, Contributions
<1>4. PICK x : x = [event[e] EXCEPT !.status = "PROCESSED", !.contribution = c,
                       !.attempts = @ \cup {"PROCESSED"}, !.answered = event[e].answered]
  OBVIOUS
<1>5. event' = [event EXCEPT ![e] = x]
  BY <1>1, <1>2, <1>4 DEF PaymentWebhookEvent
<1>6. PICK r \in ContributionRow : row' = [row EXCEPT ![c] = r] /\ r.status \in Successful
                                   /\ r.payment = event[e].payment
  BY <1>1, <1>2, <1>3, ConfirmedRow
<1>7. row'[c].status \in Successful /\ row'[c].payment = event[e].payment
  BY <1>1, <1>3, <1>6
<1>8. "PROCESSED" \in Outcomes /\ event[e].answered \in BOOLEAN
  BY <1>1 DEF Outcomes, PaymentWebhookEvent
<1>9. EventStep
  BY <1>1, <1>3, <1>4, <1>5, <1>7, <1>8, ConcludedEvent
<1>10. QED
  BY <1>1, <1>9 DEF DeliveryStep

LEMMA EventSteps == MonthlyInv /\ Next => EventStep /\ DeliveryStep
<1> SUFFICES ASSUME MonthlyInv, Next PROVE EventStep /\ DeliveryStep
  OBVIOUS
<1> DEFINE Still == UNCHANGED <<event, delivery>>
<1>0. Still => EventStep /\ DeliveryStep
  BY DEF EventStep, DeliveryStep
<1>1. ASSUME LedgerStep, UNCHANGED paymentVars PROVE Still
  BY <1>1 DEF LedgerStep, RecordCash, ReverseCash, AllocateLater, Tick, AcceptClosure, paymentVars
<1>2. ASSUME PaymentStep PROVE EventStep /\ DeliveryStep
  <2>1. ASSUME NEW w \in Creators,
               \/ InitiateContribution(w) \/ BeginOrderRequest(w) \/ OrderCreated(w)
               \/ OrderFails(w) \/ OrderCrashes(w) \/ ResumeCheckout(w) \/ CreatorStops(w)
        PROVE  Still
    BY <2>1 DEF InitiateContribution, BeginOrderRequest, OrderCreated, OrderFails, OrderCrashes,
                ResumeCheckout, CreatorStops
  <2>2. ASSUME NEW p \in Payments, Pay(p) \/ Capture(p) PROVE Still
    BY <2>2 DEF Pay, Capture, paymentVars
  <2>3. ASSUME NEW v \in Deliveries, NEW e \in Events, FirstDelivery(v, e) \/ RepeatedDelivery(v, e)
        PROVE  EventStep /\ DeliveryStep
    BY <2>3, FirstDelivered, Redelivered
  <2>4. ASSUME NEW v \in Deliveries, FindContribution(v) \/ CompleteCapture(v)
        PROVE  EventStep /\ DeliveryStep
    BY <2>4, FoundEvent, CompletedEvent
  <2>5. ASSUME NEW v \in Deliveries, RequireReview(v) \/ DeliveryFails(v) \/ DeliveryDies(v)
        PROVE  EventStep /\ DeliveryStep
    BY <2>5, ReviewedEvent, FailedEvent
  <2>6. ASSUME NEW e \in Events, FinalDelivery(e) \/ OwnerRecovers(e)
        PROVE  EventStep /\ DeliveryStep
    BY <2>6, Acknowledged, RecoveredEvent
  <2>7. ASSUME NEW c \in Contributions, \/ InspectOrder(c) \/ ReleaseClaim(c)
                                        \/ \E p \in Payments : Callback(c, p)
        PROVE  Still
    BY <2>7 DEF InspectOrder, ReleaseClaim, Callback, ledgerVars, paymentVars
  <2>8. QED
    BY <1>0, <1>2, <2>1, <2>2, <2>3, <2>4, <2>5, <2>6, <2>7 DEF PaymentStep
<1>3. ASSUME OwnerStep PROVE Still
  BY <1>3 DEF OwnerStep, OpenReview, AcceptTiming, DiscardReview, OutageHold, ResolveOutage,
              RecoverOrder, ledgerVars, paymentVars
<1>4. QED
  BY <1>0, <1>1, <1>2, <1>3 DEF Next

\* Money stays on the order it was made on.
LEMMA OrderStays ==
  ASSUME MonthlyInv, MoneyStep, NEW p \in Payments, paid_order[p] # 0
  PROVE  paid_order'[p] = paid_order[p]
  BY DEF MoneyStep, MonthlyInv, TypeOK, LedgerTypeOK

\* An event stays sound as long as rows are kept and money stays on its order.
LEMMA EventKept ==
  ASSUME MonthlyInv, ClaimStep, MoneyStep, NEW e \in Events
  PROVE  EventSound(event[e], row', paid_order')
<1>1. /\ event[e] \in PaymentWebhookEvent /\ EventSound(event[e], row, paid_order)
      /\ paid_order \in [Payments -> Contributions \cup {0}]
  BY EventTyped
<1>2. CASE event[e].contribution = 0 /\ "PROCESSED" \notin event[e].attempts
  BY <1>1, <1>2 DEF EventSound
<1>3. CASE event[e].contribution # 0 \/ "PROCESSED" \in event[e].attempts
  <2>1. event[e].status # "none" /\ event[e].payment \in Payments
    BY <1>1, <1>3 DEF EventSound, Unheard
  <2>2. PICK c : c = paid_order[event[e].payment]
    OBVIOUS
  <2>3. c # 0 /\ c \in Contributions
    <3>1. c # 0
      BY <1>1, <1>3, <2>2 DEF EventSound
    <3>2. QED
      BY <1>1, <2>1, <2>2, <3>1
  <2>4. paid_order'[event[e].payment] = c /\ RowKept(row[c], row'[c])
    BY <2>1, <2>2, <2>3, OrderStays, RowsAreKept
  <2>5. QED
    BY <1>1, <2>1, <2>2, <2>4 DEF EventSound, RowKept
<1>4. QED
  BY <1>2, <1>3

LEMMA EventsStaySound == MonthlyInv /\ ClaimStep /\ MoneyStep /\ EventStep => EventsAreSound'
<1> SUFFICES ASSUME MonthlyInv, ClaimStep, MoneyStep, EventStep, NEW e \in Events
             PROVE  EventSound(event'[e], row', paid_order')
  BY DEF EventsAreSound
<1>1. EventSound(event[e], row', paid_order') /\ event \in [Events -> PaymentWebhookEvent]
  BY EventKept, EventTyped
<1>2. CASE UNCHANGED event
  BY <1>1, <1>2
<1>3. ASSUME NEW f \in Events, NEW x \in PaymentWebhookEvent, event' = [event EXCEPT ![f] = x],
             EventSound(x, row', paid_order), ~UNCHANGED event
      PROVE  EventSound(event'[e], row', paid_order')
  <2>1. paid_order' = paid_order
    BY <1>3 DEF MoneyStep
  <2>2. QED
    BY <1>1, <1>3, <2>1
<1>4. QED
  BY <1>2, <1>3 DEF EventStep

\* What an event that was heard of keeps through a step.
LEMMA EventsGrow ==
  ASSUME MonthlyInv, EventStep, NEW e \in Events
  PROVE  EventGrows(event[e], event'[e])
<1>1. event \in [Events -> PaymentWebhookEvent] /\ EventGrows(event[e], event[e])
  BY EventTyped DEF EventGrows
<1>2. QED
  BY <1>1 DEF EventStep

LEMMA DeliveriesStaySound ==
  MonthlyInv /\ ClaimStep /\ MoneyStep /\ EventStep /\ DeliveryStep => DeliveriesAreSound'
<1> SUFFICES ASSUME MonthlyInv, ClaimStep, MoneyStep, EventStep, DeliveryStep,
                    NEW v \in Deliveries
             PROVE  DeliverySound(delivery'[v], event', row', paid_order')
  BY DEF DeliveriesAreSound
<1>1. DeliverySound(delivery[v], event', row', paid_order')
  <2>1. CASE delivery[v].at = "idle"
    BY <2>1 DEF DeliverySound
  <2>2. CASE delivery[v].at # "idle"
    <3>1. PICK e, c : e = delivery[v].event /\ c = delivery[v].contribution
      OBVIOUS
    <3>2. /\ e \in Events /\ event[e].status # "none" /\ event[e].payment \in Payments
          /\ c \in Contributions \cup {0} /\ DeliverySound(delivery[v], event, row, paid_order)
      BY <2>2, <3>1, DeliveryTyped
    <3>3. /\ event'[e].status # "none" /\ event'[e].payment = event[e].payment
          /\ event[e].identified => event'[e].identified
      BY <3>2, EventsGrow DEF EventGrows
    <3>4. c # 0 => paid_order'[event'[e].payment] = c /\ RowKept(row[c], row'[c])
      BY <2>2, <3>1, <3>2, <3>3, OrderStays, RowsAreKept DEF DeliverySound
    <3>5. QED
      BY <2>2, <3>1, <3>2, <3>3, <3>4 DEF DeliverySound, RowKept
  <2>3. QED
    BY <2>1, <2>2
<1>2. CASE UNCHANGED delivery
  BY <1>1, <1>2
<1>3. ASSUME NEW u \in Deliveries, NEW x \in DeliveryRecord, delivery' = [delivery EXCEPT ![u] = x],
             DeliverySound(x, event', row', paid_order)
      PROVE  DeliverySound(delivery'[v], event', row', paid_order')
  <2>1. DeliverySound(x, event', row', paid_order')
    <3>1. CASE x.at = "idle"
      BY <3>1 DEF DeliverySound
    <3>2. CASE x.at # "idle" /\ UNCHANGED paid_order
      BY <1>3, <3>2
    <3>3. CASE x.at # "idle" /\ ~UNCHANGED paid_order
      <4>1. event' = event
        BY <3>3 DEF MoneyStep
      <4>2. PICK e, c : e = x.event /\ c = x.contribution
        OBVIOUS
      <4>3. /\ e \in Events /\ event[e].status # "none"
            /\ c # 0 => paid_order[event[e].payment] = c
        BY <1>3, <3>3, <4>1, <4>2 DEF DeliverySound
      <4>4. c # 0 => paid_order'[event[e].payment] = c
        BY <4>3, EventTyped, OrderStays
      <4>5. QED
        BY <1>3, <3>3, <4>1, <4>2, <4>4 DEF DeliverySound
    <3>4. QED
      BY <3>1, <3>2, <3>3
  <2>2. delivery \in [Deliveries -> DeliveryRecord]
    BY DeliveryTyped
  <2>3. QED
    BY <1>1, <1>3, <2>1, <2>2
<1>4. QED
  BY <1>2, <1>3 DEF DeliveryStep

\* The evidence of an earlier decision holds on.
LEMMA EvidenceKept ==
  ASSUME MonthlyInv, MoneyStep, EventStep, NEW c \in Contributions,
         NEW i \in 1..Len(decisions[c])
  PROVE  EvidenceHolds(decisions[c][i], c, event', paid_order')
<1>1. PICK d : d = decisions[c][i]
  OBVIOUS
<1>2. EvidenceHolds(d, c, event, paid_order)
  BY <1>1 DEF MonthlyInv, EvidenceIsSound
<1>3. CASE d.event = NoEvent
  BY <1>1, <1>3 DEF EvidenceHolds
<1>4. CASE d.event # NoEvent
  <2>1. PICK e : e = d.event
    OBVIOUS
  <2>2. decisions[c] \in Decisions
    BY ClaimTyped DEF MonthlyInv, TypeOK, Decisions
  <2>3. d \in InstalmentPaymentDecision
    BY <1>1, <2>2 DEF Decisions
  <2>4. e \in Events
    BY <1>4, <2>1, <2>3 DEF InstalmentPaymentDecision
  <2>5. OutcomeFor(d) \in event[e].attempts /\ paid_order[event[e].payment] = c
    BY <1>2, <1>4, <2>1 DEF EvidenceHolds
  <2>6. event[e].status # "none" /\ event[e].payment \in Payments
    BY <2>4, <2>5, EventTyped DEF EventSound, Unheard
  <2>7. OutcomeFor(d) \in event'[e].attempts /\ event'[e].payment = event[e].payment
    BY <2>4, <2>5, <2>6, EventsGrow DEF EventGrows
  <2>8. paid_order'[event[e].payment] = c
    BY <2>5, <2>6, OrderStays DEF Contributions
  <2>9. QED
    BY <1>1, <2>1, <2>7, <2>8 DEF EvidenceHolds
<1>5. QED
  BY <1>3, <1>4

LEMMA EvidenceStaysSound ==
  MonthlyInv /\ ClaimStep /\ MoneyStep /\ EventStep => EvidenceIsSound'
<1> SUFFICES ASSUME MonthlyInv, ClaimStep, MoneyStep, EventStep, NEW c \in Contributions,
                    NEW i \in 1..Len(decisions'[c])
             PROVE  EvidenceHolds(decisions'[c][i], c, event', paid_order')
  BY DEF EvidenceIsSound
<1>t. decisions \in [Contributions -> Seq(InstalmentPaymentDecision)]
      /\ decisions[c] \in Decisions /\ Len(decisions[c]) \in Nat
  BY DEF MonthlyInv, TypeOK, LedgerTypeOK, Decisions
<1>1. CASE decisions'[c] = decisions[c]
  BY <1>1, EvidenceKept
<1>2. ASSUME NEW b \in Contributions, Opened(b)
      PROVE  EvidenceHolds(decisions'[c][i], c, event', paid_order')
  <2>1. PICK d : decisions' = [decisions EXCEPT ![b] = d] /\ \A j \in 1..Len(d) : d[j].event = NoEvent
    BY <1>2 DEF Opened, OnlyRow
  <2>2. decisions'[c] = decisions[c] \/ decisions'[c] = d
    BY <1>t, <2>1
  <2>3. decisions'[c] = d => EvidenceHolds(decisions'[c][i], c, event', paid_order')
    BY <2>1 DEF EvidenceHolds
  <2>4. QED
    BY <1>1, <2>2, <2>3
<1>3. ASSUME NEW b \in Contributions, Continued(b)
      PROVE  EvidenceHolds(decisions'[c][i], c, event', paid_order')
  <2>1. PICK d \in Decisions :
          /\ decisions' = [decisions EXCEPT ![b] = d] /\ Extended(decisions[b], d)
          /\ \A j \in 1..Len(d) : j <= Len(decisions[b]) \/ EvidenceHolds(d[j], b, event', paid_order)
    BY <1>3 DEF Continued, OnlyRow
  <2>2. CASE b # c
    BY <1>t, <1>1, <2>1, <2>2
  <2>3. CASE b = c
    <3>1. decisions'[c] = d
      BY <1>t, <2>1, <2>3
    <3>2. CASE i <= Len(decisions[c])
      <4>1. i \in 1..Len(decisions[c]) /\ d[i] = decisions[c][i]
        BY <1>t, <2>1, <2>3, <3>1, <3>2 DEF Extended, Decisions
      <4>2. QED
        BY <3>1, <4>1, EvidenceKept
    <3>3. CASE ~(i <= Len(decisions[c]))
      <4>1. EvidenceHolds(d[i], c, event', paid_order)
        BY <2>1, <2>3, <3>1, <3>3
      <4>2. paid_order' = paid_order
        BY <1>t, <3>1, <3>3 DEF MoneyStep, rowVars
      <4>3. QED
        BY <3>1, <4>1, <4>2
    <3>4. QED
      BY <3>2, <3>3
  <2>4. QED
    BY <2>2, <2>3
<1>4. CASE UNCHANGED rowVars
  BY <1>1, <1>4 DEF rowVars
<1>5. QED
  BY <1>2, <1>3, <1>4 DEF ClaimStep

-----------------------------------------------------------------------------
(* The schedule. *)

ScheduleStep ==
  /\ now' \in 0..MaxTime /\ now' >= now
  /\ \/ UNCHANGED compensated
     \/ /\ UNCHANGED rowVars
        /\ Claimed = InState({"QUALIFIED"} \cup Freed) /\ Len(compensated) < MaxExtra
        /\ \E p \in Periods :
             /\ compensated' = Append(compensated, p)
             /\ EndsBefore(p) <= now /\ p \notin PaidPeriods
             /\ \A i \in 1..Len(compensated) : compensated[i] # p

LEMMA ScheduleSteps == MonthlyInv /\ Next => ScheduleStep
<1> SUFFICES ASSUME MonthlyInv, Next PROVE ScheduleStep
  OBVIOUS
<1>t. now \in 0..MaxTime /\ now \in Nat /\ MaxTime \in Nat
  BY InstalmentAssumption DEF MonthlyInv, TypeOK, LedgerTypeOK
<1> DEFINE Still == UNCHANGED <<now, compensated>>
<1>1. ASSUME LedgerStep PROVE ScheduleStep
  <2>1. Still \/ Tick
    BY <1>1 DEF LedgerStep, RecordCash, ReverseCash, AllocateLater, AcceptClosure, scheduleVars
  <2>2. CASE Still
    BY <1>t, <2>2 DEF ScheduleStep
  <2>3. CASE Tick
    BY <1>t, <2>3 DEF ScheduleStep, Tick, scheduleVars
  <2>4. QED
    BY <2>1, <2>2, <2>3
<1>2. ASSUME PaymentStep PROVE Still
  <2>1. ASSUME NEW w \in Creators,
               \/ InitiateContribution(w) \/ BeginOrderRequest(w) \/ OrderCreated(w)
               \/ OrderFails(w) \/ OrderCrashes(w) \/ ResumeCheckout(w) \/ CreatorStops(w)
        PROVE  Still
    BY <2>1 DEF InitiateContribution, BeginOrderRequest, OrderCreated, OrderFails, OrderCrashes,
                ResumeCheckout, CreatorStops, scheduleVars
  <2>2. ASSUME NEW p \in Payments, Pay(p) \/ Capture(p) PROVE Still
    BY <2>2 DEF Pay, Capture, scheduleVars
  <2>3. ASSUME \/ \E v \in Deliveries :
                    \/ \E e \in Events : FirstDelivery(v, e) \/ RepeatedDelivery(v, e)
                    \/ FindContribution(v) \/ CompleteCapture(v) \/ RequireReview(v)
                    \/ DeliveryFails(v) \/ DeliveryDies(v)
               \/ \E e \in Events : FinalDelivery(e) \/ OwnerRecovers(e)
        PROVE  Still
    BY <2>3 DEF FirstDelivery, RepeatedDelivery, FinalDelivery, FindContribution, CompleteCapture,
                RequireReview, DeliveryFails, DeliveryDies, OwnerRecovers, scheduleVars
  <2>4. ASSUME NEW c \in Contributions, \/ InspectOrder(c) \/ ReleaseClaim(c)
                                        \/ \E p \in Payments : Callback(c, p)
        PROVE  Still
    BY <2>4 DEF InspectOrder, ReleaseClaim, Callback, scheduleVars, ledgerVars
  <2>5. QED
    BY <1>2, <2>1, <2>2, <2>3, <2>4 DEF PaymentStep
<1>3. ASSUME OwnerStep PROVE ScheduleStep
  <2>1. ASSUME \/ OpenReview \/ AcceptTiming \/ DiscardReview
               \/ \E p \in Periods : OutageHold(p)
               \/ \E c \in Contributions : RecoverOrder(c)
        PROVE  Still
    BY <2>1 DEF OpenReview, AcceptTiming, DiscardReview, OutageHold, RecoverOrder, scheduleVars, ledgerVars
  <2>2. ASSUME NEW p \in Periods, NEW o \in {"COMPENSATE", "RESTORED", "QUALIFIED"}, ResolveOutage(p, o)
        PROVE  ScheduleStep
    <3>1. now' = now /\ UNCHANGED rowVars /\ Claimed = InState({"QUALIFIED"} \cup Freed)
      BY <2>2 DEF ResolveOutage, Reconciled, rowVars
    <3>2. \/ UNCHANGED compensated
          \/ /\ compensated' = Append(compensated, p) /\ Len(compensated) < MaxExtra
             /\ now >= EndsBefore(p) /\ p \notin PaidPeriods
             /\ \A i \in 1..Len(compensated) : compensated[i] # p
      BY <2>2 DEF ResolveOutage
    <3>3. now >= EndsBefore(p) <=> EndsBefore(p) <= now
      BY <1>t, InstalmentAssumption DEF EndsBefore, Periods
    <3>4. QED
      BY <1>t, <3>1, <3>2, <3>3 DEF ScheduleStep
  <2>3. Still => ScheduleStep
    BY <1>t DEF ScheduleStep
  <2>4. QED
    BY <1>3, <2>1, <2>2, <2>3 DEF OwnerStep
<1>4. QED
  BY <1>t, <1>1, <1>2, <1>3 DEF Next, ScheduleStep

\* Whose claims live, and who is under way, after a step.
LEMMA StatesAfter ==
  ASSUME MonthlyInv, ClaimStep
  PROVE  \/ /\ InState(Unpaid)' \subseteq InState(Unpaid)
            /\ LiveClaims' \subseteq LiveClaims
            /\ \A c \in LiveClaims : claim'[c].period = claim[c].period
         \/ \E c \in Contributions :
              /\ PayableExcept(0) /\ decisions[c] = <<>>
              /\ InState(Unpaid)' \subseteq InState(Unpaid) \cup {c}
              /\ LiveClaims' = LiveClaims \cup {c}
              /\ claim'[c].period \in CurrentPeriods
              /\ \A b \in Contributions \ {c} : claim'[b] = claim[b]
<1>t. /\ claim \in [Contributions -> InstalmentReservation]
      /\ decisions \in [Contributions -> Seq(InstalmentPaymentDecision)]
  BY DEF MonthlyInv, TypeOK, LedgerTypeOK
<1>1. CASE UNCHANGED rowVars
  BY <1>1 DEF rowVars, InState, Claimed, State, LiveClaims
<1>2. ASSUME NEW c \in Contributions, Opened(c)
      PROVE  /\ PayableExcept(0) /\ decisions[c] = <<>>
             /\ InState(Unpaid)' \subseteq InState(Unpaid) \cup {c}
             /\ LiveClaims' = LiveClaims \cup {c}
             /\ claim'[c].period \in CurrentPeriods
             /\ \A b \in Contributions \ {c} : claim'[b] = claim[b]
  <2>1. PICK k, d :
          /\ claim' = [claim EXCEPT ![c] = k] /\ decisions' = [decisions EXCEPT ![c] = d]
          /\ d # <<>> /\ LastState(d) \in Live /\ k.period \in CurrentPeriods
    BY <1>2 DEF Opened, OnlyRow, ClaimSound
  <2>2. decisions'[c] = d /\ \A b \in Contributions \ {c} : decisions'[b] = decisions[b]
    BY <1>t, <2>1
  <2>3. claim'[c] = k /\ \A b \in Contributions \ {c} : claim'[b] = claim[b]
    BY <1>t, <2>1
  <2>4. decisions[c] = <<>> /\ PayableExcept(0)
    BY <1>2 DEF Opened
  <2>5. InState(Unpaid)' \subseteq InState(Unpaid) \cup {c}
    BY <2>2 DEF InState, Claimed, State
  <2>6. LiveClaims' = LiveClaims \cup {c}
    BY <2>1, <2>2, <2>4 DEF InState, Claimed, State, LiveClaims, LastState
  <2>7. QED
    BY <2>1, <2>3, <2>4, <2>5, <2>6
<1>3. ASSUME NEW c \in Contributions, Continued(c)
      PROVE  /\ InState(Unpaid)' \subseteq InState(Unpaid)
             /\ LiveClaims' \subseteq LiveClaims
             /\ \A b \in LiveClaims : claim'[b].period = claim[b].period
  <2>1. PICK d \in Decisions :
          /\ claim' = [claim EXCEPT ![c] = claim[c]] /\ decisions' = [decisions EXCEPT ![c] = d]
          /\ decisions[c] # <<>> /\ Move(State(c), LastState(d))
    BY <1>3 DEF Continued, OnlyRow
  <2>2. decisions'[c] = d /\ \A b \in Contributions \ {c} : decisions'[b] = decisions[b]
    BY <1>t, <2>1
  <2>3. claim' = claim
    BY <1>t, <2>1
  <2>4. InState(Unpaid)' \subseteq InState(Unpaid)
    BY <2>1, <2>2 DEF InState, Claimed, State, Move, LastState
  <2>5. LiveClaims' \subseteq LiveClaims
    BY <2>1, <2>2 DEF InState, Claimed, State, Move, LastState, LiveClaims
  <2>6. QED
    BY <2>3, <2>4, <2>5
<1>4. QED
  BY <1>1, <1>2, <1>3 DEF ClaimStep

\* A claim is opened when nothing is under way and its month is free.
LEMMA PayableIsFree ==
  ASSUME MonthlyInv, PayableExcept(0)
  PROVE  /\ InState(Unpaid) = {} /\ Cardinality(LiveClaims) < Required
         /\ \A c \in LiveClaims : claim[c].period \notin CurrentPeriods
<1>1. 0 \notin Contributions
  BY DEF Contributions
<1>2. InState(Open) = {}
  BY <1>1 DEF PayableExcept, InState, Claimed
<1>3. InState(Unpaid) = {} /\ LiveClaims = Qualified
  BY <1>2 DEF InState, Open, Unpaid, LiveClaims, Live, Qualified
<1>4. Cardinality(LiveClaims) < Required
  BY <1>3 DEF PayableExcept
<1>5. ASSUME NEW c \in LiveClaims PROVE claim[c].period \notin CurrentPeriods
  <2>1. c \in Claimed /\ c # 0 /\ State(c) \notin Freed
    BY <1>1 DEF LiveClaims, InState, Claimed, Live, Freed
  <2>2. QED
    BY <2>1 DEF PayableExcept
<1>6. QED
  BY <1>3, <1>4, <1>5

LEMMA FiniteClaims ==
  ASSUME NEW S
  PROVE  IsFiniteSet(InState(S)) /\ Cardinality(InState(S)) \in Nat
<1>1. IsFiniteSet(Contributions)
  BY FS_Interval, InstalmentAssumption DEF Contributions
<1>2. InState(S) \subseteq Contributions
  BY DEF InState, Claimed
<1>3. IsFiniteSet(InState(S))
  BY <1>1, <1>2, FS_Subset
<1>4. QED
  BY <1>3, FS_CardinalityType

LEMMA ScheduleStaysSound == MonthlyInv /\ ClaimStep /\ ScheduleStep => ScheduleSound'
<1> SUFFICES ASSUME MonthlyInv, ClaimStep, ScheduleStep PROVE ScheduleSound'
  OBVIOUS
<1>s. ScheduleSound
  BY DEF MonthlyInv
<1>t. /\ claim \in [Contributions -> InstalmentReservation] /\ Required \in Nat
      /\ IsCompensations(compensated) /\ Len(compensated) \in Nat /\ now \in Nat /\ now' \in Nat
  BY InstalmentAssumption DEF MonthlyInv, TypeOK, LedgerTypeOK, IsCompensations, ScheduleStep
<1>f. /\ IsFiniteSet(LiveClaims) /\ LiveClaims \subseteq Contributions
      /\ Cardinality(LiveClaims) \in Nat /\ Cardinality(LiveClaims) <= Required
  BY <1>s, FiniteClaims DEF LiveClaims, ScheduleSound, InState, Claimed
<1>1. CASE /\ InState(Unpaid)' \subseteq InState(Unpaid)
           /\ LiveClaims' \subseteq LiveClaims
           /\ \A c \in LiveClaims : claim'[c].period = claim[c].period
  <2>1. \A c, d \in InState(Unpaid)' : c = d
    BY <1>s, <1>1 DEF ScheduleSound
  <2>2. \A c, d \in LiveClaims' : claim'[c].period = claim'[d].period => c = d
    BY <1>s, <1>1 DEF ScheduleSound
  <2>3. Cardinality(LiveClaims)' <= Required
    <3>1. IsFiniteSet(LiveClaims') /\ Cardinality(LiveClaims') <= Cardinality(LiveClaims)
          /\ Cardinality(LiveClaims') \in Nat
      BY <1>f, <1>1, FS_Subset, FS_CardinalityType
    <3>2. QED
      BY <1>f, <1>t, <3>1
  <2>4. ASSUME NEW i \in 1..Len(compensated)
        PROVE  /\ EndsBefore(compensated[i]) <= now'
               /\ \A c \in LiveClaims' : claim'[c].period # compensated[i]
    <3>1. compensated[i] \in Periods /\ EndsBefore(compensated[i]) \in Int
      BY <1>t, InstalmentAssumption DEF IsCompensations, Periods, EndsBefore
    <3>2. EndsBefore(compensated[i]) <= now'
      BY <1>s, <1>t, <3>1 DEF ScheduleSound, ScheduleStep
    <3>3. QED
      BY <1>s, <1>1, <3>2 DEF ScheduleSound
  <2>5. CASE UNCHANGED compensated
    BY <1>s, <2>1, <2>2, <2>3, <2>4, <2>5 DEF ScheduleSound, EndsBefore
  <2>6. ASSUME NEW p \in Periods, compensated' = Append(compensated, p),
               Claimed = InState({"QUALIFIED"} \cup Freed),
               EndsBefore(p) <= now, p \notin PaidPeriods,
               \A i \in 1..Len(compensated) : compensated[i] # p
        PROVE  ScheduleSound'
    <3>1. PICK s : s = compensated' /\ s = Append(compensated, p)
      BY <2>6
    <3>2. /\ Len(s) = Len(compensated) + 1 /\ s[Len(s)] = p
          /\ \A i \in 1..Len(s) : (i \in 1..Len(compensated) /\ s[i] = compensated[i]) \/ i = Len(s)
      BY <1>t, <3>1 DEF IsCompensations
    <3>3. \A i, j \in 1..Len(s) : s[i] = s[j] => i = j
      BY <1>s, <2>6, <3>2 DEF ScheduleSound
    <3>4. \A c \in LiveClaims : claim[c].period # p
      BY <2>6 DEF LiveClaims, InState, Live, Freed, PaidPeriods, Qualified
    <3>5. EndsBefore(p) \in Int /\ EndsBefore(p) <= now'
      BY <1>t, <2>6, InstalmentAssumption DEF Periods, EndsBefore, ScheduleStep
    <3>6. \A i \in 1..Len(s) : /\ EndsBefore(s[i]) <= now'
                               /\ \A c \in LiveClaims' : claim'[c].period # s[i]
      BY <1>1, <2>4, <3>2, <3>4, <3>5
    <3>7. QED
      BY <2>1, <2>2, <2>3, <3>1, <3>3, <3>6 DEF ScheduleSound, EndsBefore
  <2>7. QED
    BY <2>5, <2>6 DEF ScheduleStep
<1>2. ASSUME NEW c \in Contributions, PayableExcept(0), decisions[c] = <<>>,
             InState(Unpaid)' \subseteq InState(Unpaid) \cup {c},
             LiveClaims' = LiveClaims \cup {c},
             claim'[c].period \in CurrentPeriods,
             \A b \in Contributions \ {c} : claim'[b] = claim[b]
      PROVE  ScheduleSound'
  <2>1. /\ InState(Unpaid) = {} /\ Cardinality(LiveClaims) < Required
        /\ \A b \in LiveClaims : claim[b].period \notin CurrentPeriods
    BY <1>2, PayableIsFree
  <2>2. c \notin LiveClaims
    BY <1>2 DEF LiveClaims, InState, Claimed
  <2>3. \A b, d \in InState(Unpaid)' : b = d
    BY <1>2, <2>1
  <2>4. \A b, d \in LiveClaims' : claim'[b].period = claim'[d].period => b = d
    BY <1>s, <1>f, <1>2, <2>1, <2>2 DEF ScheduleSound
  <2>5. Cardinality(LiveClaims)' <= Required
    <3>1. Cardinality(LiveClaims \cup {c}) = Cardinality(LiveClaims) + 1
      BY <1>f, <2>2, FS_AddElement
    <3>2. QED
      BY <1>f, <1>t, <1>2, <2>1, <3>1
  <2>6. claim'[c].period \in Periods /\ now < EndsBefore(claim'[c].period)
    BY <1>2, PeriodsInUse DEF Within, MonthlyInv, TypeOK
  <2>7. UNCHANGED compensated
    <3>1. c \in LiveClaims'
      BY <1>2
    <3>2. ~UNCHANGED rowVars
      BY <2>2, <3>1 DEF rowVars, LiveClaims, InState, Claimed, State
    <3>3. QED
      BY <3>2 DEF ScheduleStep
  <2>8. ASSUME NEW i \in 1..Len(compensated)
        PROVE  /\ EndsBefore(compensated[i]) <= now'
               /\ \A b \in LiveClaims' : claim'[b].period # compensated[i]
    <3>a. compensated[i] \in Periods
      BY <1>t DEF IsCompensations
    <3>b. \A p \in Periods : EndsBefore(p) \in Int
      BY InstalmentAssumption DEF Periods, EndsBefore
    <3>c. EndsBefore(compensated[i]) <= now
      BY <1>s DEF ScheduleSound
    <3>1. /\ compensated[i] \in Periods /\ EndsBefore(compensated[i]) \in Int
          /\ EndsBefore(compensated[i]) <= now /\ EndsBefore(claim'[c].period) \in Int
      BY <2>6, <3>a, <3>b, <3>c
    <3>2. EndsBefore(compensated[i]) <= now'
      BY <1>t, <3>1 DEF ScheduleStep
    <3>3. claim'[c].period # compensated[i]
      BY <1>t, <2>6, <3>1
    <3>4. \A b \in LiveClaims : b # c => claim'[b].period # compensated[i]
      BY <1>s, <1>f, <1>2 DEF ScheduleSound
    <3>5. QED
      BY <1>2, <3>2, <3>3, <3>4
  <2>9. QED
    BY <1>s, <2>3, <2>4, <2>5, <2>7, <2>8 DEF ScheduleSound, EndsBefore
<1>3. QED
  BY <1>1, <1>2, StatesAfter

-----------------------------------------------------------------------------
(* Requests and their orders. *)

\* What a claim may have become after a step.
LEMMA ClaimAfter ==
  ASSUME MonthlyInv, ClaimStep, NEW c \in Contributions
  PROVE  \/ row'[c] = row[c] /\ decisions'[c] = decisions[c]
         \/ decisions[c] = <<>> /\ decisions'[c] \in Decisions /\ decisions'[c] # <<>>
         \/ /\ decisions[c] # <<>> /\ decisions'[c] \in Decisions /\ decisions'[c] # <<>>
            /\ Extended(decisions[c], decisions'[c])
            /\ Move(State(c), LastState(decisions'[c]))
            /\ State(c) = "REVERSED" => decisions'[c] = decisions[c]
            /\ RowKept(row[c], row'[c]) /\ IntentKept(c, row'[c], decisions'[c])
<1>t. /\ row \in [Contributions -> ContributionRow]
      /\ decisions \in [Contributions -> Seq(InstalmentPaymentDecision)]
  BY DEF MonthlyInv, TypeOK, LedgerTypeOK
<1>1. CASE UNCHANGED rowVars
  BY <1>1 DEF rowVars
<1>2. ASSUME NEW b \in Contributions, Opened(b)
      PROVE  \/ row'[c] = row[c] /\ decisions'[c] = decisions[c]
             \/ decisions[c] = <<>> /\ decisions'[c] \in Decisions /\ decisions'[c] # <<>>
  BY <1>t, <1>2 DEF Opened, OnlyRow, ClaimSound
<1>3. ASSUME NEW b \in Contributions, Continued(b)
      PROVE  \/ row'[c] = row[c] /\ decisions'[c] = decisions[c]
             \/ /\ decisions[c] # <<>> /\ decisions'[c] \in Decisions /\ decisions'[c] # <<>>
                /\ Extended(decisions[c], decisions'[c])
                /\ Move(State(c), LastState(decisions'[c]))
                /\ State(c) = "REVERSED" => decisions'[c] = decisions[c]
                /\ RowKept(row[c], row'[c]) /\ IntentKept(c, row'[c], decisions'[c])
  <2>1. PICK r \in ContributionRow, d \in Decisions :
          /\ OnlyRow(b, r, claim[b], d) /\ decisions[b] # <<>> /\ d # <<>>
          /\ Extended(decisions[b], d) /\ Move(State(b), LastState(d)) /\ RowKept(row[b], r)
          /\ State(b) = "REVERSED" => d = decisions[b]
          /\ IntentKept(b, r, d)
    BY <1>3 DEF Continued, ClaimSound
  <2>2. CASE b = c
    <3>1. row'[c] = r /\ decisions'[c] = d
      BY <1>t, <2>1, <2>2 DEF OnlyRow
    <3>2. QED
      BY <2>1, <2>2, <3>1
  <2>3. CASE b # c
    BY <1>t, <2>1, <2>3 DEF OnlyRow
  <2>4. QED
    BY <2>2, <2>3
<1>4. QED
  BY <1>1, <1>2, <1>3 DEF ClaimStep

LEMMA ClaimsGrow ==
  ASSUME MonthlyInv, ClaimStep
  PROVE  Claimed \subseteq Claimed'
  BY ClaimAfter DEF Claimed

RequestStep ==
  \/ UNCHANGED <<creator, orders>>
  \/ \E w \in Creators, x \in [at : {"idle", "begin", "order", "resume"},
                               contribution : Contributions \cup {0}] :
       /\ creator' = [creator EXCEPT ![w] = x]
       /\ \/ /\ x.at # "order" /\ UNCHANGED orders
             /\ x.at # "idle" => x.contribution \in Claimed'
          \/ /\ x.at = "order" /\ UNCHANGED <<orders, row>> /\ x.contribution \in Claimed
             /\ State(x.contribution) = "RESERVED" /\ ~row[x.contribution].ordered
             /\ LastState(decisions'[x.contribution]) = "ORDERING"
          \/ /\ x = Resting /\ creator[w].at = "order"
             /\ State(creator[w].contribution) = "ORDERING"
             /\ PayableExcept(creator[w].contribution)
             /\ ProviderCreates(creator[w].contribution)

LEMMA CreatorTyped ==
  ASSUME MonthlyInv, NEW w \in Creators
  PROVE  /\ creator \in [Creators -> [at : {"idle", "begin", "order", "resume"},
                                      contribution : Contributions \cup {0}]]
         /\ creator[w].at # "idle" => creator[w].contribution \in Claimed
         /\ Resting \in [at : {"idle", "begin", "order", "resume"},
                         contribution : Contributions \cup {0}]
         /\ Resting.at = "idle"
         /\ \A c \in Contributions, place \in {"idle", "begin", "order", "resume"} :
              [at |-> place, contribution |-> c] \in [at : {"idle", "begin", "order", "resume"},
                                                      contribution : Contributions \cup {0}]
  BY DEF MonthlyInv, TypeOK, PaymentTypeOK, CreatorsAreSound, Resting

LEMMA RestingRequest ==
  ASSUME MonthlyInv, NEW w \in Creators, Rest(w), UNCHANGED orders
  PROVE  RequestStep
<1>1. PICK x \in [at : {"idle", "begin", "order", "resume"}, contribution : Contributions \cup {0}] :
        x = Resting /\ x.at = "idle"
  BY CreatorTyped
<1>2. creator' = [creator EXCEPT ![w] = x]
  BY <1>1 DEF Rest
<1>3. QED
  BY <1>1, <1>2 DEF RequestStep

LEMMA MovingRequest ==
  ASSUME MonthlyInv, NEW w \in Creators, NEW c \in Contributions, c \in Claimed',
         NEW place \in {"begin", "resume"}, Proceed(w, place, c), UNCHANGED orders
  PROVE  RequestStep
<1>1. PICK x : x = [at |-> place, contribution |-> c]
  OBVIOUS
<1>2. /\ x \in [at : {"idle", "begin", "order", "resume"}, contribution : Contributions \cup {0}]
      /\ x.at = place /\ x.contribution = c
  BY <1>1
<1>3. creator' = [creator EXCEPT ![w] = x]
  BY <1>1 DEF Proceed
<1>4. QED
  BY <1>2, <1>3 DEF RequestStep

LEMMA AskingRequest ==
  ASSUME MonthlyInv, NEW w \in Creators,
         \/ /\ OrderCrashes(w) \/ OrderCreated(w) \/ OrderFails(w)
            /\ ProviderCreates(creator[w].contribution)
  PROVE  RequestStep
<1>1. PICK x \in [at : {"idle", "begin", "order", "resume"}, contribution : Contributions \cup {0}] :
        x = Resting
  BY CreatorTyped
<1>2. creator' = [creator EXCEPT ![w] = x] /\ creator[w].at = "order"
  BY <1>1 DEF Rest, OrderCrashes, OrderCreated, OrderFails, CreatorAt
<1>3. State(creator[w].contribution) = "ORDERING" /\ PayableExcept(creator[w].contribution)
  BY DEF OrderCrashes, OrderCreated, OrderFails, StillPayable
<1>4. QED
  BY <1>1, <1>2, <1>3 DEF RequestStep

LEMMA BegunRequest ==
  ASSUME MonthlyInv, ClaimStep, NEW w \in Creators, BeginOrderRequest(w)
  PROVE  RequestStep
<1>1. PICK c : c = creator[w].contribution /\ c \in Claimed /\ c \in Contributions /\ c \in Claimed'
  BY CreatorTyped, ClaimsGrow DEF BeginOrderRequest, CreatorAt, Claimed
<1>2. row' = row /\ orders' = orders
  BY DEF BeginOrderRequest, moneyVars
<1>3. CASE Proceed(w, "resume", c)
  BY <1>1, <1>2, <1>3, MovingRequest
<1>4. CASE /\ Proceed(w, "order", c) /\ ~row[c].ordered /\ State(c) = "RESERVED"
           /\ AppendDecision(c, Plain("ORDERING", "PROVIDER_ORDER_REQUEST_STARTED"))
  <2>1. PICK x : x = [at |-> "order", contribution |-> c]
    OBVIOUS
  <2>2. /\ x \in [at : {"idle", "begin", "order", "resume"}, contribution : Contributions \cup {0}]
        /\ x.at = "order" /\ x.contribution = c
    BY <1>1, <2>1
  <2>3. creator' = [creator EXCEPT ![w] = x]
    BY <1>4, <2>1 DEF Proceed
  <2>4. PICK y : y = Plain("ORDERING", "PROVIDER_ORDER_REQUEST_STARTED")
    OBVIOUS
  <2>5. y \in InstalmentPaymentDecision /\ y.state = "ORDERING"
    BY <2>4 DEF Plain, Decision, InstalmentPaymentDecision, ClaimStates, DecisionCodes
  <2>6. decisions[c] \in Decisions /\ decisions[c] # <<>>
    BY <1>1, ClaimTyped DEF MonthlyInv, TypeOK, Claimed
  <2>7. LastState(Append(decisions[c], y)) = "ORDERING"
    BY <2>5, <2>6, OneMore
  <2>8. decisions'[c] = Append(decisions[c], y)
    BY <1>1, <1>4, <2>4 DEF AppendDecision, MonthlyInv, TypeOK, LedgerTypeOK
  <2>9. QED
    BY <1>1, <1>2, <1>4, <2>2, <2>3, <2>7, <2>8 DEF RequestStep
<1>5. QED
  BY <1>1, <1>3, <1>4 DEF BeginOrderRequest

LEMMA InitiatedRequest ==
  ASSUME MonthlyInv, ClaimStep, NEW w \in Creators, InitiateContribution(w)
  PROVE  RequestStep
<1>1. orders' = orders
  BY DEF InitiateContribution, moneyVars
<1>2. ASSUME NEW c \in Contributions, Resumable(c), Proceed(w, "begin", c) PROVE RequestStep
  <2>1. c \in Claimed'
    BY <1>2, ClaimsGrow DEF Resumable, InState
  <2>2. QED
    BY <1>1, <1>2, <2>1, MovingRequest
<1>3. ASSUME NEW c \in Contributions, NEW p \in CurrentPeriods, PayableExcept(0),
             NewContribution(c), Reserve(c, p), Proceed(w, "begin", c)
      PROVE  RequestStep
  <2>1. Opened(c)
    BY <1>3, ReservedClaim
  <2>2. decisions'[c] # <<>>
    BY <2>1 DEF Opened, OnlyRow, ClaimSound, MonthlyInv, TypeOK, LedgerTypeOK
  <2>3. QED
    BY <1>1, <1>3, <2>2, MovingRequest DEF Claimed
<1>4. QED
  BY <1>2, <1>3 DEF InitiateContribution

LEMMA RequestSteps == MonthlyInv /\ ClaimStep /\ Next => RequestStep
<1> SUFFICES ASSUME MonthlyInv, ClaimStep, Next PROVE RequestStep
  OBVIOUS
<1> DEFINE Still == UNCHANGED <<creator, orders>>
<1>0. Still => RequestStep
  BY DEF RequestStep
<1>1. ASSUME LedgerStep, UNCHANGED paymentVars PROVE Still
  BY <1>1 DEF LedgerStep, RecordCash, ReverseCash, AllocateLater, Tick, AcceptClosure, moneyVars, paymentVars
<1>2. ASSUME PaymentStep PROVE RequestStep
  <2>1. ASSUME NEW w \in Creators, InitiateContribution(w) \/ BeginOrderRequest(w) PROVE RequestStep
    BY <2>1, InitiatedRequest, BegunRequest
  <2>2. ASSUME NEW w \in Creators, ResumeCheckout(w) \/ CreatorStops(w) PROVE RequestStep
    BY <2>2, RestingRequest DEF ResumeCheckout, CreatorStops, moneyVars
  <2>3. ASSUME NEW w \in Creators, OrderCreated(w) \/ OrderFails(w) \/ OrderCrashes(w) PROVE RequestStep
    <3>1. ProviderCreates(creator[w].contribution) \/ (UNCHANGED orders /\ Rest(w))
      BY <2>3 DEF OrderCreated, OrderFails, OrderCrashes
    <3>2. QED
      BY <2>3, <3>1, RestingRequest, AskingRequest
  <2>4. ASSUME NEW p \in Payments, Pay(p) \/ Capture(p) PROVE Still
    BY <2>4 DEF Pay, Capture, paymentVars
  <2>5. ASSUME \/ \E v \in Deliveries :
                    \/ \E e \in Events : FirstDelivery(v, e) \/ RepeatedDelivery(v, e)
                    \/ FindContribution(v) \/ CompleteCapture(v) \/ RequireReview(v)
                    \/ DeliveryFails(v) \/ DeliveryDies(v)
               \/ \E e \in Events : FinalDelivery(e) \/ OwnerRecovers(e)
        PROVE  Still
    BY <2>5 DEF FirstDelivery, RepeatedDelivery, FinalDelivery, FindContribution, CompleteCapture,
                RequireReview, DeliveryFails, DeliveryDies, OwnerRecovers, requestVars, moneyVars,
                paymentVars
  <2>6. ASSUME NEW c \in Contributions, \/ InspectOrder(c) \/ ReleaseClaim(c)
                                        \/ \E p \in Payments : Callback(c, p)
        PROVE  Still
    BY <2>6 DEF InspectOrder, ReleaseClaim, Callback, moneyVars, paymentVars, ledgerVars
  <2>7. QED
    BY <1>0, <1>2, <2>1, <2>2, <2>3, <2>4, <2>5, <2>6 DEF PaymentStep
<1>3. ASSUME OwnerStep PROVE Still
  BY <1>3 DEF OwnerStep, OpenReview, AcceptTiming, DiscardReview, OutageHold, ResolveOutage,
              RecoverOrder, moneyVars, paymentVars, ledgerVars
<1>4. QED
  BY <1>0, <1>1, <1>2, <1>3 DEF Next

\* Only the request that holds the intent makes the provider create an order.
LEMMA OrderMade ==
  ASSUME MonthlyInv, RequestStep, NEW c \in Contributions
  PROVE  \/ orders'[c] = orders[c]
         \/ /\ c \in Claimed /\ State(c) = "ORDERING" /\ orders[c] = 0 /\ PayableExcept(c)
            /\ ~row[c].ordered /\ OrderLost(c)
<1>t. orders \in [Contributions -> Nat]
  BY DEF MonthlyInv, TypeOK, LedgerTypeOK
<1>1. CASE UNCHANGED orders
  BY <1>1
<1>2. ASSUME NEW w \in Creators, creator' = [creator EXCEPT ![w] = Resting], creator[w].at = "order",
             State(creator[w].contribution) = "ORDERING",
             PayableExcept(creator[w].contribution), ProviderCreates(creator[w].contribution),
             orders'[c] # orders[c]
      PROVE  /\ c \in Claimed /\ State(c) = "ORDERING" /\ orders[c] = 0 /\ PayableExcept(c)
             /\ ~row[c].ordered /\ OrderLost(c)
  <2>1. creator[w].contribution = c
    BY <1>t, <1>2 DEF ProviderCreates
  <2>2. c \in Claimed /\ State(c) = "ORDERING" /\ PayableExcept(c) /\ OrderLost(c)
    BY <1>2, <2>1, CreatorTyped DEF OrderLost
  <2>3. ~row[c].ordered
    BY <2>2, RowsAndClaims DEF StateAgrees, Claimed
  <2>4. orders[c] = 0
    BY <1>2, <2>1, <2>3 DEF MonthlyInv, CreatorsAreSound
  <2>5. QED
    BY <2>2, <2>3, <2>4
<1>3. QED
  BY <1>1, <1>2 DEF RequestStep

LEMMA OrdersStaySound == MonthlyInv /\ ClaimStep /\ RequestStep => OrdersAreSound'
<1> SUFFICES ASSUME MonthlyInv, ClaimStep, RequestStep, NEW c \in Contributions,
                    decisions'[c] = <<>> \/ (LastState(decisions'[c]) = "RESERVED" /\ ~row'[c].ordered)
             PROVE  orders'[c] = 0
  BY DEF OrdersAreSound, State, LastState
<1>1. decisions[c] = <<>> \/ (State(c) = "RESERVED" /\ ~row[c].ordered)
  <2>1. CASE row'[c] = row[c] /\ decisions'[c] = decisions[c]
    BY <2>1 DEF State, LastState
  <2>2. CASE decisions[c] = <<>>
    BY <2>2
  <2>3. CASE /\ decisions[c] # <<>> /\ decisions'[c] # <<>>
             /\ RowKept(row[c], row'[c]) /\ IntentKept(c, row'[c], decisions'[c])
    BY <2>3 DEF RowKept, IntentKept, State, LastState
  <2>4. QED
    BY <2>1, <2>2, <2>3, ClaimAfter
<1>2. orders[c] = 0
  BY <1>1 DEF MonthlyInv, OrdersAreSound
<1>3. orders'[c] = orders[c]
  BY <1>1, OrderMade DEF Claimed
<1>4. QED
  BY <1>2, <1>3

\* A request that still holds its intent finds it as it was.
LEMMA IntentHeld ==
  ASSUME MonthlyInv, ClaimStep, NEW v \in Creators, creator[v].at = "order",
         creator'[v] = creator[v], NEW c \in Contributions, c = creator[v].contribution,
         ~row'[c].ordered
  PROVE  LastState(decisions'[c]) = "ORDERING" /\ orders[c] = 0 /\ row'[c].status = "PENDING"
<1>1. c \in Claimed /\ ~OrderLost(c)
  <2>1. c \in Claimed
    BY CreatorTyped
  <2>2. ASSUME OrderLost(c) PROVE FALSE
    <3>1. PICK w \in Creators : /\ creator[w].at = "order" /\ creator[w].contribution = c
                                /\ creator' = [creator EXCEPT ![w] = Resting]
      BY <2>2 DEF OrderLost
    <3>2. \A u \in Creators : creator[u].at = "order" /\ creator[u].contribution = c => u = v
      BY DEF MonthlyInv, CreatorsAreSound
    <3>3. w = v
      BY <3>1, <3>2
    <3>4. creator'[v] = Resting
      BY <3>1, <3>3, CreatorTyped
    <3>5. QED
      BY <3>4, CreatorTyped
  <2>3. QED
    BY <2>1, <2>2
<1>2. ~row[c].ordered
  BY RowsAreKept DEF RowKept
<1>3. State(c) = "ORDERING" /\ orders[c] = 0 /\ row[c].status = "PENDING"
  BY <1>2 DEF MonthlyInv, CreatorsAreSound
<1>4. CASE row'[c] = row[c] /\ decisions'[c] = decisions[c]
  BY <1>3, <1>4 DEF State, LastState
<1>5. CASE IntentKept(c, row'[c], decisions'[c])
  BY <1>1, <1>3, <1>5 DEF IntentKept
<1>6. QED
  BY <1>1, <1>4, <1>5, ClaimAfter DEF Claimed

\* The intent as the request finds it, unless its order is bound.
Ordering(r, d, n) ==
  ~r.ordered => LastState(d) = "ORDERING" /\ n = 0 /\ r.status = "PENDING"

LEMMA CreatorsStaySound == MonthlyInv /\ ClaimStep /\ RequestStep => CreatorsAreSound'
<1> SUFFICES ASSUME MonthlyInv, ClaimStep, RequestStep PROVE CreatorsAreSound'
  OBVIOUS
<1>0. PICK q : q = creator'
  OBVIOUS
<1>t. /\ creator \in [Creators -> [at : {"idle", "begin", "order", "resume"},
                                  contribution : Contributions \cup {0}]]
      /\ \A w \in Creators : creator[w].at # "idle" => creator[w].contribution \in Claimed
      /\ Claimed \subseteq Claimed' /\ Claimed \subseteq Contributions /\ Resting.at = "idle"
  BY ClaimsGrow DEF Claimed, MonthlyInv, TypeOK, PaymentTypeOK, CreatorsAreSound, Resting
<1>u. \A u, v \in Creators : /\ creator[v].at = "order" /\ creator[u].at = "order"
                            /\ creator[u].contribution = creator[v].contribution => u = v
  BY DEF MonthlyInv, CreatorsAreSound
<1>g. ASSUME \A v \in Creators : q[v].at # "idle" => q[v].contribution \in Claimed',
             \A v \in Creators : \A c \in Contributions :
               q[v].at = "order" /\ q[v].contribution = c => Ordering(row'[c], decisions'[c], orders'[c]),
             \A u, v \in Creators : /\ q[v].at = "order" /\ q[u].at = "order"
                                   /\ q[u].contribution = q[v].contribution => u = v
      PROVE  CreatorsAreSound'
  <2>1. \A v \in Creators : q[v].at = "order" => q[v].contribution \in Contributions
    BY <1>g DEF Claimed
  <2>2. QED
    BY <1>0, <1>g, <2>1 DEF CreatorsAreSound, Ordering, State, LastState
<1>k. ASSUME NEW v \in Creators, NEW c \in Contributions, creator[v].at = "order",
             creator[v].contribution = c, q[v] = creator[v], orders'[c] = orders[c]
      PROVE  Ordering(row'[c], decisions'[c], orders'[c])
  BY <1>0, <1>k, IntentHeld DEF Ordering
<1>1. CASE UNCHANGED <<creator, orders>>
  BY <1>0, <1>1, <1>g, <1>k, <1>t, <1>u
<1>2. ASSUME NEW w \in Creators, NEW x, creator' = [creator EXCEPT ![w] = x],
             x.at # "order", UNCHANGED orders, x.at # "idle" => x.contribution \in Claimed'
      PROVE  CreatorsAreSound'
  <2>1. q[w] = x /\ \A v \in Creators \ {w} : q[v] = creator[v]
    BY <1>0, <1>2, <1>t
  <2>2. \A v \in Creators : q[v].at # "idle" => q[v].contribution \in Claimed'
    BY <1>2, <1>t, <2>1
  <2>3. \A v \in Creators : q[v].at = "order" => v # w /\ q[v] = creator[v]
    BY <1>2, <2>1
  <2>4. \A v \in Creators : \A c \in Contributions :
          q[v].at = "order" /\ q[v].contribution = c => Ordering(row'[c], decisions'[c], orders'[c])
    BY <1>2, <1>k, <2>3
  <2>5. \A u, v \in Creators : /\ q[v].at = "order" /\ q[u].at = "order"
                              /\ q[u].contribution = q[v].contribution => u = v
    BY <1>u, <2>3
  <2>6. QED
    BY <1>g, <2>2, <2>4, <2>5
<1>3. ASSUME NEW w \in Creators, NEW x, creator' = [creator EXCEPT ![w] = x],
             x.at = "order", UNCHANGED <<orders, row>>, x.contribution \in Claimed,
             State(x.contribution) = "RESERVED", ~row[x.contribution].ordered,
             LastState(decisions'[x.contribution]) = "ORDERING"
      PROVE  CreatorsAreSound'
  <2>0. PICK b : b = x.contribution /\ b \in Contributions /\ b \in Claimed
    BY <1>3, <1>t
  <2>1. q[w] = x /\ \A v \in Creators \ {w} : q[v] = creator[v]
    BY <1>0, <1>3, <1>t
  <2>2. \A v \in Creators : q[v].at # "idle" => q[v].contribution \in Claimed'
    BY <1>3, <1>t, <2>1
  <2>3. orders[b] = 0
    BY <1>3, <2>0 DEF MonthlyInv, OrdersAreSound
  <2>4. row[b].status = "PENDING"
    BY <1>3, <2>0, RowsAndClaims DEF StateAgrees, Claimed
  <2>5. \A v \in Creators : creator[v].at = "order" => creator[v].contribution # b
    BY <1>3, <2>0 DEF MonthlyInv, CreatorsAreSound
  <2>6. Ordering(row'[b], decisions'[b], orders'[b])
    BY <1>3, <2>0, <2>3, <2>4 DEF Ordering
  <2>7. \A v \in Creators : \A c \in Contributions :
          q[v].at = "order" /\ q[v].contribution = c => Ordering(row'[c], decisions'[c], orders'[c])
    BY <1>3, <1>k, <2>0, <2>1, <2>6
  <2>8. \A u, v \in Creators : /\ q[v].at = "order" /\ q[u].at = "order"
                              /\ q[u].contribution = q[v].contribution => u = v
    BY <1>u, <2>0, <2>1, <2>5
  <2>9. QED
    BY <1>g, <2>2, <2>7, <2>8
<1>4. ASSUME NEW w \in Creators, creator' = [creator EXCEPT ![w] = Resting],
             creator[w].at = "order", ProviderCreates(creator[w].contribution)
      PROVE  CreatorsAreSound'
  <2>1. q[w].at = "idle" /\ \A v \in Creators \ {w} : q[v] = creator[v]
    BY <1>0, <1>4, <1>t
  <2>2. \A v \in Creators : q[v].at # "idle" => q[v].contribution \in Claimed'
    BY <1>t, <2>1
  <2>3. \A v \in Creators : q[v].at = "order" =>
          q[v] = creator[v] /\ creator[v].contribution # creator[w].contribution
    BY <1>4, <1>u, <2>1
  <2>4. orders \in [Contributions -> Nat]
    BY DEF MonthlyInv, TypeOK, LedgerTypeOK
  <2>5. \A c \in Contributions : c # creator[w].contribution => orders'[c] = orders[c]
    BY <1>4, <2>4 DEF ProviderCreates
  <2>6. \A v \in Creators : \A c \in Contributions :
          q[v].at = "order" /\ q[v].contribution = c => Ordering(row'[c], decisions'[c], orders'[c])
    BY <1>k, <2>3, <2>5
  <2>7. \A u, v \in Creators : /\ q[v].at = "order" /\ q[u].at = "order"
                              /\ q[u].contribution = q[v].contribution => u = v
    BY <1>u, <2>3
  <2>8. QED
    BY <1>g, <2>2, <2>6, <2>7
<1>5. QED
  BY <1>1, <1>2, <1>3, <1>4 DEF RequestStep

LEMMA FormStaysSound == MonthlyInv /\ ClaimStep /\ Next => FormSound'
<1> SUFFICES ASSUME MonthlyInv, ClaimStep, Next PROVE FormSound'
  OBVIOUS
<1>1. Claimed \subseteq Claimed'
  BY ClaimsGrow
<1>2. CASE UNCHANGED form
  BY <1>1, <1>2 DEF MonthlyInv, FormSound, NoForm
<1>3. CASE form' = NoForm
  BY <1>3 DEF FormSound, NoForm
<1>4. CASE OpenReview
  <2>1. PICK c \in InState({"REVIEW", "AWAITING"}), e \in Events :
          form' = [contribution |-> c, event |-> e, sequence |-> Len(decisions[c])]
    BY <1>4 DEF OpenReview
  <2>2. c \in Claimed' /\ form'.contribution = c /\ form'.event = e
    BY <1>1, <2>1 DEF InState
  <2>3. QED
    BY <2>2 DEF FormSound
<1>5. UNCHANGED form \/ form' = NoForm \/ OpenReview
  BY DEF Next, OwnerStep, AcceptTiming, DiscardReview, OutageHold, ResolveOutage, RecoverOrder
<1>6. QED
  BY <1>2, <1>3, <1>4, <1>5

-----------------------------------------------------------------------------
(* Types. *)

LEMMA LedgerStaysTyped ==
  MonthlyInv /\ ClaimStep /\ MoneyStep /\ EventStep /\ DeliveryStep /\ ScheduleStep /\ RequestStep =>
    /\ now' \in 0..MaxTime
    /\ row' \in [Contributions -> ContributionRow]
    /\ claim' \in [Contributions -> InstalmentReservation]
    /\ decisions' \in [Contributions -> Seq(InstalmentPaymentDecision)]
    /\ IsCompensations(compensated)'
    /\ event' \in [Events -> PaymentWebhookEvent]
    /\ captured_at' \in [Payments -> (0..MaxTime) \cup {0 - 1}]
    /\ paid_order' \in [Payments -> Contributions \cup {0}]
    /\ orders' \in [Contributions -> Nat]
    /\ delivery' \in [Deliveries -> DeliveryRecord]
    /\ creator' \in [Creators -> [at : {"idle", "begin", "order", "resume"},
                                  contribution : Contributions \cup {0}]]
<1> SUFFICES ASSUME MonthlyInv, ClaimStep, MoneyStep, EventStep, DeliveryStep, ScheduleStep,
                    RequestStep
             PROVE  /\ now' \in 0..MaxTime
                    /\ row' \in [Contributions -> ContributionRow]
                    /\ claim' \in [Contributions -> InstalmentReservation]
                    /\ decisions' \in [Contributions -> Seq(InstalmentPaymentDecision)]
                    /\ IsCompensations(compensated)'
                    /\ event' \in [Events -> PaymentWebhookEvent]
                    /\ captured_at' \in [Payments -> (0..MaxTime) \cup {0 - 1}]
                    /\ paid_order' \in [Payments -> Contributions \cup {0}]
                    /\ orders' \in [Contributions -> Nat]
                    /\ delivery' \in [Deliveries -> DeliveryRecord]
                    /\ creator' \in [Creators -> [at : {"idle", "begin", "order", "resume"},
                                                  contribution : Contributions \cup {0}]]
  OBVIOUS
<1>t. LedgerTypeOK /\ PaymentTypeOK
  BY DEF MonthlyInv, TypeOK
<1>1. now' \in 0..MaxTime
  BY DEF ScheduleStep
<1>2. /\ row' \in [Contributions -> ContributionRow]
      /\ claim' \in [Contributions -> InstalmentReservation]
      /\ decisions' \in [Contributions -> Seq(InstalmentPaymentDecision)]
  <2>1. CASE UNCHANGED rowVars
    BY <1>t, <2>1 DEF LedgerTypeOK, rowVars
  <2>2. ASSUME NEW c \in Contributions, NEW r \in ContributionRow, NEW k \in InstalmentReservation,
               NEW d \in Decisions, OnlyRow(c, r, k, d)
        PROVE  /\ row' \in [Contributions -> ContributionRow]
               /\ claim' \in [Contributions -> InstalmentReservation]
               /\ decisions' \in [Contributions -> Seq(InstalmentPaymentDecision)]
    BY <1>t, <2>2 DEF LedgerTypeOK, OnlyRow, Decisions
  <2>3. \A c \in Contributions : claim[c] \in InstalmentReservation
    BY <1>t DEF LedgerTypeOK
  <2>4. QED
    BY <2>1, <2>2, <2>3 DEF ClaimStep, Opened, Continued
<1>3. IsCompensations(compensated)'
  <2>1. IsCompensations(compensated)
    BY <1>t DEF LedgerTypeOK
  <2>2. CASE UNCHANGED compensated
    BY <2>1, <2>2 DEF IsCompensations, Periods
  <2>3. ASSUME NEW p \in Periods, compensated' = Append(compensated, p), Len(compensated) < MaxExtra
        PROVE  IsCompensations(compensated)'
    <3>1. MaxExtra \in Nat /\ compensated \in Seq(Periods) /\ Len(compensated) \in Nat
      BY <2>1, InstalmentAssumption DEF IsCompensations
    <3>2. Append(compensated, p) \in Seq(Periods) /\ Len(Append(compensated, p)) = Len(compensated) + 1
      BY <3>1
    <3>3. QED
      BY <2>3, <3>1, <3>2 DEF IsCompensations, Periods
  <2>4. QED
    BY <2>2, <2>3 DEF ScheduleStep
<1>4. event' \in [Events -> PaymentWebhookEvent]
  BY <1>t DEF LedgerTypeOK, EventStep
<1>5. captured_at' \in [Payments -> (0..MaxTime) \cup {0 - 1}]
  BY <1>t DEF LedgerTypeOK, MoneyStep
<1>6. paid_order' \in [Payments -> Contributions \cup {0}]
  BY <1>t DEF LedgerTypeOK, MoneyStep
<1>7. orders' \in [Contributions -> Nat]
  <2>1. orders \in [Contributions -> Nat]
    BY <1>t DEF LedgerTypeOK
  <2>2. ASSUME NEW c \in Contributions, ProviderCreates(c) PROVE orders' \in [Contributions -> Nat]
    <3>1. PICK n : n = orders[c] + 1 /\ n \in Nat
      BY <2>1
    <3>2. orders' = [orders EXCEPT ![c] = n]
      BY <2>2, <3>1 DEF ProviderCreates
    <3>3. QED
      BY <2>1, <3>1, <3>2
  <2>3. \A w \in Creators : creator[w].at = "order" => creator[w].contribution \in Contributions
    BY CreatorTyped DEF Claimed
  <2>4. QED
    BY <2>1, <2>2, <2>3 DEF RequestStep
<1>8. creator' \in [Creators -> [at : {"idle", "begin", "order", "resume"},
                                 contribution : Contributions \cup {0}]]
  BY <1>t DEF PaymentTypeOK, RequestStep
<1>9. delivery' \in [Deliveries -> DeliveryRecord]
  BY <1>t DEF PaymentTypeOK, DeliveryRecord, DeliveryStep
<1>10. QED
  BY <1>1, <1>2, <1>3, <1>4, <1>5, <1>6, <1>7, <1>8, <1>9

LEMMA OthersStayTyped ==
  MonthlyInv /\ Next =>
    /\ hold' \in [Periods -> HoldStates] /\ closing' \in BOOLEAN
    /\ recovered' \in OrderRecoveries /\ handed' \subseteq Contributions
    /\ inspected' \subseteq Contributions /\ faults' \in 0..MaxFaults
<1> SUFFICES ASSUME MonthlyInv, Next
             PROVE  /\ hold' \in [Periods -> HoldStates] /\ closing' \in BOOLEAN
                    /\ recovered' \in OrderRecoveries /\ handed' \subseteq Contributions
                    /\ inspected' \subseteq Contributions /\ faults' \in 0..MaxFaults
  OBVIOUS
<1>t. /\ hold \in [Periods -> HoldStates] /\ closing \in BOOLEAN
      /\ recovered \in OrderRecoveries /\ handed \subseteq Contributions
      /\ inspected \subseteq Contributions /\ faults \in 0..MaxFaults
  BY DEF MonthlyInv, TypeOK, LedgerTypeOK, PaymentTypeOK
<1> DEFINE Still == UNCHANGED <<hold, closing, recovered, handed, inspected, faults>>
<1> DEFINE Typed == /\ hold' \in [Periods -> HoldStates] /\ closing' \in BOOLEAN
                    /\ recovered' \in OrderRecoveries /\ handed' \subseteq Contributions
                    /\ inspected' \subseteq Contributions /\ faults' \in 0..MaxFaults
<1>0. Still => Typed
  BY <1>t
<1>f. Fault => faults' \in 0..MaxFaults
  BY <1>t, PaymentAssumption DEF Fault
<1>1. ASSUME LedgerStep, UNCHANGED paymentVars PROVE Typed
  <2>1. Still \/ AcceptClosure
    BY <1>1 DEF LedgerStep, RecordCash, ReverseCash, AllocateLater, Tick, scheduleVars, paymentVars
  <2>2. CASE AcceptClosure
    BY <1>t, <1>1, <2>2 DEF AcceptClosure, paymentVars
  <2>3. QED
    BY <1>0, <2>1, <2>2
<1>2. ASSUME PaymentStep PROVE Typed
  <2>1. ASSUME NEW w \in Creators,
               \/ InitiateContribution(w) \/ BeginOrderRequest(w) \/ CreatorStops(w)
        PROVE  Still
    BY <2>1 DEF InitiateContribution, BeginOrderRequest, CreatorStops, scheduleVars
  <2>2. ASSUME NEW w \in Creators, OrderFails(w) \/ OrderCrashes(w) PROVE Typed
    BY <1>t, <1>f, <2>2 DEF OrderFails, OrderCrashes, scheduleVars
  <2>3. ASSUME NEW w \in Creators, OrderCreated(w) \/ ResumeCheckout(w) PROVE Typed
    <3>1. creator[w].contribution \in Contributions
      BY <2>3, CreatorTyped DEF OrderCreated, ResumeCheckout, CreatorAt, Claimed
    <3>2. QED
      BY <1>t, <2>3, <3>1 DEF OrderCreated, ResumeCheckout, scheduleVars
  <2>4. ASSUME NEW p \in Payments, Pay(p) \/ Capture(p) PROVE Still
    BY <2>4 DEF Pay, Capture, paymentVars, scheduleVars
  <2>5. ASSUME \/ \E v \in Deliveries :
                    \/ \E e \in Events : FirstDelivery(v, e) \/ RepeatedDelivery(v, e)
                    \/ FindContribution(v) \/ CompleteCapture(v) \/ RequireReview(v)
               \/ \E e \in Events : FinalDelivery(e) \/ OwnerRecovers(e)
        PROVE  Still
    BY <2>5 DEF FirstDelivery, RepeatedDelivery, FinalDelivery, FindContribution, CompleteCapture,
                RequireReview, OwnerRecovers, requestVars, scheduleVars, paymentVars
  <2>6. ASSUME NEW v \in Deliveries, DeliveryFails(v) \/ DeliveryDies(v) PROVE Typed
    BY <1>t, <1>f, <2>6 DEF DeliveryFails, DeliveryDies, requestVars, scheduleVars
  <2>7. ASSUME NEW c \in Contributions, InspectOrder(c) PROVE Typed
    BY <1>t, <2>7 DEF InspectOrder, ledgerVars
  <2>8. ASSUME NEW c \in Contributions, ReleaseClaim(c) \/ \E p \in Payments : Callback(c, p)
        PROVE  Still
    BY <2>8 DEF ReleaseClaim, Callback, scheduleVars, paymentVars
  <2>9. QED
    BY <1>0, <1>2, <2>1, <2>2, <2>3, <2>4, <2>5, <2>6, <2>7, <2>8 DEF PaymentStep
<1>3. ASSUME OwnerStep PROVE Typed
  <2>1. ASSUME OpenReview \/ AcceptTiming \/ DiscardReview PROVE Still
    BY <2>1 DEF OpenReview, AcceptTiming, DiscardReview, scheduleVars, ledgerVars, paymentVars
  <2>2. ASSUME NEW p \in Periods, OutageHold(p) PROVE Typed
    BY <1>t, <2>2 DEF OutageHold, HoldStates, paymentVars
  <2>3. ASSUME NEW p \in Periods, NEW o \in {"COMPENSATE", "RESTORED", "QUALIFIED"}, ResolveOutage(p, o)
        PROVE  Typed
    BY <1>t, <2>3 DEF ResolveOutage, HoldStates, paymentVars
  <2>4. ASSUME NEW c \in Contributions, RecoverOrder(c) PROVE Typed
    BY <1>t, <2>4 DEF RecoverOrder, OrderRecoveries, scheduleVars, paymentVars
  <2>5. QED
    BY <1>0, <1>3, <2>1, <2>2, <2>3, <2>4 DEF OwnerStep
<1>4. QED
  BY <1>1, <1>2, <1>3 DEF Next

LEMMA FormStaysTyped == MonthlyInv /\ Next => OwnerTypeOK'
<1> SUFFICES ASSUME MonthlyInv, Next PROVE OwnerTypeOK'
  OBVIOUS
<1>1. CASE UNCHANGED form
  BY <1>1 DEF MonthlyInv, TypeOK, OwnerTypeOK
<1>2. CASE form' = NoForm
  BY <1>2 DEF OwnerTypeOK, NoForm
<1>3. CASE OpenReview
  <2>1. PICK c \in InState({"REVIEW", "AWAITING"}), e \in Events :
          form' = [contribution |-> c, event |-> e, sequence |-> Len(decisions[c])]
    BY <1>3 DEF OpenReview
  <2>2. c \in Contributions /\ Len(decisions[c]) \in Nat
    BY ClaimTyped DEF InState, Claimed, MonthlyInv, TypeOK
  <2>3. QED
    BY <2>1, <2>2 DEF OwnerTypeOK
<1>4. UNCHANGED form \/ form' = NoForm \/ OpenReview
  BY DEF Next, OwnerStep, AcceptTiming, DiscardReview, OutageHold, ResolveOutage, RecoverOrder
<1>5. QED
  BY <1>1, <1>2, <1>3, <1>4

-----------------------------------------------------------------------------
(* The invariant. *)

LEMMA Initially == Init => MonthlyInv
<1> SUFFICES ASSUME Init PROVE MonthlyInv
  OBVIOUS
<1>1. /\ now = 0 /\ row = [c \in Contributions |-> NoRow] /\ claim = [c \in Contributions |-> NoClaim]
      /\ decisions = [c \in Contributions |-> <<>>] /\ compensated = <<>>
      /\ hold = [p \in Periods |-> "none"] /\ closing = FALSE
      /\ event = [e \in Events |-> Unheard] /\ captured_at = [p \in Payments |-> 0 - 1]
      /\ paid_order = [p \in Payments |-> 0] /\ orders = [c \in Contributions |-> 0] /\ recovered = {}
      /\ creator = [w \in Creators |-> Resting] /\ handed = {} /\ inspected = {} /\ faults = 0
      /\ delivery = [v \in Deliveries |-> NoDelivery] /\ form = NoForm
  BY DEF Init, LedgerInit, PaymentInit, OwnerInit
<1>2. now \in 0..MaxTime /\ faults \in 0..MaxFaults
  BY <1>1, InstalmentAssumption, PaymentAssumption
<1>3. NoRow \in ContributionRow /\ NoClaim \in InstalmentReservation
  BY InstalmentAssumption DEF NoRow, ContributionRow, NoClaim, InstalmentReservation
<1>4. Unheard \in PaymentWebhookEvent
  BY DEF Unheard, PaymentWebhookEvent
<1>5. /\ row \in [Contributions -> ContributionRow] /\ claim \in [Contributions -> InstalmentReservation]
      /\ event \in [Events -> PaymentWebhookEvent]
  BY <1>1, <1>3, <1>4
<1>6. decisions \in [Contributions -> Seq(InstalmentPaymentDecision)]
  BY <1>1
<1>7. IsCompensations(compensated) /\ Len(compensated) = 0
  BY <1>1, InstalmentAssumption DEF IsCompensations
<1>8. /\ hold \in [Periods -> HoldStates] /\ closing \in BOOLEAN /\ recovered \in OrderRecoveries
      /\ captured_at \in [Payments -> (0..MaxTime) \cup {0 - 1}]
      /\ paid_order \in [Payments -> Contributions \cup {0}] /\ orders \in [Contributions -> Nat]
  BY <1>1 DEF HoldStates, OrderRecoveries
<1>9. PaymentTypeOK
  BY <1>1, <1>2 DEF PaymentTypeOK, NoDelivery, Resting
<1>10. OwnerTypeOK
  BY <1>1 DEF OwnerTypeOK, NoForm
<1>11. TypeOK
  BY <1>2, <1>5, <1>6, <1>7, <1>8, <1>9, <1>10 DEF TypeOK, LedgerTypeOK
<1>12. ClaimsAreSound /\ EvidenceIsSound /\ OrdersAreSound
  <2>1. \A c \in Contributions : decisions[c] = <<>> /\ row[c] = NoRow /\ orders[c] = 0
    BY <1>1
  <2>2. \A c \in Contributions : 1..Len(decisions[c]) = {}
    BY <2>1
  <2>3. QED
    BY <2>1, <2>2 DEF ClaimsAreSound, EvidenceIsSound, OrdersAreSound
<1>13. EventsAreSound /\ DeliveriesAreSound
  BY <1>1 DEF EventsAreSound, EventSound, Unheard, Outcomes, DeliveriesAreSound, DeliverySound,
              NoDelivery
<1>14. CreatorsAreSound /\ FormSound
  BY <1>1 DEF CreatorsAreSound, Resting, FormSound
<1>15. ScheduleSound
  <2>1. Claimed = {}
    BY <1>1 DEF Claimed
  <2>2. InState(Unpaid) = {} /\ LiveClaims = {}
    BY <2>1 DEF InState, LiveClaims
  <2>3. Cardinality(LiveClaims) = 0 /\ Required \in Nat
    BY <2>2, FS_EmptySet, InstalmentAssumption
  <2>4. 1..Len(compensated) = {}
    BY <1>7
  <2>5. QED
    BY <2>2, <2>3, <2>4 DEF ScheduleSound
<1>16. QED
  BY <1>11, <1>12, <1>13, <1>14, <1>15 DEF MonthlyInv

LEMMA StepsKeepInv == MonthlyInv /\ Next => MonthlyInv'
<1> SUFFICES ASSUME MonthlyInv, Next PROVE MonthlyInv'
  OBVIOUS
<1>1. ClaimStep /\ MoneyStep /\ EventStep /\ DeliveryStep /\ ScheduleStep
  BY ClaimSteps, MoneySteps, EventSteps, ScheduleSteps
<1>2. RequestStep
  BY <1>1, RequestSteps
<1>3. TypeOK'
  BY <1>1, <1>2, LedgerStaysTyped, OthersStayTyped, FormStaysTyped
  DEF TypeOK, LedgerTypeOK, PaymentTypeOK, DeliveryRecord
<1>4. ClaimsAreSound'
  BY <1>1, ClaimsStaySound
<1>5. EventsAreSound' /\ DeliveriesAreSound' /\ EvidenceIsSound'
  BY <1>1, EventsStaySound, DeliveriesStaySound, EvidenceStaysSound
<1>6. OrdersAreSound' /\ CreatorsAreSound' /\ FormSound'
  BY <1>1, <1>2, OrdersStaySound, CreatorsStaySound, FormStaysSound
<1>7. ScheduleSound'
  BY <1>1, ScheduleStaysSound
<1>8. QED
  BY <1>3, <1>4, <1>5, <1>6, <1>7 DEF MonthlyInv

LEMMA StutterKeepsInv == MonthlyInv /\ UNCHANGED vars => MonthlyInv'
<1> SUFFICES ASSUME MonthlyInv, UNCHANGED vars PROVE MonthlyInv'
  OBVIOUS
<1>1. UNCHANGED ledgerVars /\ UNCHANGED paymentVars /\ form' = form
  BY DEF vars
<1>2. /\ now' = now /\ row' = row /\ claim' = claim /\ decisions' = decisions
      /\ compensated' = compensated /\ hold' = hold /\ closing' = closing /\ event' = event
      /\ captured_at' = captured_at /\ paid_order' = paid_order /\ orders' = orders
      /\ recovered' = recovered /\ creator' = creator /\ handed' = handed
      /\ inspected' = inspected /\ faults' = faults /\ delivery' = delivery
  BY <1>1 DEF ledgerVars, paymentVars
<1>3. /\ InState(Unpaid)' = InState(Unpaid) /\ LiveClaims' = LiveClaims
  BY <1>2 DEF InState, Claimed, State, LiveClaims
<1>4. TypeOK'
  BY <1>1, <1>2 DEF MonthlyInv, TypeOK, LedgerTypeOK, PaymentTypeOK, OwnerTypeOK, IsCompensations
<1>5. ClaimsAreSound'
  BY <1>2 DEF MonthlyInv, ClaimsAreSound
<1>6. EventsAreSound' /\ DeliveriesAreSound' /\ EvidenceIsSound'
  BY <1>2 DEF MonthlyInv, EventsAreSound, DeliveriesAreSound, EvidenceIsSound
<1>7. OrdersAreSound'
  BY <1>2 DEF MonthlyInv, OrdersAreSound, State
<1>8. CreatorsAreSound' /\ FormSound'
  BY <1>1, <1>2 DEF MonthlyInv, CreatorsAreSound, FormSound, State, Claimed
<1>9. ScheduleSound'
  BY <1>2, <1>3 DEF MonthlyInv, ScheduleSound
<1>10. QED
  BY <1>4, <1>5, <1>6, <1>7, <1>8, <1>9 DEF MonthlyInv

\* The inductive invariant of a monthly agreement: rows, claims, evidence,
\* requests and schedule agree after every step.
THEOREM Invariance == Spec => []MonthlyInv
<1>1. MonthlyInv /\ [Next]_vars => MonthlyInv'
  BY StepsKeepInv, StutterKeepsInv
<1>2. QED
  BY Initially, <1>1, PTL DEF Spec

-----------------------------------------------------------------------------
(* What the invariant says of the schedule and the ledger. *)

LEMMA ScheduleFollows == MonthlyInv => ScheduleIsHonoured
<1> SUFFICES ASSUME MonthlyInv PROVE ScheduleIsHonoured
  OBVIOUS
<1>s. ScheduleSound
  BY DEF MonthlyInv
<1>1. OneCheckoutAtATime
  <2>1. InState(Unpaid) = {} \/ \E c \in InState(Unpaid) : InState(Unpaid) = {c}
    BY <1>s DEF ScheduleSound
  <2>2. Cardinality(InState(Unpaid)) <= 1
    <3>1. CASE InState(Unpaid) = {}
      <4>1. Cardinality(InState(Unpaid)) = 0
        BY <3>1, FS_EmptySet
      <4>2. QED
        BY <4>1
    <3>2. ASSUME NEW c \in InState(Unpaid), InState(Unpaid) = {c}
          PROVE  Cardinality(InState(Unpaid)) <= 1
      <4>1. Cardinality({c}) = 1
        BY FS_Singleton
      <4>2. QED
        BY <3>2, <4>1
    <3>3. QED
      BY <2>1, <3>1, <3>2
  <2>3. QED
    BY <2>2 DEF OneCheckoutAtATime, Unpaid
<1>2. \A c \in Claimed : State(c) \notin Freed \cup {"RELEASED_REVIEW"} => c \in LiveClaims
  <2>1. ASSUME NEW c \in Claimed PROVE State(c) \in ClaimStates
    BY RowsAndClaims DEF Claimed
  <2>2. QED
    BY <2>1 DEF LiveClaims, InState, Live, ClaimStates, Freed
<1>3. OneClaimPerPeriod
  BY <1>s, <1>2 DEF OneClaimPerPeriod, ScheduleSound
<1>4. NeverMoreThanRequired
  BY <1>s DEF NeverMoreThanRequired, ScheduleSound, LiveClaims, Live
<1>5. QualifiedIsTimely
  <2>1. SUFFICES ASSUME NEW c \in Qualified
                 PROVE  IF row[c].channel = "IN_STORE_CASH"
                          THEN Within(claim[c].period, row[c].created)
                          ELSE /\ row[c].payment # NoPayment
                               /\ Within(claim[c].period, captured_at[row[c].payment])
                               /\ captured_at[row[c].payment] < claim[c].expires
    BY DEF QualifiedIsTimely
  <2>2. c \in Contributions /\ decisions[c] # <<>> /\ State(c) = "QUALIFIED"
    BY DEF Qualified, InState, Claimed
  <2>3. StateAgrees("QUALIFIED", row[c], claim[c], captured_at)
    BY <2>2, RowsAndClaims
  <2>4. QED
    BY <2>3, InstalmentAssumption DEF StateAgrees, Timely
<1>6. CompensatedStaysMissed
  BY <1>s, <1>2 DEF CompensatedStaysMissed, ScheduleSound, InState
<1>7. QED
  BY <1>1, <1>3, <1>4, <1>5, <1>6 DEF ScheduleIsHonoured

LEMMA LedgerFollows == MonthlyInv => LedgerHasIntegrity
<1> SUFFICES ASSUME MonthlyInv PROVE LedgerHasIntegrity
  OBVIOUS
<1>1. TypeOK /\ Rows = Claimed
  BY RowsAndClaims DEF MonthlyInv, Rows, Claimed
<1>2. ASSUME NEW c \in Claimed PROVE Agrees(c)
  <2>1. c \in Contributions /\ decisions[c] # <<>>
    BY DEF Claimed
  <2>2. ClaimSound(row[c], claim[c], decisions[c], captured_at)
    BY <2>1 DEF MonthlyInv, ClaimsAreSound
  <2>3. State(c) \in ClaimStates /\ StateAgrees(State(c), row[c], claim[c], captured_at)
    BY <2>1, RowsAndClaims
  <2>4. /\ decisions[c][1].state = "RESERVED"
        /\ State(c) \in {"QUALIFIED", "AWAITING"} => row[c].status \in Successful
        /\ State(c) = "ORDERING" => row[c].status \in {"PENDING", "FAILED"} /\ ~row[c].ordered
        /\ State(c) \in {"RELEASED", "RELEASED_REVIEW"} => row[c].status = "ABANDONED"
    BY <2>2, <2>3 DEF ClaimSound, StateAgrees, Settled, Dropped
  <2>5. State(c) = "REVERSED" <=> row[c].status = "REVERSED"
    BY <2>3 DEF StateAgrees, ClaimStates, Settled, Dropped, Successful
  <2>6. ASSUME NEW i \in 1..Len(decisions[c])
        PROVE  LET d == decisions[c][i] IN
                 /\ d.state = "REVERSED" => i = Len(decisions[c])
                 /\ d.event # NoEvent =>
                      /\ paid_order[event[d.event].payment] = c
                      /\ OutcomeFor(d) \in event[d.event].attempts
                      /\ d.state # "RELEASED_REVIEW" => event[d.event].payment = row[c].payment
    <3>1. PICK d : d = decisions[c][i]
      OBVIOUS
    <3>2. d.state = "REVERSED" => i = Len(decisions[c])
      BY <2>2, <3>1 DEF ClaimSound
    <3>3. EvidenceHolds(d, c, event, paid_order)
      BY <2>1, <3>1 DEF MonthlyInv, EvidenceIsSound
    <3>4. decisions[c] \in Decisions
      BY <2>1, ClaimTyped DEF MonthlyInv, TypeOK
    <3>5. d \in InstalmentPaymentDecision
      BY <3>1, <3>4 DEF Decisions
    <3>6. d.event # NoEvent => d.event \in Events
      BY <3>5 DEF InstalmentPaymentDecision
    <3>7. d.event # NoEvent => EventSound(event[d.event], row, paid_order)
      BY <3>6 DEF MonthlyInv, EventsAreSound
    <3>8. d.event # NoEvent =>
            /\ paid_order[event[d.event].payment] = c
            /\ OutcomeFor(d) \in event[d.event].attempts
            /\ d.state # "RELEASED_REVIEW" => event[d.event].payment = row[c].payment
      BY <3>3, <3>7 DEF EvidenceHolds, EventSound, OutcomeFor
    <3>9. QED
      BY <3>1, <3>2, <3>8
  <2>7. QED
    BY <2>4, <2>5, <2>6 DEF Agrees
<1>3. QED
  BY <1>1, <1>2 DEF LedgerHasIntegrity

LEMMA AnswersFollow == MonthlyInv => AnsweredIsAccountedFor
<1> SUFFICES ASSUME MonthlyInv, NEW e \in Events, event[e].answered, NEW p, p = event[e].payment
             PROVE  \/ paid_order[p] \in Rows /\ Confirmed(paid_order[p], p)
                    \/ /\ "REVIEW_REQUIRED" \in event[e].attempts
                       /\ paid_order[p] \in Rows /\ row[paid_order[p]].ordered => CaptureException(e)
  BY DEF AnsweredIsAccountedFor
<1>1. /\ event[e] \in PaymentWebhookEvent /\ EventSound(event[e], row, paid_order)
      /\ paid_order \in [Payments -> Contributions \cup {0}]
  BY EventTyped
<1>2. /\ event[e].attempts # {} /\ event[e].attempts \subseteq Outcomes /\ event[e].identified
      /\ event[e].status # "none"
  BY <1>1 DEF EventSound, PaymentWebhookEvent, Unheard
<1>3. p \in Payments
  BY <1>1, <1>2 DEF EventSound
<1>4. CASE "PROCESSED" \in event[e].attempts
  <2>1. PICK c : c = paid_order[p]
    OBVIOUS
  <2>2. c \in Contributions /\ row[c].status \in Successful /\ row[c].payment = p
    BY <1>1, <1>3, <1>4, <2>1 DEF EventSound
  <2>3. c \in Rows /\ Confirmed(c, p)
    BY <2>2 DEF Rows, Confirmed, Successful
  <2>4. QED
    BY <2>1, <2>3
<1>5. CASE "PROCESSED" \notin event[e].attempts
  <2>1. "REVIEW_REQUIRED" \in event[e].attempts
    BY <1>2, <1>5 DEF Outcomes
  <2>2. event[e].status \in {"RECEIVED", "REVIEW_REQUIRED"}
    BY <1>1, <1>2, <1>5 DEF EventSound, PaymentWebhookEvent, Outcomes
  <2>3. QED
    BY <1>2, <2>1, <2>2 DEF CaptureException
<1>6. QED
  BY <1>4, <1>5

LEMMA OrdersFollow ==
  MonthlyInv /\ [Next]_vars =>
    [\A c \in Contributions :
       orders'[c] # orders[c] =>
         /\ orders[c] = 0
         /\ OpenHolds = {} /\ ~closing /\ CaptureExceptions = {}
         /\ Cardinality(Qualified) < Required]_vars
<1> SUFFICES ASSUME MonthlyInv, Next, NEW c \in Contributions, orders'[c] # orders[c]
             PROVE  /\ orders[c] = 0
                    /\ OpenHolds = {} /\ ~closing /\ CaptureExceptions = {}
                    /\ Cardinality(Qualified) < Required
  OBVIOUS
<1>1. RequestStep
  BY ClaimSteps, RequestSteps
<1>2. orders[c] = 0 /\ PayableExcept(c)
  BY <1>1, OrderMade
<1>3. QED
  BY <1>2 DEF PayableExcept

LEMMA ClaimsFollow ==
  MonthlyInv /\ [Next]_vars =>
    [\A c \in Contributions :
       /\ Len(decisions[c]) <= Len(decisions'[c])
       /\ SubSeq(decisions'[c], 1, Len(decisions[c])) = decisions[c]
       /\ c \in InState({"REVERSED"}) => decisions'[c] = decisions[c]
       /\ c \in InState({"RELEASED", "RELEASED_REVIEW"}) =>
            State(c)' \in {"RELEASED", "RELEASED_REVIEW"}]_vars
<1> SUFFICES ASSUME MonthlyInv, Next, NEW c \in Contributions
             PROVE  /\ Len(decisions[c]) <= Len(decisions'[c])
                    /\ SubSeq(decisions'[c], 1, Len(decisions[c])) = decisions[c]
                    /\ c \in InState({"REVERSED"}) => decisions'[c] = decisions[c]
                    /\ c \in InState({"RELEASED", "RELEASED_REVIEW"}) =>
                         State(c)' \in {"RELEASED", "RELEASED_REVIEW"}
  OBVIOUS
<1>1. ClaimStep
  BY ClaimSteps
<1>2. decisions[c] \in Decisions /\ Len(decisions[c]) \in Nat
  BY ClaimTyped DEF MonthlyInv, TypeOK
<1>3. State(c)' = LastState(decisions'[c]) /\ State(c) = LastState(decisions[c])
  BY DEF State, LastState
<1>4. CASE decisions'[c] = decisions[c]
  <2>1. Extended(decisions[c], decisions'[c])
    BY <1>2, <1>4 DEF Extended
  <2>2. SubSeq(decisions'[c], 1, Len(decisions[c])) = decisions[c]
    BY <1>2, <1>4, <2>1, Prefix
  <2>3. QED
    BY <1>2, <1>3, <1>4, <2>2 DEF InState
<1>5. CASE decisions[c] = <<>> /\ decisions'[c] \in Decisions
  <2>1. Len(decisions[c]) = 0 /\ Len(decisions'[c]) \in Nat
    BY <1>5 DEF Decisions
  <2>2. Extended(decisions[c], decisions'[c])
    BY <2>1 DEF Extended
  <2>3. SubSeq(decisions'[c], 1, Len(decisions[c])) = decisions[c]
    BY <1>2, <1>5, <2>2, Prefix
  <2>4. QED
    BY <1>5, <2>1, <2>3 DEF InState, Claimed
<1>6. CASE /\ decisions'[c] \in Decisions /\ Extended(decisions[c], decisions'[c])
           /\ Move(State(c), LastState(decisions'[c]))
           /\ State(c) = "REVERSED" => decisions'[c] = decisions[c]
  <2>1. SubSeq(decisions'[c], 1, Len(decisions[c])) = decisions[c]
    BY <1>2, <1>6, Prefix
  <2>2. QED
    BY <1>3, <1>6, <2>1 DEF Extended, Move, InState, Dropped
<1>7. QED
  BY <1>1, <1>4, <1>5, <1>6, ClaimAfter

-----------------------------------------------------------------------------
(* The theorems. *)

\* Whatever interleaves, the schedule is honoured: one checkout under way, one
\* claim on a month, never more than the required count, and no month credited
\* for untimely money or beside its compensation.
THEOREM SchedulesAreHonoured == Spec => []ScheduleIsHonoured
  BY Invariance, ScheduleFollows, PTL

\* The audit of the ledger never finds a row, a claim and their evidence at odds,
\* however deliveries of one event overlap: the attempts bear every decision out.
THEOREM LedgersHaveIntegrity == Spec => []LedgerHasIntegrity
  BY Invariance, LedgerFollows, PTL

\* Money whose delivery was answered for good is credited or waits for the owner,
\* whatever an overlapping delivery of the same event writes after the answer.
THEOREM AnswersAreAccountedFor == Spec => []AnsweredIsAccountedFor
  BY Invariance, AnswersFollow, PTL

\* The provider is asked for one order at most for a claim, and for none while
\* the agreement is held, closing, paid up or has an undecided capture.
THEOREM OrdersAreGuarded == Spec => NoOrderWhileBlocked
  BY Invariance, OrdersFollow, PTL DEF Spec, NoOrderWhileBlocked

\* No step rewrites a decision, reopens a reversed claim or revives a released one.
THEOREM DecisionsAreFinal == Spec => ClaimsAreFinal
  BY Invariance, ClaimsFollow, PTL DEF Spec, ClaimsAreFinal
=============================================================================
