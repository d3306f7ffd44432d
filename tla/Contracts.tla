-------------------------------- MODULE Contracts --------------------------------
(* What the program agrees with a customer, and what it computes from it: a plan's  *)
(* configuration is proposed and an agreement made from it, an owner previews a     *)
(* monthly schedule, a payment asks whether it may start, contributions are credited *)
(* in metal, and a retained cash agreement is saved up and paid out.  These share    *)
(* no row, so a behaviour follows one of them.                                       *)
EXTENDS Calendar, PlanPolicies, CashSavings

CONSTANTS
    Proposals,      \* the configurations proposed, a sequence of sets of rows
    Selections,     \* amounts a customer may choose
    Bases, Starts, Required, Misses,     \* the schedules previewed
    Controls, Rates,                     \* the operations controls, and rates' age
    Percentages,                          \* of a benefit
    Prices, MaxCredits                   \* rates per gram in paise, credits followed

ASSUME ContractsAssumption ==
    /\ \A i \in DOMAIN Proposals : Proposals[i] \subseteq ConfigurationRows
    /\ Selections \subseteq Nat /\ Bases \subseteq {"ANNIVERSARY", "CALENDAR_MONTH"}
    /\ Starts \subseteq Dates /\ Required \subseteq Nat \ {0}
    /\ \A c \in Controls : c.hours \in [Weekdays -> Hours]
    /\ Percentages \subseteq Nat /\ Prices \subseteq Nat \ {0} /\ MaxCredits \in Nat

VARIABLES asked    \* what was asked last, with the answer

contractVars == <<asked, cashVars>>

Nothing == [about |-> "NOTHING"]

Init == asked = Nothing /\ CashInit

\* Cash has not been saved in this behaviour
Fresh == cash = <<>> /\ payouts = <<>> /\ day = 0

-----------------------------------------------------------------------------

\* create_configuration_version: the verdicts of the two descriptions of a policy
ProposeConfiguration(row) ==
    /\ LET valid == Operational(row)
           stored == Storable(row)
       IN /\ TRUE \in {valid, stored}
          /\ asked' = [about |-> "CONFIGURATION", row |-> row, valid |-> valid, stored |-> stored]
    /\ UNCHANGED cashVars

\* agreement terms from a configuration that was created
MakeAgreement(selected, grade) ==
    /\ asked.about = "CONFIGURATION" /\ asked.valid /\ asked.stored
    /\ TermsResolve(asked.row, selected, grade)
    /\ asked' = [about |-> "AGREEMENT", row |-> asked.row,
                 agreement |-> Agreement(asked.row, selected, grade)]
    /\ UNCHANGED cashVars

\* preview_monthly_completion
PreviewSchedule(basis, start, required, missed) ==
    /\ asked' = [about |-> "SCHEDULE", preview |-> Preview(basis, start, required, missed)]
    /\ UNCHANGED cashVars

\* get_payment_availability
AskAvailability(control, grade, rate, weekday, time) ==
    /\ asked' = [about |-> "AVAILABILITY", control |-> control, grade |-> grade,
                 weekday |-> weekday, time |-> time,
                 answer |-> Availability(control, grade, rate, weekday, time)]
    /\ UNCHANGED cashVars

Credits == IF asked.about = "CREDITS" THEN asked.credits ELSE <<>>

\* allocate_metal: an amount too small for a unit is not allocated
CreditContribution(amount, rate) ==
    /\ asked.about \in {"NOTHING", "CREDITS"} /\ Fresh
    /\ Len(Credits) < MaxCredits
    /\ Quantity(amount, rate) > 0
    /\ asked' = [about |-> "CREDITS",
                 credits |-> Append(Credits, [amount |-> amount, rate |-> rate,
                                              quantity |-> Quantity(amount, rate)])]
    /\ UNCHANGED cashVars

\* calculate_purchase_bonus and calculate_va_discount
CalculateBenefit(base, percentage, cap) ==
    /\ asked' = [about |-> "BENEFIT", base |-> base, percentage |-> percentage, cap |-> cap,
                 benefit |-> Benefit(base, percentage, cap)]
    /\ UNCHANGED cashVars

SaveCash ==
    /\ asked = Nothing
    /\ CashNext
    /\ UNCHANGED asked

Ask ==
    /\ asked = Nothing /\ Fresh
    /\ \/ \E i \in DOMAIN Proposals : \E row \in Proposals[i] : ProposeConfiguration(row)
       \/ \E basis \in Bases, start \in Starts, required \in Required, missed \in Misses :
              PreviewSchedule(basis, start, required, missed)
       \/ \E control \in Controls, grade \in {"GOLD", "INR"}, rate \in Rates,
             weekday \in Weekdays, time \in 0 .. Closing :
              AskAvailability(control, grade, rate, weekday, time)
       \/ \E base \in Selections, percentage \in Percentages, cap \in Selections :
              CalculateBenefit(base, percentage, cap)

Next ==
    \/ Ask
    \/ \E selected \in Selections \cup {NoValue}, grade \in Grades \cup {NoValue} :
           MakeAgreement(selected, grade)
    \/ \E amount \in Selections, rate \in Prices : CreditContribution(amount, rate)
    \/ SaveCash

Spec == Init /\ [][Next]_contractVars

-----------------------------------------------------------------------------
(* Properties.                                                                  *)

\* The typed validation and the table's constraints, written apart, are one policy
\* matrix: a row the database would keep is one every payment's validation accepts,
\* and a valid policy of the independent encoding is never refused by the database.
DescriptionsAgree ==
    asked.about = "CONFIGURATION" =>
        /\ asked.stored => asked.valid
        /\ (/\ asked.valid /\ asked.row.schema = 2 /\ AmountShape(asked.row)
            /\ asked.row.months = NoValue /\ asked.row.frequency # "ONCE_PER_MONTH")
           => asked.stored

\* An agreement made from a stored configuration satisfies the agreement's own
\* constraints, still resolves to its configuration whenever it is validated, is one
\* whose payments are let through, and takes exactly the amounts that were agreed.
AgreedIsOperable ==
  /\ DescriptionsAgree
  /\ asked.about = "AGREEMENT" =>
        LET a == asked.agreement IN
        /\ AgreementStorable(a)
        /\ StillAgreed(a, asked.row)
        /\ PaymentWorkflowOpen(a, asked.row)
        /\ \A amount \in Selections :
               ContributionAmountAllowed(a, amount) <=>
                   (AmountAllowed(asked.row, amount) /\ (a.rule = "FIXED" => amount = a.fixed))

\* The windows of a schedule follow each other without a gap and none is empty; they
\* keep to the day of the month agreed; with no month missed the agreement completes
\* on its original date, each of up to three misses may move that by a month at the
\* most, a fourth sends it to review; and starting later never completes earlier.
MaturesAsAgreed(p) ==
    LET missed == p.missed \cap (1 .. p.required + 3)
        k == Cardinality(missed)
        latest == Boundary(p.basis, p.start, p.required + k)
    IN /\ \A n \in DOMAIN p.windows :
            /\ Earlier(p.windows[n].starts, p.windows[n].ends)
            /\ n > 1 => p.windows[n].starts = p.windows[n - 1].ends
            /\ WindowFor(p.windows, p.windows[n].starts) = n
            /\ WindowFor(p.windows, p.windows[n].ends) # n
            /\ p.basis = "ANNIVERSARY" =>
                 LET d == p.windows[n].starts
                 IN d.day = (IF p.start.day <= MonthDays(d.year, d.month)
                             THEN p.start.day ELSE MonthDays(d.year, d.month))
       /\ IF k > 3 THEN p.review
          ELSE /\ ~p.review
               /\ ~Earlier(p.completion, p.original)
               /\ ~Earlier(Later(p.original, latest), p.completion)
       /\ \A later \in Starts : ~Earlier(later, p.start) =>
             ~Earlier(EligibilityDate(later, p.required), p.original)

\* The next opening a customer is told is one: the schedule is open at that instant,
\* it is closed at every instant until then, and "none" is only said of a schedule
\* that never opens.
NextOpeningIsNext(hours, weekday, time, next) ==
    LET Open(n, t) == OpenAt(hours, (weekday + n) % 7, t)
    IN IF next = NoOpening
       THEN \A w \in Weekdays : ~hours[w].enabled
       ELSE /\ Open(next.ahead, next.time)
            /\ \A n \in 0 .. next.ahead, t \in 0 .. Closing :
                 (/\ n = 0 => t >= time
                  /\ n = next.ahead => t < next.time) => ~Open(n, t)

\* However many contributions are credited, the metal differs from what the money
\* bought at their rates by no more than half a unit each.
CreditsAreFair(credits) ==
    LET worth == SumFunction([i \in DOMAIN credits |-> credits[i].quantity * credits[i].rate])
        paid == SumFunction([i \in DOMAIN credits |-> credits[i].amount * Quantum])
        rates == SumFunction([i \in DOMAIN credits |-> credits[i].rate])
    IN 2 * (worth - paid) <= rates /\ 2 * (paid - worth) <= rates

\* A benefit is within half a paisa of its percentage unless its cap is less, and
\* never above the cap.
BenefitIsFair(base, percentage, cap, benefit) ==
    LET exact == base * percentage
    IN /\ benefit <= cap
       /\ 2 * (100 * benefit - exact) <= 100
       /\ benefit < cap => 2 * (exact - 100 * benefit) < 100

\* What stands paid out of a cash agreement never exceeds the principal paid in, nor
\* its bonus the one earned on what was paid by maturity, whatever is reversed,
\* redeemed again or paid in afterwards.
CashIsPaidOnce ==
    /\ PrincipalRedeemed <= PrincipalPaid
    /\ BonusRedeemed <= (IF Matured THEN CashBonus(Qualifying, Percentage) ELSE 0)

\* What a customer is told of a time is so: when the agreement completes, and when
\* payments open next.
DatesAreKept ==
    /\ asked.about = "SCHEDULE" => MaturesAsAgreed(asked.preview)
    /\ asked.about = "AVAILABILITY" /\ asked.answer.code = "OUTSIDE_BUSINESS_HOURS" =>
         NextOpeningIsNext(asked.control.hours, asked.weekday, asked.time, asked.answer.next)

\* What a customer's money buys, earns and pays out is what was agreed, to half a
\* unit of rounding.
MoneyIsKept ==
    /\ CreditsAreFair(Credits)
    /\ asked.about = "BENEFIT" =>
         BenefitIsFair(asked.base, asked.percentage, asked.cap, asked.benefit)
    /\ CashIsPaidOnce
=============================================================================
