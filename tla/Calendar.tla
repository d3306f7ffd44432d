-------------------------------- MODULE Calendar --------------------------------
(* Exact-calendar eligibility and monthly schedules (eligibility.py,              *)
(* instalments.py): dates, the boundaries of the monthly windows, the window an   *)
(* instant falls in and the completion an owner's preview projects; and the       *)
(* opening hours of the payments (operations.py).  Operators only.                *)
EXTENDS Integers, FiniteSets

CONSTANTS Closing   \* the end of a day on the clock: times are 0 .. Closing

ASSUME ClosingAssumption == Closing \in Nat

Leap(y) == (y % 4 = 0 /\ y % 100 # 0) \/ y % 400 = 0

MonthDays(y, m) ==
    IF m = 2 THEN (IF Leap(y) THEN 29 ELSE 28)
    ELSE IF m \in {4, 6, 9, 11} THEN 30 ELSE 31

Date(y, m, d) == [year |-> y, month |-> m, day |-> d]

\* datetime.date
Dates == { d \in [year: Nat \ {0}, month: 1 .. 12, day: 1 .. 31] : d.day <= MonthDays(d.year, d.month) }

\* the order of dates, as numbers
Ordinal(d) == (d.year * 12 + d.month) * 32 + d.day
Earlier(a, b) == Ordinal(a) < Ordinal(b)
Later(a, b) == IF Earlier(a, b) THEN b ELSE a

\* the following day
Tomorrow(d) ==
    IF d.day < MonthDays(d.year, d.month) THEN [d EXCEPT !.day = @ + 1]
    ELSE IF d.month < 12 THEN Date(d.year, d.month + 1, 1) ELSE Date(d.year + 1, 1, 1)

\* add_calendar_months: clamped to the last day of the month reached
AddMonths(d, n) ==
    LET index == d.month - 1 + n
        year == d.year + index \div 12
        month == (index % 12) + 1
    IN Date(year, month,
            IF d.day <= MonthDays(year, month) THEN d.day ELSE MonthDays(year, month))

\* calculate_eligibility_date and is_redemption_eligible
EligibilityDate(start, months) == AddMonths(start, months)
IsRedemptionEligible(eligibleFrom, asOf) == ~Earlier(asOf, eligibleFrom)

\* The same boundary counted on from the one before it, as a schedule kept by
\* repeated month steps would have it
ChainedBoundary(basis, start, n) ==
    CASE n = 0 -> start
      [] n = 1 -> AddMonths(IF basis = "CALENDAR_MONTH" THEN [start EXCEPT !.day = 1] ELSE start, 1)
      [] OTHER -> AddMonths(AddMonths(IF basis = "CALENDAR_MONTH" THEN [start EXCEPT !.day = 1] ELSE start, 1), n - 1)

\* period_boundary: always from the start of the agreement
Boundary(basis, start, n) ==
    IF basis = "CALENDAR_MONTH"
    THEN IF n = 0 THEN start ELSE AddMonths([start EXCEPT !.day = 1], n)
    ELSE AddMonths(start, n)

\* build_instalment_windows and the windows of resolve_independent_agreement_schedule:
\* the required count and the replacements after it, half-open
Windows(basis, start, count, replacements) ==
    [n \in 1 .. count + replacements |->
        [starts |-> Boundary(basis, start, n - 1),
         ends |-> Boundary(basis, start, n),
         extension |-> n > count]]

\* window_for_instant, of an instant's India-local date; 0 stands for None
WindowFor(windows, day) ==
    LET hits == { n \in DOMAIN windows :
                    ~Earlier(day, windows[n].starts) /\ Earlier(day, windows[n].ends) }
    IN IF hits = {} THEN 0 ELSE CHOOSE n \in hits : \A m \in hits : n <= m

\* preview_monthly_completion: a payment is assumed in each window that is neither
\* missed nor past the required count
AssumedPaid(windows, required, missed) ==
    { n \in DOMAIN windows \ missed : Cardinality((1 .. n - 1) \ missed) < required }

NoDate == Date(0, 0, 0)

ProjectedCompletion(windows, start, required, missed) ==
    LET paid == AssumedPaid(windows, required, missed)
    IN IF Cardinality(paid) < required THEN NoDate
       ELSE Later(EligibilityDate(start, required),
                  windows[CHOOSE n \in paid : \A m \in paid : m <= n].ends)

\* The whole preview: what the schedule asks and when it would be complete
Preview(basis, start, required, missed) ==
    LET windows == Windows(basis, start, required, 3)
        completion == ProjectedCompletion(windows, start, required, missed)
    IN [basis |-> basis, start |-> start, required |-> required, missed |-> missed,
        windows |-> windows, original |-> EligibilityDate(start, required),
        completion |-> completion, review |-> completion = NoDate]

-----------------------------------------------------------------------------
(* The answer to "may a contribution be started now, and if not, when next?", from *)
(* the operations control, its weekly windows and the current rate.  An instant    *)
(* is a weekday and a time of day; the message shown with an answer is left out.   *)

Weekdays == 0 .. 6

\* A row of the control: PaymentOperationsControl and its schedule windows
Control(hours, switches) == [hours |-> hours, switches |-> switches]

\* PaymentScheduleWindow: enabled, and opens before it closes
Hours == { w \in [enabled: BOOLEAN, opens: 0 .. Closing, closes: 0 .. Closing] : w.opens < w.closes }

OpenAt(hours, day, time) ==
    hours[day].enabled /\ hours[day].opens <= time /\ time < hours[day].closes

NoOpening == [ahead |-> 0 - 1, time |-> 0]

\* _next_scheduled_opening looking only at the days that are still whole
NextOpeningWithinWeek(hours, day, time) ==
    LET ahead == { n \in 0 .. 6 :
                     /\ hours[(day + n) % 7].enabled
                     /\ n = 0 => time < hours[day].opens }
        first == CHOOSE n \in ahead : \A m \in ahead : n <= m
    IN IF ahead = {} THEN NoOpening
       ELSE [ahead |-> first, time |-> hours[(day + first) % 7].opens]

\* _next_scheduled_opening: today if it has not opened yet, otherwise the first
\* enabled weekday of the coming seven, the same weekday of next week included
NextOpening(hours, day, time) ==
    LET ahead == { n \in 0 .. 7 :
                     /\ hours[(day + n) % 7].enabled
                     /\ n = 0 => time < hours[day].opens }
        first == CHOOSE n \in ahead : \A m \in ahead : n <= m
    IN IF ahead = {} THEN NoOpening
       ELSE [ahead |-> first, time |-> hours[(day + first) % 7].opens]

Blocked(code) == [code |-> code, next |-> NoOpening]

\* get_payment_availability: the first reason that blocks, in the code's order.
\* "grade" is the metal, or INR for the credit that has no rate; "rate" is when
\* the current rate was published.
Availability(control, grade, rate, day, time) ==
    LET s == control.switches
    IN CASE s.kill -> Blocked("ENVIRONMENT_KILL_SWITCH")
         [] ~s.kill /\ s.globalPause -> Blocked("MANUAL_GLOBAL_PAUSE")
         [] ~s.kill /\ ~s.globalPause /\ grade \in s.paused -> Blocked("MANUAL_METAL_PAUSE")
         [] OTHER ->
              IF s.scheduled /\ ~OpenAt(control.hours, day, time)
              THEN [code |-> "OUTSIDE_BUSINESS_HOURS", next |-> NextOpening(control.hours, day, time)]
              ELSE IF grade = "INR" THEN Blocked("OPEN")
              ELSE IF rate = "NONE" THEN Blocked("RATE_UNAVAILABLE")
              ELSE IF s.scheduled /\ s.currentDayRate /\ rate # "TODAY"
              THEN Blocked("RATE_REVIEW_REQUIRED")
              ELSE Blocked("OPEN")
================================================================================
