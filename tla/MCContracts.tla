------------------------------- MODULE MCContracts -------------------------------
(* The instance of Contracts that TLC checks.                                       *)
EXTENDS Contracts

-----------------------------------------------------------------------------
(* Configurations: what may be owed against a few benefits, what may be earned      *)
(* against a few obligations, and every shape of amounts, each with its mistakes.   *)

AmountShapes == [amounts: {"PLAN_FIXED", "CUSTOMER_FIXED", "VARIABLE"}, fixed: {NoValue, 2, 3},
                 minimum: {2}, maximum: {NoValue, 1, 2, 6}, step: {NoValue, 2}]

PlainAmounts == { s \in AmountShapes :
    \/ s.amounts = "PLAN_FIXED" /\ s.fixed = 2 /\ s.maximum = 2 /\ s.step = NoValue
    \/ s.amounts # "PLAN_FIXED" /\ s.fixed = NoValue /\ s.maximum = 6 /\ s.step = 2 }

Obligations == [instalments: {"NONE", "MONTHLY_COMPLETION"},
                eligibility: {"CALENDAR", "CALENDAR_AND_COUNT", "COUNT", "ANYTIME"},
                frequency: {"FLEXIBLE", "ONCE_PER_PERIOD"}, basis: {NoValue, "ANNIVERSARY"},
                missed: {"NONE", "EXTEND_THEN_REVIEW", "LOSE_UNEARNED_BENEFIT"},
                extension: {NoValue, 3}, count: {NoValue, 12}, post: BOOLEAN]

Benefits == [benefit: {"NONE", "INR_PURCHASE_BONUS", "VA_DISCOUNT"}, terms: BOOLEAN,
             qualification: {"NONE", "NORMAL_ELIGIBILITY", "REQUIRED_SCHEDULE"},
             onMiss: {"NONE", "PRESERVE_ON_COMPLETION", "DISQUALIFY_UNEARNED"}, charges: BOOLEAN]

Row(schema, months, duration, accumulation, amounts, o, b) ==
    [schema |-> schema, months |-> months, duration |-> duration, accumulation |-> accumulation,
     amounts |-> amounts.amounts, fixed |-> amounts.fixed, minimum |-> amounts.minimum,
     maximum |-> amounts.maximum, step |-> amounts.step,
     instalments |-> o.instalments, eligibility |-> o.eligibility, frequency |-> o.frequency,
     basis |-> o.basis, missed |-> o.missed, extension |-> o.extension, count |-> o.count,
     post |-> o.post, benefit |-> b.benefit, terms |-> b.terms, qualification |-> b.qualification,
     onMiss |-> b.onMiss, charges |-> b.charges]

NoBenefit == [benefit |-> "NONE", terms |-> FALSE, qualification |-> "NONE",
              onMiss |-> "NONE", charges |-> FALSE]
Offer(kind, qualification, onMiss) ==
    [benefit |-> kind, terms |-> TRUE, qualification |-> qualification, onMiss |-> onMiss,
     charges |-> kind = "VA_DISCOUNT"]

SomeBenefits ==
    { NoBenefit, [NoBenefit EXCEPT !.onMiss = "DISQUALIFY_UNEARNED"],
      Offer("INR_PURCHASE_BONUS", "REQUIRED_SCHEDULE", "DISQUALIFY_UNEARNED"),
      Offer("VA_DISCOUNT", "REQUIRED_SCHEDULE", "DISQUALIFY_UNEARNED"),
      Offer("VA_DISCOUNT", "REQUIRED_SCHEDULE", "PRESERVE_ON_COMPLETION"),
      Offer("VA_DISCOUNT", "NORMAL_ELIGIBILITY", "NONE") }

Optional(eligibility) ==
    [instalments |-> "NONE", eligibility |-> eligibility, frequency |-> "FLEXIBLE", basis |-> NoValue,
     missed |-> "NONE", extension |-> NoValue, count |-> NoValue, post |-> FALSE]
Monthly(eligibility, missed, extension) ==
    [instalments |-> "MONTHLY_COMPLETION", eligibility |-> eligibility, frequency |-> "ONCE_PER_PERIOD",
     basis |-> "ANNIVERSARY", missed |-> missed, extension |-> extension, count |-> 12, post |-> FALSE]

SomeObligations ==
    { Optional("CALENDAR"), Optional("ANYTIME"), Monthly("COUNT", "EXTEND_THEN_REVIEW", 3),
      Monthly("CALENDAR", "LOSE_UNEARNED_BENEFIT", NoValue) }

Accumulations == {"EXACT_METAL", "INR_PURCHASE_CREDIT"}
Durations == {NoValue, 12}

MCProposals == <<
    { Row(2, NoValue, d, a, s, o, b) :
        d \in Durations, a \in Accumulations, s \in PlainAmounts, o \in Obligations, b \in SomeBenefits },
    { Row(2, NoValue, d, a, s, o, b) :
        d \in Durations, a \in Accumulations, s \in PlainAmounts, o \in SomeObligations, b \in Benefits },
    { Row(2, NoValue, d, "EXACT_METAL", s, o, NoBenefit) :
        d \in Durations, s \in AmountShapes, o \in SomeObligations },
    { Row(1, m, NoValue, "EXACT_METAL", s, [o EXCEPT !.frequency = f], NoBenefit) :
        m \in {6, 12}, s \in PlainAmounts, f \in {"FLEXIBLE", "ONCE_PER_PERIOD", "ONCE_PER_MONTH"},
        o \in { x \in Obligations : x.count = NoValue } } >>

-----------------------------------------------------------------------------
(* Schedules, around the ends of months and the end of February 2028; and the weekly *)
(* controls.                                                                        *)

MCStarts == { s \in [year: {2026, 2027, 2028}, month: {1, 2, 8, 11}, day: {1, 15, 28, 29, 30, 31}] :
                s.day <= MonthDays(s.year, s.month) }
MCMisses == { m \in SUBSET {1, 2, 6, 12, 13, 14, 15} : Cardinality(m) <= 4 }

ClosedDay == [enabled |-> FALSE, opens |-> 0, closes |-> 1]
AllDay == [w \in Weekdays |-> [enabled |-> TRUE, opens |-> 0, closes |-> Closing]]
Unpaused == [kill |-> FALSE, globalPause |-> FALSE, paused |-> {}, scheduled |-> TRUE,
             currentDayRate |-> FALSE]
Switches == [kill: BOOLEAN, globalPause: BOOLEAN, paused: SUBSET {"GOLD"}, scheduled: BOOLEAN,
             currentDayRate: BOOLEAN]

MCControls ==
    { Control([w \in Weekdays |-> IF w = d THEN h ELSE IF w = e THEN i ELSE ClosedDay], Unpaused) :
        d \in Weekdays, e \in Weekdays, h \in Hours, i \in Hours }
    \cup { Control(AllDay, s) : s \in Switches }
=============================================================================
