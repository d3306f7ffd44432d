------------------------------- MODULE PlanPolicies -------------------------------
(* The policy matrix of configured plans, where it is written down: the typed        *)
(* validation (plan_policies.py), the database's constraints on a configuration and *)
(* on an agreement (models.py), the terms an agreement is made with                  *)
(* (agreement_contracts.py, plan_configuration.py) and their validation afterwards.  *)
(* Operators only, over the rows a configuration can be stored as.                   *)
(*                                                                                   *)
(* NoValue is SQL's NULL.  A benefit's percentage and cap are in range whenever they *)
(* are there; names, reasons and the family's version chain are left out.            *)
EXTENDS Integers

CONSTANTS NoValue, Grades

ASSUME NoValueAssumption ==
    /\ NoValue \notin Nat /\ NoValue \notin Grades
    /\ NoValue # "ANNIVERSARY" /\ NoValue # "CALENDAR_MONTH"

-----------------------------------------------------------------------------
(* What a configuration row says.                                              *)

Optionally(S) == S \cup {NoValue}

\* The fields of SchemePlanConfiguration: choices, and numbers that may be absent.
\* "terms" says that the benefit's percentage and cap are there, "charges" that the
\* charges it applies to are named.
ConfigurationRows ==
    [schema: {1, 2}, months: Optionally(Nat), duration: Optionally(Nat),
     accumulation: {"EXACT_METAL", "INR_PURCHASE_CREDIT"},
     amounts: {"PLAN_FIXED", "CUSTOMER_FIXED", "VARIABLE"}, fixed: Optionally(Nat),
     minimum: Nat, maximum: Optionally(Nat), step: Optionally(Nat \ {0}),
     instalments: {"NONE", "MONTHLY_COMPLETION"},
     eligibility: {"CALENDAR", "CALENDAR_AND_COUNT", "COUNT", "ANYTIME"},
     frequency: {"FLEXIBLE", "ONCE_PER_PERIOD", "ONCE_PER_MONTH"},
     basis: Optionally({"ANNIVERSARY", "CALENDAR_MONTH"}),
     missed: {"NONE", "EXTEND_THEN_REVIEW", "LOSE_UNEARNED_BENEFIT"},
     extension: Optionally(Nat), count: Optionally(Nat), post: BOOLEAN,
     benefit: {"NONE", "INR_PURCHASE_BONUS", "VA_DISCOUNT"}, terms: BOOLEAN,
     qualification: {"NONE", "NORMAL_ELIGIBILITY", "REQUIRED_SCHEDULE"},
     onMiss: {"NONE", "PRESERVE_ON_COMPLETION", "DISQUALIFY_UNEARNED"}, charges: BOOLEAN]

EligibilityOf == [CALENDAR |-> "DURATION", CALENDAR_AND_COUNT |-> "DURATION_AND_COUNT",
                  COUNT |-> "COUNT", ANYTIME |-> "ANYTIME"]

\* policy_from_configuration: schema 1 derives the count from the duration and has
\* no terms of a benefit
Policy(row) ==
    LET required == row.instalments = "MONTHLY_COMPLETION"
        two == row.schema = 2
    IN [accumulation |-> row.accumulation, amounts |-> row.amounts, required |-> required,
        limit |-> IF row.frequency = "FLEXIBLE" THEN "FLEXIBLE" ELSE "ONCE_PER_PERIOD",
        eligibility |-> EligibilityOf[row.eligibility],
        basis |-> IF two \/ required THEN row.basis
                  ELSE IF row.frequency = "ONCE_PER_MONTH" THEN "CALENDAR_MONTH" ELSE NoValue,
        duration |-> IF two THEN row.duration ELSE row.months,
        count |-> IF two THEN row.count ELSE IF required THEN row.months ELSE NoValue,
        missed |-> row.missed,
        extension |-> IF two \/ required THEN row.extension ELSE NoValue,
        benefit |-> row.benefit,
        terms |-> IF two THEN row.terms ELSE FALSE,
        qualification |-> IF two THEN row.qualification ELSE "NONE",
        onMiss |-> IF two THEN row.onMiss ELSE "NONE",
        charges |-> IF two THEN row.charges ELSE FALSE,
        post |-> row.post]

\* policy_from_configuration refuses these encodings
Readable(row) == row.schema = 1 => row.eligibility \in {"CALENDAR", "CALENDAR_AND_COUNT"}

CountBased(p) == p.eligibility \in {"COUNT", "DURATION_AND_COUNT"}

\* validate_plan_policy: what an agreement owes ...
ObligationHolds(p) ==
    IF ~p.required
    THEN /\ ~CountBased(p) /\ p.count = NoValue
         /\ p.missed = "NONE" /\ p.extension = NoValue /\ p.onMiss = "NONE"
    ELSE /\ p.amounts # "VARIABLE"
         /\ p.limit = "ONCE_PER_PERIOD" /\ p.basis # NoValue
         /\ p.count # NoValue
         /\ p.eligibility # "ANYTIME"
         /\ CountBased(p) => p.missed = "EXTEND_THEN_REVIEW" /\ p.extension = 3 /\ ~p.post
         /\ p.eligibility = "DURATION" =>
              /\ p.missed = "LOSE_UNEARNED_BENEFIT" /\ p.extension = NoValue
              /\ p.benefit # "NONE" /\ p.onMiss = "DISQUALIFY_UNEARNED"

\* ... and what it may earn
BenefitHolds(p) ==
    IF p.benefit = "NONE"
    THEN ~p.terms /\ p.qualification = "NONE" /\ p.onMiss = "NONE" /\ ~p.charges
    ELSE /\ p.terms
         /\ p.qualification = (IF p.required THEN "REQUIRED_SCHEDULE" ELSE "NORMAL_ELIGIBILITY")
         /\ p.required => p.onMiss # "NONE"
         /\ IF p.benefit = "INR_PURCHASE_BONUS"
            THEN p.accumulation = "INR_PURCHASE_CREDIT" /\ ~p.charges
            ELSE p.charges

ValidPolicy(p) ==
    /\ (p.eligibility \in {"DURATION", "DURATION_AND_COUNT"}) <=> (p.duration # NoValue)
    /\ (p.limit = "ONCE_PER_PERIOD") <=> (p.basis # NoValue)
    /\ ObligationHolds(p)
    /\ BenefitHolds(p)

\* _legacy_policy_blockers: what schema 1 may still say
LegacySupported(p) ==
    /\ p.accumulation = "EXACT_METAL" /\ p.benefit = "NONE"
    /\ p.eligibility \in {"DURATION", "DURATION_AND_COUNT"}
    /\ p.duration >= 12
    /\ IF p.required
       THEN p.amounts = "CUSTOMER_FIXED" /\ p.eligibility = "DURATION_AND_COUNT" /\ p.count = p.duration
       ELSE p.basis # "ANNIVERSARY"

\* require_operational_configuration
Operational(row) ==
    Readable(row) /\ ValidPolicy(Policy(row)) /\ (row.schema = 1 => LegacySupported(Policy(row)))

-----------------------------------------------------------------------------
(* What the database keeps of it: the constraints of SchemePlanConfiguration.   *)

PeriodShape(row) ==
    /\ IF row.eligibility \in {"CALENDAR", "CALENDAR_AND_COUNT"}
       THEN row.duration # NoValue ELSE row.duration = NoValue
    /\ \/ row.frequency = "FLEXIBLE" /\ row.basis = NoValue
       \/ row.frequency = "ONCE_PER_PERIOD" /\ row.basis # NoValue

UnguardedObligationShape(row) ==
    \/ row.instalments = "NONE" /\ row.eligibility \in {"CALENDAR", "ANYTIME"}
    \/ /\ row.instalments = "MONTHLY_COMPLETION" /\ row.amounts # "VARIABLE"
       /\ row.frequency = "ONCE_PER_PERIOD" /\ row.count # NoValue
       /\ \/ /\ row.eligibility \in {"COUNT", "CALENDAR_AND_COUNT"}
             /\ row.missed = "EXTEND_THEN_REVIEW" /\ row.extension = 3 /\ ~row.post
          \/ /\ row.eligibility = "CALENDAR" /\ row.missed = "LOSE_UNEARNED_BENEFIT"
             /\ row.extension = NoValue /\ row.benefit # "NONE"

\* plan_config_v2_obligations
ObligationShape(row) ==
    \/ /\ row.instalments = "NONE" /\ row.eligibility \in {"CALENDAR", "ANYTIME"}
       /\ row.count = NoValue /\ row.missed = "NONE"
       /\ row.extension = NoValue /\ row.onMiss = "NONE"
    \/ /\ row.instalments = "MONTHLY_COMPLETION" /\ row.amounts # "VARIABLE"
       /\ row.frequency = "ONCE_PER_PERIOD" /\ row.count # NoValue
       /\ \/ /\ row.eligibility \in {"COUNT", "CALENDAR_AND_COUNT"}
             /\ row.missed = "EXTEND_THEN_REVIEW" /\ row.extension = 3 /\ ~row.post
          \/ /\ row.eligibility = "CALENDAR" /\ row.missed = "LOSE_UNEARNED_BENEFIT"
             /\ row.extension = NoValue /\ row.benefit # "NONE" /\ row.onMiss = "DISQUALIFY_UNEARNED"

\* plan_config_v2_benefits
BenefitShape(row) ==
    \/ /\ row.benefit = "NONE" /\ ~row.terms
       /\ row.qualification = "NONE" /\ row.onMiss = "NONE" /\ ~row.charges
    \/ /\ row.terms
       /\ \/ row.benefit = "INR_PURCHASE_BONUS" /\ row.accumulation = "INR_PURCHASE_CREDIT" /\ ~row.charges
          \/ row.benefit = "VA_DISCOUNT" /\ row.charges
       /\ \/ row.instalments = "NONE" /\ row.qualification = "NORMAL_ELIGIBILITY" /\ row.onMiss = "NONE"
          \/ /\ row.instalments = "MONTHLY_COMPLETION" /\ row.qualification = "REQUIRED_SCHEDULE"
             /\ row.onMiss # "NONE"

\* plan_config_schema_shape and plan_config_supported_family, for schema 1
LegacyShape(row) ==
    /\ row.months # NoValue /\ row.months >= 12
    /\ row.duration = NoValue /\ row.count = NoValue
    /\ row.accumulation = "EXACT_METAL" /\ row.benefit = "NONE" /\ ~row.terms
    /\ row.qualification = "NONE" /\ row.onMiss = "NONE" /\ ~row.charges
    /\ \/ /\ row.instalments = "NONE" /\ row.eligibility = "CALENDAR" /\ row.missed = "NONE"
          /\ row.frequency \in {"ONCE_PER_MONTH", "FLEXIBLE"}
          /\ row.basis = NoValue /\ row.extension = NoValue
       \/ /\ row.instalments = "MONTHLY_COMPLETION" /\ row.eligibility = "CALENDAR_AND_COUNT"
          /\ row.missed = "EXTEND_THEN_REVIEW" /\ row.amounts = "CUSTOMER_FIXED"
          /\ row.frequency = "ONCE_PER_PERIOD" /\ ~row.post
          /\ row.basis # NoValue /\ row.extension = 3

\* plan_config_amount_shape and the bounds on amounts
AmountShape(row) ==
    /\ row.maximum # NoValue => row.maximum >= row.minimum
    /\ \/ /\ row.amounts = "PLAN_FIXED" /\ row.fixed # NoValue
          /\ row.minimum = row.fixed /\ row.maximum = row.fixed /\ row.step = NoValue
       \/ row.amounts # "PLAN_FIXED" /\ row.fixed = NoValue

\* Every constraint of the table
Storable(row) ==
    /\ AmountShape(row)
    /\ IF row.schema = 1 THEN LegacyShape(row)
       ELSE row.months = NoValue /\ PeriodShape(row) /\ ObligationShape(row) /\ BenefitShape(row)

\* create_configuration_version: the policy is validated, then the row is saved
Creatable(row) == Operational(row) /\ Storable(row)

-----------------------------------------------------------------------------
(* The agreement made from it.                                                  *)

\* validate_configuration_amount
AmountAllowed(row, amount) ==
    /\ amount >= row.minimum
    /\ row.maximum # NoValue => amount <= row.maximum
    /\ row.amounts = "PLAN_FIXED" => amount = row.fixed
    /\ row.step # NoValue => (amount - row.minimum) % row.step = 0

\* resolve_independent_agreement_terms and agreement_snapshot_values refuse these
TermsResolve(row, selected, grade) ==
    /\ row.amounts = "CUSTOMER_FIXED" => selected # NoValue
    /\ selected # NoValue => AmountAllowed(row, selected)
    /\ IF row.accumulation = "INR_PURCHASE_CREDIT" THEN grade = NoValue ELSE grade \in Grades

\* account_snapshots of schema 2, configuration_plan_values with
\* agreement_snapshot_values of schema 1: the terms the agreement keeps
Terms(row, selected, grade) ==
    LET p == Policy(row)
        fixed == row.amounts # "VARIABLE"
        agreed == IF row.amounts = "PLAN_FIXED" THEN row.fixed ELSE selected
    IN [schema |-> row.schema,
        rule |-> IF fixed THEN "FIXED" ELSE "VARIABLE",
        fixed |-> IF fixed THEN agreed ELSE NoValue,
        minimum |-> IF fixed THEN agreed ELSE row.minimum,
        maximum |-> IF fixed THEN agreed ELSE row.maximum,
        step |-> IF fixed THEN NoValue ELSE row.step,
        mode |-> IF row.accumulation = "INR_PURCHASE_CREDIT" THEN "INR_CREDIT" ELSE "GOLD",
        grade |-> grade,
        eligibility |-> IF row.schema = 2 THEN p.eligibility ELSE "",
        count |-> IF row.schema = 2 THEN p.count ELSE NoValue,
        months |-> p.duration,
        frequency |-> IF row.schema = 2 THEN p.limit
                      ELSE IF p.required THEN "FLEXIBLE" ELSE row.frequency,
        post |-> p.post]

TermsKeepingStep(row, selected, grade) ==
    [Terms(row, selected, grade) EXCEPT !.step = row.step]

\* The agreement an owner enrols, from the row and what the customer chose
Agreement(row, selected, grade) == Terms(row, selected, grade)

\* validate_contribution_amount, of a payment to the agreement
ContributionAmountAllowed(a, amount) ==
    /\ IF a.rule = "FIXED" THEN amount = a.fixed
       ELSE amount >= a.minimum /\ (a.maximum # NoValue => amount <= a.maximum)
    /\ a.step # NoValue => (amount - a.minimum) % a.step = 0

\* The constraints of SchemeAccount on an agreement with a configuration
AgreementStorable(a) ==
    /\ IF a.schema = 1
       THEN a.months # NoValue /\ a.eligibility = "" /\ a.count = NoValue
       ELSE CASE a.eligibility = "DURATION" -> a.months # NoValue
              [] a.eligibility = "DURATION_AND_COUNT" -> a.months # NoValue /\ a.count # NoValue
              [] a.eligibility = "COUNT" -> a.months = NoValue /\ a.count # NoValue
              [] a.eligibility = "ANYTIME" -> a.months = NoValue /\ a.count = NoValue
    /\ a.frequency \in (IF a.schema = 2 THEN {"FLEXIBLE", "ONCE_PER_PERIOD"}
                        ELSE {"FLEXIBLE", "ONCE_PER_MONTH"})
    /\ a.maximum # NoValue => a.maximum >= a.minimum
    /\ IF a.rule = "VARIABLE" THEN a.fixed = NoValue
       ELSE /\ a.fixed # NoValue /\ a.minimum = a.fixed /\ a.maximum = a.fixed
            /\ a.step = NoValue
    /\ (a.mode = "INR_CREDIT") <=> (a.grade = NoValue)

\* validate_agreement_configuration and validate_independent_account_terms: the
\* frozen terms must be what the recorded row still resolves to
StillAgreed(a, row) ==
    /\ TermsResolve(row, a.fixed, a.grade)
    /\ a = Terms(row, a.fixed, a.grade)

\* require_current_payment_workflow, which every payment of it begins with
PaymentWorkflowOpen(a, row) ==
    /\ a.schema = row.schema
    /\ Operational(row)
    /\ (row.accumulation = "INR_PURCHASE_CREDIT") <=> (a.mode = "INR_CREDIT")
=============================================================================
