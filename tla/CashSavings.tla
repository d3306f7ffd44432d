------------------------------- MODULE CashSavings -------------------------------
(* The retained cash agreement: principal paid in, a bonus earned at maturity, and *)
(* both redeemed in parts, with reversals (services.py, bonuses.py,                *)
(* selectors.get_cash_bonus_summary).  Days count from the start; the agreement    *)
(* matures on the day Maturity.                                                    *)
EXTENDS Integers, Sequences, FiniteSets, Functions

CONSTANTS
    Quantum,        \* units of metal in the gram (METAL_QUANTUM: a million)
    Instalment,     \* the fixed contribution of the agreement
    Percentage,     \* cash_bonus_percentage_snapshot
    Maturity,       \* eligible_from
    PostMaturity,   \* allow_post_eligibility_contributions_snapshot
    MaxCash,        \* bound on contributions
    MaxPayouts      \* bound on redemptions

ASSUME AmountsAssumption ==
    /\ Quantum \in Nat \ {0} /\ Instalment \in Nat \ {0} /\ Percentage \in Nat
    /\ Maturity \in Nat /\ PostMaturity \in BOOLEAN /\ MaxCash \in Nat /\ MaxPayouts \in Nat

VARIABLES
    day,            \* today, from 0
    cash,           \* the agreement's contributions: status and the day of paid_at
    payouts,        \* its redemptions: principal and bonus parts, standing or reversed
    cashStatus      \* SchemeAccount.status

cashVars == <<day, cash, payouts, cashStatus>>

-----------------------------------------------------------------------------
(* The rounded amounts of the program (allocate_metal, bonuses.py, benefits.py): *)
(* every one is a quotient taken once, half up, at the precision it is stored   *)
(* with.  Money is in paise, metal in the smallest unit that is stored.         *)

RoundDown(n, d) == n \div d

\* ROUND_HALF_UP of n / d, for n >= 0 and d > 0
HalfUp(n, d) == (2 * n + d) \div (2 * d)

\* allocate_metal: the metal of an amount at a rate per gram, none for an amount
\* too small to allocate
Quantity(amount, rate) == HalfUp(amount * Quantum, rate)

\* CashBonusPolicy.calculate and benefits._calculate: a percentage of a base; the
\* configured benefit is capped before it is rounded
CashBonus(principal, percentage) == HalfUp(principal * percentage, 100)

Benefit(base, percentage, cap) ==
    IF base * percentage <= 100 * cap THEN HalfUp(base * percentage, 100) ELSE cap

-----------------------------------------------------------------------------
(* The agreement.                                                               *)

CashInit ==
    /\ day = 0 /\ cash = <<>> /\ payouts = <<>>
    /\ cashStatus = "ACTIVE"

Paid == { i \in DOMAIN cash : cash[i].status = "PAID" }
Standing == { i \in DOMAIN payouts : payouts[i].standing }
PrincipalPaid == Instalment * Cardinality(Paid)
PrincipalRedeemed == SumFunctionOnSet([i \in DOMAIN payouts |-> payouts[i].principal], Standing)
BonusRedeemed == SumFunctionOnSet([i \in DOMAIN payouts |-> payouts[i].bonus], Standing)

Matured == day >= Maturity

\* what was paid up to the end of the day of maturity
Qualifying == Instalment * Cardinality({ i \in Paid : cash[i].paidOn <= Maturity })

\* get_cash_bonus_summary
PrincipalOutstanding ==
    IF PrincipalPaid > PrincipalRedeemed THEN PrincipalPaid - PrincipalRedeemed ELSE 0

EarnedBonusUnspent == IF Matured THEN CashBonus(Qualifying, Percentage) ELSE 0
EarnedBonus ==
    IF Matured /\ CashBonus(Qualifying, Percentage) > BonusRedeemed
    THEN CashBonus(Qualifying, Percentage) - BonusRedeemed ELSE 0

Redeemable == PrincipalOutstanding + EarnedBonus

\* initiate_contribution of a cash agreement: flexible, so a pending one blocks nothing
InitiateCash ==
    /\ cashStatus # "REDEEMED"
    /\ Matured => PostMaturity
    /\ Len(cash) < MaxCash
    /\ cash' = Append(cash, [status |-> "PENDING", paidOn |-> 0])
    /\ UNCHANGED <<day, payouts, cashStatus>>

\* confirm_contribution: it asks neither the status nor the date of the agreement
ConfirmCash(i) ==
    /\ cash[i].status = "PENDING"
    /\ cash' = [cash EXCEPT ![i] = [status |-> "PAID", paidOn |-> day]]
    /\ UNCHANGED <<day, payouts, cashStatus>>

\* complete_redemption: principal first, then bonus; the last part closes
RedeemCash(amount) ==
    /\ cashStatus # "REDEEMED"
    /\ Matured
    /\ amount > 0 /\ amount <= Redeemable
    /\ Len(payouts) < MaxPayouts
    /\ LET principal == IF amount < PrincipalOutstanding THEN amount ELSE PrincipalOutstanding
       IN payouts' = Append(payouts,
              [principal |-> principal, bonus |-> amount - principal, standing |-> TRUE])
    /\ cashStatus' = IF amount = Redeemable THEN "REDEEMED" ELSE cashStatus
    /\ UNCHANGED <<day, cash>>

\* reverse_redemption
ReverseCash(i) ==
    /\ payouts[i].standing
    /\ payouts' = [payouts EXCEPT ![i].standing = FALSE]
    /\ cashStatus' = "ACTIVE"
    /\ UNCHANGED <<day, cash>>

CashDayPasses ==
    /\ day < Maturity + 1
    /\ day' = day + 1
    /\ UNCHANGED <<cash, payouts, cashStatus>>

CashNext ==
    \/ InitiateCash
    \/ \E i \in DOMAIN cash : ConfirmCash(i)
    \/ \E amount \in {1, Instalment, Redeemable} : RedeemCash(amount)
    \/ \E i \in DOMAIN payouts : ReverseCash(i)
    \/ CashDayPasses
=============================================================================
