----------------------------- MODULE Contracts_proofs -----------------------------
(***************************************************************************)
(* Theorems about Contracts, for every configuration, schedule, opening    *)
(* hours, amount, rate and percentage: what an agreement is made of stays  *)
(* operable, dates and openings are the ones told, and rounding takes no   *)
(* more than half a unit.                                                  *)
(***************************************************************************)
EXTENDS Contracts, Sums, FiniteSetTheorems, TLAPS

-----------------------------------------------------------------------------
(* Rounded amounts. *)

\* A quotient and what it leaves.
LEMMA Quotient ==
  ASSUME NEW n \in Nat, NEW d \in Nat \ {0}
  PROVE  n \div d \in Nat /\ d * (n \div d) <= n /\ n < d * (n \div d) + d
  OBVIOUS

\* HalfUp is within half of the divisor, upwards included.
LEMMA HalfUpIsNear ==
  ASSUME NEW n \in Nat, NEW d \in Nat \ {0}
  PROVE  /\ HalfUp(n, d) \in Nat
         /\ 2 * (d * HalfUp(n, d) - n) <= d
         /\ 2 * (n - d * HalfUp(n, d)) < d
<1>1. PICK q : q = (2 * n + d) \div (2 * d)
  OBVIOUS
<1>2. 2 * n + d \in Nat /\ 2 * d \in Nat \ {0}
  OBVIOUS
<1>3. q \in Nat /\ (2 * d) * q <= 2 * n + d /\ 2 * n + d < (2 * d) * q + 2 * d
  BY <1>1, <1>2, Quotient
<1>4. PICK p : p = d * q
  OBVIOUS
<1>5. p \in Nat /\ (2 * d) * q = 2 * p
  BY <1>3, <1>4
<1>6. 2 * (p - n) <= d /\ 2 * (n - p) < d
  BY <1>3, <1>5
<1> QED  BY <1>1, <1>3, <1>4, <1>6 DEF HalfUp


\* A percentage of more is not less.
LEMMA CashBonusGrows ==
  ASSUME NEW p \in Nat, NEW q \in Nat, p <= q, NEW c \in Nat
  PROVE  CashBonus(p, c) \in Nat /\ CashBonus(p, c) <= CashBonus(q, c)
<1>1. PICK x, y : x = p * c /\ y = q * c
  OBVIOUS
<1>2. x \in Nat /\ y \in Nat
  BY <1>1
<1>3. y - x = (q - p) * c
  BY <1>1
<1>4. (q - p) * c \in Nat
  OBVIOUS
<1>5. x <= y
  BY <1>2, <1>3, <1>4
<1>6. PICK a, b : a = HalfUp(x, 100) /\ b = HalfUp(y, 100)
  OBVIOUS
<1>7. a \in Nat /\ b \in Nat /\ 2 * (100 * a - x) <= 100 /\ 2 * (y - 100 * b) < 100
  BY <1>2, <1>6, HalfUpIsNear
<1>8. a <= b
  BY <1>2, <1>5, <1>7
<1> QED  BY <1>1, <1>6, <1>7, <1>8 DEF CashBonus

\* A configured benefit is its percentage to half a paisa, or its cap.
LEMMA BenefitsAreFair ==
  ASSUME NEW base \in Nat, NEW percentage \in Nat, NEW cap \in Nat
  PROVE  BenefitIsFair(base, percentage, cap, Benefit(base, percentage, cap))
<1>1. PICK x : x = base * percentage
  OBVIOUS
<1>2. x \in Nat
  BY <1>1
<1>3. PICK b : b = HalfUp(x, 100)
  OBVIOUS
<1>4. b \in Nat /\ 2 * (100 * b - x) <= 100 /\ 2 * (x - 100 * b) < 100
  BY <1>2, <1>3, HalfUpIsNear
<1>5. CASE x <= 100 * cap
  <2>1. Benefit(base, percentage, cap) = b
    BY <1>1, <1>3, <1>5 DEF Benefit
  <2>2. b <= cap
    BY <1>2, <1>4, <1>5
  <2> QED  BY <1>1, <1>2, <1>4, <2>1, <2>2 DEF BenefitIsFair
<1>6. CASE x > 100 * cap
  <2>1. Benefit(base, percentage, cap) = cap
    BY <1>1, <1>2, <1>6 DEF Benefit
  <2>2. cap <= cap /\ 2 * (100 * cap - x) <= 100
    BY <1>2, <1>6
  <2>3. ~(cap < cap)
    OBVIOUS
  <2> QED  BY <1>1, <2>1, <2>2, <2>3 DEF BenefitIsFair
<1> QED  BY <1>2, <1>5, <1>6

-----------------------------------------------------------------------------
(* Credited contributions. *)

CreditRows == [amount : Nat, rate : Nat \ {0}, quantity : Nat]

\* The sum with one more summand.
LEMMA SumOfMore ==
  ASSUME NEW n \in Nat, NEW f, NEW g, DOMAIN f = 1 .. n, DOMAIN g = 1 .. (n + 1),
         \A i \in 1 .. n : f[i] \in Int /\ g[i] = f[i], g[n + 1] \in Int
  PROVE  SumFunction(g) = SumFunction(f) + g[n + 1] /\ SumFunction(f) \in Int
<1>1. IsFiniteSet(DOMAIN f)
  BY FS_Interval
<1>2. n + 1 \notin DOMAIN f /\ DOMAIN g = DOMAIN f \cup {n + 1}
  OBVIOUS
<1> QED  BY <1>1, <1>2, SumGrows, SumType

\* The credit of one more contribution keeps the whole within half a unit each.
LEMMA CreditKeepsFair ==
  ASSUME NEW credits \in Seq(CreditRows), CreditsAreFair(credits),
         NEW amount \in Nat, NEW rate \in Nat \ {0}, NEW r,
         r = [amount |-> amount, rate |-> rate, quantity |-> Quantity(amount, rate)]
  PROVE  CreditsAreFair(Append(credits, r)) /\ Append(credits, r) \in Seq(CreditRows)
<1>1. PICK s, n, q, a : /\ s = Append(credits, r) /\ n = Len(credits)
                        /\ q = Quantity(amount, rate) /\ a = amount * Quantum
  OBVIOUS
<1>2. a \in Nat
  BY <1>1, AmountsAssumption
<1>3. q \in Nat /\ 2 * (rate * q - a) <= rate /\ 2 * (a - rate * q) < rate
  BY <1>1, <1>2, HalfUpIsNear DEF Quantity
<1>4. r \in CreditRows /\ s \in Seq(CreditRows)
  BY <1>1, <1>3 DEF CreditRows
<1>5. /\ n \in Nat /\ DOMAIN credits = 1 .. n /\ DOMAIN s = 1 .. (n + 1) /\ s[n + 1] = r
      /\ \A i \in 1 .. n : s[i] = credits[i]
  BY <1>1, <1>4
<1>6. \A i \in 1 .. n : credits[i].amount \in Nat /\ credits[i].rate \in Nat /\ credits[i].quantity \in Nat
  <2> TAKE i \in 1 .. n
  <2>1. credits[i] \in CreditRows
    BY <1>5
  <2> QED  BY <2>1 DEF CreditRows
<1>7. PICK f, g : /\ f = [i \in DOMAIN credits |-> credits[i].quantity * credits[i].rate]
                  /\ g = [i \in DOMAIN s |-> s[i].quantity * s[i].rate]
  OBVIOUS
<1>8. PICK p : p = q * rate
  OBVIOUS
<1>9. p \in Nat /\ 2 * (p - a) <= rate /\ 2 * (a - p) < rate
  <2>1. p = rate * q
    BY <1>3, <1>8
  <2> QED  BY <1>3, <2>1
<1>10. SumFunction(g) = SumFunction(f) + p /\ SumFunction(f) \in Int
  <2>1. \A i \in 1 .. n : f[i] \in Int /\ g[i] = f[i]
    BY <1>5, <1>6, <1>7
  <2>2. g[n + 1] = p
    BY <1>1, <1>5, <1>7, <1>8
  <2>3. DOMAIN f = 1 .. n /\ DOMAIN g = 1 .. (n + 1)
    BY <1>5, <1>7
  <2>4. g[n + 1] \in Int
    BY <1>9, <2>2
  <2> QED  BY <1>5, <2>1, <2>2, <2>3, <2>4, SumOfMore
<1>11. PICK h, k : /\ h = [i \in DOMAIN credits |-> credits[i].amount * Quantum]
                   /\ k = [i \in DOMAIN s |-> s[i].amount * Quantum]
  OBVIOUS
<1>12. SumFunction(k) = SumFunction(h) + a /\ SumFunction(h) \in Int
  <2>1. \A i \in 1 .. n : h[i] \in Int /\ k[i] = h[i]
    BY <1>5, <1>6, <1>11, AmountsAssumption
  <2>2. k[n + 1] = a
    BY <1>1, <1>5, <1>11
  <2>3. DOMAIN h = 1 .. n /\ DOMAIN k = 1 .. (n + 1)
    BY <1>5, <1>11
  <2>4. k[n + 1] \in Int
    BY <1>2, <2>2
  <2> QED  BY <1>5, <2>1, <2>2, <2>3, <2>4, SumOfMore
<1>13. PICK u, v : /\ u = [i \in DOMAIN credits |-> credits[i].rate]
                   /\ v = [i \in DOMAIN s |-> s[i].rate]
  OBVIOUS
<1>14. SumFunction(v) = SumFunction(u) + rate /\ SumFunction(u) \in Int
  <2>1. \A i \in 1 .. n : u[i] \in Int /\ v[i] = u[i]
    BY <1>5, <1>6, <1>13
  <2>2. v[n + 1] = rate
    BY <1>1, <1>5, <1>13
  <2>3. DOMAIN u = 1 .. n /\ DOMAIN v = 1 .. (n + 1)
    BY <1>5, <1>13
  <2>4. v[n + 1] \in Int
    BY <2>2
  <2> QED  BY <1>5, <2>1, <2>2, <2>3, <2>4, SumOfMore
<1>15. /\ 2 * (SumFunction(f) - SumFunction(h)) <= SumFunction(u)
       /\ 2 * (SumFunction(h) - SumFunction(f)) <= SumFunction(u)
  BY <1>7, <1>11, <1>13 DEF CreditsAreFair
<1>16. /\ 2 * (SumFunction(g) - SumFunction(k)) <= SumFunction(v)
       /\ 2 * (SumFunction(k) - SumFunction(g)) <= SumFunction(v)
  <2>1. PICK x, y, z : x = SumFunction(f) /\ y = SumFunction(h) /\ z = SumFunction(u)
    OBVIOUS
  <2>2. x \in Int /\ y \in Int /\ z \in Int /\ 2 * (x - y) <= z /\ 2 * (y - x) <= z
    BY <1>10, <1>12, <1>14, <1>15, <2>1
  <2>3. 2 * ((x + p) - (y + a)) <= z + rate /\ 2 * ((y + a) - (x + p)) <= z + rate
    BY <1>2, <1>9, <2>2
  <2>4. SumFunction(g) = x + p /\ SumFunction(k) = y + a /\ SumFunction(v) = z + rate
    BY <1>10, <1>12, <1>14, <2>1
  <2> QED  BY <2>3, <2>4
<1> QED  BY <1>1, <1>4, <1>7, <1>11, <1>13, <1>16 DEF CreditsAreFair

-----------------------------------------------------------------------------
(* The cash agreement. *)

CashRows == [status : {"PENDING", "PAID"}, paidOn : Nat]
PayoutRows == [principal : Nat, bonus : Nat, standing : BOOLEAN]

CashTyped ==
  /\ day \in Nat /\ cash \in Seq(CashRows) /\ payouts \in Seq(PayoutRows)

\* Nothing is paid out of an agreement before it matures, so a bonus is judged by
\* what was paid when it was earned.
CashInv == CashTyped /\ CashIsPaidOnce /\ (payouts # <<>> => Matured)

\* The numbers an agreement's state stands for.
CashCounts ==
  /\ IsFiniteSet(Paid) /\ IsFiniteSet(Standing)
  /\ PrincipalPaid \in Nat /\ Qualifying \in Nat
  /\ PrincipalRedeemed \in Nat /\ BonusRedeemed \in Nat
  /\ \A i \in Standing : payouts[i].principal \in Nat /\ payouts[i].bonus \in Nat

LEMMA CashNumbers == CashTyped => CashCounts
<1> SUFFICES ASSUME CashTyped  PROVE CashCounts
  OBVIOUS
<1>1. /\ DOMAIN cash = 1 .. Len(cash) /\ Len(cash) \in Nat
      /\ DOMAIN payouts = 1 .. Len(payouts) /\ Len(payouts) \in Nat
  BY DEF CashTyped
<1>2. IsFiniteSet(Paid) /\ IsFiniteSet(Standing)
  <2>1. IsFiniteSet(DOMAIN cash) /\ IsFiniteSet(DOMAIN payouts)
    BY <1>1, FS_Interval
  <2>2. Paid \subseteq DOMAIN cash /\ Standing \subseteq DOMAIN payouts
    BY DEF Paid, Standing
  <2> QED  BY <2>1, <2>2, FS_Subset
<1>3. PrincipalPaid \in Nat
  <2>1. Cardinality(Paid) \in Nat
    BY <1>2, FS_CardinalityType
  <2> QED  BY <2>1, AmountsAssumption DEF PrincipalPaid
<1>4. Qualifying \in Nat
  <2>1. PICK Q : Q = {i \in Paid : cash[i].paidOn <= Maturity}
    OBVIOUS
  <2>2. Q \subseteq Paid
    BY <2>1
  <2>3. Cardinality(Q) \in Nat
    BY <1>2, <2>2, FS_Subset, FS_CardinalityType
  <2> QED  BY <2>1, <2>3, AmountsAssumption DEF Qualifying
<1>5. \A i \in Standing : payouts[i].principal \in Nat /\ payouts[i].bonus \in Nat
  <2> TAKE i \in Standing
  <2>1. payouts[i] \in PayoutRows
    BY <1>1 DEF CashTyped, Standing
  <2> QED  BY <2>1 DEF PayoutRows
<1>6. PrincipalRedeemed \in Nat /\ BonusRedeemed \in Nat
  <2>1. PICK f, g : /\ f = [i \in DOMAIN payouts |-> payouts[i].principal]
                    /\ g = [i \in DOMAIN payouts |-> payouts[i].bonus]
    OBVIOUS
  <2>2. \A i \in Standing : f[i] \in Nat /\ g[i] \in Nat
    BY <1>5, <2>1 DEF Standing
  <2>3. SumFunctionOnSet(f, Standing) \in Nat /\ SumFunctionOnSet(g, Standing) \in Nat
    BY <1>2, <2>2, SumOnSetType
  <2> QED  BY <2>1, <2>3 DEF PrincipalRedeemed, BonusRedeemed
<1> QED  BY <1>2, <1>3, <1>4, <1>5, <1>6 DEF CashCounts

\* What was paid only grows, while what is paid is kept.
LEMMA PaidGrows ==
  ASSUME CashTyped, CashTyped', Paid \subseteq Paid', \A i \in Paid : cash'[i] = cash[i]
  PROVE  PrincipalPaid <= PrincipalPaid' /\ Qualifying <= Qualifying'
<1>1. IsFiniteSet(Paid)
  BY CashNumbers DEF CashCounts
<1>2. IsFiniteSet(Paid')
  <2>1. CashTyped' => CashCounts'
    BY CashNumbers, PTL
  <2> QED  BY <2>1 DEF CashCounts
<1>3. PICK P, Q, R, S : /\ P = Paid /\ Q = {i \in Paid : cash[i].paidOn <= Maturity}
                        /\ R = Paid' /\ S = {i \in Paid' : cash'[i].paidOn <= Maturity}
  OBVIOUS
<1>4. P \subseteq R /\ Q \subseteq P /\ S \subseteq R
  BY <1>3
<1>5. Q \subseteq S
  BY <1>3
<1>6. IsFiniteSet(R) /\ IsFiniteSet(S)
  BY <1>2, <1>3, <1>4, FS_Subset
<1>7. Cardinality(P) <= Cardinality(R) /\ Cardinality(Q) <= Cardinality(S)
  BY <1>4, <1>5, <1>6, FS_Subset
<1>8. PICK a, b, c, d : a = Cardinality(P) /\ b = Cardinality(R) /\ c = Cardinality(Q) /\ d = Cardinality(S)
  OBVIOUS
<1>9. a \in Nat /\ b \in Nat /\ c \in Nat /\ d \in Nat /\ a <= b /\ c <= d
  BY <1>4, <1>5, <1>6, <1>7, <1>8, FS_Subset, FS_CardinalityType
<1>10. Instalment * a <= Instalment * b /\ Instalment * c <= Instalment * d
  BY <1>9, AmountsAssumption
<1> QED  BY <1>3, <1>8, <1>10 DEF PrincipalPaid, Qualifying

\* Contributions begun and paid.
LEMMA PayingKeepsCash ==
  ASSUME CashInv, CashTyped', Paid \subseteq Paid', \A i \in Paid : cash'[i] = cash[i],
         UNCHANGED <<day, payouts>>
  PROVE  CashInv'
<1>1. PICK a, b, c, d : a = PrincipalPaid /\ b = PrincipalPaid' /\ c = Qualifying /\ d = Qualifying'
  OBVIOUS
<1>2. a \in Nat /\ c \in Nat /\ PrincipalRedeemed \in Nat /\ BonusRedeemed \in Nat
  BY <1>1, CashNumbers DEF CashInv, CashCounts
<1>3. b \in Nat /\ d \in Nat
  <2>1. CashTyped' => CashCounts'
    BY CashNumbers, PTL
  <2> QED  BY <1>1, <2>1 DEF CashCounts
<1>4. a <= b /\ c <= d
  BY <1>1, PaidGrows DEF CashInv
<1>5. PrincipalRedeemed' = PrincipalRedeemed /\ BonusRedeemed' = BonusRedeemed /\ Matured' = Matured
  BY DEF PrincipalRedeemed, BonusRedeemed, Standing, Matured
<1>6. PICK x, y : x = CashBonus(c, Percentage) /\ y = CashBonus(d, Percentage)
  OBVIOUS
<1>7. x \in Nat /\ y \in Nat /\ x <= y
  <2>1. Percentage \in Nat
    BY AmountsAssumption
  <2> QED  BY <1>2, <1>3, <1>4, <1>6, <2>1, CashBonusGrows
<1>8. /\ PrincipalRedeemed <= a
      /\ BonusRedeemed <= IF Matured THEN x ELSE 0
  BY <1>1, <1>6 DEF CashInv, CashIsPaidOnce
<1>9. PrincipalRedeemed <= b
  BY <1>2, <1>3, <1>4, <1>8
<1>10. BonusRedeemed <= IF Matured THEN y ELSE 0
  BY <1>2, <1>7, <1>8
<1>11. CashBonus(Qualifying, Percentage)' = y
  BY <1>1, <1>6 DEF CashBonus, HalfUp
<1>12. CashIsPaidOnce'
  BY <1>1, <1>5, <1>9, <1>10, <1>11 DEF CashIsPaidOnce
<1>13. payouts' # <<>> => Matured'
  BY <1>5 DEF CashInv
<1> QED  BY <1>12, <1>13 DEF CashInv

\* A payout that is recorded is added to what stands.
LEMMA PayoutAdds ==
  ASSUME CashTyped, NEW p \in Nat, NEW b \in Nat, NEW r,
         r = [principal |-> p, bonus |-> b, standing |-> TRUE],
         payouts' = Append(payouts, r)
  PROVE  /\ PrincipalRedeemed' = PrincipalRedeemed + p /\ BonusRedeemed' = BonusRedeemed + b
         /\ payouts' \in Seq(PayoutRows)
<1>1. r \in PayoutRows /\ payouts' \in Seq(PayoutRows)
  <2>1. r \in PayoutRows
    BY DEF PayoutRows
  <2> QED  BY <2>1 DEF CashTyped
<1>2. PICK n : n = Len(payouts)
  OBVIOUS
<1>3. /\ n \in Nat /\ DOMAIN payouts = 1 .. n /\ DOMAIN payouts' = 1 .. (n + 1)
      /\ payouts'[n + 1] = r /\ \A i \in 1 .. n : payouts'[i] = payouts[i]
  BY <1>1, <1>2 DEF CashTyped
<1>4. PICK S : S = Standing
  OBVIOUS
<1>5. Standing' = S \cup {n + 1} /\ n + 1 \notin S /\ S \subseteq 1 .. n
  BY <1>3, <1>4 DEF Standing
<1>6. IsFiniteSet(S) /\ \A i \in S : payouts[i].principal \in Nat /\ payouts[i].bonus \in Nat
  BY <1>4, CashNumbers DEF CashCounts
<1>7. PICK f, g : /\ f = [i \in DOMAIN payouts |-> payouts[i].principal]
                  /\ g = [i \in DOMAIN payouts' |-> payouts'[i].principal]
  OBVIOUS
<1>8. SumFunctionOnSet(g, S \cup {n + 1}) = SumFunctionOnSet(f, S) + p
  <2>1. \A i \in S : f[i] \in Int /\ g[i] = f[i]
    BY <1>3, <1>5, <1>6, <1>7
  <2>2. g[n + 1] = p
    BY <1>3, <1>7
  <2>3. g[n + 1] \in Int
    BY <2>2
  <2>4. IsFiniteSet(S) /\ n + 1 \notin S
    BY <1>5, <1>6
  <2>5. PICK T : T = S \cup {n + 1}
    OBVIOUS
  <2>6. SumFunctionOnSet(g, T) = SumFunctionOnSet(f, S) + g[n + 1]
    BY <2>1, <2>3, <2>4, <2>5, SumWithOneMore
  <2> QED  BY <2>2, <2>5, <2>6
<1>9. PICK h, k : /\ h = [i \in DOMAIN payouts |-> payouts[i].bonus]
                  /\ k = [i \in DOMAIN payouts' |-> payouts'[i].bonus]
  OBVIOUS
<1>10. SumFunctionOnSet(k, S \cup {n + 1}) = SumFunctionOnSet(h, S) + b
  <2>1. \A i \in S : h[i] \in Int /\ k[i] = h[i]
    BY <1>3, <1>5, <1>6, <1>9
  <2>2. k[n + 1] = b
    BY <1>3, <1>9
  <2>3. k[n + 1] \in Int
    BY <2>2
  <2>4. IsFiniteSet(S) /\ n + 1 \notin S
    BY <1>5, <1>6
  <2>5. PICK T : T = S \cup {n + 1}
    OBVIOUS
  <2>6. SumFunctionOnSet(k, T) = SumFunctionOnSet(h, S) + k[n + 1]
    BY <2>1, <2>3, <2>4, <2>5, SumWithOneMore
  <2> QED  BY <2>2, <2>5, <2>6
<1> QED  BY <1>1, <1>4, <1>5, <1>7, <1>8, <1>9, <1>10 DEF PrincipalRedeemed, BonusRedeemed

\* A payout that is reversed is taken off what stands.
LEMMA ReversalTakesOff ==
  ASSUME CashTyped, NEW j \in DOMAIN payouts, ReverseCash(j)
  PROVE  /\ PrincipalRedeemed' <= PrincipalRedeemed /\ BonusRedeemed' <= BonusRedeemed
         /\ PrincipalRedeemed' \in Nat /\ BonusRedeemed' \in Nat
         /\ payouts' \in Seq(PayoutRows) /\ payouts # <<>>
<1>1. PICK n, S : n = Len(payouts) /\ S = Standing'
  OBVIOUS
<1>2. n \in Nat /\ DOMAIN payouts = 1 .. n /\ payouts # <<>>
  BY <1>1 DEF CashTyped
<1>3. payouts[j] \in PayoutRows /\ payouts[j].standing
  BY <1>2 DEF CashTyped, ReverseCash
<1>4. payouts' = [payouts EXCEPT ![j] = [payouts[j] EXCEPT !.standing = FALSE]]
  BY DEF ReverseCash
<1>5. /\ payouts' \in Seq(PayoutRows) /\ DOMAIN payouts' = 1 .. n
      /\ \A i \in 1 .. n \ {j} : payouts'[i] = payouts[i]
      /\ ~payouts'[j].standing
      /\ \A i \in 1 .. n : payouts'[i].principal = payouts[i].principal /\ payouts'[i].bonus = payouts[i].bonus
  <2>1. PICK q : q = [payouts[j] EXCEPT !.standing = FALSE]
    OBVIOUS
  <2>2. /\ q \in PayoutRows /\ ~q.standing /\ q.principal = payouts[j].principal
        /\ q.bonus = payouts[j].bonus
    BY <1>3, <2>1 DEF PayoutRows
  <2>3. payouts' = [payouts EXCEPT ![j] = q]
    BY <1>4, <2>1
  <2>4. payouts \in Seq(PayoutRows)
    BY DEF CashTyped
  <2> QED  BY <1>1, <1>2, <2>2, <2>3, <2>4
<1>6. Standing = S \cup {j} /\ j \notin S /\ S \subseteq 1 .. n
  BY <1>1, <1>2, <1>3, <1>5 DEF Standing
<1>7. IsFiniteSet(S)
  <2>1. IsFiniteSet(Standing)
    BY CashNumbers DEF CashCounts
  <2> QED  BY <1>6, <2>1, FS_Subset
<1>8. \A i \in S \cup {j} : payouts[i].principal \in Nat /\ payouts[i].bonus \in Nat
  BY <1>6, CashNumbers DEF CashCounts
<1>9. PICK u, v : /\ u = [i \in DOMAIN payouts |-> payouts[i].principal]
                  /\ v = [i \in DOMAIN payouts' |-> payouts'[i].principal]
  OBVIOUS
<1>10. /\ SumFunctionOnSet(u, S \cup {j}) = SumFunctionOnSet(v, S) + payouts[j].principal
       /\ SumFunctionOnSet(v, S) \in Nat
  <2>1. \A i \in S : v[i] \in Nat /\ u[i] = v[i]
    <3> TAKE i \in S
    <3>1. i \in 1 .. n /\ payouts[i].principal \in Nat
      BY <1>6, <1>8
    <3>2. payouts'[i].principal = payouts[i].principal
      BY <1>5, <3>1
    <3>3. v[i] = payouts'[i].principal /\ u[i] = payouts[i].principal
      BY <1>2, <1>5, <1>9, <3>1
    <3> QED  BY <3>1, <3>2, <3>3
  <2>2. u[j] = payouts[j].principal /\ u[j] \in Int
    BY <1>8, <1>9
  <2>3. SumFunctionOnSet(v, S) \in Nat
    BY <1>7, <2>1, SumOnSetType
  <2>4. \A i \in S : u[i] = v[i]
    BY <2>1
  <2>5. SumFunctionOnSet(u, S) = SumFunctionOnSet(v, S)
    BY <1>7, <2>4, SumsAgree
  <2>6. \A i \in S : u[i] \in Int
    BY <2>1
  <2>7. SumFunctionOnSet(u, S \cup {j}) = u[j] + SumFunctionOnSet(u, S)
    BY <1>6, <1>7, <2>2, <2>6, SumStep
  <2> QED  BY <2>2, <2>3, <2>5, <2>7
<1>11. PICK h, k : /\ h = [i \in DOMAIN payouts |-> payouts[i].bonus]
                   /\ k = [i \in DOMAIN payouts' |-> payouts'[i].bonus]
  OBVIOUS
<1>12. /\ SumFunctionOnSet(h, S \cup {j}) = SumFunctionOnSet(k, S) + payouts[j].bonus
       /\ SumFunctionOnSet(k, S) \in Nat
  <2>1. \A i \in S : k[i] \in Nat /\ h[i] = k[i]
    <3> TAKE i \in S
    <3>1. i \in 1 .. n /\ payouts[i].bonus \in Nat
      BY <1>6, <1>8
    <3>2. payouts'[i].bonus = payouts[i].bonus
      BY <1>5, <3>1
    <3>3. k[i] = payouts'[i].bonus /\ h[i] = payouts[i].bonus
      BY <1>2, <1>5, <1>11, <3>1
    <3> QED  BY <3>1, <3>2, <3>3
  <2>2. h[j] = payouts[j].bonus /\ h[j] \in Int
    BY <1>8, <1>11
  <2>3. SumFunctionOnSet(k, S) \in Nat
    BY <1>7, <2>1, SumOnSetType
  <2>4. \A i \in S : h[i] = k[i]
    BY <2>1
  <2>5. SumFunctionOnSet(h, S) = SumFunctionOnSet(k, S)
    BY <1>7, <2>4, SumsAgree
  <2>6. \A i \in S : h[i] \in Int
    BY <2>1
  <2>7. SumFunctionOnSet(h, S \cup {j}) = h[j] + SumFunctionOnSet(h, S)
    BY <1>6, <1>7, <2>2, <2>6, SumStep
  <2> QED  BY <2>2, <2>3, <2>5, <2>7
<1>13. payouts[j].principal \in Nat /\ payouts[j].bonus \in Nat
  BY <1>8
<1>14. /\ PrincipalRedeemed = SumFunctionOnSet(u, S \cup {j}) /\ PrincipalRedeemed' = SumFunctionOnSet(v, S)
       /\ BonusRedeemed = SumFunctionOnSet(h, S \cup {j}) /\ BonusRedeemed' = SumFunctionOnSet(k, S)
  BY <1>1, <1>6, <1>9, <1>11 DEF PrincipalRedeemed, BonusRedeemed
<1> QED  BY <1>2, <1>5, <1>10, <1>12, <1>13, <1>14

\* A redemption takes no more than what stands beside the payouts.
LEMMA RedeemKeepsCash ==
  ASSUME CashInv, NEW amount \in Int, RedeemCash(amount)
  PROVE  CashInv'
<1>1. PICK o, p, b : /\ o = PrincipalOutstanding /\ p = (IF amount < o THEN amount ELSE o)
                     /\ b = amount - p
  OBVIOUS
<1>2. PICK e, w, q, r, m : /\ e = EarnedBonus /\ w = PrincipalPaid /\ q = PrincipalRedeemed
                           /\ r = BonusRedeemed /\ m = CashBonus(Qualifying, Percentage)
  OBVIOUS
<1>3. w \in Nat /\ q \in Nat /\ r \in Nat /\ Qualifying \in Nat
  BY <1>2, CashNumbers DEF CashInv, CashCounts
<1>4. m \in Nat
  <2>1. Percentage \in Nat
    BY AmountsAssumption
  <2> QED  BY <1>2, <1>3, <2>1, CashBonusGrows
<1>5. Matured /\ amount > 0 /\ amount <= o + e
  BY <1>1, <1>2 DEF RedeemCash, Redeemable
<1>6. q <= w /\ r <= m
  BY <1>2, <1>5 DEF CashInv, CashIsPaidOnce
<1>7. o = w - q
  BY <1>1, <1>2, <1>3, <1>6 DEF PrincipalOutstanding
<1>8. e = m - r
  BY <1>2, <1>3, <1>4, <1>5, <1>6 DEF EarnedBonus
<1>9. p \in Nat /\ b \in Nat /\ q + p <= w /\ r + b <= m
  BY <1>1, <1>3, <1>4, <1>5, <1>6, <1>7, <1>8
<1>10. /\ payouts' = Append(payouts, [principal |-> p, bonus |-> b, standing |-> TRUE])
       /\ UNCHANGED <<day, cash>>
  BY <1>1 DEF RedeemCash
<1>11. /\ PrincipalRedeemed' = q + p /\ BonusRedeemed' = r + b
       /\ payouts' \in Seq(PayoutRows)
  <2>1. PICK x : x = [principal |-> p, bonus |-> b, standing |-> TRUE]
    OBVIOUS
  <2>2. payouts' = Append(payouts, x)
    BY <1>10, <2>1
  <2>3. CashTyped
    BY DEF CashInv
  <2> QED  BY <1>2, <1>9, <2>1, <2>2, <2>3, PayoutAdds
<1>12. PrincipalPaid' = w /\ CashBonus(Qualifying, Percentage)' = m /\ Matured'
  BY <1>2, <1>5, <1>10 DEF PrincipalPaid, Qualifying, Paid, Matured, CashBonus, HalfUp
<1>13. CashIsPaidOnce'
  BY <1>9, <1>11, <1>12 DEF CashIsPaidOnce
<1>14. CashTyped'
  BY <1>10, <1>11 DEF CashInv, CashTyped
<1> QED  BY <1>12, <1>13, <1>14 DEF CashInv

\* A reversal takes nothing from what was paid in.
LEMMA ReverseKeepsCash ==
  ASSUME CashInv, NEW j \in DOMAIN payouts, ReverseCash(j)
  PROVE  CashInv'
<1>1. PICK w, q, r, x, y, m : /\ w = PrincipalPaid /\ q = PrincipalRedeemed /\ r = BonusRedeemed
                              /\ x = PrincipalRedeemed' /\ y = BonusRedeemed'
                              /\ m = IF Matured THEN CashBonus(Qualifying, Percentage) ELSE 0
  OBVIOUS
<1>2. x <= q /\ y <= r /\ x \in Nat /\ y \in Nat /\ payouts' \in Seq(PayoutRows) /\ payouts # <<>>
  BY <1>1, ReversalTakesOff DEF CashInv
<1>3. w \in Nat /\ q \in Nat /\ r \in Nat /\ Qualifying \in Nat
  BY <1>1, CashNumbers DEF CashInv, CashCounts
<1>4. m \in Nat
  <2>1. Percentage \in Nat
    BY AmountsAssumption
  <2>2. CashBonus(Qualifying, Percentage) \in Nat
    BY <1>3, <2>1, CashBonusGrows
  <2> QED  BY <1>1, <2>2
<1>5. q <= w /\ r <= m
  BY <1>1 DEF CashInv, CashIsPaidOnce
<1>6. x <= w /\ y <= m
  BY <1>2, <1>3, <1>4, <1>5
<1>7. UNCHANGED <<day, cash>>
  BY DEF ReverseCash
<1>8. /\ PrincipalPaid' = w
      /\ (IF Matured THEN CashBonus(Qualifying, Percentage) ELSE 0)' = m
  BY <1>1, <1>7 DEF PrincipalPaid, Qualifying, Paid, Matured, CashBonus, HalfUp
<1>9. CashIsPaidOnce'
  BY <1>1, <1>6, <1>8 DEF CashIsPaidOnce
<1>10. CashTyped' /\ Matured'
  BY <1>2, <1>7 DEF CashInv, CashTyped, Matured
<1> QED  BY <1>9, <1>10 DEF CashInv

\* The passing of a day.
LEMMA DayKeepsCash ==
  ASSUME CashInv, CashDayPasses
  PROVE  CashInv'
<1>1. day \in Nat /\ day' = day + 1 /\ UNCHANGED <<cash, payouts>> /\ Maturity \in Nat
  BY AmountsAssumption DEF CashInv, CashTyped, CashDayPasses
<1>2. Matured => Matured'
  BY <1>1 DEF Matured
<1>3. PICK q, r, w, m : /\ q = PrincipalRedeemed /\ r = BonusRedeemed /\ w = PrincipalPaid
                        /\ m = CashBonus(Qualifying, Percentage)
  OBVIOUS
<1>4. /\ PrincipalRedeemed' = q /\ BonusRedeemed' = r /\ PrincipalPaid' = w
      /\ CashBonus(Qualifying, Percentage)' = m
  BY <1>1, <1>3 DEF PrincipalRedeemed, BonusRedeemed, Standing, PrincipalPaid, Qualifying, Paid,
     CashBonus, HalfUp
<1>5. r \in Nat /\ Qualifying \in Nat
  BY <1>3, CashNumbers DEF CashInv, CashCounts
<1>6. m \in Nat
  <2>1. Percentage \in Nat
    BY AmountsAssumption
  <2> QED  BY <1>3, <1>5, <2>1, CashBonusGrows
<1>7. q <= w /\ (r <= IF Matured THEN m ELSE 0)
  BY <1>3 DEF CashInv, CashIsPaidOnce
<1>8. r <= IF Matured' THEN m ELSE 0
  BY <1>2, <1>5, <1>6, <1>7
<1>9. CashIsPaidOnce'
  BY <1>4, <1>7, <1>8 DEF CashIsPaidOnce
<1>10. CashTyped'
  BY <1>1 DEF CashInv, CashTyped
<1>11. payouts' # <<>> => Matured'
  BY <1>1, <1>2 DEF CashInv
<1> QED  BY <1>9, <1>10, <1>11 DEF CashInv

\* Every step of the cash agreement.
LEMMA CashStep ==
  ASSUME CashInv, CashNext
  PROVE  CashInv'
<1>1. /\ DOMAIN cash = 1 .. Len(cash) /\ Len(cash) \in Nat /\ cash \in Seq(CashRows)
      /\ day \in Nat /\ payouts \in Seq(PayoutRows)
  BY DEF CashInv, CashTyped
<1>2. CASE InitiateCash
  <2>1. PICK r : r = [status |-> "PENDING", paidOn |-> 0]
    OBVIOUS
  <2>2. r \in CashRows /\ r.status # "PAID"
    BY <2>1 DEF CashRows
  <2>3. cash' = Append(cash, r) /\ UNCHANGED <<day, payouts>>
    BY <1>2, <2>1 DEF InitiateCash
  <2>4. cash' \in Seq(CashRows) /\ DOMAIN cash \subseteq DOMAIN cash' /\ \A i \in DOMAIN cash : cash'[i] = cash[i]
    BY <1>1, <2>2, <2>3
  <2>5. CashTyped'
    BY <1>1, <2>3, <2>4 DEF CashTyped
  <2>6. Paid \subseteq Paid' /\ \A i \in Paid : cash'[i] = cash[i]
    BY <2>4 DEF Paid
  <2> QED  BY <2>3, <2>5, <2>6, PayingKeepsCash
<1>3. ASSUME NEW i \in DOMAIN cash, ConfirmCash(i)  PROVE CashInv'
  <2>1. PICK r : r = [status |-> "PAID", paidOn |-> day]
    OBVIOUS
  <2>2. r \in CashRows
    BY <1>1, <2>1 DEF CashRows
  <2>3. cash' = [cash EXCEPT ![i] = r] /\ UNCHANGED <<day, payouts>> /\ cash[i].status # "PAID"
    BY <1>3, <2>1 DEF ConfirmCash
  <2>4. cash' \in Seq(CashRows) /\ DOMAIN cash' = DOMAIN cash /\ \A j \in DOMAIN cash \ {i} : cash'[j] = cash[j]
    BY <1>1, <2>2, <2>3
  <2>5. CashTyped'
    BY <1>1, <2>3, <2>4 DEF CashTyped
  <2>6. Paid \subseteq Paid' /\ \A j \in Paid : cash'[j] = cash[j]
    BY <2>3, <2>4 DEF Paid
  <2> QED  BY <2>3, <2>5, <2>6, PayingKeepsCash
<1>4. ASSUME NEW amount \in {1, Instalment, Redeemable}, RedeemCash(amount)  PROVE CashInv'
  <2>1. amount \in Int
    <3>1. PrincipalOutstanding \in Int
      BY CashNumbers DEF CashInv, CashCounts, PrincipalOutstanding
    <3>2. EarnedBonus \in Int
      <4>1. Qualifying \in Nat /\ BonusRedeemed \in Nat /\ Percentage \in Nat
        BY CashNumbers, AmountsAssumption DEF CashInv, CashCounts
      <4>2. CashBonus(Qualifying, Percentage) \in Nat
        BY <4>1, CashBonusGrows
      <4> QED  BY <4>1, <4>2 DEF EarnedBonus
    <3> QED  BY <3>1, <3>2, AmountsAssumption DEF Redeemable
  <2> QED  BY <1>4, <2>1, RedeemKeepsCash
<1>5. ASSUME NEW i \in DOMAIN payouts, ReverseCash(i)  PROVE CashInv'
  BY <1>5, ReverseKeepsCash
<1>6. CASE CashDayPasses
  BY <1>6, DayKeepsCash
<1> QED  BY <1>2, <1>3, <1>4, <1>5, <1>6 DEF CashNext

-----------------------------------------------------------------------------
(* Policies, configurations and agreements. *)

\* How the eligibility of a configuration reads as a policy.
LEMMA Eligibilities ==
  /\ EligibilityOf["CALENDAR"] = "DURATION" /\ EligibilityOf["COUNT"] = "COUNT"
  /\ EligibilityOf["CALENDAR_AND_COUNT"] = "DURATION_AND_COUNT" /\ EligibilityOf["ANYTIME"] = "ANYTIME"
  BY DEF EligibilityOf

\* What every field of a configuration may be.
LEMMA FieldsTyped ==
  ASSUME NEW row \in ConfigurationRows
  PROVE  /\ row.schema \in {1, 2} /\ row.months \in Nat \cup {NoValue} /\ row.duration \in Nat \cup {NoValue}
         /\ row.accumulation \in {"EXACT_METAL", "INR_PURCHASE_CREDIT"}
         /\ row.amounts \in {"PLAN_FIXED", "CUSTOMER_FIXED", "VARIABLE"}
         /\ row.fixed \in Nat \cup {NoValue} /\ row.minimum \in Nat /\ row.maximum \in Nat \cup {NoValue}
         /\ row.step \in (Nat \ {0}) \cup {NoValue}
         /\ row.instalments \in {"NONE", "MONTHLY_COMPLETION"}
         /\ row.eligibility \in {"CALENDAR", "CALENDAR_AND_COUNT", "COUNT", "ANYTIME"}
         /\ row.frequency \in {"FLEXIBLE", "ONCE_PER_PERIOD", "ONCE_PER_MONTH"}
         /\ row.basis \in {"ANNIVERSARY", "CALENDAR_MONTH", NoValue}
         /\ row.missed \in {"NONE", "EXTEND_THEN_REVIEW", "LOSE_UNEARNED_BENEFIT"}
         /\ row.extension \in Nat \cup {NoValue} /\ row.count \in Nat \cup {NoValue} /\ row.post \in BOOLEAN
         /\ row.benefit \in {"NONE", "INR_PURCHASE_BONUS", "VA_DISCOUNT"} /\ row.terms \in BOOLEAN
         /\ row.qualification \in {"NONE", "NORMAL_ELIGIBILITY", "REQUIRED_SCHEDULE"}
         /\ row.onMiss \in {"NONE", "PRESERVE_ON_COMPLETION", "DISQUALIFY_UNEARNED"} /\ row.charges \in BOOLEAN
  BY DEF ConfigurationRows, Optionally

\* The policy of a row of schema 2 is the row.
LEMMA PolicyOfTwo ==
  ASSUME NEW row \in ConfigurationRows, row.schema = 2, NEW p, p = Policy(row)
  PROVE  /\ p.accumulation = row.accumulation /\ p.amounts = row.amounts
         /\ p.required = (row.instalments = "MONTHLY_COMPLETION")
         /\ p.limit = (IF row.frequency = "FLEXIBLE" THEN "FLEXIBLE" ELSE "ONCE_PER_PERIOD")
         /\ p.eligibility = EligibilityOf[row.eligibility] /\ p.basis = row.basis
         /\ p.duration = row.duration /\ p.count = row.count /\ p.missed = row.missed
         /\ p.extension = row.extension /\ p.benefit = row.benefit /\ p.terms = row.terms
         /\ p.qualification = row.qualification /\ p.onMiss = row.onMiss
         /\ p.charges = row.charges /\ p.post = row.post
  BY DEF Policy

\* The policy of a row of schema 1 has no benefit and counts the months.
LEMMA PolicyOfOne ==
  ASSUME NEW row \in ConfigurationRows, row.schema = 1, NEW p, p = Policy(row)
  PROVE  /\ p.accumulation = row.accumulation /\ p.amounts = row.amounts
         /\ p.required = (row.instalments = "MONTHLY_COMPLETION")
         /\ p.limit = (IF row.frequency = "FLEXIBLE" THEN "FLEXIBLE" ELSE "ONCE_PER_PERIOD")
         /\ p.eligibility = EligibilityOf[row.eligibility]
         /\ p.basis = (IF row.instalments = "MONTHLY_COMPLETION" THEN row.basis
                       ELSE IF row.frequency = "ONCE_PER_MONTH" THEN "CALENDAR_MONTH" ELSE NoValue)
         /\ p.duration = row.months
         /\ p.count = (IF row.instalments = "MONTHLY_COMPLETION" THEN row.months ELSE NoValue)
         /\ p.missed = row.missed
         /\ p.extension = (IF row.instalments = "MONTHLY_COMPLETION" THEN row.extension ELSE NoValue)
         /\ p.benefit = row.benefit /\ p.terms = FALSE /\ p.qualification = "NONE"
         /\ p.onMiss = "NONE" /\ p.charges = FALSE /\ p.post = row.post
  BY DEF Policy

\* What the table's constraints admit of schema 2, the validation accepts.
LEMMA StoredTwoIsValid ==
  ASSUME NEW row \in ConfigurationRows, row.schema = 2,
         PeriodShape(row), ObligationShape(row), BenefitShape(row)
  PROVE  ValidPolicy(Policy(row))
<1>1. PICK p : p = Policy(row)
  OBVIOUS
<1>2. /\ row.eligibility \in {"CALENDAR", "CALENDAR_AND_COUNT", "COUNT", "ANYTIME"}
      /\ row.instalments \in {"NONE", "MONTHLY_COMPLETION"}
      /\ row.benefit \in {"NONE", "INR_PURCHASE_BONUS", "VA_DISCOUNT"}
      /\ row.terms \in BOOLEAN /\ row.charges \in BOOLEAN /\ row.post \in BOOLEAN
  BY FieldsTyped
<1>3. /\ p.accumulation = row.accumulation /\ p.amounts = row.amounts
      /\ p.required = (row.instalments = "MONTHLY_COMPLETION")
      /\ p.limit = (IF row.frequency = "FLEXIBLE" THEN "FLEXIBLE" ELSE "ONCE_PER_PERIOD")
      /\ p.eligibility = EligibilityOf[row.eligibility] /\ p.basis = row.basis
      /\ p.duration = row.duration /\ p.count = row.count /\ p.missed = row.missed
      /\ p.extension = row.extension /\ p.benefit = row.benefit /\ p.terms = row.terms
      /\ p.qualification = row.qualification /\ p.onMiss = row.onMiss
      /\ p.charges = row.charges /\ p.post = row.post
  BY <1>1, PolicyOfTwo
<1>4. (p.eligibility \in {"DURATION", "DURATION_AND_COUNT"}) <=> (p.duration # NoValue)
  BY <1>2, <1>3, Eligibilities DEF PeriodShape
<1>5. (p.limit = "ONCE_PER_PERIOD") <=> (p.basis # NoValue)
  BY <1>3 DEF PeriodShape
<1>6. ObligationHolds(p)
  <2>1. CASE row.instalments = "NONE"
    BY <1>2, <1>3, <2>1, Eligibilities DEF ObligationShape, ObligationHolds, CountBased
  <2>2. CASE row.instalments = "MONTHLY_COMPLETION"
    <3>1. /\ row.amounts # "VARIABLE" /\ row.frequency = "ONCE_PER_PERIOD" /\ row.count # NoValue
          /\ \/ /\ row.eligibility \in {"COUNT", "CALENDAR_AND_COUNT"}
                /\ row.missed = "EXTEND_THEN_REVIEW" /\ row.extension = 3 /\ ~row.post
             \/ /\ row.eligibility = "CALENDAR" /\ row.missed = "LOSE_UNEARNED_BENEFIT"
                /\ row.extension = NoValue /\ row.benefit # "NONE" /\ row.onMiss = "DISQUALIFY_UNEARNED"
      BY <2>2 DEF ObligationShape
    <3>2. p.required /\ p.limit = "ONCE_PER_PERIOD" /\ p.basis # NoValue
      BY <1>3, <1>5, <2>2, <3>1
    <3>3. CASE row.eligibility \in {"COUNT", "CALENDAR_AND_COUNT"}
      <4>1. p.eligibility \in {"COUNT", "DURATION_AND_COUNT"}
        BY <1>3, <3>3, Eligibilities
      <4>2. p.missed = "EXTEND_THEN_REVIEW" /\ p.extension = 3 /\ ~p.post
        BY <1>3, <3>1, <3>3
      <4> QED  BY <1>3, <3>1, <3>2, <4>1, <4>2 DEF ObligationHolds, CountBased
    <3>4. CASE row.eligibility = "CALENDAR"
      <4>1. p.eligibility = "DURATION"
        BY <1>3, <3>4, Eligibilities
      <4> QED  BY <1>3, <3>1, <3>2, <3>4, <4>1 DEF ObligationHolds, CountBased
    <3> QED  BY <3>1, <3>3, <3>4
  <2> QED  BY <1>2, <2>1, <2>2
<1>7. BenefitHolds(p)
  BY <1>2, <1>3 DEF BenefitShape, BenefitHolds
<1> QED  BY <1>1, <1>4, <1>5, <1>6, <1>7 DEF ValidPolicy

\* What the table's constraints admit of schema 1, the validation accepts.
LEMMA StoredOneIsValid ==
  ASSUME NEW row \in ConfigurationRows, row.schema = 1, LegacyShape(row)
  PROVE  Readable(row) /\ ValidPolicy(Policy(row)) /\ LegacySupported(Policy(row))
<1>1. PICK p : p = Policy(row)
  OBVIOUS
<1>2. /\ p.accumulation = row.accumulation /\ p.amounts = row.amounts
      /\ p.required = (row.instalments = "MONTHLY_COMPLETION")
      /\ p.limit = (IF row.frequency = "FLEXIBLE" THEN "FLEXIBLE" ELSE "ONCE_PER_PERIOD")
      /\ p.eligibility = EligibilityOf[row.eligibility]
      /\ p.basis = (IF row.instalments = "MONTHLY_COMPLETION" THEN row.basis
                    ELSE IF row.frequency = "ONCE_PER_MONTH" THEN "CALENDAR_MONTH" ELSE NoValue)
      /\ p.duration = row.months
      /\ p.count = (IF row.instalments = "MONTHLY_COMPLETION" THEN row.months ELSE NoValue)
      /\ p.missed = row.missed
      /\ p.extension = (IF row.instalments = "MONTHLY_COMPLETION" THEN row.extension ELSE NoValue)
      /\ p.benefit = row.benefit /\ p.terms = FALSE /\ p.qualification = "NONE"
      /\ p.onMiss = "NONE" /\ p.charges = FALSE /\ p.post = row.post
  BY <1>1 DEF Policy
<1>3. row.post \in BOOLEAN
  BY FieldsTyped
<1>4. CASE row.instalments = "NONE"
  <2>1. p.eligibility = "DURATION" /\ p.duration # NoValue
    BY <1>2, <1>4, Eligibilities DEF LegacyShape
  <2>2. (p.limit = "ONCE_PER_PERIOD") <=> (p.basis # NoValue)
    BY <1>2, <1>4, NoValueAssumption DEF LegacyShape
  <2>3. ObligationHolds(p)
    BY <1>2, <1>4, <2>1 DEF LegacyShape, ObligationHolds, CountBased
  <2>4. BenefitHolds(p) /\ LegacySupported(p)
    BY <1>2, <1>4, <2>1, NoValueAssumption DEF LegacyShape, BenefitHolds, LegacySupported
  <2>5. Readable(row)
    BY <1>4 DEF LegacyShape, Readable
  <2> QED  BY <1>1, <2>1, <2>2, <2>3, <2>4, <2>5 DEF ValidPolicy
<1>5. CASE row.instalments = "MONTHLY_COMPLETION"
  <2>1. p.eligibility = "DURATION_AND_COUNT" /\ p.duration # NoValue /\ p.count = p.duration
    BY <1>2, <1>5, Eligibilities DEF LegacyShape
  <2>2. p.limit = "ONCE_PER_PERIOD" /\ p.basis # NoValue
    BY <1>2, <1>5, NoValueAssumption DEF LegacyShape
  <2>3. ObligationHolds(p)
    BY <1>2, <1>3, <1>5, <2>1, <2>2 DEF LegacyShape, ObligationHolds, CountBased
  <2>4. BenefitHolds(p) /\ LegacySupported(p)
    BY <1>2, <1>5, <2>1 DEF LegacyShape, BenefitHolds, LegacySupported
  <2>5. Readable(row)
    BY <1>5 DEF LegacyShape, Readable
  <2> QED  BY <1>1, <2>1, <2>2, <2>3, <2>4, <2>5 DEF ValidPolicy
<1> QED  BY <1>4, <1>5 DEF LegacyShape

\* What the validation accepts of schema 2, the table's constraints admit.
LEMMA ValidTwoIsStored ==
  ASSUME NEW row \in ConfigurationRows, row.schema = 2, row.frequency # "ONCE_PER_MONTH",
         ValidPolicy(Policy(row))
  PROVE  PeriodShape(row) /\ ObligationShape(row) /\ BenefitShape(row)
<1>1. PICK p : p = Policy(row)
  OBVIOUS
<1>2. /\ row.eligibility \in {"CALENDAR", "CALENDAR_AND_COUNT", "COUNT", "ANYTIME"}
      /\ row.instalments \in {"NONE", "MONTHLY_COMPLETION"}
      /\ row.frequency \in {"FLEXIBLE", "ONCE_PER_PERIOD"}
      /\ row.benefit \in {"NONE", "INR_PURCHASE_BONUS", "VA_DISCOUNT"}
      /\ row.terms \in BOOLEAN /\ row.charges \in BOOLEAN /\ row.post \in BOOLEAN
  BY FieldsTyped
<1>3. /\ p.accumulation = row.accumulation /\ p.amounts = row.amounts
      /\ p.required = (row.instalments = "MONTHLY_COMPLETION")
      /\ p.limit = (IF row.frequency = "FLEXIBLE" THEN "FLEXIBLE" ELSE "ONCE_PER_PERIOD")
      /\ p.eligibility = EligibilityOf[row.eligibility] /\ p.basis = row.basis
      /\ p.duration = row.duration /\ p.count = row.count /\ p.missed = row.missed
      /\ p.extension = row.extension /\ p.benefit = row.benefit /\ p.terms = row.terms
      /\ p.qualification = row.qualification /\ p.onMiss = row.onMiss
      /\ p.charges = row.charges /\ p.post = row.post
  BY <1>1, PolicyOfTwo
<1>4. /\ (p.eligibility \in {"DURATION", "DURATION_AND_COUNT"}) <=> (p.duration # NoValue)
      /\ (p.limit = "ONCE_PER_PERIOD") <=> (p.basis # NoValue)
      /\ ObligationHolds(p) /\ BenefitHolds(p)
  BY <1>1 DEF ValidPolicy
<1>5. PeriodShape(row)
  BY <1>2, <1>3, <1>4, Eligibilities DEF PeriodShape
<1>6. ObligationShape(row)
  <2>1. CASE row.instalments = "NONE"
    <3>1. ~p.required
      BY <1>3, <2>1
    <3>2. /\ ~CountBased(p) /\ p.count = NoValue
          /\ p.missed = "NONE" /\ p.extension = NoValue /\ p.onMiss = "NONE"
      BY <1>4, <3>1 DEF ObligationHolds
    <3>3. row.eligibility \in {"CALENDAR", "ANYTIME"}
      BY <1>2, <1>3, <3>2, Eligibilities DEF CountBased
    <3> QED  BY <1>3, <2>1, <3>2, <3>3 DEF ObligationShape
  <2>2. CASE row.instalments = "MONTHLY_COMPLETION"
    <3>1. p.required
      BY <1>3, <2>2
    <3>2. /\ p.amounts # "VARIABLE" /\ p.limit = "ONCE_PER_PERIOD" /\ p.count # NoValue
          /\ p.eligibility # "ANYTIME"
          /\ CountBased(p) => p.missed = "EXTEND_THEN_REVIEW" /\ p.extension = 3 /\ ~p.post
          /\ p.eligibility = "DURATION" =>
               /\ p.missed = "LOSE_UNEARNED_BENEFIT" /\ p.extension = NoValue
               /\ p.benefit # "NONE" /\ p.onMiss = "DISQUALIFY_UNEARNED"
      BY <1>4, <3>1 DEF ObligationHolds
    <3>3. row.frequency = "ONCE_PER_PERIOD"
      BY <1>2, <1>3, <3>2
    <3>4. CASE row.eligibility \in {"COUNT", "CALENDAR_AND_COUNT"}
      <4>1. CountBased(p)
        BY <1>3, <3>4, Eligibilities DEF CountBased
      <4> QED  BY <1>3, <2>2, <3>2, <3>3, <3>4, <4>1 DEF ObligationShape
    <3>5. CASE row.eligibility = "CALENDAR"
      <4>1. p.eligibility = "DURATION"
        BY <1>3, <3>5, Eligibilities
      <4> QED  BY <1>3, <2>2, <3>2, <3>3, <3>5, <4>1 DEF ObligationShape
    <3>6. row.eligibility # "ANYTIME"
      BY <1>3, <3>2, Eligibilities
    <3> QED  BY <1>2, <3>4, <3>5, <3>6
  <2> QED  BY <1>2, <2>1, <2>2
<1>7. BenefitShape(row)
  <2>1. CASE row.benefit = "NONE"
    BY <1>3, <1>4, <2>1 DEF BenefitHolds, BenefitShape
  <2>2. CASE row.benefit # "NONE"
    <3>1. /\ row.terms
          /\ row.qualification = (IF p.required THEN "REQUIRED_SCHEDULE" ELSE "NORMAL_ELIGIBILITY")
          /\ p.required => row.onMiss # "NONE"
          /\ IF row.benefit = "INR_PURCHASE_BONUS"
             THEN row.accumulation = "INR_PURCHASE_CREDIT" /\ ~row.charges
             ELSE row.charges
      BY <1>3, <1>4, <2>2 DEF BenefitHolds
    <3>2. p.required \/ row.onMiss = "NONE"
      BY <1>3, <1>4 DEF ObligationHolds
    <3>3. p.required <=> row.instalments = "MONTHLY_COMPLETION"
      BY <1>3
    <3> QED  BY <1>2, <2>2, <3>1, <3>2, <3>3 DEF BenefitShape
  <2> QED  BY <2>1, <2>2
<1> QED  BY <1>5, <1>6, <1>7

\* A row the table keeps is one the validation accepts.
LEMMA StoredIsOperational ==
  ASSUME NEW row \in ConfigurationRows, Storable(row)
  PROVE  Operational(row)
<1>1. row.schema \in {1, 2}
  BY FieldsTyped
<1>2. CASE row.schema = 1
  <2>1. LegacyShape(row)
    BY <1>2 DEF Storable
  <2> QED  BY <1>2, <2>1, StoredOneIsValid DEF Operational
<1>3. CASE row.schema = 2
  <2>1. PeriodShape(row) /\ ObligationShape(row) /\ BenefitShape(row)
    BY <1>3 DEF Storable
  <2>2. ValidPolicy(Policy(row))
    BY <1>3, <2>1, StoredTwoIsValid
  <2>3. Readable(row)
    BY <1>3 DEF Readable
  <2> QED  BY <1>3, <2>2, <2>3 DEF Operational
<1> QED  BY <1>1, <1>2, <1>3

\* The two descriptions of a policy, compared for any row.
LEMMA RowsAgree ==
  ASSUME NEW row \in ConfigurationRows
  PROVE  /\ Storable(row) => Operational(row)
         /\ (/\ Operational(row) /\ row.schema = 2 /\ AmountShape(row)
             /\ row.months = NoValue /\ row.frequency # "ONCE_PER_MONTH") => Storable(row)
<1>1. Storable(row) => Operational(row)
  BY StoredIsOperational
<1>2. ASSUME Operational(row), row.schema = 2, AmountShape(row), row.months = NoValue,
             row.frequency # "ONCE_PER_MONTH"
      PROVE  Storable(row)
  <2>1. ValidPolicy(Policy(row))
    BY <1>2 DEF Operational
  <2>2. PeriodShape(row) /\ ObligationShape(row) /\ BenefitShape(row)
    BY <1>2, <2>1, ValidTwoIsStored
  <2> QED  BY <1>2, <2>2 DEF Storable
<1> QED  BY <1>1, <1>2

\* What an agreement keeps, whatever it takes.
LEMMA TermsOfAny ==
  ASSUME NEW row \in ConfigurationRows, NEW selected, NEW grade, NEW a, a = Terms(row, selected, grade)
  PROVE  /\ a.schema = row.schema /\ a.grade = grade /\ a.months = Policy(row).duration
         /\ a.mode = (IF row.accumulation = "INR_PURCHASE_CREDIT" THEN "INR_CREDIT" ELSE "GOLD")
  BY DEF Terms

\* What an agreement of variable amounts keeps.
LEMMA TermsOfVariable ==
  ASSUME NEW row \in ConfigurationRows, NEW selected, NEW grade, NEW a, a = Terms(row, selected, grade),
         row.amounts = "VARIABLE"
  PROVE  /\ a.rule = "VARIABLE" /\ a.fixed = NoValue /\ a.minimum = row.minimum
         /\ a.maximum = row.maximum /\ a.step = row.step
  BY DEF Terms

\* What an agreement of one amount keeps.
LEMMA TermsOfFixed ==
  ASSUME NEW row \in ConfigurationRows, NEW selected, NEW grade, NEW a, a = Terms(row, selected, grade),
         row.amounts # "VARIABLE"
  PROVE  /\ a.rule = "FIXED"
         /\ a.fixed = (IF row.amounts = "PLAN_FIXED" THEN row.fixed ELSE selected)
         /\ a.minimum = a.fixed /\ a.maximum = a.fixed /\ a.step = NoValue
  BY DEF Terms

\* What an agreement of schema 2 keeps of the policy.
LEMMA TermsOfTwo ==
  ASSUME NEW row \in ConfigurationRows, NEW selected, NEW grade, NEW a, a = Terms(row, selected, grade),
         row.schema = 2
  PROVE  /\ a.eligibility = Policy(row).eligibility /\ a.count = Policy(row).count
         /\ a.frequency = Policy(row).limit
  BY DEF Terms

\* The amount an agreement fixes is one its configuration allows.
LEMMA FixedIsAllowed ==
  ASSUME NEW row \in ConfigurationRows, AmountShape(row), row.amounts # "VARIABLE",
         NEW selected \in Nat \cup {NoValue}, NEW grade, TermsResolve(row, selected, grade),
         NEW a, a = Terms(row, selected, grade)
  PROVE  a.fixed \in Nat /\ AmountAllowed(row, a.fixed)
<1>1. a.fixed = (IF row.amounts = "PLAN_FIXED" THEN row.fixed ELSE selected)
  BY TermsOfFixed
<1>2. CASE row.amounts = "PLAN_FIXED"
  <2>1. /\ row.fixed \in Nat /\ row.minimum = row.fixed /\ row.maximum = row.fixed
        /\ row.step = NoValue
    BY <1>2, FieldsTyped DEF AmountShape
  <2> QED  BY <1>1, <1>2, <2>1 DEF AmountAllowed
<1>3. CASE row.amounts # "PLAN_FIXED"
  <2>1. row.amounts = "CUSTOMER_FIXED"
    BY <1>3, FieldsTyped
  <2>2. selected # NoValue /\ AmountAllowed(row, selected)
    BY <2>1 DEF TermsResolve
  <2> QED  BY <1>1, <1>3, <2>2
<1> QED  BY <1>2, <1>3

\* An agreement meets the constraints of its own table.
LEMMA AgreementIsStorable ==
  ASSUME NEW row \in ConfigurationRows, Operational(row), Storable(row),
         NEW selected \in Nat \cup {NoValue}, NEW grade \in Grades \cup {NoValue},
         TermsResolve(row, selected, grade), NEW a, a = Terms(row, selected, grade)
  PROVE  AgreementStorable(a)
<1>1. PICK p : p = Policy(row)
  OBVIOUS
<1>2. /\ row.schema \in {1, 2} /\ row.instalments \in {"NONE", "MONTHLY_COMPLETION"}
      /\ row.eligibility \in {"CALENDAR", "CALENDAR_AND_COUNT", "COUNT", "ANYTIME"}
      /\ row.minimum \in Nat
  BY FieldsTyped
<1>3. ValidPolicy(p) /\ AmountShape(row)
  BY <1>1 DEF Operational, Storable
<1>4. a.schema = row.schema /\ a.months = p.duration
  BY <1>1, TermsOfAny
<1>5. /\ IF a.schema = 1
         THEN a.months # NoValue /\ a.eligibility = "" /\ a.count = NoValue
         ELSE CASE a.eligibility = "DURATION" -> a.months # NoValue
                [] a.eligibility = "DURATION_AND_COUNT" -> a.months # NoValue /\ a.count # NoValue
                [] a.eligibility = "COUNT" -> a.months = NoValue /\ a.count # NoValue
                [] a.eligibility = "ANYTIME" -> a.months = NoValue /\ a.count = NoValue
      /\ a.frequency \in (IF a.schema = 2 THEN {"FLEXIBLE", "ONCE_PER_PERIOD"}
                          ELSE {"FLEXIBLE", "ONCE_PER_MONTH"})
  <2>1. CASE row.schema = 1
    <3>1. p.duration = row.months /\ p.required = (row.instalments = "MONTHLY_COMPLETION")
      BY <1>1, <2>1, PolicyOfOne
    <3>2. row.months # NoValue /\ (row.instalments = "NONE" => row.frequency \in {"ONCE_PER_MONTH", "FLEXIBLE"})
      BY <2>1 DEF Storable, LegacyShape
    <3>3. /\ a.eligibility = "" /\ a.count = NoValue
          /\ a.frequency = (IF p.required THEN "FLEXIBLE" ELSE row.frequency)
      <4>1. /\ a.eligibility = "" /\ a.count = NoValue
            /\ a.frequency = (IF Policy(row).required THEN "FLEXIBLE" ELSE row.frequency)
        <5>1. row.schema # 2
          BY <2>1
        <5> QED  BY <5>1, Zenon DEF Terms
      <4> QED  BY <1>1, <4>1, Zenon
    <3>4. a.frequency \in {"FLEXIBLE", "ONCE_PER_MONTH"}
      BY <1>2, <3>1, <3>2, <3>3
    <3>5. a.schema = 1 /\ a.months # NoValue
      BY <1>4, <2>1, <3>1, <3>2
    <3>6. IF a.schema = 1
          THEN a.months # NoValue /\ a.eligibility = "" /\ a.count = NoValue
          ELSE CASE a.eligibility = "DURATION" -> a.months # NoValue
                 [] a.eligibility = "DURATION_AND_COUNT" -> a.months # NoValue /\ a.count # NoValue
                 [] a.eligibility = "COUNT" -> a.months = NoValue /\ a.count # NoValue
                 [] a.eligibility = "ANYTIME" -> a.months = NoValue /\ a.count = NoValue
      BY <3>3, <3>5, Zenon
    <3>7. a.schema # 2
      BY <3>5
    <3> QED  BY <3>4, <3>6, <3>7
  <2>2. CASE row.schema = 2
    <3>1. /\ p.eligibility = EligibilityOf[row.eligibility]
          /\ p.limit = (IF row.frequency = "FLEXIBLE" THEN "FLEXIBLE" ELSE "ONCE_PER_PERIOD")
      BY <1>1, <2>2, PolicyOfTwo
    <3>2. p.eligibility \in {"DURATION", "DURATION_AND_COUNT", "COUNT", "ANYTIME"}
      BY <1>2, <3>1, Eligibilities
    <3>3. (p.eligibility \in {"DURATION", "DURATION_AND_COUNT"}) <=> (p.duration # NoValue)
      BY <1>3 DEF ValidPolicy
    <3>4. ObligationHolds(p)
      BY <1>3 DEF ValidPolicy
    <3>5. /\ p.eligibility \in {"DURATION_AND_COUNT", "COUNT"} => p.count # NoValue
          /\ p.eligibility = "ANYTIME" => p.count = NoValue
      BY <3>4 DEF ObligationHolds, CountBased
    <3>6. a.eligibility = p.eligibility /\ a.count = p.count /\ a.frequency = p.limit
      BY <1>1, <2>2, TermsOfTwo
    <3>7. a.frequency \in {"FLEXIBLE", "ONCE_PER_PERIOD"}
      BY <3>1, <3>6
    <3>8. CASE a.eligibility = "DURATION"
      BY <1>4, <2>2, <3>3, <3>6, <3>7, <3>8
    <3>9. CASE a.eligibility = "DURATION_AND_COUNT"
      BY <1>4, <2>2, <3>3, <3>5, <3>6, <3>7, <3>9
    <3>10. CASE a.eligibility = "COUNT"
      BY <1>4, <2>2, <3>3, <3>5, <3>6, <3>7, <3>10
    <3>11. CASE a.eligibility = "ANYTIME"
      BY <1>4, <2>2, <3>3, <3>5, <3>6, <3>7, <3>11
    <3> QED  BY <3>2, <3>6, <3>8, <3>9, <3>10, <3>11
  <2> QED  BY <1>2, <2>1, <2>2
<1>6. /\ a.maximum # NoValue => a.maximum >= a.minimum
      /\ IF a.rule = "VARIABLE" THEN a.fixed = NoValue
         ELSE /\ a.fixed # NoValue /\ a.minimum = a.fixed /\ a.maximum = a.fixed
              /\ a.step = NoValue
  <2>1. CASE row.amounts = "VARIABLE"
    <3>1. a.rule = "VARIABLE" /\ a.fixed = NoValue /\ a.minimum = row.minimum /\ a.maximum = row.maximum
      BY <2>1, TermsOfVariable
    <3>2. row.maximum # NoValue => row.maximum >= row.minimum
      BY <1>3 DEF AmountShape
    <3> QED  BY <3>1, <3>2
  <2>2. CASE row.amounts # "VARIABLE"
    <3>1. a.rule = "FIXED" /\ a.minimum = a.fixed /\ a.maximum = a.fixed /\ a.step = NoValue
      BY <2>2, TermsOfFixed
    <3>2. a.fixed \in Nat
      BY <1>3, <2>2, FixedIsAllowed
    <3> QED  BY <3>1, <3>2, NoValueAssumption
  <2> QED  BY <2>1, <2>2
<1>7. (a.mode = "INR_CREDIT") <=> (a.grade = NoValue)
  <2>1. a.grade = grade /\ a.mode = (IF row.accumulation = "INR_PURCHASE_CREDIT" THEN "INR_CREDIT" ELSE "GOLD")
    BY TermsOfAny
  <2>2. IF row.accumulation = "INR_PURCHASE_CREDIT" THEN grade = NoValue ELSE grade \in Grades
    BY DEF TermsResolve
  <2> QED  BY <2>1, <2>2, NoValueAssumption
<1> QED  BY <1>5, <1>6, <1>7 DEF AgreementStorable

\* An agreement is what its configuration resolves to again.
LEMMA AgreementIsAgreed ==
  ASSUME NEW row \in ConfigurationRows, AmountShape(row),
         NEW selected \in Nat \cup {NoValue}, NEW grade,
         TermsResolve(row, selected, grade), NEW a, a = Terms(row, selected, grade)
  PROVE  StillAgreed(a, row)
<1>1. a.grade = grade
  BY TermsOfAny
<1>2. IF row.accumulation = "INR_PURCHASE_CREDIT" THEN grade = NoValue ELSE grade \in Grades
  BY DEF TermsResolve
<1>3. CASE row.amounts = "VARIABLE"
  <2>1. a.fixed = NoValue
    BY <1>3, TermsOfVariable
  <2>2. TermsResolve(row, a.fixed, a.grade)
    BY <1>1, <1>2, <1>3, <2>1 DEF TermsResolve
  <2>3. Terms(row, a.fixed, a.grade) = Terms(row, selected, grade)
    BY <1>1, <1>3 DEF Terms
  <2> QED  BY <2>2, <2>3 DEF StillAgreed
<1>4. CASE row.amounts # "VARIABLE"
  <2>1. a.fixed \in Nat /\ AmountAllowed(row, a.fixed)
    BY <1>4, FixedIsAllowed
  <2>2. TermsResolve(row, a.fixed, a.grade)
    BY <1>1, <1>2, <2>1, NoValueAssumption DEF TermsResolve
  <2>3. a.fixed = (IF row.amounts = "PLAN_FIXED" THEN row.fixed ELSE selected)
    BY <1>4, TermsOfFixed
  <2>4. Terms(row, a.fixed, a.grade) = Terms(row, selected, grade)
    BY <1>1, <1>4, <2>3 DEF Terms
  <2> QED  BY <2>2, <2>4 DEF StillAgreed
<1> QED  BY <1>3, <1>4

\* An agreement takes the amounts that were agreed, and no others.
LEMMA AgreementTakesAgreed ==
  ASSUME NEW row \in ConfigurationRows, AmountShape(row),
         NEW selected \in Nat \cup {NoValue}, NEW grade,
         TermsResolve(row, selected, grade), NEW a, a = Terms(row, selected, grade),
         NEW amount \in Nat
  PROVE  ContributionAmountAllowed(a, amount) <=>
             (AmountAllowed(row, amount) /\ (a.rule = "FIXED" => amount = a.fixed))
<1>1. CASE row.amounts = "VARIABLE"
  <2>1. /\ a.rule = "VARIABLE" /\ a.minimum = row.minimum /\ a.maximum = row.maximum
        /\ a.step = row.step
    BY <1>1, TermsOfVariable
  <2> QED  BY <1>1, <2>1 DEF ContributionAmountAllowed, AmountAllowed
<1>2. CASE row.amounts # "VARIABLE"
  <2>1. a.rule = "FIXED" /\ a.step = NoValue
    BY <1>2, TermsOfFixed
  <2>2. AmountAllowed(row, a.fixed)
    BY <1>2, FixedIsAllowed
  <2>3. ContributionAmountAllowed(a, amount) <=> amount = a.fixed
    BY <2>1 DEF ContributionAmountAllowed
  <2> QED  BY <2>1, <2>2, <2>3
<1> QED  BY <1>1, <1>2

\* All of it, of an agreement that is made.
LEMMA AgreementIsOperable ==
  ASSUME NEW row \in ConfigurationRows, Operational(row), Storable(row),
         NEW selected \in Nat \cup {NoValue}, NEW grade \in Grades \cup {NoValue},
         TermsResolve(row, selected, grade), NEW a, a = Agreement(row, selected, grade)
  PROVE  /\ AgreementStorable(a) /\ StillAgreed(a, row) /\ PaymentWorkflowOpen(a, row)
         /\ \A amount \in Nat :
               ContributionAmountAllowed(a, amount) <=>
                   (AmountAllowed(row, amount) /\ (a.rule = "FIXED" => amount = a.fixed))
<1>1. a = Terms(row, selected, grade)
  BY DEF Agreement
<1>2. AmountShape(row)
  BY DEF Storable
<1>3. AgreementStorable(a)
  BY <1>1, AgreementIsStorable
<1>4. StillAgreed(a, row)
  BY <1>1, <1>2, AgreementIsAgreed
<1>5. PaymentWorkflowOpen(a, row)
  <2>1. /\ a.schema = row.schema
        /\ a.mode = (IF row.accumulation = "INR_PURCHASE_CREDIT" THEN "INR_CREDIT" ELSE "GOLD")
    BY <1>1, TermsOfAny
  <2> QED  BY <2>1 DEF PaymentWorkflowOpen
<1>6. ASSUME NEW amount \in Nat
      PROVE  ContributionAmountAllowed(a, amount) <=>
                 (AmountAllowed(row, amount) /\ (a.rule = "FIXED" => amount = a.fixed))
  BY <1>1, <1>2, AgreementTakesAgreed
<1> QED  BY <1>3, <1>4, <1>5, <1>6

-----------------------------------------------------------------------------
(* Opening hours. *)

\* A set of numbers that is not empty has a least one.
LEMMA LeastOfNumbers ==
  ASSUME NEW S, S \subseteq Nat, S # {}
  PROVE  \E n \in S : \A m \in S : n <= m
<1>1. \E n \in S : \A m \in S : ~ (<<m, n>> \in OpToRel(<, Nat))
  BY NatLessThanWellFounded, WFMin
<1>2. PICK n \in S : \A m \in S : ~ (<<m, n>> \in OpToRel(<, Nat))
  BY <1>1
<1>3. \A m \in S : ~ (m < n)
  BY <1>2 DEF OpToRel
<1>4. \A m \in S : n <= m
  BY <1>3
<1> QED  BY <1>4

\* Counting the days from one weekday reaches each within a week.
LEMMA WeekTurns ==
  ASSUME NEW weekday \in Weekdays
  PROVE  /\ \A n \in Nat : (weekday + n) % 7 \in Weekdays
         /\ (weekday + 0) % 7 = weekday
         /\ \A w \in Weekdays : \E n \in 1 .. 7 : (weekday + n) % 7 = w
<1>1. weekday \in Nat /\ weekday < 7
  BY DEF Weekdays
<1>2. ASSUME NEW n \in Nat  PROVE (weekday + n) % 7 \in Weekdays
  BY <1>1 DEF Weekdays
<1>3. (weekday + 0) % 7 = weekday
  BY <1>1
<1>4. ASSUME NEW w \in Weekdays  PROVE \E n \in 1 .. 7 : (weekday + n) % 7 = w
  <2>1. w \in Nat /\ w < 7
    BY DEF Weekdays
  <2>2. CASE w > weekday
    <3>1. w - weekday \in 1 .. 7 /\ (weekday + (w - weekday)) % 7 = w
      BY <1>1, <2>1, <2>2
    <3> QED  BY <3>1
  <2>3. CASE w <= weekday
    <3>1. w - weekday + 7 \in 1 .. 7 /\ (weekday + (w - weekday + 7)) % 7 = w
      BY <1>1, <2>1, <2>3
    <3> QED  BY <3>1
  <2> QED  BY <1>1, <2>1, <2>2, <2>3
<1> QED  BY <1>2, <1>3, <1>4

\* The next opening that is computed while closed is the next one.
LEMMA NextOpeningFound ==
  ASSUME NEW hours \in [Weekdays -> Hours], NEW weekday \in Weekdays, NEW time \in 0 .. Closing,
         ~OpenAt(hours, weekday, time)
  PROVE  NextOpeningIsNext(hours, weekday, time, NextOpening(hours, weekday, time))
<1> USE ClosingAssumption
<1>1. PICK ahead : ahead = { n \in 0 .. 7 : /\ hours[(weekday + n) % 7].enabled
                                            /\ n = 0 => time < hours[weekday].opens }
  OBVIOUS
<1>2. PICK next : next = NextOpening(hours, weekday, time)
  OBVIOUS
<1>3. \A w \in Weekdays : /\ hours[w].enabled \in BOOLEAN /\ hours[w].opens \in 0 .. Closing
                          /\ hours[w].closes \in 0 .. Closing /\ hours[w].opens < hours[w].closes
  <2> TAKE w \in Weekdays
  <2>1. hours[w] \in Hours
    OBVIOUS
  <2> QED  BY <2>1 DEF Hours
<1>4. CASE ahead = {}
  <2>1. next = NoOpening
    BY <1>1, <1>2, <1>4 DEF NextOpening
  <2>2. \A w \in Weekdays : ~hours[w].enabled
    <3> TAKE w \in Weekdays
    <3>1. PICK n \in 1 .. 7 : (weekday + n) % 7 = w
      BY WeekTurns
    <3>2. n \in 0 .. 7 /\ n # 0 /\ n \notin ahead
      BY <1>4
    <3> QED  BY <1>1, <3>1, <3>2
  <2> QED  BY <1>2, <2>1, <2>2 DEF NextOpeningIsNext
<1>5. CASE ahead # {}
  <2>1. PICK first : first = CHOOSE n \in ahead : \A m \in ahead : n <= m
    OBVIOUS
  <2>2. ahead \subseteq Nat
    BY <1>1
  <2>3. first \in ahead /\ \A m \in ahead : first <= m
    BY <1>5, <2>1, <2>2, LeastOfNumbers
  <2>4. next = [ahead |-> first, time |-> hours[(weekday + first) % 7].opens]
    BY <1>1, <1>2, <1>5, <2>1 DEF NextOpening
  <2>5. first \in 0 .. 7 /\ hours[(weekday + first) % 7].enabled
    BY <1>1, <2>3
  <2>6. next # NoOpening
    BY <2>4, <2>5 DEF NoOpening
  <2>7. PICK w : w = (weekday + first) % 7
    OBVIOUS
  <2>8. w \in Weekdays
    BY <2>5, <2>7, WeekTurns
  <2>9. next.ahead = first /\ next.time = hours[w].opens
    BY <2>4, <2>7
  <2>10. OpenAt(hours, (weekday + next.ahead) % 7, next.time)
    BY <1>3, <2>5, <2>7, <2>8, <2>9 DEF OpenAt
  <2>11. ASSUME NEW n \in 0 .. next.ahead, NEW t \in 0 .. Closing,
                n = 0 => t >= time, n = next.ahead => t < next.time
         PROVE  ~OpenAt(hours, (weekday + n) % 7, t)
    <3>1. CASE n = first
      BY <1>3, <2>7, <2>8, <2>9, <2>11, <3>1 DEF OpenAt
    <3>2. CASE n # first
      <4>1. n \in 0 .. 7 /\ n < first
        BY <2>5, <2>9, <2>11, <3>2
      <4>2. n \notin ahead
        BY <2>3, <2>5, <4>1
      <4>3. CASE ~hours[(weekday + n) % 7].enabled
        BY <4>3 DEF OpenAt
      <4>4. CASE hours[(weekday + n) % 7].enabled
        <5>1. n = 0 /\ ~(time < hours[weekday].opens)
          BY <1>1, <4>1, <4>2, <4>4
        <5>2. (weekday + n) % 7 = weekday
          BY <5>1, WeekTurns
        <5>3. hours[weekday].enabled /\ hours[weekday].opens <= time
          BY <1>3, <4>4, <5>1, <5>2
        <5>4. hours[weekday].closes <= time
          BY <1>3, <5>3 DEF OpenAt
        <5>5. time <= t
          BY <2>11, <5>1
        <5>6. hours[weekday].closes <= t
          BY <1>3, <5>4, <5>5
        <5>7. ~(t < hours[weekday].closes)
          BY <1>3, <5>6
        <5> QED  BY <5>2, <5>7 DEF OpenAt
      <4> QED  BY <4>3, <4>4
    <3> QED  BY <3>1, <3>2
  <2> QED  BY <1>2, <2>6, <2>10, <2>11 DEF NextOpeningIsNext
<1> QED  BY <1>4, <1>5

\* Outside business hours a customer is told the next opening.
LEMMA AnswersKeepHours ==
  ASSUME NEW control, control.hours \in [Weekdays -> Hours], NEW grade, NEW rate,
         NEW weekday \in Weekdays, NEW time \in 0 .. Closing,
         NEW answer, answer = Availability(control, grade, rate, weekday, time),
         answer.code = "OUTSIDE_BUSINESS_HOURS"
  PROVE  NextOpeningIsNext(control.hours, weekday, time, answer.next)
<1>1. /\ ~OpenAt(control.hours, weekday, time)
      /\ answer.next = NextOpening(control.hours, weekday, time)
  BY DEF Availability, Blocked
<1> QED  BY <1>1, NextOpeningFound

-----------------------------------------------------------------------------
(* Dates: a date's month, counted from the first, decides its place, and its day *)
(* among the dates of one month.                                                 *)

MonthOf(d) == d.year * 12 + d.month

\* A month has 28 days at the least and 31 at the most.
LEMMA MonthsHaveDays ==
  ASSUME NEW y, NEW m
  PROVE  MonthDays(y, m) \in 28 .. 31
  BY DEF MonthDays

\* The fields of a date are numbers.
LEMMA DateFields ==
  ASSUME NEW d \in Dates
  PROVE  /\ d.year \in Nat /\ d.year >= 1 /\ d.month \in 1 .. 12 /\ d.day \in 1 .. 31
         /\ d.day <= MonthDays(d.year, d.month)
         /\ d = [year |-> d.year, month |-> d.month, day |-> d.day]
         /\ MonthOf(d) \in Nat /\ Ordinal(d) = MonthOf(d) * 32 + d.day /\ Ordinal(d) \in Nat
  BY DEF Dates, MonthOf, Ordinal

\* The order of dates.
LEMMA DateOrder ==
  ASSUME NEW a \in Dates, NEW b \in Dates
  PROVE  /\ MonthOf(a) < MonthOf(b) => Earlier(a, b)
         /\ MonthOf(a) = MonthOf(b) => (Earlier(a, b) <=> a.day < b.day)
         /\ Earlier(a, b) => MonthOf(a) <= MonthOf(b)
<1>1. PICK m, n, x, y : m = MonthOf(a) /\ n = MonthOf(b) /\ x = a.day /\ y = b.day
  OBVIOUS
<1>2. m \in Nat /\ n \in Nat /\ x \in 1 .. 31 /\ y \in 1 .. 31
  BY <1>1, DateFields
<1>3. Ordinal(a) = m * 32 + x /\ Ordinal(b) = n * 32 + y
  BY <1>1, DateFields
<1>4. Earlier(a, b) <=> m * 32 + x < n * 32 + y
  BY <1>3 DEF Earlier
<1>5. m < n => m * 32 + x < n * 32 + y
  BY <1>2
<1>6. n < m => ~(m * 32 + x < n * 32 + y)
  BY <1>2
<1>7. m = n => (m * 32 + x < n * 32 + y <=> x < y)
  BY <1>2
<1> QED  BY <1>1, <1>2, <1>4, <1>5, <1>6, <1>7

\* Dates of one month have its year and its place in it.
LEMMA SameMonth ==
  ASSUME NEW a \in Dates, NEW b \in Dates, MonthOf(a) = MonthOf(b)
  PROVE  a.year = b.year /\ a.month = b.month
<1>1. a.year \in Nat /\ b.year \in Nat /\ a.month \in 1 .. 12 /\ b.month \in 1 .. 12
  BY DateFields
<1> QED  BY <1>1 DEF MonthOf

\* Calendar months are added to the month, and keep to the day while there is one.
LEMMA MonthsAdded ==
  ASSUME NEW d \in Dates, NEW n \in Nat, NEW r, r = AddMonths(d, n)
  PROVE  /\ r \in Dates /\ MonthOf(r) = MonthOf(d) + n
         /\ r.day = (IF d.day <= MonthDays(r.year, r.month) THEN d.day ELSE MonthDays(r.year, r.month))
<1>1. PICK i, y, m : i = d.month - 1 + n /\ y = d.year + i \div 12 /\ m = (i % 12) + 1
  OBVIOUS
<1>2. d.year \in Nat /\ d.year >= 1 /\ d.month \in 1 .. 12 /\ d.day \in 1 .. 31
  BY DateFields
<1>3. i \in Nat
  BY <1>1, <1>2
<1>4. y \in Nat /\ y >= 1 /\ m \in 1 .. 12 /\ y * 12 + m = d.year * 12 + d.month + n
  BY <1>1, <1>2, <1>3
<1>5. PICK k : k = MonthDays(y, m)
  OBVIOUS
<1>6. k \in 28 .. 31
  BY <1>5, MonthsHaveDays
<1>7. PICK x : x = IF d.day <= k THEN d.day ELSE k
  OBVIOUS
<1>8. x \in 1 .. 31 /\ x <= k
  BY <1>2, <1>6, <1>7
<1>9. r = [year |-> y, month |-> m, day |-> x]
  BY <1>1, <1>5, <1>7 DEF AddMonths, Date
<1>10. r.year = y /\ r.month = m /\ r.day = x
  BY <1>9
<1>11. r \in Dates
  BY <1>4, <1>5, <1>8, <1>9 DEF Dates
<1>12. MonthOf(r) = MonthOf(d) + n
  BY <1>4, <1>10 DEF MonthOf
<1> QED  BY <1>5, <1>7, <1>10, <1>11, <1>12

\* An agreement that starts no earlier is eligible no earlier.
LEMMA LaterIsNoEarlier ==
  ASSUME NEW d \in Dates, NEW e \in Dates, ~Earlier(e, d), NEW n \in Nat
  PROVE  ~Earlier(AddMonths(e, n), AddMonths(d, n))
<1>1. PICK r, s : r = AddMonths(d, n) /\ s = AddMonths(e, n)
  OBVIOUS
<1>2. /\ r \in Dates /\ MonthOf(r) = MonthOf(d) + n
      /\ r.day = (IF d.day <= MonthDays(r.year, r.month) THEN d.day ELSE MonthDays(r.year, r.month))
  BY <1>1, MonthsAdded
<1>3. /\ s \in Dates /\ MonthOf(s) = MonthOf(e) + n
      /\ s.day = (IF e.day <= MonthDays(s.year, s.month) THEN e.day ELSE MonthDays(s.year, s.month))
  BY <1>1, MonthsAdded
<1>4. MonthOf(d) \in Nat /\ MonthOf(e) \in Nat /\ d.day \in 1 .. 31 /\ e.day \in 1 .. 31
  BY DateFields
<1>5. ~(MonthOf(e) < MonthOf(d))
  BY DateOrder
<1>6. CASE MonthOf(d) < MonthOf(e)
  <2>1. MonthOf(r) < MonthOf(s)
    BY <1>2, <1>3, <1>4, <1>6
  <2>2. ~(MonthOf(s) <= MonthOf(r))
    BY <1>2, <1>3, <1>4, <1>6
  <2>3. ~Earlier(s, r)
    BY <1>2, <1>3, <2>2, DateOrder
  <2> QED  BY <1>1, <2>3
<1>7. CASE MonthOf(d) = MonthOf(e)
  <2>1. MonthOf(r) = MonthOf(s)
    BY <1>2, <1>3, <1>7
  <2>2. ~(e.day < d.day)
    BY <1>7, DateOrder
  <2>3. r.year = s.year /\ r.month = s.month
    BY <1>2, <1>3, <2>1, SameMonth
  <2>4. PICK k : k = MonthDays(r.year, r.month)
    OBVIOUS
  <2>5. k \in 28 .. 31
    BY <2>4, MonthsHaveDays
  <2>6. ~(s.day < r.day)
    BY <1>2, <1>3, <1>4, <2>2, <2>3, <2>4, <2>5
  <2>7. ~Earlier(s, r)
    BY <1>2, <1>3, <2>1, <2>6, DateOrder
  <2> QED  BY <1>1, <2>7
<1> QED  BY <1>4, <1>5, <1>6, <1>7

\* The boundaries of the windows are dates, one in each month.
LEMMA BoundaryIsDate ==
  ASSUME NEW basis \in {"ANNIVERSARY", "CALENDAR_MONTH"}, NEW start \in Dates, NEW n \in Nat,
         NEW b, b = Boundary(basis, start, n)
  PROVE  b \in Dates /\ MonthOf(b) = MonthOf(start) + n
<1>1. MonthOf(start) \in Nat
  BY DateFields
<1>2. CASE basis = "ANNIVERSARY"
  <2>1. b = AddMonths(start, n)
    BY <1>2 DEF Boundary
  <2> QED  BY <2>1, MonthsAdded
<1>3. CASE basis = "CALENDAR_MONTH" /\ n = 0
  BY <1>1, <1>3 DEF Boundary
<1>4. CASE basis = "CALENDAR_MONTH" /\ n # 0
  <2>1. PICK first : first = [start EXCEPT !.day = 1]
    OBVIOUS
  <2>2. /\ start.year \in Nat /\ start.year >= 1 /\ start.month \in 1 .. 12
        /\ start = [year |-> start.year, month |-> start.month, day |-> start.day]
    BY DateFields
  <2>3. first = [year |-> start.year, month |-> start.month, day |-> 1]
    BY <2>1, <2>2
  <2>4. 1 <= MonthDays(start.year, start.month)
    BY MonthsHaveDays
  <2>5. first \in Dates
    BY <2>2, <2>3, <2>4 DEF Dates
  <2>6. MonthOf(first) = MonthOf(start)
    BY <2>3 DEF MonthOf
  <2>7. b = AddMonths(first, n)
    BY <1>4, <2>1 DEF Boundary
  <2>8. b \in Dates /\ MonthOf(b) = MonthOf(first) + n
    BY <2>5, <2>7, MonthsAdded
  <2> QED  BY <2>6, <2>8
<1> QED  BY <1>2, <1>3, <1>4

\* The boundaries of a schedule are in order.
LEMMA BoundariesInOrder ==
  ASSUME NEW basis \in {"ANNIVERSARY", "CALENDAR_MONTH"}, NEW start \in Dates,
         NEW m \in Nat, NEW n \in Nat
  PROVE  Earlier(Boundary(basis, start, m), Boundary(basis, start, n)) <=> m < n
<1>1. PICK a, b : a = Boundary(basis, start, m) /\ b = Boundary(basis, start, n)
  OBVIOUS
<1>2. a \in Dates /\ MonthOf(a) = MonthOf(start) + m
  BY <1>1, BoundaryIsDate
<1>3. b \in Dates /\ MonthOf(b) = MonthOf(start) + n
  BY <1>1, BoundaryIsDate
<1>4. MonthOf(start) \in Nat
  BY DateFields
<1>5. CASE m < n
  <2>1. MonthOf(a) < MonthOf(b)
    BY <1>2, <1>3, <1>4, <1>5
  <2> QED  BY <1>1, <1>2, <1>3, <1>5, <2>1, DateOrder
<1>6. CASE m = n
  <2>1. ~Earlier(a, a)
    <3>1. Ordinal(a) \in Nat
      BY <1>2, DateFields
    <3> QED  BY <3>1 DEF Earlier
  <2> QED  BY <1>1, <1>6, <2>1
<1>7. CASE m > n
  <2>1. ~(MonthOf(a) <= MonthOf(b))
    BY <1>2, <1>3, <1>4, <1>7
  <2>2. ~Earlier(a, b)
    BY <1>2, <1>3, <2>1, DateOrder
  <2> QED  BY <1>1, <1>7, <2>2
<1> QED  BY <1>5, <1>6, <1>7

\* w is the N windows of a schedule, by their boundaries.
Scheduled(w, N, basis, start) ==
  /\ DOMAIN w = 1 .. N
  /\ \A n \in 1 .. N : /\ w[n].starts = Boundary(basis, start, n - 1)
                       /\ w[n].ends = Boundary(basis, start, n)

\* The windows of a preview are a schedule.
LEMMA WindowsAre ==
  ASSUME NEW basis, NEW start, NEW required \in Nat \ {0}
  PROVE  Scheduled(Windows(basis, start, required, 3), required + 3, basis, start)
  BY DEF Windows, Scheduled

\* A boundary belongs to the window it starts, and to none if it starts none.
LEMMA BoundaryWindow ==
  ASSUME NEW basis \in {"ANNIVERSARY", "CALENDAR_MONTH"}, NEW start \in Dates, NEW N \in Nat,
         NEW w, DOMAIN w = 1 .. N,
         \A n \in 1 .. N : /\ w[n].starts = Boundary(basis, start, n - 1)
                           /\ w[n].ends = Boundary(basis, start, n),
         NEW k \in 0 .. N
  PROVE  WindowFor(w, Boundary(basis, start, k)) = (IF k < N THEN k + 1 ELSE 0)
<1>1. PICK day0 : day0 = Boundary(basis, start, k)
  OBVIOUS
<1>2. PICK hits : hits = { n \in DOMAIN w : ~Earlier(day0, w[n].starts) /\ Earlier(day0, w[n].ends) }
  OBVIOUS
<1>3. \A n \in 1 .. N : n \in hits <=> n = k + 1
  <2> TAKE n \in 1 .. N
  <2>1. Earlier(day0, w[n].starts) <=> k < n - 1
    <3>1. n - 1 \in Nat /\ k \in Nat /\ w[n].starts = Boundary(basis, start, n - 1)
      OBVIOUS
    <3> QED  BY <1>1, <3>1, BoundariesInOrder
  <2>2. Earlier(day0, w[n].ends) <=> k < n
    <3>1. n \in Nat /\ k \in Nat /\ w[n].ends = Boundary(basis, start, n)
      OBVIOUS
    <3> QED  BY <1>1, <3>1, BoundariesInOrder
  <2> QED  BY <1>2, <2>1, <2>2
<1>4. hits \subseteq 1 .. N
  BY <1>2
<1>5. CASE k < N
  <2>1. k + 1 \in 1 .. N
    BY <1>5
  <2>2. k + 1 \in hits /\ \A n \in hits : n = k + 1
    BY <1>3, <1>4, <2>1
  <2>3. PICK first : first = CHOOSE n \in hits : \A m \in hits : n <= m
    OBVIOUS
  <2>4. \E n \in hits : \A m \in hits : n <= m
    BY <2>2
  <2>5. first = k + 1
    BY <2>2, <2>3, <2>4
  <2>6. WindowFor(w, day0) = first
    BY <1>2, <2>2, <2>3 DEF WindowFor
  <2> QED  BY <1>1, <1>5, <2>5, <2>6
<1>6. CASE ~(k < N)
  <2>1. hits = {}
    BY <1>3, <1>4, <1>6
  <2> QED  BY <1>1, <1>2, <1>6, <2>1 DEF WindowFor
<1> QED  BY <1>5, <1>6

-----------------------------------------------------------------------------
(* Counting the windows a payment is assumed in. *)

\* A set of windows that is not empty has a last one.
LEMMA GreatestOfWindows ==
  ASSUME NEW N \in Nat, NEW S, S \subseteq 1 .. N, S # {}
  PROVE  \E n \in S : \A m \in S : m <= n
<1>1. PICK T : T = {N - s : s \in S}
  OBVIOUS
<1>2. T \subseteq Nat /\ T # {}
  <2>1. \A x \in S : N - x \in Nat
    OBVIOUS
  <2> QED  BY <1>1, <2>1
<1>3. PICK t \in T : \A u \in T : t <= u
  BY <1>2, LeastOfNumbers
<1>4. PICK n \in S : t = N - n
  BY <1>1, <1>3
<1>5. \A m \in S : m <= n
  <2> TAKE m \in S
  <2>1. t <= N - m
    BY <1>1, <1>3
  <2>2. n \in 1 .. N /\ m \in 1 .. N
    OBVIOUS
  <2> QED  BY <1>4, <2>1, <2>2
<1> QED  BY <1>5

\* How many of the first windows were not missed.
LEMMA NotMissed ==
  ASSUME NEW missed, NEW N \in Nat, NEW n \in 0 .. N, NEW f, NEW k,
         f = Cardinality((1 .. n) \ missed), k = Cardinality(missed \cap (1 .. N))
  PROVE  /\ IsFiniteSet((1 .. n) \ missed) /\ f \in Nat /\ k \in Nat
         /\ n - k <= f
<1>1. IsFiniteSet(1 .. n) /\ Cardinality(1 .. n) = n /\ IsFiniteSet(1 .. N)
  BY FS_Interval
<1>2. PICK A, B : A = (1 .. n) \cap missed /\ B = missed \cap (1 .. N)
  OBVIOUS
<1>3. A \subseteq B /\ B \subseteq 1 .. N
  BY <1>2
<1>4. IsFiniteSet(B)
  BY <1>1, <1>3, FS_Subset
<1>5. IsFiniteSet(A) /\ Cardinality(A) <= Cardinality(B)
  BY <1>3, <1>4, FS_Subset
<1>6. Cardinality(A) \in Nat /\ Cardinality(B) \in Nat
  BY <1>4, <1>5, FS_CardinalityType
<1>7. IsFiniteSet((1 .. n) \ missed) /\ f = n - Cardinality(A)
  BY <1>1, <1>2, FS_Difference
<1>8. f \in Nat
  BY <1>7, FS_CardinalityType
<1>9. k = Cardinality(B)
  BY <1>2
<1> QED  BY <1>3, <1>5, <1>6, <1>7, <1>8, <1>9

\* With four months missed there are not enough windows left; with fewer there are,
\* and the last one paid is as many months late as were missed, at the most.
LEMMA PaidWindows ==
  ASSUME NEW required \in Nat \ {0}, NEW N \in Nat, N = required + 3, NEW missed,
         NEW w, DOMAIN w = 1 .. N, NEW paid, paid = AssumedPaid(w, required, missed),
         NEW k, k = Cardinality(missed \cap (1 .. N))
  PROVE  /\ paid \subseteq 1 .. N /\ Cardinality(paid) \in Nat /\ k \in Nat
         /\ k > 3 => Cardinality(paid) < required
         /\ k <= 3 => /\ required <= Cardinality(paid)
                      /\ \A n \in paid : n <= required + k
<1>1. PICK U : U = (1 .. N) \ missed
  OBVIOUS
<1>2. paid = { n \in U : Cardinality((1 .. n - 1) \ missed) < required }
  BY <1>1 DEF AssumedPaid
<1>3. IsFiniteSet(U) /\ Cardinality(U) = N - k /\ k \in Nat
  <2>1. IsFiniteSet(1 .. N) /\ Cardinality(1 .. N) = N
    BY FS_Interval
  <2>2. PICK B : B = missed \cap (1 .. N)
    OBVIOUS
  <2>3. B \subseteq 1 .. N
    BY <2>2
  <2>4. IsFiniteSet(B) /\ Cardinality(B) \in Nat
    BY <2>1, <2>3, FS_Subset, FS_CardinalityType
  <2>5. (1 .. N) \cap missed = B
    BY <2>2
  <2>6. IsFiniteSet((1 .. N) \ missed) /\ Cardinality((1 .. N) \ missed) = N - Cardinality(B)
    BY <2>1, <2>5, FS_Difference
  <2> QED  BY <1>1, <2>2, <2>4, <2>6
<1>4. paid \subseteq U /\ U \subseteq 1 .. N
  BY <1>1, <1>2
<1>5. IsFiniteSet(paid) /\ Cardinality(paid) <= Cardinality(U) /\ Cardinality(paid) \in Nat
  BY <1>3, <1>4, FS_Subset, FS_CardinalityType
<1>6. k > 3 => Cardinality(paid) < required
  BY <1>3, <1>5
<1>7. ASSUME k <= 3  PROVE required <= Cardinality(paid)
  <2>1. CASE paid = U
    BY <1>3, <1>7, <2>1
  <2>2. CASE paid # U
    <3>1. PICK R : R = U \ paid
      OBVIOUS
    <3>2. R \subseteq Nat /\ R # {}
      <4>1. R # {}
        BY <1>4, <2>2, <3>1, Zenon
      <4>2. R \subseteq 1 .. N
        BY <1>4, <3>1
      <4> QED  BY <4>1, <4>2
    <3>3. PICK n \in R : \A m \in R : n <= m
      BY <3>2, LeastOfNumbers
    <3>4. n \in 1 .. N /\ n \in U /\ n \notin paid
      BY <1>4, <3>1
    <3>5. PICK A, f : A = (1 .. n - 1) \ missed /\ f = Cardinality(A)
      OBVIOUS
    <3>6. n - 1 \in 0 .. N
      BY <3>4
    <3>7. f \in Nat
      BY <3>5, <3>6, NotMissed
    <3>8. ~(f < required)
      BY <1>2, <3>4, <3>5
    <3>9. A \subseteq paid
      <4>1. SUFFICES ASSUME NEW m \in A, m \notin paid  PROVE FALSE
        OBVIOUS
      <4>2. m \in 1 .. n - 1 /\ m \notin missed
        BY <3>5
      <4>3. m \in 1 .. N /\ m < n
        BY <3>4, <4>2
      <4>4. m \in R
        BY <1>1, <3>1, <4>1, <4>2, <4>3
      <4>5. n <= m
        BY <3>3, <4>4
      <4> QED  BY <3>4, <4>3, <4>5
    <3>10. f <= Cardinality(paid)
      BY <1>5, <3>5, <3>9, FS_Subset
    <3> QED  BY <1>5, <3>7, <3>8, <3>10
  <2> QED  BY <2>1, <2>2
<1>8. ASSUME NEW n \in paid  PROVE n <= required + k
  <2>1. n \in 1 .. N
    BY <1>4
  <2>2. PICK f : f = Cardinality((1 .. n - 1) \ missed)
    OBVIOUS
  <2>3. f < required
    BY <1>2, <2>2
  <2>4. n - 1 \in 0 .. N
    BY <2>1
  <2>5. f \in Nat /\ (n - 1) - k <= f
    BY <2>2, <2>4, NotMissed
  <2> QED  BY <1>3, <2>1, <2>3, <2>5
<1> QED  BY <1>3, <1>4, <1>5, <1>6, <1>7, <1>8

-----------------------------------------------------------------------------
(* Previews of a schedule. *)

\* What is said of a window, of a completion and of the dates to choose from.
WindowKeeps(w, n, basis, start) ==
  /\ Earlier(w[n].starts, w[n].ends)
  /\ n > 1 => w[n].starts = w[n - 1].ends
  /\ WindowFor(w, w[n].starts) = n
  /\ WindowFor(w, w[n].ends) # n
  /\ basis = "ANNIVERSARY" =>
       LET d == w[n].starts
       IN d.day = (IF start.day <= MonthDays(d.year, d.month)
                   THEN start.day ELSE MonthDays(d.year, d.month))

CompletionKept(c, o, k, latest) ==
  IF k > 3 THEN c = NoDate
  ELSE c # NoDate /\ ~Earlier(c, o) /\ ~Earlier(Later(o, latest), c)

\* The windows follow each other, and keep to the day of the month agreed.
LEMMA WindowsKeep ==
  ASSUME NEW basis \in {"ANNIVERSARY", "CALENDAR_MONTH"}, NEW start \in Dates, NEW N \in Nat,
         NEW w, Scheduled(w, N, basis, start),
         NEW n \in 1 .. N
  PROVE  WindowKeeps(w, n, basis, start)
<1>1. n \in Nat /\ n - 1 \in Nat /\ n - 1 \in 0 .. N /\ n \in 0 .. N
  OBVIOUS
<1>2. w[n].starts = Boundary(basis, start, n - 1) /\ w[n].ends = Boundary(basis, start, n)
  BY DEF Scheduled
<1>3. Earlier(w[n].starts, w[n].ends)
  <2>1. n - 1 < n
    OBVIOUS
  <2> QED  BY <1>1, <1>2, <2>1, BoundariesInOrder
<1>4. n > 1 => w[n].starts = w[n - 1].ends
  <2>1. n > 1 => n - 1 \in 1 .. N
    OBVIOUS
  <2> QED  BY <1>2, <2>1 DEF Scheduled
<1>5. WindowFor(w, w[n].starts) = n
  <2>1. WindowFor(w, Boundary(basis, start, n - 1)) = (IF n - 1 < N THEN (n - 1) + 1 ELSE 0)
    BY <1>1, BoundaryWindow DEF Scheduled
  <2>2. n - 1 < N /\ (n - 1) + 1 = n
    OBVIOUS
  <2> QED  BY <1>2, <2>1, <2>2
<1>6. WindowFor(w, w[n].ends) # n
  <2>1. WindowFor(w, Boundary(basis, start, n)) = (IF n < N THEN n + 1 ELSE 0)
    BY <1>1, BoundaryWindow DEF Scheduled
  <2>2. n + 1 # n /\ 0 # n
    OBVIOUS
  <2> QED  BY <1>2, <2>1, <2>2
<1>7. ASSUME basis = "ANNIVERSARY", NEW d, d = w[n].starts
      PROVE  d.day = (IF start.day <= MonthDays(d.year, d.month)
                      THEN start.day ELSE MonthDays(d.year, d.month))
  <2>1. d = AddMonths(start, n - 1)
    BY <1>2, <1>7 DEF Boundary
  <2> QED  BY <1>1, <2>1, MonthsAdded
<1> QED  BY <1>3, <1>4, <1>5, <1>6, <1>7 DEF WindowKeeps

\* When a schedule is complete: on its original date if nothing is missed, a month
\* later for each of three misses at the most, never after a fourth.
LEMMA CompletionKeeps ==
  ASSUME NEW basis \in {"ANNIVERSARY", "CALENDAR_MONTH"}, NEW start \in Dates,
         NEW required \in Nat \ {0}, NEW missed,
         NEW w, Scheduled(w, required + 3, basis, start),
         NEW c, c = ProjectedCompletion(w, start, required, missed),
         NEW o, o = EligibilityDate(start, required),
         NEW k, k = Cardinality(missed \cap (1 .. required + 3))
  PROVE  CompletionKept(c, o, k, Boundary(basis, start, required + k))
<1> DEFINE latest == Boundary(basis, start, required + k)
<1>0. PICK N \in Nat : N = required + 3
  OBVIOUS
<1>1. PICK paid : paid = AssumedPaid(w, required, missed)
  OBVIOUS
<1>2. /\ paid \subseteq 1 .. N /\ Cardinality(paid) \in Nat /\ k \in Nat
      /\ k > 3 => Cardinality(paid) < required
      /\ k <= 3 => /\ required <= Cardinality(paid)
                   /\ \A n \in paid : n <= required + k
  <2>1. DOMAIN w = 1 .. N
    BY <1>0 DEF Scheduled
  <2>2. k = Cardinality(missed \cap (1 .. N))
    BY <1>0
  <2> QED  BY <1>0, <1>1, <2>1, <2>2, PaidWindows
<1>3. CASE k > 3
  BY <1>1, <1>2, <1>3 DEF ProjectedCompletion, CompletionKept
<1>4. CASE ~(k > 3)
  <2>1. required <= Cardinality(paid) /\ \A n \in paid : n <= required + k
    <3>1. k <= 3
      BY <1>2, <1>4
    <3> QED  BY <1>2, <3>1, Zenon
  <2>2. paid # {}
    <3>1. Cardinality({}) = 0
      BY FS_EmptySet
    <3>2. Cardinality(paid) # 0
      BY <1>2, <2>1
    <3> QED  BY <3>1, <3>2
  <2>3. PICK last : last = CHOOSE n \in paid : \A m \in paid : m <= n
    OBVIOUS
  <2>4. last \in paid
    BY <1>2, <2>2, <2>3, GreatestOfWindows
  <2>5. last \in 1 .. N /\ last <= required + k /\ required + k \in Nat /\ last \in Nat
    <3>1. last \in 1 .. N
      BY <1>2, <2>4
    <3>2. last <= required + k
      BY <2>1, <2>4, Zenon
    <3>3. required + k \in Nat
      BY <1>2
    <3>4. last \in Nat
      BY <3>1
    <3> QED  BY <3>1, <3>2, <3>3, <3>4
  <2>6. PICK e : e = w[last].ends
    OBVIOUS
  <2>7. e = Boundary(basis, start, last)
    BY <1>0, <2>5, <2>6 DEF Scheduled
  <2>8. c = Later(o, e)
    BY <1>1, <1>2, <2>1, <2>3, <2>6 DEF ProjectedCompletion
  <2>9. e \in Dates
    BY <2>5, <2>7, BoundaryIsDate
  <2>10. o \in Dates
    BY MonthsAdded DEF EligibilityDate
  <2>11. latest \in Dates
    BY <2>5, BoundaryIsDate
  <2>12. ~Earlier(latest, e)
    <3>1. ~(required + k < last)
      BY <2>5
    <3> QED  BY <2>5, <2>7, <3>1, BoundariesInOrder
  <2>13. c # NoDate
    <3>1. c \in Dates
      BY <2>8, <2>9, <2>10 DEF Later
    <3>2. c.month \in 1 .. 12
      BY <3>1, DateFields
    <3>3. NoDate.month = 0
      BY DEF NoDate, Date
    <3> QED  BY <3>2, <3>3
  <2>14. PICK x, y, z : x = Ordinal(o) /\ y = Ordinal(e) /\ z = Ordinal(latest)
    OBVIOUS
  <2>15. x \in Nat /\ y \in Nat /\ z \in Nat /\ ~(z < y)
    <3>1. x \in Nat /\ y \in Nat /\ z \in Nat
      BY <2>9, <2>10, <2>11, <2>14, DateFields
    <3> QED  BY <2>12, <2>14, <3>1 DEF Earlier
  <2>16. Ordinal(c) = IF x < y THEN y ELSE x
    BY <2>8, <2>14 DEF Later, Earlier
  <2>17. Ordinal(Later(o, latest)) = IF x < z THEN z ELSE x
    BY <2>14 DEF Later, Earlier
  <2>18. ~(Ordinal(c) < x) /\ ~(Ordinal(Later(o, latest)) < Ordinal(c))
    BY <2>15, <2>16, <2>17
  <2> QED  BY <1>4, <2>13, <2>14, <2>18 DEF Earlier, CompletionKept
<1> QED  BY <1>3, <1>4

\* The parts of a preview.
LEMMA PreviewIs ==
  ASSUME NEW basis, NEW start, NEW required, NEW missed, NEW p,
         p = Preview(basis, start, required, missed)
  PROVE  /\ p.basis = basis /\ p.start = start /\ p.required = required /\ p.missed = missed
         /\ p.windows = Windows(basis, start, required, 3)
         /\ p.original = EligibilityDate(start, required)
         /\ p.completion = ProjectedCompletion(Windows(basis, start, required, 3), start, required, missed)
         /\ p.review = (p.completion = NoDate)
  BY Zenon DEF Preview

\* Every preview keeps its dates.
LEMMA PreviewMatures ==
  ASSUME NEW basis \in Bases, NEW start \in Starts, NEW required \in Required, NEW missed,
         NEW p, p = Preview(basis, start, required, missed)
  PROVE  MaturesAsAgreed(p)
<1>1. /\ basis \in {"ANNIVERSARY", "CALENDAR_MONTH"} /\ start \in Dates /\ required \in Nat \ {0}
      /\ Starts \subseteq Dates
  BY ContractsAssumption
<1>2. PICK w, c, o, k :
        /\ w = Windows(basis, start, required, 3)
        /\ c = ProjectedCompletion(w, start, required, missed)
        /\ o = EligibilityDate(start, required)
        /\ k = Cardinality(missed \cap (1 .. required + 3))
  OBVIOUS
<1>3. /\ p.basis = basis /\ p.start = start /\ p.required = required /\ p.missed = missed
      /\ p.windows = w /\ p.original = o /\ p.completion = c
  BY <1>2, PreviewIs
<1>4. p.review <=> c = NoDate
  <2>1. p.review = (p.completion = NoDate)
    BY PreviewIs
  <2> QED  BY <1>3, <2>1, Zenon
<1>5. required + 3 \in Nat
  BY <1>1
<1>6. Scheduled(w, required + 3, basis, start)
  BY <1>1, <1>2, WindowsAre
<1>7. ASSUME NEW n \in 1 .. required + 3
      PROVE  WindowKeeps(w, n, basis, start)
  BY <1>1, <1>5, <1>6, <1>7, WindowsKeep
<1>8. CompletionKept(c, o, k, Boundary(basis, start, required + k))
  BY <1>1, <1>2, <1>6, CompletionKeeps
<1>9. ASSUME NEW later \in Starts, ~Earlier(later, start)
      PROVE  ~Earlier(EligibilityDate(later, required), o)
  BY <1>1, <1>2, <1>9, LaterIsNoEarlier DEF EligibilityDate
<1>10. DOMAIN p.windows = 1 .. required + 3
  BY <1>3, <1>6 DEF Scheduled
<1>11. \A n \in DOMAIN p.windows :
          /\ Earlier(p.windows[n].starts, p.windows[n].ends)
          /\ n > 1 => p.windows[n].starts = p.windows[n - 1].ends
          /\ WindowFor(p.windows, p.windows[n].starts) = n
          /\ WindowFor(p.windows, p.windows[n].ends) # n
          /\ p.basis = "ANNIVERSARY" =>
               LET d == p.windows[n].starts
               IN d.day = (IF p.start.day <= MonthDays(d.year, d.month)
                           THEN p.start.day ELSE MonthDays(d.year, d.month))
  BY <1>3, <1>7, <1>10 DEF WindowKeeps
<1>12. LET missing == p.missed \cap (1 .. p.required + 3)
           n == Cardinality(missing)
           latest == Boundary(p.basis, p.start, p.required + n)
       IN IF n > 3 THEN p.review
          ELSE /\ ~p.review
               /\ ~Earlier(p.completion, p.original)
               /\ ~Earlier(Later(p.original, latest), p.completion)
  <2>1. PICK n : n = Cardinality(p.missed \cap (1 .. p.required + 3))
    OBVIOUS
  <2>2. n = k
    BY <1>2, <1>3, <2>1
  <2>3. CompletionKept(p.completion, p.original, n, Boundary(p.basis, p.start, p.required + n))
    BY <1>3, <1>8, <2>2
  <2>4. p.review <=> p.completion = NoDate
    BY <1>3, <1>4
  <2>5. CASE n > 3
    BY <2>1, <2>3, <2>4, <2>5 DEF CompletionKept
  <2>6. CASE ~(n > 3)
    BY <2>1, <2>3, <2>4, <2>6 DEF CompletionKept
  <2> QED  BY <2>5, <2>6
<1>13. \A later \in Starts : ~Earlier(later, p.start) =>
             ~Earlier(EligibilityDate(later, p.required), p.original)
  BY <1>3, <1>9
<1> QED  BY <1>11, <1>12, <1>13, Zenon DEF MaturesAsAgreed

-----------------------------------------------------------------------------
(* The behaviours of Contracts.                                               *)

\* What an agreement is made of.
AgreementKept(a, row) ==
  /\ AgreementStorable(a) /\ StillAgreed(a, row) /\ PaymentWorkflowOpen(a, row)
  /\ \A amount \in Selections :
        ContributionAmountAllowed(a, amount) <=>
            (AmountAllowed(row, amount) /\ (a.rule = "FIXED" => amount = a.fixed))

\* An answer is right: of a configuration, that it says what the two descriptions
\* say; of everything else, what is promised of it.
Answered(r) ==
  /\ r.about = "CONFIGURATION" =>
       /\ r.row \in ConfigurationRows
       /\ r.valid <=> Operational(r.row)
       /\ r.stored <=> Storable(r.row)
  /\ r.about = "AGREEMENT" => AgreementKept(r.agreement, r.row)
  /\ r.about = "SCHEDULE" => MaturesAsAgreed(r.preview)
  /\ r.about = "AVAILABILITY" /\ r.answer.code = "OUTSIDE_BUSINESS_HOURS" =>
       NextOpeningIsNext(r.control.hours, r.weekday, r.time, r.answer.next)
  /\ r.about = "BENEFIT" => BenefitIsFair(r.base, r.percentage, r.cap, r.benefit)
  /\ r.about = "CREDITS" => r.credits \in Seq(CreditRows) /\ CreditsAreFair(r.credits)

\* The inductive invariant.
ContractsInv == Answered(asked) /\ CashInv

\* No credit is a fair credit.
LEMMA NoCredits == CreditsAreFair(<<>>) /\ <<>> \in Seq(CreditRows)
<1>1. PICK none : none = <<>>
  OBVIOUS
<1>2. DOMAIN none = {}
  BY <1>1
<1>3. PICK f, g, h : /\ f = [i \in DOMAIN none |-> none[i].quantity * none[i].rate]
                     /\ g = [i \in DOMAIN none |-> none[i].amount * Quantum]
                     /\ h = [i \in DOMAIN none |-> none[i].rate]
  OBVIOUS
<1>4. DOMAIN f = {} /\ DOMAIN g = {} /\ DOMAIN h = {}
  BY <1>2, <1>3
<1>5. SumFunction(f) = 0 /\ SumFunction(g) = 0 /\ SumFunction(h) = 0
  BY <1>4, SumOfNone
<1>6. /\ 2 * (SumFunction(f) - SumFunction(g)) <= SumFunction(h)
      /\ 2 * (SumFunction(g) - SumFunction(f)) <= SumFunction(h)
  BY <1>5
<1>7. CreditsAreFair(none)
  BY <1>3, <1>6 DEF CreditsAreFair
<1> QED  BY <1>1, <1>7

\* Nothing is asked at first, and nothing is paid.
LEMMA ContractsStart == Init => ContractsInv
<1> SUFFICES ASSUME Init  PROVE ContractsInv
  OBVIOUS
<1>1. asked.about = "NOTHING"
  BY DEF Init, Nothing
<1>2. Answered(asked)
  BY <1>1 DEF Answered
<1>3. CashTyped
  BY DEF Init, CashInit, CashTyped
<1>4. PrincipalRedeemed = 0 /\ BonusRedeemed = 0
  <2>1. Standing = {}
    BY DEF Init, CashInit, Standing
  <2>2. PICK f, g : /\ f = [i \in DOMAIN payouts |-> payouts[i].principal]
                    /\ g = [i \in DOMAIN payouts |-> payouts[i].bonus]
    OBVIOUS
  <2>3. DOMAIN payouts = {}
    BY DEF Init, CashInit
  <2>4. DOMAIN f = {} /\ DOMAIN g = {}
    BY <2>2, <2>3
  <2>5. SumFunction(f) = 0 /\ SumFunction(g) = 0
    BY <2>4, SumOfNone
  <2>6. SumFunctionOnSet(f, {}) = 0 /\ SumFunctionOnSet(g, {}) = 0
    BY <2>4, <2>5 DEF SumFunction, SumFunctionOnSet, FoldFunction
  <2> QED  BY <2>1, <2>2, <2>6 DEF PrincipalRedeemed, BonusRedeemed
<1>5. PrincipalPaid \in Nat /\ Qualifying \in Nat /\ Percentage \in Nat
  BY <1>3, CashNumbers, AmountsAssumption DEF CashCounts
<1>6. CashBonus(Qualifying, Percentage) \in Nat
  BY <1>5, CashBonusGrows
<1>7. CashIsPaidOnce
  BY <1>4, <1>5, <1>6 DEF CashIsPaidOnce
<1>8. payouts = <<>>
  BY DEF Init, CashInit
<1> QED  BY <1>2, <1>3, <1>7, <1>8 DEF ContractsInv, CashInv

\* The cash agreement stays as it is while something else is asked.
LEMMA CashStays ==
  ASSUME CashInv, UNCHANGED cashVars
  PROVE  CashInv'
<1>1. day' = day /\ cash' = cash /\ payouts' = payouts
  BY DEF cashVars
<1> QED  BY <1>1 DEF CashInv, CashTyped, CashIsPaidOnce, PrincipalRedeemed, BonusRedeemed, Standing,
   PrincipalPaid, Qualifying, Paid, Matured, CashBonus, HalfUp

\* A proposed configuration is answered with the two verdicts.
LEMMA ProposalAnswered ==
  ASSUME NEW row \in ConfigurationRows, ProposeConfiguration(row)
  PROVE  Answered(asked')
<1>1. PICK v, s : v = Operational(row) /\ s = Storable(row)
  OBVIOUS
<1>2. asked' = [about |-> "CONFIGURATION", row |-> row, valid |-> v, stored |-> s]
  BY <1>1 DEF ProposeConfiguration
<1>3. PICK r : r = asked'
  OBVIOUS
<1>4. r.about = "CONFIGURATION" /\ r.row = row
  BY <1>2, <1>3
<1>5. r.valid = Operational(row) /\ r.stored = Storable(row)
  BY <1>1, <1>2, <1>3, Zenon
<1>6. /\ r.valid <=> Operational(r.row)
      /\ r.stored <=> Storable(r.row)
  BY <1>4, <1>5, Zenon
<1> QED  BY <1>3, <1>4, <1>6 DEF Answered

\* An agreement is made of a configuration that stays operable.
LEMMA AgreementAnswered ==
  ASSUME Answered(asked), NEW selected \in Selections \cup {NoValue}, NEW grade \in Grades \cup {NoValue},
         MakeAgreement(selected, grade)
  PROVE  Answered(asked')
<1>1. PICK row, a, r : row = asked.row /\ a = Agreement(asked.row, selected, grade) /\ r = asked'
  OBVIOUS
<1>2. row \in ConfigurationRows /\ Operational(row) /\ Storable(row)
  BY <1>1 DEF Answered, MakeAgreement
<1>3. TermsResolve(row, selected, grade) /\ a = Agreement(row, selected, grade)
  BY <1>1 DEF MakeAgreement
<1>4. selected \in Nat \cup {NoValue} /\ Selections \subseteq Nat
  BY ContractsAssumption
<1>5. AgreementKept(a, row)
  BY <1>2, <1>3, <1>4, AgreementIsOperable DEF AgreementKept
<1>6. r = [about |-> "AGREEMENT", row |-> row, agreement |-> a]
  BY <1>1 DEF MakeAgreement
<1>7. r.about = "AGREEMENT" /\ r.row = row /\ r.agreement = a
  BY <1>6
<1> QED  BY <1>1, <1>5, <1>7 DEF Answered

\* What is asked of a schedule, of the opening hours and of a benefit.
LEMMA AskAnswered ==
  ASSUME Ask
  PROVE  Answered(asked') /\ UNCHANGED cashVars
<1>1. ASSUME NEW i \in DOMAIN Proposals, NEW row \in Proposals[i], ProposeConfiguration(row)
      PROVE  Answered(asked') /\ UNCHANGED cashVars
  <2>1. row \in ConfigurationRows
    BY ContractsAssumption
  <2>2. UNCHANGED cashVars
    BY <1>1 DEF ProposeConfiguration
  <2> QED  BY <1>1, <2>1, <2>2, ProposalAnswered
<1>2. ASSUME NEW basis \in Bases, NEW start \in Starts, NEW required \in Required, NEW missed \in Misses,
             PreviewSchedule(basis, start, required, missed)
      PROVE  Answered(asked') /\ UNCHANGED cashVars
  <2>1. PICK p, r : p = Preview(basis, start, required, missed) /\ r = asked'
    OBVIOUS
  <2>2. r = [about |-> "SCHEDULE", preview |-> p] /\ UNCHANGED cashVars
    BY <1>2, <2>1 DEF PreviewSchedule
  <2>3. MaturesAsAgreed(p)
    BY <2>1, PreviewMatures
  <2>4. r.about = "SCHEDULE" /\ r.preview = p
    BY <2>2
  <2> QED  BY <2>1, <2>2, <2>3, <2>4 DEF Answered
<1>3. ASSUME NEW control \in Controls, NEW grade \in {"GOLD", "INR"}, NEW rate \in Rates,
             NEW weekday \in Weekdays, NEW time \in 0 .. Closing,
             AskAvailability(control, grade, rate, weekday, time)
      PROVE  Answered(asked') /\ UNCHANGED cashVars
  <2>1. PICK answer, r : answer = Availability(control, grade, rate, weekday, time) /\ r = asked'
    OBVIOUS
  <2>2. /\ r = [about |-> "AVAILABILITY", control |-> control, grade |-> grade,
                weekday |-> weekday, time |-> time, answer |-> answer]
        /\ UNCHANGED cashVars
    BY <1>3, <2>1 DEF AskAvailability
  <2>3. /\ r.about = "AVAILABILITY" /\ r.control = control /\ r.weekday = weekday /\ r.time = time
        /\ r.answer = answer
    BY <2>2
  <2>4. control.hours \in [Weekdays -> Hours]
    BY ContractsAssumption
  <2>5. answer.code = "OUTSIDE_BUSINESS_HOURS" =>
          NextOpeningIsNext(control.hours, weekday, time, answer.next)
    BY <2>1, <2>4, AnswersKeepHours
  <2> QED  BY <2>1, <2>2, <2>3, <2>5 DEF Answered
<1>4. ASSUME NEW base \in Selections, NEW percentage \in Percentages, NEW cap \in Selections,
             CalculateBenefit(base, percentage, cap)
      PROVE  Answered(asked') /\ UNCHANGED cashVars
  <2>1. PICK b, r : b = Benefit(base, percentage, cap) /\ r = asked'
    OBVIOUS
  <2>2. /\ r = [about |-> "BENEFIT", base |-> base, percentage |-> percentage, cap |-> cap, benefit |-> b]
        /\ UNCHANGED cashVars
    BY <1>4, <2>1 DEF CalculateBenefit
  <2>3. base \in Nat /\ percentage \in Nat /\ cap \in Nat
    BY ContractsAssumption
  <2>4. BenefitIsFair(base, percentage, cap, b)
    BY <2>1, <2>3, BenefitsAreFair
  <2>5. r.about = "BENEFIT" /\ r.base = base /\ r.percentage = percentage /\ r.cap = cap /\ r.benefit = b
    BY <2>2
  <2> QED  BY <2>1, <2>2, <2>4, <2>5 DEF Answered
<1> QED  BY <1>1, <1>2, <1>3, <1>4 DEF Ask

\* One more contribution is credited.
LEMMA CreditAnswered ==
  ASSUME Answered(asked), NEW amount \in Selections, NEW rate \in Prices, CreditContribution(amount, rate)
  PROVE  Answered(asked')
<1>1. PICK c, x, r, s : /\ c = Credits /\ r = asked' /\ s = Append(Credits, x)
                        /\ x = [amount |-> amount, rate |-> rate, quantity |-> Quantity(amount, rate)]
  OBVIOUS
<1>2. amount \in Nat /\ rate \in Nat \ {0}
  BY ContractsAssumption
<1>3. c \in Seq(CreditRows) /\ CreditsAreFair(c)
  BY <1>1, NoCredits DEF Credits, Answered
<1>4. s \in Seq(CreditRows) /\ CreditsAreFair(s)
  BY <1>1, <1>2, <1>3, CreditKeepsFair
<1>5. r = [about |-> "CREDITS", credits |-> s]
  BY <1>1 DEF CreditContribution
<1>6. r.about = "CREDITS" /\ r.credits = s
  BY <1>5
<1> QED  BY <1>1, <1>4, <1>6 DEF Answered

\* Every step keeps the invariant.
LEMMA ContractsStep == ContractsInv /\ [Next]_contractVars => ContractsInv'
<1> SUFFICES ASSUME ContractsInv, [Next]_contractVars  PROVE ContractsInv'
  OBVIOUS
<1>1. Answered(asked) /\ CashInv
  BY DEF ContractsInv
<1>2. SUFFICES Answered(asked') /\ CashInv'
  BY DEF ContractsInv, Answered
<1>3. CASE Ask
  BY <1>1, <1>3, AskAnswered, CashStays
<1>4. ASSUME NEW selected \in Selections \cup {NoValue}, NEW grade \in Grades \cup {NoValue},
             MakeAgreement(selected, grade)
      PROVE  Answered(asked') /\ CashInv'
  <2>1. Answered(asked')
    BY <1>1, <1>4, AgreementAnswered
  <2>2. UNCHANGED cashVars
    BY <1>4 DEF MakeAgreement
  <2> QED  BY <1>1, <2>1, <2>2, CashStays
<1>5. ASSUME NEW amount \in Selections, NEW rate \in Prices, CreditContribution(amount, rate)
      PROVE  Answered(asked') /\ CashInv'
  <2>1. Answered(asked')
    BY <1>1, <1>5, CreditAnswered
  <2>2. UNCHANGED cashVars
    BY <1>5 DEF CreditContribution
  <2> QED  BY <1>1, <2>1, <2>2, CashStays
<1>6. CASE SaveCash
  <2>1. CashNext /\ asked' = asked
    BY <1>6 DEF SaveCash
  <2>2. CashInv'
    BY <1>1, <2>1, CashStep
  <2> QED  BY <1>1, <2>1, <2>2
<1>7. CASE UNCHANGED contractVars
  <2>1. asked' = asked /\ UNCHANGED cashVars
    BY <1>7 DEF contractVars
  <2> QED  BY <1>1, <2>1, CashStays
<1> QED  BY <1>3, <1>4, <1>5, <1>6, <1>7 DEF Next

\* The invariant is kept for good.
THEOREM ContractsAreKept == Spec => []ContractsInv
<1> QED  BY ContractsStart, ContractsStep, PTL DEF Spec

\* Every configuration the two descriptions of the policy matrix are asked about gets
\* the same answer where they describe the same row; and every agreement made of a
\* stored one meets the constraints of its table, resolves to its configuration
\* again, is open to payments, and takes exactly the amounts agreed: for every row
\* of the table, every choice of an amount and every grade.
THEOREM AgreementsAreOperable == Spec => []AgreedIsOperable
<1>1. ContractsInv => AgreedIsOperable
  <2> SUFFICES ASSUME ContractsInv  PROVE AgreedIsOperable
    OBVIOUS
  <2>1. Answered(asked)
    BY DEF ContractsInv
  <2>2. DescriptionsAgree
    <3>1. SUFFICES ASSUME asked.about = "CONFIGURATION"
                   PROVE  /\ asked.stored => asked.valid
                          /\ (/\ asked.valid /\ asked.row.schema = 2 /\ AmountShape(asked.row)
                              /\ asked.row.months = NoValue /\ asked.row.frequency # "ONCE_PER_MONTH")
                             => asked.stored
      BY DEF DescriptionsAgree
    <3>2. /\ asked.row \in ConfigurationRows
          /\ asked.valid <=> Operational(asked.row)
          /\ asked.stored <=> Storable(asked.row)
      BY <2>1, <3>1 DEF Answered
    <3> QED  BY <3>2, RowsAgree
  <2>3. asked.about = "AGREEMENT" => AgreementKept(asked.agreement, asked.row)
    BY <2>1 DEF Answered
  <2> QED  BY <2>2, <2>3 DEF AgreedIsOperable, AgreementKept
<1> QED  BY <1>1, ContractsAreKept, PTL

\* A schedule's windows, its completion date and the next opening a customer is told
\* are what the calendar and the opening hours make them, for every start, number of
\* instalments, set of missed months, weekly hours and instant.
THEOREM DatesStayKept == Spec => []DatesAreKept
<1>1. ContractsInv => DatesAreKept
  BY DEF ContractsInv, Answered, DatesAreKept
<1> QED  BY <1>1, ContractsAreKept, PTL

\* Credits, benefits and payouts are the agreed amounts to half a unit of rounding,
\* for every amount, rate and percentage, and however a cash agreement is paid,
\* redeemed and reversed.
THEOREM MoneyStaysKept == Spec => []MoneyIsKept
<1>1. ContractsInv => MoneyIsKept
  <2> SUFFICES ASSUME ContractsInv  PROVE MoneyIsKept
    OBVIOUS
  <2>1. Answered(asked) /\ CashIsPaidOnce
    BY DEF ContractsInv, CashInv
  <2>2. CreditsAreFair(Credits)
    BY <2>1, NoCredits DEF Answered, Credits
  <2> QED  BY <2>1, <2>2 DEF Answered, MoneyIsKept
<1> QED  BY <1>1, ContractsAreKept, PTL
=============================================================================
