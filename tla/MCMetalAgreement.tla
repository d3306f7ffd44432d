--------------------------- MODULE MCMetalAgreement ---------------------------
(***************************************************************************)
(* Model values and symmetry for model checking MetalAgreement.  A run     *)
(* that leaves a component idle gives it an empty set of keys.             *)
(***************************************************************************)
EXTENDS MetalAgreement, TLC

CONSTANTS p1, p2, k1, k2, k3, w1, w2, r1, r2, s1, s2

None == {}
OnePayment == {p1}
TwoPayments == {p1, p2}
OneKey == {k1}
TwoKeys == {k1, k2}
OneWorker == {w1}
TwoWorkers == {w1, w2}
OneReceipt == {r1}
TwoReceipts == {r1, r2}
OneSettlement == {s1}
TwoSettlements == {s1, s2}

\* The metal became dearer: the second rate buys half of what the first did.
GramsAtRate == [r \in Rates |-> IF r = 1 THEN 2 ELSE 1]

\* Every quantity the contributions of a run can add up to.
SomeQuantities == 1..2 * MaxContributions

Rendered == {k \in Keys : form[k] # NotRendered}
Busy == {w \in Workers : ~At(w, "idle")}
Recorded == {r \in Receipts : preview[r] # 0}

\* A bound: two forms, with no failure and no money taken at the showroom; or two of one form, one receipt, one failure and redemptions, at one rate; or two requests with two receipts
\* and two redemptions at two rates.  Payments are closed only in the first
\* case, and only the last has concurrent requests.
Bound ==
  \/ /\ current_rate = 1 /\ Cardinality(Busy) <= 1
     /\ Recorded = {} /\ Redemptions = {}
     /\ faults = 0
  \/ /\ current_rate = 1 /\ Cardinality(Busy) <= 1 /\ initiation_open
     /\ Cardinality(Rendered) <= 1 /\ Cardinality(Recorded) <= 1
     /\ Cardinality(Rendered) + Cardinality(Recorded) + Cardinality(Redemptions) + faults <= 2
  \/ Rendered = {} /\ initiation_open /\ faults = 0

Symmetry == Permutations(Payments) \cup Permutations(Keys) \cup Permutations(Workers)
              \cup Permutations(Receipts) \cup Permutations(Settlements)
=============================================================================
