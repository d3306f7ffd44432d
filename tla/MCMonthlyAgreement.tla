-------------------------- MODULE MCMonthlyAgreement --------------------------
(* Instances of MonthlyAgreement for TLC. *)
EXTENDS MonthlyAgreement, TLC

CONSTANTS p1, p2, e1, e2, v1, v2, w1, w2

None == {}
OnePayment == {p1}
TwoPayments == {p1, p2}
OneEvent == {e1}
TwoEvents == {e1, e2}
TwoDeliveries == {v1, v2}
OneRequest == {w1}
TwoRequests == {w1, w2}

Paid == {p \in Payments : paid_order[p] # 0}
Told == {e \in Events : event[e].status # "none"}
Delivering == {v \in Deliveries : delivery[v].at # "idle"}
Busy == {w \in Creators : creator[w].at # "idle"}
Held == {p \in Periods : hold[p] # "none"}

\* A bound: two payments and two events about one checkout until it has expired;
\* or two requests for a checkout in the first period, or two payments of which
\* one is online over two periods, each with one of a failure, a closure and an
\* outage; or three cash receipts over three periods with an outage.  Two requests
\* run at once in the first period, of whichever kind, and one after it;
\* deliveries overlap over one checkout.
Bound ==
  /\ Cardinality(Busy) + Cardinality(Delivering) <= 2
  /\ \/ /\ Cardinality(Busy) <= 1 /\ Held = {} /\ ~closing
        /\ Cardinality(Rows) <= 1 /\ now <= 1 /\ faults = 0
     \/ /\ Cardinality(Rows) <= 2 /\ Cardinality(Paid) <= 1 /\ Cardinality(Told) <= 1
        /\ faults + Cardinality(Held) + (IF closing THEN 1 ELSE 0) <= 1
        /\ now <= 1 \/ (now <= 3 /\ Cardinality(Busy) + Cardinality(Delivering) <= 1)
        /\ Cardinality(Delivering) <= 1
           \/ (Cardinality(Rows) <= 1 /\ Held = {} /\ ~closing)
     \/ /\ Busy = {} /\ Paid = {} /\ ~closing /\ faults = 0 /\ Cardinality(Held) <= 1
        /\ \A c \in Rows : row[c].channel = "IN_STORE_CASH"

Symmetry ==
  Permutations({p1, p2}) \cup Permutations({e1, e2}) \cup Permutations({v1, v2})
  \cup Permutations({w1, w2})
=============================================================================
