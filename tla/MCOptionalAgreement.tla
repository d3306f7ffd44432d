-------------------------- MODULE MCOptionalAgreement --------------------------
(* Instances of OptionalAgreement for TLC. *)
EXTENDS OptionalAgreement, TLC

CONSTANTS p1, p2, e1, e2, v1, v2, w1, w2, d1, d2

None == {}
OnePayment == {p1}
TwoPayments == {p1, p2}
OneEvent == {e1}
TwoEvents == {e1, e2}
TwoDeliveries == {v1, v2}
OneRequest == {w1}
TwoRequests == {w1, w2}
OneDesk == {d1}
TwoDesks == {d1, d2}

Paid == {p \in Payments : payment[p].order # 0}
Told == {e \in Events : event[e].status # "none"}
Delivering == {v \in Deliveries : delivery[v].at # "idle"}
Busy == {w \in Creators : creator[w].at # "idle"}
Working == {d \in Desks : desk[d].at # "idle"}
Inspected == {e \in Events : observations[e] # 0}
Once(S) == Cardinality(S) <= 1

\* A bound: two checkouts with a payment, a failure and a pause; or one handed
\* checkout with two payments and two events; or with one payment and two
\* sessions of refund work; or with two payments, one event and one session; or
\* with one of each and two overlapping deliveries of which one may fail.  Two
\* requests run at once, of whichever kind; deliveries overlap over one checkout.
Scenarios ==
  /\ Cardinality(Busy) + Cardinality(Delivering) + Cardinality(verified) <= 2
  /\ \/ Once(Paid) /\ Once(Told) /\ Working = {} /\ Inspected = {} /\ (paused => faults = 0)
          /\ (Once(Rows) \/ faults = 0)
          /\ (Once(Delivering) \/ (Once(Rows) /\ Busy = {} /\ ~paused))
     \/ /\ Once(Rows) /\ Busy = {} /\ Rows = handed /\ ~paused
        /\ \/ Working = {} /\ Inspected = {} /\ faults = 0
           \/ Once(Told) /\ Once(verified) /\ (Once(Paid) \/ Once(Working)) /\ Once(Delivering)
                /\ faults = 0
           \/ Once(Told) /\ Once(Paid) /\ Once(Working)

Symmetry ==
  Permutations({p1, p2}) \cup Permutations({e1, e2}) \cup Permutations({v1, v2})
  \cup Permutations({w1, w2}) \cup Permutations({d1, d2})
=============================================================================
