----------------------------- MODULE MCEnrolment -----------------------------
(* A session of the owner and a customer over one plan.  A page stays loaded *)
(* after it was used, so one session acts on stale pages as two would.       *)
EXTENDS EnrolmentRequests, TLC

CONSTANTS d1, c1

OneDesk == {d1}
OneCustomer == {c1}

SomeTerms ==
  {[text |-> "first", grades |-> {"GOLD_22K"}],
   [text |-> "second", grades |-> {"GOLD_22K", "SILVER"}]}

\* A plan older than revisions is listed, or the catalogue is empty.
LegacyPlan ==
  [configuration |-> 0, terms |-> [text |-> "first", grades |-> {"GOLD_22K"}],
   active |-> TRUE, listed |-> TRUE, stamp |-> 1, published |-> 0, revisions |-> <<>>, closed |-> FALSE]
LegacyOrNone == {<<>>, <<LegacyPlan>>}

Departures ==
  Cardinality({c \in Customers : customers[c] # "ACTIVE"})
  + Cardinality({r \in DOMAIN requests : requests[r].overdue})
  + Cardinality({n \in DOMAIN plans : plans[n].closed})
  + Cardinality({k \in DOMAIN configurations : configurations[k].closed})
  + (IF gate THEN 0 ELSE 1)
Stamped(n) == \A p \in DOMAIN plans : plans[p].stamp <= n

\* One thing at most besides edits and publications happens to an offer: the
\* gate is shut, the customer leaves, a request grows old, or the item is
\* closed (a configuration after its plan).  A legacy plan is saved twice.  One
\* request and one agreement see every save, or a departure after the publication;
\* two of a kind see only the publication and no departure, and a second
\* configuration version no enrolment.
Bound ==
  /\ Departures <= 1 \/ (Departures = 2 /\ \E k \in DOMAIN configurations : configurations[k].closed)
  /\ \A n \in DOMAIN plans : plans[n].configuration = 0 => plans[n].stamp <= 3
  /\ Len(configurations) = 2 => requests = <<>> /\ agreements = <<>> /\ Stamped(2)
  /\ \/ /\ Len(requests) <= 1 /\ Len(agreements) <= 1
        /\ Departures = 0 \/ requests = <<>> \/ agreements = <<>> \/ Stamped(2)
     \/ Len(requests) + Len(agreements) <= 3 /\ Departures = 0 /\ Stamped(2)
==============================================================================
