----------------------------- MODULE MCAccounts -----------------------------
(* One person, met as an applicant, as a customer at the counter, and again  *)
(* after a removal.                                                          *)
EXTENDS AccountDeletions

\* What happens at most once: a reissue, a move of the offer, a lapse ...
Count(S) == Cardinality(S)
Setbacks ==
  Count({r \in DOMAIN registrations : registrations[r].overdue})
  + Count({r \in DOMAIN registrations : registrations[r].lapsed})
  + Count({r \in DOMAIN registrations : registrations[r].past})
  + Count({r \in DOMAIN registrations : registrations[r].reissues > 0})
  + Count({i \in DOMAIN invitations : invitations[i].expired})
  + Count({d \in DOMAIN deletions : deletions[d].overdue})
  + Count({n \in DOMAIN notices : ~notices[n].accepted /\ notices[n].delivered > 0})
  + (IF offer.version > 1 THEN 1 ELSE 0) + (IF offer.listed THEN 0 ELSE 1)

Rows == Len(users) + Len(registrations) + Len(deletions) + Len(agreements) + Len(invitations)
Visited == \E u \in DOMAIN users : users[u].session \/ users[u].signing \/ users[u].google

\* Two setbacks are seen by who applies and has not yet signed in, one by who
\* leaves again, and none by who comes back after the removal.
Bound ==
  \/ Setbacks <= 2 /\ Rows <= 5 /\ deletions = <<>> /\ ~Visited
  \/ Setbacks <= 1 /\ Rows <= 4
  \/ Setbacks <= 0 /\ Rows <= 6
=============================================================================
