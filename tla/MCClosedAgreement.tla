-------------------------- MODULE MCClosedAgreement --------------------------
(***************************************************************************)
(* Model values and symmetry for model checking ClosedAgreement.           *)
(***************************************************************************)
EXTENDS ClosedAgreement, TLC

CONSTANTS d1, d2

OneDesk == {d1}
TwoDesks == {d1, d2}
BothModes == {"METAL", "INR"}

\* The jewellery takes a part of the first receipt, or a part of the second.
SomeInvoices == {1, 3}

OneSession == \E d \in Desks : desk[d] = NothingLoaded

\* A bound: two sessions act on an agreement with one receipt, no note and one
\* decision about a return, one session on an agreement with two of each; and
\* there is a note, or a second disposition.
Bound ==
  /\ (Len(contributions) < MaxContributions /\ Len(decisions) < MaxDecisions) \/ OneSession
  /\ Notes = {} \/ (OneSession /\ Len(dispositions) < MaxDispositions)

Symmetry == Permutations(Desks)
=============================================================================
