--------------------------- MODULE ClosedAgreement ---------------------------
(***************************************************************************)
(* One agreement from saving to its disposition: closures, payments still  *)
(* on their way, benefits and either kind of settlement, by several        *)
(* sessions of the owner in any order.                                     *)
(***************************************************************************)
EXTENDS Settlements

vars == settlementVars

Init == ClosureInit /\ BenefitInit

ClosureStep == ClosureNext /\ UNCHANGED benefitVars

Next == ClosureStep \/ BenefitNext \/ ConfiguredNext \/ InrNext

Spec == Init /\ [][Next]_vars
------------------------------------------------------------------------------
Channels == {"RAZORPAY", "IN_STORE_CASH"}
Statuses == {"PENDING", "PAID", "REVERSED", "RETIRED"}

\* The rows hold what their columns allow, and point at rows that exist.
TypeOK ==
  /\ mode \in {"METAL", "INR"} /\ eligible \in BOOLEAN
  /\ account \in {"ACTIVE", "CLOSURE_PENDING", "REDEEMED", "CANCELLED"}
  /\ \A i \in Rows : contributions[i] \in
       [channel : Channels, status : Statuses, verified : 0..MaxContributions]
  /\ \A c \in Requests : closures[c].status \in
       {"PENDING", "ACCEPTED", "WITHDRAWN", "REJECTED", "CANCELLED", "SETTLED"}
  /\ Len(dispositions) <= MaxDispositions
  /\ \A i \in DOMAIN dispositions :
       /\ dispositions[i].closure \in Requests /\ dispositions[i].done \subseteq Legs(i)
       /\ dispositions[i].approval \in 0..Len(decisions)
  /\ \A m \in DOMAIN invoices :
       invoices[m].disposition \in DOMAIN dispositions /\ invoices[m].approval \in 0..Len(decisions)
  /\ \A n \in DOMAIN decisions : decisions[n].invoice \in DOMAIN invoices

\* Every handler first replays the retained history and refuses to go on when
\* it does not add up (closure_selectors.py, inr_correction_selectors.py): no
\* interleaving of the handlers may leave a history they would refuse.
HistoriesValidate ==
  /\ TypeOK
  /\ \A c \in Requests : ClosureHistoryIsValid(c)
  /\ mode = "INR" => InrHistoryIsValid /\ \A i \in DOMAIN dispositions : InrBenefitIsValid(i)
  /\ mode = "METAL" => \A i \in DOMAIN dispositions : ConfiguredSettlementIsValid(i)

\* A correction cannot earn or lose a benefit, whatever time passes before
\* the replacement: all dispositions of an agreement share their basis, their
\* benefit and their sources (replacement_settlement_selectors.py).
BasisIsKept ==
  \A i, j \in DOMAIN dispositions :
    /\ dispositions[i].basis = dispositions[j].basis
    /\ dispositions[i].award = dispositions[j].award
    /\ dispositions[i].sources = dispositions[j].sources

\* A benefit is spent by one invoice at a time; a second one needs the full
\* return of the first and uses up an approval of its own, the last word at
\* the time (benefit_application_selectors.py). It is the benefit all
\* dispositions of the agreement are based on.
BenefitSpentOnce ==
  /\ BasisIsKept
  /\ \A m \in DOMAIN invoices : m < Len(invoices) => invoices[m].reversed
  /\ \A m \in DOMAIN invoices : m > 1 =>
       /\ invoices[m].approval # 0
       /\ LET n == invoices[m].approval
          IN  /\ decisions[n].outcome = "APPROVE" /\ decisions[n].invoice = m - 1
              /\ \A k \in Decisions(m - 1) : k <= n
       /\ \A k \in DOMAIN invoices : k # m => invoices[k].approval # invoices[m].approval

\* The refunds of one online capture never exceed it, over all generations of
\* the disposition, even when the customer brought some of them back.
RefundsWithinCapture == \A i \in Rows : RefundedOnline(i) <= Amount

\* The agreement as its abstract promise sees it.
InForce == {i \in DOMAIN dispositions : ~dispositions[i].retired}
Phase == CASE account = "CANCELLED" -> "cancelled"
           [] account = "REDEEMED" -> "disposed"
           [] account \in {"ACTIVE", "CLOSURE_PENDING"} ->
                IF AcceptedClosure THEN "accepted" ELSE "saving"

Promise == INSTANCE PrincipalDisposition WITH
  principal <- Principal,
  handed <- SumFunction([i \in InForce |-> Fulfilled(i)]),
  phase <- Phase

\* Principal is handed over once and in full, whichever way and however often
\* it is proposed, fulfilled, completed, voided, returned and replaced, and
\* whatever payment arrives meanwhile.
ImplementsDisposition == Promise!Spec
=============================================================================
