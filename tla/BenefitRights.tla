---------------------------- MODULE BenefitRights ----------------------------
(***************************************************************************)
(* The benefit of one agreement: an award recorded once, consumed by the   *)
(* invoice of a jewellery handover, given back only by a full return, and  *)
(* usable again only under an explicit, current approval (benefit_awards,  *)
(* benefit_fulfilments and benefit_reapplications).  Amounts are left out: *)
(* the right is whole or not consumed at all.                              *)
(***************************************************************************)
EXTENDS Closures

CONSTANT MaxDecisions  \* reviews of returned benefits

VARIABLES
  award,      \* SchemeBenefitAward: recorded, and the sources it retains
  invoices,   \* BenefitInvoiceFulfilment rows with their reversals
  decisions   \* BenefitReapplicationDecision rows

benefitVars == <<award, invoices, decisions>>

NoAward == [recorded |-> FALSE, sources |-> <<>>]

BenefitInit == award = NoAward /\ invoices = <<>> /\ decisions = <<>>

\* benefit_source_snapshot: every financial fact of the agreement.
Sources == contributions

SourcesSettled ==
  \A i \in Rows : \/ contributions[i].status \in {"PAID", "RETIRED"}
                  \/ contributions[i].channel = "IN_STORE_CASH" /\ contributions[i].status = "REVERSED"

\* The recorded rules are met, read for a first closure or before any.
QualificationMet == SourcesSettled /\ Principal > 0 /\ eligible

UnchangedAwardSources == award.sources = Sources /\ Principal > 0
------------------------------------------------------------------------------
(* An award recorded by itself, before any closure is accepted.             *)

BenefitAwardEvidence == account = "ACTIVE" /\ ~AcceptedClosure /\ dispositions = <<>> /\ QualificationMet

PreviewBenefitAward(d) ==
  /\ ~award.recorded /\ BenefitAwardEvidence
  /\ desk' = [desk EXCEPT ![d] = [kind |-> "AWARD", sources |-> Sources]]
  /\ UNCHANGED <<mode, account, eligible, contributions, closures, dispositions, benefitVars>>

RecordBenefitAward(d) ==
  /\ desk[d].kind = "AWARD"
  /\ ~award.recorded /\ BenefitAwardEvidence
  /\ desk[d].sources = Sources
  /\ award' = [recorded |-> TRUE, sources |-> Sources]
  /\ UNCHANGED <<closureVars, invoices, decisions>>
------------------------------------------------------------------------------
(* Returned benefits and their review.                                      *)

Returned == invoices # <<>> /\ Last(invoices).reversed

Consumed(f) == \E m \in DOMAIN invoices :
  invoices[m].approval # 0 /\ decisions[invoices[m].approval].invoice = f

Decisions(f) == {n \in DOMAIN decisions : decisions[n].invoice = f}
LatestDecision(f) == IF Decisions(f) = {} THEN 0 ELSE Max(Decisions(f))

\* A proposal bound to the approval under review does not use it up.
ReviewedDispositions ==
  LET n == Len(dispositions)
  IN  IF mode = "INR" /\ ~dispositions[n].retired /\ dispositions[n].approval # 0 THEN n - 1 ELSE n

\* What a decision about the last returned invoice is taken on.
ReturnBasis == [sequence |-> Sequence(Last(dispositions).closure), dispositions |-> ReviewedDispositions]

ReturnIsReviewable ==
  /\ Returned /\ ~Consumed(Len(invoices))
  /\ account = "CLOSURE_PENDING" /\ closures[Last(dispositions).closure].status = "ACCEPTED"
  /\ ClosureHistoryIsValid(Last(dispositions).closure)
  /\ \A i \in 1..ReviewedDispositions : dispositions[i].retired
  /\ UnchangedAwardSources /\ dispositions[1].sources = Sources

PreviewReapplication(d, outcome) ==
  /\ ReturnIsReviewable
  /\ desk' = [desk EXCEPT ![d] = [kind |-> "REVIEW", outcome |-> outcome, basis |-> ReturnBasis,
                                  previous |-> LatestDecision(Len(invoices))]]
  /\ UNCHANGED <<mode, account, eligible, contributions, closures, dispositions, benefitVars>>

RecordReapplication(d) ==
  /\ desk[d].kind = "REVIEW" /\ Len(decisions) < MaxDecisions
  /\ ReturnIsReviewable
  /\ desk[d].basis = ReturnBasis /\ desk[d].previous = LatestDecision(Len(invoices))
  /\ decisions' = Append(decisions, [invoice |-> Len(invoices), outcome |-> desk[d].outcome,
                                     basis |-> ReturnBasis])
  /\ UNCHANGED <<closureVars, award, invoices>>

\* The approval a new disposition may bind: the latest, on today's evidence.
CurrentReapplication ==
  LET n == LatestDecision(Len(invoices))
  IN  IF /\ Returned /\ n # 0 /\ ~Consumed(Len(invoices))
         /\ decisions[n].outcome = "APPROVE" /\ decisions[n].basis = ReturnBasis
      THEN n ELSE 0
------------------------------------------------------------------------------
(* The proof every disposition retains (closure_qualification_proof).       *)

FirstProofHolds ==
  /\ SourcesSettled /\ Principal > 0
  /\ award.recorded => UnchangedAwardSources /\ QualificationMet /\ invoices = <<>>

FirstProof == [basis |-> IF eligible THEN "NORMAL" ELSE "EARLY", award |-> QualificationMet,
               sources |-> Sources, approval |-> 0]

\* A replacement keeps the qualification of the first disposition.
ReplacementProofHolds(c) ==
  /\ closures[c].status = "ACCEPTED" /\ account = "CLOSURE_PENDING"
  /\ \A i \in DOMAIN dispositions : dispositions[i].closure = c /\ dispositions[i].retired
  /\ dispositions[1].sources = Sources
  /\ dispositions[1].award = award.recorded
  /\ award.recorded => UnchangedAwardSources
  /\ invoices # <<>> => CurrentReapplication # 0

\* Mutant: the basis is decided again.
ReplacementProofAnew ==
  [basis |-> IF eligible THEN "NORMAL" ELSE "EARLY", award |-> dispositions[1].award,
   sources |-> dispositions[1].sources,
   approval |-> IF invoices = <<>> THEN 0 ELSE CurrentReapplication]

ReplacementProof ==
  [basis |-> dispositions[1].basis, award |-> dispositions[1].award,
   sources |-> dispositions[1].sources,
   approval |-> IF invoices = <<>> THEN 0 ELSE CurrentReapplication]

ProofHolds(c) == IF dispositions = <<>> THEN FirstProofHolds ELSE ReplacementProofHolds(c)
ClosureProof == IF dispositions = <<>> THEN FirstProof ELSE ReplacementProof

\* _retain_closure_award, inside the transaction of a disposition.
RetainClosureAward(proof) ==
  award' = IF proof.award THEN [recorded |-> TRUE, sources |-> Sources] ELSE award

\* An approval bound to a disposition permits a handover while it is the
\* latest decision about its invoice and was taken on what preceded it.
BoundReviewIsCurrent(i) ==
  LET n == dispositions[i].approval
  IN  /\ n = LatestDecision(decisions[n].invoice) /\ decisions[n].outcome = "APPROVE"
      /\ decisions[n].basis = [sequence |-> dispositions[i].sequence, dispositions |-> i - 1]

\* The invoice of a handover consumes the award, and the approval if bound.
ConsumeBenefit(i, approval) ==
  invoices' = Append(invoices, [disposition |-> i, approval |-> approval, reversed |-> FALSE])

ReverseBenefit(i) ==
  invoices' = [m \in DOMAIN invoices |->
    IF invoices[m].disposition = i THEN [invoices[m] EXCEPT !.reversed = TRUE] ELSE invoices[m]]

BenefitNext ==
  \E d \in Desks :
    \/ PreviewBenefitAward(d) \/ RecordBenefitAward(d) \/ RecordReapplication(d)
    \/ \E outcome \in {"APPROVE", "HOLD"} : PreviewReapplication(d, outcome)
=============================================================================
