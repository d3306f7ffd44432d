----------------------------- MODULE Settlements -----------------------------
(***************************************************************************)
(* The two dispositions of a closed agreement.  A gold or silver agreement *)
(* is settled in full (settlements.py): one transaction hands over the     *)
(* whole recorded metal, consumes the benefit and closes the agreement;    *)
(* its reversal takes everything back.  An INR agreement is disposed of in *)
(* steps (inr_settlements.py, inr_corrections.py): a proposal splits all   *)
(* principal into an invoice and refunds to the sources of the rest; each  *)
(* leg is recorded when it really happened; the agreement closes when none *)
(* is outstanding; a void or a full return retires the proposal and a      *)
(* replacement may follow.                                                 *)
(***************************************************************************)
EXTENDS BenefitRights

CONSTANTS
  MaxDispositions,  \* bound on settlements and proposals
  Invoices          \* what the jewellery of a proposal may cost, net of the benefit

ASSUME MaxDispositionsAssumption == MaxDispositions \in Nat
ASSUME InvoicesAssumption == Invoices \subseteq Nat

settlementVars == <<closureVars, benefitVars>>

JewelleryLeg == 0

\* Everything a settlement is decided on (full_settlement_evidence).
FullSettlementHolds(c) ==
  /\ mode = "METAL"
  /\ ClosureHistoryIsValid(c)
  /\ closures[c].status = "ACCEPTED" /\ Open
  /\ ProofHolds(c)
  /\ SourcesSettled /\ Principal > 0
  /\ \A i \in DOMAIN dispositions : dispositions[i].retired

FullSettlementEvidence(c) ==
  [closure |-> c, sequence |-> Sequence(c), payments |-> contributions,
   previous |-> Len(dispositions), proof |-> ClosureProof]

PreviewFullSettlement(d, c) ==
  /\ FullSettlementHolds(c)
  /\ desk' = [desk EXCEPT ![d] = [kind |-> "SETTLE", evidence |-> FullSettlementEvidence(c)]]
  /\ UNCHANGED <<mode, account, eligible, contributions, closures, dispositions, benefitVars>>

Settle(c, proof) ==
  LET n == Len(dispositions) + 1
  IN  /\ dispositions' = Append(dispositions,
           [closure |-> c, sequence |-> Sequence(c), basis |-> proof.basis, award |-> proof.award,
            sources |-> Sources, invoice |-> Principal, refunds |-> <<>>, done |-> {JewelleryLeg},
            completed |-> TRUE, retired |-> FALSE, resolved |-> 0, approval |-> proof.approval])
      /\ AppendEvent(c, "SETTLE", "SETTLED", n)
      /\ account' = "REDEEMED"
      /\ RetainClosureAward(proof)
      /\ IF proof.award THEN ConsumeBenefit(n, proof.approval) ELSE UNCHANGED invoices

\* Mutant: the preview is trusted.
SettleConfiguredAgreementOnPreview(d) ==
  /\ desk[d].kind = "SETTLE" /\ mode = "METAL" /\ Len(dispositions) < MaxDispositions
  /\ account # "REDEEMED" /\ closures[desk[d].evidence.closure].status = "ACCEPTED"
  /\ Settle(desk[d].evidence.closure, desk[d].evidence.proof)
  /\ UNCHANGED <<mode, eligible, contributions, desk, decisions>>

SettleConfiguredAgreement(d) ==
  /\ desk[d].kind = "SETTLE" /\ mode = "METAL" /\ Len(dispositions) < MaxDispositions
  /\ LET c == desk[d].evidence.closure
     IN  /\ FullSettlementHolds(c)
         /\ desk[d].evidence = FullSettlementEvidence(c)
         /\ Settle(c, ClosureProof)
  /\ UNCHANGED <<mode, eligible, contributions, desk, decisions>>

\* Retained links, not a permission (validate_configured_settlement and
\* validate_independent_settlement_benefit).
ConfiguredSettlementIsValid(i) ==
  /\ dispositions[i].invoice =
       Amount * Cardinality({j \in DOMAIN dispositions[i].sources : dispositions[i].sources[j].status = "PAID"})
  /\ \E n \in DOMAIN closures[dispositions[i].closure].events :
       /\ closures[dispositions[i].closure].events[n] = [action |-> "SETTLE", disposition |-> i]
       /\ n = dispositions[i].sequence + 1
  /\ dispositions[i].award <=> \E m \in DOMAIN invoices : invoices[m].disposition = i
  /\ \A m \in DOMAIN invoices : invoices[m].disposition = i => invoices[m].reversed = dispositions[i].retired

\* Mutant: the agreement is reopened.
ReverseConfiguredSettlementReopening(d, i) ==
  /\ mode = "METAL" /\ ConfiguredSettlementIsValid(i)
  /\ Current(d, dispositions[i].closure)
  /\ LET c == dispositions[i].closure
     IN  /\ closures[c].status = "SETTLED" /\ account = "REDEEMED"
         /\ dispositions' = [dispositions EXCEPT ![i].retired = TRUE, ![i].resolved = Sequence(c) + 1]
         /\ AppendEvent(c, "REVERSE", "ACCEPTED", i)
  /\ account' = "ACTIVE"
  /\ ReverseBenefit(i)
  /\ UNCHANGED <<mode, eligible, contributions, desk, award, decisions>>

ReverseConfiguredSettlement(d, i) ==
  /\ mode = "METAL" /\ ConfiguredSettlementIsValid(i)
  /\ Current(d, dispositions[i].closure)
  /\ LET c == dispositions[i].closure
     IN  /\ closures[c].status = "SETTLED" /\ account = "REDEEMED"
         /\ ~dispositions[i].retired /\ Last(closures[c].events).disposition = i
         /\ dispositions' = [dispositions EXCEPT ![i].retired = TRUE, ![i].resolved = Sequence(c) + 1]
         /\ AppendEvent(c, "REVERSE", "ACCEPTED", i)
  /\ account' = "CLOSURE_PENDING"
  /\ ReverseBenefit(i)
  /\ UNCHANGED <<mode, eligible, contributions, desk, award, decisions>>

ConfiguredNext ==
  \E d \in Desks :
    \/ SettleConfiguredAgreement(d)
    \/ \E c \in Requests : PreviewFullSettlement(d, c)
    \/ \E i \in DOMAIN dispositions : ReverseConfiguredSettlement(d, i)

-----------------------------------------------------------------------------
(* The disposition of an INR agreement. *)

Min2(a, b) == IF a < b THEN a ELSE b
Max2(a, b) == IF a > b THEN a ELSE b

\* calculate_inr_final_settlement
PrincipalToInvoice(principal, payable) == Min2(principal, payable)

\* Earlier verified receipts pay the invoice first; the rest is refunded to
\* its own source (refund_legs).
Before(i) == Amount * Cardinality({j \in Paid : contributions[j].verified < contributions[i].verified})
Remainder(i, invoice) == Amount - Min2(Amount, Max2(0, invoice - Before(i)))
RefundLegs(invoice) == [i \in {j \in Paid : Remainder(j, invoice) > 0} |-> Remainder(i, invoice)]

Legs(i) == (IF dispositions[i].invoice > 0 THEN {JewelleryLeg} ELSE {})
             \cup DOMAIN dispositions[i].refunds
LegAmount(i, leg) == IF leg = JewelleryLeg THEN dispositions[i].invoice ELSE dispositions[i].refunds[leg]
Fulfilled(i) == SumFunction([leg \in dispositions[i].done |-> LegAmount(i, leg)])

\* What the provider has refunded of one capture: a return to the showroom
\* gives none of it back (require_original_refund_capacity).
RefundedOnline(i) ==
  IF contributions[i].channel # "RAZORPAY" THEN 0
  ELSE SumFunction([n \in {k \in DOMAIN dispositions : i \in dispositions[k].done} |-> dispositions[n].refunds[i]])

\* Mutant: earlier generations do not count.
WithinRefundCapacityNow(refunds) == \A i \in DOMAIN refunds : refunds[i] <= Amount

WithinRefundCapacity(refunds) == \A i \in DOMAIN refunds : RefundedOnline(i) + refunds[i] <= Amount

\* One linear chain on unchanged sources (validate_inr_history).
InrHistoryIsValid ==
  \A i \in DOMAIN dispositions :
    /\ dispositions[i].sources = Sources
    /\ dispositions[i].retired <=> dispositions[i].resolved > 0
    /\ dispositions[i].completed => Fulfilled(i) = Principal
    /\ i > 1 => /\ dispositions[i-1].retired
                /\ dispositions[i].closure = dispositions[i-1].closure
                /\ dispositions[i].sequence >= dispositions[i-1].resolved

\* The invoices and the handovers agree (validate_independent_inr_benefit).
InrBenefitIsValid(i) ==
  /\ dispositions[i].award = award.recorded
  /\ award.recorded => UnchangedAwardSources
  /\ dispositions[i].award => dispositions[i].basis = "NORMAL" /\ dispositions[i].invoice > 0
  /\ (\E m \in DOMAIN invoices : invoices[m].disposition = i)
       <=> dispositions[i].award /\ JewelleryLeg \in dispositions[i].done
  /\ \A m \in DOMAIN invoices :
       /\ invoices[m].disposition = i => invoices[m].reversed = dispositions[i].retired
       /\ invoices[m].disposition < i => invoices[m].reversed
------------------------------------------------------------------------------
ProposalHolds(c, payable) ==
  /\ mode = "INR"
  /\ ClosureHistoryIsValid(c) /\ InrHistoryIsValid
  /\ closures[c].status = "ACCEPTED" /\ Open
  /\ \A i \in DOMAIN dispositions : dispositions[i].retired
  /\ ProofHolds(c)
  /\ SourcesSettled /\ Principal > 0
  /\ ClosureProof.award => payable > 0
  /\ WithinRefundCapacity(RefundLegs(PrincipalToInvoice(Principal, payable)))

ProposalEvidence(c, payable) ==
  [closure |-> c, sequence |-> Sequence(c), payments |-> contributions, payable |-> payable,
   previous |-> Len(dispositions), proof |-> ClosureProof]

PreviewInrSettlement(d, c, payable) ==
  /\ ProposalHolds(c, payable)
  /\ desk' = [desk EXCEPT ![d] = [kind |-> "PROPOSE", evidence |-> ProposalEvidence(c, payable)]]
  /\ UNCHANGED <<mode, account, eligible, contributions, closures, dispositions, benefitVars>>

Proposal(c, payable, proof) ==
  LET invoice == PrincipalToInvoice(Principal, payable)
  IN  [closure |-> c, sequence |-> Sequence(c), basis |-> proof.basis, award |-> proof.award,
       sources |-> Sources, invoice |-> invoice, refunds |-> RefundLegs(invoice), done |-> {},
       completed |-> FALSE, retired |-> FALSE, resolved |-> 0, approval |-> proof.approval]

ProposeInrSettlement(d) ==
  /\ desk[d].kind = "PROPOSE" /\ Len(dispositions) < MaxDispositions
  /\ LET c == desk[d].evidence.closure
         payable == desk[d].evidence.payable
     IN  /\ ProposalHolds(c, payable)
         /\ desk[d].evidence = ProposalEvidence(c, payable)
         /\ RetainClosureAward(ClosureProof)
         /\ dispositions' = Append(dispositions, Proposal(c, payable, ClosureProof))
  /\ account' = "CLOSURE_PENDING"
  /\ UNCHANGED <<mode, eligible, contributions, closures, desk, invoices, decisions>>

\* Mutant: a superseded approval is still good.
PendingProposalUnderAnyReview(i) ==
  /\ InrBenefitIsValid(i) /\ InrHistoryIsValid
  /\ ~dispositions[i].retired /\ ~dispositions[i].completed
  /\ closures[dispositions[i].closure].status = "ACCEPTED" /\ account = "CLOSURE_PENDING"
  /\ Sequence(dispositions[i].closure) = dispositions[i].sequence

\* _pending_proposal
PendingProposal(i) ==
  /\ InrBenefitIsValid(i) /\ InrHistoryIsValid
  /\ dispositions[i].approval # 0 /\ JewelleryLeg \notin dispositions[i].done => BoundReviewIsCurrent(i)
  /\ ~dispositions[i].retired /\ ~dispositions[i].completed
  /\ closures[dispositions[i].closure].status = "ACCEPTED" /\ account = "CLOSURE_PENDING"
  /\ ClosureHistoryIsValid(dispositions[i].closure)
  /\ Sequence(dispositions[i].closure) = dispositions[i].sequence

RecordInrFulfilment(i, leg) ==
  /\ mode = "INR" /\ leg \in Legs(i) \ dispositions[i].done
  /\ PendingProposal(i)
  /\ dispositions' = [dispositions EXCEPT ![i].done = @ \cup {leg}]
  /\ IF leg = JewelleryLeg /\ dispositions[i].award
     THEN ConsumeBenefit(i, dispositions[i].approval)
     ELSE UNCHANGED invoices
  /\ UNCHANGED <<mode, account, eligible, contributions, closures, desk, award, decisions>>

CompleteInrSettlement(i) ==
  /\ mode = "INR" /\ PendingProposal(i)
  /\ Fulfilled(i) = Principal
  /\ dispositions' = [dispositions EXCEPT ![i].completed = TRUE]
  /\ AppendEvent(dispositions[i].closure, "SETTLE", "SETTLED", i)
  /\ account' = "REDEEMED"
  /\ UNCHANGED <<mode, eligible, contributions, desk, benefitVars>>

\* validate_inr_disposition_state
InrDispositionStateIsValid ==
  LET i == Len(dispositions)
      completed == dispositions[i].completed /\ ~dispositions[i].retired
  IN  /\ InrHistoryIsValid /\ ClosureHistoryIsValid(dispositions[i].closure)
      /\ account = IF completed THEN "REDEEMED" ELSE "CLOSURE_PENDING"
      /\ closures[dispositions[i].closure].status = IF completed THEN "SETTLED" ELSE "ACCEPTED"

\* A void needs no fulfilment, a full return every one of them.
ResolutionEvidence(i) ==
  [proposal |-> i, sequence |-> Sequence(dispositions[i].closure), returns |-> dispositions[i].done,
   completed |-> dispositions[i].completed]

ResolutionHolds(i) ==
  /\ mode = "INR" /\ i = Len(dispositions) /\ ~dispositions[i].retired
  /\ InrBenefitIsValid(i) /\ InrDispositionStateIsValid

PreviewInrResolution(d, i) ==
  /\ ResolutionHolds(i)
  /\ desk' = [desk EXCEPT ![d] = [kind |-> "RESOLVE", evidence |-> ResolutionEvidence(i)]]
  /\ UNCHANGED <<mode, account, eligible, contributions, closures, dispositions, benefitVars>>

ResolveInrSettlement(d) ==
  /\ desk[d].kind = "RESOLVE"
  /\ LET i == desk[d].evidence.proposal
         c == dispositions[i].closure
     IN  /\ ResolutionHolds(i) /\ desk[d].evidence = ResolutionEvidence(i)
         /\ AppendEvent(c, IF dispositions[i].completed THEN "REVERSE" ELSE "NOTE", "ACCEPTED", i)
         /\ dispositions' = [dispositions EXCEPT ![i].retired = TRUE, ![i].resolved = Sequence(c) + 1]
         /\ ReverseBenefit(i)
  /\ account' = "CLOSURE_PENDING"
  /\ UNCHANGED <<mode, eligible, contributions, desk, award, decisions>>

InrNext ==
  \/ \E d \in Desks :
       \/ ProposeInrSettlement(d) \/ ResolveInrSettlement(d)
       \/ \E c \in Requests, payable \in Invoices : PreviewInrSettlement(d, c, payable)
       \/ \E i \in DOMAIN dispositions : PreviewInrResolution(d, i)
  \/ \E i \in DOMAIN dispositions :
       \/ CompleteInrSettlement(i)
       \/ \E leg \in Legs(i) : RecordInrFulfilment(i, leg)
=============================================================================
