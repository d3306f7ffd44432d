------------------------------- MODULE Showroom -------------------------------
(***************************************************************************)
(* What the owner records at the showroom: in-store cash received for the  *)
(* agreement, its correction, and the redemption of the accumulated metal  *)
(* (services.py).                                                          *)
(*                                                                         *)
(* Every operation here is one transaction under the agreement's lock.     *)
(* The allocation that follows a cash receipt is not: it is a second       *)
(* transaction of the same request, which takes the contribution's lock    *)
(* only, so a redemption or a correction may come between.                 *)
(***************************************************************************)
EXTENDS Confirmation, Integers, FiniteSets, Functions

CONSTANTS
  Receipts,       \* idempotency keys of reviewed cash receipts
  Settlements,    \* idempotency keys of redemptions
  Grams,          \* Scheme Rate -> quantity one contribution buys at it
  Quantities      \* bound: quantities the owner may enter for a redemption

ASSUME GramsAssumption == /\ Grams \in [Rates -> Nat \ {0}]
                          /\ Quantities \subseteq Nat \ {0}

VARIABLES
  preview,          \* receipt key -> the rate reviewed with the owner, 0 if none
  receipt,          \* InStoreCashReceipt: key -> contribution, 0 if none
  correction_open,  \* cash rows within IN_STORE_CASH_REVERSAL_HOURS
  redeemed,         \* Redemption: key -> quantity, 0 if none
  redeemed_after,   \* Redemption: key -> latest contribution when it completed
  reversed          \* redemptions with a RedemptionReversal

showroomVars == <<preview, receipt, correction_open, redeemed, redeemed_after, reversed>>

ShowroomTypeOK ==
  /\ preview \in [Receipts -> Rates \cup {0}]
  /\ receipt \in [Receipts -> 0..MaxContributions]
  /\ correction_open \subseteq Contributions
  /\ redeemed \in [Settlements -> Nat]
  /\ redeemed_after \in [Settlements -> 0..MaxContributions]
  /\ reversed \subseteq Settlements

ShowroomInit ==
  /\ preview = [r \in Receipts |-> 0]
  /\ receipt = [r \in Receipts |-> 0]
  /\ correction_open = {}
  /\ redeemed = [s \in Settlements |-> 0]
  /\ redeemed_after = [s \in Settlements |-> 0]
  /\ reversed = {}

-----------------------------------------------------------------------------
(* get_metal_balance *)

\* The grams allocated to contribution c, all its allocations together.
AllocatedGrams(c) == SumFunction([i \in DOMAIN allocations[c] |-> Grams[allocations[c][i]]])

Accumulated == SumFunction([c \in {d \in Rows : status[d] = "PAID"} |-> AllocatedGrams(c)])

StandingRedemptions == {s \in Settlements : redeemed[s] # 0} \ reversed

Withdrawn == SumFunction([s \in StandingRedemptions |-> redeemed[s]])

Balance == Accumulated - Withdrawn

\* Earlier redemptions forgotten.
OutstandingBeforeRedemptions == Accumulated

\* get_outstanding_entitlement of a metal agreement.
Outstanding == Balance

-----------------------------------------------------------------------------
(* In-store cash *)

\* A checkout still without its provider order overlooked.
OnlinePendingWithOrder == \E c \in Rows : /\ status[c] = "PENDING"
                                          /\ channel[c] = "RAZORPAY"
                                          /\ order_id[c] # 0

\* An online payment is pending: it may yet be captured.
OnlinePending == \E c \in Rows : status[c] = "PENDING" /\ channel[c] = "RAZORPAY"

\* preview_in_store_cash_contribution: the owner reviews today's rate.
PreviewCash(r) ==
  /\ receipt[r] = 0
  /\ initiation_open
  /\ ContributionAllowed(0)
  /\ preview' = [preview EXCEPT ![r] = current_rate]
  /\ UNCHANGED <<agreementVars, confirmationVars, receipt, correction_open,
                 redeemed, redeemed_after, reversed>>

\* record_in_store_cash_contribution, the first transaction: the contribution
\* and its receipt.  The request continues with the allocation.
RecordCash(w, r) ==
  /\ At(w, "idle")
  /\ receipt[r] = 0
  /\ initiation_open
  /\ ~OnlinePending
  /\ ContributionAllowed(0)
  /\ preview[r] = current_rate
  /\ \E c \in Contributions :
       /\ InsertContribution(c, "PAID_UNALLOCATED", "IN_STORE_CASH")
       /\ receipt' = [receipt EXCEPT ![r] = c]
       /\ correction_open' = correction_open \cup {c}
       /\ Begin(w, "entitle", "allocate", NoPayment, c)
  /\ UNCHANGED <<account_status, clockVars, listening, event, identified, attempts,
                 owner_results, acknowledged, faults, preview, redeemed,
                 redeemed_after, reversed>>

\* The same submission again: the recorded contribution, and its entitlement
\* once more.
ReplayCash(w, r) ==
  /\ At(w, "idle")
  /\ receipt[r] # 0
  /\ Begin(w, "entitle", "allocate", NoPayment, receipt[r])
  /\ UNCHANGED <<agreementVars, listening, event, identified, attempts,
                 owner_results, acknowledged, faults, showroomVars>>

\* The routine correction window of a cash row passes.
CorrectionCloses(c) ==
  /\ c \in correction_open
  /\ correction_open' = correction_open \ {c}
  /\ UNCHANGED <<agreementVars, confirmationVars, preview, receipt, redeemed,
                 redeemed_after, reversed>>

\* reverse_in_store_cash_contribution
ReverseCash(c) ==
  /\ channel[c] = "IN_STORE_CASH"
  /\ status[c] \in Successful
  /\ c \in correction_open
  /\ account_status # "REDEEMED"
  /\ \A s \in StandingRedemptions : redeemed_after[s] < c
  /\ allocations[c] = <<>> \/ Balance >= AllocatedGrams(c)
  /\ status' = [status EXCEPT ![c] = "REVERSED"]
  /\ UNCHANGED <<account_status, clockVars, latest, channel, period, scheme_rate,
                 order_id, reference, expired, allocations, confirmationVars,
                 showroomVars>>

-----------------------------------------------------------------------------
(* Redemption *)

\* complete_redemption: any part of the balance, or all of it, which closes
\* the account.
CompleteRedemption(s) ==
  /\ redeemed[s] = 0
  /\ account_status # "REDEEMED"
  /\ month >= EligibleFrom
  /\ \E amount \in Quantities :
       /\ amount <= Outstanding
       /\ redeemed' = [redeemed EXCEPT ![s] = amount]
       /\ account_status' = IF amount = Outstanding THEN "REDEEMED" ELSE account_status
  /\ redeemed_after' = [redeemed_after EXCEPT ![s] = latest]
  /\ UNCHANGED <<clockVars, rowVars, confirmationVars, preview, receipt,
                 correction_open, reversed>>

\* reverse_redemption
ReverseRedemption(s) ==
  /\ s \in StandingRedemptions
  /\ reversed' = reversed \cup {s}
  /\ account_status' = "ACTIVE"
  /\ UNCHANGED <<clockVars, rowVars, confirmationVars, preview, receipt,
                 correction_open, redeemed, redeemed_after>>

-----------------------------------------------------------------------------
ShowroomStep ==
  \/ \E r \in Receipts : \/ PreviewCash(r)
                         \/ \E w \in Workers : RecordCash(w, r) \/ ReplayCash(w, r)
  \/ \E c \in Contributions : CorrectionCloses(c) \/ ReverseCash(c)
  \/ \E s \in Settlements : CompleteRedemption(s) \/ ReverseRedemption(s)
=============================================================================
