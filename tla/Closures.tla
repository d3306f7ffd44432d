------------------------------ MODULE Closures ------------------------------
(***************************************************************************)
(* The closure of one configured agreement (closures.py): a request, its   *)
(* review by event, and the cancellation of an agreement that was never    *)
(* used; with the payments the closure has to wait for, which the payment  *)
(* modules detail.  An owner's session acts on a page or on a signed       *)
(* preview it loaded earlier: `desk` is what each session last loaded.     *)
(* A submission repeated under its own idempotency key returns the first   *)
(* result and changes nothing: it is a stuttering step.                    *)
(***************************************************************************)
EXTENDS Integers, SequencesExt, FiniteSetsExt

CONSTANTS
  Desks,             \* sessions of the owner
  Modes,             \* savings_mode of the agreements checked: "METAL", "INR"
  Amount,            \* every contribution is of one amount
  MaxContributions,
  MaxRequests,       \* closure requests of the agreement
  MaxNotes           \* NOTE events a review writes

ASSUME ClosuresAssumption ==
  /\ Modes \subseteq {"METAL", "INR"}
  /\ Amount \in Nat \ {0} /\ MaxContributions \in Nat

VARIABLES
  mode,              \* SchemeAccount.savings_mode; "METAL" is gold or silver
  account,           \* SchemeAccount.status; "ACTIVE" is REDEMPTION_ELIGIBLE too
  eligible,          \* the duration of the contract has passed
  contributions,     \* Contribution rows with their receipts, in order
  closures,          \* SchemeClosureRequest rows with their events
  dispositions,      \* ConfiguredSettlement or InrSettlementProposal rows
  desk               \* what each session last loaded

closureVars == <<mode, account, eligible, contributions, closures, dispositions, desk>>

NothingLoaded == [kind |-> "NONE"]

ClosureInit ==
  /\ mode \in Modes
  /\ account = "ACTIVE"
  /\ eligible \in BOOLEAN
  /\ contributions = <<>> /\ closures = <<>> /\ dispositions = <<>>
  /\ desk = [d \in Desks |-> NothingLoaded]

Requests == DOMAIN closures
Rows == DOMAIN contributions
Sequence(c) == Len(closures[c].events)
Open == account \in {"ACTIVE", "CLOSURE_PENDING"}

\* A closure that was accepted stays so for payments, whatever followed.
AcceptedClosure ==
  \E c \in Requests : \E n \in DOMAIN closures[c].events :
    closures[c].events[n].action = "ACCEPT"

Paid == {i \in Rows : contributions[i].status = "PAID"}
Principal == Amount * Cardinality(Paid)

\* Only the last settlement of a metal agreement can be unreversed.
Redeemed == \E i \in DOMAIN dispositions : dispositions[i].completed /\ ~dispositions[i].retired

UnusedAgreement == contributions = <<>>
------------------------------------------------------------------------------
(* Payments, as far as a closure sees them.                                 *)

RequireNoAcceptedClosure == account # "CANCELLED" /\ ~AcceptedClosure

PaymentAllowed ==
  /\ account = "ACTIVE" /\ RequireNoAcceptedClosure
  /\ \A i \in Rows : contributions[i].status # "PENDING"
  /\ mode = "INR" => dispositions = <<>>
  /\ Len(contributions) < MaxContributions

AddContribution(channel, status, verified) ==
  contributions' = Append(contributions,
    [channel |-> channel, status |-> status, verified |-> verified])

NextVerified == 1 + Cardinality({i \in Rows : contributions[i].verified > 0})

StartCheckout ==
  /\ PaymentAllowed
  /\ AddContribution("RAZORPAY", "PENDING", 0)
  /\ UNCHANGED <<mode, account, eligible, closures, dispositions, desk>>

RecordCash ==
  /\ PaymentAllowed
  /\ AddContribution("IN_STORE_CASH", "PAID", NextVerified)
  /\ UNCHANGED <<mode, account, eligible, closures, dispositions, desk>>

\* A capture needs no permission of the closure, but its principal cannot be
\* recorded once the agreement's INR is disposed of.
RequireNewPrincipal == Open /\ (mode = "INR" => dispositions = <<>>)

Capture(i) ==
  /\ contributions[i].status = "PENDING"
  /\ RequireNewPrincipal
  /\ contributions' = [contributions EXCEPT ![i].status = "PAID", ![i].verified = NextVerified]
  /\ UNCHANGED <<mode, account, eligible, closures, dispositions, desk>>

\* Every attempt failed or was refunded in full (module PaymentRefunds).
RetireOrder(i) ==
  /\ contributions[i].status = "PENDING"
  /\ contributions' = [contributions EXCEPT ![i].status = "RETIRED"]
  /\ UNCHANGED <<mode, account, eligible, closures, dispositions, desk>>

\* The correction of an INR receipt waits for the review of any closure;
\* that of a metal receipt only for a settlement in force.
CorrectCash(i) ==
  /\ contributions[i].channel = "IN_STORE_CASH" /\ contributions[i].status = "PAID"
  /\ account # "REDEEMED" /\ ~Redeemed
  /\ mode = "INR" => account = "ACTIVE" /\ closures = <<>>
  /\ contributions' = [contributions EXCEPT ![i].status = "REVERSED"]
  /\ UNCHANGED <<mode, account, eligible, closures, dispositions, desk>>

DurationPasses ==
  /\ ~eligible /\ eligible' = TRUE
  /\ UNCHANGED <<mode, account, contributions, closures, dispositions, desk>>
------------------------------------------------------------------------------
(* The retained history, replayed (validate_closure_history).               *)

\* One event of a closure; "" refuses it.
Advance(state, action) ==
  CASE state = "" /\ action = "REQUESTED" -> "PENDING"
    [] state \in {"PENDING", "ACCEPTED"} /\ action = "NOTE" -> state
    [] state = "PENDING" /\ action = "ACCEPT" -> "ACCEPTED"
    [] state = "PENDING" /\ action = "WITHDRAW" -> "WITHDRAWN"
    [] state = "PENDING" /\ action = "REJECT" -> "REJECTED"
    [] state = "ACCEPTED" /\ action = "CANCEL" -> "CANCELLED"
    [] state = "ACCEPTED" /\ action = "SETTLE" -> "SETTLED"
    [] state = "SETTLED" /\ action = "REVERSE" -> "ACCEPTED"
    [] OTHER -> "INVALID"

Replay(events) == FoldLeft(LAMBDA state, event : Advance(state, event.action), "", events)

\* The last settlement of this closure, 0 when it has none.
Settlement(c) ==
  LET settled == {n \in DOMAIN closures[c].events : closures[c].events[n].action = "SETTLE"}
  IN  IF settled = {} THEN 0 ELSE closures[c].events[Max(settled)].disposition

ClosureHistoryIsValid(c) ==
  /\ Replay(closures[c].events) = closures[c].status
  /\ \A n \in DOMAIN closures[c].events :
       /\ closures[c].events[n].action = "SETTLE" => dispositions[closures[c].events[n].disposition].completed
       /\ closures[c].events[n].action = "REVERSE" => dispositions[closures[c].events[n].disposition].retired
  /\ closures[c].status = "SETTLED" => account = "REDEEMED" /\ ~dispositions[Settlement(c)].retired
  /\ closures[c].status = "ACCEPTED" /\ Settlement(c) # 0 => account = "CLOSURE_PENDING"
  /\ closures[c].status = "CANCELLED" => account = "CANCELLED" /\ UnusedAgreement
------------------------------------------------------------------------------
AppendEvent(c, action, status, disposition) ==
  closures' = [closures EXCEPT ![c] = [status |-> status,
    events |-> Append(@.events, [action |-> action, disposition |-> disposition])]]

RequestSchemeClosure ==
  /\ account \notin {"REDEEMED", "CANCELLED"}
  /\ \A c \in Requests : closures[c].status \notin {"PENDING", "ACCEPTED"}
  /\ Len(closures) < MaxRequests
  /\ closures' = Append(closures, [status |-> "PENDING",
       events |-> <<[action |-> "REQUESTED", disposition |-> 0]>>])
  /\ UNCHANGED <<mode, account, eligible, contributions, dispositions, desk>>

\* A page of the closure: it posts the number of events it showed.
LoadClosure(d, c) ==
  /\ desk' = [desk EXCEPT ![d] = [kind |-> "CLOSURE", closure |-> c, sequence |-> Sequence(c)]]
  /\ UNCHANGED <<mode, account, eligible, contributions, closures, dispositions>>

Current(d, c) ==
  /\ desk[d].kind = "CLOSURE" /\ desk[d].closure = c
  /\ ClosureHistoryIsValid(c)
  /\ desk[d].sequence = Sequence(c)

IsNote(event) == event.action = "NOTE" /\ event.disposition = 0
Notes == UNION {{c} \X {n \in DOMAIN closures[c].events : IsNote(closures[c].events[n])} : c \in Requests}

ReviewedStatus(c, action) ==
  CASE action = "NOTE" -> closures[c].status
    [] action = "ACCEPT" -> "ACCEPTED"
    [] action = "REJECT" -> "REJECTED"
    [] action = "WITHDRAW" -> "WITHDRAWN"

ReviewSchemeClosure(d, c, action) ==
  /\ Current(d, c)
  /\ closures[c].status \in IF action = "NOTE" THEN {"PENDING", "ACCEPTED"} ELSE {"PENDING"}
  /\ account \notin {"REDEEMED", "CANCELLED"}
  /\ action = "NOTE" => Cardinality(Notes) < MaxNotes
  /\ AppendEvent(c, action, ReviewedStatus(c, action), 0)
  /\ UNCHANGED <<mode, account, eligible, contributions, dispositions, desk>>

CancelUnusedAgreement(d, c) ==
  /\ Current(d, c)
  /\ closures[c].status = "ACCEPTED" /\ account = "ACTIVE"
  /\ UnusedAgreement
  /\ AppendEvent(c, "CANCEL", "CANCELLED", 0)
  /\ account' = "CANCELLED"
  /\ UNCHANGED <<mode, eligible, contributions, dispositions, desk>>

ClosureNext ==
  \/ StartCheckout \/ RecordCash \/ DurationPasses \/ RequestSchemeClosure
  \/ \E i \in Rows : Capture(i) \/ RetireOrder(i) \/ CorrectCash(i)
  \/ \E d \in Desks, c \in Requests :
       \/ LoadClosure(d, c) \/ CancelUnusedAgreement(d, c)
       \/ \E action \in {"NOTE", "ACCEPT", "WITHDRAW", "REJECT"} : ReviewSchemeClosure(d, c, action)
=============================================================================
