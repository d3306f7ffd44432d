------------------------ MODULE PrincipalDisposition ------------------------
(***************************************************************************)
(* What closing one agreement promises, without requests, tokens or        *)
(* evidence: the recorded principal is handed over once and in full, the   *)
(* agreement is closed only then, and only the full return of everything   *)
(* handed over makes it the customer's again.  Principal stops moving as   *)
(* soon as any of it is handed over.                                       *)
(***************************************************************************)
EXTENDS Naturals

VARIABLES
  principal,  \* what the recorded sources add up to
  handed,     \* what the customer holds of it, as jewellery or refunds
  phase       \* "saving", "accepted", "disposed" or "cancelled"

vars == <<principal, handed, phase>>

Init == principal = 0 /\ handed = 0 /\ phase = "saving"

\* Money still on its way when the closure was accepted is credited too.
Credit == /\ phase \in {"saving", "accepted"} /\ handed = 0
          /\ principal' \in Nat /\ principal' > principal
          /\ UNCHANGED <<handed, phase>>

Correct == /\ phase \in {"saving", "accepted"} /\ handed = 0
           /\ principal' \in Nat /\ principal' < principal
           /\ UNCHANGED <<handed, phase>>

Accept == /\ phase = "saving" /\ phase' = "accepted"
          /\ UNCHANGED <<principal, handed>>

HandOver == /\ phase = "accepted"
            /\ handed' \in handed + 1 .. principal
            /\ UNCHANGED <<principal, phase>>

Dispose == /\ phase = "accepted" /\ principal > 0
           /\ handed' = principal /\ phase' = "disposed"
           /\ UNCHANGED principal

TakeBack == /\ phase \in {"accepted", "disposed"} /\ handed > 0
            /\ handed' = 0 /\ phase' = "accepted"
            /\ UNCHANGED principal

Cancel == /\ phase = "accepted" /\ principal = 0
          /\ phase' = "cancelled"
          /\ UNCHANGED <<principal, handed>>

Next == \/ Credit \/ Correct \/ Accept \/ HandOver \/ Dispose \/ TakeBack \/ Cancel

Spec == Init /\ [][Next]_vars
=============================================================================
