---------------------------- MODULE PaymentLedger ----------------------------
(***************************************************************************)
(* What the payment workflow of one agreement promises, without saying     *)
(* how: each contribution is either paid once or closed unpaid; a captured *)
(* payment pays at most one contribution; the metal of a paid contribution *)
(* is credited once; only a cash receipt can be corrected away.            *)
(* No requests, retries, events or orders appear here.                     *)
(***************************************************************************)
CONSTANTS Contributions, Payments, NoPayment

VARIABLES
  captured,   \* the provider holds the money of these payments
  outcome,    \* contribution -> "open", "paid" or "closed"
  payer,      \* contribution -> the payment that paid it; NoPayment for cash
  metal       \* the contributions whose metal has been credited

vars == <<captured, outcome, payer, metal>>

TypeOK == /\ captured \subseteq Payments
          /\ outcome \in [Contributions -> {"open", "paid", "closed"}]
          /\ payer \in [Contributions -> Payments \cup {NoPayment}]
          /\ metal \subseteq Contributions

Init == /\ captured = {}
        /\ outcome = [c \in Contributions |-> "open"]
        /\ payer = [c \in Contributions |-> NoPayment]
        /\ metal = {}

Capture(p) == /\ captured' = captured \cup {p}
              /\ UNCHANGED <<outcome, payer, metal>>

\* A captured payment that has paid nothing pays an open contribution, whose
\* metal may be credited in the same step.
Pay(p, c) == /\ p \in captured
             /\ \A d \in Contributions : payer[d] # p
             /\ outcome[c] = "open"
             /\ outcome' = [outcome EXCEPT ![c] = "paid"]
             /\ payer' = [payer EXCEPT ![c] = p]
             /\ metal' \in {metal, metal \cup {c}}
             /\ UNCHANGED captured

PayCash(c) == /\ outcome[c] = "open"
              /\ outcome' = [outcome EXCEPT ![c] = "paid"]
              /\ UNCHANGED <<captured, payer, metal>>

CreditMetal(c) == /\ outcome[c] = "paid"
                  /\ c \notin metal
                  /\ metal' = metal \cup {c}
                  /\ UNCHANGED <<captured, outcome, payer>>

\* An open contribution is abandoned, or a cash receipt is corrected.
Close(c) == /\ outcome[c] # "closed"
            /\ payer[c] = NoPayment
            /\ outcome' = [outcome EXCEPT ![c] = "closed"]
            /\ UNCHANGED <<captured, payer, metal>>

Next == \/ \E p \in Payments : Capture(p)
        \/ \E p \in Payments, c \in Contributions : Pay(p, c)
        \/ \E c \in Contributions : PayCash(c) \/ CreditMetal(c) \/ Close(c)

Spec == Init /\ [][Next]_vars
=============================================================================
