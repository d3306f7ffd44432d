------------------------ MODULE ClosedAgreement_proofs ------------------------
(***************************************************************************)
(* Theorems about ClosedAgreement, for every number of sessions, requests, *)
(* contributions, dispositions and decisions.                              *)
(***************************************************************************)
EXTENDS ClosedAgreement, Sums, FiniteSetTheorems, WellFoundedInduction, SequenceTheorems, TLAPS

-----------------------------------------------------------------------------
(* Tables: sequences of rows. *)

\* A table is numbered without gaps.
IsTable(s) == s \in Seq(Range(s))

\* A table's rows are numbered from 1.
LEMMA TableNumbers ==
  \A s : IsTable(s) => Len(s) \in Nat /\ DOMAIN s = 1..Len(s) /\ (s = <<>> <=> Len(s) = 0)
<1> SUFFICES ASSUME NEW s, IsTable(s)
             PROVE  Len(s) \in Nat /\ DOMAIN s = 1..Len(s) /\ (s = <<>> <=> Len(s) = 0)
  OBVIOUS
<1>1. Len(s) \in Nat /\ DOMAIN s = 1..Len(s)
  BY LenProperties DEF IsTable
<1>2. Len(<<>>) = 0 /\ (s # <<>> => Len(s) \in Nat \ {0})
  BY EmptySeq DEF IsTable
<1> QED  BY <1>1, <1>2

\* An insert keeps the rows there are and adds the next number.
LEMMA TableGrows ==
  \A s, e : IsTable(s) =>
    /\ IsTable(Append(s, e)) /\ Len(Append(s, e)) = Len(s) + 1
    /\ DOMAIN Append(s, e) = 1..(Len(s) + 1)
    /\ Append(s, e)[Len(s) + 1] = e
    /\ \A i \in 1..Len(s) : Append(s, e)[i] = s[i]
<1> SUFFICES ASSUME NEW s, NEW e, IsTable(s)
             PROVE  /\ IsTable(Append(s, e)) /\ Len(Append(s, e)) = Len(s) + 1
                    /\ DOMAIN Append(s, e) = 1..(Len(s) + 1)
                    /\ Append(s, e)[Len(s) + 1] = e
                    /\ \A i \in 1..Len(s) : Append(s, e)[i] = s[i]
  OBVIOUS
<1> DEFINE S == Range(s) \cup {e}
           t == Append(s, e)
<1>1. s \in Seq(S)
  BY SeqMonotonic DEF IsTable
<1>2. /\ t \in Seq(S) /\ Len(t) = Len(s) + 1
      /\ \A i \in 1..Len(s) : t[i] = s[i]
      /\ t[Len(s) + 1] = e
  BY <1>1, AppendProperties
<1>3. Len(t) \in Nat /\ DOMAIN t = 1..Len(t)
  BY <1>2, LenProperties
<1>4. t \in [1..Len(t) -> Range(t)]
  BY <1>2, <1>3, LenProperties DEF Range
<1>5. \A u, R : Len(u) \in Nat /\ u \in [1..Len(u) -> R] => u \in Seq(R)
  OBVIOUS
<1>6. t \in Seq(Range(t))
  BY <1>3, <1>4, <1>5
<1> QED  BY <1>2, <1>3, <1>6 DEF IsTable

\* An update of rows adds and removes none.
LEMMA TableKept ==
  \A s, t : IsTable(s) /\ t = [i \in DOMAIN s |-> t[i]] => IsTable(t) /\ Len(t) = Len(s)
<1> SUFFICES ASSUME NEW s, NEW t, IsTable(s), t = [i \in DOMAIN s |-> t[i]]
             PROVE  IsTable(t) /\ Len(t) = Len(s)
  OBVIOUS
<1>1. Len(s) \in Nat /\ DOMAIN s = 1..Len(s)
  BY TableNumbers
<1>2. DOMAIN t = 1..Len(s)
  BY <1>1
<1>3. t \in [1..Len(s) -> Range(t)]
  BY <1>2 DEF Range
<1>4. t \in Seq(Range(t))
  BY <1>1, <1>3
<1>5. Len(t) \in Nat /\ DOMAIN t = 1..Len(t)
  BY <1>4, LenProperties
<1>6. Len(t) = Len(s)
  BY <1>1, <1>2, <1>5
<1> QED  BY <1>4, <1>6 DEF IsTable

\* A set of row numbers that is not empty has a greatest one.
LEMMA GreatestOfRows ==
  \A n \in Nat : \A T \in SUBSET (1..n) : T # {} => Max(T) \in T /\ \A k \in T : k <= Max(T)
<1> SUFFICES ASSUME NEW n \in Nat, NEW T \in SUBSET (1..n), T # {}
             PROVE  Max(T) \in T /\ \A k \in T : k <= Max(T)
  OBVIOUS
<1> DEFINE U == {n - k : k \in T}
<1>a. \A k \in T : n - k \in Nat
  OBVIOUS
<1>b. U \subseteq Nat
  BY <1>a
<1>c. U # {}
  OBVIOUS
<1>1. U \subseteq Nat /\ U # {}
  BY <1>b, <1>c
<1>2. \E x \in U : \A y \in U : ~ (<<y, x>> \in OpToRel(<, Nat))
  BY <1>1, NatLessThanWellFounded, WFMin
<1>3. PICK x \in U : \A y \in U : ~ (<<y, x>> \in OpToRel(<, Nat))
  BY <1>2
<1>4. \A y \in U : ~ (y < x)
  BY <1>1, <1>3 DEF OpToRel
<1>5. PICK m \in T : x = n - m
  BY <1>3
<1>6. \A k \in T : m >= k
  BY <1>4, <1>5
<1>7. \E g \in T : \A k \in T : g >= k
  BY <1>6
<1>8. Max(T) \in T /\ \A k \in T : Max(T) >= k
  BY <1>7 DEF Max
<1> QED  BY <1>8
-----------------------------------------------------------------------------
(* The inductive invariant. *)

RowFields == {"closure", "sequence", "basis", "award", "sources", "invoice", "refunds", "done",
              "completed", "retired", "resolved", "approval"}

\* Every row has its columns and points at rows that exist.
TablesAreSound ==
  /\ IsTable(dispositions) /\ IsTable(invoices) /\ IsTable(decisions)
  /\ \A i \in DOMAIN dispositions : dispositions[i] = [f \in RowFields |-> dispositions[i][f]]
  /\ \A m \in DOMAIN invoices :
       /\ invoices[m] = [f \in {"disposition", "approval", "reversed"} |-> invoices[m][f]]
       /\ invoices[m].disposition \in DOMAIN dispositions
       /\ invoices[m].approval \in 0..Len(decisions)

\* Only the invoice of a replacement uses an approval up.
FirstInvoiceNeedsNone == invoices # <<>> => invoices[1].approval = 0

\* What a proposal still to be handed over was bound to: nothing while no
\* invoice was written, and since then an approval about the last of them.
BoundTo(i) ==
  IF invoices = <<>> THEN dispositions[i].approval = 0
  ELSE LET n == dispositions[i].approval
       IN  /\ n # 0 /\ n \in DOMAIN decisions
           /\ decisions[n].outcome = "APPROVE" /\ decisions[n].invoice = Len(invoices)

Awaiting(i) == ~dispositions[i].retired /\ JewelleryLeg \notin dispositions[i].done

ProposalsAreBound ==
  mode = "INR" => \A i \in DOMAIN dispositions : Awaiting(i) => BoundTo(i)

\* The benefit part of BenefitSpentOnce.
OneInvoiceAtATime ==
  /\ \A m \in DOMAIN invoices : m < Len(invoices) => invoices[m].reversed
  /\ \A m \in DOMAIN invoices : m > 1 =>
       /\ invoices[m].approval # 0
       /\ decisions[invoices[m].approval].outcome = "APPROVE"
       /\ decisions[invoices[m].approval].invoice = m - 1
       /\ \A k \in Decisions(m - 1) : k <= invoices[m].approval
       /\ \A k \in DOMAIN invoices : k # m => invoices[k].approval # invoices[m].approval

BenefitInv ==
  /\ TablesAreSound
  /\ FirstInvoiceNeedsNone
  /\ ProposalsAreBound
  /\ BasisIsKept
  /\ OneInvoiceAtATime

\* The invariant says what the model checker checked, and more.
LEMMA SpentInOrder == BasisIsKept /\ OneInvoiceAtATime => BenefitSpentOnce
  BY DEF BenefitSpentOnce, OneInvoiceAtATime

\* A new agreement has no dispositions.
LEMMA InitBenefitInv == Init => BenefitInv
<1> SUFFICES ASSUME Init  PROVE BenefitInv
  OBVIOUS
<1>1. dispositions = <<>> /\ invoices = <<>> /\ decisions = <<>>
  BY DEF Init, ClosureInit, BenefitInit
<1>2. IsTable(<<>>)
  BY EmptySeq DEF IsTable
<1>3. DOMAIN dispositions = {} /\ DOMAIN invoices = {}
  BY <1>1, <1>2, TableNumbers
<1> QED  BY <1>1, <1>2, <1>3 DEF BenefitInv, TablesAreSound, FirstInvoiceNeedsNone,
           ProposalsAreBound, BasisIsKept, OneInvoiceAtATime

\* Steps that leave the dispositions, the invoices and their reviews alone.
LEMMA BenefitKept ==
  BenefitInv /\ UNCHANGED <<mode, dispositions, invoices, decisions>> => BenefitInv'
<1> SUFFICES ASSUME BenefitInv, UNCHANGED <<mode, dispositions, invoices, decisions>>
             PROVE  BenefitInv'
  OBVIOUS
<1>1. mode' = mode /\ dispositions' = dispositions /\ invoices' = invoices /\ decisions' = decisions
  OBVIOUS
<1>2. TablesAreSound'
  BY <1>1 DEF BenefitInv, TablesAreSound
<1>3. FirstInvoiceNeedsNone' /\ ProposalsAreBound'
  BY <1>1 DEF BenefitInv, FirstInvoiceNeedsNone, ProposalsAreBound, Awaiting, BoundTo
<1>4. BasisIsKept' /\ OneInvoiceAtATime'
  BY <1>1 DEF BenefitInv, BasisIsKept, OneInvoiceAtATime, Decisions
<1> QED  BY <1>2, <1>3, <1>4 DEF BenefitInv

-----------------------------------------------------------------------------
(* What permits another invoice. *)

\* The n-th decision approves one after the last, and is the last word.
Permits(n) ==
  /\ n \in DOMAIN decisions
  /\ decisions[n].outcome = "APPROVE" /\ decisions[n].invoice = Len(invoices)
  /\ \A k \in Decisions(Len(invoices)) : k <= n

\* The latest decision about an invoice is the last word about it.
LEMMA LatestIsLast ==
  \A f : IsTable(decisions) /\ LatestDecision(f) # 0 =>
    /\ LatestDecision(f) \in DOMAIN decisions
    /\ decisions[LatestDecision(f)].invoice = f
    /\ \A k \in Decisions(f) : k <= LatestDecision(f)
<1> SUFFICES ASSUME NEW f, IsTable(decisions), LatestDecision(f) # 0
             PROVE  /\ LatestDecision(f) \in DOMAIN decisions
                    /\ decisions[LatestDecision(f)].invoice = f
                    /\ \A k \in Decisions(f) : k <= LatestDecision(f)
  OBVIOUS
<1>1. Len(decisions) \in Nat /\ DOMAIN decisions = 1..Len(decisions)
  BY TableNumbers
<1>2. Decisions(f) # {} /\ LatestDecision(f) = Max(Decisions(f))
  BY DEF LatestDecision
<1>3. Decisions(f) \in SUBSET (1..Len(decisions))
  BY <1>1 DEF Decisions
<1>4. /\ LatestDecision(f) \in Decisions(f)
      /\ \A k \in Decisions(f) : k <= LatestDecision(f)
  BY <1>1, <1>2, <1>3, GreatestOfRows
<1> QED  BY <1>4 DEF Decisions

\* An invoice written while all before it are returned, under an approval of
\* its own when there are any.
LEMMA InvoiceAdded ==
  ASSUME BenefitInv, NEW j, NEW n,
         invoices' = Append(invoices, [disposition |-> j, approval |-> n, reversed |-> FALSE]),
         UNCHANGED decisions,
         \A m \in DOMAIN invoices : invoices[m].reversed,
         IF invoices = <<>> THEN n = 0 ELSE Permits(n)
  PROVE  /\ IsTable(invoices') /\ invoices' # <<>> /\ Len(invoices') = Len(invoices) + 1
         /\ OneInvoiceAtATime' /\ FirstInvoiceNeedsNone'
<1>1. PICK L : L = Len(invoices)
  OBVIOUS
<1>2. IsTable(invoices) /\ IsTable(decisions)
  BY DEF BenefitInv, TablesAreSound
<1>3. L \in Nat /\ DOMAIN invoices = 1..L /\ (invoices = <<>> <=> L = 0)
  BY <1>1, <1>2, TableNumbers
<1>4. /\ IsTable(invoices') /\ Len(invoices') = L + 1
      /\ DOMAIN invoices' = 1..(L + 1)
      /\ invoices'[L + 1] = [disposition |-> j, approval |-> n, reversed |-> FALSE]
      /\ \A m \in 1..L : invoices'[m] = invoices[m]
  BY <1>1, <1>2, TableGrows
<1>5. invoices' # <<>>
  BY <1>3, <1>4, TableNumbers
<1>6. invoices'[L + 1].approval = n
  BY <1>4
<1>7. \A m \in 1..(L + 1) : m < L + 1 => invoices'[m].reversed
  BY <1>3, <1>4
<1>8. Len(decisions) \in Nat /\ DOMAIN decisions = 1..Len(decisions)
  BY <1>2, TableNumbers
<1>9. FirstInvoiceNeedsNone'
  <2>1. CASE L = 0
    BY <2>1, <1>3, <1>6 DEF FirstInvoiceNeedsNone
  <2>2. CASE L # 0
    BY <2>2, <1>3, <1>4 DEF FirstInvoiceNeedsNone, BenefitInv
  <2> QED  BY <2>1, <2>2
<1>10. \A m \in 2..L : invoices[m].approval # 0 /\ decisions[invoices[m].approval].invoice = m - 1
  BY <1>3 DEF BenefitInv, OneInvoiceAtATime
<1>11. ASSUME L # 0  PROVE n # 0 /\ decisions[n].invoice = L /\ decisions[n].outcome = "APPROVE"
                           /\ \A k \in Decisions(L) : k <= n
  BY <1>11, <1>1, <1>3, <1>8 DEF Permits
<1>12. ASSUME L # 0  PROVE \A m \in 1..L : invoices[m].approval # n
  <2>1. invoices[1].approval # n
    BY <1>11, <1>12, <1>3 DEF BenefitInv, FirstInvoiceNeedsNone
  <2>2. \A m \in 2..L : invoices[m].approval # n
    BY <1>10, <1>11, <1>12, <1>3
  <2> QED  BY <2>1, <2>2, <1>3
<1>13. ASSUME NEW m \in 1..(L + 1), m > 1
       PROVE  /\ invoices'[m].approval # 0
              /\ decisions'[invoices'[m].approval].outcome = "APPROVE"
              /\ decisions'[invoices'[m].approval].invoice = m - 1
              /\ \A k \in Decisions(m - 1) : k <= invoices'[m].approval
              /\ \A k \in 1..(L + 1) : k # m => invoices'[k].approval # invoices'[m].approval
  <2>1. CASE m = L + 1
    BY <2>1, <1>3, <1>4, <1>6, <1>11, <1>12, <1>13
  <2>2. CASE m # L + 1
    <3>1. m \in 1..L /\ L # 0 /\ invoices'[m] = invoices[m]
      BY <2>2, <1>3, <1>4
    <3>2. /\ invoices[m].approval # 0
          /\ decisions[invoices[m].approval].outcome = "APPROVE"
          /\ decisions[invoices[m].approval].invoice = m - 1
          /\ \A k \in Decisions(m - 1) : k <= invoices[m].approval
          /\ \A k \in 1..L : k # m => invoices[k].approval # invoices[m].approval
      BY <3>1, <1>3, <1>13 DEF BenefitInv, OneInvoiceAtATime
    <3>3. \A k \in 1..(L + 1) : k # m => invoices'[k].approval # invoices'[m].approval
      BY <3>1, <3>2, <1>3, <1>4, <1>6, <1>12
    <3> QED  BY <3>1, <3>2, <3>3
  <2> QED  BY <2>1, <2>2
<1>14. \A f : Decisions(f)' = Decisions(f)
  BY DEF Decisions
<1>15. OneInvoiceAtATime'
  BY <1>4, <1>7, <1>13, <1>14 DEF OneInvoiceAtATime, Decisions
<1> QED  BY <1>1, <1>4, <1>5, <1>9, <1>15

-----------------------------------------------------------------------------
(* What the proof of a closure says of the disposition that retains it. *)

\* A disposition takes the basis of those before it, all of them retired, and
\* an approval exactly when there was an invoice.
LEMMA ProofGives ==
  ASSUME BenefitInv, NEW c, ProofHolds(c)
  PROVE  /\ \A i \in DOMAIN dispositions :
              /\ dispositions[i].retired
              /\ dispositions[i].basis = ClosureProof.basis
              /\ dispositions[i].award = ClosureProof.award
              /\ dispositions[i].sources = Sources
         /\ IF invoices = <<>> THEN ClosureProof.approval = 0
            ELSE Permits(ClosureProof.approval) /\ \A m \in DOMAIN invoices : invoices[m].reversed
<1>1. IsTable(dispositions) /\ IsTable(invoices) /\ IsTable(decisions)
  BY DEF BenefitInv, TablesAreSound
<1>2. CASE dispositions = <<>>
  <2>1. Len(dispositions) = 0 /\ DOMAIN dispositions = 1..0
    BY <1>1, <1>2, TableNumbers
  <2>2. DOMAIN dispositions = {}
    BY <2>1
  <2>3. DOMAIN invoices = {}
    BY <2>2 DEF BenefitInv, TablesAreSound
  <2>4. Len(invoices) \in Nat /\ DOMAIN invoices = 1..Len(invoices) /\ (invoices = <<>> <=> Len(invoices) = 0)
    BY <1>1, TableNumbers
  <2>5. invoices = <<>>
    BY <2>3, <2>4
  <2>6. ClosureProof.approval = 0
    BY <1>2 DEF ClosureProof, FirstProof
  <2> QED  BY <2>2, <2>5, <2>6
<1>3. CASE dispositions # <<>>
  <2>1. ReplacementProofHolds(c) /\ ClosureProof = ReplacementProof
    BY <1>3 DEF ProofHolds, ClosureProof
  <2>2. Len(dispositions) \in Nat /\ DOMAIN dispositions = 1..Len(dispositions) /\ Len(dispositions) # 0
    BY <1>1, <1>3, TableNumbers
  <2>3. 1 \in DOMAIN dispositions
    BY <2>2
  <2>4. /\ ClosureProof.basis = dispositions[1].basis /\ ClosureProof.award = dispositions[1].award
        /\ ClosureProof.approval = IF invoices = <<>> THEN 0 ELSE CurrentReapplication
    BY <2>1 DEF ReplacementProof
  <2>5. dispositions[1].sources = Sources /\ \A i \in DOMAIN dispositions : dispositions[i].retired
    BY <2>1 DEF ReplacementProofHolds
  <2>6. \A i \in DOMAIN dispositions :
          /\ dispositions[i].retired
          /\ dispositions[i].basis = ClosureProof.basis
          /\ dispositions[i].award = ClosureProof.award
          /\ dispositions[i].sources = Sources
    BY <2>3, <2>4, <2>5 DEF BenefitInv, BasisIsKept
  <2>7. ASSUME invoices # <<>>
        PROVE  Permits(ClosureProof.approval) /\ \A m \in DOMAIN invoices : invoices[m].reversed
    <3>1. ClosureProof.approval = CurrentReapplication /\ CurrentReapplication # 0
      BY <2>1, <2>4, <2>7 DEF ReplacementProofHolds
    <3>2. PICK n : n = LatestDecision(Len(invoices))
      OBVIOUS
    <3>3. /\ CurrentReapplication = n /\ n # 0 /\ Returned
          /\ decisions[n].outcome = "APPROVE"
      BY <3>1, <3>2 DEF CurrentReapplication
    <3>4. /\ n \in DOMAIN decisions /\ decisions[n].invoice = Len(invoices)
          /\ \A k \in Decisions(Len(invoices)) : k <= n
      BY <1>1, <3>2, <3>3, LatestIsLast
    <3>5. Permits(n)
      BY <3>3, <3>4 DEF Permits
    <3>6. Len(invoices) \in Nat /\ DOMAIN invoices = 1..Len(invoices)
      BY <1>1, TableNumbers
    <3>7. invoices[Len(invoices)].reversed
      BY <3>3 DEF Returned, Last
    <3>8. \A m \in DOMAIN invoices : m < Len(invoices) => invoices[m].reversed
      BY DEF BenefitInv, OneInvoiceAtATime
    <3>9. \A m \in DOMAIN invoices : invoices[m].reversed
      BY <3>6, <3>7, <3>8
    <3> QED  BY <3>1, <3>3, <3>5, <3>9
  <2>8. ASSUME invoices = <<>>  PROVE ClosureProof.approval = 0
    BY <2>4, <2>8
  <2> QED  BY <2>6, <2>7, <2>8
<1> QED  BY <1>2, <1>3

\* A new disposition on the retained basis joins a sound table.
LEMMA DispositionAdded ==
  ASSUME BenefitInv, NEW r,
         r = [f \in RowFields |-> r[f]],
         dispositions' = Append(dispositions, r),
         \A i \in DOMAIN dispositions :
           /\ dispositions[i].basis = r.basis /\ dispositions[i].award = r.award
           /\ dispositions[i].sources = r.sources
  PROVE  /\ IsTable(dispositions')
         /\ Len(dispositions) \in Nat
         /\ DOMAIN dispositions = 1..Len(dispositions)
         /\ DOMAIN dispositions' = 1..(Len(dispositions) + 1)
         /\ \A i \in 1..Len(dispositions) : dispositions'[i] = dispositions[i]
         /\ dispositions'[Len(dispositions) + 1] = r
         /\ \A i \in DOMAIN dispositions' :
              dispositions'[i] = [f \in RowFields |-> dispositions'[i][f]]
         /\ BasisIsKept'
<1>1. PICK L : L = Len(dispositions)
  OBVIOUS
<1>2. IsTable(dispositions)
  BY DEF BenefitInv, TablesAreSound
<1>3. L \in Nat /\ DOMAIN dispositions = 1..L
  BY <1>1, <1>2, TableNumbers
<1>4. /\ IsTable(dispositions') /\ DOMAIN dispositions' = 1..(L + 1)
      /\ dispositions'[L + 1] = r
      /\ \A i \in 1..L : dispositions'[i] = dispositions[i]
  BY <1>1, <1>2, TableGrows
<1>5. \A i \in 1..L : dispositions[i] = [f \in RowFields |-> dispositions[i][f]]
  BY <1>3 DEF BenefitInv, TablesAreSound
<1>6. \A i \in 1..(L + 1) : dispositions'[i] = [f \in RowFields |-> dispositions'[i][f]]
  <2> TAKE i \in 1..(L + 1)
  <2>1. CASE i = L + 1
    BY <2>1, <1>4
  <2>2. CASE i # L + 1
    <3>1. i \in 1..L
      BY <2>2, <1>3
    <3> QED  BY <3>1, <1>4, <1>5
  <2> QED  BY <2>1, <2>2
<1>7. \A i \in 1..(L + 1) :
        /\ dispositions'[i].basis = r.basis /\ dispositions'[i].award = r.award
        /\ dispositions'[i].sources = r.sources
  <2> TAKE i \in 1..(L + 1)
  <2>1. CASE i = L + 1
    BY <2>1, <1>4
  <2>2. CASE i # L + 1
    <3>1. i \in 1..L
      BY <2>2, <1>3
    <3> QED  BY <3>1, <1>3, <1>4
  <2> QED  BY <2>1, <2>2
<1>8. BasisIsKept'
  BY <1>4, <1>7 DEF BasisIsKept
<1> QED  BY <1>1, <1>3, <1>4, <1>6, <1>8

-----------------------------------------------------------------------------
(* The transactions that move dispositions. *)

\* A full metal settlement retains the basis and uses up its permission.
LEMMA SettleKeeps ==
  ASSUME BenefitInv, NEW d \in Desks, SettleConfiguredAgreement(d)
  PROVE  BenefitInv'
<1>1. PICK c : c = desk[d].evidence.closure
  OBVIOUS
<1>2. PICK proof : proof = ClosureProof
  OBVIOUS
<1>3. ProofHolds(c) /\ Settle(c, proof) /\ mode = "METAL" /\ mode' = mode /\ decisions' = decisions
  BY <1>1, <1>2 DEF SettleConfiguredAgreement, FullSettlementHolds
<1>4. PICK L : L = Len(dispositions)
  OBVIOUS
<1>5. PICK r : r =
        [closure |-> c, sequence |-> Sequence(c), basis |-> proof.basis, award |-> proof.award,
         sources |-> Sources, invoice |-> Principal, refunds |-> <<>>, done |-> {JewelleryLeg},
         completed |-> TRUE, retired |-> FALSE, resolved |-> 0, approval |-> proof.approval]
  OBVIOUS
<1>6. /\ dispositions' = Append(dispositions, r)
      /\ IF proof.award THEN ConsumeBenefit(L + 1, proof.approval) ELSE UNCHANGED invoices
  BY <1>3, <1>4, <1>5 DEF Settle
<1>7. r = [f \in RowFields |-> r[f]] /\ r.basis = proof.basis /\ r.award = proof.award /\ r.sources = Sources
  BY <1>5 DEF RowFields
<1>8. \A i \in DOMAIN dispositions :
        /\ dispositions[i].basis = r.basis /\ dispositions[i].award = r.award
        /\ dispositions[i].sources = r.sources
  BY <1>2, <1>3, <1>7, ProofGives
<1>9. /\ IsTable(dispositions') /\ L \in Nat
      /\ DOMAIN dispositions = 1..L /\ DOMAIN dispositions' = 1..(L + 1)
      /\ \A i \in DOMAIN dispositions' :
           dispositions'[i] = [f \in RowFields |-> dispositions'[i][f]]
      /\ BasisIsKept'
  BY <1>4, <1>6, <1>7, <1>8, DispositionAdded
<1>10. ProposalsAreBound'
  BY <1>3 DEF ProposalsAreBound
<1>11. IsTable(decisions) /\ IsTable(decisions') /\ IsTable(invoices)
  BY <1>3 DEF BenefitInv, TablesAreSound
<1>12. \A m \in DOMAIN invoices :
         /\ invoices[m] = [f \in {"disposition", "approval", "reversed"} |-> invoices[m][f]]
         /\ invoices[m].disposition \in 1..L
         /\ invoices[m].approval \in 0..Len(decisions)
  BY <1>9 DEF BenefitInv, TablesAreSound
<1>13. CASE UNCHANGED invoices
  <2>1. OneInvoiceAtATime' /\ FirstInvoiceNeedsNone'
    BY <1>3, <1>13 DEF BenefitInv, OneInvoiceAtATime, FirstInvoiceNeedsNone, Decisions
  <2>2. \A m \in DOMAIN invoices' : invoices'[m].disposition \in DOMAIN dispositions'
    BY <1>9, <1>12, <1>13
  <2>3. TablesAreSound'
    BY <2>2, <1>3, <1>9, <1>11, <1>12, <1>13 DEF TablesAreSound
  <2> QED  BY <2>1, <2>3, <1>9, <1>10 DEF BenefitInv
<1>14. CASE ConsumeBenefit(L + 1, proof.approval)
  <2>1. PICK e : e = [disposition |-> L + 1, approval |-> proof.approval, reversed |-> FALSE]
    OBVIOUS
  <2>2. invoices' = Append(invoices, e)
    BY <2>1, <1>14 DEF ConsumeBenefit
  <2>3. Len(invoices) \in Nat /\ DOMAIN invoices = 1..Len(invoices) /\ (invoices = <<>> <=> Len(invoices) = 0)
    BY <1>11, TableNumbers
  <2>4. IF invoices = <<>> THEN proof.approval = 0
        ELSE Permits(proof.approval) /\ \A m \in DOMAIN invoices : invoices[m].reversed
    BY <1>2, <1>3, ProofGives
  <2>5. \A m \in DOMAIN invoices : invoices[m].reversed
    BY <2>3, <2>4
  <2>6. IF invoices = <<>> THEN proof.approval = 0 ELSE Permits(proof.approval)
    BY <2>4
  <2>7. OneInvoiceAtATime' /\ FirstInvoiceNeedsNone'
    BY <2>1, <2>2, <2>5, <2>6, <1>3, InvoiceAdded
  <2>8. Len(decisions) \in Nat /\ DOMAIN decisions = 1..Len(decisions)
    BY <1>11, TableNumbers
  <2>9. proof.approval \in 0..Len(decisions)
    BY <2>6, <2>8 DEF Permits
  <2>10. /\ IsTable(invoices') /\ DOMAIN invoices' = 1..(Len(invoices) + 1)
         /\ invoices'[Len(invoices) + 1] = e
         /\ \A m \in 1..Len(invoices) : invoices'[m] = invoices[m]
    BY <2>2, <1>11, TableGrows
  <2>11. \A m \in 1..(Len(invoices) + 1) :
           /\ invoices'[m] = [f \in {"disposition", "approval", "reversed"} |-> invoices'[m][f]]
           /\ invoices'[m].disposition \in 1..(L + 1)
           /\ invoices'[m].approval \in 0..Len(decisions)
    <3> TAKE m \in 1..(Len(invoices) + 1)
    <3>1. CASE m = Len(invoices) + 1
      BY <3>1, <2>1, <2>9, <2>10, <1>9
    <3>2. CASE m # Len(invoices) + 1
      <4>1. m \in DOMAIN invoices /\ invoices'[m] = invoices[m]
        BY <3>2, <2>3, <2>10
      <4> QED  BY <4>1, <1>9, <1>12
    <3> QED  BY <3>1, <3>2
  <2>12. TablesAreSound'
    BY <2>10, <2>11, <1>3, <1>9, <1>11 DEF TablesAreSound
  <2> QED  BY <2>7, <2>12, <1>9, <1>10 DEF BenefitInv
<1> QED  BY <1>6, <1>13, <1>14

\* A change of disposition rows that keeps what they were decided on.
LEMMA DispositionsChanged ==
  ASSUME BenefitInv,
         dispositions' = [i \in DOMAIN dispositions |-> dispositions'[i]],
         \A i \in DOMAIN dispositions :
           /\ dispositions'[i] = [f \in RowFields |-> dispositions'[i][f]]
           /\ dispositions'[i].basis = dispositions[i].basis
           /\ dispositions'[i].award = dispositions[i].award
           /\ dispositions'[i].sources = dispositions[i].sources
  PROVE  /\ IsTable(dispositions') /\ DOMAIN dispositions' = DOMAIN dispositions
         /\ BasisIsKept'
<1>1. IsTable(dispositions)
  BY DEF BenefitInv, TablesAreSound
<1>2. IsTable(dispositions')
  BY <1>1, TableKept
<1>3. DOMAIN dispositions' = DOMAIN dispositions
  OBVIOUS
<1>4. BasisIsKept'
  BY <1>3 DEF BenefitInv, BasisIsKept
<1> QED  BY <1>2, <1>3, <1>4

\* The return of an invoice changes nothing else of it, and no other invoice.
LEMMA InvoicesReturned ==
  ASSUME BenefitInv, NEW i, ReverseBenefit(i), UNCHANGED decisions,
         DOMAIN dispositions' = DOMAIN dispositions
  PROVE  /\ IsTable(invoices') /\ Len(invoices') = Len(invoices)
         /\ (invoices' = <<>> <=> invoices = <<>>)
         /\ OneInvoiceAtATime' /\ FirstInvoiceNeedsNone'
         /\ \A m \in DOMAIN invoices' :
              /\ invoices'[m] = [f \in {"disposition", "approval", "reversed"} |-> invoices'[m][f]]
              /\ invoices'[m].disposition \in DOMAIN dispositions'
              /\ invoices'[m].approval \in 0..Len(decisions)
<1>1. IsTable(invoices)
  BY DEF BenefitInv, TablesAreSound
<1>2. DOMAIN invoices' = DOMAIN invoices
  BY DEF ReverseBenefit
<1>3. \A m \in DOMAIN invoices :
        invoices'[m] = IF invoices[m].disposition = i THEN [invoices[m] EXCEPT !.reversed = TRUE] ELSE invoices[m]
  BY DEF ReverseBenefit
<1>4. invoices' = [m \in DOMAIN invoices |-> invoices'[m]]
  BY DEF ReverseBenefit
<1>5. IsTable(invoices') /\ Len(invoices') = Len(invoices)
  BY <1>1, <1>4, TableKept
<1>6. (invoices' = <<>> <=> Len(invoices') = 0) /\ (invoices = <<>> <=> Len(invoices) = 0)
  BY <1>1, <1>5, TableNumbers
<1>7. \A m \in DOMAIN invoices :
        /\ invoices[m] = [f \in {"disposition", "approval", "reversed"} |-> invoices[m][f]]
        /\ invoices[m].disposition \in DOMAIN dispositions
        /\ invoices[m].approval \in 0..Len(decisions)
  BY DEF BenefitInv, TablesAreSound
<1>8. \A m \in DOMAIN invoices :
        /\ invoices'[m] = [f \in {"disposition", "approval", "reversed"} |-> invoices'[m][f]]
        /\ invoices'[m].disposition = invoices[m].disposition
        /\ invoices'[m].approval = invoices[m].approval
        /\ invoices[m].reversed => invoices'[m].reversed
  <2> TAKE m \in DOMAIN invoices
  <2>1. CASE invoices[m].disposition = i
    BY <2>1, <1>3, <1>7
  <2>2. CASE invoices[m].disposition # i
    BY <2>2, <1>3, <1>7
  <2> QED  BY <2>1, <2>2
<1>9. \A f : Decisions(f)' = Decisions(f)
  BY DEF Decisions
<1>10. OneInvoiceAtATime'
  <2>1. \A m \in DOMAIN invoices' : m < Len(invoices') => invoices'[m].reversed
    BY <1>2, <1>5, <1>8 DEF BenefitInv, OneInvoiceAtATime
  <2>2. ASSUME NEW m \in DOMAIN invoices', m > 1
        PROVE  /\ invoices'[m].approval # 0
               /\ decisions'[invoices'[m].approval].outcome = "APPROVE"
               /\ decisions'[invoices'[m].approval].invoice = m - 1
               /\ \A k \in Decisions(m - 1) : k <= invoices'[m].approval
               /\ \A k \in DOMAIN invoices' : k # m => invoices'[k].approval # invoices'[m].approval
    <3>1. /\ invoices[m].approval # 0
          /\ decisions[invoices[m].approval].outcome = "APPROVE"
          /\ decisions[invoices[m].approval].invoice = m - 1
          /\ \A k \in Decisions(m - 1) : k <= invoices[m].approval
          /\ \A k \in DOMAIN invoices : k # m => invoices[k].approval # invoices[m].approval
      BY <2>2, <1>2 DEF BenefitInv, OneInvoiceAtATime
    <3> QED  BY <3>1, <2>2, <1>2, <1>8
  <2> QED  BY <2>1, <2>2, <1>9 DEF OneInvoiceAtATime, Decisions
<1>11. FirstInvoiceNeedsNone'
  <2>1. ASSUME invoices # <<>>  PROVE 1 \in DOMAIN invoices
    BY <2>1, <1>1, TableNumbers
  <2> QED  BY <2>1, <1>5, <1>6, <1>8 DEF BenefitInv, FirstInvoiceNeedsNone
<1> QED  BY <1>2, <1>5, <1>6, <1>7, <1>8, <1>10, <1>11

\* Retiring a disposition gives its benefit back and releases nothing else.
LEMMA RetireKeeps ==
  ASSUME BenefitInv, NEW i, NEW x,
         dispositions' = [dispositions EXCEPT ![i].retired = TRUE, ![i].resolved = x],
         ReverseBenefit(i), UNCHANGED <<mode, decisions>>
  PROVE  BenefitInv'
<1>1. dispositions' = [j \in DOMAIN dispositions |-> dispositions'[j]]
  OBVIOUS
<1>2. \A j \in DOMAIN dispositions : dispositions[j] = [f \in RowFields |-> dispositions[j][f]]
  BY DEF BenefitInv, TablesAreSound
<1>3. \A j \in DOMAIN dispositions :
        dispositions'[j] = IF j = i THEN [dispositions[j] EXCEPT !.retired = TRUE, !.resolved = x]
                           ELSE dispositions[j]
  OBVIOUS
<1>4. \A j \in DOMAIN dispositions :
        /\ dispositions'[j] = [f \in RowFields |-> dispositions'[j][f]]
        /\ dispositions'[j].basis = dispositions[j].basis
        /\ dispositions'[j].award = dispositions[j].award
        /\ dispositions'[j].sources = dispositions[j].sources
        /\ dispositions'[j].approval = dispositions[j].approval
        /\ dispositions'[j].done = dispositions[j].done
        /\ dispositions[j].retired => dispositions'[j].retired
  <2> TAKE j \in DOMAIN dispositions
  <2>1. CASE j = i
    <3>1. dispositions'[j] = [dispositions[j] EXCEPT !.retired = TRUE, !.resolved = x]
      BY <2>1, <1>3
    <3> QED  BY <3>1, <1>2 DEF RowFields
  <2>2. CASE j # i
    BY <2>2, <1>2, <1>3
  <2> QED  BY <2>1, <2>2
<1>5. IsTable(dispositions') /\ DOMAIN dispositions' = DOMAIN dispositions /\ BasisIsKept'
  BY <1>1, <1>4, DispositionsChanged
<1>6. /\ IsTable(invoices') /\ Len(invoices') = Len(invoices)
      /\ (invoices' = <<>> <=> invoices = <<>>)
      /\ OneInvoiceAtATime' /\ FirstInvoiceNeedsNone'
      /\ \A m \in DOMAIN invoices' :
           /\ invoices'[m] = [f \in {"disposition", "approval", "reversed"} |-> invoices'[m][f]]
           /\ invoices'[m].disposition \in DOMAIN dispositions'
           /\ invoices'[m].approval \in 0..Len(decisions)
  BY <1>5, InvoicesReturned
<1>7. IsTable(decisions') /\ Len(decisions') = Len(decisions)
  BY DEF BenefitInv, TablesAreSound
<1>8. TablesAreSound'
  BY <1>4, <1>5, <1>6, <1>7 DEF TablesAreSound
<1>9. ProposalsAreBound'
  <2> SUFFICES ASSUME mode' = "INR", NEW j \in DOMAIN dispositions', Awaiting(j)'
               PROVE  BoundTo(j)'
    BY DEF ProposalsAreBound
  <2>1. j \in DOMAIN dispositions /\ mode = "INR"
    BY <1>5
  <2>2. Awaiting(j)
    BY <2>1, <1>4 DEF Awaiting
  <2>3. BoundTo(j)
    BY <2>1, <2>2 DEF BenefitInv, ProposalsAreBound
  <2> QED  BY <2>1, <2>3, <1>4, <1>6 DEF BoundTo
<1> QED  BY <1>5, <1>6, <1>8, <1>9 DEF BenefitInv

\* The reversal of a metal settlement retires it.
LEMMA ReverseKeeps ==
  ASSUME BenefitInv, NEW d \in Desks, NEW i \in DOMAIN dispositions, ReverseConfiguredSettlement(d, i)
  PROVE  BenefitInv'
<1>1. PICK x : x = Sequence(dispositions[i].closure) + 1
  OBVIOUS
<1>2. /\ dispositions' = [dispositions EXCEPT ![i].retired = TRUE, ![i].resolved = x]
      /\ ReverseBenefit(i) /\ UNCHANGED <<mode, decisions>>
  BY <1>1 DEF ReverseConfiguredSettlement
<1> QED  BY <1>2, RetireKeeps

\* A void and a full return retire an INR proposal.
LEMMA ResolveKeeps ==
  ASSUME BenefitInv, NEW d \in Desks, ResolveInrSettlement(d)
  PROVE  BenefitInv'
<1>1. PICK i : i = desk[d].evidence.proposal
  OBVIOUS
<1>2. PICK x : x = Sequence(dispositions[i].closure) + 1
  OBVIOUS
<1>3. /\ dispositions' = [dispositions EXCEPT ![i].retired = TRUE, ![i].resolved = x]
      /\ ReverseBenefit(i) /\ UNCHANGED <<mode, decisions>>
  BY <1>1, <1>2 DEF ResolveInrSettlement
<1> QED  BY <1>3, RetireKeeps

\* A new proposal is bound to its permission; the others are retired.
LEMMA ProposeKeeps ==
  ASSUME BenefitInv, NEW d \in Desks, ProposeInrSettlement(d)
  PROVE  BenefitInv'
<1>1. PICK c, payable : c = desk[d].evidence.closure /\ payable = desk[d].evidence.payable
  OBVIOUS
<1>2. PICK proof : proof = ClosureProof
  OBVIOUS
<1>3. /\ ProofHolds(c) /\ dispositions' = Append(dispositions, Proposal(c, payable, proof))
      /\ mode' = mode /\ invoices' = invoices /\ decisions' = decisions
  BY <1>1, <1>2 DEF ProposeInrSettlement, ProposalHolds
<1>4. PICK L : L = Len(dispositions)
  OBVIOUS
<1>5. PICK r : r = Proposal(c, payable, proof)
  OBVIOUS
<1>6. /\ r = [f \in RowFields |-> r[f]] /\ r.basis = proof.basis /\ r.award = proof.award
      /\ r.sources = Sources /\ r.approval = proof.approval
  BY <1>5 DEF Proposal, RowFields
<1>7. /\ \A i \in DOMAIN dispositions :
           /\ dispositions[i].retired
           /\ dispositions[i].basis = r.basis /\ dispositions[i].award = r.award
           /\ dispositions[i].sources = r.sources
      /\ IF invoices = <<>> THEN r.approval = 0 ELSE Permits(r.approval)
  BY <1>2, <1>3, <1>6, ProofGives
<1>8. dispositions' = Append(dispositions, r)
  BY <1>3, <1>5
<1>9. /\ IsTable(dispositions') /\ L \in Nat
      /\ DOMAIN dispositions = 1..L /\ DOMAIN dispositions' = 1..(L + 1)
      /\ \A i \in 1..L : dispositions'[i] = dispositions[i]
      /\ dispositions'[L + 1] = r
      /\ \A i \in DOMAIN dispositions' :
           dispositions'[i] = [f \in RowFields |-> dispositions'[i][f]]
      /\ BasisIsKept'
  BY <1>4, <1>6, <1>7, <1>8, DispositionAdded
<1>10. \A m \in DOMAIN invoices : invoices[m].disposition \in DOMAIN dispositions'
  BY <1>9 DEF BenefitInv, TablesAreSound
<1>11. TablesAreSound'
  BY <1>3, <1>9, <1>10 DEF BenefitInv, TablesAreSound
<1>12. IsTable(decisions) /\ Len(decisions) \in Nat /\ DOMAIN decisions = 1..Len(decisions)
  BY TableNumbers DEF BenefitInv, TablesAreSound
<1>13. ProposalsAreBound'
  <2> SUFFICES ASSUME NEW j \in DOMAIN dispositions', Awaiting(j)'
               PROVE  BoundTo(j)'
    BY DEF ProposalsAreBound
  <2>1. CASE j \in 1..L
    BY <2>1, <1>7, <1>9 DEF Awaiting
  <2>2. CASE j \notin 1..L
    <3>1. dispositions'[j] = r
      BY <2>2, <1>9
    <3> QED  BY <3>1, <1>3, <1>7, <1>12 DEF BoundTo, Permits
  <2> QED  BY <2>1, <2>2
<1>14. OneInvoiceAtATime' /\ FirstInvoiceNeedsNone'
  BY <1>3 DEF BenefitInv, OneInvoiceAtATime, FirstInvoiceNeedsNone, Decisions
<1> QED  BY <1>9, <1>11, <1>13, <1>14 DEF BenefitInv

\* A completion closes the agreement and decides nothing about the benefit.
LEMMA CompleteKeeps ==
  ASSUME BenefitInv, NEW i \in DOMAIN dispositions, CompleteInrSettlement(i)
  PROVE  BenefitInv'
<1>1. /\ dispositions' = [dispositions EXCEPT ![i].completed = TRUE]
      /\ mode' = mode /\ invoices' = invoices /\ decisions' = decisions
  BY DEF CompleteInrSettlement, benefitVars
<1>2. dispositions' = [j \in DOMAIN dispositions |-> dispositions'[j]]
  BY <1>1
<1>3. \A j \in DOMAIN dispositions : dispositions[j] = [f \in RowFields |-> dispositions[j][f]]
  BY DEF BenefitInv, TablesAreSound
<1>4. \A j \in DOMAIN dispositions :
        /\ dispositions'[j] = [f \in RowFields |-> dispositions'[j][f]]
        /\ dispositions'[j].basis = dispositions[j].basis
        /\ dispositions'[j].award = dispositions[j].award
        /\ dispositions'[j].sources = dispositions[j].sources
        /\ dispositions'[j].approval = dispositions[j].approval
        /\ dispositions'[j].done = dispositions[j].done
        /\ dispositions'[j].retired = dispositions[j].retired
  <2> TAKE j \in DOMAIN dispositions
  <2>1. CASE j = i
    <3>1. dispositions'[j] = [dispositions[j] EXCEPT !.completed = TRUE]
      BY <2>1, <1>1
    <3> QED  BY <3>1, <1>3 DEF RowFields
  <2>2. CASE j # i
    BY <2>2, <1>1, <1>3
  <2> QED  BY <2>1, <2>2
<1>5. IsTable(dispositions') /\ DOMAIN dispositions' = DOMAIN dispositions /\ BasisIsKept'
  BY <1>2, <1>4, DispositionsChanged
<1>6. TablesAreSound'
  BY <1>1, <1>4, <1>5 DEF BenefitInv, TablesAreSound
<1>7. ProposalsAreBound'
  BY <1>1, <1>4, <1>5 DEF BenefitInv, ProposalsAreBound, Awaiting, BoundTo
<1>8. OneInvoiceAtATime' /\ FirstInvoiceNeedsNone'
  BY <1>1 DEF BenefitInv, OneInvoiceAtATime, FirstInvoiceNeedsNone, Decisions
<1> QED  BY <1>5, <1>6, <1>7, <1>8 DEF BenefitInv

\* A handover of jewellery writes the one invoice its proposal was bound to;
\* the rows' history says that no other proposal is waiting.
LEMMA FulfilKeeps ==
  ASSUME BenefitInv, NEW i \in DOMAIN dispositions, NEW leg, RecordInrFulfilment(i, leg)
  PROVE  BenefitInv'
<1>1. /\ dispositions' = [dispositions EXCEPT ![i].done = @ \cup {leg}]
      /\ mode = "INR" /\ mode' = mode /\ decisions' = decisions
      /\ leg \notin dispositions[i].done
      /\ PendingProposal(i)
      /\ IF leg = JewelleryLeg /\ dispositions[i].award
         THEN ConsumeBenefit(i, dispositions[i].approval) ELSE UNCHANGED invoices
  BY DEF RecordInrFulfilment
<1>2. dispositions' = [j \in DOMAIN dispositions |-> dispositions'[j]]
  BY <1>1
<1>3. \A j \in DOMAIN dispositions : dispositions[j] = [f \in RowFields |-> dispositions[j][f]]
  BY DEF BenefitInv, TablesAreSound
<1>4. \A j \in DOMAIN dispositions :
        /\ dispositions'[j] = [f \in RowFields |-> dispositions'[j][f]]
        /\ dispositions'[j].basis = dispositions[j].basis
        /\ dispositions'[j].award = dispositions[j].award
        /\ dispositions'[j].sources = dispositions[j].sources
        /\ dispositions'[j].approval = dispositions[j].approval
        /\ dispositions'[j].retired = dispositions[j].retired
        /\ dispositions[j].done \subseteq dispositions'[j].done
        /\ j = i => leg \in dispositions'[j].done
  <2> TAKE j \in DOMAIN dispositions
  <2>1. CASE j = i
    <3>1. dispositions'[j] = [dispositions[j] EXCEPT !.done = @ \cup {leg}]
      BY <2>1, <1>1
    <3> QED  BY <3>1, <1>3 DEF RowFields
  <2>2. CASE j # i
    BY <2>2, <1>1, <1>3
  <2> QED  BY <2>1, <2>2
<1>5. IsTable(dispositions') /\ DOMAIN dispositions' = DOMAIN dispositions /\ BasisIsKept'
  BY <1>2, <1>4, DispositionsChanged
<1>6. PICK L : L = Len(dispositions)
  OBVIOUS
<1>7. L \in Nat /\ DOMAIN dispositions = 1..L
  BY <1>6, TableNumbers DEF BenefitInv, TablesAreSound
<1>8. i = L
  <2>1. ~dispositions[i].retired /\ \A j \in DOMAIN dispositions : j > 1 => dispositions[j - 1].retired
    BY <1>1 DEF PendingProposal, InrHistoryIsValid
  <2>2. ASSUME i # L  PROVE FALSE
    <3>1. i + 1 \in DOMAIN dispositions /\ i + 1 > 1 /\ (i + 1) - 1 = i
      BY <2>2, <1>7
    <3>2. dispositions[(i + 1) - 1].retired
      BY <2>1, <3>1
    <3> QED  BY <2>1, <3>1, <3>2
  <2> QED  BY <2>2
<1>9. \A j \in DOMAIN dispositions : j # i => dispositions[j].retired
  <2> TAKE j \in DOMAIN dispositions
  <2> HAVE j # i
  <2>1. j + 1 \in DOMAIN dispositions /\ j + 1 > 1 /\ (j + 1) - 1 = j
    BY <1>7, <1>8
  <2>2. dispositions[(j + 1) - 1].retired
    BY <1>1, <2>1 DEF PendingProposal, InrHistoryIsValid
  <2> QED  BY <2>1, <2>2
<1>10. IsTable(decisions) /\ IsTable(invoices)
  BY DEF BenefitInv, TablesAreSound
<1>11. \A m \in DOMAIN invoices :
         /\ invoices[m] = [f \in {"disposition", "approval", "reversed"} |-> invoices[m][f]]
         /\ invoices[m].disposition \in DOMAIN dispositions
         /\ invoices[m].approval \in 0..Len(decisions)
  BY DEF BenefitInv, TablesAreSound
<1>12. CASE UNCHANGED invoices
  <2>1. OneInvoiceAtATime' /\ FirstInvoiceNeedsNone'
    BY <1>1, <1>12 DEF BenefitInv, OneInvoiceAtATime, FirstInvoiceNeedsNone, Decisions
  <2>2. TablesAreSound'
    BY <1>1, <1>4, <1>5, <1>10, <1>11, <1>12 DEF TablesAreSound
  <2>3. ProposalsAreBound'
    <3> SUFFICES ASSUME NEW j \in DOMAIN dispositions', Awaiting(j)'
                 PROVE  BoundTo(j)'
      BY DEF ProposalsAreBound
    <3>1. j \in DOMAIN dispositions /\ Awaiting(j)
      BY <1>4, <1>5 DEF Awaiting
    <3>2. BoundTo(j)
      BY <3>1, <1>1 DEF BenefitInv, ProposalsAreBound
    <3> QED  BY <3>1, <3>2, <1>1, <1>4, <1>12 DEF BoundTo
  <2> QED  BY <2>1, <2>2, <2>3, <1>5 DEF BenefitInv
<1>13. CASE leg = JewelleryLeg /\ ConsumeBenefit(i, dispositions[i].approval)
  <2>1. PICK n : n = dispositions[i].approval
    OBVIOUS
  <2>2. PICK e : e = [disposition |-> i, approval |-> n, reversed |-> FALSE]
    OBVIOUS
  <2>3. invoices' = Append(invoices, e)
    BY <2>1, <2>2, <1>13 DEF ConsumeBenefit
  <2>4. Len(invoices) \in Nat /\ DOMAIN invoices = 1..Len(invoices) /\ (invoices = <<>> <=> Len(invoices) = 0)
    BY <1>10, TableNumbers
  <2>5. Len(decisions) \in Nat /\ DOMAIN decisions = 1..Len(decisions)
    BY <1>10, TableNumbers
  <2>6. Awaiting(i)
    BY <1>1, <1>13 DEF Awaiting, PendingProposal
  <2>7. BoundTo(i)
    BY <2>6, <1>1 DEF BenefitInv, ProposalsAreBound
  <2>8. \A m \in DOMAIN invoices : invoices[m].reversed
    <3> TAKE m \in DOMAIN invoices
    <3>1. InrBenefitIsValid(i)
      BY <1>1 DEF PendingProposal
    <3>2. invoices[m].disposition # i
      BY <3>1, <1>1, <1>13 DEF InrBenefitIsValid
    <3>3. invoices[m].disposition < i
      BY <3>2, <1>7, <1>8, <1>11
    <3> QED  BY <3>1, <3>3 DEF InrBenefitIsValid
  <2>9. ASSUME invoices # <<>>  PROVE Permits(n)
    <3>1. /\ n # 0 /\ n \in DOMAIN decisions
          /\ decisions[n].outcome = "APPROVE" /\ decisions[n].invoice = Len(invoices)
      BY <2>1, <2>7, <2>9 DEF BoundTo
    <3>2. BoundReviewIsCurrent(i)
      BY <3>1, <2>1, <1>1, <1>13 DEF PendingProposal
    <3>3. n = LatestDecision(Len(invoices))
      BY <3>1, <3>2, <2>1 DEF BoundReviewIsCurrent
    <3>4. \A k \in Decisions(Len(invoices)) : k <= n
      BY <3>1, <3>3, <1>10, LatestIsLast
    <3> QED  BY <3>1, <3>4 DEF Permits
  <2>10. IF invoices = <<>> THEN n = 0 ELSE Permits(n)
    BY <2>1, <2>7, <2>9 DEF BoundTo
  <2>11. OneInvoiceAtATime' /\ FirstInvoiceNeedsNone'
    BY <2>2, <2>3, <2>8, <2>10, <1>1, InvoiceAdded
  <2>12. n \in 0..Len(decisions)
    BY <2>5, <2>10 DEF Permits
  <2>13. /\ IsTable(invoices') /\ DOMAIN invoices' = 1..(Len(invoices) + 1)
         /\ invoices'[Len(invoices) + 1] = e
         /\ \A m \in 1..Len(invoices) : invoices'[m] = invoices[m]
    BY <2>3, <1>10, TableGrows
  <2>14. \A m \in 1..(Len(invoices) + 1) :
           /\ invoices'[m] = [f \in {"disposition", "approval", "reversed"} |-> invoices'[m][f]]
           /\ invoices'[m].disposition \in DOMAIN dispositions
           /\ invoices'[m].approval \in 0..Len(decisions)
    <3> TAKE m \in 1..(Len(invoices) + 1)
    <3>1. CASE m = Len(invoices) + 1
      BY <3>1, <2>2, <2>12, <2>13
    <3>2. CASE m # Len(invoices) + 1
      <4>1. m \in DOMAIN invoices /\ invoices'[m] = invoices[m]
        BY <3>2, <2>4, <2>13
      <4> QED  BY <4>1, <1>11
    <3> QED  BY <3>1, <3>2
  <2>15. TablesAreSound'
    BY <2>13, <2>14, <1>1, <1>4, <1>5, <1>10 DEF TablesAreSound
  <2>16. \A j \in DOMAIN dispositions : ~Awaiting(j)'
    BY <1>4, <1>9, <1>13 DEF Awaiting
  <2>17. ProposalsAreBound'
    BY <2>16, <1>5 DEF ProposalsAreBound
  <2> QED  BY <2>11, <2>15, <2>17, <1>5 DEF BenefitInv
<1> QED  BY <1>1, <1>12, <1>13

\* A review speaks of the last invoice only, and only while none followed it.
LEMMA ReviewKeeps ==
  ASSUME BenefitInv, NEW d \in Desks, RecordReapplication(d)
  PROVE  BenefitInv'
<1>1. PICK L : L = Len(invoices)
  OBVIOUS
<1>2. PICK e : e = [invoice |-> L, outcome |-> desk[d].outcome, basis |-> ReturnBasis]
  OBVIOUS
<1>3. /\ decisions' = Append(decisions, e)
      /\ mode' = mode /\ dispositions' = dispositions /\ invoices' = invoices
  BY <1>1, <1>2 DEF RecordReapplication, closureVars
<1>4. IsTable(decisions) /\ IsTable(invoices)
  BY DEF BenefitInv, TablesAreSound
<1>5. PICK D : D = Len(decisions)
  OBVIOUS
<1>6. D \in Nat /\ DOMAIN decisions = 1..D
  BY <1>4, <1>5, TableNumbers
<1>7. /\ IsTable(decisions') /\ Len(decisions') = D + 1 /\ DOMAIN decisions' = 1..(D + 1)
      /\ decisions'[D + 1] = e
      /\ \A n \in 1..D : decisions'[n] = decisions[n]
  BY <1>3, <1>4, <1>5, TableGrows
<1>8. L \in Nat /\ DOMAIN invoices = 1..L
  BY <1>1, <1>4, TableNumbers
<1>9. \A m \in DOMAIN invoices :
        /\ invoices[m] = [f \in {"disposition", "approval", "reversed"} |-> invoices[m][f]]
        /\ invoices[m].disposition \in DOMAIN dispositions
        /\ invoices[m].approval \in 0..D
  BY <1>5 DEF BenefitInv, TablesAreSound
<1>10. \A m \in DOMAIN invoices : invoices[m].approval \in 0..(D + 1)
  BY <1>6, <1>9
<1>11. TablesAreSound'
  BY <1>3, <1>7, <1>9, <1>10 DEF BenefitInv, TablesAreSound
<1>12. \A f : f # L => Decisions(f)' = Decisions(f)
  <2> TAKE f
  <2> HAVE f # L
  <2>1. decisions'[D + 1].invoice # f
    BY <1>2, <1>7
  <2> QED  BY <2>1, <1>6, <1>7 DEF Decisions
<1>13. OneInvoiceAtATime'
  <2>1. \A m \in DOMAIN invoices' : m < Len(invoices') => invoices'[m].reversed
    BY <1>3 DEF BenefitInv, OneInvoiceAtATime
  <2>2. ASSUME NEW m \in DOMAIN invoices, m > 1
        PROVE  /\ invoices[m].approval # 0
               /\ decisions'[invoices[m].approval].outcome = "APPROVE"
               /\ decisions'[invoices[m].approval].invoice = m - 1
               /\ \A k \in Decisions(m - 1)' : k <= invoices[m].approval
               /\ \A k \in DOMAIN invoices : k # m => invoices[k].approval # invoices[m].approval
    <3>1. /\ invoices[m].approval # 0
          /\ decisions[invoices[m].approval].outcome = "APPROVE"
          /\ decisions[invoices[m].approval].invoice = m - 1
          /\ \A k \in Decisions(m - 1) : k <= invoices[m].approval
          /\ \A k \in DOMAIN invoices : k # m => invoices[k].approval # invoices[m].approval
      BY <2>2 DEF BenefitInv, OneInvoiceAtATime
    <3>2. invoices[m].approval \in 1..D
      BY <3>1, <1>6, <1>9
    <3>3. m - 1 # L
      BY <2>2, <1>8
    <3>4. Decisions(m - 1)' = Decisions(m - 1)
      BY <3>3, <1>12
    <3> QED  BY <3>1, <3>2, <3>4, <1>7
  <2> QED  BY <2>1, <2>2, <1>3 DEF OneInvoiceAtATime
<1>14. ProposalsAreBound'
  <2> SUFFICES ASSUME mode = "INR", NEW j \in DOMAIN dispositions, Awaiting(j)
               PROVE  BoundTo(j)'
    BY <1>3 DEF ProposalsAreBound, Awaiting
  <2>1. BoundTo(j)
    BY DEF BenefitInv, ProposalsAreBound
  <2> QED  BY <2>1, <1>3, <1>6, <1>7 DEF BoundTo
<1>15. FirstInvoiceNeedsNone' /\ BasisIsKept'
  BY <1>3 DEF BenefitInv, FirstInvoiceNeedsNone, BasisIsKept
<1> QED  BY <1>11, <1>13, <1>14, <1>15 DEF BenefitInv

-----------------------------------------------------------------------------
(* The theorem. *)

\* Every action of closures, payments, benefits and settlements keeps it.
LEMMA NextBenefitInv == BenefitInv /\ [Next]_vars => BenefitInv'
<1> SUFFICES ASSUME BenefitInv, [Next]_vars  PROVE BenefitInv'
  OBVIOUS
<1>1. CASE UNCHANGED vars
  <2>1. UNCHANGED <<mode, dispositions, invoices, decisions>>
    BY <1>1 DEF vars, settlementVars, closureVars, benefitVars
  <2> QED  BY <2>1, BenefitKept
<1>2. CASE ClosureStep
  <2>1. UNCHANGED <<mode, dispositions, invoices, decisions>>
    BY <1>2 DEF ClosureStep, benefitVars, ClosureNext, StartCheckout, RecordCash, DurationPasses,
          RequestSchemeClosure, Capture, RetireOrder, CorrectCash, LoadClosure,
          CancelUnusedAgreement, ReviewSchemeClosure
  <2> QED  BY <2>1, BenefitKept
<1>3. CASE BenefitNext
  <2>1. CASE \E d \in Desks : RecordReapplication(d)
    BY <2>1, ReviewKeeps
  <2>2. CASE \E d \in Desks :
               \/ PreviewBenefitAward(d) \/ RecordBenefitAward(d)
               \/ \E outcome \in {"APPROVE", "HOLD"} : PreviewReapplication(d, outcome)
    <3>1. UNCHANGED <<mode, dispositions, invoices, decisions>>
      BY <2>2 DEF PreviewBenefitAward, RecordBenefitAward, PreviewReapplication, benefitVars, closureVars
    <3> QED  BY <3>1, BenefitKept
  <2> QED  BY <2>1, <2>2, <1>3 DEF BenefitNext
<1>4. CASE ConfiguredNext
  <2>1. CASE \E d \in Desks : SettleConfiguredAgreement(d)
    BY <2>1, SettleKeeps
  <2>2. CASE \E d \in Desks, i \in DOMAIN dispositions : ReverseConfiguredSettlement(d, i)
    BY <2>2, ReverseKeeps
  <2>3. CASE \E d \in Desks, c \in Requests : PreviewFullSettlement(d, c)
    <3>1. UNCHANGED <<mode, dispositions, invoices, decisions>>
      BY <2>3 DEF PreviewFullSettlement, benefitVars
    <3> QED  BY <3>1, BenefitKept
  <2> QED  BY <2>1, <2>2, <2>3, <1>4 DEF ConfiguredNext
<1>5. CASE InrNext
  <2>1. CASE \E d \in Desks : ProposeInrSettlement(d)
    BY <2>1, ProposeKeeps
  <2>2. CASE \E d \in Desks : ResolveInrSettlement(d)
    BY <2>2, ResolveKeeps
  <2>3. CASE \E i \in DOMAIN dispositions : CompleteInrSettlement(i)
    BY <2>3, CompleteKeeps
  <2>4. CASE \E i \in DOMAIN dispositions : \E leg \in Legs(i) : RecordInrFulfilment(i, leg)
    BY <2>4, FulfilKeeps
  <2>5. CASE \E d \in Desks :
               \/ \E c \in Requests, payable \in Invoices : PreviewInrSettlement(d, c, payable)
               \/ \E i \in DOMAIN dispositions : PreviewInrResolution(d, i)
    <3>1. UNCHANGED <<mode, dispositions, invoices, decisions>>
      BY <2>5 DEF PreviewInrSettlement, PreviewInrResolution, benefitVars
    <3> QED  BY <3>1, BenefitKept
  <2> QED  BY <2>1, <2>2, <2>3, <2>4, <2>5, <1>5 DEF InrNext
<1> QED  BY <1>1, <1>2, <1>3, <1>4, <1>5 DEF Next

\* Whatever is previewed, settled, fulfilled, voided, returned, reviewed and
\* replaced, by any sessions in any order, the benefit stands on one invoice
\* at a time, each further one has used up an approval of its own, and all
\* dispositions share the basis of the first.
THEOREM BenefitsAreSpentOnce == Spec => []BenefitSpentOnce
<1>1. Spec => []BenefitInv
  BY InitBenefitInv, NextBenefitInv, PTL DEF Spec
<1>2. BenefitInv => BenefitSpentOnce
  BY SpentInOrder DEF BenefitInv
<1> QED  BY <1>1, <1>2, PTL

-----------------------------------------------------------------------------
(* What the tables hold, for the histories and the disposition. *)

ClosureStatuses == {"PENDING", "ACCEPTED", "WITHDRAWN", "REJECTED", "CANCELLED", "SETTLED"}
Actions == {"REQUESTED", "NOTE", "ACCEPT", "WITHDRAW", "REJECT", "CANCEL", "SETTLE", "REVERSE"}
Contribution == [channel : Channels, status : Statuses, verified : Nat]
Event == [action : Actions, disposition : Nat]
Closure == [status : ClosureStatuses, events : Seq(Event)]
Verified == {i \in Rows : contributions[i].verified > 0}

\* Exactly what was received has its place in the order of receipts.
PaymentsAreSound ==
  /\ contributions \in Seq(Contribution) /\ Len(contributions) <= MaxContributions
  /\ \A i \in Rows : /\ contributions[i].verified <= Cardinality(Verified)
                     /\ contributions[i].status \in {"PAID", "REVERSED"} <=> i \in Verified
  /\ \A i, j \in Verified : contributions[i].verified = contributions[j].verified => i = j

Happened(c, action) == \E n \in DOMAIN closures[c].events : closures[c].events[n].action = action

\* An event names its disposition as it still is.
EventStands(e) ==
  /\ e.action \in {"SETTLE", "REVERSE"} => e.disposition \in DOMAIN dispositions
  /\ e.action = "SETTLE" => dispositions[e.disposition].completed
  /\ e.action = "REVERSE" => dispositions[e.disposition].retired

\* A request's status is the replay of its events.
HistoryReplays(c) ==
  /\ Replay(closures[c].events) = closures[c].status
  /\ closures[c].status \in {"ACCEPTED", "SETTLED"} => Happened(c, "ACCEPT")
  /\ \A n \in DOMAIN closures[c].events : EventStands(closures[c].events[n])
  /\ closures[c].status = "SETTLED" =>
       Happened(c, "SETTLE") /\ ~dispositions[Settlement(c)].retired

HistoriesReplay == closures \in Seq(Closure) /\ \A c \in Requests : HistoryReplays(c)

Live == {"PENDING", "ACCEPTED", "SETTLED", "CANCELLED"}

\* One request is in force, and the account is where it has come to.
AccountFollows ==
  /\ mode \in {"METAL", "INR"} /\ eligible \in BOOLEAN
  /\ account \in {"ACTIVE", "CLOSURE_PENDING", "REDEEMED", "CANCELLED"}
  /\ \A c, e \in Requests : closures[c].status \in Live /\ closures[e].status \in Live => c = e
  /\ \A c \in Requests : closures[c].status = "SETTLED" => account = "REDEEMED"
  /\ \A c \in Requests : closures[c].status = "CANCELLED" => account = "CANCELLED"
  /\ account = "REDEEMED" => \E c \in Requests : closures[c].status = "SETTLED"
  /\ account = "CANCELLED" => contributions = <<>> /\ AcceptedClosure
  /\ dispositions # <<>> => account \in {"CLOSURE_PENDING", "REDEEMED"}

\* The dispositions are a chain about one closure: only the last may be in
\* force, and the closure is where it has come to.
DispositionsChain ==
  /\ Len(dispositions) <= MaxDispositions
  /\ \A i \in DOMAIN dispositions :
       LET r == dispositions[i]
       IN  /\ r.closure \in Requests
           /\ r.sequence \in Nat /\ r.resolved \in Nat
           /\ r.sequence <= Sequence(r.closure) /\ r.resolved <= Sequence(r.closure)
           /\ r.completed \in BOOLEAN /\ r.retired \in BOOLEAN
           /\ r.retired <=> r.resolved > 0
           /\ ~r.retired => closures[r.closure].status = IF r.completed THEN "SETTLED" ELSE "ACCEPTED"
           /\ i > 1 => /\ dispositions[i-1].retired
                       /\ dispositions[i-1].closure = r.closure
                       /\ dispositions[i-1].resolved <= r.sequence

\* What a disposition hands over, and to whom.
LegsAreSound ==
  \A i \in DOMAIN dispositions :
    LET r == dispositions[i]
    IN  /\ r.invoice \in Nat
        /\ DOMAIN r.refunds \subseteq Rows
        /\ \A j \in DOMAIN r.refunds : r.refunds[j] \in Nat \ {0}
        /\ r.done \subseteq Legs(i)

\* Principal rests while a disposition is in force; in INR, from the first
\* proposal on, and every proposal splits all of it.
PrincipalRests ==
  \A i \in DOMAIN dispositions :
    LET r == dispositions[i]
    IN  /\ mode = "METAL" => /\ r.completed /\ r.refunds = <<>> /\ r.done = {JewelleryLeg}
                             /\ r.invoice > 0
                             /\ ~r.retired => r.invoice = Principal
        /\ mode = "INR" => /\ Principal > 0 /\ r.sources = Sources
                           /\ \A j \in Rows : contributions[j].status # "PENDING"
                           /\ r.invoice + SumFunction(r.refunds) = Principal
                           /\ r.completed => Fulfilled(i) = Principal

\* How many rows of retained sources are paid.
PaidOf(s) == Cardinality({j \in DOMAIN s : s[j].status = "PAID"})

\* A metal settlement stands in its closure's history.
SettlementsAreRecorded ==
  mode = "METAL" => \A i \in DOMAIN dispositions :
    LET r == dispositions[i]
    IN  /\ r.invoice = Amount * PaidOf(r.sources)
        /\ r.sequence + 1 \in DOMAIN closures[r.closure].events
        /\ closures[r.closure].events[r.sequence + 1] = [action |-> "SETTLE", disposition |-> i]

\* Invoices follow the handovers of benefits.
InvoicesFollow ==
  /\ award.recorded \in BOOLEAN
  /\ \A n \in DOMAIN decisions : decisions[n].invoice \in DOMAIN invoices
  /\ \A i \in DOMAIN dispositions :
       LET r == dispositions[i]
       IN  /\ r.approval \in 0..Len(decisions)
           /\ r.award = award.recorded
           /\ r.award => r.basis = "NORMAL" /\ r.invoice > 0
           /\ mode = "INR" /\ r.award => award.sources = Sources
           /\ (\E m \in DOMAIN invoices : invoices[m].disposition = i) <=> r.award /\ JewelleryLeg \in r.done
           /\ \A m \in DOMAIN invoices : invoices[m].disposition = i => invoices[m].reversed = r.retired

\* What a session loaded names requests and dispositions that exist.
DesksAreSound ==
  /\ DOMAIN desk = Desks
  /\ \A d \in Desks :
       /\ desk[d].kind \in {"PROPOSE", "SETTLE"} => desk[d].evidence.closure \in Requests
       /\ desk[d].kind = "PROPOSE" => desk[d].evidence.payable \in Invoices
       /\ desk[d].kind = "RESOLVE" => desk[d].evidence.proposal \in DOMAIN dispositions

\* No row is refunded more than it received, even when all that a proposal
\* in force still owes is refunded.
RefundsAreCovered ==
  /\ RefundsWithinCapture
  /\ \A i \in DOMAIN dispositions : ~dispositions[i].retired =>
       \A j \in DOMAIN dispositions[i].refunds \ dispositions[i].done :
         RefundedOnline(j) + dispositions[i].refunds[j] <= Amount

\* What the tables say together.
ClosingFacts ==
  /\ PaymentsAreSound /\ HistoriesReplay /\ AccountFollows
  /\ DispositionsChain /\ LegsAreSound /\ PrincipalRests /\ SettlementsAreRecorded
  /\ InvoicesFollow

ClosingInv == BenefitInv /\ ClosingFacts /\ DesksAreSound

-----------------------------------------------------------------------------
(* The replay of a request's events. *)

\* h is the table of replays over the sets of events.
Replays(s, S, h) ==
  h = [R \in SUBSET S |-> IF R = {} THEN "" ELSE Advance(h[R \ {Max(R)}], s[Max(R)].action)]

\* The library's fold looks its result up in such a table, if there is one.
LEMMA ReplayIsTabled ==
  ASSUME NEW s, NEW g, Replays(s, DOMAIN s, g)
  PROVE  \E h : Replays(s, DOMAIN s, h) /\ Replay(s) = h[DOMAIN s]
  BY DEF Replay, FoldLeft, MapThenFoldSet, Replays


\* A set of row numbers that is not empty has a last one, and loses one with it.
LEMMA LastCounts ==
  ASSUME NEW n \in Nat, NEW R \in SUBSET (1..n), R # {}
  PROVE  /\ Max(R) \in R /\ IsFiniteSet(R) /\ R \ {Max(R)} \in SUBSET (1..n)
         /\ Cardinality(R) \in Nat /\ Cardinality(R \ {Max(R)}) = Cardinality(R) - 1
<1>1. Max(R) \in R
  BY GreatestOfRows
<1>2. IsFiniteSet(1..n)
  BY FS_Interval
<1>3. IsFiniteSet(R)
  BY <1>2, FS_Subset
<1>4. Cardinality(R) \in Nat /\ Cardinality(R \ {Max(R)}) = Cardinality(R) - 1
  BY <1>1, <1>3, FS_RemoveElement, FS_CardinalityType
<1> QED  BY <1>1, <1>3, <1>4

\* There is a table: it is filled in by the size of the sets of events.
LEMMA ReplaysExist ==
  ASSUME NEW s, NEW m \in Nat
  PROVE  \E h : Replays(s, 1..m, h)
<1> DEFINE S == 1..m
           Entry(h, R) == IF R = {} THEN "" ELSE Advance(h[R \ {Max(R)}], s[Max(R)].action)
           T == {n \in Nat : \E h : \A R \in SUBSET S : Cardinality(R) <= n => h[R] = Entry(h, R)}
<1>i. IsFiniteSet(S)
  BY FS_Interval
<1>0. \A R \in SUBSET S : IsFiniteSet(R) /\ Cardinality(R) \in Nat
  BY <1>i, FS_Subset, FS_CardinalityType
<1>a. \A R \in SUBSET S : R # {} =>
        R \ {Max(R)} \in SUBSET S /\ Cardinality(R \ {Max(R)}) = Cardinality(R) - 1
  BY LastCounts
<1>1. 0 \in T
  <2>1. PICK h : h = [R \in SUBSET S |-> ""]
    OBVIOUS
  <2>2. \A R \in SUBSET S : Cardinality(R) <= 0 => R = {}
    BY <1>0, FS_EmptySet
  <2>3. \A R \in SUBSET S : Cardinality(R) <= 0 => h[R] = Entry(h, R)
    BY <2>1, <2>2
  <2> QED  BY <2>3
<1>2. ASSUME NEW n \in Nat, n \in T  PROVE n + 1 \in T
  <2>1. PICK h : \A R \in SUBSET S : Cardinality(R) <= n => h[R] = Entry(h, R)
    BY <1>2
  <2>2. PICK g : g = [R \in SUBSET S |-> IF Cardinality(R) <= n THEN h[R] ELSE Entry(h, R)]
    OBVIOUS
  <2>3. ASSUME NEW R \in SUBSET S, Cardinality(R) <= n + 1  PROVE g[R] = Entry(g, R)
    <3>1. CASE R = {}
      <4>1. Cardinality(R) = 0
        BY <3>1, FS_EmptySet
      <4>2. Cardinality(R) <= n
        BY <4>1
      <4>3. g[R] = h[R]
        BY <4>2, <2>2
      <4>4. h[R] = Entry(h, R)
        BY <4>2, <2>1
      <4> QED  BY <3>1, <4>3, <4>4
    <3>2. CASE R # {}
      <4>1. PICK r : r = R \ {Max(R)}
        OBVIOUS
      <4>2. r \in SUBSET S /\ Cardinality(r) = Cardinality(R) - 1 /\ Cardinality(R) \in Nat
        BY <3>2, <4>1, <1>0, <1>a
      <4>3. Cardinality(r) <= n
        BY <4>2, <2>3
      <4>4. g[r] = h[r]
        BY <4>2, <4>3, <2>2
      <4>5. g[R] = Entry(h, R)
        BY <2>1, <2>2
      <4>6. /\ Entry(h, R) = Advance(h[r], s[Max(R)].action)
            /\ Entry(g, R) = Advance(g[r], s[Max(R)].action)
        BY <3>2, <4>1
      <4> QED  BY <4>4, <4>5, <4>6
    <3> QED  BY <3>1, <3>2
  <2>4. n + 1 \in Nat
    OBVIOUS
  <2> QED  BY <2>3, <2>4
<1>3. Nat \subseteq T
  <2> HIDE DEF T
  <2> QED  BY <1>1, <1>2, SetInduction
<1>s. IsFiniteSet(S) /\ Cardinality(S) \in Nat
  BY <1>0
<1>4. Cardinality(S) \in T
  BY <1>s, <1>3
<1>5. PICK h : \A R \in SUBSET S : Cardinality(R) <= Cardinality(S) => h[R] = Entry(h, R)
  BY <1>4
<1>6. \A R \in SUBSET S : Cardinality(R) <= Cardinality(S)
  BY <1>s, FS_Subset
<1>7. PICK g : g = [R \in SUBSET S |-> h[R]]
  OBVIOUS
<1>8. \A R \in SUBSET S : R \ {Max(R)} \in SUBSET S
  OBVIOUS
<1>9. \A R \in SUBSET S : g[R] = Entry(g, R)
  BY <1>5, <1>6, <1>7, <1>8
<1>10. g = [R \in SUBSET S |-> Entry(g, R)]
  BY <1>7, <1>9
<1> QED  BY <1>10 DEF Replays

\* Tables of events that begin alike agree on the beginning.
LEMMA ReplaysAgree ==
  ASSUME NEW s, NEW t, NEW m \in Nat, NEW h, NEW k,
         \A x \in 1..m : s[x] = t[x],
         Replays(s, 1..(m + 1), h), Replays(t, 1..m, k)
  PROVE  \A R \in SUBSET (1..m) : h[R] = k[R]
<1> DEFINE T == {n \in Nat : \A R \in SUBSET (1..m) : Cardinality(R) <= n => h[R] = k[R]}
<1>i. IsFiniteSet(1..m)
  BY FS_Interval
<1>j. \A R \in SUBSET (1..m) : IsFiniteSet(R) /\ Cardinality(R) \in Nat
  BY <1>i, FS_Subset, FS_CardinalityType
<1>k. \A R \in SUBSET (1..m) : R \in SUBSET (1..(m + 1))
  OBVIOUS
<1>0. \A R \in SUBSET (1..m) : R \in SUBSET (1..(m + 1)) /\ IsFiniteSet(R) /\ Cardinality(R) \in Nat
  BY <1>j, <1>k
<1>1. \A R \in SUBSET (1..m) :
        /\ h[R] = IF R = {} THEN "" ELSE Advance(h[R \ {Max(R)}], s[Max(R)].action)
        /\ k[R] = IF R = {} THEN "" ELSE Advance(k[R \ {Max(R)}], t[Max(R)].action)
  BY <1>0 DEF Replays
<1>2. 0 \in T
  <2>1. \A R \in SUBSET (1..m) : Cardinality(R) <= 0 => R = {}
    BY <1>0, FS_EmptySet
  <2> QED  BY <2>1, <1>1
<1>3. ASSUME NEW n \in Nat, n \in T  PROVE n + 1 \in T
  <2>1. ASSUME NEW R \in SUBSET (1..m), Cardinality(R) <= n + 1  PROVE h[R] = k[R]
    <3>1. CASE R = {}
      BY <3>1, <1>1
    <3>2. CASE R # {}
      <4>1. /\ Max(R) \in R /\ Cardinality(R) \in Nat /\ R \ {Max(R)} \in SUBSET (1..m)
            /\ Cardinality(R \ {Max(R)}) = Cardinality(R) - 1
        BY <3>2, LastCounts
      <4>2. Cardinality(R \ {Max(R)}) <= n
        BY <4>1, <2>1
      <4>3. h[R \ {Max(R)}] = k[R \ {Max(R)}]
        BY <4>1, <4>2, <1>3
      <4>4. s[Max(R)] = t[Max(R)]
        BY <4>1
      <4> QED  BY <3>2, <4>3, <4>4, <1>1
    <3> QED  BY <3>1, <3>2
  <2>2. n + 1 \in Nat
    OBVIOUS
  <2> QED  BY <2>1, <2>2
<1>4. Nat \subseteq T
  <2> HIDE DEF T
  <2> QED  BY <1>2, <1>3, SetInduction
<1> QED
  <2> TAKE R \in SUBSET (1..m)
  <2>1. Cardinality(R) \in T
    BY <1>0, <1>4
  <2>2. Cardinality(R) <= Cardinality(R)
    BY <1>0
  <2> QED  BY <2>1, <2>2

\* The replay of one more event advances the replay of those before it.
LEMMA ReplayGrows ==
  \A s, e : IsTable(s) => Replay(Append(s, e)) = Advance(Replay(s), e.action)
<1> SUFFICES ASSUME NEW s, NEW e, IsTable(s)
             PROVE  Replay(Append(s, e)) = Advance(Replay(s), e.action)
  OBVIOUS
<1>1. PICK m : m = Len(s)
  OBVIOUS
<1>2. PICK t : t = Append(s, e)
  OBVIOUS
<1>3. m \in Nat /\ DOMAIN s = 1..m /\ DOMAIN t = 1..(m + 1) /\ t[m + 1] = e /\ \A x \in 1..m : t[x] = s[x]
  BY <1>1, <1>2, TableNumbers, TableGrows
<1>4. m + 1 \in Nat
  BY <1>3
<1>a. PICK g : Replays(t, 1..(m + 1), g)
  BY <1>4, ReplaysExist
<1>b. Replays(t, DOMAIN t, g)
  BY <1>a, <1>3
<1>c. \E h : Replays(t, DOMAIN t, h) /\ Replay(t) = h[DOMAIN t]
  BY <1>b, ReplayIsTabled
<1>5. PICK h : Replays(t, 1..(m + 1), h) /\ Replay(t) = h[1..(m + 1)]
  BY <1>c, <1>3
<1>6. PICK k : Replays(s, 1..m, k) /\ Replay(s) = k[1..m]
  BY <1>3, ReplaysExist, ReplayIsTabled
<1>7. h[1..m] = k[1..m]
  <2>1. \A R \in SUBSET (1..m) : h[R] = k[R]
    BY <1>3, <1>5, <1>6, ReplaysAgree
  <2> QED  BY <2>1
<1>8. Max(1..(m + 1)) = m + 1
  <2>1. (1..(m + 1)) \in SUBSET (1..(m + 1)) /\ m + 1 \in 1..(m + 1)
    BY <1>3
  <2>2. Max(1..(m + 1)) \in 1..(m + 1) /\ \A k_1 \in 1..(m + 1) : k_1 <= Max(1..(m + 1))
    BY <1>4, <2>1, GreatestOfRows
  <2> QED  BY <1>3, <2>1, <2>2
<1>9. (1..(m + 1)) \ {m + 1} = 1..m /\ 1..(m + 1) # {}
  BY <1>3
<1>10. h[1..(m + 1)] = Advance(h[1..m], t[m + 1].action)
  BY <1>5, <1>8, <1>9 DEF Replays
<1> QED  BY <1>2, <1>3, <1>5, <1>6, <1>7, <1>10

\* No events lead nowhere.
LEMMA ReplayOfNone == Replay(<<>>) = ""
<1>1. IsTable(<<>>)
  BY EmptySeq DEF IsTable
<1>2. DOMAIN <<>> = 1..0 /\ 1..0 = {}
  BY <1>1, TableNumbers
<1>3. PICK h : Replays(<<>>, 1..0, h) /\ Replay(<<>>) = h[1..0]
  BY <1>2, ReplaysExist, ReplayIsTabled
<1> QED  BY <1>2, <1>3 DEF Replays

-----------------------------------------------------------------------------
(* How a proposal splits the principal. *)

\* What invoice b leaves of a row of amount a, when the rows of S pay in the
\* order v.
Ahead(v, S, x) == {y \in S : v[y] < v[x]}
Left(v, S, a, b, x) == a - Min2(a, Max2(0, b - a * Cardinality(Ahead(v, S, x))))

\* Multiples are integers, and one more of them is the amount more.
LEMMA OneMore == \A a, n \in Nat : a * n \in Nat /\ a * (n + 1) = a * n + a
  OBVIOUS

\* What is left of a row is part of its amount.
LEMMA LeftIsPart ==
  ASSUME NEW v, NEW S, IsFiniteSet(S), NEW a \in Nat, NEW b \in Nat, NEW x
  PROVE  Left(v, S, a, b, x) \in 0..a
<1>1. PICK P : P = a * Cardinality(Ahead(v, S, x))
  OBVIOUS
<1>2. IsFiniteSet(Ahead(v, S, x))
  BY FS_Subset DEF Ahead
<1>3. Cardinality(Ahead(v, S, x)) \in Nat
  BY <1>2, FS_CardinalityType
<1>4. P \in Nat
  BY <1>1, <1>3, OneMore
<1>5. Left(v, S, a, b, x) = a - Min2(a, Max2(0, b - P))
  BY <1>1 DEF Left
<1> QED  BY <1>4, <1>5 DEF Min2, Max2

\* Rows verified one after the other leave together what the invoice leaves.
LEMMA LeftAddsUp ==
  ASSUME NEW S, IsFiniteSet(S), NEW N \in Nat, NEW v, \A x \in S : v[x] \in 1..N,
         \A x, y \in S : v[x] = v[y] => x = y, NEW a \in Nat, NEW b \in Nat
  PROVE  SumFunctionOnSet([x \in S |-> Left(v, S, a, b, x)], S)
           = a * Cardinality(S) - Min2(b, a * Cardinality(S))
<1> DEFINE F(s) == [x \in s |-> Left(v, s, a, b, x)]
           Holds(s) == SumFunctionOnSet(F(s), s) = a * Cardinality(s) - Min2(b, a * Cardinality(s))
           T == {n \in Nat : \A s \in SUBSET S : Cardinality(s) = n => Holds(s)}
<1>0. \A s \in SUBSET S : IsFiniteSet(s) /\ Cardinality(s) \in Nat
  BY FS_Subset, FS_CardinalityType
<1>1. 0 \in T
  <2>1. \A s \in SUBSET S : Cardinality(s) = 0 => s = {}
    BY <1>0, FS_EmptySet
  <2>2. SumFunctionOnSet(F({}), {}) = 0
    BY SumStep
  <2>3. Cardinality({}) = 0 /\ a * 0 = 0
    BY FS_EmptySet
  <2>4. Holds({})
    BY <2>2, <2>3 DEF Min2
  <2> HIDE DEF Holds
  <2> QED  BY <2>1, <2>4
<1>2. ASSUME NEW n \in Nat, n \in T  PROVE n + 1 \in T
  <2>1. ASSUME NEW s \in SUBSET S, Cardinality(s) = n + 1  PROVE Holds(s)
    <3>1. PICK V : V = {v[x] : x \in s}
      OBVIOUS
    <3>2. s # {}
      BY <2>1, FS_EmptySet
    <3>3. V \in SUBSET (1..N) /\ V # {}
      BY <3>1, <3>2
    <3>4. Max(V) \in V /\ \A k \in V : k <= Max(V)
      BY <3>3, GreatestOfRows
    <3>5. PICK m \in s : v[m] = Max(V)
      BY <3>1, <3>4
    <3>6. \A x \in s : v[x] <= v[m]
      BY <3>1, <3>4, <3>5
    <3>7. PICK r : r = s \ {m}
      OBVIOUS
    <3>8. r \in SUBSET S /\ IsFiniteSet(r) /\ m \notin r /\ s = r \cup {m}
      BY <3>7, <1>0
    <3>9. Cardinality(r) = Cardinality(s) - 1
      BY <3>7, <3>5, <1>0, FS_RemoveElement
    <3>10. Cardinality(r) = n
      BY <3>9, <2>1
    <3>11. \A x \in r : v[x] < v[m]
      BY <3>5, <3>6, <3>7, <3>8
    <3>12. Ahead(v, s, m) = r
      BY <3>8, <3>11 DEF Ahead
    <3>13. \A x \in r : Ahead(v, s, x) = Ahead(v, r, x)
      BY <3>8, <3>11 DEF Ahead
    <3>14. \A x \in r : F(s)[x] = F(r)[x]
      BY <3>8, <3>13 DEF Left
    <3>15. PICK g, h : g = F(s) /\ h = F(r)
      OBVIOUS
    <3>16. SumFunctionOnSet(g, r) = SumFunctionOnSet(h, r)
      BY <3>8, <3>14, <3>15, SumsAgree
    <3>17. SumFunctionOnSet(h, r) = a * n - Min2(b, a * n)
      <4>1. Holds(r)
        BY <1>2, <3>8, <3>10
      <4> QED  BY <4>1, <3>10, <3>15
    <3>18. \A x \in s : g[x] \in 0..a
      BY <1>0, <3>15, LeftIsPart
    <3>19. \A x \in s : g[x] \in Int
      BY <3>18
    <3>20. g[m] \in Int /\ \A x \in r : g[x] \in Int
      BY <3>19, <3>8
    <3>21. SumFunctionOnSet(g, s) = g[m] + SumFunctionOnSet(g, r)
      BY <3>8, <3>20, SumStep
    <3>22. g[m] = a - Min2(a, Max2(0, b - a * n))
      BY <3>10, <3>12, <3>15 DEF Left
    <3>23. PICK P : P = a * n /\ P \in Nat /\ a * (n + 1) = P + a
      BY OneMore
    <3>24. SumFunctionOnSet(g, s) = (a - Min2(a, Max2(0, b - P))) + (P - Min2(b, P))
      BY <3>16, <3>17, <3>21, <3>22, <3>23
    <3>25. SumFunctionOnSet(g, s) = (P + a) - Min2(b, P + a)
      BY <3>23, <3>24 DEF Min2, Max2
    <3> QED  BY <2>1, <3>15, <3>23, <3>25
  <2> QED  BY <2>1
<1>3. Nat \subseteq T
  <2> HIDE DEF T
  <2> QED  BY <1>1, <1>2, SetInduction
<1>4. Cardinality(S) \in T
  BY <1>0, <1>3
<1>5. Holds(S)
  BY <1>4
<1> QED  BY <1>5

\* The paid rows and their places.
LEMMA PaidPlaces ==
  PaymentsAreSound =>
    /\ Len(contributions) \in Nat /\ Rows = 1..Len(contributions)
    /\ IsFiniteSet(Rows) /\ IsFiniteSet(Verified) /\ Cardinality(Verified) \in Nat
    /\ Cardinality(Verified) <= Len(contributions)
    /\ Paid \subseteq Verified /\ IsFiniteSet(Paid) /\ Cardinality(Paid) \in Nat
    /\ \A i \in Verified : contributions[i].verified \in 1..Cardinality(Verified)
    /\ Principal \in Nat
<1> SUFFICES ASSUME PaymentsAreSound
             PROVE  /\ Len(contributions) \in Nat /\ Rows = 1..Len(contributions)
                    /\ IsFiniteSet(Rows) /\ IsFiniteSet(Verified) /\ Cardinality(Verified) \in Nat
                    /\ Cardinality(Verified) <= Len(contributions)
                    /\ Paid \subseteq Verified /\ IsFiniteSet(Paid) /\ Cardinality(Paid) \in Nat
                    /\ \A i \in Verified : contributions[i].verified \in 1..Cardinality(Verified)
                    /\ Principal \in Nat
  OBVIOUS
<1>1. Len(contributions) \in Nat /\ Rows = 1..Len(contributions)
  BY DEF PaymentsAreSound, Rows
<1>2. IsFiniteSet(Rows) /\ Cardinality(Rows) = Len(contributions)
  <2>1. IsFiniteSet(1..Len(contributions)) /\ Cardinality(1..Len(contributions)) = Len(contributions)
    <3>1. PICK n : n = Len(contributions)
      OBVIOUS
    <3>2. 1 \in Int /\ n \in Int /\ n >= 0
      BY <1>1, <3>1
    <3>3. IsFiniteSet(1..n) /\ Cardinality(1..n) = IF 1 > n THEN 0 ELSE n - 1 + 1
      BY <3>2, FS_Interval
    <3>4. Cardinality(1..n) = n
      BY <3>2, <3>3
    <3> QED  BY <3>1, <3>3, <3>4
  <2> QED  BY <1>1, <2>1
<1>3. Verified \subseteq Rows /\ Paid \subseteq Verified
  BY DEF PaymentsAreSound, Verified, Paid
<1>4. IsFiniteSet(Verified) /\ Cardinality(Verified) <= Cardinality(Rows)
  BY <1>2, <1>3, FS_Subset
<1>5. IsFiniteSet(Paid)
  BY <1>3, <1>4, FS_Subset
<1>6. Cardinality(Verified) \in Nat /\ Cardinality(Paid) \in Nat
  BY <1>4, <1>5, FS_CardinalityType
<1>7. \A i \in Verified : contributions[i].verified \in 1..Cardinality(Verified)
  <2>1. \A i \in Rows : contributions[i].verified \in Nat /\ contributions[i].verified <= Cardinality(Verified)
    <3>1. \A i \in Rows : contributions[i] \in Contribution
      BY <1>1 DEF PaymentsAreSound
    <3> QED  BY <3>1 DEF PaymentsAreSound, Contribution
  <2> QED  BY <2>1, <1>6 DEF Verified
<1>8. Principal \in Nat
  BY <1>6, OneMore, ClosuresAssumption DEF Principal
<1> QED  BY <1>1, <1>2, <1>3, <1>4, <1>5, <1>6, <1>7, <1>8

\* An invoice within the principal and the refunds of the rest are all of it.
LEMMA SplitIsWhole ==
  ASSUME PaymentsAreSound, NEW invoice \in Nat, invoice <= Principal
  PROVE  /\ DOMAIN RefundLegs(invoice) \subseteq Paid
         /\ \A j \in DOMAIN RefundLegs(invoice) : RefundLegs(invoice)[j] \in Nat \ {0}
         /\ invoice + SumFunction(RefundLegs(invoice)) = Principal
<1>1. PICK v, S, N : v = [i \in Paid |-> contributions[i].verified] /\ S = Paid /\ N = Cardinality(Verified)
  OBVIOUS
<1>2. /\ IsFiniteSet(S) /\ N \in Nat /\ \A x \in S : v[x] \in 1..N
      /\ \A x, y \in S : v[x] = v[y] => x = y
  BY <1>1, PaidPlaces DEF PaymentsAreSound
<1>3. Amount \in Nat
  BY ClosuresAssumption
<1>4. \A i \in S : Remainder(i, invoice) = Left(v, S, Amount, invoice, i)
  <2> TAKE i \in S
  <2>1. {j \in Paid : contributions[j].verified < contributions[i].verified} = Ahead(v, S, i)
    BY <1>1 DEF Ahead
  <2> QED  BY <2>1 DEF Remainder, Before, Left
<1>5. PICK f : f = [x \in S |-> Left(v, S, Amount, invoice, x)]
  OBVIOUS
<1>6. SumFunctionOnSet(f, S) = Principal - Min2(invoice, Principal)
  <2>1. SumFunctionOnSet(f, S) = Amount * Cardinality(S) - Min2(invoice, Amount * Cardinality(S))
    BY <1>2, <1>3, <1>5, LeftAddsUp
  <2> QED  BY <2>1, <1>1 DEF Principal
<1>7. \A x \in S : f[x] \in 0..Amount
  BY <1>2, <1>3, <1>5, LeftIsPart
<1>8. PICK A, B : A = {x \in S : f[x] > 0} /\ B = {x \in S : f[x] = 0}
  OBVIOUS
<1>9. A \cup B = S /\ A \cap B = {} /\ \A x \in A \cup B : f[x] \in Int
  BY <1>3, <1>7, <1>8
<1>10. IsFiniteSet(A) /\ IsFiniteSet(B)
  BY <1>2, <1>8, FS_Subset
<1>11. SumFunctionOnSet(f, A \cup B) = SumFunctionOnSet(f, A) + SumFunctionOnSet(f, B)
  BY <1>9, <1>10, SumOfUnion
<1>12. SumFunctionOnSet(f, B) = 0
  BY <1>8, <1>10, SumOfZeros
<1>13. PICK g : g = RefundLegs(invoice)
  OBVIOUS
<1>14. DOMAIN g = A /\ \A x \in A : g[x] = f[x]
  BY <1>1, <1>4, <1>5, <1>8, <1>13 DEF RefundLegs
<1>15. SumFunctionOnSet(g, A) = SumFunctionOnSet(f, A)
  BY <1>10, <1>14, SumsAgree
<1>16. SumFunctionOnSet(f, A) \in Int
  BY <1>9, <1>10, SumsOfIntegers
<1>17. SumFunction(g) = Principal - Min2(invoice, Principal)
  BY <1>6, <1>9, <1>11, <1>12, <1>14, <1>15, <1>16 DEF SumFunction
<1>18. Principal \in Nat
  BY PaidPlaces
<1>19. invoice + SumFunction(g) = Principal
  BY <1>17, <1>18 DEF Min2
<1>20. \A j \in A : g[j] \in Nat \ {0}
  BY <1>3, <1>7, <1>8, <1>14
<1> QED  BY <1>1, <1>8, <1>13, <1>14, <1>19, <1>20

-----------------------------------------------------------------------------
(* The history of requests. *)

\* What the appending of an event changes, and that nothing else changes.
LEMMA EventAdded ==
  ASSUME HistoriesReplay, NEW c \in Requests, NEW action \in Actions, NEW status \in ClosureStatuses,
         NEW x \in Nat, AppendEvent(c, action, status, x),
         status = Advance(closures[c].status, action)
  PROVE  /\ closures' \in Seq(Closure) /\ Requests' = Requests
         /\ \A e \in Requests \ {c} : closures'[e] = closures[e]
         /\ closures'[c].status = status
         /\ Len(closures[c].events) \in Nat
         /\ DOMAIN closures[c].events = 1..Len(closures[c].events)
         /\ Len(closures'[c].events) = Len(closures[c].events) + 1
         /\ DOMAIN closures'[c].events = 1..(Len(closures[c].events) + 1)
         /\ \A n \in DOMAIN closures[c].events : closures'[c].events[n] = closures[c].events[n]
         /\ closures'[c].events[Len(closures[c].events) + 1] = [action |-> action, disposition |-> x]
         /\ Replay(closures'[c].events) = status
<1>1. PICK s, e : s = closures[c].events /\ e = [action |-> action, disposition |-> x]
  OBVIOUS
<1>2. closures \in Seq(Closure) /\ DOMAIN closures = 1..Len(closures) /\ Len(closures) \in Nat
  BY DEF HistoriesReplay
<1>3. closures[c] \in Closure
  BY <1>2 DEF Requests
<1>4. s \in Seq(Event) /\ e \in Event
  BY <1>1, <1>3 DEF Closure, Event
<1>5. /\ Append(s, e) \in Seq(Event) /\ Len(s) \in Nat /\ DOMAIN s = 1..Len(s)
      /\ Len(Append(s, e)) = Len(s) + 1 /\ DOMAIN Append(s, e) = 1..(Len(s) + 1)
      /\ Append(s, e)[Len(s) + 1] = e
      /\ \A n \in 1..Len(s) : Append(s, e)[n] = s[n]
  BY <1>4
<1>6. closures' = [closures EXCEPT ![c] = [status |-> status, events |-> Append(s, e)]]
  BY <1>1 DEF AppendEvent
<1>7. [status |-> status, events |-> Append(s, e)] \in Closure
  BY <1>5 DEF Closure
<1>8. closures' \in Seq(Closure) /\ DOMAIN closures' = DOMAIN closures
  <2>1. PICK q : q = [status |-> status, events |-> Append(s, e)]
    OBVIOUS
  <2>2. closures' = [closures EXCEPT ![c] = q] /\ q \in Closure
    BY <2>1, <1>6, <1>7
  <2> QED  BY <2>2, <1>2, ExceptSeq DEF Requests
<1>9. closures'[c] = [status |-> status, events |-> Append(s, e)]
  BY <1>6 DEF Requests
<1>10. \A f \in Requests \ {c} : closures'[f] = closures[f]
  BY <1>6 DEF Requests
<1>11. closures'[c].status = status /\ closures'[c].events = Append(s, e)
  BY <1>9
<1>12. IsTable(s)
  BY <1>4 DEF IsTable, Range
<1>13. Replay(s) = closures[c].status
  BY <1>1 DEF HistoriesReplay, HistoryReplays
<1>14. Replay(Append(s, e)) = Advance(closures[c].status, action)
  BY <1>1, <1>12, <1>13, ReplayGrows
<1> QED  BY <1>1, <1>5, <1>8, <1>10, <1>11, <1>14 DEF Requests

\* The greatest of numbers with a new greatest one.
LEMMA NewLast ==
  \A n \in Nat : \A R : R \subseteq 1..n => Max(R \cup {n + 1}) = n + 1
<1> SUFFICES ASSUME NEW n \in Nat, NEW R, R \subseteq 1..n  PROVE Max(R \cup {n + 1}) = n + 1
  OBVIOUS
<1>1. PICK Q : Q = R \cup {n + 1}
  OBVIOUS
<1>2. Q \in SUBSET (1..(n + 1)) /\ Q # {} /\ n + 1 \in Q
  BY <1>1
<1>3. n + 1 \in Nat
  OBVIOUS
<1>4. Max(Q) \in Q /\ \A k \in Q : k <= Max(Q)
  BY <1>2, <1>3, GreatestOfRows
<1>5. Max(Q) \in 1..(n + 1) /\ n + 1 <= Max(Q)
  BY <1>2, <1>4
<1>6. Max(Q) = n + 1
  BY <1>5
<1> QED  BY <1>1, <1>6

\* Dispositions are neither removed, nor reopened, nor put in force again.
DispositionsGrow ==
  /\ DOMAIN dispositions \subseteq DOMAIN dispositions'
  /\ \A i \in DOMAIN dispositions :
       /\ dispositions[i].completed => dispositions'[i].completed
       /\ dispositions[i].retired => dispositions'[i].retired

\* What was recorded of a disposition stays true.
LEMMA EventStandsStill ==
  ASSUME DispositionsGrow
  PROVE  \A e, f : EventStands(e) /\ f = e =>
           /\ f.action \in {"SETTLE", "REVERSE"} => f.disposition \in DOMAIN dispositions'
           /\ f.action = "SETTLE" => dispositions'[f.disposition].completed
           /\ f.action = "REVERSE" => dispositions'[f.disposition].retired
  BY DEF DispositionsGrow, EventStands

\* An event that advances the one request in force, about a disposition that
\* is as the event says, keeps the histories.
LEMMA EventKeepsHistories ==
  ASSUME HistoriesReplay, AccountFollows, NEW c \in Requests, NEW action \in Actions,
         NEW status \in ClosureStatuses, NEW x \in Nat, AppendEvent(c, action, status, x),
         status = Advance(closures[c].status, action), closures[c].status \in Live,
         DispositionsGrow,
         action \in {"SETTLE", "REVERSE"} => x \in DOMAIN dispositions',
         action = "SETTLE" => dispositions'[x].completed /\ ~dispositions'[x].retired,
         action = "REVERSE" => dispositions'[x].retired
  PROVE  HistoriesReplay'
<1>1. PICK L : L = Len(closures[c].events)
  OBVIOUS
<1>2. /\ closures' \in Seq(Closure) /\ Requests' = Requests
      /\ \A e \in Requests \ {c} : closures'[e] = closures[e]
      /\ closures'[c].status = status
      /\ L \in Nat /\ DOMAIN closures[c].events = 1..L
      /\ DOMAIN closures'[c].events = 1..(L + 1)
      /\ \A n \in 1..L : closures'[c].events[n] = closures[c].events[n]
      /\ closures'[c].events[L + 1] = [action |-> action, disposition |-> x]
      /\ Replay(closures'[c].events) = status
  <2>1. /\ closures' \in Seq(Closure) /\ Requests' = Requests
        /\ \A e \in Requests \ {c} : closures'[e] = closures[e]
        /\ closures'[c].status = status
        /\ Replay(closures'[c].events) = status
    BY EventAdded
  <2>2. /\ L \in Nat /\ DOMAIN closures[c].events = 1..L
        /\ DOMAIN closures'[c].events = 1..(L + 1)
    BY <1>1, EventAdded
  <2>3. \A n \in 1..L : closures'[c].events[n] = closures[c].events[n]
    BY <1>1, EventAdded
  <2>4. closures'[c].events[L + 1] = [action |-> action, disposition |-> x]
    BY <1>1, EventAdded
  <2> QED  BY <2>1, <2>2, <2>3, <2>4
<1>3. closures'[c].events[L + 1].action = action /\ closures'[c].events[L + 1].disposition = x
  BY <1>2
<1>4. status \in {"ACCEPTED", "SETTLED"} => action = "ACCEPT" \/ closures[c].status \in {"ACCEPTED", "SETTLED"}
  BY DEF Advance, ClosureStatuses, Actions, Live
<1>5. status = "SETTLED" => action = "SETTLE"
  BY DEF Advance, ClosureStatuses, Actions, Live
<1>6. \A e \in Requests \ {c} : closures[e].status # "SETTLED"
  BY DEF AccountFollows, Live
<1>7. ASSUME NEW e \in Requests \ {c}
      PROVE  HistoryReplays(e)'
  <2>1. closures'[e] = closures[e] /\ closures'[e].status # "SETTLED"
    BY <1>2, <1>6, <1>7
  <2>2. HistoryReplays(e)
    BY DEF HistoriesReplay
  <2>3. Replay(closures'[e].events) = closures'[e].status
    BY <2>1, <2>2 DEF HistoryReplays
  <2>4. closures'[e].status \in {"ACCEPTED", "SETTLED"} => Happened(e, "ACCEPT")'
    BY <2>1, <2>2 DEF HistoryReplays, Happened
  <2>5. \A n \in DOMAIN closures[e].events : EventStands(closures[e].events[n])
    BY <2>2 DEF HistoryReplays
  <2>6. \A n \in DOMAIN closures'[e].events : EventStands(closures[e].events[n])'
    BY <2>1, <2>5, EventStandsStill DEF EventStands
  <2> QED  BY <2>1, <2>3, <2>4, <2>6 DEF HistoryReplays
<1>8. Replay(closures'[c].events) = closures'[c].status
  BY <1>2
<1>9. closures'[c].status \in {"ACCEPTED", "SETTLED"} => Happened(c, "ACCEPT")'
  <2>1. CASE action = "ACCEPT"
    BY <2>1, <1>2, <1>3 DEF Happened
  <2>2. CASE closures[c].status \in {"ACCEPTED", "SETTLED"}
    <3>1. PICK n \in 1..L : closures[c].events[n].action = "ACCEPT"
      BY <2>2, <1>2 DEF HistoriesReplay, HistoryReplays, Happened
    <3>2. closures'[c].events[n] = closures[c].events[n]
      BY <3>1, <1>2
    <3>3. n \in 1..(L + 1)
      BY <1>2
    <3> QED  BY <3>1, <3>2, <3>3, <1>2 DEF Happened
  <2> QED  BY <2>1, <2>2, <1>2, <1>4
<1>10. ASSUME NEW n \in DOMAIN closures'[c].events
       PROVE  EventStands(closures[c].events[n])'
  <2>1. CASE n = L + 1
    BY <2>1, <1>2, <1>3 DEF EventStands
  <2>2. CASE n # L + 1
    <3>1. n \in DOMAIN closures[c].events
      BY <2>2, <1>2
    <3>2. closures'[c].events[n] = closures[c].events[n]
      BY <3>1, <1>2
    <3>3. EventStands(closures[c].events[n])
      BY <3>1 DEF HistoriesReplay, HistoryReplays
    <3> QED  BY <3>2, <3>3, EventStandsStill DEF EventStands
  <2> QED  BY <2>1, <2>2
<1>11. ASSUME closures'[c].status = "SETTLED"
       PROVE  Happened(c, "SETTLE")' /\ ~dispositions'[Settlement(c)'].retired
  <2>1. action = "SETTLE"
    BY <1>2, <1>5, <1>11
  <2>2. Happened(c, "SETTLE")'
    BY <2>1, <1>2, <1>3 DEF Happened
  <2>3. PICK R : R = {n \in 1..L : closures'[c].events[n].action = "SETTLE"}
    OBVIOUS
  <2>4. {n \in 1..(L + 1) : closures'[c].events[n].action = "SETTLE"} = R \cup {L + 1}
    BY <2>1, <2>3, <1>2, <1>3
  <2>5. Max(R \cup {L + 1}) = L + 1
    BY <2>3, <1>2, NewLast
  <2>6. Settlement(c)' = x
    BY <2>4, <2>5, <1>2, <1>3 DEF Settlement
  <2> QED  BY <2>1, <2>2, <2>6
<1>12. HistoryReplays(c)'
  BY <1>8, <1>9, <1>10, <1>11 DEF HistoryReplays
<1> QED  BY <1>2, <1>7, <1>12 DEF HistoriesReplay

\* A settlement that happened is that of an event about a disposition.
LEMMA SettlementStands ==
  ASSUME HistoriesReplay, NEW c \in Requests, Happened(c, "SETTLE")
  PROVE  Settlement(c) \in DOMAIN dispositions /\ dispositions[Settlement(c)].completed
<1>1. PICK s, L : s = closures[c].events /\ L = Len(s)
  OBVIOUS
<1>2. closures \in Seq(Closure) /\ DOMAIN closures = 1..Len(closures)
  BY DEF HistoriesReplay
<1>3. closures[c] \in Closure
  BY <1>2 DEF Requests
<1>4. L \in Nat /\ DOMAIN s = 1..L
  BY <1>1, <1>3 DEF Closure
<1>5. PICK R : R = {n \in DOMAIN s : s[n].action = "SETTLE"}
  OBVIOUS
<1>6. R # {} /\ R \in SUBSET (1..L)
  BY <1>1, <1>4, <1>5 DEF Happened
<1>7. Max(R) \in R
  BY <1>4, <1>6, GreatestOfRows
<1>8. Settlement(c) = s[Max(R)].disposition
  BY <1>1, <1>5, <1>6 DEF Settlement
<1>9. EventStands(s[Max(R)]) /\ s[Max(R)].action = "SETTLE"
  BY <1>1, <1>5, <1>7 DEF HistoriesReplay, HistoryReplays
<1> QED  BY <1>8, <1>9 DEF EventStands

\* Dispositions that grow without being retired leave the histories as they are.
LEMMA HistoriesKept ==
  ASSUME HistoriesReplay, UNCHANGED closures, DispositionsGrow,
         \A i \in DOMAIN dispositions : dispositions'[i].retired = dispositions[i].retired
  PROVE  HistoriesReplay'
<1>1. ASSUME NEW c \in Requests  PROVE HistoryReplays(c)'
  <2>1. HistoryReplays(c) /\ closures'[c] = closures[c]
    BY DEF HistoriesReplay
  <2>2. \A n \in DOMAIN closures[c].events : EventStands(closures[c].events[n])
    BY <2>1 DEF HistoryReplays
  <2>3. \A n \in DOMAIN closures'[c].events : EventStands(closures[c].events[n])'
    BY <2>1, <2>2, EventStandsStill DEF EventStands
  <2>4. Happened(c, "SETTLE") => Settlement(c) \in DOMAIN dispositions
    BY SettlementStands
  <2>5. Settlement(c)' = Settlement(c) /\ \A a : Happened(c, a)' = Happened(c, a)
    BY <2>1 DEF Settlement, Happened
  <2>6. closures'[c].status = "SETTLED" => Happened(c, "SETTLE")' /\ ~dispositions'[Settlement(c)'].retired
    BY <2>1, <2>4, <2>5 DEF HistoryReplays
  <2>7. closures'[c].status \in {"ACCEPTED", "SETTLED"} => Happened(c, "ACCEPT")'
    BY <2>1, <2>5 DEF HistoryReplays
  <2>8. Replay(closures'[c].events) = closures'[c].status
    BY <2>1 DEF HistoryReplays
  <2> QED  BY <2>3, <2>6, <2>7, <2>8 DEF HistoryReplays
<1>2. Requests' = Requests /\ closures' \in Seq(Closure)
  BY DEF Requests, HistoriesReplay
<1> QED  BY <1>1, <1>2 DEF HistoriesReplay

\* What a new request adds.
LEMMA RequestAdded ==
  ASSUME HistoriesReplay, RequestSchemeClosure
  PROVE  /\ closures' \in Seq(Closure)
         /\ Len(closures) \in Nat /\ Requests = 1..Len(closures) /\ Requests' = 1..(Len(closures) + 1)
         /\ \A e \in Requests : closures'[e] = closures[e]
         /\ closures'[Len(closures) + 1] =
              [status |-> "PENDING", events |-> <<[action |-> "REQUESTED", disposition |-> 0]>>]
<1>1. PICK r : r = [status |-> "PENDING", events |-> <<[action |-> "REQUESTED", disposition |-> 0]>>]
  OBVIOUS
<1>2. r \in Closure
  BY <1>1 DEF Closure, ClosureStatuses, Event, Actions
<1>3. closures' = Append(closures, r)
  BY <1>1 DEF RequestSchemeClosure
<1>4. closures \in Seq(Closure)
  BY DEF HistoriesReplay
<1>5. /\ Append(closures, r) \in Seq(Closure) /\ Len(closures) \in Nat
      /\ DOMAIN closures = 1..Len(closures) /\ DOMAIN Append(closures, r) = 1..(Len(closures) + 1)
      /\ \A e \in 1..Len(closures) : Append(closures, r)[e] = closures[e]
      /\ Append(closures, r)[Len(closures) + 1] = r
  BY <1>2, <1>4
<1> QED  BY <1>1, <1>3, <1>5 DEF Requests

\* A new request is pending and has no history yet.
LEMMA RequestKeepsHistories ==
  ASSUME HistoriesReplay, RequestSchemeClosure
  PROVE  HistoriesReplay'
<1>1. PICK L : L = Len(closures) + 1
  OBVIOUS
<1>2. PICK v : v = [action |-> "REQUESTED", disposition |-> 0]
  OBVIOUS
<1>3. /\ closures' \in Seq(Closure) /\ Requests' = Requests \cup {L}
      /\ \A e \in Requests : closures'[e] = closures[e]
      /\ closures'[L] = [status |-> "PENDING", events |-> <<v>>]
  BY <1>1, <1>2, RequestAdded
<1>4. dispositions' = dispositions
  BY DEF RequestSchemeClosure
<1>5. ASSUME NEW c \in Requests  PROVE HistoryReplays(c)'
  <2>1. HistoryReplays(c) /\ closures'[c] = closures[c]
    BY <1>3 DEF HistoriesReplay
  <2> QED  BY <2>1, <1>4 DEF HistoryReplays, Happened, EventStands, Settlement
<1>6. HistoryReplays(L)'
  <2>1. closures'[L].status = "PENDING" /\ closures'[L].events = <<v>> /\ v.action = "REQUESTED"
    BY <1>2, <1>3
  <2>2. Replay(<<v>>) = "PENDING"
    <3>1. IsTable(<<>>)
      BY EmptySeq DEF IsTable
    <3>2. Append(<<>>, v) = <<v>>
      OBVIOUS
    <3>3. Replay(<<v>>) = Advance("", "REQUESTED")
      BY <3>1, <3>2, <2>1, ReplayGrows, ReplayOfNone
    <3> QED  BY <3>3 DEF Advance
  <2>3. \A n \in DOMAIN <<v>> : <<v>>[n] = v
    OBVIOUS
  <2>4. \A n \in DOMAIN closures'[L].events : EventStands(closures[L].events[n])'
    BY <2>1, <2>3 DEF EventStands
  <2> QED  BY <2>1, <2>2, <2>4 DEF HistoryReplays
<1> QED  BY <1>3, <1>5, <1>6 DEF HistoriesReplay

-----------------------------------------------------------------------------
(* Payments. *)

\* A new agreement has no rows.
LEMMA InitClosing == Init => ClosingInv
<1> SUFFICES ASSUME Init  PROVE ClosingInv
  OBVIOUS
<1>1. /\ mode \in Modes /\ account = "ACTIVE" /\ eligible \in BOOLEAN
      /\ contributions = <<>> /\ closures = <<>> /\ dispositions = <<>>
      /\ desk = [d \in Desks |-> NothingLoaded]
      /\ award = NoAward /\ invoices = <<>> /\ decisions = <<>>
  BY DEF Init, ClosureInit, BenefitInit
<1>2. Rows = {} /\ Requests = {} /\ DOMAIN dispositions = {} /\ DOMAIN decisions = {}
  BY <1>1 DEF Rows, Requests
<1>3. Len(contributions) = 0 /\ Len(dispositions) = 0
  BY <1>1
<1>4. PaymentsAreSound
  BY <1>1, <1>2, <1>3, ClosuresAssumption DEF PaymentsAreSound, Verified
<1>5. HistoriesReplay
  BY <1>1, <1>2 DEF HistoriesReplay
<1>6. AccountFollows
  BY <1>1, <1>2, ClosuresAssumption DEF AccountFollows
<1>7. DispositionsChain /\ LegsAreSound /\ PrincipalRests /\ SettlementsAreRecorded
  BY <1>2, <1>3, MaxDispositionsAssumption
     DEF DispositionsChain, LegsAreSound, PrincipalRests, SettlementsAreRecorded
<1>8. InvoicesFollow
  BY <1>1, <1>2 DEF InvoicesFollow, NoAward
<1>9. DesksAreSound
  BY <1>1 DEF DesksAreSound, NothingLoaded
<1> QED  BY <1>4, <1>5, <1>6, <1>7, <1>8, <1>9, InitBenefitInv DEF ClosingInv, ClosingFacts

\* A step of one row that gives it the next place in the order of receipts, or
\* leaves its place.
LEMMA PaymentsStep ==
  ASSUME PaymentsAreSound, NEW x,
         contributions' \in Seq(Contribution), Len(contributions') <= MaxContributions,
         Rows' = Rows \cup {x},
         \A i \in Rows \ {x} : contributions'[i] = contributions[i],
         contributions'[x].status \in {"PAID", "REVERSED"} <=> contributions'[x].verified > 0,
         \/ contributions'[x].verified = IF x \in Rows THEN contributions[x].verified ELSE 0
         \/ x \notin Verified /\ contributions'[x].verified = NextVerified
  PROVE  PaymentsAreSound'
<1>1. PICK N : N = Cardinality(Verified)
  OBVIOUS
<1>2. /\ N \in Nat /\ IsFiniteSet(Verified) /\ Verified \subseteq Rows
      /\ \A i \in Verified : contributions[i].verified \in 1..N
  BY <1>1, PaidPlaces DEF Verified
<1>3. \A i \in Rows : contributions[i].verified \in Nat /\ contributions[i].verified <= N
  <2>1. \A i \in Rows : contributions[i] \in Contribution
    BY DEF PaymentsAreSound, Rows
  <2> QED  BY <2>1, <1>1 DEF PaymentsAreSound, Contribution
<1>4. NextVerified = N + 1
  BY <1>1, <1>2 DEF NextVerified, Verified
<1>5. \A i \in Rows : contributions[i].status \in {"PAID", "REVERSED"} <=> i \in Verified
  BY DEF PaymentsAreSound
<1>6. \A i, j \in Verified : contributions[i].verified = contributions[j].verified => i = j
  BY DEF PaymentsAreSound
<1>7. CASE contributions'[x].verified = IF x \in Rows THEN contributions[x].verified ELSE 0
  <2>1. Verified' = Verified
    BY <1>7, <1>2, <1>3 DEF Verified
  <2>2. \A i \in Rows' : contributions'[i].verified <= N
    BY <1>7, <1>2, <1>3
  <2>3. \A i \in Rows' : contributions'[i].status \in {"PAID", "REVERSED"} <=> i \in Verified'
    <3> TAKE i \in Rows'
    <3>1. CASE i = x
      BY <3>1 DEF Verified
    <3>2. CASE i # x
      BY <3>2, <2>1, <1>5
    <3> QED  BY <3>1, <3>2
  <2>4. \A i \in Verified' : i \in Verified /\ contributions'[i].verified = contributions[i].verified
    BY <2>1, <1>2, <1>7
  <2>5. \A i, j \in Verified' : contributions'[i].verified = contributions'[j].verified => i = j
    BY <2>4, <1>6
  <2> QED  BY <2>1, <2>2, <2>3, <2>5, <1>1 DEF PaymentsAreSound
<1>8. CASE x \notin Verified /\ contributions'[x].verified = N + 1
  <2>1. Verified' = Verified \cup {x}
    BY <1>8, <1>2 DEF Verified
  <2>2. Cardinality(Verified') = N + 1
    BY <2>1, <1>1, <1>2, <1>8, FS_AddElement
  <2>3. \A i \in Rows' : contributions'[i].verified <= N + 1
    <3> TAKE i \in Rows'
    <3>1. CASE i = x
      BY <3>1, <1>2, <1>8
    <3>2. CASE i # x
      BY <3>2, <1>2, <1>3
    <3> QED  BY <3>1, <3>2
  <2>4. \A i \in Rows' : contributions'[i].status \in {"PAID", "REVERSED"} <=> i \in Verified'
    <3> TAKE i \in Rows'
    <3>1. CASE i = x
      BY <3>1 DEF Verified
    <3>2. CASE i # x
      BY <3>2, <2>1, <1>5
    <3> QED  BY <3>1, <3>2
  <2>5. \A i \in Verified : i # x /\ contributions'[i].verified = contributions[i].verified
                             /\ contributions'[i].verified # N + 1
    BY <1>2, <1>8
  <2>6. \A i, j \in Verified' : contributions'[i].verified = contributions'[j].verified => i = j
    BY <2>1, <2>5, <1>6, <1>8
  <2> QED  BY <2>2, <2>3, <2>4, <2>6 DEF PaymentsAreSound
<1> QED  BY <1>4, <1>7, <1>8

\* The rows of payments that are added.
LEMMA RowAdded ==
  ASSUME PaymentsAreSound, Len(contributions) < MaxContributions, NEW r \in Contribution,
         contributions' = Append(contributions, r),
         \/ r.status \notin {"PAID", "REVERSED"} /\ r.verified = 0
         \/ r.status = "PAID" /\ r.verified = NextVerified
  PROVE  PaymentsAreSound' /\ Rows \subseteq Rows'
<1>1. PICK x : x = Len(contributions) + 1
  OBVIOUS
<1>2. contributions \in Seq(Contribution) /\ Len(contributions) \in Nat /\ Rows = 1..Len(contributions)
  BY DEF PaymentsAreSound, Rows
<1>3. /\ Append(contributions, r) \in Seq(Contribution)
      /\ Len(Append(contributions, r)) = Len(contributions) + 1
      /\ DOMAIN Append(contributions, r) = 1..(Len(contributions) + 1)
      /\ \A i \in 1..Len(contributions) : Append(contributions, r)[i] = contributions[i]
      /\ Append(contributions, r)[Len(contributions) + 1] = r
  BY <1>2
<1>4. Rows' = Rows \cup {x} /\ contributions'[x] = r /\ x \notin Rows
  BY <1>1, <1>2, <1>3 DEF Rows
<1>5. \A i \in Rows \ {x} : contributions'[i] = contributions[i]
  BY <1>2, <1>3
<1>6. Len(contributions') <= MaxContributions
  BY <1>2, <1>3, ClosuresAssumption
<1>7. NextVerified \in Nat /\ NextVerified > 0
  BY PaidPlaces DEF NextVerified, Verified
<1>8. x \notin Verified
  BY <1>4 DEF Verified
<1>9. contributions'[x].status \in {"PAID", "REVERSED"} <=> contributions'[x].verified > 0
  BY <1>4, <1>7
<1>10. \/ contributions'[x].verified = IF x \in Rows THEN contributions[x].verified ELSE 0
       \/ x \notin Verified /\ contributions'[x].verified = NextVerified
  BY <1>4, <1>8
<1>11. contributions' \in Seq(Contribution)
  BY <1>3
<1>12. PaymentsAreSound'
  BY <1>4, <1>5, <1>6, <1>9, <1>10, <1>11, PaymentsStep
<1> QED  BY <1>4, <1>12

\* The rows of payments that change.
LEMMA RowChanged ==
  ASSUME PaymentsAreSound, NEW i \in Rows, NEW r \in Contribution,
         contributions' = [contributions EXCEPT ![i] = r],
         \/ /\ r.verified = contributions[i].verified
            /\ r.status \in {"PAID", "REVERSED"} <=> contributions[i].status \in {"PAID", "REVERSED"}
         \/ /\ contributions[i].status = "PENDING"
            /\ r.status = "PAID" /\ r.verified = NextVerified
  PROVE  PaymentsAreSound' /\ Rows' = Rows
<1>1. contributions \in Seq(Contribution) /\ Len(contributions) \in Nat /\ Rows = 1..Len(contributions)
  BY DEF PaymentsAreSound, Rows
<1>2. contributions' \in Seq(Contribution) /\ Len(contributions') = Len(contributions)
  BY <1>1, ExceptSeq
<1>3. Rows' = Rows /\ contributions'[i] = r
  BY DEF Rows
<1>4. \A j \in Rows \ {i} : contributions'[j] = contributions[j]
  BY DEF Rows
<1>5. NextVerified \in Nat /\ NextVerified > 0
  BY PaidPlaces DEF NextVerified, Verified
<1>6. Len(contributions') <= MaxContributions
  BY <1>2 DEF PaymentsAreSound
<1>7. contributions[i].status \in {"PAID", "REVERSED"} <=> contributions[i].verified > 0
  BY DEF PaymentsAreSound, Verified
<1>8. contributions[i].status = "PENDING" => i \notin Verified
  BY DEF PaymentsAreSound
<1>9. contributions'[i].status \in {"PAID", "REVERSED"} <=> contributions'[i].verified > 0
  BY <1>3, <1>5, <1>7
<1>10. \/ contributions'[i].verified = IF i \in Rows THEN contributions[i].verified ELSE 0
       \/ i \notin Verified /\ contributions'[i].verified = NextVerified
  BY <1>3, <1>8
<1>11. Rows' = Rows \cup {i}
  BY <1>3
<1>12. PaymentsAreSound'
  BY <1>2, <1>4, <1>6, <1>9, <1>10, <1>11, PaymentsStep
<1> QED  BY <1>3, <1>12

\* A payment changes rows only, and principal only while none is disposed of.
LEMMA PaymentKeepsFacts ==
  ASSUME BenefitInv, ClosingFacts, PaymentsAreSound', Rows \subseteq Rows',
         UNCHANGED <<mode, account, eligible, closures, dispositions, award, invoices, decisions>>,
         account = "CANCELLED" => contributions' = <<>>,
         dispositions # <<>> => /\ mode = "METAL"
                                /\ \A i \in DOMAIN dispositions :
                                     ~dispositions[i].retired => Principal' = Principal
  PROVE  ClosingFacts'
<1>1. /\ mode' = mode /\ account' = account /\ eligible' = eligible /\ closures' = closures
      /\ dispositions' = dispositions /\ award' = award /\ invoices' = invoices /\ decisions' = decisions
  OBVIOUS
<1>2. HistoriesReplay'
  <2>1. DispositionsGrow
    BY <1>1 DEF DispositionsGrow
  <2> QED  BY <1>1, <2>1, HistoriesKept DEF ClosingFacts
<1>3. AccountFollows'
  BY <1>1 DEF ClosingFacts, AccountFollows, AcceptedClosure, Requests
<1>4. DispositionsChain'
  BY <1>1 DEF ClosingFacts, DispositionsChain, Requests, Sequence
<1>5. LegsAreSound'
  BY <1>1 DEF ClosingFacts, LegsAreSound, Legs
<1>6. SettlementsAreRecorded'
  BY <1>1 DEF ClosingFacts, SettlementsAreRecorded
<1>7. \A i \in DOMAIN dispositions :
        mode = "METAL" /\ (~dispositions[i].retired => Principal' = Principal)
  <2> TAKE i \in DOMAIN dispositions
  <2>1. IsTable(dispositions)
    BY DEF BenefitInv, TablesAreSound
  <2>2. dispositions # <<>>
    BY <2>1, TableNumbers
  <2> QED  BY <2>2
<1>8. PrincipalRests'
  BY <1>1, <1>7 DEF ClosingFacts, PrincipalRests
<1>9. InvoicesFollow'
  BY <1>1, <1>7 DEF ClosingFacts, InvoicesFollow
<1> QED  BY <1>2, <1>3, <1>4, <1>5, <1>6, <1>8, <1>9 DEF ClosingFacts

\* A settlement in force has closed the agreement.
LEMMA InForceIsRedeemed ==
  ASSUME ClosingFacts, mode = "METAL", NEW i \in DOMAIN dispositions, ~dispositions[i].retired
  PROVE  account = "REDEEMED" /\ dispositions[i].completed
<1>1. dispositions[i].completed
  BY DEF ClosingFacts, PrincipalRests
<1>2. dispositions[i].closure \in Requests /\ closures[dispositions[i].closure].status = "SETTLED"
  BY <1>1 DEF ClosingFacts, DispositionsChain
<1> QED  BY <1>1, <1>2 DEF ClosingFacts, AccountFollows

\* A disposition names a request, so that there is one.
LEMMA DisposedByRequest ==
  ASSUME BenefitInv, ClosingFacts, dispositions # <<>>
  PROVE  closures # <<>> /\ 1 \in DOMAIN dispositions
<1>1. IsTable(dispositions)
  BY DEF BenefitInv, TablesAreSound
<1>2. 1 \in DOMAIN dispositions
  BY <1>1, TableNumbers
<1>3. Requests # {}
  BY <1>2 DEF ClosingFacts, DispositionsChain
<1> QED  BY <1>2, <1>3 DEF Requests

\* Payments, credited, given up or corrected, respect the closure.
LEMMA PaymentsKeepFacts ==
  ASSUME BenefitInv, ClosingFacts,
         \/ StartCheckout \/ RecordCash
         \/ \E i \in Rows : Capture(i) \/ RetireOrder(i) \/ CorrectCash(i),
         UNCHANGED benefitVars
  PROVE  ClosingFacts'
<1>1. award' = award /\ invoices' = invoices /\ decisions' = decisions
  BY DEF benefitVars
<1>2. PaymentsAreSound /\ AccountFollows /\ PrincipalRests
  BY DEF ClosingFacts
<1>3. ASSUME NEW r \in Contribution, PaymentAllowed, contributions' = Append(contributions, r),
             \/ r.status \notin {"PAID", "REVERSED"} /\ r.verified = 0
             \/ r.status = "PAID" /\ r.verified = NextVerified,
             UNCHANGED <<mode, account, eligible, closures, dispositions, desk>>
      PROVE  ClosingFacts'
  <2>1. account = "ACTIVE" /\ Len(contributions) < MaxContributions
    BY <1>3 DEF PaymentAllowed
  <2>2. PaymentsAreSound' /\ Rows \subseteq Rows'
    BY <1>2, <1>3, <2>1, RowAdded
  <2>3. dispositions = <<>>
    BY <1>2, <2>1 DEF AccountFollows
  <2> QED  BY <1>1, <1>3, <2>1, <2>2, <2>3, PaymentKeepsFacts
<1>4. ASSUME NEW i \in Rows, NEW r \in Contribution,
             contributions' = [contributions EXCEPT ![i] = r],
             \/ /\ r.verified = contributions[i].verified
                /\ r.status \in {"PAID", "REVERSED"} <=> contributions[i].status \in {"PAID", "REVERSED"}
             \/ /\ contributions[i].status = "PENDING"
                /\ r.status = "PAID" /\ r.verified = NextVerified,
             UNCHANGED <<mode, account, eligible, closures, dispositions, desk>>,
             dispositions # <<>> => /\ mode = "METAL"
                                    /\ \A j \in DOMAIN dispositions :
                                         ~dispositions[j].retired => Principal' = Principal
      PROVE  ClosingFacts'
  <2>1. PaymentsAreSound' /\ Rows' = Rows
    BY <1>2, <1>4, RowChanged
  <2>2. contributions # <<>>
    BY <1>4 DEF Rows
  <2>3. account # "CANCELLED"
    BY <1>2, <2>2 DEF AccountFollows
  <2> QED  BY <1>1, <1>4, <2>1, <2>3, PaymentKeepsFacts
<1>5. \A i \in Rows : contributions[i] \in Contribution
  BY <1>2 DEF PaymentsAreSound, Rows
<1>6. CASE StartCheckout
  <2>1. PICK r : r = [channel |-> "RAZORPAY", status |-> "PENDING", verified |-> 0]
    OBVIOUS
  <2>2. r \in Contribution
    BY <2>1 DEF Contribution, Channels, Statuses
  <2> QED  BY <1>3, <1>6, <2>1, <2>2 DEF StartCheckout, AddContribution
<1>7. CASE RecordCash
  <2>1. PICK r : r = [channel |-> "IN_STORE_CASH", status |-> "PAID", verified |-> NextVerified]
    OBVIOUS
  <2>2. NextVerified \in Nat
    BY <1>2, PaidPlaces DEF NextVerified, Verified
  <2>3. r \in Contribution
    BY <2>1, <2>2 DEF Contribution, Channels, Statuses
  <2> QED  BY <1>3, <1>7, <2>1, <2>3 DEF RecordCash, AddContribution
<1>8. ASSUME NEW i \in Rows, Capture(i)  PROVE ClosingFacts'
  <2>1. PICK r : r = [contributions[i] EXCEPT !.status = "PAID", !.verified = NextVerified]
    OBVIOUS
  <2>2. NextVerified \in Nat
    BY <1>2, PaidPlaces DEF NextVerified, Verified
  <2>3. r \in Contribution /\ r.status = "PAID" /\ r.verified = NextVerified
    BY <1>5, <2>1, <2>2 DEF Contribution, Statuses
  <2>4. contributions' = [contributions EXCEPT ![i] = r]
    BY <1>8, <2>1 DEF Capture, Rows
  <2>5. dispositions # <<>> => /\ mode = "METAL"
                               /\ \A j \in DOMAIN dispositions : dispositions[j].retired
    <3>1. Open /\ (mode = "INR" => dispositions = <<>>)
      BY <1>8 DEF Capture, RequireNewPrincipal
    <3>2. mode \in {"METAL", "INR"} /\ account # "REDEEMED"
      BY <1>2, <3>1 DEF AccountFollows, Open
    <3> QED  BY <3>1, <3>2, InForceIsRedeemed
  <2> QED  BY <1>4, <1>8, <2>3, <2>4, <2>5 DEF Capture
<1>9. ASSUME NEW i \in Rows, RetireOrder(i)  PROVE ClosingFacts'
  <2>1. PICK r : r = [contributions[i] EXCEPT !.status = "RETIRED"]
    OBVIOUS
  <2>2. r \in Contribution /\ r.status = "RETIRED" /\ r.verified = contributions[i].verified
    BY <1>5, <2>1 DEF Contribution, Statuses
  <2>3. contributions[i].status = "PENDING"
    BY <1>9 DEF RetireOrder
  <2>4. contributions' = [contributions EXCEPT ![i] = r]
    BY <1>9, <2>1 DEF RetireOrder, Rows
  <2>5. Principal' = Principal
    <3>1. Paid' = Paid
      BY <2>2, <2>3, <2>4 DEF Paid, Rows
    <3> QED  BY <3>1 DEF Principal
  <2>6. dispositions # <<>> => mode = "METAL"
    BY <1>2, <2>3, DisposedByRequest DEF PrincipalRests, AccountFollows
  <2> QED  BY <1>4, <1>9, <2>2, <2>3, <2>4, <2>5, <2>6 DEF RetireOrder
<1>10. ASSUME NEW i \in Rows, CorrectCash(i)  PROVE ClosingFacts'
  <2>1. PICK r : r = [contributions[i] EXCEPT !.status = "REVERSED"]
    OBVIOUS
  <2>2. r \in Contribution /\ r.status = "REVERSED" /\ r.verified = contributions[i].verified
    BY <1>5, <2>1 DEF Contribution, Statuses
  <2>3. contributions[i].status = "PAID"
    BY <1>10 DEF CorrectCash
  <2>4. contributions' = [contributions EXCEPT ![i] = r]
    BY <1>10, <2>1 DEF CorrectCash, Rows
  <2>5. dispositions # <<>> => /\ mode = "METAL"
                               /\ \A j \in DOMAIN dispositions : dispositions[j].retired
    <3>1. account # "REDEEMED" /\ (mode = "INR" => closures = <<>>)
      BY <1>10 DEF CorrectCash
    <3>2. mode \in {"METAL", "INR"}
      BY <1>2 DEF AccountFollows
    <3> QED  BY <3>1, <3>2, InForceIsRedeemed, DisposedByRequest
  <2> QED  BY <1>4, <1>10, <2>2, <2>3, <2>4, <2>5 DEF CorrectCash
<1> QED  BY <1>6, <1>7, <1>8, <1>9, <1>10

-----------------------------------------------------------------------------
(* Requests and their reviews. *)

\* Steps that leave all but the benefits, the sessions and the passage of time
\* alone.
LEMMA TablesKept ==
  ASSUME ClosingFacts, InvoicesFollow', eligible' \in BOOLEAN,
         UNCHANGED <<mode, account, contributions, closures, dispositions>>
  PROVE  ClosingFacts'
<1>1. /\ mode' = mode /\ account' = account /\ contributions' = contributions /\ closures' = closures
      /\ dispositions' = dispositions
  OBVIOUS
<1>2. PaymentsAreSound'
  <2>1. Rows' = Rows /\ Verified' = Verified
    BY <1>1 DEF Verified, Rows
  <2> QED  BY <1>1, <2>1 DEF ClosingFacts, PaymentsAreSound
<1>3. HistoriesReplay'
  <2>1. DispositionsGrow
    BY <1>1 DEF DispositionsGrow
  <2> QED  BY <1>1, <2>1, HistoriesKept DEF ClosingFacts
<1>4. AccountFollows'
  BY <1>1 DEF ClosingFacts, AccountFollows, AcceptedClosure, Requests
<1>5. DispositionsChain'
  BY <1>1 DEF ClosingFacts, DispositionsChain, Requests, Sequence
<1>6. LegsAreSound'
  BY <1>1 DEF ClosingFacts, LegsAreSound, Legs, Rows
<1>7. SettlementsAreRecorded'
  BY <1>1 DEF ClosingFacts, SettlementsAreRecorded
<1>8. PrincipalRests'
  <2>1. Principal' = Principal /\ Sources' = Sources /\ Rows' = Rows
    BY <1>1 DEF Principal, Paid, Sources, Rows
  <2>2. \A i : Fulfilled(i)' = Fulfilled(i)
    BY <1>1 DEF Fulfilled, LegAmount
  <2> QED  BY <1>1, <2>1, <2>2 DEF ClosingFacts, PrincipalRests
<1> QED  BY <1>2, <1>3, <1>4, <1>5, <1>6, <1>7, <1>8 DEF ClosingFacts

\* Steps that leave the benefits alone too.
LEMMA FactsKept ==
  ASSUME ClosingFacts, eligible' \in BOOLEAN,
         UNCHANGED <<mode, account, contributions, closures, dispositions, award, invoices, decisions>>
  PROVE  ClosingFacts'
<1>1. /\ mode' = mode /\ contributions' = contributions /\ dispositions' = dispositions
      /\ award' = award /\ invoices' = invoices /\ decisions' = decisions
  OBVIOUS
<1>2. InvoicesFollow'
  BY <1>1 DEF ClosingFacts, InvoicesFollow, Sources
<1> QED  BY <1>2, TablesKept

\* What moves requests only keeps what is said of rows and dispositions, if no
\* disposition in force loses its closure's status.
LEMMA RequestsKeepFacts ==
  ASSUME ClosingFacts, HistoriesReplay', AccountFollows', Requests \subseteq Requests',
         \A c \in Requests :
           /\ Len(closures[c].events) \in Nat /\ Len(closures'[c].events) \in Nat
           /\ Len(closures[c].events) <= Len(closures'[c].events)
           /\ closures[c].status \in {"ACCEPTED", "SETTLED"} /\ dispositions # <<>> =>
                closures'[c].status = closures[c].status
           /\ \A n \in DOMAIN closures[c].events :
                n \in DOMAIN closures'[c].events /\ closures'[c].events[n] = closures[c].events[n],
         UNCHANGED <<mode, eligible, contributions, dispositions, award, invoices, decisions>>
  PROVE  ClosingFacts'
<1>1. /\ mode' = mode /\ contributions' = contributions
      /\ dispositions' = dispositions /\ award' = award /\ invoices' = invoices /\ decisions' = decisions
  OBVIOUS
<1>2. PaymentsAreSound'
  <2>1. Rows' = Rows /\ Verified' = Verified
    BY <1>1 DEF Verified, Rows
  <2> QED  BY <1>1, <2>1 DEF ClosingFacts, PaymentsAreSound
<1>3. DispositionsChain'
  <2>1. Len(dispositions') <= MaxDispositions
    BY <1>1 DEF ClosingFacts, DispositionsChain
  <2>2. ASSUME NEW i \in DOMAIN dispositions
        PROVE  /\ dispositions[i].closure \in Requests'
               /\ dispositions[i].sequence \in Nat /\ dispositions[i].resolved \in Nat
               /\ dispositions[i].sequence <= Len(closures'[dispositions[i].closure].events)
               /\ dispositions[i].resolved <= Len(closures'[dispositions[i].closure].events)
               /\ ~dispositions[i].retired => closures'[dispositions[i].closure].status =
                    IF dispositions[i].completed THEN "SETTLED" ELSE "ACCEPTED"
    <3>1. PICK c, x, y : /\ c = dispositions[i].closure
                         /\ x = dispositions[i].sequence /\ y = dispositions[i].resolved
      OBVIOUS
    <3>2. /\ c \in Requests /\ x \in Nat /\ y \in Nat
          /\ x <= Len(closures[c].events) /\ y <= Len(closures[c].events)
          /\ ~dispositions[i].retired => closures[c].status =
               IF dispositions[i].completed THEN "SETTLED" ELSE "ACCEPTED"
      BY <3>1 DEF ClosingFacts, DispositionsChain, Sequence
    <3>3. dispositions # <<>>
      OBVIOUS
    <3>4. /\ Len(closures[c].events) \in Nat /\ Len(closures'[c].events) \in Nat
          /\ Len(closures[c].events) <= Len(closures'[c].events)
          /\ closures[c].status \in {"ACCEPTED", "SETTLED"} => closures'[c].status = closures[c].status
      BY <3>2, <3>3
    <3>5. x <= Len(closures'[c].events) /\ y <= Len(closures'[c].events)
      BY <3>2, <3>4
    <3>6. c \in Requests'
      BY <3>2
    <3>7. ~dispositions[i].retired => closures'[c].status =
            IF dispositions[i].completed THEN "SETTLED" ELSE "ACCEPTED"
      BY <3>2, <3>4
    <3> QED  BY <3>1, <3>2, <3>5, <3>6, <3>7
  <2> QED  BY <1>1, <2>1, <2>2 DEF ClosingFacts, DispositionsChain, Sequence
<1>4. LegsAreSound'
  BY <1>1 DEF ClosingFacts, LegsAreSound, Legs, Rows
<1>5. SettlementsAreRecorded'
  <2>1. ASSUME NEW i \in DOMAIN dispositions, mode = "METAL"
        PROVE  /\ dispositions[i].sequence + 1 \in DOMAIN closures'[dispositions[i].closure].events
               /\ closures'[dispositions[i].closure].events[dispositions[i].sequence + 1]
                    = [action |-> "SETTLE", disposition |-> i]
    <3>1. /\ dispositions[i].closure \in Requests
          /\ dispositions[i].sequence + 1 \in DOMAIN closures[dispositions[i].closure].events
          /\ closures[dispositions[i].closure].events[dispositions[i].sequence + 1]
               = [action |-> "SETTLE", disposition |-> i]
      BY <2>1 DEF ClosingFacts, DispositionsChain, SettlementsAreRecorded
    <3> QED  BY <3>1
  <2> QED  BY <1>1, <2>1 DEF ClosingFacts, SettlementsAreRecorded
<1>6. PrincipalRests'
  <2>1. Principal' = Principal /\ Sources' = Sources /\ Rows' = Rows
    BY <1>1 DEF Principal, Paid, Sources, Rows
  <2>2. \A i : Fulfilled(i)' = Fulfilled(i)
    BY <1>1 DEF Fulfilled, LegAmount
  <2> QED  BY <1>1, <2>1, <2>2 DEF ClosingFacts, PrincipalRests
<1>7. InvoicesFollow'
  BY <1>1 DEF ClosingFacts, InvoicesFollow, Sources
<1> QED  BY <1>2, <1>3, <1>4, <1>5, <1>6, <1>7 DEF ClosingFacts

\* A new request is in force when no other is.
LEMMA RequestKeepsFacts ==
  ASSUME ClosingFacts, RequestSchemeClosure, UNCHANGED benefitVars
  PROVE  ClosingFacts'
<1>1. /\ account \notin {"REDEEMED", "CANCELLED"}
      /\ \A c \in Requests : closures[c].status \notin {"PENDING", "ACCEPTED"}
      /\ mode' = mode /\ account' = account /\ eligible' = eligible
      /\ contributions' = contributions /\ dispositions' = dispositions
  BY DEF RequestSchemeClosure
<1>2. HistoriesReplay /\ AccountFollows
  BY DEF ClosingFacts
<1>3. PICK L : L = Len(closures) + 1
  OBVIOUS
<1>4. /\ Requests' = Requests \cup {L} /\ L \notin Requests
      /\ \A e \in Requests : closures'[e] = closures[e]
      /\ closures'[L].status = "PENDING"
  BY <1>2, <1>3, RequestAdded
<1>5. HistoriesReplay'
  BY <1>2, RequestKeepsHistories
<1>6. \A c \in Requests : closures[c].status \notin Live
  BY <1>1, <1>2 DEF AccountFollows, Live
<1>7. AccountFollows'
  <2>1. \A c, e \in Requests' : closures'[c].status \in Live /\ closures'[e].status \in Live => c = e
    BY <1>4, <1>6
  <2>2. \A c \in Requests' : closures'[c].status \notin {"SETTLED", "CANCELLED"}
    BY <1>4, <1>6 DEF Live
  <2> QED  BY <1>1, <1>2, <2>1, <2>2 DEF AccountFollows
<1>8. \A c \in Requests : Len(closures[c].events) \in Nat
  <2>1. \A c \in Requests : closures[c] \in Closure
    BY <1>2 DEF HistoriesReplay, Requests
  <2> QED  BY <2>1 DEF Closure
<1> QED  BY <1>1, <1>4, <1>5, <1>7, <1>8, RequestsKeepFacts DEF benefitVars

\* An acceptance is in the history.
LEMMA AcceptedIsRecorded ==
  ASSUME ClosingFacts, NEW c \in Requests, closures[c].status \in {"ACCEPTED", "SETTLED"}
  PROVE  AcceptedClosure
<1>1. Happened(c, "ACCEPT")
  BY DEF ClosingFacts, HistoriesReplay, HistoryReplays
<1> QED  BY <1>1 DEF Happened, AcceptedClosure

\* An event appended to the request in force moves no other.
LEMMA EventMoves ==
  ASSUME HistoriesReplay, NEW c \in Requests, NEW action \in Actions, NEW status \in ClosureStatuses,
         NEW x \in Nat, AppendEvent(c, action, status, x),
         status = Advance(closures[c].status, action)
  PROVE  /\ Requests' = Requests /\ closures'[c].status = status
         /\ \A e \in Requests \ {c} : closures'[e] = closures[e]
         /\ \A e \in Requests :
              /\ Len(closures[e].events) \in Nat /\ Len(closures'[e].events) \in Nat
              /\ Len(closures[e].events) <= Len(closures'[e].events)
              /\ \A n \in DOMAIN closures[e].events :
                   n \in DOMAIN closures'[e].events /\ closures'[e].events[n] = closures[e].events[n]
         /\ Len(closures'[c].events) = Len(closures[c].events) + 1
         /\ closures'[c].events[Len(closures[c].events) + 1] = [action |-> action, disposition |-> x]
         /\ DOMAIN closures'[c].events = 1..(Len(closures[c].events) + 1)
<1>1. PICK L : L = Len(closures[c].events)
  OBVIOUS
<1>2. /\ Requests' = Requests
      /\ \A e \in Requests \ {c} : closures'[e] = closures[e]
      /\ closures'[c].status = status
      /\ L \in Nat /\ DOMAIN closures[c].events = 1..L
      /\ Len(closures'[c].events) = L + 1
      /\ DOMAIN closures'[c].events = 1..(L + 1)
      /\ \A n \in DOMAIN closures[c].events : closures'[c].events[n] = closures[c].events[n]
      /\ closures'[c].events[L + 1] = [action |-> action, disposition |-> x]
  BY <1>1, EventAdded
<1>3. \A e \in Requests : Len(closures[e].events) \in Nat
  <2>1. \A e \in Requests : closures[e] \in Closure
    BY DEF HistoriesReplay, Requests
  <2> QED  BY <2>1 DEF Closure
<1>4. ASSUME NEW e \in Requests
      PROVE  /\ Len(closures[e].events) \in Nat /\ Len(closures'[e].events) \in Nat
             /\ Len(closures[e].events) <= Len(closures'[e].events)
             /\ \A n \in DOMAIN closures[e].events :
                  n \in DOMAIN closures'[e].events /\ closures'[e].events[n] = closures[e].events[n]
  <2>1. CASE e = c
    BY <2>1, <1>1, <1>2
  <2>2. CASE e # c
    BY <2>2, <1>2, <1>3
  <2> QED  BY <2>1, <2>2
<1> QED  BY <1>1, <1>2, <1>4

\* A review moves the request in force, and an accepted one only by a note.
LEMMA ReviewKeepsFacts ==
  ASSUME ClosingFacts, NEW d \in Desks, NEW c \in Requests,
         NEW action \in {"NOTE", "ACCEPT", "WITHDRAW", "REJECT"},
         ReviewSchemeClosure(d, c, action), UNCHANGED benefitVars
  PROVE  ClosingFacts'
<1>1. PICK status : status = ReviewedStatus(c, action)
  OBVIOUS
<1>2. /\ closures[c].status \in IF action = "NOTE" THEN {"PENDING", "ACCEPTED"} ELSE {"PENDING"}
      /\ account \notin {"REDEEMED", "CANCELLED"}
      /\ AppendEvent(c, action, status, 0)
      /\ mode' = mode /\ account' = account /\ eligible' = eligible
      /\ contributions' = contributions /\ dispositions' = dispositions
  BY <1>1 DEF ReviewSchemeClosure
<1>3. HistoriesReplay /\ AccountFollows
  BY DEF ClosingFacts
<1>4. /\ status = Advance(closures[c].status, action) /\ status \in ClosureStatuses /\ action \in Actions
      /\ status \notin {"SETTLED", "CANCELLED"} /\ closures[c].status \in Live
      /\ closures[c].status \in {"ACCEPTED", "SETTLED"} => status = closures[c].status
  BY <1>1, <1>2 DEF ReviewedStatus, Advance, ClosureStatuses, Actions, Live
<1>5. /\ Requests' = Requests /\ closures'[c].status = status
      /\ \A e \in Requests \ {c} : closures'[e] = closures[e]
      /\ \A e \in Requests :
           /\ Len(closures[e].events) \in Nat /\ Len(closures'[e].events) \in Nat
           /\ Len(closures[e].events) <= Len(closures'[e].events)
           /\ \A n \in DOMAIN closures[e].events :
                n \in DOMAIN closures'[e].events /\ closures'[e].events[n] = closures[e].events[n]
  BY <1>2, <1>3, <1>4, EventMoves
<1>6. HistoriesReplay'
  <2>1. DispositionsGrow
    BY <1>2 DEF DispositionsGrow
  <2>2. action \notin {"SETTLE", "REVERSE"}
    OBVIOUS
  <2> QED  BY <2>1, <2>2, <1>2, <1>3, <1>4, EventKeepsHistories
<1>7. \A e \in Requests \ {c} : closures[e].status \notin Live
  BY <1>3, <1>4 DEF AccountFollows
<1>8. AccountFollows'
  <2>1. \A e, f \in Requests' : closures'[e].status \in Live /\ closures'[f].status \in Live => e = f
    BY <1>5, <1>7
  <2>2. \A e \in Requests' : closures'[e].status \notin {"SETTLED", "CANCELLED"}
    BY <1>4, <1>5, <1>7 DEF Live
  <2> QED  BY <1>2, <1>3, <2>1, <2>2 DEF AccountFollows
<1> QED  BY <1>2, <1>4, <1>5, <1>6, <1>8, RequestsKeepFacts DEF benefitVars

\* A cancellation ends an agreement without payments or dispositions.
LEMMA CancelKeepsFacts ==
  ASSUME ClosingFacts, NEW d \in Desks, NEW c \in Requests,
         CancelUnusedAgreement(d, c), UNCHANGED benefitVars
  PROVE  ClosingFacts'
<1>1. /\ closures[c].status = "ACCEPTED" /\ account = "ACTIVE" /\ contributions = <<>>
      /\ AppendEvent(c, "CANCEL", "CANCELLED", 0)
      /\ mode' = mode /\ account' = "CANCELLED" /\ eligible' = eligible
      /\ contributions' = contributions /\ dispositions' = dispositions
  BY DEF CancelUnusedAgreement, UnusedAgreement
<1>2. HistoriesReplay /\ AccountFollows
  BY DEF ClosingFacts
<1>3. dispositions = <<>>
  BY <1>1, <1>2 DEF AccountFollows
<1>4. /\ "CANCELLED" = Advance(closures[c].status, "CANCEL") /\ "CANCELLED" \in ClosureStatuses
      /\ "CANCEL" \in Actions /\ closures[c].status \in Live
  BY <1>1 DEF Advance, ClosureStatuses, Actions, Live
<1>5. /\ Requests' = Requests /\ closures'[c].status = "CANCELLED"
      /\ \A e \in Requests \ {c} : closures'[e] = closures[e]
      /\ \A e \in Requests :
           /\ Len(closures[e].events) \in Nat /\ Len(closures'[e].events) \in Nat
           /\ Len(closures[e].events) <= Len(closures'[e].events)
           /\ \A n \in DOMAIN closures[e].events :
                n \in DOMAIN closures'[e].events /\ closures'[e].events[n] = closures[e].events[n]
  BY <1>1, <1>2, <1>4, EventMoves
<1>6. HistoriesReplay'
  <2>1. DispositionsGrow
    BY <1>1 DEF DispositionsGrow
  <2> QED  BY <2>1, <1>1, <1>2, <1>4, EventKeepsHistories
<1>7. \A e \in Requests \ {c} : closures[e].status \notin Live
  BY <1>2, <1>4 DEF AccountFollows
<1>8. AcceptedClosure'
  <2>1. Happened(c, "ACCEPT")
    BY <1>1, <1>2 DEF HistoriesReplay, HistoryReplays
  <2>2. PICK n \in DOMAIN closures[c].events : closures[c].events[n].action = "ACCEPT"
    BY <2>1 DEF Happened
  <2>3. n \in DOMAIN closures'[c].events /\ closures'[c].events[n].action = "ACCEPT"
    BY <2>2, <1>5
  <2> QED  BY <2>3, <1>5 DEF AcceptedClosure
<1>9. AccountFollows'
  <2>1. \A e, f \in Requests' : closures'[e].status \in Live /\ closures'[f].status \in Live => e = f
    BY <1>5, <1>7
  <2>2. \A e \in Requests' : closures'[e].status # "SETTLED"
    BY <1>5, <1>7 DEF Live
  <2> QED  BY <1>1, <1>2, <1>3, <1>8, <2>1, <2>2 DEF AccountFollows
<1> QED  BY <1>1, <1>3, <1>5, <1>6, <1>9, RequestsKeepFacts DEF benefitVars

-----------------------------------------------------------------------------
(* Benefits. *)

\* An award by itself precedes any disposition.
LEMMA AwardKeepsFacts ==
  ASSUME BenefitInv, ClosingFacts, NEW d \in Desks, RecordBenefitAward(d)
  PROVE  ClosingFacts'
<1>1. /\ dispositions = <<>> /\ award' = [recorded |-> TRUE, sources |-> Sources]
      /\ mode' = mode /\ account' = account /\ eligible' = eligible /\ contributions' = contributions
      /\ closures' = closures /\ dispositions' = dispositions
      /\ invoices' = invoices /\ decisions' = decisions
  BY DEF RecordBenefitAward, BenefitAwardEvidence, closureVars
<1>2. eligible' \in BOOLEAN
  BY <1>1 DEF ClosingFacts, AccountFollows
<1>3. InvoicesFollow'
  <2>1. DOMAIN dispositions = {}
    BY <1>1
  <2>2. \A n \in DOMAIN decisions : decisions[n].invoice \in DOMAIN invoices
    BY DEF ClosingFacts, InvoicesFollow
  <2> QED  BY <1>1, <2>1, <2>2 DEF InvoicesFollow
<1> QED  BY <1>1, <1>2, <1>3, TablesKept

\* A review adds a decision about the last invoice.
LEMMA DecisionKeepsFacts ==
  ASSUME BenefitInv, ClosingFacts, NEW d \in Desks, RecordReapplication(d)
  PROVE  ClosingFacts'
<1>1. PICK e : e = [invoice |-> Len(invoices), outcome |-> desk[d].outcome, basis |-> ReturnBasis]
  OBVIOUS
<1>2. /\ invoices # <<>> /\ decisions' = Append(decisions, e)
      /\ mode' = mode /\ account' = account /\ eligible' = eligible /\ contributions' = contributions
      /\ closures' = closures /\ dispositions' = dispositions
      /\ award' = award /\ invoices' = invoices
  BY <1>1 DEF RecordReapplication, ReturnIsReviewable, Returned, closureVars
<1>3. eligible' \in BOOLEAN
  BY <1>2 DEF ClosingFacts, AccountFollows
<1>4. IsTable(invoices) /\ IsTable(decisions)
  BY DEF BenefitInv, TablesAreSound
<1>5. PICK D : D = Len(decisions)
  OBVIOUS
<1>6. D \in Nat /\ DOMAIN decisions = 1..D
  BY <1>4, <1>5, TableNumbers
<1>7. /\ Len(decisions') = D + 1 /\ DOMAIN decisions' = 1..(D + 1)
      /\ decisions'[D + 1] = e /\ \A n \in 1..D : decisions'[n] = decisions[n]
  BY <1>2, <1>4, <1>5, TableGrows
<1>8. e.invoice \in DOMAIN invoices
  <2>1. Len(invoices) \in Nat /\ DOMAIN invoices = 1..Len(invoices) /\ Len(invoices) # 0
    BY <1>2, <1>4, TableNumbers
  <2> QED  BY <1>1, <2>1
<1>9. \A n \in 1..(D + 1) : decisions'[n].invoice \in DOMAIN invoices
  <2> TAKE n \in 1..(D + 1)
  <2>1. CASE n = D + 1
    BY <2>1, <1>7, <1>8
  <2>2. CASE n # D + 1
    <3>1. n \in 1..D
      BY <2>2, <1>6
    <3> QED  BY <3>1, <1>6, <1>7 DEF ClosingFacts, InvoicesFollow
  <2> QED  BY <2>1, <2>2
<1>10. \A i \in DOMAIN dispositions : dispositions[i].approval \in 0..(D + 1)
  <2>1. \A i \in DOMAIN dispositions : dispositions[i].approval \in 0..D
    BY <1>5 DEF ClosingFacts, InvoicesFollow
  <2> QED  BY <2>1, <1>6
<1>11. InvoicesFollow'
  BY <1>2, <1>7, <1>9, <1>10 DEF ClosingFacts, InvoicesFollow, Sources
<1> QED  BY <1>2, <1>3, <1>11, TablesKept

\* Every step about benefits.
LEMMA BenefitsKeepFacts ==
  ASSUME BenefitInv, ClosingFacts, BenefitNext  PROVE ClosingFacts'
<1>1. CASE \E d \in Desks : RecordBenefitAward(d)
  BY <1>1, AwardKeepsFacts
<1>2. CASE \E d \in Desks : RecordReapplication(d)
  BY <1>2, DecisionKeepsFacts
<1>3. CASE \E d \in Desks :
             \/ PreviewBenefitAward(d)
             \/ \E outcome \in {"APPROVE", "HOLD"} : PreviewReapplication(d, outcome)
  <2>1. UNCHANGED <<mode, account, eligible, contributions, closures, dispositions, award, invoices, decisions>>
    BY <1>3 DEF PreviewBenefitAward, PreviewReapplication, benefitVars
  <2>2. eligible' \in BOOLEAN
    BY <2>1 DEF ClosingFacts, AccountFollows
  <2> QED  BY <2>1, <2>2, FactsKept
<1> QED  BY <1>1, <1>2, <1>3 DEF BenefitNext

\* Every step about requests and payments.
LEMMA ClosuresKeepFacts ==
  ASSUME BenefitInv, ClosingFacts, ClosureStep  PROVE ClosingFacts'
<1>1. UNCHANGED benefitVars /\ ClosureNext
  BY DEF ClosureStep
<1>2. CASE \/ StartCheckout \/ RecordCash
           \/ \E i \in Rows : Capture(i) \/ RetireOrder(i) \/ CorrectCash(i)
  BY <1>1, <1>2, PaymentsKeepFacts
<1>3. CASE RequestSchemeClosure
  BY <1>1, <1>3, RequestKeepsFacts
<1>4. CASE \E d \in Desks, c \in Requests : CancelUnusedAgreement(d, c)
  BY <1>1, <1>4, CancelKeepsFacts
<1>5. CASE \E d \in Desks, c \in Requests :
             \E action \in {"NOTE", "ACCEPT", "WITHDRAW", "REJECT"} : ReviewSchemeClosure(d, c, action)
  BY <1>1, <1>5, ReviewKeepsFacts
<1>6. CASE DurationPasses \/ \E d \in Desks, c \in Requests : LoadClosure(d, c)
  <2>1. UNCHANGED <<mode, account, contributions, closures, dispositions, award, invoices, decisions>>
    BY <1>1, <1>6 DEF DurationPasses, LoadClosure, benefitVars
  <2>2. eligible' \in BOOLEAN
    BY <1>6 DEF DurationPasses, LoadClosure, ClosingFacts, AccountFollows
  <2> QED  BY <2>1, <2>2, FactsKept
<1> QED  BY <1>1, <1>2, <1>3, <1>4, <1>5, <1>6 DEF ClosureNext

-----------------------------------------------------------------------------
(* The return of a disposition. *)

\* Only the last disposition can be in force.
LEMMA OnlyLastInForce ==
  ASSUME BenefitInv, DispositionsChain, NEW i \in DOMAIN dispositions, ~dispositions[i].retired
  PROVE  /\ Len(dispositions) \in Nat /\ DOMAIN dispositions = 1..Len(dispositions)
         /\ i = Len(dispositions)
         /\ \A j \in DOMAIN dispositions : j # i => dispositions[j].retired
<1>1. PICK L : L = Len(dispositions)
  OBVIOUS
<1>2. L \in Nat /\ DOMAIN dispositions = 1..L
  BY <1>1, TableNumbers DEF BenefitInv, TablesAreSound
<1>3. \A j \in 1..L : j > 1 => dispositions[j - 1].retired
  BY <1>2 DEF DispositionsChain
<1>4. \A j \in 1..L : j < L => dispositions[j].retired
  <2> TAKE j \in 1..L
  <2> HAVE j < L
  <2>1. j + 1 \in 1..L /\ j + 1 > 1 /\ (j + 1) - 1 = j
    BY <1>2
  <2>2. dispositions[(j + 1) - 1].retired
    BY <1>3, <2>1
  <2> QED  BY <2>1, <2>2
<1>5. i = L
  BY <1>2, <1>4
<1> QED  BY <1>1, <1>2, <1>4, <1>5

\* One disposition moves on; what it was decided on and the others stay.
RowBecomes(i, done, completed, retired, resolved) ==
  /\ Len(dispositions') = Len(dispositions) /\ DOMAIN dispositions' = DOMAIN dispositions
  /\ \A j \in DOMAIN dispositions :
       /\ dispositions'[j].closure = dispositions[j].closure
       /\ dispositions'[j].sequence = dispositions[j].sequence
       /\ dispositions'[j].basis = dispositions[j].basis
       /\ dispositions'[j].award = dispositions[j].award
       /\ dispositions'[j].sources = dispositions[j].sources
       /\ dispositions'[j].invoice = dispositions[j].invoice
       /\ dispositions'[j].refunds = dispositions[j].refunds
       /\ dispositions'[j].approval = dispositions[j].approval
       /\ j # i => /\ dispositions'[j].done = dispositions[j].done
                   /\ dispositions'[j].completed = dispositions[j].completed
                   /\ dispositions'[j].retired = dispositions[j].retired
                   /\ dispositions'[j].resolved = dispositions[j].resolved
  /\ dispositions'[i].done = done /\ dispositions'[i].completed = completed
  /\ dispositions'[i].retired = retired /\ dispositions'[i].resolved = resolved

\* An update of these columns is no more than that.
LEMMA RowChangesOnly ==
  ASSUME BenefitInv, NEW i \in DOMAIN dispositions, NEW done, NEW completed, NEW retired, NEW resolved,
         dispositions' = [dispositions EXCEPT ![i] =
           [@ EXCEPT !.done = done, !.completed = completed, !.retired = retired, !.resolved = resolved]]
  PROVE  RowBecomes(i, done, completed, retired, resolved)
<1>1. IsTable(dispositions)
  BY DEF BenefitInv, TablesAreSound
<1>2. DOMAIN dispositions' = DOMAIN dispositions /\ dispositions' = [j \in DOMAIN dispositions |-> dispositions'[j]]
  OBVIOUS
<1>3. Len(dispositions') = Len(dispositions)
  BY <1>1, <1>2, TableKept
<1>4. PICK r : r = dispositions[i]
  OBVIOUS
<1>5. r = [f \in RowFields |-> r[f]]
  BY <1>4 DEF BenefitInv, TablesAreSound
<1>6. PICK q : q = [r EXCEPT !.done = done, !.completed = completed, !.retired = retired, !.resolved = resolved]
  OBVIOUS
<1>7. dispositions'[i] = q /\ \A j \in DOMAIN dispositions : j # i => dispositions'[j] = dispositions[j]
  BY <1>4, <1>6
<1>8. /\ q.closure = r.closure /\ q.sequence = r.sequence /\ q.basis = r.basis /\ q.award = r.award
      /\ q.sources = r.sources /\ q.invoice = r.invoice /\ q.refunds = r.refunds /\ q.approval = r.approval
      /\ q.done = done /\ q.completed = completed /\ q.retired = retired /\ q.resolved = resolved
  BY <1>5, <1>6 DEF RowFields
<1> QED  BY <1>2, <1>3, <1>4, <1>7, <1>8 DEF RowBecomes

\* The update that retires a row.
LEMMA RetirementIsOnly ==
  ASSUME BenefitInv, NEW i \in DOMAIN dispositions, NEW x,
         dispositions' = [dispositions EXCEPT ![i].retired = TRUE, ![i].resolved = x]
  PROVE  RowBecomes(i, dispositions[i].done, dispositions[i].completed, TRUE, x)
<1>1. PICK r : r = dispositions[i]
  OBVIOUS
<1>2. r = [f \in RowFields |-> r[f]]
  BY <1>1 DEF BenefitInv, TablesAreSound
<1>3. [r EXCEPT !.retired = TRUE, !.resolved = x]
        = [r EXCEPT !.done = r.done, !.completed = r.completed, !.retired = TRUE, !.resolved = x]
  BY <1>2 DEF RowFields
<1>4. PICK q : q = [r EXCEPT !.retired = TRUE, !.resolved = x]
  OBVIOUS
<1>5. dispositions' = [dispositions EXCEPT ![i] = q]
  BY <1>1, <1>4
<1>6. dispositions' = [dispositions EXCEPT ![i] =
        [@ EXCEPT !.done = r.done, !.completed = r.completed, !.retired = TRUE, !.resolved = x]]
  BY <1>1, <1>3, <1>4, <1>5
<1>7. RowBecomes(i, r.done, r.completed, TRUE, x)
  BY <1>6, RowChangesOnly
<1> QED  BY <1>1, <1>7

\* Legs stay what they are, and what is handed over are legs.
LEMMA LegsKept ==
  ASSUME LegsAreSound, Rows' = Rows, DOMAIN dispositions' = DOMAIN dispositions,
         \A j \in DOMAIN dispositions :
           /\ dispositions'[j].invoice = dispositions[j].invoice
           /\ dispositions'[j].refunds = dispositions[j].refunds
           /\ dispositions'[j].done \subseteq dispositions[j].done \cup Legs(j)
  PROVE  LegsAreSound'
<1>1. \A j \in DOMAIN dispositions : Legs(j)' = Legs(j)
  BY DEF Legs
<1> QED  BY <1>1 DEF LegsAreSound

\* What is handed over stays so.
LEMMA FulfilledKept ==
  \A j : /\ dispositions'[j].invoice = dispositions[j].invoice
         /\ dispositions'[j].refunds = dispositions[j].refunds
         /\ dispositions'[j].done = dispositions[j].done
         => Fulfilled(j)' = Fulfilled(j)
  BY DEF Fulfilled, LegAmount

\* The retained settlements stay in the histories, which only grow.
LEMMA SettlementsKept ==
  ASSUME DispositionsChain, SettlementsAreRecorded, UNCHANGED mode,
         DOMAIN dispositions' = DOMAIN dispositions,
         \A j \in DOMAIN dispositions :
           /\ dispositions'[j].invoice = dispositions[j].invoice
           /\ dispositions'[j].sources = dispositions[j].sources
           /\ dispositions'[j].closure = dispositions[j].closure
           /\ dispositions'[j].sequence = dispositions[j].sequence,
         \A e \in Requests : \A n \in DOMAIN closures[e].events :
           n \in DOMAIN closures'[e].events /\ closures'[e].events[n] = closures[e].events[n]
  PROVE  SettlementsAreRecorded'
<1>1. ASSUME NEW j \in DOMAIN dispositions, mode = "METAL"
      PROVE  /\ dispositions'[j].invoice = Amount * PaidOf(dispositions'[j].sources)
             /\ dispositions'[j].sequence + 1 \in DOMAIN closures'[dispositions'[j].closure].events
             /\ closures'[dispositions'[j].closure].events[dispositions'[j].sequence + 1]
                  = [action |-> "SETTLE", disposition |-> j]
  <2>1. /\ dispositions[j].invoice = Amount * PaidOf(dispositions[j].sources)
        /\ dispositions[j].sequence + 1 \in DOMAIN closures[dispositions[j].closure].events
        /\ closures[dispositions[j].closure].events[dispositions[j].sequence + 1]
             = [action |-> "SETTLE", disposition |-> j]
        /\ dispositions[j].closure \in Requests
    BY <1>1 DEF SettlementsAreRecorded, DispositionsChain
  <2>2. PICK e, n : e = dispositions[j].closure /\ n = dispositions[j].sequence + 1
    OBVIOUS
  <2>3. n \in DOMAIN closures'[e].events /\ closures'[e].events[n] = closures[e].events[n]
    BY <2>1, <2>2
  <2> QED  BY <2>1, <2>2, <2>3
<1> QED  BY <1>1 DEF SettlementsAreRecorded

\* The return of the invoice of a disposition that is retired.
LEMMA InvoicesFollowReturn ==
  ASSUME BenefitInv, InvoicesFollow, NEW i \in DOMAIN dispositions, ReverseBenefit(i),
         UNCHANGED <<mode, contributions, award, decisions>>,
         DOMAIN dispositions' = DOMAIN dispositions,
         \A j \in DOMAIN dispositions :
           /\ dispositions'[j].basis = dispositions[j].basis
           /\ dispositions'[j].award = dispositions[j].award
           /\ dispositions'[j].invoice = dispositions[j].invoice
           /\ dispositions'[j].done = dispositions[j].done
           /\ dispositions'[j].approval = dispositions[j].approval
           /\ dispositions'[j].retired = IF j = i THEN TRUE ELSE dispositions[j].retired
  PROVE  InvoicesFollow'
<1>1. /\ DOMAIN invoices' = DOMAIN invoices
      /\ \A m \in DOMAIN invoices :
           invoices'[m] = IF invoices[m].disposition = i THEN [invoices[m] EXCEPT !.reversed = TRUE] ELSE invoices[m]
  BY DEF ReverseBenefit
<1>2. \A m \in DOMAIN invoices :
        invoices[m] = [f \in {"disposition", "approval", "reversed"} |-> invoices[m][f]]
  BY DEF BenefitInv, TablesAreSound
<1>3. \A m \in DOMAIN invoices :
        /\ invoices'[m].disposition = invoices[m].disposition
        /\ invoices'[m].reversed = IF invoices[m].disposition = i THEN TRUE ELSE invoices[m].reversed
  BY <1>1, <1>2
<1>4. award' = award /\ decisions' = decisions /\ mode' = mode /\ Sources' = Sources
  BY DEF Sources
<1>5. ASSUME NEW j \in DOMAIN dispositions
      PROVE  /\ (\E m \in DOMAIN invoices' : invoices'[m].disposition = j)
                  <=> dispositions'[j].award /\ JewelleryLeg \in dispositions'[j].done
             /\ \A m \in DOMAIN invoices' :
                  invoices'[m].disposition = j => invoices'[m].reversed = dispositions'[j].retired
  <2>1. /\ (\E m \in DOMAIN invoices : invoices[m].disposition = j)
             <=> dispositions[j].award /\ JewelleryLeg \in dispositions[j].done
        /\ \A m \in DOMAIN invoices :
             invoices[m].disposition = j => invoices[m].reversed = dispositions[j].retired
    BY DEF InvoicesFollow
  <2>2. (\E m \in DOMAIN invoices' : invoices'[m].disposition = j)
           <=> \E m \in DOMAIN invoices : invoices[m].disposition = j
    BY <1>1, <1>3
  <2>3. \A m \in DOMAIN invoices' :
          invoices'[m].disposition = j => invoices'[m].reversed = dispositions'[j].retired
    <3> TAKE m \in DOMAIN invoices'
    <3> HAVE invoices'[m].disposition = j
    <3>1. m \in DOMAIN invoices /\ invoices[m].disposition = j
      BY <1>1, <1>3
    <3>2. CASE j = i
      <4>1. invoices'[m].reversed = TRUE
        BY <3>1, <3>2, <1>3
      <4>2. dispositions'[j].retired = TRUE
        BY <3>2
      <4> QED  BY <4>1, <4>2
    <3>3. CASE j # i
      <4>1. invoices'[m].reversed = invoices[m].reversed
        BY <3>1, <3>3, <1>3
      <4>2. dispositions'[j].retired = dispositions[j].retired
        BY <3>3
      <4> QED  BY <4>1, <4>2, <3>1, <2>1
    <3> QED  BY <3>2, <3>3
  <2> QED  BY <2>1, <2>2, <2>3
<1>6. ASSUME NEW j \in DOMAIN dispositions
      PROVE  /\ dispositions'[j].approval \in 0..Len(decisions)
             /\ dispositions'[j].award = award.recorded
             /\ dispositions'[j].award => dispositions'[j].basis = "NORMAL" /\ dispositions'[j].invoice > 0
             /\ mode = "INR" /\ dispositions'[j].award => award.sources = Sources
  <2>1. /\ dispositions[j].approval \in 0..Len(decisions)
        /\ dispositions[j].award = award.recorded
        /\ dispositions[j].award => dispositions[j].basis = "NORMAL" /\ dispositions[j].invoice > 0
        /\ mode = "INR" /\ dispositions[j].award => award.sources = Sources
    BY DEF InvoicesFollow
  <2>2. /\ dispositions'[j].approval = dispositions[j].approval
        /\ dispositions'[j].award = dispositions[j].award
        /\ dispositions'[j].basis = dispositions[j].basis
        /\ dispositions'[j].invoice = dispositions[j].invoice
    OBVIOUS
  <2> QED  BY <2>1, <2>2
<1>7. award.recorded \in BOOLEAN /\ \A n \in DOMAIN decisions : decisions[n].invoice \in DOMAIN invoices
  BY DEF InvoicesFollow
<1> QED  BY <1>1, <1>4, <1>5, <1>6, <1>7 DEF InvoicesFollow

\* A void, a full return and a reversal retire the disposition in force.
LEMMA RetireKeepsFacts ==
  ASSUME BenefitInv, ClosingFacts, NEW i \in DOMAIN dispositions, ~dispositions[i].retired,
         NEW c, c = dispositions[i].closure, NEW K, K = Len(closures[c].events),
         NEW action \in {"REVERSE", "NOTE"}, action = "REVERSE" <=> dispositions[i].completed,
         AppendEvent(c, action, "ACCEPTED", i),
         RowBecomes(i, dispositions[i].done, dispositions[i].completed, TRUE, K + 1),
         ReverseBenefit(i), account' = "CLOSURE_PENDING",
         UNCHANGED <<mode, eligible, contributions, award, decisions>>
  PROVE  ClosingFacts'
<1>1. /\ HistoriesReplay /\ AccountFollows /\ DispositionsChain /\ LegsAreSound
      /\ PrincipalRests /\ SettlementsAreRecorded /\ InvoicesFollow /\ PaymentsAreSound
  BY DEF ClosingFacts
<1>2. mode' = mode /\ eligible' = eligible /\ contributions' = contributions
  OBVIOUS
<1>3. /\ c \in Requests /\ dispositions[i].completed \in BOOLEAN
      /\ closures[c].status = IF dispositions[i].completed THEN "SETTLED" ELSE "ACCEPTED"
  BY <1>1 DEF DispositionsChain
<1>4. /\ "ACCEPTED" = Advance(closures[c].status, action) /\ "ACCEPTED" \in ClosureStatuses
      /\ action \in Actions /\ closures[c].status \in Live /\ action # "SETTLE"
  BY <1>3 DEF Advance, ClosureStatuses, Actions, Live
<1>5. /\ Len(dispositions) \in Nat /\ DOMAIN dispositions = 1..Len(dispositions)
      /\ i = Len(dispositions)
      /\ \A j \in DOMAIN dispositions : j # i => dispositions[j].retired
  BY <1>1, OnlyLastInForce
<1>6. i \in Nat
  BY <1>5
<1>7. /\ Requests' = Requests /\ closures'[c].status = "ACCEPTED"
      /\ \A e \in Requests \ {c} : closures'[e] = closures[e]
      /\ \A e \in Requests :
           /\ Len(closures[e].events) \in Nat /\ Len(closures'[e].events) \in Nat
           /\ Len(closures[e].events) <= Len(closures'[e].events)
           /\ \A n \in DOMAIN closures[e].events :
                n \in DOMAIN closures'[e].events /\ closures'[e].events[n] = closures[e].events[n]
      /\ Len(closures'[c].events) = K + 1
  <2>1. HistoriesReplay /\ c \in Requests /\ action \in Actions /\ "ACCEPTED" \in ClosureStatuses /\ i \in Nat
    BY <1>1, <1>3, <1>4, <1>6
  <2>2. AppendEvent(c, action, "ACCEPTED", i)
    OBVIOUS
  <2>3. "ACCEPTED" = Advance(closures[c].status, action)
    BY <1>4
  <2>4. /\ Requests' = Requests /\ closures'[c].status = "ACCEPTED"
        /\ \A e \in Requests \ {c} : closures'[e] = closures[e]
    <3>1. Requests' = Requests
      BY <2>1, <2>2, <2>3, EventMoves
    <3>2. closures'[c].status = "ACCEPTED"
      BY <2>1, <2>2 DEF AppendEvent, Requests
    <3>3. \A e \in Requests \ {c} : closures'[e] = closures[e]
      BY <2>1, <2>2, <2>3, EventMoves
    <3> QED  BY <3>1, <3>2, <3>3
  <2>5. \A e \in Requests :
           /\ Len(closures[e].events) \in Nat /\ Len(closures'[e].events) \in Nat
           /\ Len(closures[e].events) <= Len(closures'[e].events)
           /\ \A n \in DOMAIN closures[e].events :
                n \in DOMAIN closures'[e].events /\ closures'[e].events[n] = closures[e].events[n]
    BY <2>1, <2>2, <2>3, EventMoves
  <2>6. Len(closures'[c].events) = K + 1
    BY <2>1, <2>2, <2>3, EventMoves
  <2> QED  BY <2>4, <2>5, <2>6
<1>8. /\ DOMAIN dispositions' = DOMAIN dispositions
       /\ \A j \in DOMAIN dispositions :
            /\ dispositions'[j].closure = dispositions[j].closure
            /\ dispositions'[j].sequence = dispositions[j].sequence
            /\ dispositions'[j].basis = dispositions[j].basis
            /\ dispositions'[j].award = dispositions[j].award
            /\ dispositions'[j].sources = dispositions[j].sources
            /\ dispositions'[j].invoice = dispositions[j].invoice
            /\ dispositions'[j].refunds = dispositions[j].refunds
            /\ dispositions'[j].done = dispositions[j].done
            /\ dispositions'[j].completed = dispositions[j].completed
            /\ dispositions'[j].approval = dispositions[j].approval
            /\ dispositions'[j].retired = IF j = i THEN TRUE ELSE dispositions[j].retired
            /\ dispositions'[j].resolved = IF j = i THEN K + 1 ELSE dispositions[j].resolved
  BY DEF RowBecomes
<1>9. HistoriesReplay'
  <2>1. DispositionsGrow
    BY <1>8 DEF DispositionsGrow
  <2>2. action = "REVERSE" => dispositions'[i].retired
    BY <1>8
  <2>3. action \in {"SETTLE", "REVERSE"} => i \in DOMAIN dispositions'
    BY <1>8
  <2> QED  BY <2>1, <2>2, <2>3, <1>1, <1>3, <1>4, <1>6, EventKeepsHistories
<1>10. AccountFollows'
  <2>1. \A e \in Requests \ {c} : closures[e].status \notin Live
    BY <1>1, <1>3, <1>4 DEF AccountFollows
  <2>2. \A e, f \in Requests' : closures'[e].status \in Live /\ closures'[f].status \in Live => e = f
    BY <2>1, <1>7
  <2>3. \A e \in Requests' : closures'[e].status \notin {"SETTLED", "CANCELLED"}
    BY <2>1, <1>7 DEF Live
  <2> QED  BY <2>2, <2>3, <1>1, <1>2 DEF AccountFollows
<1>11. DispositionsChain'
  <2>1. Len(dispositions') <= MaxDispositions
    BY <1>1 DEF DispositionsChain, RowBecomes
  <2>2. ASSUME NEW j \in DOMAIN dispositions
        PROVE  /\ dispositions'[j].closure \in Requests
               /\ dispositions'[j].sequence \in Nat /\ dispositions'[j].resolved \in Nat
               /\ dispositions'[j].sequence <= Len(closures'[dispositions'[j].closure].events)
               /\ dispositions'[j].resolved <= Len(closures'[dispositions'[j].closure].events)
               /\ dispositions'[j].completed \in BOOLEAN /\ dispositions'[j].retired \in BOOLEAN
               /\ dispositions'[j].retired <=> dispositions'[j].resolved > 0
               /\ dispositions'[j].retired
    <3>1. /\ dispositions[j].closure \in Requests
          /\ dispositions[j].sequence \in Nat /\ dispositions[j].resolved \in Nat
          /\ dispositions[j].sequence <= Len(closures[dispositions[j].closure].events)
          /\ dispositions[j].resolved <= Len(closures[dispositions[j].closure].events)
          /\ dispositions[j].completed \in BOOLEAN /\ dispositions[j].retired \in BOOLEAN
          /\ dispositions[j].retired <=> dispositions[j].resolved > 0
      BY <1>1 DEF DispositionsChain, Sequence
    <3>2. PICK e : e = dispositions[j].closure
      OBVIOUS
    <3>3. /\ e \in Requests /\ Len(closures[e].events) \in Nat /\ Len(closures'[e].events) \in Nat
          /\ Len(closures[e].events) <= Len(closures'[e].events)
          /\ dispositions'[j].closure = e
      BY <3>1, <3>2, <1>7, <1>8
    <3>4. CASE j = i
      <4>1. e = c /\ K \in Nat
        BY <3>2, <3>4, <1>3, <1>7
      <4>2. /\ dispositions'[j].resolved = K + 1 /\ dispositions'[j].retired = TRUE
            /\ dispositions'[j].sequence = dispositions[j].sequence
            /\ dispositions'[j].completed = dispositions[j].completed
            /\ dispositions'[j].closure = c
        BY <3>3, <3>4, <4>1, <1>8
      <4>3. Len(closures'[c].events) = K + 1
        BY <1>7
      <4>4. dispositions'[j].sequence <= Len(closures'[c].events) /\ dispositions'[j].sequence \in Nat
        <5>1. PICK x : x = dispositions[j].sequence
          OBVIOUS
        <5>2. x \in Nat /\ x <= Len(closures[c].events)
          BY <3>1, <3>2, <4>1, <5>1
        <5>3. Len(closures[c].events) <= Len(closures'[c].events) /\ Len(closures[c].events) \in Nat
              /\ Len(closures'[c].events) \in Nat
          BY <3>3, <4>1
        <5>4. x <= Len(closures'[c].events)
          BY <5>2, <5>3
        <5> QED  BY <4>2, <5>1, <5>2, <5>4
      <4>5. dispositions'[j].resolved \in Nat /\ dispositions'[j].resolved <= K + 1 /\ dispositions'[j].resolved > 0
        BY <4>1, <4>2
      <4>6. dispositions'[j].completed \in BOOLEAN /\ dispositions'[j].retired \in BOOLEAN /\ dispositions'[j].retired
        BY <3>1, <4>2
      <4> QED  BY <3>3, <4>1, <4>2, <4>3, <4>4, <4>5, <4>6
    <3>5. CASE j # i
      <4>1. dispositions[j].retired
        BY <3>5, <1>5
      <4>2. /\ dispositions'[j].resolved = dispositions[j].resolved
            /\ dispositions'[j].retired = dispositions[j].retired
            /\ dispositions'[j].sequence = dispositions[j].sequence
            /\ dispositions'[j].completed = dispositions[j].completed
        BY <3>5, <1>8
      <4>3. /\ dispositions'[j].sequence \in Nat /\ dispositions'[j].resolved \in Nat
            /\ dispositions'[j].sequence <= Len(closures'[e].events)
            /\ dispositions'[j].resolved <= Len(closures'[e].events)
        <5>1. PICK a, b : a = Len(closures[e].events) /\ b = Len(closures'[e].events)
          OBVIOUS
        <5>2. a \in Nat /\ b \in Nat /\ a <= b
          BY <3>3, <5>1
        <5>3. dispositions[j].sequence <= a /\ dispositions[j].resolved <= a
          BY <3>1, <3>2, <5>1
        <5> QED  BY <3>1, <4>2, <5>1, <5>2, <5>3
      <4>4. /\ dispositions'[j].completed \in BOOLEAN /\ dispositions'[j].retired \in BOOLEAN
            /\ dispositions'[j].retired <=> dispositions'[j].resolved > 0
            /\ dispositions'[j].retired
        BY <3>1, <4>1, <4>2
      <4> QED  BY <3>3, <4>3, <4>4
    <3> QED  BY <3>4, <3>5
  <2>3. ASSUME NEW j \in DOMAIN dispositions, j > 1
        PROVE  /\ dispositions'[j - 1].retired
               /\ dispositions'[j - 1].closure = dispositions'[j].closure
               /\ dispositions'[j - 1].resolved <= dispositions'[j].sequence
    <3>1. /\ dispositions[j - 1].retired
          /\ dispositions[j - 1].closure = dispositions[j].closure
          /\ dispositions[j - 1].resolved <= dispositions[j].sequence
      BY <2>3, <1>1 DEF DispositionsChain
    <3>2. j - 1 \in DOMAIN dispositions /\ j - 1 # i
      BY <2>3, <1>5
    <3> QED  BY <3>1, <3>2, <1>8
  <2> QED  BY <2>1, <2>2, <2>3, <1>7, <1>8 DEF DispositionsChain, Sequence
<1>12. LegsAreSound'
  <2>1. Rows' = Rows
    BY <1>2 DEF Rows
  <2> QED  BY <2>1, <1>1, <1>8, LegsKept
<1>13. PrincipalRests'
  <2>1. Principal' = Principal /\ Sources' = Sources /\ Rows' = Rows
    BY <1>2 DEF Principal, Paid, Sources, Rows
  <2>2. \A j \in DOMAIN dispositions : Fulfilled(j)' = Fulfilled(j)
    BY <1>8, FulfilledKept
  <2>3. ASSUME NEW j \in DOMAIN dispositions, mode = "METAL"
        PROVE  /\ dispositions'[j].completed /\ dispositions'[j].refunds = <<>>
               /\ dispositions'[j].done = {JewelleryLeg} /\ dispositions'[j].invoice > 0
               /\ dispositions'[j].retired
    <3>1. /\ dispositions[j].completed /\ dispositions[j].refunds = <<>>
          /\ dispositions[j].done = {JewelleryLeg} /\ dispositions[j].invoice > 0
      BY <2>3, <1>1 DEF PrincipalRests
    <3>2. /\ dispositions'[j].completed = dispositions[j].completed
          /\ dispositions'[j].refunds = dispositions[j].refunds
          /\ dispositions'[j].done = dispositions[j].done
          /\ dispositions'[j].invoice = dispositions[j].invoice
      BY <1>8
    <3>3. dispositions'[j].retired
      BY <1>5, <1>8
    <3> QED  BY <3>1, <3>2, <3>3
  <2>4. ASSUME NEW j \in DOMAIN dispositions, mode = "INR"
        PROVE  /\ Principal > 0 /\ dispositions'[j].sources = Sources
               /\ \A k \in Rows : contributions[k].status # "PENDING"
               /\ dispositions'[j].invoice + SumFunction(dispositions'[j].refunds) = Principal
               /\ dispositions'[j].completed => Fulfilled(j) = Principal
    <3>1. /\ Principal > 0 /\ dispositions[j].sources = Sources
          /\ \A k \in Rows : contributions[k].status # "PENDING"
          /\ dispositions[j].invoice + SumFunction(dispositions[j].refunds) = Principal
          /\ dispositions[j].completed => Fulfilled(j) = Principal
      BY <2>4, <1>1 DEF PrincipalRests
    <3>2. /\ dispositions'[j].sources = dispositions[j].sources
          /\ dispositions'[j].invoice = dispositions[j].invoice
          /\ dispositions'[j].refunds = dispositions[j].refunds
          /\ dispositions'[j].completed = dispositions[j].completed
      BY <1>8
    <3> QED  BY <3>1, <3>2
  <2> QED  BY <2>1, <2>2, <2>3, <2>4, <1>2, <1>8 DEF PrincipalRests
<1>14. SettlementsAreRecorded'
  BY <1>1, <1>2, <1>7, <1>8, SettlementsKept
<1>15. InvoicesFollow'
  BY <1>1, <1>8, InvoicesFollowReturn
<1>16. PaymentsAreSound'
  <2>1. Rows' = Rows /\ Verified' = Verified
    BY <1>2 DEF Verified, Rows
  <2> QED  BY <1>1, <1>2, <2>1 DEF PaymentsAreSound
<1> QED  BY <1>9, <1>10, <1>11, <1>12, <1>13, <1>14, <1>15, <1>16 DEF ClosingFacts

\* The reversal of a metal settlement.
LEMMA ReverseKeepsFacts ==
  ASSUME BenefitInv, ClosingFacts, NEW d \in Desks, NEW i \in DOMAIN dispositions,
         ReverseConfiguredSettlement(d, i)
  PROVE  ClosingFacts'
<1>1. PICK c, K : c = dispositions[i].closure /\ K = Len(closures[c].events)
  OBVIOUS
<1>2. /\ mode = "METAL" /\ ~dispositions[i].retired
      /\ dispositions' = [dispositions EXCEPT ![i].retired = TRUE, ![i].resolved = K + 1]
      /\ AppendEvent(c, "REVERSE", "ACCEPTED", i)
      /\ ReverseBenefit(i) /\ account' = "CLOSURE_PENDING"
      /\ UNCHANGED <<mode, eligible, contributions, award, decisions>>
  BY <1>1 DEF ReverseConfiguredSettlement, Sequence
<1>3. dispositions[i].completed
  BY <1>2 DEF ClosingFacts, PrincipalRests
<1>4. RowBecomes(i, dispositions[i].done, dispositions[i].completed, TRUE, K + 1)
  BY <1>2, RetirementIsOnly
<1>5. PICK action : action = "REVERSE"
  OBVIOUS
<1>6. action \in {"REVERSE", "NOTE"} /\ (action = "REVERSE" <=> dispositions[i].completed)
  BY <1>3, <1>5
<1>7. AppendEvent(c, action, "ACCEPTED", i)
  BY <1>2, <1>5
<1>8. c = dispositions[i].closure /\ K = Len(closures[c].events)
  BY <1>1
<1>9. /\ ~dispositions[i].retired /\ ReverseBenefit(i) /\ account' = "CLOSURE_PENDING"
      /\ UNCHANGED <<mode, eligible, contributions, award, decisions>>
  BY <1>2
<1> QED  BY <1>4, <1>6, <1>7, <1>8, <1>9, RetireKeepsFacts

\* The void or the full return of a proposal.
LEMMA ResolveKeepsFacts ==
  ASSUME BenefitInv, ClosingFacts, DesksAreSound, NEW d \in Desks, ResolveInrSettlement(d)
  PROVE  ClosingFacts'
<1>1. PICK i, c, K : i = desk[d].evidence.proposal /\ c = dispositions[i].closure /\ K = Len(closures[c].events)
  OBVIOUS
<1>2. /\ desk[d].kind = "RESOLVE" /\ ~dispositions[i].retired
      /\ dispositions' = [dispositions EXCEPT ![i].retired = TRUE, ![i].resolved = K + 1]
      /\ AppendEvent(c, IF dispositions[i].completed THEN "REVERSE" ELSE "NOTE", "ACCEPTED", i)
      /\ ReverseBenefit(i) /\ account' = "CLOSURE_PENDING"
      /\ UNCHANGED <<mode, eligible, contributions, award, decisions>>
  BY <1>1 DEF ResolveInrSettlement, ResolutionHolds, Sequence
<1>3. i \in DOMAIN dispositions
  BY <1>1, <1>2 DEF DesksAreSound
<1>4. RowBecomes(i, dispositions[i].done, dispositions[i].completed, TRUE, K + 1)
  BY <1>2, <1>3, RetirementIsOnly
<1>5. PICK action \in {"REVERSE", "NOTE"} :
        action = IF dispositions[i].completed THEN "REVERSE" ELSE "NOTE"
  OBVIOUS
<1>6. AppendEvent(c, action, "ACCEPTED", i) /\ (action = "REVERSE" <=> dispositions[i].completed)
  BY <1>2, <1>5
<1> QED  BY <1>1, <1>2, <1>3, <1>4, <1>6, RetireKeepsFacts

-----------------------------------------------------------------------------
(* A new disposition. *)

\* A row joins the table behind the others.
RowJoins(r) ==
  /\ Len(dispositions) \in Nat /\ DOMAIN dispositions = 1..Len(dispositions)
  /\ Len(dispositions') = Len(dispositions) + 1 /\ DOMAIN dispositions' = 1..(Len(dispositions) + 1)
  /\ dispositions'[Len(dispositions) + 1] = r
  /\ \A i \in DOMAIN dispositions : dispositions'[i] = dispositions[i]

LEMMA AppendedJoins ==
  ASSUME BenefitInv, NEW r, dispositions' = Append(dispositions, r)
  PROVE  RowJoins(r)
<1>1. IsTable(dispositions)
  BY DEF BenefitInv, TablesAreSound
<1>2. Len(dispositions) \in Nat /\ DOMAIN dispositions = 1..Len(dispositions)
  BY <1>1, TableNumbers
<1>3. /\ Len(dispositions') = Len(dispositions) + 1
      /\ DOMAIN dispositions' = 1..(Len(dispositions) + 1)
      /\ dispositions'[Len(dispositions) + 1] = r
      /\ \A i \in 1..Len(dispositions) : dispositions'[i] = dispositions[i]
  BY <1>1, TableGrows
<1> QED  BY <1>2, <1>3 DEF RowJoins

\* The rows there were do not change.
LEMMA JoiningGrows ==
  ASSUME NEW r, RowJoins(r)
  PROVE  /\ DispositionsGrow
         /\ \A i \in DOMAIN dispositions : dispositions'[i].retired = dispositions[i].retired
         /\ dispositions' # <<>>
<1>1. PICK L : L = Len(dispositions)
  OBVIOUS
<1>2. /\ L \in Nat /\ DOMAIN dispositions = 1..L /\ DOMAIN dispositions' = 1..(L + 1)
      /\ Len(dispositions') = L + 1
      /\ \A i \in DOMAIN dispositions : dispositions'[i] = dispositions[i]
  BY <1>1 DEF RowJoins
<1>3. DOMAIN dispositions \subseteq DOMAIN dispositions'
  BY <1>2
<1>4. dispositions' # <<>>
  <2>1. Len(<<>>) = 0 /\ L + 1 # 0
    BY <1>2
  <2> QED  BY <2>1, <1>2
<1> QED  BY <1>2, <1>3, <1>4 DEF DispositionsGrow

\* A new disposition follows the last on its closure.
LEMMA ChainGrows ==
  ASSUME DispositionsChain, NEW c \in Requests, NEW r, RowJoins(r), Len(dispositions) < MaxDispositions,
         \A i \in DOMAIN dispositions : dispositions[i].retired /\ dispositions[i].closure = c,
         r.closure = c, r.sequence = Len(closures[c].events), r.resolved = 0, r.retired = FALSE,
         r.completed \in BOOLEAN, Requests' = Requests,
         Len(closures[c].events) \in Nat, Len(closures'[c].events) \in Nat,
         Len(closures[c].events) <= Len(closures'[c].events),
         closures'[c].status = IF r.completed THEN "SETTLED" ELSE "ACCEPTED"
  PROVE  DispositionsChain'
<1>1. PICK L, K, M : L = Len(dispositions) /\ K = Len(closures[c].events) /\ M = Len(closures'[c].events)
  OBVIOUS
<1>2. /\ L \in Nat /\ DOMAIN dispositions = 1..L /\ Len(dispositions') = L + 1
      /\ DOMAIN dispositions' = 1..(L + 1) /\ dispositions'[L + 1] = r
      /\ \A i \in 1..L : dispositions'[i] = dispositions[i]
  BY <1>1 DEF RowJoins
<1>3. K \in Nat /\ M \in Nat /\ K <= M
  BY <1>1
<1>4. \A i \in 1..L :
        /\ dispositions[i].closure = c /\ dispositions[i].retired
        /\ dispositions[i].sequence \in Nat /\ dispositions[i].resolved \in Nat
        /\ dispositions[i].sequence <= K /\ dispositions[i].resolved <= K
        /\ dispositions[i].completed \in BOOLEAN /\ dispositions[i].retired \in BOOLEAN
        /\ dispositions[i].retired <=> dispositions[i].resolved > 0
        /\ i > 1 => dispositions[i-1].resolved <= dispositions[i].sequence
  BY <1>1, <1>2 DEF DispositionsChain, Sequence
<1>5. Len(dispositions') <= MaxDispositions
  BY <1>1, <1>2, MaxDispositionsAssumption
<1>6. ASSUME NEW i \in 1..(L + 1)
      PROVE  /\ dispositions'[i].closure = c
             /\ dispositions'[i].sequence \in Nat /\ dispositions'[i].resolved \in Nat
             /\ dispositions'[i].sequence <= M /\ dispositions'[i].resolved <= M
             /\ dispositions'[i].completed \in BOOLEAN /\ dispositions'[i].retired \in BOOLEAN
             /\ dispositions'[i].retired <=> dispositions'[i].resolved > 0
             /\ ~dispositions'[i].retired =>
                  closures'[c].status = IF dispositions'[i].completed THEN "SETTLED" ELSE "ACCEPTED"
  <2>1. CASE i = L + 1
    <3>1. dispositions'[i] = r
      BY <2>1, <1>2
    <3>2. r.sequence = K /\ closures'[c].status = IF r.completed THEN "SETTLED" ELSE "ACCEPTED"
      BY <1>1
    <3>3. /\ dispositions'[i].closure = c /\ dispositions'[i].sequence = K
          /\ dispositions'[i].resolved = 0 /\ dispositions'[i].completed \in BOOLEAN
      BY <3>1, <3>2
    <3>4. dispositions'[i].retired = FALSE /\ dispositions'[i].completed = r.completed
      BY <3>1
    <3>5. /\ dispositions'[i].sequence \in Nat /\ dispositions'[i].resolved \in Nat
          /\ dispositions'[i].sequence <= M /\ dispositions'[i].resolved <= M
      BY <3>3, <1>3
    <3>6. /\ dispositions'[i].retired \in BOOLEAN
          /\ dispositions'[i].retired <=> dispositions'[i].resolved > 0
      <4>1. ~(dispositions'[i].resolved > 0)
        BY <3>3
      <4> QED  BY <3>4, <4>1
    <3>7. closures'[c].status = IF dispositions'[i].completed THEN "SETTLED" ELSE "ACCEPTED"
      BY <3>2, <3>4
    <3> QED  BY <3>3, <3>5, <3>6, <3>7
  <2>2. CASE i # L + 1
    <3>1. i \in 1..L /\ dispositions'[i] = dispositions[i]
      BY <2>2, <1>2
    <3> QED  BY <3>1, <1>3, <1>4
  <2> QED  BY <2>1, <2>2
<1>7. ASSUME NEW i \in 1..(L + 1), i > 1
      PROVE  /\ dispositions'[i-1].retired /\ dispositions'[i-1].closure = c
             /\ dispositions'[i-1].resolved <= dispositions'[i].sequence
  <2>1. i - 1 \in 1..L /\ dispositions'[i-1] = dispositions[i-1]
    BY <1>2, <1>7
  <2>2. dispositions[i-1].resolved <= K /\ dispositions[i-1].retired /\ dispositions[i-1].closure = c
    BY <2>1, <1>4
  <2>3. CASE i = L + 1
    BY <2>1, <2>2, <2>3, <1>1, <1>2
  <2>4. CASE i # L + 1
    <3>1. i \in 1..L /\ dispositions'[i] = dispositions[i]
      BY <2>4, <1>2
    <3> QED  BY <2>1, <2>2, <3>1, <1>4, <1>7
  <2> QED  BY <2>3, <2>4
<1>8. \A i \in 1..(L + 1) : Sequence(dispositions[i].closure)' = M
  BY <1>1, <1>6 DEF Sequence
<1>9. \A i \in DOMAIN dispositions' :
        /\ dispositions'[i].sequence <= Sequence(dispositions[i].closure)'
        /\ dispositions'[i].resolved <= Sequence(dispositions[i].closure)'
        /\ ~dispositions'[i].retired => closures'[dispositions'[i].closure].status =
             IF dispositions'[i].completed THEN "SETTLED" ELSE "ACCEPTED"
  BY <1>2, <1>6, <1>8
<1>10. \A i \in DOMAIN dispositions' :
        /\ dispositions'[i].closure \in Requests'
        /\ dispositions'[i].sequence \in Nat /\ dispositions'[i].resolved \in Nat
        /\ dispositions'[i].completed \in BOOLEAN /\ dispositions'[i].retired \in BOOLEAN
        /\ dispositions'[i].retired <=> dispositions'[i].resolved > 0
        /\ i > 1 => /\ dispositions'[i-1].retired
                    /\ dispositions'[i-1].closure = dispositions'[i].closure
                    /\ dispositions'[i-1].resolved <= dispositions'[i].sequence
  <2>1. DOMAIN dispositions' = 1..(L + 1) /\ c \in Requests'
    BY <1>2
  <2>2. ASSUME NEW i \in 1..(L + 1)
        PROVE  /\ dispositions'[i].closure \in Requests'
               /\ dispositions'[i].sequence \in Nat /\ dispositions'[i].resolved \in Nat
               /\ dispositions'[i].completed \in BOOLEAN /\ dispositions'[i].retired \in BOOLEAN
               /\ dispositions'[i].retired <=> dispositions'[i].resolved > 0
    BY <1>6, <2>1, <2>2
  <2>3. ASSUME NEW i \in 1..(L + 1), i > 1
        PROVE  /\ dispositions'[i-1].retired
               /\ dispositions'[i-1].closure = dispositions'[i].closure
               /\ dispositions'[i-1].resolved <= dispositions'[i].sequence
    BY <1>6, <1>7, <2>3
  <2> QED  BY <2>1, <2>2, <2>3
<1> QED  BY <1>5, <1>9, <1>10 DEF DispositionsChain

\* What a proof decides about the award, and the closure it is for.
LEMMA ProofAwards ==
  ASSUME BenefitInv, InvoicesFollow, NEW c, ProofHolds(c), RetainClosureAward(ClosureProof)
  PROVE  /\ award'.recorded = ClosureProof.award /\ award'.recorded \in BOOLEAN
         /\ dispositions # <<>> => award'.recorded = award.recorded
         /\ ClosureProof.award => ClosureProof.basis = "NORMAL" /\ award'.sources = Sources
         /\ \A i \in DOMAIN dispositions : dispositions[i].closure = c
<1>1. award' = IF ClosureProof.award THEN [recorded |-> TRUE, sources |-> Sources] ELSE award
  BY DEF RetainClosureAward
<1>2. award.recorded \in BOOLEAN
  BY DEF InvoicesFollow
<1>3. CASE dispositions = <<>>
  <2>1. FirstProofHolds /\ ClosureProof = FirstProof
    BY <1>3 DEF ProofHolds, ClosureProof
  <2>2. ClosureProof.award = QualificationMet /\ ClosureProof.basis = IF eligible THEN "NORMAL" ELSE "EARLY"
    BY <2>1 DEF FirstProof
  <2>3. award.recorded => QualificationMet
    BY <2>1 DEF FirstProofHolds
  <2>4. QualificationMet => eligible
    BY DEF QualificationMet
  <2>5. DOMAIN dispositions = {}
    BY <1>3
  <2>6. CASE QualificationMet
    <3>1. ClosureProof.award = TRUE /\ award' = [recorded |-> TRUE, sources |-> Sources]
      BY <2>2, <2>6, <1>1
    <3>2. award'.recorded = TRUE /\ award'.sources = Sources
      BY <3>1
    <3> QED  BY <3>1, <3>2, <2>2, <2>4, <2>5, <2>6, <1>3
  <2>7. CASE ~QualificationMet
    <3>1. ClosureProof.award = FALSE /\ award' = award
      BY <2>2, <2>7, <1>1
    <3>2. award.recorded = FALSE
      BY <2>3, <2>7, <1>2
    <3> QED  BY <3>1, <3>2, <2>5, <1>3
  <2> QED  BY <2>6, <2>7
<1>4. CASE dispositions # <<>>
  <2>1. ReplacementProofHolds(c) /\ ClosureProof = ReplacementProof
    BY <1>4 DEF ProofHolds, ClosureProof
  <2>2. ClosureProof.award = dispositions[1].award /\ ClosureProof.basis = dispositions[1].basis
    BY <2>1 DEF ReplacementProof
  <2>3. /\ dispositions[1].award = award.recorded
        /\ \A i \in DOMAIN dispositions : dispositions[i].closure = c
    BY <2>1 DEF ReplacementProofHolds
  <2>4. 1 \in DOMAIN dispositions
    BY <1>4, TableNumbers DEF BenefitInv, TablesAreSound
  <2>5. dispositions[1].award => dispositions[1].basis = "NORMAL"
    BY <2>4 DEF InvoicesFollow
  <2>6. CASE ClosureProof.award
    <3>1. award' = [recorded |-> TRUE, sources |-> Sources] /\ award.recorded = TRUE
      BY <2>2, <2>3, <2>6, <1>1, <1>2
    <3>2. award'.recorded = TRUE /\ award'.sources = Sources
      BY <3>1
    <3> QED  BY <3>1, <3>2, <2>2, <2>3, <2>5, <2>6
  <2>7. CASE ~ClosureProof.award
    <3>1. award' = award
      BY <2>7, <1>1
    <3> QED  BY <3>1, <2>2, <2>3, <2>7, <1>2
  <2> QED  BY <2>6, <2>7
<1> QED  BY <1>3, <1>4

\* The award, the invoices and a new disposition agree.
LEMMA InvoicesFollowRow ==
  ASSUME BenefitInv, InvoicesFollow, NEW c, ProofHolds(c), RetainClosureAward(ClosureProof),
         NEW r, RowJoins(r),
         r.basis = ClosureProof.basis, r.award = ClosureProof.award, r.approval = ClosureProof.approval,
         r.retired = FALSE, r.award => r.invoice > 0,
         IF r.award /\ JewelleryLeg \in r.done
         THEN ConsumeBenefit(Len(dispositions) + 1, r.approval) ELSE UNCHANGED invoices,
         UNCHANGED <<mode, contributions, decisions>>
  PROVE  InvoicesFollow'
<1>1. PICK L : L = Len(dispositions)
  OBVIOUS
<1>2. /\ L \in Nat /\ DOMAIN dispositions = 1..L
      /\ DOMAIN dispositions' = 1..(L + 1) /\ dispositions'[L + 1] = r
      /\ \A i \in 1..L : dispositions'[i] = dispositions[i]
  BY <1>1 DEF RowJoins
<1>3. /\ award'.recorded = r.award /\ award'.recorded \in BOOLEAN
      /\ dispositions # <<>> => award'.recorded = award.recorded
      /\ r.award => r.basis = "NORMAL" /\ award'.sources = Sources
  BY ProofAwards
<1>4. mode' = mode /\ decisions' = decisions /\ Sources' = Sources
  BY DEF Sources
<1>5. ASSUME NEW i \in 1..L  PROVE award'.recorded = award.recorded
  <2>1. dispositions # <<>>
    BY <1>2
  <2> QED  BY <2>1, <1>3
<1>6. IsTable(invoices) /\ IsTable(decisions)
  BY DEF BenefitInv, TablesAreSound
<1>7. Len(invoices) \in Nat /\ DOMAIN invoices = 1..Len(invoices)
  BY <1>6, TableNumbers
<1>8. \A m \in DOMAIN invoices : invoices[m].disposition \in 1..L
  BY <1>2 DEF BenefitInv, TablesAreSound
<1>9. \A i \in 1..L :
        /\ (\E m \in DOMAIN invoices : invoices[m].disposition = i)
             <=> dispositions[i].award /\ JewelleryLeg \in dispositions[i].done
        /\ \A m \in DOMAIN invoices :
             invoices[m].disposition = i => invoices[m].reversed = dispositions[i].retired
  BY <1>2 DEF InvoicesFollow
<1>10. ~\E m \in DOMAIN invoices : invoices[m].disposition = L + 1
  BY <1>2, <1>8
<1>11. r.approval \in 0..Len(decisions)
  <2>1. Len(decisions) \in Nat /\ DOMAIN decisions = 1..Len(decisions)
    BY <1>6, TableNumbers
  <2>2. IF invoices = <<>> THEN ClosureProof.approval = 0 ELSE Permits(ClosureProof.approval)
    BY ProofGives
  <2> QED  BY <2>1, <2>2 DEF Permits
<1>12. ASSUME NEW i \in 1..(L + 1)
       PROVE  /\ dispositions'[i].approval \in 0..Len(decisions)
              /\ dispositions'[i].award = award'.recorded
              /\ dispositions'[i].award => dispositions'[i].basis = "NORMAL" /\ dispositions'[i].invoice > 0
              /\ mode = "INR" /\ dispositions'[i].award => award'.sources = Sources
  <2>1. CASE i = L + 1
    <3>1. dispositions'[i] = r
      BY <2>1, <1>2
    <3> QED  BY <3>1, <1>3, <1>11
  <2>2. CASE i # L + 1
    <3>1. i \in 1..L /\ dispositions'[i] = dispositions[i]
      BY <2>2, <1>2
    <3>2. award'.recorded = award.recorded
      BY <3>1, <1>5
    <3>3. /\ dispositions[i].approval \in 0..Len(decisions)
          /\ dispositions[i].award = award.recorded
          /\ dispositions[i].award => dispositions[i].basis = "NORMAL" /\ dispositions[i].invoice > 0
      BY <3>1, <1>2 DEF InvoicesFollow
    <3>4. dispositions[i].award = r.award
      BY <3>2, <3>3, <1>3
    <3> QED  BY <3>1, <3>2, <3>3, <3>4, <1>3
  <2> QED  BY <2>1, <2>2
<1>13. \A n \in DOMAIN decisions : decisions[n].invoice \in DOMAIN invoices
  BY DEF InvoicesFollow
<1>14. CASE ~(r.award /\ JewelleryLeg \in r.done)
  <2>1. invoices' = invoices
    BY <1>14
  <2>2. ASSUME NEW i \in 1..(L + 1)
        PROVE  /\ (\E m \in DOMAIN invoices : invoices[m].disposition = i)
                    <=> dispositions'[i].award /\ JewelleryLeg \in dispositions'[i].done
               /\ \A m \in DOMAIN invoices :
                    invoices[m].disposition = i => invoices[m].reversed = dispositions'[i].retired
    <3>1. CASE i = L + 1
      <4>1. dispositions'[i] = r
        BY <3>1, <1>2
      <4>2. ~\E m \in DOMAIN invoices : invoices[m].disposition = i
        BY <3>1, <1>10
      <4> QED  BY <4>1, <4>2, <1>14
    <3>2. CASE i # L + 1
      <4>1. i \in 1..L /\ dispositions'[i] = dispositions[i]
        BY <3>2, <1>2
      <4> QED  BY <4>1, <1>9
    <3> QED  BY <3>1, <3>2
  <2> QED  BY <2>1, <2>2, <1>2, <1>3, <1>4, <1>12, <1>13 DEF InvoicesFollow
<1>15. CASE r.award /\ JewelleryLeg \in r.done
  <2>1. PICK N, e : N = Len(invoices) /\ e = [disposition |-> L + 1, approval |-> r.approval, reversed |-> FALSE]
    OBVIOUS
  <2>2. invoices' = Append(invoices, e)
    BY <2>1, <1>1, <1>15 DEF ConsumeBenefit
  <2>3. /\ N \in Nat /\ DOMAIN invoices = 1..N /\ DOMAIN invoices' = 1..(N + 1)
        /\ invoices'[N + 1] = e /\ \A m \in 1..N : invoices'[m] = invoices[m]
    BY <2>1, <2>2, <1>6, <1>7, TableGrows
  <2>4. e.disposition = L + 1 /\ e.reversed = FALSE
    BY <2>1
  <2>5. \A n \in DOMAIN decisions : decisions[n].invoice \in DOMAIN invoices'
    BY <2>3, <1>13
  <2>6. ASSUME NEW i \in 1..(L + 1)
        PROVE  /\ (\E m \in DOMAIN invoices' : invoices'[m].disposition = i)
                    <=> dispositions'[i].award /\ JewelleryLeg \in dispositions'[i].done
               /\ \A m \in DOMAIN invoices' :
                    invoices'[m].disposition = i => invoices'[m].reversed = dispositions'[i].retired
    <3>1. CASE i = L + 1
      <4>1. dispositions'[i] = r
        BY <3>1, <1>2
      <4>2. N + 1 \in DOMAIN invoices' /\ invoices'[N + 1].disposition = i
        BY <3>1, <2>3, <2>4
      <4>3. \A m \in DOMAIN invoices' : invoices'[m].disposition = i => m = N + 1
        BY <3>1, <2>3, <1>10
      <4>4. invoices'[N + 1].reversed = FALSE
        BY <2>3, <2>4
      <4> QED  BY <4>1, <4>2, <4>3, <4>4, <1>15
    <3>2. CASE i # L + 1
      <4>1. i \in 1..L /\ dispositions'[i] = dispositions[i]
        BY <3>2, <1>2
      <4>2. \A m \in DOMAIN invoices' :
              invoices'[m].disposition = i => m \in DOMAIN invoices /\ invoices'[m] = invoices[m]
        BY <3>2, <2>3, <2>4
      <4>3. \A m \in DOMAIN invoices : m \in DOMAIN invoices' /\ invoices'[m] = invoices[m]
        BY <2>3
      <4> QED  BY <4>1, <4>2, <4>3, <1>9
    <3> QED  BY <3>1, <3>2
  <2> QED  BY <2>5, <2>6, <1>2, <1>3, <1>4, <1>12 DEF InvoicesFollow
<1> QED  BY <1>14, <1>15

\* Rows of payments that do not move.
LEMMA PaymentsRest ==
  ASSUME PaymentsAreSound, UNCHANGED contributions
  PROVE  PaymentsAreSound' /\ Rows' = Rows /\ Principal' = Principal /\ Sources' = Sources
<1>1. Rows' = Rows /\ Verified' = Verified
  BY DEF Verified, Rows
<1>2. PaymentsAreSound'
  BY <1>1 DEF PaymentsAreSound
<1>3. Principal' = Principal /\ Sources' = Sources
  BY <1>1 DEF Principal, Paid, Sources
<1> QED  BY <1>1, <1>2, <1>3

\* A full metal settlement.
LEMMA SettleKeepsFacts ==
  ASSUME BenefitInv, ClosingFacts, DesksAreSound, NEW d \in Desks, SettleConfiguredAgreement(d)
  PROVE  ClosingFacts'
<1>1. PICK c, K, L : /\ c = desk[d].evidence.closure /\ K = Len(closures[c].events)
                     /\ L = Len(dispositions)
  OBVIOUS
<1>2. /\ desk[d].kind = "SETTLE" /\ mode = "METAL" /\ L < MaxDispositions
      /\ closures[c].status = "ACCEPTED" /\ ProofHolds(c) /\ Principal > 0
      /\ Settle(c, ClosureProof)
      /\ mode' = mode /\ eligible' = eligible /\ contributions' = contributions /\ decisions' = decisions
  BY <1>1 DEF SettleConfiguredAgreement, FullSettlementHolds
<1>3. PICK r : r =
        [closure |-> c, sequence |-> K, basis |-> ClosureProof.basis, award |-> ClosureProof.award,
         sources |-> Sources, invoice |-> Principal, refunds |-> <<>>, done |-> {JewelleryLeg},
         completed |-> TRUE, retired |-> FALSE, resolved |-> 0, approval |-> ClosureProof.approval]
  OBVIOUS
<1>4. /\ dispositions' = Append(dispositions, r)
      /\ AppendEvent(c, "SETTLE", "SETTLED", L + 1)
      /\ account' = "REDEEMED"
      /\ RetainClosureAward(ClosureProof)
      /\ IF ClosureProof.award THEN ConsumeBenefit(L + 1, ClosureProof.approval) ELSE UNCHANGED invoices
  BY <1>1, <1>2, <1>3 DEF Settle, Sequence
<1>5. /\ r.closure = c /\ r.sequence = K /\ r.basis = ClosureProof.basis /\ r.award = ClosureProof.award
      /\ r.sources = Sources /\ r.invoice = Principal /\ r.refunds = <<>> /\ r.done = {JewelleryLeg}
      /\ r.completed = TRUE /\ r.retired = FALSE /\ r.resolved = 0 /\ r.approval = ClosureProof.approval
  BY <1>3
<1>6. RowJoins(r)
  BY <1>4, AppendedJoins
<1>7. /\ HistoriesReplay /\ AccountFollows /\ DispositionsChain /\ LegsAreSound
      /\ PrincipalRests /\ SettlementsAreRecorded /\ InvoicesFollow /\ PaymentsAreSound
  BY DEF ClosingFacts
<1>8. c \in Requests
  BY <1>1, <1>2 DEF DesksAreSound
<1>9. \A i \in DOMAIN dispositions : dispositions[i].retired /\ dispositions[i].closure = c
  BY <1>2, <1>4, <1>7, ProofGives, ProofAwards
<1>10. /\ L \in Nat /\ DOMAIN dispositions = 1..L /\ DOMAIN dispositions' = 1..(L + 1)
       /\ dispositions'[L + 1] = r
       /\ \A i \in 1..L : dispositions'[i] = dispositions[i]
  BY <1>1, <1>6 DEF RowJoins
<1>11. /\ "SETTLED" = Advance(closures[c].status, "SETTLE") /\ "SETTLED" \in ClosureStatuses
       /\ "SETTLE" \in Actions /\ closures[c].status \in Live /\ L + 1 \in Nat
  BY <1>2, <1>10 DEF Advance, ClosureStatuses, Actions, Live
<1>12. /\ Requests' = Requests /\ closures'[c].status = "SETTLED"
       /\ \A e \in Requests \ {c} : closures'[e] = closures[e]
  BY <1>4, <1>7, <1>8, <1>11, EventMoves
<1>13. \A e \in Requests :
         /\ Len(closures[e].events) \in Nat /\ Len(closures'[e].events) \in Nat
         /\ Len(closures[e].events) <= Len(closures'[e].events)
         /\ \A n \in DOMAIN closures[e].events :
              n \in DOMAIN closures'[e].events /\ closures'[e].events[n] = closures[e].events[n]
  BY <1>4, <1>7, <1>8, <1>11, EventMoves
<1>14. /\ closures'[c].events[Len(closures[c].events) + 1] = [action |-> "SETTLE", disposition |-> L + 1]
       /\ DOMAIN closures'[c].events = 1..(Len(closures[c].events) + 1)
  BY <1>4, <1>7, <1>8, <1>11, EventMoves
<1>15. DispositionsGrow /\ dispositions' # <<>>
  BY <1>6, JoiningGrows
<1>16. HistoriesReplay'
  <2>1. L + 1 \in DOMAIN dispositions' /\ dispositions'[L + 1].completed /\ ~dispositions'[L + 1].retired
    BY <1>5, <1>10
  <2> QED  BY <2>1, <1>4, <1>7, <1>8, <1>11, <1>15, EventKeepsHistories
<1>17. AccountFollows'
  <2>1. \A e \in Requests \ {c} : closures[e].status \notin Live
    BY <1>7, <1>8, <1>11 DEF AccountFollows
  <2>2. \A e, f \in Requests' : closures'[e].status \in Live /\ closures'[f].status \in Live => e = f
    BY <2>1, <1>12
  <2>3. \A e \in Requests' : closures'[e].status # "CANCELLED"
    BY <2>1, <1>12 DEF Live
  <2> QED  BY <2>2, <2>3, <1>2, <1>4, <1>7, <1>8, <1>12 DEF AccountFollows
<1>18. DispositionsChain'
  <2>1. r.completed \in BOOLEAN /\ closures'[c].status = IF r.completed THEN "SETTLED" ELSE "ACCEPTED"
    BY <1>5, <1>12
  <2>2. Len(dispositions) < MaxDispositions /\ r.sequence = Len(closures[c].events)
    BY <1>1, <1>2, <1>5
  <2>3. /\ Len(closures[c].events) \in Nat /\ Len(closures'[c].events) \in Nat
        /\ Len(closures[c].events) <= Len(closures'[c].events)
    BY <1>8, <1>13
  <2> QED  BY <2>1, <2>2, <2>3, <1>5, <1>6, <1>7, <1>8, <1>9, <1>12, ChainGrows
<1>19. PaymentsAreSound' /\ Rows' = Rows /\ Principal' = Principal /\ Principal \in Nat
  BY <1>2, <1>7, PaymentsRest, PaidPlaces
<1>20. LegsAreSound'
  <2>1. ASSUME NEW i \in 1..(L + 1)
        PROVE  /\ dispositions'[i].invoice \in Nat
               /\ DOMAIN dispositions'[i].refunds \subseteq Rows
               /\ \A j \in DOMAIN dispositions'[i].refunds : dispositions'[i].refunds[j] \in Nat \ {0}
               /\ dispositions'[i].done \subseteq
                    (IF dispositions'[i].invoice > 0 THEN {JewelleryLeg} ELSE {})
                      \cup DOMAIN dispositions'[i].refunds
    <3>1. CASE i = L + 1
      <4>1. dispositions'[i] = r /\ DOMAIN <<>> = {}
        BY <3>1, <1>10
      <4> QED  BY <4>1, <1>2, <1>5, <1>19
    <3>2. CASE i # L + 1
      <4>1. i \in 1..L /\ dispositions'[i] = dispositions[i]
        BY <3>2, <1>10
      <4> QED  BY <4>1, <1>7, <1>10 DEF LegsAreSound, Legs
    <3> QED  BY <3>1, <3>2
  <2> QED  BY <2>1, <1>10, <1>19 DEF LegsAreSound, Legs
<1>21. PrincipalRests'
  <2>1. ASSUME NEW i \in 1..(L + 1)
        PROVE  /\ dispositions'[i].completed /\ dispositions'[i].refunds = <<>>
               /\ dispositions'[i].done = {JewelleryLeg} /\ dispositions'[i].invoice > 0
               /\ ~dispositions'[i].retired => dispositions'[i].invoice = Principal
    <3>1. CASE i = L + 1
      <4>1. dispositions'[i] = r
        BY <3>1, <1>10
      <4> QED  BY <4>1, <1>2, <1>5
    <3>2. CASE i # L + 1
      <4>1. i \in 1..L /\ dispositions'[i] = dispositions[i]
        BY <3>2, <1>10
      <4> QED  BY <4>1, <1>2, <1>7, <1>10 DEF PrincipalRests
    <3> QED  BY <3>1, <3>2
  <2> QED  BY <2>1, <1>2, <1>10, <1>19 DEF PrincipalRests
<1>22. SettlementsAreRecorded'
  <2>1. ASSUME NEW i \in 1..(L + 1)
        PROVE  /\ dispositions'[i].invoice = Amount * PaidOf(dispositions'[i].sources)
               /\ dispositions'[i].sequence + 1 \in DOMAIN closures'[dispositions'[i].closure].events
               /\ closures'[dispositions'[i].closure].events[dispositions'[i].sequence + 1]
                    = [action |-> "SETTLE", disposition |-> i]
    <3>1. CASE i = L + 1
      <4>1. dispositions'[i] = r
        BY <3>1, <1>10
      <4>2. Principal = Amount * PaidOf(Sources)
        BY DEF Principal, Paid, PaidOf, Sources, Rows
      <4>3. K \in Nat
        BY <1>1, <1>8, <1>13
      <4>4. K + 1 \in 1..(K + 1)
        BY <4>3
      <4>5. /\ dispositions'[i].invoice = Amount * PaidOf(dispositions'[i].sources)
            /\ dispositions'[i].sequence = K /\ dispositions'[i].closure = c
        BY <4>1, <4>2, <1>5
      <4>6. K + 1 \in DOMAIN closures'[c].events
        BY <4>4, <1>1, <1>14
      <4>7. closures'[c].events[K + 1] = [action |-> "SETTLE", disposition |-> i]
        BY <3>1, <1>1, <1>14
      <4> QED  BY <4>5, <4>6, <4>7
    <3>2. CASE i # L + 1
      <4>1. i \in 1..L /\ dispositions'[i] = dispositions[i]
        BY <3>2, <1>10
      <4>2. PICK n : n = dispositions[i].sequence + 1
        OBVIOUS
      <4>3. /\ dispositions[i].invoice = Amount * PaidOf(dispositions[i].sources)
            /\ n \in DOMAIN closures[c].events
            /\ closures[c].events[n] = [action |-> "SETTLE", disposition |-> i]
            /\ dispositions[i].closure = c
        BY <4>1, <4>2, <1>2, <1>7, <1>9, <1>10 DEF SettlementsAreRecorded
      <4>4. n \in DOMAIN closures'[c].events /\ closures'[c].events[n] = closures[c].events[n]
        BY <4>3, <1>8, <1>13
      <4> QED  BY <4>1, <4>2, <4>3, <4>4
    <3> QED  BY <3>1, <3>2
  <2> QED  BY <2>1, <1>10 DEF SettlementsAreRecorded
<1>23. InvoicesFollow'
  <2>1. r.award => r.invoice > 0
    BY <1>2, <1>5
  <2>2. IF r.award /\ JewelleryLeg \in r.done
        THEN ConsumeBenefit(Len(dispositions) + 1, r.approval) ELSE UNCHANGED invoices
    BY <1>1, <1>4, <1>5
  <2>3. UNCHANGED <<mode, contributions, decisions>>
    BY <1>2
  <2> QED  BY <2>1, <2>2, <2>3, <1>2, <1>4, <1>5, <1>6, <1>7, InvoicesFollowRow
<1> QED  BY <1>16, <1>17, <1>18, <1>19, <1>20, <1>21, <1>22, <1>23 DEF ClosingFacts

\* A proposal splits all principal.
LEMMA ProposeKeepsFacts ==
  ASSUME BenefitInv, ClosingFacts, DesksAreSound, NEW d \in Desks, ProposeInrSettlement(d)
  PROVE  ClosingFacts'
<1>1. PICK c, K, L, payable, invoice :
        /\ c = desk[d].evidence.closure /\ K = Len(closures[c].events) /\ L = Len(dispositions)
        /\ payable = desk[d].evidence.payable /\ invoice = PrincipalToInvoice(Principal, payable)
  OBVIOUS
<1>2. /\ desk[d].kind = "PROPOSE" /\ mode = "INR" /\ L < MaxDispositions
      /\ closures[c].status = "ACCEPTED" /\ ProofHolds(c) /\ SourcesSettled /\ Principal > 0
      /\ ClosureProof.award => payable > 0
      /\ RetainClosureAward(ClosureProof)
      /\ dispositions' = Append(dispositions, Proposal(c, payable, ClosureProof))
      /\ account' = "CLOSURE_PENDING" /\ account \in {"ACTIVE", "CLOSURE_PENDING"}
      /\ mode' = mode /\ eligible' = eligible /\ contributions' = contributions /\ closures' = closures
      /\ invoices' = invoices /\ decisions' = decisions
  BY <1>1 DEF ProposeInrSettlement, ProposalHolds, Open
<1>3. PICK r : r =
        [closure |-> c, sequence |-> K, basis |-> ClosureProof.basis, award |-> ClosureProof.award,
         sources |-> Sources, invoice |-> invoice, refunds |-> RefundLegs(invoice), done |-> {},
         completed |-> FALSE, retired |-> FALSE, resolved |-> 0, approval |-> ClosureProof.approval]
  OBVIOUS
<1>4. r = Proposal(c, payable, ClosureProof)
  BY <1>1, <1>3 DEF Proposal, Sequence
<1>5. /\ r.closure = c /\ r.sequence = K /\ r.basis = ClosureProof.basis /\ r.award = ClosureProof.award
      /\ r.sources = Sources /\ r.invoice = invoice /\ r.refunds = RefundLegs(invoice) /\ r.done = {}
      /\ r.completed = FALSE /\ r.retired = FALSE /\ r.resolved = 0 /\ r.approval = ClosureProof.approval
  BY <1>3
<1>6. RowJoins(r)
  BY <1>2, <1>4, AppendedJoins
<1>7. /\ HistoriesReplay /\ AccountFollows /\ DispositionsChain /\ LegsAreSound
      /\ PrincipalRests /\ SettlementsAreRecorded /\ InvoicesFollow /\ PaymentsAreSound
  BY DEF ClosingFacts
<1>8. c \in Requests /\ payable \in Nat
  BY <1>1, <1>2, InvoicesAssumption DEF DesksAreSound
<1>9. \A i \in DOMAIN dispositions : dispositions[i].retired /\ dispositions[i].closure = c
  BY <1>2, <1>7, ProofGives, ProofAwards
<1>10. /\ L \in Nat /\ DOMAIN dispositions = 1..L /\ DOMAIN dispositions' = 1..(L + 1)
       /\ dispositions'[L + 1] = r
       /\ \A i \in 1..L : dispositions'[i] = dispositions[i]
  BY <1>1, <1>6 DEF RowJoins
<1>11. /\ DispositionsGrow /\ dispositions' # <<>>
       /\ \A i \in DOMAIN dispositions : dispositions'[i].retired = dispositions[i].retired
  BY <1>6, JoiningGrows
<1>12. /\ PaymentsAreSound' /\ Rows' = Rows /\ Principal' = Principal /\ Sources' = Sources
       /\ Principal \in Nat /\ Paid \subseteq Rows
  BY <1>2, <1>7, PaymentsRest, PaidPlaces DEF Paid
<1>13. invoice \in Nat /\ invoice <= Principal /\ (payable > 0 => invoice > 0)
  BY <1>1, <1>2, <1>8, <1>12 DEF PrincipalToInvoice, Min2
<1>14. /\ DOMAIN RefundLegs(invoice) \subseteq Rows
       /\ \A j \in DOMAIN RefundLegs(invoice) : RefundLegs(invoice)[j] \in Nat \ {0}
       /\ invoice + SumFunction(RefundLegs(invoice)) = Principal
  BY <1>7, <1>12, <1>13, SplitIsWhole
<1>15. HistoriesReplay'
  BY <1>2, <1>7, <1>11, HistoriesKept
<1>16. AccountFollows'
  <2>1. \A e \in Requests : closures[e].status \notin {"SETTLED", "CANCELLED"}
    BY <1>2, <1>7 DEF AccountFollows
  <2> QED  BY <2>1, <1>2, <1>7 DEF AccountFollows, Requests
<1>17. DispositionsChain'
  <2>1. r.completed \in BOOLEAN /\ closures'[c].status = IF r.completed THEN "SETTLED" ELSE "ACCEPTED"
    BY <1>2, <1>5
  <2>2. Len(dispositions) < MaxDispositions /\ r.sequence = Len(closures[c].events)
    BY <1>1, <1>2, <1>5
  <2>3. closures[c] \in Closure
    BY <1>7, <1>8 DEF HistoriesReplay, Requests
  <2>4. /\ Len(closures[c].events) \in Nat /\ Len(closures'[c].events) \in Nat
        /\ Len(closures[c].events) <= Len(closures'[c].events)
    BY <2>3, <1>2 DEF Closure
  <2>5. Requests' = Requests
    BY <1>2 DEF Requests
  <2> QED  BY <2>1, <2>2, <2>4, <2>5, <1>5, <1>6, <1>7, <1>8, <1>9, ChainGrows
<1>18. LegsAreSound'
  <2>1. ASSUME NEW i \in 1..(L + 1)
        PROVE  /\ dispositions'[i].invoice \in Nat
               /\ DOMAIN dispositions'[i].refunds \subseteq Rows
               /\ \A j \in DOMAIN dispositions'[i].refunds : dispositions'[i].refunds[j] \in Nat \ {0}
               /\ dispositions'[i].done \subseteq
                    (IF dispositions'[i].invoice > 0 THEN {JewelleryLeg} ELSE {})
                      \cup DOMAIN dispositions'[i].refunds
    <3>1. CASE i = L + 1
      <4>1. dispositions'[i] = r
        BY <3>1, <1>10
      <4> QED  BY <4>1, <1>5, <1>13, <1>14
    <3>2. CASE i # L + 1
      <4>1. i \in 1..L /\ dispositions'[i] = dispositions[i]
        BY <3>2, <1>10
      <4> QED  BY <4>1, <1>7, <1>10 DEF LegsAreSound, Legs
    <3> QED  BY <3>1, <3>2
  <2> QED  BY <2>1, <1>10, <1>12 DEF LegsAreSound, Legs
<1>19. PrincipalRests'
  <2>1. \A j \in Rows : contributions[j].status # "PENDING"
    BY <1>2 DEF SourcesSettled
  <2>2. ASSUME NEW i \in 1..(L + 1)
        PROVE  /\ dispositions'[i].sources = Sources
               /\ dispositions'[i].invoice + SumFunction(dispositions'[i].refunds) = Principal
               /\ dispositions'[i].completed => Fulfilled(i)' = Principal
    <3>1. CASE i = L + 1
      <4>1. dispositions'[i] = r
        BY <3>1, <1>10
      <4> QED  BY <4>1, <1>5, <1>14
    <3>2. CASE i # L + 1
      <4>1. i \in 1..L /\ dispositions'[i] = dispositions[i]
        BY <3>2, <1>10
      <4>2. Fulfilled(i)' = Fulfilled(i)
        BY <4>1, FulfilledKept
      <4> QED  BY <4>1, <4>2, <1>2, <1>7, <1>10 DEF PrincipalRests
    <3> QED  BY <3>1, <3>2
  <2> QED  BY <2>1, <2>2, <1>2, <1>10, <1>12 DEF PrincipalRests
<1>20. SettlementsAreRecorded'
  BY <1>2 DEF SettlementsAreRecorded
<1>21. InvoicesFollow'
  <2>1. r.award => r.invoice > 0
    BY <1>2, <1>5, <1>13
  <2>2. IF r.award /\ JewelleryLeg \in r.done
        THEN ConsumeBenefit(Len(dispositions) + 1, r.approval) ELSE UNCHANGED invoices
    BY <1>2, <1>5
  <2>3. UNCHANGED <<mode, contributions, decisions>>
    BY <1>2
  <2> QED  BY <2>1, <2>2, <2>3, <1>2, <1>5, <1>6, <1>7, InvoicesFollowRow
<1> QED  BY <1>12, <1>15, <1>16, <1>17, <1>18, <1>19, <1>20, <1>21 DEF ClosingFacts

-----------------------------------------------------------------------------
(* The handovers of a proposal and its completion. *)

\* The updates of a row that move it on.
LEMMA FulfilmentIsOnly ==
  ASSUME BenefitInv, NEW i \in DOMAIN dispositions, NEW leg,
         dispositions' = [dispositions EXCEPT ![i].done = @ \cup {leg}]
  PROVE  RowBecomes(i, dispositions[i].done \cup {leg}, dispositions[i].completed,
                    dispositions[i].retired, dispositions[i].resolved)
<1>1. PICK r, D : r = dispositions[i] /\ D = r.done \cup {leg}
  OBVIOUS
<1>2. r = [f \in RowFields |-> r[f]]
  BY <1>1 DEF BenefitInv, TablesAreSound
<1>3. [r EXCEPT !.done = D]
        = [r EXCEPT !.done = D, !.completed = r.completed, !.retired = r.retired, !.resolved = r.resolved]
  BY <1>2 DEF RowFields
<1>4. PICK q : q = [r EXCEPT !.done = D]
  OBVIOUS
<1>5. dispositions' = [dispositions EXCEPT ![i] = q]
  BY <1>1, <1>4
<1>6. dispositions' = [dispositions EXCEPT ![i] =
        [@ EXCEPT !.done = D, !.completed = r.completed, !.retired = r.retired, !.resolved = r.resolved]]
  BY <1>1, <1>3, <1>4, <1>5
<1>7. RowBecomes(i, D, r.completed, r.retired, r.resolved)
  BY <1>6, RowChangesOnly
<1> QED  BY <1>1, <1>7

LEMMA CompletionIsOnly ==
  ASSUME BenefitInv, NEW i \in DOMAIN dispositions,
         dispositions' = [dispositions EXCEPT ![i].completed = TRUE]
  PROVE  RowBecomes(i, dispositions[i].done, TRUE, dispositions[i].retired, dispositions[i].resolved)
<1>1. PICK r : r = dispositions[i]
  OBVIOUS
<1>2. r = [f \in RowFields |-> r[f]]
  BY <1>1 DEF BenefitInv, TablesAreSound
<1>3. [r EXCEPT !.completed = TRUE]
        = [r EXCEPT !.done = r.done, !.completed = TRUE, !.retired = r.retired, !.resolved = r.resolved]
  BY <1>2 DEF RowFields
<1>4. PICK q : q = [r EXCEPT !.completed = TRUE]
  OBVIOUS
<1>5. dispositions' = [dispositions EXCEPT ![i] = q]
  BY <1>1, <1>4
<1>6. dispositions' = [dispositions EXCEPT ![i] =
        [@ EXCEPT !.done = r.done, !.completed = TRUE, !.retired = r.retired, !.resolved = r.resolved]]
  BY <1>1, <1>3, <1>4, <1>5
<1>7. RowBecomes(i, r.done, TRUE, r.retired, r.resolved)
  BY <1>6, RowChangesOnly
<1> QED  BY <1>1, <1>7

\* The chain stays one when a row moves on without being retired.
LEMMA ChainMoves ==
  ASSUME DispositionsChain, NEW i \in DOMAIN dispositions, NEW done, NEW completed \in BOOLEAN,
         RowBecomes(i, done, completed, dispositions[i].retired, dispositions[i].resolved),
         Requests' = Requests,
         \A e \in Requests :
           /\ Len(closures[e].events) \in Nat /\ Len(closures'[e].events) \in Nat
           /\ Len(closures[e].events) <= Len(closures'[e].events),
         \A j \in DOMAIN dispositions : ~dispositions[j].retired =>
           closures'[dispositions[j].closure].status =
             IF dispositions'[j].completed THEN "SETTLED" ELSE "ACCEPTED"
  PROVE  DispositionsChain'
<1>1. /\ Len(dispositions') = Len(dispositions) /\ DOMAIN dispositions' = DOMAIN dispositions
      /\ \A j \in DOMAIN dispositions :
           /\ dispositions'[j].closure = dispositions[j].closure
           /\ dispositions'[j].sequence = dispositions[j].sequence
           /\ dispositions'[j].retired = dispositions[j].retired
           /\ dispositions'[j].resolved = dispositions[j].resolved
  BY DEF RowBecomes
<1>2. \A j \in DOMAIN dispositions :
        dispositions'[j].completed = IF j = i THEN completed ELSE dispositions[j].completed
  BY DEF RowBecomes
<1>3. \A j \in DOMAIN dispositions : dispositions'[j].completed \in BOOLEAN
  BY <1>2 DEF DispositionsChain
<1>4. ASSUME NEW j \in DOMAIN dispositions
      PROVE  /\ dispositions[j].sequence <= Len(closures'[dispositions[j].closure].events)
             /\ dispositions[j].resolved <= Len(closures'[dispositions[j].closure].events)
  <2>1. PICK e, a, b, x, y :
          /\ e = dispositions[j].closure /\ x = dispositions[j].sequence /\ y = dispositions[j].resolved
          /\ a = Len(closures[e].events) /\ b = Len(closures'[e].events)
    OBVIOUS
  <2>2. e \in Requests /\ x \in Nat /\ y \in Nat /\ x <= a /\ y <= a
    BY <2>1 DEF DispositionsChain, Sequence
  <2>3. a \in Nat /\ b \in Nat /\ a <= b
    BY <2>1, <2>2
  <2>4. x <= b /\ y <= b
    BY <2>2, <2>3
  <2> QED  BY <2>1, <2>4
<1>5. \A j \in DOMAIN dispositions' : Sequence(dispositions[j].closure)' = Len(closures'[dispositions[j].closure].events)
  BY <1>1 DEF Sequence
<1>6. \A j \in DOMAIN dispositions' :
        /\ dispositions'[j].sequence <= Sequence(dispositions[j].closure)'
        /\ dispositions'[j].resolved <= Sequence(dispositions[j].closure)'
  BY <1>1, <1>4, <1>5
<1>7. \A j \in DOMAIN dispositions' :
        /\ dispositions'[j].closure \in Requests'
        /\ dispositions'[j].sequence \in Nat /\ dispositions'[j].resolved \in Nat
        /\ dispositions'[j].retired \in BOOLEAN
        /\ dispositions'[j].retired <=> dispositions'[j].resolved > 0
        /\ ~dispositions'[j].retired => closures'[dispositions'[j].closure].status =
             IF dispositions'[j].completed THEN "SETTLED" ELSE "ACCEPTED"
  <2> TAKE j \in DOMAIN dispositions'
  <2>1. /\ dispositions[j].closure \in Requests
        /\ dispositions[j].sequence \in Nat /\ dispositions[j].resolved \in Nat
        /\ dispositions[j].retired \in BOOLEAN
        /\ dispositions[j].retired <=> dispositions[j].resolved > 0
    BY <1>1 DEF DispositionsChain
  <2> QED  BY <2>1, <1>1
<1>8. ASSUME NEW j \in DOMAIN dispositions, j > 1
      PROVE  /\ dispositions'[j-1].retired /\ dispositions'[j-1].closure = dispositions'[j].closure
             /\ dispositions'[j-1].resolved <= dispositions'[j].sequence
  <2>1. /\ dispositions[j-1].retired /\ dispositions[j-1].closure = dispositions[j].closure
        /\ dispositions[j-1].resolved <= dispositions[j].sequence
    BY <1>8 DEF DispositionsChain
  <2>2. j - 1 \in DOMAIN dispositions
    BY <1>8 DEF RowBecomes
  <2> QED  BY <2>1, <2>2, <1>1
<1>9. Len(dispositions') <= MaxDispositions
  BY <1>1 DEF DispositionsChain
<1> QED  BY <1>1, <1>3, <1>6, <1>7, <1>8, <1>9 DEF DispositionsChain

\* A handover of a proposal, of jewellery or of a refund.
LEMMA FulfilKeepsFacts ==
  ASSUME BenefitInv, ClosingFacts, NEW i \in DOMAIN dispositions, NEW leg \in Legs(i),
         RecordInrFulfilment(i, leg)
  PROVE  ClosingFacts'
<1>1. /\ mode = "INR" /\ leg \notin dispositions[i].done
      /\ ~dispositions[i].retired /\ ~dispositions[i].completed
      /\ dispositions' = [dispositions EXCEPT ![i].done = @ \cup {leg}]
      /\ IF leg = JewelleryLeg /\ dispositions[i].award
         THEN ConsumeBenefit(i, dispositions[i].approval) ELSE UNCHANGED invoices
      /\ mode' = mode /\ account' = account /\ eligible' = eligible /\ contributions' = contributions
      /\ closures' = closures /\ award' = award /\ decisions' = decisions
  BY DEF RecordInrFulfilment, PendingProposal
<1>2. PICK D : D = dispositions[i].done \cup {leg}
  OBVIOUS
<1>3. RowBecomes(i, D, dispositions[i].completed, dispositions[i].retired, dispositions[i].resolved)
  BY <1>1, <1>2, FulfilmentIsOnly
<1>4. /\ HistoriesReplay /\ AccountFollows /\ DispositionsChain /\ LegsAreSound
      /\ PrincipalRests /\ SettlementsAreRecorded /\ InvoicesFollow /\ PaymentsAreSound
  BY DEF ClosingFacts
<1>5. /\ DOMAIN dispositions' = DOMAIN dispositions /\ Len(dispositions') = Len(dispositions)
      /\ dispositions'[i].done = D
      /\ \A j \in DOMAIN dispositions :
           /\ dispositions'[j].closure = dispositions[j].closure
           /\ dispositions'[j].sequence = dispositions[j].sequence
           /\ dispositions'[j].basis = dispositions[j].basis
           /\ dispositions'[j].award = dispositions[j].award
           /\ dispositions'[j].sources = dispositions[j].sources
           /\ dispositions'[j].invoice = dispositions[j].invoice
           /\ dispositions'[j].refunds = dispositions[j].refunds
           /\ dispositions'[j].approval = dispositions[j].approval
           /\ dispositions'[j].completed = dispositions[j].completed
           /\ dispositions'[j].retired = dispositions[j].retired
           /\ j # i => dispositions'[j].done = dispositions[j].done
  BY <1>3 DEF RowBecomes
<1>6. Len(dispositions) \in Nat /\ DOMAIN dispositions = 1..Len(dispositions)
  BY TableNumbers DEF BenefitInv, TablesAreSound
<1>7. HistoriesReplay'
  <2>1. DispositionsGrow
    BY <1>5 DEF DispositionsGrow
  <2> QED  BY <2>1, <1>1, <1>4, <1>5, HistoriesKept
<1>8. AccountFollows'
  <2>1. dispositions # <<>>
    OBVIOUS
  <2> QED  BY <2>1, <1>1, <1>4 DEF AccountFollows, AcceptedClosure, Requests
<1>9. DispositionsChain'
  <2>1. \A e \in Requests : Len(closures[e].events) \in Nat
    <3>1. \A e \in Requests : closures[e] \in Closure
      BY <1>4 DEF HistoriesReplay, Requests
    <3> QED  BY <3>1 DEF Closure
  <2>2. \A j \in DOMAIN dispositions : ~dispositions[j].retired =>
          closures'[dispositions[j].closure].status =
            IF dispositions'[j].completed THEN "SETTLED" ELSE "ACCEPTED"
    BY <1>1, <1>4, <1>5 DEF DispositionsChain
  <2>3. Requests' = Requests /\ dispositions[i].completed \in BOOLEAN
    BY <1>1, <1>4 DEF Requests, DispositionsChain
  <2>4. \A e \in Requests :
          /\ Len(closures[e].events) \in Nat /\ Len(closures'[e].events) \in Nat
          /\ Len(closures[e].events) <= Len(closures'[e].events)
    BY <2>1, <1>1
  <2> QED  BY <2>2, <2>3, <2>4, <1>3, <1>4, ChainMoves
<1>10. /\ PaymentsAreSound' /\ Rows' = Rows /\ Principal' = Principal /\ Sources' = Sources
  BY <1>1, <1>4, PaymentsRest
<1>11. LegsAreSound'
  <2>1. \A j \in DOMAIN dispositions : dispositions'[j].done \subseteq dispositions[j].done \cup Legs(j)
    BY <1>2, <1>5
  <2> QED  BY <2>1, <1>4, <1>5, <1>10, LegsKept
<1>12. PrincipalRests'
  <2>1. ASSUME NEW j \in DOMAIN dispositions
        PROVE  /\ Principal > 0 /\ dispositions'[j].sources = Sources
               /\ \A k \in Rows : contributions[k].status # "PENDING"
               /\ dispositions'[j].invoice + SumFunction(dispositions'[j].refunds) = Principal
               /\ dispositions'[j].completed => Fulfilled(j)' = Principal
    <3>1. /\ Principal > 0 /\ dispositions[j].sources = Sources
          /\ \A k \in Rows : contributions[k].status # "PENDING"
          /\ dispositions[j].invoice + SumFunction(dispositions[j].refunds) = Principal
          /\ dispositions[j].completed => Fulfilled(j) = Principal
      BY <1>1, <1>4 DEF PrincipalRests
    <3>2. dispositions'[j].completed => j # i
      BY <1>1, <1>5
    <3>3. j # i => Fulfilled(j)' = Fulfilled(j)
      BY <1>5, FulfilledKept
    <3> QED  BY <3>1, <3>2, <3>3, <1>5
  <2> QED  BY <2>1, <1>1, <1>5, <1>10 DEF PrincipalRests
<1>13. SettlementsAreRecorded'
  BY <1>1 DEF SettlementsAreRecorded
<1>14. \A j \in DOMAIN dispositions :
         /\ dispositions'[j].approval \in 0..Len(decisions)
         /\ dispositions'[j].award = award.recorded
         /\ dispositions'[j].award => dispositions'[j].basis = "NORMAL" /\ dispositions'[j].invoice > 0
         /\ mode = "INR" /\ dispositions'[j].award => award.sources = Sources
  BY <1>4, <1>5 DEF InvoicesFollow
<1>15. \A j \in DOMAIN dispositions :
         /\ (\E m \in DOMAIN invoices : invoices[m].disposition = j)
              <=> dispositions[j].award /\ JewelleryLeg \in dispositions[j].done
         /\ \A m \in DOMAIN invoices :
              invoices[m].disposition = j => invoices[m].reversed = dispositions[j].retired
  BY <1>4 DEF InvoicesFollow
<1>16. \A n \in DOMAIN decisions : decisions[n].invoice \in DOMAIN invoices
  BY <1>4 DEF InvoicesFollow
<1>17. award.recorded \in BOOLEAN
  BY <1>4 DEF InvoicesFollow
<1>18. CASE ~(leg = JewelleryLeg /\ dispositions[i].award)
  <2>1. invoices' = invoices
    BY <1>1, <1>18
  <2>2. ASSUME NEW j \in DOMAIN dispositions
        PROVE  dispositions'[j].award /\ JewelleryLeg \in dispositions'[j].done
                 <=> dispositions[j].award /\ JewelleryLeg \in dispositions[j].done
    <3>1. CASE j = i
      BY <3>1, <1>2, <1>5, <1>18
    <3>2. CASE j # i
      BY <3>2, <1>5
    <3> QED  BY <3>1, <3>2
  <2>3. ASSUME NEW j \in DOMAIN dispositions
        PROVE  /\ (\E m \in DOMAIN invoices : invoices[m].disposition = j)
                    <=> dispositions'[j].award /\ JewelleryLeg \in dispositions'[j].done
               /\ \A m \in DOMAIN invoices :
                    invoices[m].disposition = j => invoices[m].reversed = dispositions'[j].retired
    BY <2>2, <1>5, <1>15
  <2>4. InvoicesFollow'
    BY <2>1, <2>3, <1>1, <1>5, <1>10, <1>14, <1>16, <1>17 DEF InvoicesFollow
  <2> QED  BY <2>4, <1>7, <1>8, <1>9, <1>10, <1>11, <1>12, <1>13 DEF ClosingFacts
<1>19. CASE leg = JewelleryLeg /\ dispositions[i].award
  <2>1. PICK N, e : N = Len(invoices) /\ e = [disposition |-> i, approval |-> dispositions[i].approval, reversed |-> FALSE]
    OBVIOUS
  <2>2. invoices' = Append(invoices, e)
    BY <2>1, <1>1, <1>19 DEF ConsumeBenefit
  <2>3. IsTable(invoices)
    BY DEF BenefitInv, TablesAreSound
  <2>4. /\ N \in Nat /\ DOMAIN invoices = 1..N /\ DOMAIN invoices' = 1..(N + 1)
        /\ invoices'[N + 1] = e /\ \A m \in 1..N : invoices'[m] = invoices[m]
    BY <2>1, <2>2, <2>3, TableNumbers, TableGrows
  <2>5. e.disposition = i /\ e.reversed = FALSE
    BY <2>1
  <2>6. ~\E m \in DOMAIN invoices : invoices[m].disposition = i
    BY <1>1, <1>15, <1>19
  <2>7. dispositions[i].retired = FALSE
    BY <1>1, <1>4 DEF DispositionsChain
  <2>8. ASSUME NEW j \in DOMAIN dispositions
        PROVE  /\ (\E m \in DOMAIN invoices' : invoices'[m].disposition = j)
                    <=> dispositions'[j].award /\ JewelleryLeg \in dispositions'[j].done
               /\ \A m \in DOMAIN invoices' :
                    invoices'[m].disposition = j => invoices'[m].reversed = dispositions'[j].retired
    <3>1. CASE j = i
      <4>1. N + 1 \in DOMAIN invoices' /\ invoices'[N + 1].disposition = j /\ invoices'[N + 1].reversed = FALSE
        BY <3>1, <2>4, <2>5
      <4>2. \A m \in DOMAIN invoices' : invoices'[m].disposition = j => m = N + 1
        BY <3>1, <2>4, <2>6
      <4>3. dispositions'[j].award /\ JewelleryLeg \in dispositions'[j].done
        BY <3>1, <1>2, <1>5, <1>19
      <4>4. dispositions'[j].retired = FALSE
        BY <3>1, <2>7, <1>5
      <4> QED  BY <4>1, <4>2, <4>3, <4>4
    <3>2. CASE j # i
      <4>1. \A m \in DOMAIN invoices' :
              invoices'[m].disposition = j => m \in DOMAIN invoices /\ invoices'[m] = invoices[m]
        BY <3>2, <2>4, <2>5
      <4>2. \A m \in DOMAIN invoices : m \in DOMAIN invoices' /\ invoices'[m] = invoices[m]
        BY <2>4
      <4>3. /\ dispositions'[j].award = dispositions[j].award /\ dispositions'[j].done = dispositions[j].done
            /\ dispositions'[j].retired = dispositions[j].retired
        BY <3>2, <1>5
      <4> QED  BY <4>1, <4>2, <4>3, <1>15
    <3> QED  BY <3>1, <3>2
  <2>9. \A n \in DOMAIN decisions : decisions[n].invoice \in DOMAIN invoices'
    BY <2>4, <1>16
  <2>10. InvoicesFollow'
    BY <2>8, <2>9, <1>1, <1>5, <1>10, <1>14, <1>17 DEF InvoicesFollow
  <2> QED  BY <2>10, <1>7, <1>8, <1>9, <1>10, <1>11, <1>12, <1>13 DEF ClosingFacts
<1> QED  BY <1>18, <1>19

\* A completion, when nothing is outstanding.
LEMMA CompleteKeepsFacts ==
  ASSUME BenefitInv, ClosingFacts, NEW i \in DOMAIN dispositions, CompleteInrSettlement(i)
  PROVE  ClosingFacts'
<1>1. PICK c : c = dispositions[i].closure
  OBVIOUS
<1>2. /\ mode = "INR" /\ ~dispositions[i].retired /\ ~dispositions[i].completed
      /\ closures[c].status = "ACCEPTED" /\ Fulfilled(i) = Principal
      /\ dispositions' = [dispositions EXCEPT ![i].completed = TRUE]
      /\ AppendEvent(c, "SETTLE", "SETTLED", i)
      /\ account' = "REDEEMED"
      /\ mode' = mode /\ eligible' = eligible /\ contributions' = contributions
      /\ award' = award /\ invoices' = invoices /\ decisions' = decisions
  BY <1>1 DEF CompleteInrSettlement, PendingProposal, benefitVars
<1>3. RowBecomes(i, dispositions[i].done, TRUE, dispositions[i].retired, dispositions[i].resolved)
  BY <1>2, CompletionIsOnly
<1>4. /\ HistoriesReplay /\ AccountFollows /\ DispositionsChain /\ LegsAreSound
      /\ PrincipalRests /\ SettlementsAreRecorded /\ InvoicesFollow /\ PaymentsAreSound
  BY DEF ClosingFacts
<1>5. /\ DOMAIN dispositions' = DOMAIN dispositions /\ dispositions'[i].completed = TRUE
      /\ \A j \in DOMAIN dispositions :
           /\ dispositions'[j].basis = dispositions[j].basis
           /\ dispositions'[j].award = dispositions[j].award
           /\ dispositions'[j].sources = dispositions[j].sources
           /\ dispositions'[j].invoice = dispositions[j].invoice
           /\ dispositions'[j].refunds = dispositions[j].refunds
           /\ dispositions'[j].approval = dispositions[j].approval
           /\ dispositions'[j].done = dispositions[j].done
           /\ dispositions'[j].retired = dispositions[j].retired
           /\ j # i => dispositions'[j].completed = dispositions[j].completed
  BY <1>3 DEF RowBecomes
<1>6. /\ Len(dispositions) \in Nat /\ DOMAIN dispositions = 1..Len(dispositions)
      /\ \A j \in DOMAIN dispositions : j # i => dispositions[j].retired
  BY <1>2, <1>4, OnlyLastInForce
<1>7. c \in Requests /\ i \in Nat
  BY <1>1, <1>4, <1>6 DEF DispositionsChain
<1>8. /\ "SETTLED" = Advance(closures[c].status, "SETTLE") /\ "SETTLED" \in ClosureStatuses
      /\ "SETTLE" \in Actions /\ closures[c].status \in Live
  BY <1>2 DEF Advance, ClosureStatuses, Actions, Live
<1>9. /\ Requests' = Requests /\ closures'[c].status = "SETTLED"
      /\ \A e \in Requests \ {c} : closures'[e] = closures[e]
  BY <1>2, <1>4, <1>7, <1>8, EventMoves
<1>10. \A e \in Requests :
         /\ Len(closures[e].events) \in Nat /\ Len(closures'[e].events) \in Nat
         /\ Len(closures[e].events) <= Len(closures'[e].events)
  BY <1>2, <1>4, <1>7, <1>8, EventMoves
<1>11. HistoriesReplay'
  <2>1. DispositionsGrow
    <3>1. \A j \in DOMAIN dispositions : dispositions[j].completed => dispositions'[j].completed
      BY <1>5
    <3> QED  BY <3>1, <1>5 DEF DispositionsGrow
  <2>2. i \in DOMAIN dispositions' /\ dispositions'[i].completed /\ ~dispositions'[i].retired
    BY <1>2, <1>5
  <2> QED  BY <2>1, <2>2, <1>2, <1>4, <1>7, <1>8, EventKeepsHistories
<1>12. AccountFollows'
  <2>1. \A e \in Requests \ {c} : closures[e].status \notin Live
    BY <1>4, <1>7, <1>8 DEF AccountFollows
  <2>2. \A e, f \in Requests' : closures'[e].status \in Live /\ closures'[f].status \in Live => e = f
    BY <2>1, <1>9
  <2>3. \A e \in Requests' : closures'[e].status # "CANCELLED"
    BY <2>1, <1>9 DEF Live
  <2> QED  BY <2>2, <2>3, <1>2, <1>4, <1>7, <1>9 DEF AccountFollows
<1>13. DispositionsChain'
  <2>1. \A j \in DOMAIN dispositions : ~dispositions[j].retired =>
          closures'[dispositions[j].closure].status =
            IF dispositions'[j].completed THEN "SETTLED" ELSE "ACCEPTED"
    <3> TAKE j \in DOMAIN dispositions
    <3> HAVE ~dispositions[j].retired
    <3>1. j = i
      BY <1>6
    <3> QED  BY <3>1, <1>1, <1>5, <1>9
  <2> QED  BY <2>1, <1>3, <1>4, <1>9, <1>10, ChainMoves
<1>14. /\ PaymentsAreSound' /\ Rows' = Rows /\ Principal' = Principal /\ Sources' = Sources
  BY <1>2, <1>4, PaymentsRest
<1>15. LegsAreSound'
  BY <1>4, <1>5, <1>14, LegsKept
<1>16. PrincipalRests'
  <2>1. ASSUME NEW j \in DOMAIN dispositions
        PROVE  /\ Principal > 0 /\ dispositions'[j].sources = Sources
               /\ \A k \in Rows : contributions[k].status # "PENDING"
               /\ dispositions'[j].invoice + SumFunction(dispositions'[j].refunds) = Principal
               /\ dispositions'[j].completed => Fulfilled(j)' = Principal
    <3>1. /\ Principal > 0 /\ dispositions[j].sources = Sources
          /\ \A k \in Rows : contributions[k].status # "PENDING"
          /\ dispositions[j].invoice + SumFunction(dispositions[j].refunds) = Principal
          /\ dispositions[j].completed => Fulfilled(j) = Principal
      BY <1>2, <1>4 DEF PrincipalRests
    <3>2. dispositions'[j].completed => Fulfilled(j) = Principal
      BY <3>1, <1>2, <1>5
    <3>3. Fulfilled(j)' = Fulfilled(j)
      BY <1>5, FulfilledKept
    <3> QED  BY <3>1, <3>2, <3>3, <1>5
  <2> QED  BY <2>1, <1>2, <1>5, <1>14 DEF PrincipalRests
<1>17. SettlementsAreRecorded'
  BY <1>2 DEF SettlementsAreRecorded
<1>18. InvoicesFollow'
  BY <1>2, <1>4, <1>5, <1>14 DEF InvoicesFollow
<1> QED  BY <1>11, <1>12, <1>13, <1>14, <1>15, <1>16, <1>17, <1>18 DEF ClosingFacts

-----------------------------------------------------------------------------
(* The inductive invariant of the closing. *)

\* Every step keeps what the tables say together.
LEMMA NextClosingFacts == ClosingInv /\ [Next]_vars => ClosingFacts'
<1> SUFFICES ASSUME ClosingInv, [Next]_vars  PROVE ClosingFacts'
  OBVIOUS
<1>1. BenefitInv /\ ClosingFacts /\ DesksAreSound /\ eligible \in BOOLEAN
  BY DEF ClosingInv, ClosingFacts, AccountFollows
<1>2. CASE UNCHANGED vars
  <2>1. UNCHANGED <<mode, account, eligible, contributions, closures, dispositions, award, invoices, decisions>>
    BY <1>2 DEF vars, settlementVars, closureVars, benefitVars
  <2> QED  BY <1>1, <2>1, FactsKept
<1>3. CASE ClosureStep
  BY <1>1, <1>3, ClosuresKeepFacts
<1>4. CASE BenefitNext
  BY <1>1, <1>4, BenefitsKeepFacts
<1>5. CASE ConfiguredNext
  <2>1. CASE \E d \in Desks : SettleConfiguredAgreement(d)
    BY <1>1, <2>1, SettleKeepsFacts
  <2>2. CASE \E d \in Desks, i \in DOMAIN dispositions : ReverseConfiguredSettlement(d, i)
    BY <1>1, <2>2, ReverseKeepsFacts
  <2>3. CASE \E d \in Desks, c \in Requests : PreviewFullSettlement(d, c)
    <3>1. UNCHANGED <<mode, account, eligible, contributions, closures, dispositions, award, invoices, decisions>>
      BY <2>3 DEF PreviewFullSettlement, benefitVars
    <3> QED  BY <1>1, <3>1, FactsKept
  <2> QED  BY <2>1, <2>2, <2>3, <1>5 DEF ConfiguredNext
<1>6. CASE InrNext
  <2>1. CASE \E d \in Desks : ProposeInrSettlement(d)
    BY <1>1, <2>1, ProposeKeepsFacts
  <2>2. CASE \E d \in Desks : ResolveInrSettlement(d)
    BY <1>1, <2>2, ResolveKeepsFacts
  <2>3. CASE \E i \in DOMAIN dispositions : CompleteInrSettlement(i)
    BY <1>1, <2>3, CompleteKeepsFacts
  <2>4. CASE \E i \in DOMAIN dispositions : \E leg \in Legs(i) : RecordInrFulfilment(i, leg)
    BY <1>1, <2>4, FulfilKeepsFacts
  <2>5. CASE \E d \in Desks :
               \/ \E c \in Requests, payable \in Invoices : PreviewInrSettlement(d, c, payable)
               \/ \E i \in DOMAIN dispositions : PreviewInrResolution(d, i)
    <3>1. UNCHANGED <<mode, account, eligible, contributions, closures, dispositions, award, invoices, decisions>>
      BY <2>5 DEF PreviewInrSettlement, PreviewInrResolution, benefitVars
    <3> QED  BY <1>1, <3>1, FactsKept
  <2> QED  BY <2>1, <2>2, <2>3, <2>4, <2>5, <1>6 DEF InrNext
<1> QED  BY <1>2, <1>3, <1>4, <1>5, <1>6 DEF Next

\* Requests and dispositions are never deleted.
LEMMA TablesGrow ==
  ClosingInv /\ [Next]_vars =>
    Requests \subseteq Requests' /\ DOMAIN dispositions \subseteq DOMAIN dispositions'
<1> SUFFICES ASSUME ClosingInv, [Next]_vars
             PROVE  /\ DOMAIN closures \subseteq DOMAIN closures'
                    /\ DOMAIN dispositions \subseteq DOMAIN dispositions'
  BY DEF Requests
<1>1. BenefitInv /\ closures \in Seq(Closure)
  BY DEF ClosingInv, ClosingFacts, HistoriesReplay
<1>2. ASSUME NEW c, NEW action, NEW status, NEW n, AppendEvent(c, action, status, n)
      PROVE  DOMAIN closures \subseteq DOMAIN closures'
  BY <1>2 DEF AppendEvent
<1>3. ASSUME NEW r, dispositions' = Append(dispositions, r)
      PROVE  DOMAIN dispositions \subseteq DOMAIN dispositions'
  BY <1>1, <1>3, AppendedJoins, JoiningGrows DEF DispositionsGrow
<1>4. CASE UNCHANGED <<closures, dispositions>>
  BY <1>4
<1>5. CASE ClosureStep
  <2>1. dispositions' = dispositions
    BY <1>5 DEF ClosureStep, ClosureNext, StartCheckout, RecordCash, DurationPasses,
          RequestSchemeClosure, Capture, RetireOrder, CorrectCash, LoadClosure,
          CancelUnusedAgreement, ReviewSchemeClosure
  <2>2. CASE RequestSchemeClosure
    <3>1. PICK r : closures' = Append(closures, r)
      BY <2>2 DEF RequestSchemeClosure
    <3>2. DOMAIN closures \subseteq DOMAIN closures'
      BY <1>1, <3>1
    <3> QED  BY <2>1, <3>2
  <2>3. CASE \E d \in Desks, c \in Requests :
               \/ CancelUnusedAgreement(d, c)
               \/ \E action \in {"NOTE", "ACCEPT", "WITHDRAW", "REJECT"} : ReviewSchemeClosure(d, c, action)
    BY <1>2, <2>1, <2>3 DEF CancelUnusedAgreement, ReviewSchemeClosure
  <2>4. CASE \/ StartCheckout \/ RecordCash \/ DurationPasses
             \/ \E i \in Rows : Capture(i) \/ RetireOrder(i) \/ CorrectCash(i)
             \/ \E d \in Desks, c \in Requests : LoadClosure(d, c)
    BY <2>1, <2>4 DEF StartCheckout, RecordCash, DurationPasses, Capture, RetireOrder, CorrectCash, LoadClosure
  <2> QED  BY <1>5, <2>2, <2>3, <2>4 DEF ClosureStep, ClosureNext
<1>6. CASE BenefitNext
  <2>1. UNCHANGED <<closures, dispositions>>
    BY <1>6 DEF BenefitNext, PreviewBenefitAward, RecordBenefitAward, RecordReapplication,
          PreviewReapplication, closureVars
  <2> QED  BY <2>1
<1>7. CASE ConfiguredNext
  <2>1. ASSUME NEW d \in Desks, SettleConfiguredAgreement(d)
        PROVE  /\ DOMAIN closures \subseteq DOMAIN closures'
               /\ DOMAIN dispositions \subseteq DOMAIN dispositions'
    <3>1. PICK c, p : Settle(c, p)
      BY <2>1 DEF SettleConfiguredAgreement
    <3> QED  BY <1>2, <1>3, <3>1 DEF Settle
  <2>2. ASSUME NEW d \in Desks, NEW i \in DOMAIN dispositions, ReverseConfiguredSettlement(d, i)
        PROVE  /\ DOMAIN closures \subseteq DOMAIN closures'
               /\ DOMAIN dispositions \subseteq DOMAIN dispositions'
    BY <1>2, <2>2 DEF ReverseConfiguredSettlement
  <2>3. CASE \E d \in Desks, c \in Requests : PreviewFullSettlement(d, c)
    BY <2>3 DEF PreviewFullSettlement
  <2> QED  BY <2>1, <2>2, <2>3, <1>7 DEF ConfiguredNext
<1>8. CASE InrNext
  <2>1. CASE \E d \in Desks : ProposeInrSettlement(d)
    BY <1>3, <2>1 DEF ProposeInrSettlement
  <2>2. CASE \E d \in Desks : ResolveInrSettlement(d)
    BY <1>2, <2>2 DEF ResolveInrSettlement
  <2>3. CASE \E i \in DOMAIN dispositions : CompleteInrSettlement(i)
    BY <1>2, <2>3 DEF CompleteInrSettlement
  <2>4. CASE \E i \in DOMAIN dispositions : \E leg \in Legs(i) : RecordInrFulfilment(i, leg)
    BY <2>4 DEF RecordInrFulfilment
  <2>5. CASE \E d \in Desks :
               \/ \E c \in Requests, payable \in Invoices : PreviewInrSettlement(d, c, payable)
               \/ \E i \in DOMAIN dispositions : PreviewInrResolution(d, i)
    BY <2>5 DEF PreviewInrSettlement, PreviewInrResolution
  <2> QED  BY <2>1, <2>2, <2>3, <2>4, <2>5, <1>8 DEF InrNext
<1>9. CASE UNCHANGED vars
  BY <1>9 DEF vars, settlementVars, closureVars
<1> QED  BY <1>5, <1>6, <1>7, <1>8, <1>9 DEF Next

\* What one session may hold.
Loaded(p) ==
  /\ p.kind \in {"PROPOSE", "SETTLE"} => p.evidence.closure \in Requests
  /\ p.kind = "PROPOSE" => p.evidence.payable \in Invoices
  /\ p.kind = "RESOLVE" => p.evidence.proposal \in DOMAIN dispositions

\* A session loads what exists, and it stays.
LEMMA NextDesks == ClosingInv /\ [Next]_vars => DesksAreSound'
<1> SUFFICES ASSUME ClosingInv, [Next]_vars  PROVE DesksAreSound'
  OBVIOUS
<1>1. DOMAIN desk = Desks /\ \A d \in Desks : Loaded(desk[d])
  BY DEF ClosingInv, DesksAreSound, Loaded
<1>2. Requests \subseteq Requests' /\ DOMAIN dispositions \subseteq DOMAIN dispositions'
  BY TablesGrow
<1>3. CASE UNCHANGED desk
  BY <1>1, <1>2, <1>3 DEF DesksAreSound, Loaded
<1>4. ASSUME NEW d \in Desks, NEW p, desk' = [desk EXCEPT ![d] = p], Loaded(p)
      PROVE  DesksAreSound'
  <2>1. DOMAIN desk' = Desks /\ \A e \in Desks : Loaded(desk'[e])
    BY <1>1, <1>4
  <2> QED  BY <2>1, <1>2 DEF DesksAreSound, Loaded
<1>5. CASE ClosureStep
  <2>1. ASSUME NEW d \in Desks, NEW c \in Requests, LoadClosure(d, c)  PROVE DesksAreSound'
    <3>1. PICK p : p = [kind |-> "CLOSURE", closure |-> c, sequence |-> Sequence(c)]
      OBVIOUS
    <3>2. Loaded(p)
      BY <3>1 DEF Loaded
    <3> QED  BY <1>4, <2>1, <3>1, <3>2 DEF LoadClosure
  <2>2. CASE ~\E d \in Desks, c \in Requests : LoadClosure(d, c)
    <3>1. UNCHANGED desk
      BY <1>5, <2>2 DEF ClosureStep, ClosureNext, StartCheckout, RecordCash, DurationPasses,
            RequestSchemeClosure, Capture, RetireOrder, CorrectCash, CancelUnusedAgreement,
            ReviewSchemeClosure
    <3> QED  BY <1>3, <3>1
  <2> QED  BY <2>1, <2>2
<1>6. CASE BenefitNext
  <2>1. ASSUME NEW d \in Desks, PreviewBenefitAward(d)  PROVE DesksAreSound'
    <3>1. PICK p : p = [kind |-> "AWARD", sources |-> Sources]
      OBVIOUS
    <3>2. Loaded(p)
      BY <3>1 DEF Loaded
    <3> QED  BY <1>4, <2>1, <3>1, <3>2 DEF PreviewBenefitAward
  <2>2. ASSUME NEW d \in Desks, NEW outcome, PreviewReapplication(d, outcome)  PROVE DesksAreSound'
    <3>1. PICK p : p = [kind |-> "REVIEW", outcome |-> outcome, basis |-> ReturnBasis,
                        previous |-> LatestDecision(Len(invoices))]
      OBVIOUS
    <3>2. Loaded(p)
      BY <3>1 DEF Loaded
    <3> QED  BY <1>4, <2>2, <3>1, <3>2 DEF PreviewReapplication
  <2>3. CASE \E d \in Desks : RecordBenefitAward(d) \/ RecordReapplication(d)
    BY <1>3, <2>3 DEF RecordBenefitAward, RecordReapplication, closureVars
  <2> QED  BY <1>6, <2>1, <2>2, <2>3 DEF BenefitNext
<1>7. CASE ConfiguredNext
  <2>1. ASSUME NEW d \in Desks, NEW c \in Requests, PreviewFullSettlement(d, c)  PROVE DesksAreSound'
    <3>1. PICK p : p = [kind |-> "SETTLE", evidence |-> FullSettlementEvidence(c)]
      OBVIOUS
    <3>2. p.kind = "SETTLE" /\ p.evidence = FullSettlementEvidence(c)
      BY <3>1
    <3>3. Loaded(p)
      BY <3>2 DEF Loaded, FullSettlementEvidence
    <3> QED  BY <1>4, <2>1, <3>1, <3>3 DEF PreviewFullSettlement
  <2>2. CASE \E d \in Desks : SettleConfiguredAgreement(d)
                              \/ \E i \in DOMAIN dispositions : ReverseConfiguredSettlement(d, i)
    BY <1>3, <2>2 DEF SettleConfiguredAgreement, ReverseConfiguredSettlement
  <2> QED  BY <1>7, <2>1, <2>2 DEF ConfiguredNext
<1>8. CASE InrNext
  <2>1. ASSUME NEW d \in Desks, NEW c \in Requests, NEW payable \in Invoices,
               PreviewInrSettlement(d, c, payable)
        PROVE  DesksAreSound'
    <3>1. PICK p : p = [kind |-> "PROPOSE", evidence |-> ProposalEvidence(c, payable)]
      OBVIOUS
    <3>2. p.kind = "PROPOSE" /\ p.evidence = ProposalEvidence(c, payable)
      BY <3>1
    <3>3. Loaded(p)
      BY <3>2 DEF Loaded, ProposalEvidence
    <3> QED  BY <1>4, <2>1, <3>1, <3>3 DEF PreviewInrSettlement
  <2>2. ASSUME NEW d \in Desks, NEW i \in DOMAIN dispositions, PreviewInrResolution(d, i)
        PROVE  DesksAreSound'
    <3>1. PICK p : p = [kind |-> "RESOLVE", evidence |-> ResolutionEvidence(i)]
      OBVIOUS
    <3>2. p.kind = "RESOLVE" /\ p.evidence = ResolutionEvidence(i)
      BY <3>1
    <3>3. Loaded(p)
      BY <3>2 DEF Loaded, ResolutionEvidence
    <3> QED  BY <1>4, <2>2, <3>1, <3>3 DEF PreviewInrResolution
  <2>3. CASE \/ \E d \in Desks : ProposeInrSettlement(d) \/ ResolveInrSettlement(d)
             \/ \E i \in DOMAIN dispositions :
                  \/ CompleteInrSettlement(i)
                  \/ \E leg \in Legs(i) : RecordInrFulfilment(i, leg)
    BY <1>3, <2>3 DEF ProposeInrSettlement, ResolveInrSettlement, CompleteInrSettlement, RecordInrFulfilment
  <2> QED  BY <1>8, <2>1, <2>2, <2>3 DEF InrNext
<1>9. CASE UNCHANGED vars
  BY <1>3, <1>9 DEF vars, settlementVars, closureVars
<1> QED  BY <1>5, <1>6, <1>7, <1>8, <1>9 DEF Next

LEMMA NextClosing == ClosingInv /\ [Next]_vars => ClosingInv'
  BY NextBenefitInv, NextClosingFacts, NextDesks DEF ClosingInv

\* The invariant holds of every state.
LEMMA ClosingIsSound == Spec => []ClosingInv
  BY InitClosing, NextClosing, PTL DEF Spec

-----------------------------------------------------------------------------
(* What the handlers check holds of every state. *)

LEMMA TypesHold == ClosingInv => TypeOK
<1> SUFFICES ASSUME ClosingInv  PROVE TypeOK
  OBVIOUS
<1>1. /\ TablesAreSound /\ PaymentsAreSound /\ HistoriesReplay /\ AccountFollows
      /\ DispositionsChain /\ LegsAreSound /\ InvoicesFollow
  BY DEF ClosingInv, BenefitInv, ClosingFacts
<1>2. \A i \in Rows : contributions[i] \in
        [channel : Channels, status : Statuses, verified : 0..MaxContributions]
  <2>1. contributions \in Seq(Contribution) /\ Len(contributions) <= MaxContributions
    BY <1>1 DEF PaymentsAreSound
  <2>2. /\ Rows = 1..Len(contributions) /\ Len(contributions) \in Nat
        /\ \A i \in Rows : contributions[i] \in Contribution
    BY <2>1 DEF Rows
  <2>3. Cardinality(Verified) <= Len(contributions) /\ Cardinality(Verified) \in Nat
    BY <1>1, PaidPlaces
  <2>4. Cardinality(Verified) <= MaxContributions /\ MaxContributions \in Nat
    BY <2>1, <2>2, <2>3, ClosuresAssumption
  <2>5. ASSUME NEW i \in Rows
        PROVE  contributions[i] \in [channel : Channels, status : Statuses, verified : 0..MaxContributions]
    <3>1. PICK r : r = contributions[i]
      OBVIOUS
    <3>2. r \in Contribution /\ r.verified <= Cardinality(Verified)
      BY <1>1, <2>2, <3>1 DEF PaymentsAreSound
    <3>3. r.verified \in 0..MaxContributions
      BY <3>2, <2>3, <2>4 DEF Contribution
    <3> QED  BY <3>1, <3>2, <3>3 DEF Contribution
  <2> QED  BY <2>5
<1>3. \A c \in Requests : closures[c].status \in
        {"PENDING", "ACCEPTED", "WITHDRAWN", "REJECTED", "CANCELLED", "SETTLED"}
  <2>1. closures \in Seq(Closure)
    BY <1>1 DEF HistoriesReplay
  <2>2. \A c \in Requests : closures[c] \in Closure
    BY <2>1 DEF Requests
  <2> QED  BY <2>2 DEF Closure, ClosureStatuses
<1>4. \A i \in DOMAIN dispositions :
        /\ dispositions[i].closure \in Requests /\ dispositions[i].done \subseteq Legs(i)
        /\ dispositions[i].approval \in 0..Len(decisions)
  BY <1>1 DEF DispositionsChain, LegsAreSound, InvoicesFollow
<1>5. \A m \in DOMAIN invoices :
        invoices[m].disposition \in DOMAIN dispositions /\ invoices[m].approval \in 0..Len(decisions)
  BY <1>1 DEF TablesAreSound
<1>6. /\ mode \in {"METAL", "INR"} /\ eligible \in BOOLEAN
      /\ account \in {"ACTIVE", "CLOSURE_PENDING", "REDEEMED", "CANCELLED"}
      /\ Len(dispositions) <= MaxDispositions
      /\ \A n \in DOMAIN decisions : decisions[n].invoice \in DOMAIN invoices
  BY <1>1 DEF AccountFollows, DispositionsChain, InvoicesFollow
<1> QED  BY <1>2, <1>3, <1>4, <1>5, <1>6 DEF TypeOK

LEMMA RequestsValidate == ClosingInv => \A c \in Requests : ClosureHistoryIsValid(c)
<1> SUFFICES ASSUME ClosingInv, NEW c \in Requests  PROVE ClosureHistoryIsValid(c)
  OBVIOUS
<1>1. HistoriesReplay /\ AccountFollows
  BY DEF ClosingInv, ClosingFacts
<1>2. HistoryReplays(c)
  BY <1>1 DEF HistoriesReplay
<1>3. closures[c].status = "SETTLED" => account = "REDEEMED" /\ ~dispositions[Settlement(c)].retired
  BY <1>1, <1>2 DEF AccountFollows, HistoryReplays
<1>4. ASSUME closures[c].status = "ACCEPTED", Settlement(c) # 0  PROVE account = "CLOSURE_PENDING"
  <2>1. Happened(c, "SETTLE")
    BY <1>4 DEF Settlement, Happened
  <2>2. Settlement(c) \in DOMAIN dispositions
    BY <1>1, <2>1, SettlementStands
  <2>3. dispositions # <<>>
    BY <2>2
  <2>4. account # "REDEEMED"
    BY <1>1, <1>4 DEF AccountFollows, Live
  <2> QED  BY <1>1, <2>3, <2>4 DEF AccountFollows
<1>5. closures[c].status = "CANCELLED" => account = "CANCELLED" /\ UnusedAgreement
  BY <1>1 DEF AccountFollows, UnusedAgreement
<1>6. \A n \in DOMAIN closures[c].events :
        /\ closures[c].events[n].action = "SETTLE" => dispositions[closures[c].events[n].disposition].completed
        /\ closures[c].events[n].action = "REVERSE" => dispositions[closures[c].events[n].disposition].retired
  BY <1>2 DEF HistoryReplays, EventStands
<1>7. Replay(closures[c].events) = closures[c].status
  BY <1>2 DEF HistoryReplays
<1> QED  BY <1>3, <1>4, <1>5, <1>6, <1>7 DEF ClosureHistoryIsValid

LEMMA DispositionsValidate ==
  ClosingInv =>
    /\ mode = "INR" => InrHistoryIsValid /\ \A i \in DOMAIN dispositions : InrBenefitIsValid(i)
    /\ mode = "METAL" => \A i \in DOMAIN dispositions : ConfiguredSettlementIsValid(i)
<1> SUFFICES ASSUME ClosingInv
             PROVE  /\ mode = "INR" => InrHistoryIsValid /\ \A i \in DOMAIN dispositions : InrBenefitIsValid(i)
                    /\ mode = "METAL" => \A i \in DOMAIN dispositions : ConfiguredSettlementIsValid(i)
  OBVIOUS
<1>1. /\ BenefitInv /\ DispositionsChain /\ PrincipalRests /\ SettlementsAreRecorded /\ InvoicesFollow
  BY DEF ClosingInv, ClosingFacts
<1>2. IsTable(dispositions)
  BY <1>1 DEF BenefitInv, TablesAreSound
<1>3. Len(dispositions) \in Nat /\ DOMAIN dispositions = 1..Len(dispositions)
  BY <1>2, TableNumbers
<1>4. ASSUME mode = "INR"  PROVE InrHistoryIsValid
  <2>1. ASSUME NEW i \in DOMAIN dispositions
        PROVE  /\ dispositions[i].sources = Sources
               /\ dispositions[i].retired <=> dispositions[i].resolved > 0
               /\ dispositions[i].completed => Fulfilled(i) = Principal
    BY <1>1, <1>4 DEF PrincipalRests, DispositionsChain
  <2>2. ASSUME NEW i \in DOMAIN dispositions, i > 1
        PROVE  /\ dispositions[i-1].retired
               /\ dispositions[i].closure = dispositions[i-1].closure
               /\ dispositions[i].sequence >= dispositions[i-1].resolved
    <3>1. i - 1 \in DOMAIN dispositions
      BY <1>3, <2>2
    <3>2. dispositions[i].sequence \in Nat /\ dispositions[i-1].resolved \in Nat
      BY <1>1, <3>1 DEF DispositionsChain
    <3>3. /\ dispositions[i-1].retired /\ dispositions[i-1].closure = dispositions[i].closure
          /\ dispositions[i-1].resolved <= dispositions[i].sequence
      BY <1>1, <2>2 DEF DispositionsChain
    <3> QED  BY <3>2, <3>3
  <2> QED  BY <2>1, <2>2 DEF InrHistoryIsValid
<1>5. ASSUME mode = "INR", NEW i \in DOMAIN dispositions  PROVE InrBenefitIsValid(i)
  <2>1. /\ dispositions[i].award = award.recorded /\ award.recorded \in BOOLEAN
        /\ dispositions[i].award => dispositions[i].basis = "NORMAL" /\ dispositions[i].invoice > 0
        /\ dispositions[i].award => award.sources = Sources
        /\ (\E m \in DOMAIN invoices : invoices[m].disposition = i)
             <=> dispositions[i].award /\ JewelleryLeg \in dispositions[i].done
        /\ \A m \in DOMAIN invoices : invoices[m].disposition = i => invoices[m].reversed = dispositions[i].retired
    BY <1>1, <1>5 DEF InvoicesFollow
  <2>2. award.recorded => UnchangedAwardSources
    BY <1>1, <1>5, <2>1 DEF PrincipalRests, UnchangedAwardSources
  <2>3. ASSUME NEW m \in DOMAIN invoices, invoices[m].disposition < i  PROVE invoices[m].reversed
    <3>1. PICK j : j = invoices[m].disposition
      OBVIOUS
    <3>2. j \in DOMAIN dispositions
      BY <1>1, <3>1 DEF BenefitInv, TablesAreSound
    <3>3. j + 1 \in DOMAIN dispositions /\ j + 1 > 1 /\ (j + 1) - 1 = j
      BY <1>3, <2>3, <3>1, <3>2
    <3>4. dispositions[(j + 1) - 1].retired
      BY <1>1, <3>3 DEF DispositionsChain
    <3>5. dispositions[j].retired = TRUE
      BY <1>1, <3>2, <3>3, <3>4 DEF DispositionsChain
    <3>6. invoices[m].reversed = dispositions[j].retired
      BY <1>1, <3>1, <3>2 DEF InvoicesFollow
    <3> QED  BY <3>5, <3>6
  <2> QED  BY <2>1, <2>2, <2>3 DEF InrBenefitIsValid
<1>6. ASSUME mode = "METAL", NEW i \in DOMAIN dispositions  PROVE ConfiguredSettlementIsValid(i)
  <2>1. /\ dispositions[i].invoice = Amount * PaidOf(dispositions[i].sources)
        /\ dispositions[i].sequence + 1 \in DOMAIN closures[dispositions[i].closure].events
        /\ closures[dispositions[i].closure].events[dispositions[i].sequence + 1]
             = [action |-> "SETTLE", disposition |-> i]
    BY <1>1, <1>6 DEF SettlementsAreRecorded
  <2>2. dispositions[i].done = {JewelleryLeg}
    BY <1>1, <1>6 DEF PrincipalRests
  <2>3. /\ dispositions[i].award = award.recorded /\ award.recorded \in BOOLEAN
        /\ (\E m \in DOMAIN invoices : invoices[m].disposition = i)
             <=> dispositions[i].award /\ JewelleryLeg \in dispositions[i].done
        /\ \A m \in DOMAIN invoices : invoices[m].disposition = i => invoices[m].reversed = dispositions[i].retired
    BY <1>1 DEF InvoicesFollow
  <2>4. dispositions[i].award <=> \E m \in DOMAIN invoices : invoices[m].disposition = i
    BY <2>2, <2>3
  <2>5. \E n \in DOMAIN closures[dispositions[i].closure].events :
          /\ closures[dispositions[i].closure].events[n] = [action |-> "SETTLE", disposition |-> i]
          /\ n = dispositions[i].sequence + 1
    BY <2>1
  <2>6. dispositions[i].invoice = Amount *
          Cardinality({j \in DOMAIN dispositions[i].sources : dispositions[i].sources[j].status = "PAID"})
    BY <2>1 DEF PaidOf
  <2> QED  BY <2>3, <2>4, <2>5, <2>6 DEF ConfiguredSettlementIsValid
<1> QED  BY <1>4, <1>5, <1>6

\* Whatever the sessions do, in any order and on whatever they loaded, the
\* retained history of requests, dispositions, benefits and invoices is one
\* that every handler accepts: no agreement is ever stuck behind a history it
\* refuses to go on with.
THEOREM HistoriesAlwaysValidate == Spec => []HistoriesValidate
<1>1. ClosingInv => HistoriesValidate
  BY TypesHold, RequestsValidate, DispositionsValidate DEF HistoriesValidate
<1> QED  BY <1>1, ClosingIsSound, PTL

-----------------------------------------------------------------------------
(* The refunds of a capture. *)

\* What the dispositions D have refunded of one row.
RefundOf(D, i) == SumFunction([n \in {k \in DOMAIN D : i \in D[k].done} |-> D[n].refunds[i]])

LEMMA RefundsByRow ==
  \A i : RefundedOnline(i) = IF contributions[i].channel # "RAZORPAY" THEN 0 ELSE RefundOf(dispositions, i)
  BY DEF RefundedOnline, RefundOf

LEMMA RefundsByRowNext ==
  \A i : RefundedOnline(i)' =
           IF contributions'[i].channel # "RAZORPAY" THEN 0 ELSE RefundOf(dispositions', i)
  BY DEF RefundedOnline, RefundOf

\* Nothing is refunded of a row that no disposition has refunded.
LEMMA RefundOfNone == \A D, i : (\A k \in DOMAIN D : i \notin D[k].done) => RefundOf(D, i) = 0
<1> TAKE D, i
<1> HAVE \A k \in DOMAIN D : i \notin D[k].done
<1>1. PICK f : f = [n \in {k \in DOMAIN D : i \in D[k].done} |-> D[n].refunds[i]]
  OBVIOUS
<1>2. DOMAIN f = {}
  BY <1>1
<1> QED  BY <1>1, <1>2, SumOfNone DEF RefundOf

\* The refunds are the same while the same dispositions made them.
LEMMA RefundOfSame ==
  \A D, E, i :
    /\ \A k : (k \in DOMAIN D /\ i \in D[k].done) <=> (k \in DOMAIN E /\ i \in E[k].done)
    /\ \A k \in DOMAIN D : i \in D[k].done => E[k].refunds = D[k].refunds
    => RefundOf(E, i) = RefundOf(D, i)
<1> SUFFICES ASSUME NEW D, NEW E, NEW i,
                    \A k : (k \in DOMAIN D /\ i \in D[k].done) <=> (k \in DOMAIN E /\ i \in E[k].done),
                    \A k \in DOMAIN D : i \in D[k].done => E[k].refunds = D[k].refunds
             PROVE  RefundOf(E, i) = RefundOf(D, i)
  OBVIOUS
<1>1. PICK S : S = {k \in DOMAIN D : i \in D[k].done}
  OBVIOUS
<1>2. {k \in DOMAIN E : i \in E[k].done} = S
  BY <1>1
<1>3. \A n \in S : E[n].refunds[i] = D[n].refunds[i]
  BY <1>1
<1>4. [n \in S |-> E[n].refunds[i]] = [n \in S |-> D[n].refunds[i]]
  BY <1>3
<1> QED  BY <1>1, <1>2, <1>4 DEF RefundOf

\* One more disposition refunds a row.
LEMMA RefundOfMore ==
  \A D, E, i, x :
    /\ IsFiniteSet(DOMAIN D) /\ DOMAIN E = DOMAIN D /\ x \in DOMAIN D
    /\ i \notin D[x].done /\ i \in E[x].done
    /\ \A k \in DOMAIN D : k # x => (i \in E[k].done <=> i \in D[k].done)
    /\ \A k \in DOMAIN D : E[k].refunds = D[k].refunds
    /\ \A k \in DOMAIN D : i \in E[k].done => D[k].refunds[i] \in Int
    => RefundOf(E, i) = RefundOf(D, i) + D[x].refunds[i]
<1> SUFFICES ASSUME NEW D, NEW E, NEW i, NEW x,
                    IsFiniteSet(DOMAIN D), DOMAIN E = DOMAIN D, x \in DOMAIN D,
                    i \notin D[x].done, i \in E[x].done,
                    \A k \in DOMAIN D : k # x => (i \in E[k].done <=> i \in D[k].done),
                    \A k \in DOMAIN D : E[k].refunds = D[k].refunds,
                    \A k \in DOMAIN D : i \in E[k].done => D[k].refunds[i] \in Int
             PROVE  RefundOf(E, i) = RefundOf(D, i) + D[x].refunds[i]
  OBVIOUS
<1>1. PICK f : f = [n \in {k \in DOMAIN D : i \in D[k].done} |-> D[n].refunds[i]]
  OBVIOUS
<1>2. PICK g : g = [n \in {k \in DOMAIN E : i \in E[k].done} |-> E[n].refunds[i]]
  OBVIOUS
<1>3. /\ DOMAIN f = {k \in DOMAIN D : i \in D[k].done}
      /\ DOMAIN g = {k \in DOMAIN E : i \in E[k].done}
  BY <1>1, <1>2
<1>4. x \notin DOMAIN f /\ DOMAIN g = DOMAIN f \cup {x}
  BY <1>3
<1>5. DOMAIN f \subseteq DOMAIN D
  BY <1>3
<1>6. IsFiniteSet(DOMAIN f)
  BY <1>5, FS_Subset
<1>7. \A y \in DOMAIN f : f[y] \in Int /\ g[y] = f[y]
  <2> TAKE y \in DOMAIN f
  <2>1. y \in DOMAIN D /\ y \in DOMAIN g /\ i \in E[y].done
    BY <1>3, <1>4
  <2>2. f[y] = D[y].refunds[i] /\ g[y] = E[y].refunds[i]
    BY <1>1, <1>2, <1>3, <2>1
  <2> QED  BY <2>1, <2>2
<1>8. g[x] = D[x].refunds[i] /\ g[x] \in Int
  BY <1>2, <1>3, <1>4
<1>9. SumFunction(g) = SumFunction(f) + g[x]
  BY <1>4, <1>6, <1>7, <1>8, SumGrows
<1>10. RefundOf(D, i) = SumFunction(f) /\ RefundOf(E, i) = SumFunction(g)
  BY <1>1, <1>2 DEF RefundOf
<1> QED  BY <1>8, <1>9, <1>10

\* The rows that paid stay, with their channel.
LEMMA ChannelsKept ==
  ClosingInv /\ [Next]_vars =>
    /\ 0 \notin Rows' /\ Rows \subseteq Rows'
    /\ \A i \in Rows : contributions'[i].channel = contributions[i].channel
<1> SUFFICES ASSUME ClosingInv, [Next]_vars
             PROVE  /\ 0 \notin Rows' /\ Rows \subseteq Rows'
                    /\ \A i \in Rows : contributions'[i].channel = contributions[i].channel
  OBVIOUS
<1>1. contributions \in Seq(Contribution)
  BY DEF ClosingInv, ClosingFacts, PaymentsAreSound
<1>2. ClosingFacts'
  BY NextClosingFacts
<1>3. (contributions \in Seq(Contribution))'
  BY <1>2 DEF ClosingFacts, PaymentsAreSound
<1>4. Rows' = 1..Len(contributions') /\ Len(contributions') \in Nat
  BY <1>3 DEF Rows
<1>5. 0 \notin Rows'
  BY <1>4
<1>6. CASE UNCHANGED contributions
  BY <1>5, <1>6 DEF Rows
<1>7. ASSUME NEW r, contributions' = Append(contributions, r)
      PROVE  /\ Rows \subseteq Rows'
             /\ \A i \in Rows : contributions'[i].channel = contributions[i].channel
  <2>1. Rows = 1..Len(contributions) /\ Len(contributions) \in Nat
    BY <1>1 DEF Rows
  <2>2. IsTable(contributions)
    <3>1. contributions \in [1..Len(contributions) -> Range(contributions)]
      BY <1>1, <2>1 DEF Rows, Range
    <3> QED  BY <2>1, <3>1 DEF IsTable
  <2>3. /\ DOMAIN contributions' = 1..(Len(contributions) + 1)
        /\ \A i \in 1..Len(contributions) : contributions'[i] = contributions[i]
    BY <1>7, <2>2, TableGrows
  <2> QED  BY <2>1, <2>3 DEF Rows
<1>8. CASE StartCheckout \/ RecordCash
  BY <1>5, <1>7, <1>8 DEF StartCheckout, RecordCash, AddContribution
<1>9. ASSUME NEW i \in Rows, Capture(i) \/ RetireOrder(i) \/ CorrectCash(i)
      PROVE  /\ Rows \subseteq Rows'
             /\ \A j \in Rows : contributions'[j].channel = contributions[j].channel
  <2>1. \A j \in Rows : contributions[j] \in Contribution
    BY <1>1 DEF Rows
  <2>2. \E p, v : contributions' = [contributions EXCEPT ![i].status = p, ![i].verified = v]
    <3>1. CASE Capture(i)
      <4>1. contributions' = [contributions EXCEPT ![i].status = "PAID", ![i].verified = NextVerified]
        BY <3>1 DEF Capture
      <4> QED  BY <4>1
    <3>2. ASSUME NEW p, contributions' = [contributions EXCEPT ![i].status = p]
          PROVE  contributions' = [contributions EXCEPT ![i].status = p,
                                                        ![i].verified = contributions[i].verified]
      <4>1. PICK r : r = contributions[i]
        OBVIOUS
      <4>2. r \in Contribution
        BY <2>1, <4>1
      <4>3. [r EXCEPT !.status = p] = [r EXCEPT !.status = p, !.verified = r.verified]
        BY <4>2 DEF Contribution
      <4> QED  BY <3>2, <4>1, <4>3
    <3>3. CASE RetireOrder(i)
      <4>1. contributions' = [contributions EXCEPT ![i].status = "RETIRED"]
        BY <3>3 DEF RetireOrder
      <4>2. contributions' = [contributions EXCEPT ![i].status = "RETIRED",
                                                    ![i].verified = contributions[i].verified]
        BY <3>2, <4>1
      <4> QED  BY <4>2
    <3>4. CASE CorrectCash(i)
      <4>1. contributions' = [contributions EXCEPT ![i].status = "REVERSED"]
        BY <3>4 DEF CorrectCash
      <4>2. contributions' = [contributions EXCEPT ![i].status = "REVERSED",
                                                    ![i].verified = contributions[i].verified]
        BY <3>2, <4>1
      <4> QED  BY <4>2
    <3> QED  BY <1>9, <3>1, <3>3, <3>4
  <2>3. PICK p, v : contributions' = [contributions EXCEPT ![i].status = p, ![i].verified = v]
    BY <2>2
  <2>4. PICK r : r = [contributions[i] EXCEPT !.status = p, !.verified = v]
    OBVIOUS
  <2>5. r.channel = contributions[i].channel
    BY <2>1, <2>4 DEF Contribution
  <2>6. contributions' = [contributions EXCEPT ![i] = r]
    BY <2>3, <2>4
  <2> QED  BY <2>5, <2>6 DEF Rows
<1>10. CASE UNCHANGED vars \/ BenefitNext \/ ConfiguredNext \/ InrNext
  <2>1. contributions' = contributions
    BY <1>10 DEF vars, settlementVars, closureVars, BenefitNext, PreviewBenefitAward, RecordBenefitAward,
      RecordReapplication, PreviewReapplication, ConfiguredNext, SettleConfiguredAgreement,
      PreviewFullSettlement, ReverseConfiguredSettlement, InrNext, ProposeInrSettlement,
      ResolveInrSettlement, PreviewInrSettlement, PreviewInrResolution, CompleteInrSettlement,
      RecordInrFulfilment
  <2> QED  BY <1>6, <2>1
<1>11. CASE ClosureStep /\ ~(StartCheckout \/ RecordCash)
                        /\ ~\E i \in Rows : Capture(i) \/ RetireOrder(i) \/ CorrectCash(i)
  <2>1. contributions' = contributions
    BY <1>11 DEF ClosureStep, ClosureNext, DurationPasses, RequestSchemeClosure, LoadClosure,
      CancelUnusedAgreement, ReviewSchemeClosure
  <2> QED  BY <1>6, <2>1
<1> QED  BY <1>5, <1>8, <1>9, <1>10, <1>11 DEF Next

\* Steps that hand over no further refund, and promise none but such as the
\* captures have room for.
LEMMA CoverKept ==
  ASSUME LegsAreSound, RefundsAreCovered, 0 \notin Rows', Rows \subseteq Rows',
         \A i \in Rows : contributions'[i].channel = contributions[i].channel,
         DOMAIN dispositions \subseteq DOMAIN dispositions',
         \A k \in DOMAIN dispositions :
           /\ dispositions'[k].refunds = dispositions[k].refunds
           /\ dispositions[k].done \subseteq dispositions'[k].done
           /\ dispositions'[k].done \subseteq dispositions[k].done \cup {JewelleryLeg}
           /\ ~dispositions'[k].retired => ~dispositions[k].retired,
         \A k \in DOMAIN dispositions' \ DOMAIN dispositions :
           /\ dispositions'[k].done \subseteq {JewelleryLeg}
           /\ \A j \in DOMAIN dispositions'[k].refunds :
                j \in Rows /\ RefundedOnline(j) + dispositions'[k].refunds[j] <= Amount
  PROVE  RefundsAreCovered'
<1>1. Amount \in Nat \ {0}
  BY ClosuresAssumption
<1>2. \A i \in Rows' : i # JewelleryLeg
  BY DEF JewelleryLeg
<1>3. \A i \in Rows' : \A k \in DOMAIN dispositions :
        i \in dispositions[k].done => i \in DOMAIN dispositions[k].refunds /\ i \in Rows
  BY <1>2 DEF LegsAreSound, Legs
<1>4. \A i \in Rows' : \A k :
        (k \in DOMAIN dispositions /\ i \in dispositions[k].done)
          <=> (k \in DOMAIN dispositions' /\ i \in dispositions'[k].done)
  BY <1>2
<1>5. \A i \in Rows' : RefundOf(dispositions', i) = RefundOf(dispositions, i)
  BY <1>4, RefundOfSame
<1>6. \A i \in Rows : RefundedOnline(i)' = RefundedOnline(i)
  BY <1>5, RefundsByRow, RefundsByRowNext
<1>7. \A i \in Rows' \ Rows : RefundedOnline(i)' = 0
  <2> TAKE i \in Rows' \ Rows
  <2>1. \A k \in DOMAIN dispositions : i \notin dispositions[k].done
    BY <1>3
  <2>2. RefundOf(dispositions, i) = 0
    BY <2>1, RefundOfNone
  <2> QED  BY <1>5, <2>2, RefundsByRowNext
<1>8. \A i \in Rows' : RefundedOnline(i)' <= Amount
  <2>1. \A i \in Rows : RefundedOnline(i) <= Amount
    BY DEF RefundsAreCovered, RefundsWithinCapture
  <2> QED  BY <1>1, <1>6, <1>7, <2>1
<1>9. ASSUME NEW k \in DOMAIN dispositions', ~dispositions'[k].retired,
             NEW j \in DOMAIN dispositions'[k].refunds \ dispositions'[k].done
      PROVE  RefundedOnline(j)' + dispositions'[k].refunds[j] <= Amount
  <2>1. CASE k \in DOMAIN dispositions
    <3>1. /\ dispositions'[k].refunds = dispositions[k].refunds /\ ~dispositions[k].retired
          /\ j \in DOMAIN dispositions[k].refunds \ dispositions[k].done
      BY <1>9, <2>1
    <3>2. j \in Rows
      BY <2>1, <3>1 DEF LegsAreSound
    <3>3. RefundedOnline(j) + dispositions[k].refunds[j] <= Amount
      BY <2>1, <3>1 DEF RefundsAreCovered
    <3> QED  BY <1>6, <3>1, <3>2, <3>3
  <2>2. CASE k \notin DOMAIN dispositions
    <3>1. j \in Rows /\ RefundedOnline(j) + dispositions'[k].refunds[j] <= Amount
      BY <1>9, <2>2
    <3> QED  BY <1>6, <3>1
  <2> QED  BY <2>1, <2>2
<1> QED  BY <1>8, <1>9 DEF RefundsAreCovered, RefundsWithinCapture

\* A row that changes as it is fulfilled, completed or retired, but hands over
\* no refund.
LEMMA CoverKeptByRow ==
  ASSUME LegsAreSound, RefundsAreCovered, 0 \notin Rows', Rows \subseteq Rows',
         \A k \in Rows : contributions'[k].channel = contributions[k].channel,
         NEW i \in DOMAIN dispositions, NEW done, NEW completed, NEW retired, NEW resolved,
         RowBecomes(i, done, completed, retired, resolved),
         done = dispositions[i].done \/ done = dispositions[i].done \cup {JewelleryLeg},
         ~dispositions[i].retired
  PROVE  RefundsAreCovered'
<1>1. /\ DOMAIN dispositions' = DOMAIN dispositions /\ dispositions'[i].done = done
      /\ \A k \in DOMAIN dispositions :
           /\ dispositions'[k].refunds = dispositions[k].refunds
           /\ k # i => /\ dispositions'[k].done = dispositions[k].done
                       /\ dispositions'[k].retired = dispositions[k].retired
  BY DEF RowBecomes
<1>2. \A k \in DOMAIN dispositions :
        /\ dispositions[k].done \subseteq dispositions'[k].done
        /\ dispositions'[k].done \subseteq dispositions[k].done \cup {JewelleryLeg}
  BY <1>1
<1>3. \A k \in DOMAIN dispositions : ~dispositions'[k].retired => ~dispositions[k].retired
  BY <1>1
<1> QED  BY <1>1, <1>2, <1>3, CoverKept

\* A refund handed over by a proposal is one it still owed.
LEMMA FulfilCovers ==
  ASSUME ClosingInv, RefundsAreCovered, NEW i \in DOMAIN dispositions, NEW leg \in Legs(i),
         RecordInrFulfilment(i, leg)
  PROVE  RefundsAreCovered'
<1>1. /\ leg \notin dispositions[i].done /\ ~dispositions[i].retired
      /\ dispositions' = [dispositions EXCEPT ![i].done = @ \cup {leg}]
      /\ contributions' = contributions
  BY DEF RecordInrFulfilment, PendingProposal
<1>2. BenefitInv /\ DispositionsChain /\ LegsAreSound
  BY DEF ClosingInv, ClosingFacts
<1>3. RowBecomes(i, dispositions[i].done \cup {leg}, dispositions[i].completed,
                 dispositions[i].retired, dispositions[i].resolved)
  BY <1>1, <1>2, FulfilmentIsOnly
<1>4. 0 \notin Rows' /\ Rows' = Rows
  <2>1. (contributions \in Seq(Contribution))
    BY DEF ClosingInv, ClosingFacts, PaymentsAreSound
  <2> QED  BY <2>1, <1>1 DEF Rows
<1>5. CASE leg = JewelleryLeg
  BY <1>1, <1>2, <1>3, <1>4, <1>5, CoverKeptByRow
<1>6. CASE leg # JewelleryLeg
  <2>1. /\ Len(dispositions) \in Nat /\ DOMAIN dispositions = 1..Len(dispositions)
        /\ \A k \in DOMAIN dispositions : k # i => dispositions[k].retired
    BY <1>1, <1>2, OnlyLastInForce
  <2>2. /\ DOMAIN dispositions' = DOMAIN dispositions
        /\ dispositions'[i].done = dispositions[i].done \cup {leg}
        /\ \A k \in DOMAIN dispositions :
             /\ dispositions'[k].refunds = dispositions[k].refunds
             /\ dispositions'[k].retired = dispositions[k].retired
             /\ k # i => dispositions'[k].done = dispositions[k].done
    BY <1>3 DEF RowBecomes
  <2>3. leg \in DOMAIN dispositions[i].refunds /\ leg \in Rows
    BY <1>2, <1>6 DEF LegsAreSound, Legs
  <2>4. \A k \in DOMAIN dispositions :
          leg \in dispositions'[k].done => dispositions[k].refunds[leg] \in Int
    <3>1. \A k \in DOMAIN dispositions : leg \in dispositions[k].done => leg \in DOMAIN dispositions[k].refunds
      BY <1>2, <1>6 DEF LegsAreSound, Legs
    <3>2. \A k \in DOMAIN dispositions : leg \in dispositions'[k].done => leg \in DOMAIN dispositions[k].refunds
      BY <2>2, <2>3, <3>1
    <3> QED  BY <1>2, <3>2 DEF LegsAreSound
  <2>5. IsFiniteSet(DOMAIN dispositions)
    BY <2>1, FS_Interval
  <2>6. RefundOf(dispositions', leg) = RefundOf(dispositions, leg) + dispositions[i].refunds[leg]
    <3>1. leg \notin dispositions[i].done /\ leg \in dispositions'[i].done
      BY <1>1, <2>2
    <3>2. \A k \in DOMAIN dispositions :
            k # i => (leg \in dispositions'[k].done <=> leg \in dispositions[k].done)
      BY <2>2
    <3>3. \A k \in DOMAIN dispositions : dispositions'[k].refunds = dispositions[k].refunds
      BY <2>2
    <3>4. DOMAIN dispositions' = DOMAIN dispositions
      BY <2>2
    <3> QED  BY <3>1, <3>2, <3>3, <3>4, <2>4, <2>5, RefundOfMore
  <2>7. RefundedOnline(leg) + dispositions[i].refunds[leg] <= Amount
    BY <1>1, <2>3 DEF RefundsAreCovered
  <2>8. RefundedOnline(leg)' <= Amount
    <3>1. Amount \in Nat
      BY ClosuresAssumption
    <3>2. CASE contributions[leg].channel # "RAZORPAY"
      <4>1. RefundedOnline(leg)' = 0
        BY <1>1, <3>2, RefundsByRowNext
      <4> QED  BY <3>1, <4>1
    <3>3. CASE contributions[leg].channel = "RAZORPAY"
      <4>1. RefundedOnline(leg)' = RefundOf(dispositions', leg)
        BY <1>1, <3>3, RefundsByRowNext
      <4>2. RefundedOnline(leg) = RefundOf(dispositions, leg)
        BY <3>3, RefundsByRow
      <4> QED  BY <2>6, <2>7, <4>1, <4>2
    <3> QED  BY <3>2, <3>3
  <2>9. \A j \in Rows : j # leg => RefundedOnline(j)' = RefundedOnline(j)
    <3> TAKE j \in Rows
    <3> HAVE j # leg
    <3>1. /\ \A k : (k \in DOMAIN dispositions /\ j \in dispositions[k].done)
                      <=> (k \in DOMAIN dispositions' /\ j \in dispositions'[k].done)
      BY <2>2
    <3>2. RefundOf(dispositions', j) = RefundOf(dispositions, j)
      BY <2>2, <3>1, RefundOfSame
    <3> QED  BY <1>1, <3>2, RefundsByRow, RefundsByRowNext
  <2>10. RefundsWithinCapture'
    <3>1. \A j \in Rows : RefundedOnline(j) <= Amount
      BY DEF RefundsAreCovered, RefundsWithinCapture
    <3>2. \A j \in Rows' : RefundedOnline(j)' <= Amount
      BY <1>4, <2>8, <2>9, <3>1
    <3> QED  BY <3>2 DEF RefundsWithinCapture
  <2>11. ASSUME NEW k \in DOMAIN dispositions', ~dispositions'[k].retired,
                NEW j \in DOMAIN dispositions'[k].refunds \ dispositions'[k].done
         PROVE  RefundedOnline(j)' + dispositions'[k].refunds[j] <= Amount
    <3>1. k = i
      BY <2>1, <2>2, <2>11
    <3>2. j \in DOMAIN dispositions[i].refunds \ dispositions[i].done /\ j # leg
      BY <2>2, <2>11, <3>1
    <3>3. j \in Rows /\ RefundedOnline(j) + dispositions[i].refunds[j] <= Amount
      BY <1>1, <1>2, <3>2 DEF RefundsAreCovered, LegsAreSound
    <3> QED  BY <2>2, <2>9, <3>1, <3>2, <3>3
  <2> QED  BY <2>10, <2>11 DEF RefundsAreCovered
<1> QED  BY <1>5, <1>6

\* A proposal refunds within what every generation before it left.
LEMMA ProposeCovers ==
  ASSUME ClosingInv, RefundsAreCovered, NEW d \in Desks, ProposeInrSettlement(d)
  PROVE  RefundsAreCovered'
<1>1. PICK c, payable, r :
        /\ c = desk[d].evidence.closure /\ payable = desk[d].evidence.payable
        /\ r = Proposal(c, payable, ClosureProof)
  OBVIOUS
<1>2. /\ dispositions' = Append(dispositions, r) /\ contributions' = contributions
      /\ WithinRefundCapacity(RefundLegs(PrincipalToInvoice(Principal, payable)))
  BY <1>1 DEF ProposeInrSettlement, ProposalHolds
<1>3. PICK f : f = RefundLegs(PrincipalToInvoice(Principal, payable))
  OBVIOUS
<1>4. DOMAIN f \subseteq Rows /\ \A j \in DOMAIN f : RefundedOnline(j) + f[j] <= Amount
  BY <1>2, <1>3 DEF WithinRefundCapacity, RefundLegs, Paid
<1>5. r.refunds = f /\ r.done = {}
  BY <1>1, <1>3 DEF Proposal
<1>6. BenefitInv /\ LegsAreSound
  BY DEF ClosingInv, ClosingFacts
<1>7. RowJoins(r)
  BY <1>2, <1>6, AppendedJoins
<1>8. 0 \notin Rows' /\ Rows' = Rows
  <2>1. (contributions \in Seq(Contribution))
    BY DEF ClosingInv, ClosingFacts, PaymentsAreSound
  <2> QED  BY <2>1, <1>2 DEF Rows
<1>9. /\ DOMAIN dispositions \subseteq DOMAIN dispositions'
      /\ \A k \in DOMAIN dispositions : dispositions'[k] = dispositions[k]
      /\ \A k \in DOMAIN dispositions' \ DOMAIN dispositions : dispositions'[k] = r
  BY <1>7 DEF RowJoins
<1>10. \A k \in DOMAIN dispositions' \ DOMAIN dispositions :
         /\ dispositions'[k].done \subseteq {JewelleryLeg}
         /\ \A j \in DOMAIN dispositions'[k].refunds :
              j \in Rows /\ RefundedOnline(j) + dispositions'[k].refunds[j] <= Amount
  BY <1>4, <1>5, <1>9
<1>11. \A k \in DOMAIN dispositions :
         /\ dispositions'[k].refunds = dispositions[k].refunds
         /\ dispositions[k].done \subseteq dispositions'[k].done
         /\ dispositions'[k].done \subseteq dispositions[k].done \cup {JewelleryLeg}
         /\ ~dispositions'[k].retired => ~dispositions[k].retired
  BY <1>9
<1> QED  BY <1>2, <1>6, <1>8, <1>9, <1>10, <1>11, CoverKept

\* A metal settlement refunds nothing.
LEMMA SettleCovers ==
  ASSUME ClosingInv, RefundsAreCovered, NEW d \in Desks, SettleConfiguredAgreement(d)
  PROVE  RefundsAreCovered'
<1>1. PICK r : dispositions' = Append(dispositions, r) /\ r.refunds = <<>> /\ r.done = {JewelleryLeg}
  BY DEF SettleConfiguredAgreement, Settle
<1>2. BenefitInv /\ LegsAreSound /\ contributions \in Seq(Contribution)
  BY DEF ClosingInv, ClosingFacts, PaymentsAreSound
<1>3. RowJoins(r)
  BY <1>1, <1>2, AppendedJoins
<1>4. contributions' = contributions
  BY DEF SettleConfiguredAgreement
<1>5. 0 \notin Rows' /\ Rows' = Rows
  BY <1>2, <1>4 DEF Rows
<1>6. /\ DOMAIN dispositions \subseteq DOMAIN dispositions'
      /\ \A k \in DOMAIN dispositions : dispositions'[k] = dispositions[k]
      /\ \A k \in DOMAIN dispositions' \ DOMAIN dispositions : dispositions'[k] = r
  BY <1>3 DEF RowJoins
<1>7. \A k \in DOMAIN dispositions' \ DOMAIN dispositions :
        /\ dispositions'[k].done \subseteq {JewelleryLeg}
        /\ \A j \in DOMAIN dispositions'[k].refunds :
             j \in Rows /\ RefundedOnline(j) + dispositions'[k].refunds[j] <= Amount
  <2>1. DOMAIN r.refunds = {}
    BY <1>1
  <2> QED  BY <1>1, <1>6, <2>1
<1>8. \A k \in DOMAIN dispositions :
        /\ dispositions'[k].refunds = dispositions[k].refunds
        /\ dispositions[k].done \subseteq dispositions'[k].done
        /\ dispositions'[k].done \subseteq dispositions[k].done \cup {JewelleryLeg}
        /\ ~dispositions'[k].retired => ~dispositions[k].retired
  BY <1>6
<1> QED  BY <1>2, <1>4, <1>5, <1>6, <1>7, <1>8, CoverKept

\* A return takes none of the provider's refunds back.
LEMMA RetireCovers ==
  ASSUME ClosingInv, RefundsAreCovered, NEW i \in DOMAIN dispositions, NEW x, ~dispositions[i].retired,
         dispositions' = [dispositions EXCEPT ![i].retired = TRUE, ![i].resolved = x],
         UNCHANGED contributions
  PROVE  RefundsAreCovered'
<1>1. BenefitInv /\ LegsAreSound /\ contributions \in Seq(Contribution)
  BY DEF ClosingInv, ClosingFacts, PaymentsAreSound
<1>2. 0 \notin Rows' /\ Rows' = Rows
  BY <1>1 DEF Rows
<1>3. RowBecomes(i, dispositions[i].done, dispositions[i].completed, TRUE, x)
  BY <1>1, RetirementIsOnly
<1> QED  BY <1>1, <1>2, <1>3, CoverKeptByRow

\* Every step keeps the refunds covered.
LEMMA NextCovers == ClosingInv /\ RefundsAreCovered /\ [Next]_vars => RefundsAreCovered'
<1> SUFFICES ASSUME ClosingInv, RefundsAreCovered, [Next]_vars  PROVE RefundsAreCovered'
  OBVIOUS
<1>1. BenefitInv /\ LegsAreSound /\ DesksAreSound /\ contributions \in Seq(Contribution)
  BY DEF ClosingInv, ClosingFacts, PaymentsAreSound
<1>2. CASE UNCHANGED dispositions
  <2>1. /\ 0 \notin Rows' /\ Rows \subseteq Rows'
        /\ \A i \in Rows : contributions'[i].channel = contributions[i].channel
    BY ChannelsKept
  <2>2. /\ DOMAIN dispositions' = DOMAIN dispositions
        /\ \A k \in DOMAIN dispositions :
             /\ dispositions'[k].refunds = dispositions[k].refunds
             /\ dispositions[k].done \subseteq dispositions'[k].done
             /\ dispositions'[k].done \subseteq dispositions[k].done \cup {JewelleryLeg}
             /\ ~dispositions'[k].retired => ~dispositions[k].retired
    BY <1>2
  <2> QED  BY <1>1, <2>1, <2>2, CoverKept
<1>3. CASE UNCHANGED vars \/ ClosureStep \/ BenefitNext
  <2>1. UNCHANGED dispositions
    BY <1>3 DEF vars, settlementVars, closureVars, ClosureStep, ClosureNext, StartCheckout, RecordCash,
      DurationPasses, RequestSchemeClosure, Capture, RetireOrder, CorrectCash, LoadClosure,
      CancelUnusedAgreement, ReviewSchemeClosure, BenefitNext, PreviewBenefitAward, RecordBenefitAward,
      RecordReapplication, PreviewReapplication
  <2> QED  BY <1>2, <2>1
<1>4. CASE ConfiguredNext
  <2>1. CASE \E d \in Desks : SettleConfiguredAgreement(d)
    BY <2>1, SettleCovers
  <2>2. ASSUME NEW d \in Desks, NEW i \in DOMAIN dispositions, ReverseConfiguredSettlement(d, i)
        PROVE  RefundsAreCovered'
    <3>1. PICK x : dispositions' = [dispositions EXCEPT ![i].retired = TRUE, ![i].resolved = x]
      BY <2>2 DEF ReverseConfiguredSettlement
    <3>2. UNCHANGED contributions /\ ~dispositions[i].retired
      BY <2>2 DEF ReverseConfiguredSettlement
    <3> QED  BY <3>1, <3>2, RetireCovers
  <2>3. CASE \E d \in Desks, c \in Requests : PreviewFullSettlement(d, c)
    BY <1>2, <2>3 DEF PreviewFullSettlement
  <2> QED  BY <2>1, <2>2, <2>3, <1>4 DEF ConfiguredNext
<1>5. CASE InrNext
  <2>1. CASE \E d \in Desks : ProposeInrSettlement(d)
    BY <2>1, ProposeCovers
  <2>2. ASSUME NEW d \in Desks, ResolveInrSettlement(d)  PROVE RefundsAreCovered'
    <3>1. PICK i : i = desk[d].evidence.proposal
      BY Zenon
    <3>2. PICK x : dispositions' = [dispositions EXCEPT ![i].retired = TRUE, ![i].resolved = x]
      BY <2>2, <3>1 DEF ResolveInrSettlement
    <3>3. UNCHANGED contributions /\ ~dispositions[i].retired /\ i \in DOMAIN dispositions
      BY <1>1, <2>2, <3>1 DEF ResolveInrSettlement, ResolutionHolds, DesksAreSound
    <3> QED  BY <3>2, <3>3, RetireCovers
  <2>3. ASSUME NEW i \in DOMAIN dispositions, CompleteInrSettlement(i)  PROVE RefundsAreCovered'
    <3>1. /\ dispositions' = [dispositions EXCEPT ![i].completed = TRUE]
          /\ contributions' = contributions /\ ~dispositions[i].retired
      BY <2>3 DEF CompleteInrSettlement, PendingProposal
    <3>2. RowBecomes(i, dispositions[i].done, TRUE, dispositions[i].retired, dispositions[i].resolved)
      BY <1>1, <3>1, CompletionIsOnly
    <3>3. 0 \notin Rows' /\ Rows' = Rows
      BY <1>1, <3>1 DEF Rows
    <3> QED  BY <1>1, <3>1, <3>2, <3>3, CoverKeptByRow
  <2>4. CASE \E i \in DOMAIN dispositions : \E leg \in Legs(i) : RecordInrFulfilment(i, leg)
    BY <2>4, FulfilCovers
  <2>5. CASE \E d \in Desks :
               \/ \E c \in Requests, payable \in Invoices : PreviewInrSettlement(d, c, payable)
               \/ \E i \in DOMAIN dispositions : PreviewInrResolution(d, i)
    BY <1>2, <2>5 DEF PreviewInrSettlement, PreviewInrResolution
  <2> QED  BY <2>1, <2>2, <2>3, <2>4, <2>5, <1>5 DEF InrNext
<1> QED  BY <1>3, <1>4, <1>5 DEF Next

\* However often the disposition of an INR agreement is fulfilled in part,
\* voided, returned and proposed anew, the provider never refunds more of a
\* capture than it received.
THEOREM RefundsStayWithinCapture == Spec => []RefundsWithinCapture
<1>1. Init => RefundsAreCovered
  <2> SUFFICES ASSUME Init  PROVE RefundsAreCovered
    OBVIOUS
  <2>1. DOMAIN contributions = {} /\ DOMAIN dispositions = {}
    BY DEF Init, ClosureInit
  <2> QED  BY <2>1 DEF RefundsAreCovered, RefundsWithinCapture, Rows
<1>2. RefundsAreCovered => RefundsWithinCapture
  BY DEF RefundsAreCovered
<1> QED  BY <1>1, <1>2, NextCovers, ClosingIsSound, PTL DEF Spec

-----------------------------------------------------------------------------
(* What the customer holds. *)

\* The legs of a disposition are all it disposes of.
LEMMA LegsAddUp ==
  ASSUME ClosingInv, NEW i \in DOMAIN dispositions
  PROVE  /\ IsFiniteSet(Legs(i)) /\ \A leg \in Legs(i) : LegAmount(i, leg) \in Nat \ {0}
         /\ dispositions[i].done \subseteq Legs(i)
         /\ SumFunction([leg \in Legs(i) |-> LegAmount(i, leg)])
              = dispositions[i].invoice + SumFunction(dispositions[i].refunds)
<1>1. /\ PaymentsAreSound /\ LegsAreSound
  BY DEF ClosingInv, ClosingFacts
<1>2. PICK f, v : f = dispositions[i].refunds /\ v = dispositions[i].invoice
  OBVIOUS
<1>3. /\ v \in Nat /\ DOMAIN f \subseteq Rows /\ dispositions[i].done \subseteq Legs(i)
      /\ \A j \in DOMAIN f : f[j] \in Nat \ {0}
  BY <1>1, <1>2 DEF LegsAreSound
<1>4. IsFiniteSet(Rows) /\ 0 \notin Rows
  BY <1>1, PaidPlaces
<1>5. IsFiniteSet(DOMAIN f) /\ JewelleryLeg \notin DOMAIN f
  BY <1>3, <1>4, FS_Subset DEF JewelleryLeg
<1>6. Legs(i) = IF v > 0 THEN DOMAIN f \cup {JewelleryLeg} ELSE DOMAIN f
  BY <1>2 DEF Legs
<1>7. IsFiniteSet(Legs(i))
  <2>1. IsFiniteSet(DOMAIN f \cup {JewelleryLeg})
    BY <1>5, FS_AddElement
  <2> QED  BY <2>1, <1>5, <1>6
<1>8. \A leg \in Legs(i) : LegAmount(i, leg) = IF leg = JewelleryLeg THEN v ELSE f[leg]
  BY <1>2 DEF LegAmount
<1>9. \A leg \in Legs(i) : LegAmount(i, leg) \in Nat \ {0}
  BY <1>3, <1>5, <1>6, <1>8
<1>10. PICK g : g = [leg \in Legs(i) |-> LegAmount(i, leg)]
  OBVIOUS
<1>11. DOMAIN g = Legs(i) /\ \A y \in DOMAIN f : f[y] \in Int /\ g[y] = f[y]
  BY <1>3, <1>5, <1>6, <1>8, <1>10
<1>12. CASE v > 0
  <2>1. DOMAIN g = DOMAIN f \cup {JewelleryLeg} /\ g[JewelleryLeg] = v /\ v \in Int
    BY <1>3, <1>6, <1>8, <1>10, <1>11, <1>12
  <2>2. SumFunction(g) = SumFunction(f) + g[JewelleryLeg]
    BY <1>5, <1>11, <2>1, SumGrows
  <2>3. SumFunction(f) \in Int
    BY <1>5, <1>11, SumKept
  <2>4. SumFunction(g) = v + SumFunction(f)
    BY <2>1, <2>2, <2>3
  <2> QED  BY <2>4, <1>2, <1>3, <1>7, <1>9, <1>10
<1>13. CASE ~(v > 0)
  <2>1. v = 0 /\ DOMAIN g = DOMAIN f
    BY <1>3, <1>6, <1>11, <1>13
  <2>2. SumFunction(g) = SumFunction(f) /\ SumFunction(f) \in Int
    BY <1>5, <1>11, <2>1, SumKept
  <2>3. SumFunction(g) = v + SumFunction(f)
    BY <2>1, <2>2
  <2> QED  BY <2>3, <1>2, <1>3, <1>7, <1>9, <1>10
<1> QED  BY <1>12, <1>13

\* What a disposition in force has handed over is part of the principal.
LEMMA FulfilledIsPart ==
  ASSUME ClosingInv, NEW i \in DOMAIN dispositions, ~dispositions[i].retired
  PROVE  /\ Principal \in Nat /\ Fulfilled(i) \in 0..Principal
         /\ dispositions[i].completed => Fulfilled(i) = Principal
         /\ Principal > 0
<1>1. PaymentsAreSound /\ PrincipalRests /\ mode \in {"METAL", "INR"}
  BY DEF ClosingInv, ClosingFacts, AccountFollows
<1>2. Principal \in Nat
  BY <1>1, PaidPlaces
<1>3. PICK g, f : /\ g = [leg \in Legs(i) |-> LegAmount(i, leg)]
                  /\ f = [leg \in dispositions[i].done |-> LegAmount(i, leg)]
  OBVIOUS
<1>4. /\ DOMAIN g = Legs(i) /\ DOMAIN f = dispositions[i].done
      /\ \A y \in DOMAIN g : g[y] = LegAmount(i, y)
      /\ \A y \in DOMAIN f : f[y] = LegAmount(i, y)
  BY <1>3
<1>5. IsFiniteSet(DOMAIN g) /\ DOMAIN f \subseteq DOMAIN g /\ \A y \in DOMAIN g : g[y] \in Nat
  BY <1>4, LegsAddUp
<1>6. SumFunction(f) \in Nat /\ SumFunction(g) \in Nat /\ SumFunction(f) <= SumFunction(g)
  BY <1>4, <1>5, SumMonotone
<1>7. SumFunction(g) = dispositions[i].invoice + SumFunction(dispositions[i].refunds)
  BY <1>3, LegsAddUp
<1>8. Fulfilled(i) = SumFunction(f)
  BY <1>3 DEF Fulfilled
<1>9. CASE mode = "INR"
  <2>1. /\ Principal > 0
        /\ dispositions[i].invoice + SumFunction(dispositions[i].refunds) = Principal
        /\ dispositions[i].completed => Fulfilled(i) = Principal
    BY <1>1, <1>9 DEF PrincipalRests
  <2> QED  BY <2>1, <1>2, <1>6, <1>7, <1>8
<1>10. CASE mode = "METAL"
  <2>1. /\ dispositions[i].refunds = <<>> /\ dispositions[i].done = {JewelleryLeg}
        /\ dispositions[i].invoice > 0 /\ dispositions[i].invoice = Principal
    BY <1>1, <1>10 DEF PrincipalRests
  <2>2. DOMAIN dispositions[i].refunds = {}
    BY <2>1
  <2>3. SumFunction(dispositions[i].refunds) = 0
    BY <2>2, SumOfNone
  <2>4. Legs(i) = dispositions[i].done
    BY <2>1, <2>2 DEF Legs
  <2>5. f = g
    BY <1>3, <2>4
  <2>6. Fulfilled(i) = Principal
    BY <1>2, <1>7, <1>8, <2>1, <2>3, <2>5
  <2> QED  BY <2>1, <2>6, <1>2
<1> QED  BY <1>1, <1>9, <1>10

\* What the refinement reads off: nothing is handed over when no disposition
\* is in force, else what the one in force has.
Handed == SumFunction([i \in InForce |-> Fulfilled(i)])

HandedIsSound ==
  /\ Principal \in Nat /\ Handed \in 0..Principal
  /\ InForce = {} => Handed = 0
  /\ \A i \in InForce : /\ Handed = Fulfilled(i) /\ Principal > 0
                        /\ dispositions[i].completed => Handed = Principal

LEMMA HandedHolds == ClosingInv => HandedIsSound
<1> SUFFICES ASSUME ClosingInv  PROVE HandedIsSound
  OBVIOUS
<1>1. BenefitInv /\ DispositionsChain /\ PaymentsAreSound
  BY DEF ClosingInv, ClosingFacts
<1>2. Principal \in Nat
  BY <1>1, PaidPlaces
<1>3. PICK g : g = [i \in InForce |-> Fulfilled(i)]
  OBVIOUS
<1>4. CASE InForce = {}
  <2>1. DOMAIN g = {}
    BY <1>3, <1>4
  <2>2. Handed = 0
    BY <1>3, <2>1, SumOfNone DEF Handed
  <2> QED  BY <2>2, <1>2, <1>4 DEF HandedIsSound
<1>5. ASSUME NEW i \in InForce  PROVE HandedIsSound
  <2>1. i \in DOMAIN dispositions /\ ~dispositions[i].retired
    BY <1>5 DEF InForce
  <2>2. \A j \in DOMAIN dispositions : j # i => dispositions[j].retired
    BY <1>1, <2>1, OnlyLastInForce
  <2>3. InForce = {i}
    BY <2>1, <2>2 DEF InForce
  <2>4. /\ Fulfilled(i) \in 0..Principal /\ Principal > 0
        /\ dispositions[i].completed => Fulfilled(i) = Principal
    BY <2>1, FulfilledIsPart
  <2>5. PICK f : f = [x \in {} |-> 0]
    OBVIOUS
  <2>6. DOMAIN f = {} /\ DOMAIN g = DOMAIN f \cup {i} /\ g[i] = Fulfilled(i) /\ g[i] \in Int
    BY <1>2, <1>3, <2>3, <2>4, <2>5
  <2>7. SumFunction(f) = 0 /\ IsFiniteSet(DOMAIN f)
    BY <2>6, SumOfNone, FS_EmptySet
  <2>8. SumFunction(g) = SumFunction(f) + g[i]
    BY <2>6, <2>7, SumGrows
  <2>9. Handed = Fulfilled(i)
    BY <1>3, <2>6, <2>7, <2>8 DEF Handed
  <2> QED  BY <2>3, <2>4, <2>9, <1>2 DEF HandedIsSound
<1> QED  BY <1>4, <1>5

LEMMA HandedHoldsNext == ClosingInv /\ [Next]_vars => HandedIsSound'
<1>1. ClosingInv' => HandedIsSound'
  BY HandedHolds, PTL
<1> QED  BY <1>1, NextClosing

\* An acceptance is never taken out of the history.
LEMMA EventKeepsAccepted ==
  ASSUME HistoriesReplay, NEW c, NEW action, NEW status, NEW x, AppendEvent(c, action, status, x),
         AcceptedClosure
  PROVE  AcceptedClosure'
<1>0. PICK e \in Requests : \E n \in DOMAIN closures[e].events : closures[e].events[n].action = "ACCEPT"
  BY DEF AcceptedClosure
<1>1. PICK n \in DOMAIN closures[e].events : closures[e].events[n].action = "ACCEPT"
  BY <1>0
<1>2. closures \in Seq(Closure)
  BY DEF HistoriesReplay
<1>3. PICK s, r : s = closures[e].events /\ r = [action |-> action, disposition |-> x]
  OBVIOUS
<1>4. s \in Seq(Event)
  <2>1. closures[e] \in Closure
    BY <1>2 DEF Requests
  <2> QED  BY <2>1, <1>3 DEF Closure
<1>5. s \in Seq(Event \cup {r}) /\ r \in Event \cup {r}
  BY <1>4
<1>6. Len(s) \in Nat /\ DOMAIN s = 1..Len(s)
  BY <1>4
<1>7. /\ Append(s, r) \in Seq(Event \cup {r}) /\ Len(Append(s, r)) = Len(s) + 1
      /\ \A k \in 1..Len(s) : Append(s, r)[k] = s[k]
  BY <1>5, AppendProperties
<1>8. DOMAIN Append(s, r) = 1..(Len(s) + 1)
  BY <1>7, LenProperties
<1>9. n \in DOMAIN Append(s, r) /\ Append(s, r)[n] = s[n]
  BY <1>1, <1>3, <1>6, <1>7, <1>8
<1>10. DOMAIN closures' = DOMAIN closures
  BY DEF AppendEvent
<1>11. closures'[e].events = s \/ closures'[e].events = Append(s, r)
  <2>1. CASE e = c
    BY <1>1, <1>3, <2>1 DEF AppendEvent, Requests
  <2>2. CASE e # c
    BY <1>1, <1>3, <2>2 DEF AppendEvent, Requests
  <2> QED  BY <2>1, <2>2
<1>12. n \in DOMAIN closures'[e].events /\ closures'[e].events[n].action = "ACCEPT"
  BY <1>1, <1>3, <1>9, <1>11
<1> QED  BY <1>1, <1>10, <1>12 DEF AcceptedClosure, Requests

LEMMA AcceptedStays == ClosingInv /\ [Next]_vars /\ AcceptedClosure => AcceptedClosure'
<1> SUFFICES ASSUME ClosingInv, [Next]_vars, AcceptedClosure  PROVE AcceptedClosure'
  OBVIOUS
<1>1. HistoriesReplay
  BY DEF ClosingInv, ClosingFacts
<1>2. CASE UNCHANGED closures
  BY <1>2 DEF AcceptedClosure, Requests
<1>3. CASE ClosureStep
  <2>1. CASE RequestSchemeClosure
    <3>1. PICK e \in Requests : \E n \in DOMAIN closures[e].events : closures[e].events[n].action = "ACCEPT"
      BY DEF AcceptedClosure
    <3>2. e \in Requests' /\ closures'[e] = closures[e]
      BY <1>1, <2>1, <3>1, RequestAdded
    <3> QED  BY <3>1, <3>2 DEF AcceptedClosure
  <2>2. CASE \E d \in Desks, c \in Requests :
               \/ CancelUnusedAgreement(d, c)
               \/ \E action \in {"NOTE", "ACCEPT", "WITHDRAW", "REJECT"} : ReviewSchemeClosure(d, c, action)
    BY <1>1, <2>2, EventKeepsAccepted DEF CancelUnusedAgreement, ReviewSchemeClosure
  <2>3. CASE \/ StartCheckout \/ RecordCash \/ DurationPasses
             \/ \E i \in Rows : Capture(i) \/ RetireOrder(i) \/ CorrectCash(i)
             \/ \E d \in Desks, c \in Requests : LoadClosure(d, c)
    <3>1. UNCHANGED closures
      BY <2>3 DEF StartCheckout, RecordCash, DurationPasses, Capture, RetireOrder, CorrectCash, LoadClosure
    <3> QED  BY <1>2, <3>1
  <2> QED  BY <1>3, <2>1, <2>2, <2>3 DEF ClosureStep, ClosureNext
<1>4. CASE BenefitNext \/ UNCHANGED vars
  <2>1. UNCHANGED closures
    BY <1>4 DEF BenefitNext, PreviewBenefitAward, RecordBenefitAward, RecordReapplication,
      PreviewReapplication, closureVars, vars, settlementVars
  <2> QED  BY <1>2, <2>1
<1>5. CASE ConfiguredNext
  <2>1. CASE \E d \in Desks : SettleConfiguredAgreement(d)
    BY <1>1, <2>1, EventKeepsAccepted DEF SettleConfiguredAgreement, Settle
  <2>2. CASE \E d \in Desks, i \in DOMAIN dispositions : ReverseConfiguredSettlement(d, i)
    BY <1>1, <2>2, EventKeepsAccepted DEF ReverseConfiguredSettlement
  <2>3. CASE \E d \in Desks, c \in Requests : PreviewFullSettlement(d, c)
    BY <1>2, <2>3 DEF PreviewFullSettlement
  <2> QED  BY <2>1, <2>2, <2>3, <1>5 DEF ConfiguredNext
<1>6. CASE InrNext
  <2>1. CASE \E d \in Desks : ResolveInrSettlement(d)
    BY <1>1, <2>1, EventKeepsAccepted DEF ResolveInrSettlement
  <2>2. CASE \E i \in DOMAIN dispositions : CompleteInrSettlement(i)
    BY <1>1, <2>2, EventKeepsAccepted DEF CompleteInrSettlement
  <2>3. CASE \/ \E d \in Desks :
                  \/ ProposeInrSettlement(d)
                  \/ \E c \in Requests, payable \in Invoices : PreviewInrSettlement(d, c, payable)
                  \/ \E i \in DOMAIN dispositions : PreviewInrResolution(d, i)
             \/ \E i \in DOMAIN dispositions : \E leg \in Legs(i) : RecordInrFulfilment(i, leg)
    <3>1. UNCHANGED closures
      BY <2>3 DEF ProposeInrSettlement, PreviewInrSettlement, PreviewInrResolution, RecordInrFulfilment
    <3> QED  BY <1>2, <3>1
  <2> QED  BY <2>1, <2>2, <2>3, <1>6 DEF InrNext
<1> QED  BY <1>3, <1>4, <1>5, <1>6 DEF Next

-----------------------------------------------------------------------------
(* The steps of the promise. *)

LEMMA PromiseRests ==
  UNCHANGED <<Principal, Handed, Phase>> => [Promise!Next]_Promise!vars
  BY DEF Promise!vars, Handed

LEMMA PromiseMovesPrincipal ==
  /\ Phase \in {"saving", "accepted"} /\ Handed = 0
  /\ Principal \in Nat /\ Principal' \in Nat /\ UNCHANGED <<Handed, Phase>>
  => [Promise!Next]_Promise!vars
<1> SUFFICES ASSUME Phase \in {"saving", "accepted"}, Handed = 0,
                    Principal \in Nat, Principal' \in Nat, UNCHANGED <<Handed, Phase>>
             PROVE  [Promise!Next]_Promise!vars
  OBVIOUS
<1>1. CASE Principal' > Principal
  <2>1. Promise!Credit
    BY <1>1 DEF Promise!Credit, Handed
  <2> QED  BY <2>1 DEF Promise!Next
<1>2. CASE Principal' < Principal
  <2>1. Promise!Correct
    BY <1>2 DEF Promise!Correct, Handed
  <2> QED  BY <2>1 DEF Promise!Next
<1>3. CASE Principal' = Principal
  BY <1>3, PromiseRests
<1> QED  BY <1>1, <1>2, <1>3

LEMMA PromiseAccepts ==
  /\ Phase = "saving" /\ Phase' = "accepted" /\ UNCHANGED <<Principal, Handed>>
  => [Promise!Next]_Promise!vars
<1> SUFFICES ASSUME Phase = "saving", Phase' = "accepted", UNCHANGED <<Principal, Handed>>
             PROVE  [Promise!Next]_Promise!vars
  OBVIOUS
<1>1. Promise!Accept
  BY DEF Promise!Accept, Handed
<1> QED  BY <1>1 DEF Promise!Next

LEMMA PromiseHandsOver ==
  /\ Phase = "accepted" /\ Handed' \in Handed + 1 .. Principal /\ UNCHANGED <<Principal, Phase>>
  => [Promise!Next]_Promise!vars
<1> SUFFICES ASSUME Phase = "accepted", Handed' \in Handed + 1 .. Principal, UNCHANGED <<Principal, Phase>>
             PROVE  [Promise!Next]_Promise!vars
  OBVIOUS
<1>1. Promise!HandOver
  BY DEF Promise!HandOver, Handed
<1> QED  BY <1>1 DEF Promise!Next

LEMMA PromiseDisposes ==
  /\ Phase = "accepted" /\ Principal > 0 /\ Handed' = Principal /\ Phase' = "disposed"
  /\ UNCHANGED Principal
  => [Promise!Next]_Promise!vars
<1> SUFFICES ASSUME Phase = "accepted", Principal > 0, Handed' = Principal, Phase' = "disposed",
                    UNCHANGED Principal
             PROVE  [Promise!Next]_Promise!vars
  OBVIOUS
<1>1. Promise!Dispose
  BY DEF Promise!Dispose, Handed
<1> QED  BY <1>1 DEF Promise!Next

LEMMA PromiseTakesBack ==
  /\ Phase \in {"accepted", "disposed"} /\ Handed > 0 /\ Handed' = 0 /\ Phase' = "accepted"
  /\ UNCHANGED Principal
  => [Promise!Next]_Promise!vars
<1> SUFFICES ASSUME Phase \in {"accepted", "disposed"}, Handed > 0, Handed' = 0, Phase' = "accepted",
                    UNCHANGED Principal
             PROVE  [Promise!Next]_Promise!vars
  OBVIOUS
<1>1. Promise!TakeBack
  BY DEF Promise!TakeBack, Handed
<1> QED  BY <1>1 DEF Promise!Next

LEMMA PromiseCancels ==
  /\ Phase = "accepted" /\ Principal = 0 /\ Phase' = "cancelled" /\ UNCHANGED <<Principal, Handed>>
  => [Promise!Next]_Promise!vars
<1> SUFFICES ASSUME Phase = "accepted", Principal = 0, Phase' = "cancelled", UNCHANGED <<Principal, Handed>>
             PROVE  [Promise!Next]_Promise!vars
  OBVIOUS
<1>1. Promise!Cancel
  BY DEF Promise!Cancel, Handed
<1> QED  BY <1>1 DEF Promise!Next

-----------------------------------------------------------------------------
(* Every step of the closing is one of the promise, or none. *)

LEMMA HandedKept == UNCHANGED dispositions => Handed' = Handed
  BY DEF Handed, InForce, Fulfilled, LegAmount

LEMMA PrincipalKept == UNCHANGED contributions => Principal' = Principal
  BY DEF Principal, Paid, Rows

LEMMA PhaseKept == UNCHANGED <<account, closures>> => Phase' = Phase
  BY DEF Phase, AcceptedClosure, Requests

\* Where the agreement is.
LEMMA PhaseIs ==
  /\ account = "CANCELLED" => Phase = "cancelled"
  /\ account = "REDEEMED" => Phase = "disposed"
  /\ Open /\ AcceptedClosure => Phase = "accepted"
  /\ Open /\ ~AcceptedClosure => Phase = "saving"
  BY DEF Phase, Open

LEMMA PhaseIsNext ==
  /\ account' = "CANCELLED" => Phase' = "cancelled"
  /\ account' = "REDEEMED" => Phase' = "disposed"
  /\ account' \in {"ACTIVE", "CLOSURE_PENDING"} /\ AcceptedClosure' => Phase' = "accepted"
  /\ account' \in {"ACTIVE", "CLOSURE_PENDING"} /\ ~AcceptedClosure' => Phase' = "saving"
  BY DEF Phase

\* Money that comes in, is given up or corrected: only while none is handed
\* over.
LEMMA PaymentsRefine ==
  ASSUME ClosingInv, ClosingInv',
         \/ StartCheckout \/ RecordCash
         \/ \E i \in Rows : Capture(i) \/ RetireOrder(i) \/ CorrectCash(i)
  PROVE  [Promise!Next]_Promise!vars
<1>1. PaymentsAreSound /\ AccountFollows /\ HandedIsSound
  BY HandedHolds DEF ClosingInv, ClosingFacts
<1>2. UNCHANGED <<account, closures, dispositions>>
  BY DEF StartCheckout, RecordCash, Capture, RetireOrder, CorrectCash
<1>3. Handed' = Handed /\ Phase' = Phase
  BY <1>2, HandedKept, PhaseKept
<1>4. Principal \in Nat
  BY <1>1, PaidPlaces
<1>5. Principal' \in Nat
  <2>1. ClosingInv' => (HandedIsSound)'
    BY HandedHolds, PTL
  <2> QED  BY <2>1 DEF HandedIsSound
<1>6. ASSUME Open, InForce = {}  PROVE [Promise!Next]_Promise!vars
  <2>1. Phase \in {"saving", "accepted"}
    BY <1>6, PhaseIs
  <2>2. Handed = 0
    BY <1>1, <1>6 DEF HandedIsSound
  <2> QED  BY <2>1, <2>2, <1>3, <1>4, <1>5, PromiseMovesPrincipal
<1>7. ASSUME account = "ACTIVE"  PROVE Open /\ InForce = {}
  <2>1. dispositions = <<>>
    BY <1>1, <1>7 DEF AccountFollows
  <2> QED  BY <1>7, <2>1 DEF Open, InForce
<1>8. ASSUME mode = "METAL", account # "REDEEMED"  PROVE InForce = {}
  BY <1>8, InForceIsRedeemed DEF InForce, ClosingInv
<1>9. CASE StartCheckout \/ RecordCash
  BY <1>6, <1>7, <1>9 DEF StartCheckout, RecordCash, PaymentAllowed
<1>10. CASE \E i \in Rows : Capture(i)
  <2>1. Open /\ (mode = "INR" => dispositions = <<>>)
    BY <1>10 DEF Capture, RequireNewPrincipal
  <2>2. mode \in {"METAL", "INR"}
    BY <1>1 DEF AccountFollows
  <2>3. CASE mode = "METAL"
    BY <1>6, <1>8, <2>1, <2>3 DEF Open
  <2>4. CASE dispositions = <<>>
    <3>1. InForce = {}
      BY <2>4 DEF InForce
    <3> QED  BY <1>6, <2>1, <3>1
  <2> QED  BY <2>1, <2>2, <2>3, <2>4
<1>11. CASE \E i \in Rows : RetireOrder(i)
  <2>1. PICK i \in Rows : RetireOrder(i)
    BY <1>11
  <2>2. contributions[i].status = "PENDING" /\ contributions' = [contributions EXCEPT ![i].status = "RETIRED"]
    BY <2>1 DEF RetireOrder
  <2>3. PICK r : r = [contributions[i] EXCEPT !.status = "RETIRED"]
    OBVIOUS
  <2>4. contributions[i] \in Contribution
    BY <1>1 DEF PaymentsAreSound, Rows
  <2>5. r.status = "RETIRED" /\ contributions' = [contributions EXCEPT ![i] = r]
    BY <2>2, <2>3, <2>4 DEF Contribution, Rows
  <2>6. Paid' = Paid
    BY <2>2, <2>5 DEF Paid, Rows
  <2>7. Principal' = Principal
    BY <2>6 DEF Principal
  <2> QED  BY <2>7, <1>3, PromiseRests
<1>12. CASE \E i \in Rows : CorrectCash(i)
  <2>1. /\ account # "REDEEMED" /\ Rows # {}
        /\ mode = "INR" => account = "ACTIVE"
    BY <1>12 DEF CorrectCash
  <2>2. mode \in {"METAL", "INR"} /\ account \in {"ACTIVE", "CLOSURE_PENDING", "REDEEMED", "CANCELLED"}
    BY <1>1 DEF AccountFollows
  <2>3. contributions # <<>>
    BY <2>1 DEF Rows
  <2>4. Open
    BY <1>1, <2>1, <2>2, <2>3 DEF AccountFollows, Open
  <2> QED  BY <2>1, <2>2, <2>4, <1>6, <1>7, <1>8
<1> QED  BY <1>9, <1>10, <1>11, <1>12

\* An acceptance is one of the promise's, any other event none.
LEMMA RequestsRefine ==
  ASSUME ClosingInv, [Next]_vars, Open,
         UNCHANGED <<account, contributions, dispositions>>
  PROVE  [Promise!Next]_Promise!vars
<1>1. Handed' = Handed /\ Principal' = Principal
  BY HandedKept, PrincipalKept
<1>2. account' \in {"ACTIVE", "CLOSURE_PENDING"}
  BY DEF Open
<1>3. CASE AcceptedClosure
  <2>1. AcceptedClosure'
    BY <1>3, AcceptedStays
  <2>2. Phase = "accepted" /\ Phase' = "accepted"
    BY <1>2, <1>3, <2>1, PhaseIs, PhaseIsNext
  <2> QED  BY <1>1, <2>2, PromiseRests
<1>4. CASE ~AcceptedClosure /\ AcceptedClosure'
  <2>1. Phase = "saving" /\ Phase' = "accepted"
    BY <1>2, <1>4, PhaseIs, PhaseIsNext
  <2> QED  BY <1>1, <2>1, PromiseAccepts
<1>5. CASE ~AcceptedClosure /\ ~AcceptedClosure'
  <2>1. Phase = "saving" /\ Phase' = "saving"
    BY <1>2, <1>5, PhaseIs, PhaseIsNext
  <2> QED  BY <1>1, <2>1, PromiseRests
<1> QED  BY <1>3, <1>4, <1>5

\* An unused agreement owes nothing when it is cancelled.
LEMMA CancelRefines ==
  ASSUME ClosingInv, NEW d \in Desks, NEW c \in Requests, CancelUnusedAgreement(d, c)
  PROVE  [Promise!Next]_Promise!vars
<1>1. /\ closures[c].status = "ACCEPTED" /\ account = "ACTIVE" /\ contributions = <<>>
      /\ account' = "CANCELLED" /\ contributions' = contributions /\ dispositions' = dispositions
  BY DEF CancelUnusedAgreement, UnusedAgreement
<1>2. Handed' = Handed /\ Principal' = Principal
  BY <1>1, HandedKept, PrincipalKept
<1>3. AcceptedClosure
  BY <1>1, AcceptedIsRecorded DEF ClosingInv
<1>4. Phase = "accepted" /\ Phase' = "cancelled"
  BY <1>1, <1>3, PhaseIs, PhaseIsNext DEF Open
<1>5. Paid = {}
  BY <1>1 DEF Paid, Rows
<1>6. Principal = 0
  <2>1. Cardinality(Paid) = 0 /\ Amount \in Nat
    BY <1>5, FS_EmptySet, ClosuresAssumption
  <2> QED  BY <2>1 DEF Principal
<1> QED  BY <1>2, <1>4, <1>6, PromiseCancels

\* A metal settlement hands over everything at once.
LEMMA SettleRefines ==
  ASSUME ClosingInv, HandedIsSound', NEW d \in Desks, SettleConfiguredAgreement(d)
  PROVE  [Promise!Next]_Promise!vars
<1>1. PICK c : c = desk[d].evidence.closure
  OBVIOUS
<1>2. /\ closures[c].status = "ACCEPTED" /\ Open /\ Principal > 0 /\ desk[d].kind = "SETTLE"
      /\ Settle(c, ClosureProof) /\ contributions' = contributions
  BY <1>1 DEF SettleConfiguredAgreement, FullSettlementHolds
<1>3. PICK r : dispositions' = Append(dispositions, r) /\ r.completed = TRUE /\ r.retired = FALSE
  BY <1>2 DEF Settle
<1>4. account' = "REDEEMED"
  BY <1>2 DEF Settle
<1>5. c \in Requests /\ BenefitInv
  BY <1>1, <1>2 DEF ClosingInv, DesksAreSound
<1>6. AcceptedClosure
  BY <1>2, <1>5, AcceptedIsRecorded DEF ClosingInv
<1>7. Phase = "accepted" /\ Phase' = "disposed"
  BY <1>2, <1>4, <1>6, PhaseIs, PhaseIsNext
<1>8. RowJoins(r)
  BY <1>3, <1>5, AppendedJoins
<1>9. PICK n : n = Len(dispositions) + 1
  OBVIOUS
<1>10. n \in DOMAIN dispositions' /\ ~dispositions'[n].retired /\ dispositions'[n].completed
  BY <1>3, <1>8, <1>9 DEF RowJoins
<1>11. n \in InForce'
  BY <1>10 DEF InForce
<1>12. Handed' = Principal'
  BY <1>10, <1>11 DEF HandedIsSound
<1>13. Principal' = Principal
  BY <1>2, PrincipalKept
<1> QED  BY <1>2, <1>7, <1>12, <1>13, PromiseDisposes

\* A proposal promises everything and hands over nothing.
LEMMA ProposeRefines ==
  ASSUME ClosingInv, HandedIsSound', [Next]_vars, NEW d \in Desks, ProposeInrSettlement(d)
  PROVE  [Promise!Next]_Promise!vars
<1>1. PICK c, payable, r :
        /\ c = desk[d].evidence.closure /\ payable = desk[d].evidence.payable
        /\ r = Proposal(c, payable, ClosureProof)
  OBVIOUS
<1>2. /\ closures[c].status = "ACCEPTED" /\ Open /\ desk[d].kind = "PROPOSE"
      /\ \A i \in DOMAIN dispositions : dispositions[i].retired
      /\ dispositions' = Append(dispositions, r) /\ account' = "CLOSURE_PENDING"
      /\ contributions' = contributions
  BY <1>1 DEF ProposeInrSettlement, ProposalHolds
<1>3. r.done = {} /\ r.retired = FALSE
  BY <1>1 DEF Proposal
<1>4. c \in Requests /\ BenefitInv
  BY <1>1, <1>2 DEF ClosingInv, DesksAreSound
<1>5. AcceptedClosure
  BY <1>2, <1>4, AcceptedIsRecorded DEF ClosingInv
<1>6. AcceptedClosure'
  BY <1>5, AcceptedStays
<1>7. Phase = "accepted" /\ Phase' = "accepted"
  BY <1>2, <1>5, <1>6, PhaseIs, PhaseIsNext
<1>8. Handed = 0
  <2>1. InForce = {}
    BY <1>2 DEF InForce
  <2> QED  BY <2>1, HandedHolds DEF HandedIsSound
<1>9. RowJoins(r)
  BY <1>2, <1>4, AppendedJoins
<1>10. PICK n : n = Len(dispositions) + 1
  OBVIOUS
<1>11. n \in DOMAIN dispositions' /\ dispositions'[n] = r
  BY <1>9, <1>10 DEF RowJoins
<1>12. n \in InForce'
  BY <1>3, <1>11 DEF InForce
<1>13. Handed' = Fulfilled(n)'
  BY <1>12 DEF HandedIsSound
<1>14. Fulfilled(n)' = 0
  <2>1. PICK f : f = [leg \in dispositions'[n].done |-> LegAmount(n, leg)']
    OBVIOUS
  <2>2. DOMAIN f = {}
    BY <1>3, <1>11, <2>1
  <2>3. SumFunction(f) = 0
    BY <2>2, SumOfNone
  <2> QED  BY <2>1, <2>3 DEF Fulfilled
<1>15. Principal' = Principal
  BY <1>2, PrincipalKept
<1> QED  BY <1>7, <1>8, <1>13, <1>14, <1>15, PromiseRests

\* A fulfilment hands over a leg that was outstanding.
LEMMA FulfilRefines ==
  ASSUME ClosingInv, HandedIsSound', [Next]_vars,
         NEW i \in DOMAIN dispositions, NEW leg \in Legs(i), RecordInrFulfilment(i, leg)
  PROVE  [Promise!Next]_Promise!vars
<1>1. /\ leg \notin dispositions[i].done /\ ~dispositions[i].retired
      /\ dispositions' = [dispositions EXCEPT ![i].done = @ \cup {leg}]
      /\ closures[dispositions[i].closure].status = "ACCEPTED" /\ account = "CLOSURE_PENDING"
      /\ UNCHANGED <<account, closures, contributions>>
  BY DEF RecordInrFulfilment, PendingProposal
<1>2. BenefitInv /\ dispositions[i].closure \in Requests
  BY DEF ClosingInv, ClosingFacts, DispositionsChain
<1>3. AcceptedClosure
  BY <1>1, <1>2, AcceptedIsRecorded DEF ClosingInv
<1>4. Phase = "accepted" /\ Phase' = Phase /\ Principal' = Principal
  BY <1>1, <1>3, PhaseIs, PhaseKept, PrincipalKept DEF Open
<1>5. RowBecomes(i, dispositions[i].done \cup {leg}, dispositions[i].completed,
                 dispositions[i].retired, dispositions[i].resolved)
  BY <1>1, <1>2, FulfilmentIsOnly
<1>6. /\ DOMAIN dispositions' = DOMAIN dispositions
      /\ dispositions'[i].done = dispositions[i].done \cup {leg}
      /\ dispositions'[i].invoice = dispositions[i].invoice
      /\ dispositions'[i].refunds = dispositions[i].refunds
      /\ ~dispositions'[i].retired
  BY <1>1, <1>5 DEF RowBecomes
<1>7. i \in InForce /\ i \in InForce'
  BY <1>1, <1>6 DEF InForce
<1>8. Handed = Fulfilled(i) /\ Handed \in 0..Principal /\ Principal \in Nat
  BY <1>7, HandedHolds DEF HandedIsSound
<1>9. Handed' = Fulfilled(i)' /\ Handed' \in 0..Principal'
  BY <1>7 DEF HandedIsSound
<1>10. \A l : LegAmount(i, l)' = LegAmount(i, l)
  BY <1>6 DEF LegAmount
<1>11. PICK f : f = [l \in dispositions[i].done |-> LegAmount(i, l)]
  OBVIOUS
<1>12. PICK g : g = [l \in dispositions[i].done \cup {leg} |-> LegAmount(i, l)]
  OBVIOUS
<1>13. Fulfilled(i) = SumFunction(f) /\ Fulfilled(i)' = SumFunction(g)
  <2>1. Fulfilled(i)' = SumFunction([l \in dispositions'[i].done |-> LegAmount(i, l)'])
    BY DEF Fulfilled
  <2>2. [l \in dispositions'[i].done |-> LegAmount(i, l)'] = g
    BY <1>6, <1>10, <1>12
  <2> QED  BY <1>11, <2>1, <2>2 DEF Fulfilled
<1>14. /\ IsFiniteSet(Legs(i)) /\ dispositions[i].done \subseteq Legs(i)
       /\ \A l \in Legs(i) : LegAmount(i, l) \in Nat \ {0}
  BY LegsAddUp
<1>15. /\ DOMAIN f = dispositions[i].done /\ DOMAIN g = DOMAIN f \cup {leg} /\ leg \notin DOMAIN f
       /\ \A y \in DOMAIN f : f[y] \in Int /\ g[y] = f[y]
       /\ g[leg] \in Nat \ {0} /\ g[leg] \in Int
  BY <1>1, <1>11, <1>12, <1>14
<1>16. IsFiniteSet(DOMAIN f)
  BY <1>14, <1>15, FS_Subset
<1>17. SumFunction(g) = SumFunction(f) + g[leg]
  BY <1>15, <1>16, SumGrows
<1>18. Handed' \in Handed + 1 .. Principal
  BY <1>4, <1>8, <1>9, <1>13, <1>15, <1>17
<1> QED  BY <1>4, <1>18, PromiseHandsOver

\* A completion closes the agreement when all of it is handed over.
LEMMA CompleteRefines ==
  ASSUME ClosingInv, HandedIsSound', NEW i \in DOMAIN dispositions, CompleteInrSettlement(i)
  PROVE  [Promise!Next]_Promise!vars
<1>1. /\ ~dispositions[i].retired
      /\ dispositions' = [dispositions EXCEPT ![i].completed = TRUE]
      /\ closures[dispositions[i].closure].status = "ACCEPTED" /\ account = "CLOSURE_PENDING"
      /\ account' = "REDEEMED" /\ contributions' = contributions
  BY DEF CompleteInrSettlement, PendingProposal
<1>2. BenefitInv /\ dispositions[i].closure \in Requests
  BY DEF ClosingInv, ClosingFacts, DispositionsChain
<1>3. AcceptedClosure
  BY <1>1, <1>2, AcceptedIsRecorded DEF ClosingInv
<1>4. Phase = "accepted" /\ Phase' = "disposed" /\ Principal' = Principal
  BY <1>1, <1>3, PhaseIs, PhaseIsNext, PrincipalKept DEF Open
<1>5. RowBecomes(i, dispositions[i].done, TRUE, dispositions[i].retired, dispositions[i].resolved)
  BY <1>1, <1>2, CompletionIsOnly
<1>6. i \in DOMAIN dispositions' /\ dispositions'[i].completed /\ ~dispositions'[i].retired
  BY <1>1, <1>5 DEF RowBecomes
<1>7. i \in InForce /\ i \in InForce'
  BY <1>1, <1>6 DEF InForce
<1>8. Principal > 0
  BY <1>7, HandedHolds DEF HandedIsSound
<1>9. Handed' = Principal'
  BY <1>6, <1>7 DEF HandedIsSound
<1> QED  BY <1>4, <1>8, <1>9, PromiseDisposes

\* A void takes nothing back that was handed over, a return everything.
LEMMA RetireRefines ==
  ASSUME ClosingInv, HandedIsSound', [Next]_vars, NEW i \in DOMAIN dispositions, NEW x,
         ~dispositions[i].retired,
         dispositions' = [dispositions EXCEPT ![i].retired = TRUE, ![i].resolved = x],
         IF dispositions[i].completed THEN account = "REDEEMED" ELSE Open,
         account' = "CLOSURE_PENDING", UNCHANGED contributions
  PROVE  [Promise!Next]_Promise!vars
<1>1. BenefitInv /\ DispositionsChain
  BY DEF ClosingInv, ClosingFacts
<1>2. /\ dispositions[i].closure \in Requests /\ dispositions[i].completed \in BOOLEAN
      /\ closures[dispositions[i].closure].status = IF dispositions[i].completed THEN "SETTLED" ELSE "ACCEPTED"
  BY <1>1 DEF DispositionsChain
<1>3. AcceptedClosure
  BY <1>2, AcceptedIsRecorded DEF ClosingInv
<1>4. AcceptedClosure'
  BY <1>3, AcceptedStays
<1>5. /\ Phase' = "accepted" /\ Principal' = Principal
      /\ Phase = IF dispositions[i].completed THEN "disposed" ELSE "accepted"
  BY <1>3, <1>4, PhaseIs, PhaseIsNext, PrincipalKept
<1>6. RowBecomes(i, dispositions[i].done, dispositions[i].completed, TRUE, x)
  BY <1>1, RetirementIsOnly
<1>7. \A j \in DOMAIN dispositions : j # i => dispositions[j].retired
  BY <1>1, OnlyLastInForce
<1>8. \A j \in DOMAIN dispositions' : dispositions'[j].retired
  BY <1>6, <1>7 DEF RowBecomes
<1>9. Handed' = 0
  <2>1. InForce' = {}
    BY <1>8 DEF InForce
  <2> QED  BY <2>1 DEF HandedIsSound
<1>10. i \in InForce
  BY DEF InForce
<1>11. /\ Principal \in Nat /\ Handed \in 0..Principal /\ Principal > 0
       /\ dispositions[i].completed => Handed = Principal
  BY <1>10, HandedHolds DEF HandedIsSound
<1>12. CASE Handed > 0
  BY <1>5, <1>9, <1>12, PromiseTakesBack
<1>13. CASE ~(Handed > 0)
  <2>1. Handed = 0 /\ ~dispositions[i].completed
    BY <1>11, <1>13
  <2> QED  BY <2>1, <1>5, <1>9, PromiseRests
<1> QED  BY <1>12, <1>13

LEMMA NextRefines == ClosingInv /\ [Next]_vars => [Promise!Next]_Promise!vars
<1> SUFFICES ASSUME ClosingInv, [Next]_vars  PROVE [Promise!Next]_Promise!vars
  OBVIOUS
<1>1. ClosingInv' /\ HandedIsSound'
  BY NextClosing, HandedHoldsNext
<1>2. ASSUME UNCHANGED <<account, contributions, closures, dispositions>>
      PROVE  [Promise!Next]_Promise!vars
  BY <1>2, HandedKept, PrincipalKept, PhaseKept, PromiseRests
<1>3. CASE ClosureStep
  <2>1. CASE \/ StartCheckout \/ RecordCash
             \/ \E i \in Rows : Capture(i) \/ RetireOrder(i) \/ CorrectCash(i)
    BY <1>1, <2>1, PaymentsRefine
  <2>2. CASE RequestSchemeClosure
    <3>1. account \in {"ACTIVE", "CLOSURE_PENDING", "REDEEMED", "CANCELLED"}
      BY DEF ClosingInv, ClosingFacts, AccountFollows
    <3>2. Open /\ UNCHANGED <<account, contributions, dispositions>>
      BY <2>2, <3>1 DEF RequestSchemeClosure, Open
    <3> QED  BY <3>2, RequestsRefine
  <2>3. CASE \E d \in Desks, c \in Requests :
               \E action \in {"NOTE", "ACCEPT", "WITHDRAW", "REJECT"} : ReviewSchemeClosure(d, c, action)
    <3>1. account \in {"ACTIVE", "CLOSURE_PENDING", "REDEEMED", "CANCELLED"}
      BY DEF ClosingInv, ClosingFacts, AccountFollows
    <3>2. Open /\ UNCHANGED <<account, contributions, dispositions>>
      BY <2>3, <3>1 DEF ReviewSchemeClosure, Open
    <3> QED  BY <3>2, RequestsRefine
  <2>4. CASE \E d \in Desks, c \in Requests : CancelUnusedAgreement(d, c)
    BY <2>4, CancelRefines
  <2>5. CASE DurationPasses \/ \E d \in Desks, c \in Requests : LoadClosure(d, c)
    <3>1. UNCHANGED <<account, contributions, closures, dispositions>>
      BY <2>5 DEF DurationPasses, LoadClosure
    <3> QED  BY <1>2, <3>1
  <2> QED  BY <1>3, <2>1, <2>2, <2>3, <2>4, <2>5 DEF ClosureStep, ClosureNext
<1>4. CASE BenefitNext \/ UNCHANGED vars
  <2>1. UNCHANGED <<account, contributions, closures, dispositions>>
    BY <1>4 DEF BenefitNext, PreviewBenefitAward, RecordBenefitAward, RecordReapplication,
      PreviewReapplication, closureVars, vars, settlementVars
  <2> QED  BY <1>2, <2>1
<1>5. CASE ConfiguredNext
  <2>1. CASE \E d \in Desks : SettleConfiguredAgreement(d)
    BY <1>1, <2>1, SettleRefines
  <2>2. ASSUME NEW d \in Desks, NEW i \in DOMAIN dispositions, ReverseConfiguredSettlement(d, i)
        PROVE  [Promise!Next]_Promise!vars
    <3>1. PICK x : dispositions' = [dispositions EXCEPT ![i].retired = TRUE, ![i].resolved = x]
      BY <2>2 DEF ReverseConfiguredSettlement
    <3>2. /\ UNCHANGED contributions /\ ~dispositions[i].retired /\ mode = "METAL"
          /\ account = "REDEEMED" /\ account' = "CLOSURE_PENDING"
      BY <2>2 DEF ReverseConfiguredSettlement
    <3>3. dispositions[i].completed
      BY <3>2 DEF ClosingInv, ClosingFacts, PrincipalRests
    <3> QED  BY <1>1, <3>1, <3>2, <3>3, RetireRefines
  <2>3. CASE \E d \in Desks, c \in Requests : PreviewFullSettlement(d, c)
    <3>1. UNCHANGED <<account, contributions, closures, dispositions>>
      BY <2>3 DEF PreviewFullSettlement
    <3> QED  BY <1>2, <3>1
  <2> QED  BY <2>1, <2>2, <2>3, <1>5 DEF ConfiguredNext
<1>6. CASE InrNext
  <2>1. CASE \E d \in Desks : ProposeInrSettlement(d)
    BY <1>1, <2>1, ProposeRefines
  <2>2. ASSUME NEW d \in Desks, ResolveInrSettlement(d)  PROVE [Promise!Next]_Promise!vars
    <3>1. PICK i : i = desk[d].evidence.proposal
      BY Zenon
    <3>2. PICK x : dispositions' = [dispositions EXCEPT ![i].retired = TRUE, ![i].resolved = x]
      BY <2>2, <3>1 DEF ResolveInrSettlement
    <3>3. /\ UNCHANGED contributions /\ ~dispositions[i].retired /\ i \in DOMAIN dispositions
          /\ i = Len(dispositions) /\ account' = "CLOSURE_PENDING"
      BY <2>2, <3>1 DEF ClosingInv, ResolveInrSettlement, ResolutionHolds, DesksAreSound
    <3>4. account = IF dispositions[i].completed THEN "REDEEMED" ELSE "CLOSURE_PENDING"
      BY <2>2, <3>1, <3>3 DEF ResolveInrSettlement, ResolutionHolds, InrDispositionStateIsValid
    <3> QED  BY <1>1, <3>2, <3>3, <3>4, RetireRefines DEF Open
  <2>3. CASE \E i \in DOMAIN dispositions : CompleteInrSettlement(i)
    BY <1>1, <2>3, CompleteRefines
  <2>4. CASE \E i \in DOMAIN dispositions : \E leg \in Legs(i) : RecordInrFulfilment(i, leg)
    BY <1>1, <2>4, FulfilRefines
  <2>5. CASE \E d \in Desks :
               \/ \E c \in Requests, payable \in Invoices : PreviewInrSettlement(d, c, payable)
               \/ \E i \in DOMAIN dispositions : PreviewInrResolution(d, i)
    <3>1. UNCHANGED <<account, contributions, closures, dispositions>>
      BY <2>5 DEF PreviewInrSettlement, PreviewInrResolution
    <3> QED  BY <1>2, <3>1
  <2> QED  BY <2>1, <2>2, <2>3, <2>4, <2>5, <1>6 DEF InrNext
<1> QED  BY <1>3, <1>4, <1>5, <1>6 DEF Next

LEMMA InitRefines == Init => Promise!Init
<1> SUFFICES ASSUME Init  PROVE Promise!Init
  OBVIOUS
<1>1. /\ account = "ACTIVE" /\ contributions = <<>> /\ closures = <<>> /\ dispositions = <<>>
  BY DEF Init, ClosureInit
<1>2. Principal = 0
  <2>1. Paid = {}
    BY <1>1 DEF Paid, Rows
  <2>2. Cardinality(Paid) = 0 /\ Amount \in Nat
    BY <2>1, FS_EmptySet, ClosuresAssumption
  <2> QED  BY <2>2 DEF Principal
<1>3. Handed = 0
  <2>1. InForce = {}
    BY <1>1 DEF InForce
  <2> QED  BY <2>1, InitClosing, HandedHolds DEF HandedIsSound
<1>4. Phase = "saving"
  <2>1. ~AcceptedClosure
    BY <1>1 DEF AcceptedClosure, Requests
  <2> QED  BY <1>1, <2>1, PhaseIs DEF Open
<1> QED  BY <1>2, <1>3, <1>4 DEF Promise!Init, Handed

\* The closing keeps its promise: whatever is proposed, settled, fulfilled,
\* voided, returned and proposed anew, on whatever the sessions loaded, and
\* whatever payment arrives meanwhile, principal is handed over once and in
\* full, rests while any of it is handed over, and the agreement is closed
\* exactly when all of it is.
THEOREM PromiseIsKept == Spec => ImplementsDisposition
<1>1. Init => Promise!Init
  BY InitRefines
<1>2. ClosingInv /\ [Next]_vars => [Promise!Next]_Promise!vars
  BY NextRefines
<1> QED  BY <1>1, <1>2, ClosingIsSound, PTL DEF Spec, ImplementsDisposition, Promise!Spec
=============================================================================
