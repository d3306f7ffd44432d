---------------------- MODULE EnrolmentRequests_proofs ----------------------
(***************************************************************************)
(* What is proved of the catalogue and the enrolments, for any number of   *)
(* plans, configurations, customers, requests and sessions of the owner.   *)
(* Steps are first classified by the rows they change; the invariant is    *)
(* then proved against the classes.                                        *)
(***************************************************************************)
EXTENDS EnrolmentRequests, FiniteSetTheorems, TLAPS

(* The catalogue. *)

EvidenceRows == [terms : Terms, active : BOOLEAN, listed : BOOLEAN, configuration : Nat]
PlanRows ==
  [configuration : Nat, terms : Terms, active : BOOLEAN, listed : BOOLEAN, stamp : Nat,
   published : Nat, revisions : Seq(EvidenceRows), closed : BOOLEAN]
ConfigurationRows == [schema : {1, 2}, previous : Nat, closed : BOOLEAN]

\* A plan is open to customers only as it was published.
PlanSound(p) ==
  /\ p \in PlanRows
  /\ p.published \in 0..Len(p.revisions)
  /\ p.active \/ p.listed => ~p.closed /\ (p.configuration # 0 => PublicationEvidence(p))

CatalogueTyped ==
  /\ configurations \in Seq(ConfigurationRows)
  /\ plans \in Seq(PlanRows)
  /\ \A n \in DOMAIN plans : PlanSound(plans[n]) /\ plans[n].configuration \in 0..Len(configurations)
  /\ \A d \in Desks :
       /\ desk[d].kind \in {"PLAN", "CLOSE_PLAN"} => desk[d].item \in DOMAIN plans
       /\ desk[d].kind = "CLOSE_CONFIGURATION" => desk[d].item \in DOMAIN configurations
  /\ DOMAIN desk = Desks

\* The plans of a closed configuration are closed.
ClosedFamilies ==
  \A n \in DOMAIN plans :
    plans[n].configuration # 0 /\ configurations[plans[n].configuration].closed => plans[n].closed

\* Revisions are only added.
Extends(new, old) ==
  /\ DOMAIN old \subseteq DOMAIN new
  /\ \A k \in DOMAIN old : new[k] = old[k]

\* What a step does to a plan that it changes.
PlanMove(p, q) ==
  /\ ~p.closed /\ PlanSound(q) /\ q.configuration = p.configuration
  /\ Extends(q.revisions, p.revisions)

\* The revision that EnsurePlanRevision leaves is of the terms as they are.
Ensured(p, q) ==
  /\ q \in PlanRows
  /\ q.configuration = p.configuration /\ q.terms = p.terms /\ q.active = p.active
  /\ q.listed = p.listed /\ q.stamp = p.stamp /\ q.published = p.published /\ q.closed = p.closed
  /\ Extends(q.revisions, p.revisions)
  /\ Len(q.revisions) \in DOMAIN q.revisions /\ q.revisions[Len(q.revisions)] = PlanTerms(p)
  /\ DOMAIN p.revisions = 1..Len(p.revisions) /\ DOMAIN q.revisions = 1..Len(q.revisions)

LEMMA RevisionEnsured ==
  ASSUME NEW p \in PlanRows
  PROVE  Ensured(p, EnsurePlanRevision(p))
<1>t. p.revisions \in Seq(EvidenceRows) /\ Len(p.revisions) \in Nat
      /\ DOMAIN p.revisions = 1..Len(p.revisions)
  BY DEF PlanRows
<1>1. PICK evidence : evidence = PlanTerms(p)
  OBVIOUS
<1>2. evidence \in EvidenceRows
  BY <1>1 DEF PlanTerms, PlanRows, EvidenceRows
<1>3. CASE p.revisions # <<>> /\ Last(p.revisions) = PlanTerms(p)
  <2>1. EnsurePlanRevision(p) = p
    BY <1>3 DEF EnsurePlanRevision
  <2>2. Len(p.revisions) \in DOMAIN p.revisions /\ p.revisions[Len(p.revisions)] = PlanTerms(p)
    BY <1>3, <1>t DEF Last
  <2>3. QED
    BY <1>t, <2>1, <2>2 DEF Ensured, Extends
<1>4. CASE ~(p.revisions # <<>> /\ Last(p.revisions) = PlanTerms(p))
  <2>1. PICK s : s = Append(p.revisions, evidence)
    OBVIOUS
  <2>2. /\ s \in Seq(EvidenceRows) /\ Len(s) = Len(p.revisions) + 1 /\ s[Len(s)] = evidence
        /\ Extends(s, p.revisions) /\ DOMAIN s = 1..Len(s) /\ Len(s) \in DOMAIN s
    BY <1>t, <1>2, <2>1 DEF Extends
  <2>3. PICK q : q = [p EXCEPT !.revisions = s]
    OBVIOUS
  <2>4. /\ q \in PlanRows /\ q.revisions = s
        /\ q.configuration = p.configuration /\ q.terms = p.terms /\ q.active = p.active
        /\ q.listed = p.listed /\ q.stamp = p.stamp /\ q.published = p.published /\ q.closed = p.closed
    BY <2>2, <2>3 DEF PlanRows
  <2>5. EnsurePlanRevision(p) = q
    BY <1>1, <1>4, <2>1, <2>3 DEF EnsurePlanRevision
  <2>6. QED
    BY <1>t, <1>1, <2>2, <2>4, <2>5 DEF Ensured
<1>5. QED
  BY <1>3, <1>4

\* Saving stamps a plan and changes nothing else of it.
LEMMA SavedRow ==
  ASSUME NEW p \in PlanRows
  PROVE  /\ Saved(p) \in PlanRows
         /\ Saved(p).configuration = p.configuration /\ Saved(p).terms = p.terms
         /\ Saved(p).active = p.active /\ Saved(p).listed = p.listed /\ Saved(p).closed = p.closed
         /\ Saved(p).published = p.published /\ Saved(p).revisions = p.revisions
<1>1. PICK m : m = p.stamp + 1 /\ m \in Nat
  BY DEF PlanRows
<1>2. Saved(p) = [p EXCEPT !.stamp = m]
  BY <1>1 DEF Saved
<1>3. QED
  BY <1>1, <1>2 DEF PlanRows

\* A plan that keeps its publication, or is not open to customers any more.
LEMMA KeptPublication ==
  ASSUME NEW p, PlanSound(p), ~p.closed, NEW q \in PlanRows, q.configuration = p.configuration,
         q.published = p.published, Extends(q.revisions, p.revisions),
         \/ ~q.active /\ ~q.listed
         \/ ~q.closed /\ q.configuration = 0
         \/ ~q.closed /\ PlanTerms(q) = PlanTerms(p)
  PROVE  PlanMove(p, q)
<1>1. /\ p.revisions \in Seq(EvidenceRows) /\ q.revisions \in Seq(EvidenceRows)
      /\ DOMAIN p.revisions = 1..Len(p.revisions) /\ DOMAIN q.revisions = 1..Len(q.revisions)
      /\ Len(p.revisions) \in Nat /\ Len(q.revisions) \in Nat /\ p.published \in Nat
  BY DEF PlanSound, PlanRows
<1>2. q.published \in 0..Len(q.revisions)
  BY <1>1 DEF PlanSound, Extends
<1>3. ASSUME ~q.closed, PlanTerms(q) = PlanTerms(p), q.configuration # 0, q.active \/ q.listed
      PROVE  PublicationEvidence(q)
  <2>1. q.active = p.active /\ q.listed = p.listed
    BY <1>3 DEF PlanTerms
  <2>2. PublicationEvidence(p)
    BY <1>3, <2>1 DEF PlanSound
  <2>3. p.published \in DOMAIN p.revisions
    BY <1>1, <2>2 DEF PlanSound, PublicationEvidence
  <2>4. QED
    BY <1>3, <2>1, <2>2, <2>3 DEF PublicationEvidence, Extends
<1>4. QED
  BY <1>2, <1>3 DEF PlanMove, PlanSound

LEMMA EditedPlan ==
  ASSUME CatalogueTyped, NEW d \in Desks, EditPlan(d)
  PROVE  \E n \in DOMAIN plans, q \in PlanRows : plans' = [plans EXCEPT ![n] = q] /\ PlanMove(plans[n], q)
<1>1. PICK n : n = desk[d].item /\ n \in DOMAIN plans
  BY DEF EditPlan, PageIsCurrent, CatalogueTyped
<1>2. PICK p : p = plans[n] /\ PlanSound(p) /\ p \in PlanRows
  BY <1>1 DEF CatalogueTyped, PlanSound
<1>3. PICK terms \in Terms, active \in BOOLEAN, listed \in BOOLEAN :
        LET observed == IF p.revisions = <<>> THEN EnsurePlanRevision(p) ELSE p
            edited == [observed EXCEPT !.terms = terms, !.active = active, !.listed = listed]
        IN  Editable(p, active, listed) /\ Save(n, EnsurePlanRevision(Saved(edited)))
  BY <1>1, <1>2, Zenon DEF EditPlan
<1>4. PICK observed : observed = IF p.revisions = <<>> THEN EnsurePlanRevision(p) ELSE p
  OBVIOUS
<1>5. /\ observed \in PlanRows /\ observed.configuration = p.configuration
      /\ observed.published = p.published /\ observed.closed = p.closed
      /\ Extends(observed.revisions, p.revisions)
  BY <1>2, <1>4, RevisionEnsured DEF Ensured, Extends
<1>6. PICK edited : edited = [observed EXCEPT !.terms = terms, !.active = active, !.listed = listed]
  OBVIOUS
<1>7. /\ edited \in PlanRows /\ edited.configuration = p.configuration /\ edited.published = p.published
      /\ edited.closed = p.closed /\ edited.active = active /\ edited.listed = listed
      /\ edited.revisions = observed.revisions
  BY <1>5, <1>6 DEF PlanRows
<1>8. PICK saved : saved = Saved(edited)
  OBVIOUS
<1>9. /\ saved \in PlanRows /\ saved.configuration = p.configuration /\ saved.published = p.published
      /\ saved.closed = p.closed /\ saved.active = active /\ saved.listed = listed
      /\ saved.revisions = observed.revisions
  BY <1>7, <1>8, SavedRow
<1>10. PICK q : q = EnsurePlanRevision(saved)
  OBVIOUS
<1>11. /\ q \in PlanRows /\ q.configuration = p.configuration /\ q.published = p.published
       /\ q.closed = p.closed /\ q.active = active /\ q.listed = listed
       /\ Extends(q.revisions, p.revisions)
  BY <1>5, <1>9, <1>10, RevisionEnsured DEF Ensured, Extends
<1>12. Editable(p, active, listed) /\ plans' = [plans EXCEPT ![n] = q]
  BY <1>3, <1>4, <1>6, <1>8, <1>10 DEF Save
<1>13. PlanMove(p, q)
  <2>1. ~p.closed /\ (p.configuration # 0 => ~active /\ ~listed)
    BY <1>12 DEF Editable
  <2>2. QED
    BY <1>2, <1>11, <2>1, KeptPublication
<1>14. QED
  BY <1>1, <1>2, <1>11, <1>12, <1>13

LEMMA PublishedPlan ==
  ASSUME CatalogueTyped, NEW d \in Desks, SetConfiguredPlanPublication(d)
  PROVE  \E n \in DOMAIN plans, q \in PlanRows : plans' = [plans EXCEPT ![n] = q] /\ PlanMove(plans[n], q)
<1>1. PICK n : n = desk[d].item /\ n \in DOMAIN plans
  BY DEF SetConfiguredPlanPublication, PageIsCurrent, CatalogueTyped
<1>2. PICK p : p = plans[n] /\ PlanSound(p) /\ p \in PlanRows
  BY <1>1 DEF CatalogueTyped, PlanSound
<1>3. PICK publish \in BOOLEAN :
        LET moved == EnsurePlanRevision([p EXCEPT !.active = publish, !.listed = publish])
        IN  /\ ~p.closed
            /\ Save(n, Saved(IF publish THEN [moved EXCEPT !.published = Len(moved.revisions)] ELSE moved))
  BY <1>1, <1>2 DEF SetConfiguredPlanPublication
<1>4. PICK shown : shown = [p EXCEPT !.active = publish, !.listed = publish]
  OBVIOUS
<1>5. /\ shown \in PlanRows /\ shown.configuration = p.configuration /\ shown.published = p.published
      /\ shown.closed = p.closed /\ shown.active = publish /\ shown.listed = publish
      /\ shown.revisions = p.revisions
  BY <1>2, <1>4 DEF PlanRows
<1>6. PICK moved : moved = EnsurePlanRevision(shown)
  OBVIOUS
<1>7. Ensured(shown, moved)
  BY <1>5, <1>6, RevisionEnsured
<1>8. /\ moved \in PlanRows /\ moved.configuration = p.configuration /\ moved.published = p.published
      /\ moved.closed = p.closed /\ moved.active = publish /\ moved.listed = publish
      /\ Extends(moved.revisions, p.revisions)
      /\ moved.revisions[Len(moved.revisions)] = PlanTerms(shown) /\ Len(moved.revisions) \in DOMAIN moved.revisions
      /\ DOMAIN moved.revisions = 1..Len(moved.revisions) /\ PlanTerms(moved) = PlanTerms(shown)
  BY <1>5, <1>7 DEF Ensured, PlanTerms
<1>9. CASE ~publish
  <2>1. PICK q : q = Saved(moved)
    OBVIOUS
  <2>2. /\ q \in PlanRows /\ q.configuration = p.configuration /\ q.published = p.published
        /\ ~q.active /\ ~q.listed /\ Extends(q.revisions, p.revisions)
    BY <1>8, <1>9, <2>1, SavedRow
  <2>3. ~p.closed /\ plans' = [plans EXCEPT ![n] = q]
    BY <1>3, <1>4, <1>6, <1>9, <2>1 DEF Save
  <2>4. PlanMove(p, q)
    BY <1>2, <2>2, <2>3, KeptPublication
  <2>5. QED
    BY <1>1, <1>2, <2>2, <2>3, <2>4
<1>10. CASE publish
  <2>1. PICK k : k = Len(moved.revisions) /\ k \in Nat /\ k \in 1..Len(moved.revisions)
    BY <1>8 DEF PlanRows
  <2>2. PICK named : named = [moved EXCEPT !.published = k]
    OBVIOUS
  <2>3. /\ named \in PlanRows /\ named.configuration = p.configuration /\ named.published = k
        /\ named.closed = p.closed /\ named.active /\ named.listed /\ named.revisions = moved.revisions
        /\ PlanTerms(named) = PlanTerms(moved)
    BY <1>8, <1>10, <2>1, <2>2 DEF PlanRows, PlanTerms
  <2>4. PICK q : q = Saved(named)
    OBVIOUS
  <2>5. /\ q \in PlanRows /\ q.configuration = p.configuration /\ q.published = k
        /\ q.closed = p.closed /\ q.active /\ q.listed /\ q.revisions = moved.revisions
        /\ PlanTerms(q) = PlanTerms(moved)
    BY <2>3, <2>4, SavedRow DEF PlanTerms
  <2>6. ~p.closed /\ plans' = [plans EXCEPT ![n] = q]
    BY <1>3, <1>4, <1>6, <1>10, <2>1, <2>2, <2>4 DEF Save
  <2>7. PublicationEvidence(q) /\ q.published \in 0..Len(q.revisions)
    BY <1>8, <2>1, <2>5 DEF PublicationEvidence
  <2>8. PlanMove(p, q)
    BY <1>8, <2>5, <2>6, <2>7 DEF PlanMove, PlanSound
  <2>9. QED
    BY <1>1, <1>2, <2>5, <2>6, <2>8
<1>11. QED
  BY <1>9, <1>10

LEMMA ClosedPlan ==
  ASSUME CatalogueTyped, NEW d \in Desks, NEW usage, ClosePlan(d, usage)
  PROVE  \E n \in DOMAIN plans, q \in PlanRows : plans' = [plans EXCEPT ![n] = q] /\ PlanMove(plans[n], q)
<1>1. PICK n : n = desk[d].item /\ n \in DOMAIN plans
  BY DEF ClosePlan, CatalogueTyped
<1>2. PICK p : p = plans[n] /\ PlanSound(p) /\ p \in PlanRows
  BY <1>1 DEF CatalogueTyped, PlanSound
<1>3. PICK observed : observed = EnsurePlanRevision(p)
  OBVIOUS
<1>4. /\ observed \in PlanRows /\ observed.configuration = p.configuration
      /\ observed.published = p.published /\ observed.closed = p.closed
      /\ Extends(observed.revisions, p.revisions)
  BY <1>2, <1>3, RevisionEnsured DEF Ensured
<1>5. PICK withdrawn : withdrawn = [observed EXCEPT !.active = FALSE, !.listed = FALSE]
  OBVIOUS
<1>6. /\ withdrawn \in PlanRows /\ withdrawn.configuration = p.configuration
      /\ withdrawn.published = p.published /\ ~withdrawn.active /\ ~withdrawn.listed
      /\ withdrawn.revisions = observed.revisions
  BY <1>4, <1>5 DEF PlanRows
<1>7. PICK saved : saved = Saved(withdrawn)
  OBVIOUS
<1>8. /\ saved \in PlanRows /\ saved.configuration = p.configuration
      /\ saved.published = p.published /\ ~saved.active /\ ~saved.listed
      /\ saved.revisions = observed.revisions
  BY <1>6, <1>7, SavedRow
<1>9. PICK ensured : ensured = EnsurePlanRevision(saved)
  OBVIOUS
<1>10. /\ ensured \in PlanRows /\ ensured.configuration = p.configuration
       /\ ensured.published = p.published /\ ~ensured.active /\ ~ensured.listed
       /\ Extends(ensured.revisions, p.revisions)
  BY <1>4, <1>8, <1>9, RevisionEnsured DEF Ensured, Extends
<1>11. PICK q : q = [ensured EXCEPT !.closed = TRUE]
  OBVIOUS
<1>12. /\ q \in PlanRows /\ q.configuration = p.configuration
       /\ q.published = p.published /\ ~q.active /\ ~q.listed /\ Extends(q.revisions, p.revisions)
  BY <1>10, <1>11 DEF PlanRows
<1>13. ~p.closed /\ plans' = [plans EXCEPT ![n] = q]
  BY <1>1, <1>2, <1>3, <1>4, <1>5, <1>7, <1>9, <1>11 DEF ClosePlan, Save
<1>14. PlanMove(p, q)
  BY <1>2, <1>12, <1>13, KeptPublication
<1>15. QED
  BY <1>1, <1>2, <1>12, <1>13, <1>14

\* A draft is sound: it is not open to customers when it is configured.
LEMMA NewPlanRow ==
  ASSUME CatalogueTyped, NEW c \in 0..Len(configurations), NEW terms \in Terms, NEW active \in BOOLEAN,
         c # 0 => ~active
  PROVE  PlanSound(NewPlan(c, terms, active)) /\ NewPlan(c, terms, active).configuration = c
<1>1. PICK draft : draft = [configuration |-> c, terms |-> terms, active |-> active, listed |-> FALSE,
                            stamp |-> 1, published |-> 0, revisions |-> <<>>, closed |-> FALSE]
  OBVIOUS
<1>2. c \in Nat /\ <<>> \in Seq(EvidenceRows)
  BY DEF CatalogueTyped
<1>3. /\ draft \in PlanRows /\ draft.configuration = c /\ draft.active = active /\ ~draft.listed
      /\ ~draft.closed /\ draft.published = 0
  BY <1>1, <1>2 DEF PlanRows
<1>4. PICK q : q = EnsurePlanRevision(draft)
  OBVIOUS
<1>5. /\ q \in PlanRows /\ q.configuration = c /\ q.active = active /\ ~q.listed /\ ~q.closed
      /\ q.published = 0
  BY <1>3, <1>4, RevisionEnsured DEF Ensured
<1>6. q.published \in 0..Len(q.revisions)
  BY <1>5 DEF PlanRows
<1>7. PlanSound(q)
  BY <1>5, <1>6 DEF PlanSound
<1>8. QED
  BY <1>1, <1>4, <1>5, <1>7 DEF NewPlan

-----------------------------------------------------------------------------
(* Agreements and requests. *)

Grades == UNION {t.grades : t \in Terms}
Texts == {t.text : t \in Terms}
AgreementRows ==
  [customer : Customers, plan : Nat, grade : Grades, text : Texts, configuration : Nat,
   from : Nat, revision : Nat]

\* An agreement just made: its revision holds the terms the plan has.
AgreementMade(n, from, row) ==
  /\ agreements' = Append(agreements, row)
  /\ row.plan = n /\ row.from = from
  /\ row.text = plans[n].terms.text /\ row.configuration = plans[n].configuration
  /\ row.grade \in plans[n].terms.grades /\ plans[n].active
  /\ row.revision \in DOMAIN plans'[n].revisions
  /\ plans'[n].revisions[row.revision] = PlanTerms(plans[n])

LEMMA Enrolled ==
  ASSUME CatalogueTyped, NEW c \in Customers, NEW n \in DOMAIN plans, NEW grade \in Grades,
         NEW from \in Nat, EnrolCustomer(c, n, grade, from)
  PROVE  /\ \E q \in PlanRows : plans' = [plans EXCEPT ![n] = q] /\ PlanMove(plans[n], q)
         /\ \E row \in AgreementRows : AgreementMade(n, from, row) /\ row.grade = grade
<1>1. PICK p : p = plans[n] /\ PlanSound(p) /\ p \in PlanRows
  BY DEF CatalogueTyped, PlanSound
<1>2. PICK q : q = IF Independent(p) THEN p ELSE EnsurePlanRevision(p)
  OBVIOUS
<1>3. /\ ~p.closed /\ RequireConfiguredOffer(p) /\ p.active /\ grade \in p.terms.grades
      /\ plans' = [plans EXCEPT ![n] = q]
  BY <1>1, <1>2 DEF EnrolCustomer, Save
<1>4. /\ p.revisions \in Seq(EvidenceRows) /\ DOMAIN p.revisions = 1..Len(p.revisions)
      /\ Len(p.revisions) \in Nat /\ p.published \in 0..Len(p.revisions)
      /\ p.terms.text \in Texts /\ p.configuration \in Nat
  BY <1>1 DEF PlanSound, PlanRows, Texts
<1>5. PICK k : k = IF Independent(p) THEN p.published ELSE Len(q.revisions)
  OBVIOUS
<1>6. PlanMove(p, q) /\ q \in PlanRows /\ k \in DOMAIN q.revisions /\ k \in Nat
      /\ q.revisions[k] = PlanTerms(p)
  <2>1. CASE Independent(p)
    <3>1. PublicationEvidence(p)
      BY <1>3, <2>1 DEF Independent, Schema, RequireConfiguredOffer
    <3>2. p.published \in DOMAIN p.revisions /\ p.revisions[p.published] = PlanTerms(p)
      BY <1>4, <3>1 DEF PublicationEvidence
    <3>3. PlanMove(p, p)
      BY <1>1, <1>3 DEF PlanMove, Extends
    <3>4. QED
      BY <1>1, <1>2, <1>4, <1>5, <2>1, <3>2, <3>3
  <2>2. CASE ~Independent(p)
    <3>1. Ensured(p, q)
      BY <1>1, <1>2, <2>2, RevisionEnsured
    <3>2. PlanTerms(q) = PlanTerms(p) /\ ~q.closed
      BY <1>3, <3>1 DEF Ensured, PlanTerms
    <3>3. PlanMove(p, q)
      BY <1>1, <1>3, <3>1, <3>2, KeptPublication DEF Ensured
    <3>4. QED
      BY <1>5, <2>2, <3>1, <3>3 DEF Ensured, PlanRows
  <2>3. QED
    BY <2>1, <2>2
<1>7. plans'[n] = q
  BY <1>3 DEF CatalogueTyped
<1>8. PICK row : row = [customer |-> c, plan |-> n, grade |-> grade, text |-> p.terms.text,
                        configuration |-> p.configuration, from |-> from, revision |-> k]
  OBVIOUS
<1>9. /\ row \in AgreementRows /\ row.plan = n /\ row.from = from /\ row.grade = grade
      /\ row.text = p.terms.text /\ row.configuration = p.configuration /\ row.revision = k
  <2>1. n \in Nat
    BY DEF CatalogueTyped
  <2>2. QED
    BY <1>4, <1>6, <1>8, <2>1 DEF AgreementRows
<1>10. agreements' = Append(agreements, row)
  BY <1>1, <1>2, <1>5, <1>8 DEF EnrolCustomer
<1>11. AgreementMade(n, from, row)
  BY <1>1, <1>3, <1>6, <1>7, <1>9, <1>10 DEF AgreementMade
<1>12. QED
  BY <1>1, <1>3, <1>6, <1>9, <1>11

Digests == [terms : EvidenceRows, stamp : Nat, published : Nat]
RequestStatuses == {"PENDING_OWNER_REVIEW", "ENROLLED", "DECLINED", "EXPIRED", "WITHDRAWN"}
RequestRows ==
  [customer : Customers, plan : Nat, grade : Grades, text : Texts, configuration : Nat,
   schema : {0, 1, 2}, revision : Nat, digest : Digests \cup {Nothing},
   status : RequestStatuses, overdue : BOOLEAN, account : Nat]

SchemaOf(c) == IF c = 0 THEN 0 ELSE configurations[c].schema

\* A request under an independent offer holds the terms its form displayed.
RequestSound(q) ==
  /\ q.plan \in DOMAIN plans
  /\ q.configuration \in 0..Len(configurations) /\ q.schema = SchemaOf(q.configuration)
  /\ q.schema = 2 => q.digest.terms.terms.text = q.text

RequestsTyped ==
  /\ requests \in Seq(RequestRows)
  /\ \A r \in DOMAIN requests : RequestSound(requests[r])
  /\ DOMAIN screen = Customers
  /\ \A c \in Customers : screen[c].kind = "OFFER" =>
       screen[c].item \in DOMAIN plans /\ screen[c].digest \in Digests

\* The agreement carries what was agreed, of which its revision is evidence.
EvidenceAgrees(a, evidence, asked) ==
  /\ evidence.active /\ evidence.terms.text = a.text
  /\ a.grade \in evidence.terms.grades
  /\ evidence.configuration = a.configuration
  /\ a.from # 0 =>
       /\ a.from \in DOMAIN asked
       /\ asked[a.from].text = a.text /\ asked[a.from].grade = a.grade
       /\ asked[a.from].configuration = a.configuration
       /\ asked[a.from].schema = 2 => asked[a.from].digest.terms = evidence
AgreementUnder(a, offers, asked) ==
  /\ a.plan \in DOMAIN offers /\ a.revision \in DOMAIN offers[a.plan].revisions
  /\ EvidenceAgrees(a, offers[a.plan].revisions[a.revision], asked)
AgreementSound(a) == AgreementUnder(a, plans, requests)

AgreementsTyped ==
  /\ agreements \in Seq(AgreementRows)
  /\ \A a \in DOMAIN agreements : AgreementSound(agreements[a])

Made(r) == {a \in DOMAIN agreements : agreements[a].from = r}
MadeOnce(r) ==
  IF requests[r].status = "ENROLLED" THEN Made(r) = {requests[r].account} ELSE Made(r) = {}

\* Two pending requests ask for different things.
PendingDiffer ==
  \A r, s \in DOMAIN requests :
    /\ Pending(r) /\ Pending(s)
    /\ requests[r].customer = requests[s].customer
    /\ requests[r].plan = requests[s].plan /\ requests[r].grade = requests[s].grade
    => r = s

\* What a step may change of a request: whether it is overdue, and its decision.
RequestKept(old, new) ==
  /\ new \in RequestRows
  /\ new.customer = old.customer /\ new.plan = old.plan /\ new.grade = old.grade
  /\ new.text = old.text /\ new.configuration = old.configuration /\ new.schema = old.schema
  /\ new.digest = old.digest
  /\ new.status = "PENDING_OWNER_REVIEW" => old.status = "PENDING_OWNER_REVIEW"
  /\ old.status = "ENROLLED" => new.status = "ENROLLED" /\ new.account = old.account

RequestsKept ==
  /\ requests' \in Seq(RequestRows) /\ DOMAIN requests \subseteq DOMAIN requests'
  /\ \A r \in DOMAIN requests : RequestKept(requests[r], requests'[r])

\* The requests as an enrolment, a decision or a catalogue step leaves them.
SameRequests == RequestsKept /\ DOMAIN requests' = DOMAIN requests

LEMMA OneRequest ==
  ASSUME RequestsTyped, NEW r \in DOMAIN requests, NEW q, RequestKept(requests[r], q),
         requests' = [requests EXCEPT ![r] = q]
  PROVE  SameRequests
<1>1. requests \in Seq(RequestRows) /\ q \in RequestRows
  BY DEF RequestsTyped, RequestKept
<1>2. /\ requests' \in Seq(RequestRows) /\ DOMAIN requests' = DOMAIN requests
      /\ \A x \in DOMAIN requests : requests'[x] = IF x = r THEN q ELSE requests[x]
  BY <1>1
<1>3. \A x \in DOMAIN requests : RequestKept(requests[x], requests[x])
  BY <1>1 DEF RequestKept
<1>4. QED
  BY <1>2, <1>3 DEF SameRequests, RequestsKept

\* The request that a form leaves, of what it displayed.
LEMMA RequestRow ==
  ASSUME CatalogueTyped, RequestsTyped, NEW c \in Customers, NEW n \in DOMAIN plans,
         NEW grade \in plans[n].terms.grades, screen[c].kind = "OFFER", screen[c].item = n,
         Independent(plans[n]) => screen[c].digest = PlanEditDigest(plans[n])
  PROVE  /\ NewRequest(c, n, grade) \in RequestRows /\ RequestSound(NewRequest(c, n, grade))
         /\ NewRequest(c, n, grade).customer = c /\ NewRequest(c, n, grade).plan = n
         /\ NewRequest(c, n, grade).grade = grade
         /\ NewRequest(c, n, grade).status = "PENDING_OWNER_REVIEW"
<1>1. PICK p : p = plans[n] /\ p \in PlanRows /\ p.configuration \in 0..Len(configurations)
  BY DEF CatalogueTyped
<1>2. /\ p.terms \in Terms /\ p.terms.text \in Texts /\ grade \in Grades /\ p.configuration \in Nat
      /\ n \in Nat /\ p.published \in Nat
  <2>1. p.terms \in Terms /\ p.configuration \in Nat /\ p.published \in Nat
    BY <1>1 DEF PlanRows
  <2>2. p.terms.text \in Texts /\ grade \in Grades
    BY <1>1, <2>1 DEF Texts, Grades
  <2>3. n \in Nat
    BY DEF CatalogueTyped
  <2>4. QED
    BY <2>1, <2>2, <2>3
<1>3. Schema(p) \in {0, 1, 2} /\ Schema(p) = SchemaOf(p.configuration)
  <2>1. CASE p.configuration = 0
    BY <2>1 DEF Schema, SchemaOf
  <2>2. CASE p.configuration # 0
    <3>1. configurations[p.configuration] \in ConfigurationRows
      BY <1>1, <2>2 DEF CatalogueTyped
    <3>2. QED
      BY <2>2, <3>1 DEF Schema, SchemaOf, ConfigurationRows
  <2>3. QED
    BY <2>1, <2>2
<1>4. PICK digest : digest = IF Independent(p) THEN screen[c].digest ELSE Nothing
  OBVIOUS
<1>5. digest \in Digests \cup {Nothing} /\ (Schema(p) = 2 => digest.terms.terms.text = p.terms.text)
  <2>1. CASE Independent(p)
    <3>1. screen[c].digest \in Digests
      BY DEF RequestsTyped
    <3>2. digest.terms = PlanTerms(p)
      BY <1>1, <1>4, <2>1 DEF PlanEditDigest
    <3>3. QED
      BY <1>4, <2>1, <3>1, <3>2 DEF PlanTerms
  <2>2. CASE ~Independent(p)
    BY <1>4, <2>2 DEF Independent
  <2>3. QED
    BY <2>1, <2>2
<1>6. PICK revision : revision = (IF Independent(p) THEN p.published ELSE 0) /\ revision \in Nat
  BY <1>2
<1>7. PICK q : q = [customer |-> c, plan |-> n, grade |-> grade, text |-> p.terms.text,
                    configuration |-> p.configuration, schema |-> Schema(p), revision |-> revision,
                    digest |-> digest, status |-> "PENDING_OWNER_REVIEW", overdue |-> FALSE, account |-> 0]
  OBVIOUS
<1>8. q = NewRequest(c, n, grade)
  BY <1>1, <1>4, <1>6, <1>7 DEF NewRequest
<1>9. q \in RequestRows
  BY <1>2, <1>3, <1>5, <1>6, <1>7 DEF RequestRows, RequestStatuses
<1>10. /\ q.plan = n /\ q.configuration = p.configuration /\ q.schema = Schema(p) /\ q.text = p.terms.text
       /\ q.digest = digest /\ q.customer = c /\ q.grade = grade /\ q.status = "PENDING_OWNER_REVIEW"
  BY <1>7
<1>11. RequestSound(q)
  BY <1>1, <1>3, <1>5, <1>10 DEF RequestSound
<1>12. QED
  BY <1>8, <1>9, <1>10, <1>11

LEMMA SubmittedRequests ==
  ASSUME CatalogueTyped, RequestsTyped, NEW c \in Customers, SubmitRequest(c)
  PROVE  /\ RequestsKept /\ DOMAIN requests' = DOMAIN requests \cup {Len(requests) + 1}
         /\ \A r \in DOMAIN requests : requests'[r].status = "ENROLLED" => requests[r].status = "ENROLLED"
         /\ \E q \in RequestRows :
              /\ requests'[Len(requests) + 1] = q /\ RequestSound(q) /\ q.status = "PENDING_OWNER_REVIEW"
              /\ ~plans[q.plan].closed
              /\ \A r \in DOMAIN requests :
                   /\ requests[r].customer = q.customer /\ requests[r].plan = q.plan
                   /\ requests[r].grade = q.grade
                   => requests'[r].status # "PENDING_OWNER_REVIEW"
<1>t. /\ requests \in Seq(RequestRows) /\ DOMAIN requests = 1..Len(requests) /\ Len(requests) \in Nat
      /\ \A r \in DOMAIN requests : requests[r] \in RequestRows
  BY DEF RequestsTyped
<1>1. PICK n : n = screen[c].item /\ n \in DOMAIN plans /\ screen[c].kind = "OFFER"
  BY DEF SubmitRequest, RequestsTyped
<1>2. /\ RequireConfiguredOffer(plans[n])
      /\ Independent(plans[n]) => screen[c].digest = PlanEditDigest(plans[n])
  BY <1>1 DEF SubmitRequest
<1>3. PICK grade \in plans[n].terms.grades :
        LET overdue == {r \in PendingOf(c, n, grade) : requests[r].overdue}
            kept == [r \in DOMAIN requests |->
                       IF r \in overdue THEN [requests[r] EXCEPT !.status = "EXPIRED"] ELSE requests[r]]
        IN  PendingOf(c, n, grade) = overdue /\ requests' = Append(kept, NewRequest(c, n, grade))
  BY <1>1 DEF SubmitRequest
<1>4. PICK overdue : overdue = {r \in PendingOf(c, n, grade) : requests[r].overdue}
  OBVIOUS
<1>5. PICK kept : kept = [r \in DOMAIN requests |->
                       IF r \in overdue THEN [requests[r] EXCEPT !.status = "EXPIRED"] ELSE requests[r]]
  OBVIOUS
<1>6. PendingOf(c, n, grade) = overdue /\ requests' = Append(kept, NewRequest(c, n, grade))
  BY <1>3, <1>4, <1>5
<1>7. PICK q : q = NewRequest(c, n, grade)
  OBVIOUS
<1>8. /\ q \in RequestRows /\ RequestSound(q) /\ q.customer = c /\ q.plan = n /\ q.grade = grade
      /\ q.status = "PENDING_OWNER_REVIEW"
  BY <1>1, <1>2, <1>7, RequestRow
<1>9. ASSUME NEW r \in DOMAIN requests
      PROVE  /\ RequestKept(requests[r], kept[r])
             /\ kept[r].status = "ENROLLED" => requests[r].status = "ENROLLED"
             /\ requests[r].customer = c /\ requests[r].plan = n /\ requests[r].grade = grade
                => kept[r].status # "PENDING_OWNER_REVIEW"
  <2>1. CASE r \in overdue
    <3>1. PICK x : x = [requests[r] EXCEPT !.status = "EXPIRED"]
      OBVIOUS
    <3>2. /\ x \in RequestRows /\ x.status = "EXPIRED" /\ x.customer = requests[r].customer
          /\ x.plan = requests[r].plan /\ x.grade = requests[r].grade /\ x.text = requests[r].text
          /\ x.configuration = requests[r].configuration /\ x.schema = requests[r].schema
          /\ x.digest = requests[r].digest
      BY <1>t, <3>1 DEF RequestRows, RequestStatuses
    <3>3. requests[r].status = "PENDING_OWNER_REVIEW" /\ kept[r] = x
      BY <1>4, <1>5, <2>1, <3>1 DEF PendingOf, Pending
    <3>4. QED
      BY <3>2, <3>3 DEF RequestKept
  <2>2. CASE r \notin overdue
    <3>1. kept[r] = requests[r]
      BY <1>5, <2>2
    <3>2. requests[r].customer = c /\ requests[r].plan = n /\ requests[r].grade = grade
          => requests[r].status # "PENDING_OWNER_REVIEW"
      BY <1>6, <2>2 DEF PendingOf, Pending
    <3>3. QED
      BY <1>t, <3>1, <3>2 DEF RequestKept
  <2>3. QED
    BY <2>1, <2>2
<1>10. kept \in Seq(RequestRows) /\ DOMAIN kept = DOMAIN requests /\ Len(kept) = Len(requests)
  <2>1. kept \in [1..Len(requests) -> RequestRows]
    BY <1>t, <1>5, <1>9 DEF RequestKept
  <2>2. QED
    BY <1>t, <2>1
<1>11. /\ requests' = Append(kept, q) /\ requests' \in Seq(RequestRows)
       /\ DOMAIN requests' = 1..(Len(requests) + 1) /\ requests'[Len(requests) + 1] = q
       /\ \A r \in DOMAIN requests : requests'[r] = kept[r]
  BY <1>t, <1>6, <1>7, <1>8, <1>10
<1>12. ~plans[n].closed
  BY <1>2 DEF RequireConfiguredOffer
<1>13. RequestsKept
  BY <1>t, <1>9, <1>11 DEF RequestsKept
<1>14. DOMAIN requests' = DOMAIN requests \cup {Len(requests) + 1}
  BY <1>t, <1>11
<1>15. \A r \in DOMAIN requests : requests'[r].status = "ENROLLED" => requests[r].status = "ENROLLED"
  BY <1>9, <1>11
<1>16. \A r \in DOMAIN requests :
         /\ requests[r].customer = q.customer /\ requests[r].plan = q.plan /\ requests[r].grade = q.grade
         => requests'[r].status # "PENDING_OWNER_REVIEW"
  BY <1>8, <1>9, <1>11
<1>17. QED
  BY <1>8, <1>11, <1>12, <1>13, <1>14, <1>15, <1>16

\* A request that is decided otherwise, or grows overdue.
LEMMA DecidedRequests ==
  ASSUME RequestsTyped, NEW r \in DOMAIN requests,
         RequestGrowsOverdue(r) \/ WithdrawRequest(r) \/ DecideRequest(r)
  PROVE  /\ SameRequests /\ UNCHANGED <<catalogueVars, agreements>>
         /\ \A s \in DOMAIN requests : requests'[s].status = "ENROLLED" => requests[s].status = "ENROLLED"
<1>t. requests \in Seq(RequestRows) /\ \A s \in DOMAIN requests : requests[s] \in RequestRows
  BY DEF RequestsTyped
<1>1. ASSUME NEW q \in RequestRows, requests' = [requests EXCEPT ![r] = q], RequestKept(requests[r], q),
             q.status = "ENROLLED" => requests[r].status = "ENROLLED"
      PROVE  /\ SameRequests
             /\ \A s \in DOMAIN requests : requests'[s].status = "ENROLLED" => requests[s].status = "ENROLLED"
  <2>1. SameRequests
    BY <1>1, OneRequest
  <2>2. QED
    BY <1>t, <1>1, <2>1
<1>2. CASE RequestGrowsOverdue(r)
  <2>1. PICK q : q = [requests[r] EXCEPT !.overdue = TRUE]
    OBVIOUS
  <2>2. q \in RequestRows /\ RequestKept(requests[r], q) /\ q.status = requests[r].status
    BY <1>t, <2>1 DEF RequestRows, RequestKept
  <2>3. requests' = [requests EXCEPT ![r] = q] /\ UNCHANGED <<catalogueVars, agreements>>
    BY <1>2, <2>1 DEF RequestGrowsOverdue
  <2>4. QED
    BY <1>1, <2>2, <2>3
<1>3. ASSUME NEW status \in RequestStatuses \ {"ENROLLED", "PENDING_OWNER_REVIEW"}, Decide(r, status)
      PROVE  /\ SameRequests /\ UNCHANGED <<catalogueVars, agreements>>
             /\ \A s \in DOMAIN requests : requests'[s].status = "ENROLLED" => requests[s].status = "ENROLLED"
  <2>1. PICK q : q = [requests[r] EXCEPT !.status = status]
    OBVIOUS
  <2>2. /\ q \in RequestRows /\ q.status = status /\ q.customer = requests[r].customer
        /\ q.plan = requests[r].plan /\ q.grade = requests[r].grade /\ q.text = requests[r].text
        /\ q.configuration = requests[r].configuration /\ q.schema = requests[r].schema
        /\ q.digest = requests[r].digest
    BY <1>t, <2>1 DEF RequestRows
  <2>3. /\ requests' = [requests EXCEPT ![r] = q] /\ UNCHANGED <<catalogueVars, agreements>>
        /\ requests[r].status = "PENDING_OWNER_REVIEW"
    BY <1>3, <2>1 DEF Decide, Pending
  <2>4. RequestKept(requests[r], q)
    BY <2>2, <2>3 DEF RequestKept
  <2>5. QED
    BY <1>1, <2>2, <2>3, <2>4
<1>4. CASE WithdrawRequest(r) \/ DecideRequest(r)
  BY <1>3, <1>4 DEF WithdrawRequest, DecideRequest, RequestStatuses
<1>5. QED
  BY <1>2, <1>4

\* A request that becomes an agreement: the offer is still the one requested.
LEMMA ConvertedRequest ==
  ASSUME CatalogueTyped, RequestsTyped, AgreementsTyped, NEW r \in DOMAIN requests, EnrolFromRequest(r)
  PROVE  /\ SameRequests /\ Pending(r)
         /\ requests'[r].status = "ENROLLED" /\ requests'[r].account = Len(agreements) + 1
         /\ \A s \in DOMAIN requests : s # r => requests'[s] = requests[s]
         /\ \E n \in DOMAIN plans :
              /\ \E q \in PlanRows : plans' = [plans EXCEPT ![n] = q] /\ PlanMove(plans[n], q)
              /\ \E row \in AgreementRows :
                   /\ AgreementMade(n, r, row)
                   /\ requests[r].text = row.text /\ requests[r].grade = row.grade
                   /\ requests[r].configuration = row.configuration
                   /\ requests[r].schema = 2 => requests[r].digest.terms = PlanTerms(plans[n])
<1>t. /\ requests \in Seq(RequestRows) /\ requests[r] \in RequestRows /\ RequestSound(requests[r])
      /\ r \in Nat
  BY DEF RequestsTyped
<1>1. PICK n : n = requests[r].plan /\ n \in DOMAIN plans
  BY <1>t DEF RequestSound
<1>2. PICK c : c = requests[r].customer /\ c \in Customers
  BY <1>t DEF RequestRows
<1>3. PICK grade : grade = requests[r].grade /\ grade \in Grades
  BY <1>t DEF RequestRows
<1>4. /\ EnrolCustomer(c, n, grade, r) /\ OfferIsCurrent(r) /\ Pending(r)
      /\ requests' = [requests EXCEPT ![r].status = "ENROLLED", ![r].account = Len(agreements')]
  BY <1>1, <1>2, <1>3 DEF EnrolFromRequest, Convertible
<1>n. r \in Nat /\ n \in DOMAIN plans /\ c \in Customers /\ grade \in Grades /\ EnrolCustomer(c, n, grade, r)
  BY <1>t, <1>1, <1>2, <1>3, <1>4
<1>5. /\ \E q \in PlanRows : plans' = [plans EXCEPT ![n] = q] /\ PlanMove(plans[n], q)
      /\ \E row \in AgreementRows : AgreementMade(n, r, row) /\ row.grade = grade
  BY <1>n, Enrolled
<1>6. PICK row \in AgreementRows : AgreementMade(n, r, row) /\ row.grade = grade
  BY <1>5
<1>7. PICK k : k = Len(agreements') /\ k = Len(agreements) + 1 /\ k \in Nat
  BY <1>6 DEF AgreementMade, AgreementsTyped
<1>8. PICK q : q = [requests[r] EXCEPT !.status = "ENROLLED", !.account = k]
  OBVIOUS
<1>9. /\ q \in RequestRows /\ q.status = "ENROLLED" /\ q.account = k
      /\ q.customer = requests[r].customer
      /\ q.plan = requests[r].plan /\ q.grade = requests[r].grade /\ q.text = requests[r].text
      /\ q.configuration = requests[r].configuration /\ q.schema = requests[r].schema
      /\ q.digest = requests[r].digest
  BY <1>t, <1>7, <1>8 DEF RequestRows, RequestStatuses
<1>10. requests' = [requests EXCEPT ![r] = q]
  <2>1. requests' = [requests EXCEPT ![r].status = "ENROLLED", ![r].account = k]
    BY <1>4, <1>7
  <2>2. QED
    BY <1>t, <1>8, <2>1
<1>11. RequestKept(requests[r], q)
  BY <1>4, <1>9 DEF RequestKept, Pending
<1>12. SameRequests
  BY <1>10, <1>11, OneRequest
<1>13. /\ requests'[r] = q /\ \A s \in DOMAIN requests : s # r => requests'[s] = requests[s]
  BY <1>t, <1>10
<1>14. /\ requests[r].configuration = plans[n].configuration
       /\ requests[r].schema = 2 => requests[r].digest.terms = PlanTerms(plans[n])
       /\ requests[r].schema = 2 => requests[r].text = plans[n].terms.text
       /\ requests[r].schema # 2 => requests[r].text = plans[n].terms.text
  <2>1. requests[r].configuration = plans[n].configuration
    BY <1>1, <1>4 DEF OfferIsCurrent
  <2>2. requests[r].schema = 2 => requests[r].digest.terms = PlanTerms(plans[n])
    BY <1>1, <1>4 DEF OfferIsCurrent, PlanEditDigest
  <2>3. requests[r].schema = 2 => requests[r].text = plans[n].terms.text
    BY <1>t, <2>2 DEF RequestSound, PlanTerms
  <2>4. requests[r].schema # 2 => requests[r].text = plans[n].terms.text
    BY <1>1, <1>4 DEF OfferIsCurrent
  <2>5. QED
    BY <2>1, <2>2, <2>3, <2>4
<1>15. requests[r].text = row.text /\ requests[r].configuration = row.configuration
  BY <1>6, <1>14 DEF AgreementMade
<1>16. /\ requests[r].text = row.text /\ requests[r].grade = row.grade
       /\ requests[r].configuration = row.configuration
       /\ requests[r].schema = 2 => requests[r].digest.terms = PlanTerms(plans[n])
  BY <1>3, <1>6, <1>14, <1>15
<1>17. Pending(r) /\ requests'[r].status = "ENROLLED" /\ requests'[r].account = Len(agreements) + 1
  BY <1>4, <1>7, <1>9, <1>13
<1>18. QED
  BY <1>n, <1>5, <1>6, <1>12, <1>13, <1>16, <1>17

-----------------------------------------------------------------------------
(* What a step does to the catalogue. *)

PlanMoved ==
  \E n \in DOMAIN plans, q \in PlanRows : plans' = [plans EXCEPT ![n] = q] /\ PlanMove(plans[n], q)
PlanDrafted ==
  \E row \in PlanRows :
    /\ plans' = Append(plans, row) /\ PlanSound(row)
    /\ row.configuration \in 0..Len(configurations)
    /\ row.configuration # 0 => OpenConfiguration(row.configuration)

VersionAdded ==
  \E row \in ConfigurationRows : configurations' = Append(configurations, row) /\ ~row.closed
FamilyClosed ==
  \E c \in DOMAIN configurations :
    /\ configurations' = [configurations EXCEPT ![c].closed = TRUE]
    /\ OpenConfiguration(c) /\ OpenPlansOf(c) = {}

LEMMA PlanSteps ==
  ASSUME CatalogueTyped, RequestsTyped, AgreementsTyped, Next
  PROVE  \/ plans' = plans
         \/ configurations' = configurations /\ (PlanMoved \/ PlanDrafted)
<1>1. ASSUME NEW d \in Desks,
             \/ EditPlan(d) \/ SetConfiguredPlanPublication(d)
             \/ desk[d].kind = "CLOSE_PLAN" /\ ClosePlan(d, Usage(desk[d].item))
      PROVE  configurations' = configurations /\ PlanMoved
  <2>1. PlanMoved
    BY <1>1, EditedPlan, PublishedPlan, ClosedPlan DEF PlanMoved
  <2>2. QED
    BY <1>1, <2>1 DEF EditPlan, SetConfiguredPlanPublication, ClosePlan
<1>2. ASSUME CreatePlan PROVE configurations' = configurations /\ PlanDrafted
  <2>1. PICK c \in 0..Len(configurations), terms \in Terms, active \in BOOLEAN :
          /\ c # 0 => OpenConfiguration(c) /\ ~active
          /\ plans' = Append(plans, NewPlan(c, terms, active))
    BY <1>2 DEF CreatePlan
  <2>2. PICK row : row = NewPlan(c, terms, active)
    OBVIOUS
  <2>3. PlanSound(row) /\ row.configuration = c
    BY <2>1, <2>2, NewPlanRow
  <2>4. row \in PlanRows
    BY <2>3 DEF PlanSound
  <2>5. QED
    BY <1>2, <2>1, <2>2, <2>3, <2>4 DEF PlanDrafted, CreatePlan
<1>3. ASSUME NEW c \in Customers, NEW d \in Desks, EnrolAtCounter(d, c)
      PROVE  configurations' = configurations /\ PlanMoved
  <2>1. PICK n \in DOMAIN plans, grade \in Grades : EnrolCustomer(c, n, grade, 0)
    BY <1>3 DEF EnrolAtCounter, Grades
  <2>2. QED
    BY <1>3, <2>1, Enrolled DEF PlanMoved, EnrolAtCounter
<1>4. ASSUME NEW r \in DOMAIN requests, EnrolFromRequest(r)
      PROVE  configurations' = configurations /\ PlanMoved
  BY <1>4, ConvertedRequest DEF PlanMoved, EnrolFromRequest
<1>5. ASSUME CatalogueStep
      PROVE  plans' = plans \/ (configurations' = configurations /\ (PlanMoved \/ PlanDrafted))
  BY <1>1, <1>2, <1>5
  DEF CatalogueStep, CreateConfigurationVersion, ToggleGate, LoadPlan, PreviewPlanClosure,
      PreviewConfigurationClosure, CloseConfiguration
<1>6. QED
  BY <1>3, <1>4, <1>5
  DEF Next, ShowOffer, SubmitRequest, ContainCustomer, EraseCustomer, RequestGrowsOverdue,
      WithdrawRequest, DecideRequest, Decide, catalogueVars

LEMMA ConfigurationSteps ==
  ASSUME CatalogueTyped, Next
  PROVE  \/ configurations' = configurations
         \/ plans' = plans /\ (VersionAdded \/ FamilyClosed)
<1>1. ASSUME CreateConfigurationVersion PROVE plans' = plans /\ VersionAdded
  <2>1. PICK schema \in {1, 2}, previous \in 0..Len(configurations) :
          configurations' = Append(configurations,
            [schema |-> schema, previous |-> previous, closed |-> FALSE])
    BY <1>1 DEF CreateConfigurationVersion
  <2>2. PICK row : row = [schema |-> schema, previous |-> previous, closed |-> FALSE]
    OBVIOUS
  <2>3. row \in ConfigurationRows /\ ~row.closed
    BY <2>2 DEF ConfigurationRows, CatalogueTyped
  <2>4. QED
    BY <1>1, <2>1, <2>2, <2>3 DEF VersionAdded, CreateConfigurationVersion
<1>2. ASSUME NEW d \in Desks, CloseConfiguration(d) PROVE plans' = plans /\ FamilyClosed
  <2>1. PICK c : c = desk[d].item /\ c \in DOMAIN configurations
    BY <1>2 DEF CloseConfiguration, CatalogueTyped
  <2>2. /\ configurations' = [configurations EXCEPT ![c].closed = TRUE]
        /\ OpenConfiguration(c) /\ OpenPlansOf(c) = {} /\ plans' = plans
    BY <1>2, <2>1 DEF CloseConfiguration, ClosureAllowed
  <2>3. QED
    BY <2>1, <2>2 DEF FamilyClosed
<1>3. QED
  BY <1>1, <1>2
  DEF Next, CatalogueStep, CreatePlan, ToggleGate, LoadPlan, EditPlan, SetConfiguredPlanPublication,
      PreviewPlanClosure, ClosePlan, PreviewConfigurationClosure, ShowOffer, SubmitRequest,
      ContainCustomer, EraseCustomer, EnrolAtCounter, EnrolFromRequest, RequestGrowsOverdue,
      WithdrawRequest, DecideRequest, Decide, catalogueVars

\* A page shows an item of the catalogue.
LEMMA DeskSteps ==
  ASSUME CatalogueTyped, Next
  PROVE  /\ DOMAIN desk' = Desks
         /\ \A d \in Desks :
              /\ desk'[d].kind \in {"PLAN", "CLOSE_PLAN"} => desk'[d].item \in DOMAIN plans
              /\ desk'[d].kind = "CLOSE_CONFIGURATION" => desk'[d].item \in DOMAIN configurations
<1>1. ASSUME NEW e \in Desks, NEW shown, desk' = [desk EXCEPT ![e] = shown],
             shown.kind \in {"PLAN", "CLOSE_PLAN"} => shown.item \in DOMAIN plans,
             shown.kind = "CLOSE_CONFIGURATION" => shown.item \in DOMAIN configurations
      PROVE  /\ DOMAIN desk' = Desks
             /\ \A d \in Desks :
                  /\ desk'[d].kind \in {"PLAN", "CLOSE_PLAN"} => desk'[d].item \in DOMAIN plans
                  /\ desk'[d].kind = "CLOSE_CONFIGURATION" => desk'[d].item \in DOMAIN configurations
  BY <1>1 DEF CatalogueTyped
<1>2. ASSUME NEW d \in Desks, LoadPlan(d)
      PROVE  \E shown : /\ desk' = [desk EXCEPT ![d] = shown]
                        /\ shown.kind \in {"PLAN", "CLOSE_PLAN"} => shown.item \in DOMAIN plans
                        /\ shown.kind = "CLOSE_CONFIGURATION" => shown.item \in DOMAIN configurations
  <2>1. PICK n \in DOMAIN plans : desk' = [desk EXCEPT ![d] =
               [kind |-> "PLAN", item |-> n, digest |-> PlanEditDigest(plans[n])]]
    BY <1>2 DEF LoadPlan
  <2>2. PICK shown : shown = [kind |-> "PLAN", item |-> n, digest |-> PlanEditDigest(plans[n])]
    OBVIOUS
  <2>3. shown.kind = "PLAN" /\ shown.item = n
    BY <2>2
  <2>4. QED
    BY <2>1, <2>2, <2>3
<1>3. ASSUME NEW d \in Desks, NEW n \in DOMAIN plans, NEW usage, PreviewPlanClosure(d, n, usage)
      PROVE  \E shown : /\ desk' = [desk EXCEPT ![d] = shown]
                        /\ shown.kind \in {"PLAN", "CLOSE_PLAN"} => shown.item \in DOMAIN plans
                        /\ shown.kind = "CLOSE_CONFIGURATION" => shown.item \in DOMAIN configurations
  <2>1. PICK shown : shown = PlanPreview(n, usage)
    OBVIOUS
  <2>2. shown.kind = "CLOSE_PLAN" /\ shown.item = n
    BY <2>1 DEF PlanPreview
  <2>3. QED
    BY <1>3, <2>1, <2>2 DEF PreviewPlanClosure
<1>4. ASSUME NEW d \in Desks, PreviewConfigurationClosure(d)
      PROVE  \E shown : /\ desk' = [desk EXCEPT ![d] = shown]
                        /\ shown.kind \in {"PLAN", "CLOSE_PLAN"} => shown.item \in DOMAIN plans
                        /\ shown.kind = "CLOSE_CONFIGURATION" => shown.item \in DOMAIN configurations
  <2>1. PICK c \in DOMAIN configurations : desk' = [desk EXCEPT ![d] = ConfigurationPreview(c)]
    BY <1>4 DEF PreviewConfigurationClosure
  <2>2. PICK shown : shown = ConfigurationPreview(c)
    OBVIOUS
  <2>3. shown.kind = "CLOSE_CONFIGURATION" /\ shown.item = c
    BY <2>2 DEF ConfigurationPreview
  <2>4. QED
    BY <2>1, <2>2, <2>3
<1>5. \/ desk' = desk
      \/ \E d \in Desks :
           \/ LoadPlan(d) \/ PreviewConfigurationClosure(d)
           \/ \E n \in DOMAIN plans : PreviewPlanClosure(d, n, Usage(n))
  BY
  DEF Next, CatalogueStep, CreateConfigurationVersion, CreatePlan, ToggleGate, EditPlan,
      SetConfiguredPlanPublication, ClosePlan, CloseConfiguration, ShowOffer, SubmitRequest,
      ContainCustomer, EraseCustomer, EnrolAtCounter, EnrolFromRequest, RequestGrowsOverdue,
      WithdrawRequest, DecideRequest, Decide, catalogueVars
<1>6. CASE desk' = desk
  BY <1>6 DEF CatalogueTyped
<1>7. ASSUME NEW d \in Desks,
             \/ LoadPlan(d) \/ PreviewConfigurationClosure(d)
             \/ \E n \in DOMAIN plans : PreviewPlanClosure(d, n, Usage(n))
      PROVE  \E shown : /\ desk' = [desk EXCEPT ![d] = shown]
                        /\ shown.kind \in {"PLAN", "CLOSE_PLAN"} => shown.item \in DOMAIN plans
                        /\ shown.kind = "CLOSE_CONFIGURATION" => shown.item \in DOMAIN configurations
  BY <1>2, <1>3, <1>4, <1>7
<1>8. QED
  BY <1>1, <1>5, <1>6, <1>7

\* The catalogue stays sound; what was closed stays as it was, and nothing is
\* drawn from it any more.
LEMMA CatalogueKept ==
  ASSUME CatalogueTyped, ClosedFamilies, RequestsTyped, AgreementsTyped, Next
  PROVE  /\ CatalogueTyped' /\ ClosedFamilies'
         /\ DOMAIN plans \subseteq DOMAIN plans' /\ DOMAIN configurations \subseteq DOMAIN configurations'
         /\ \A n \in DOMAIN plans :
              /\ Extends(plans'[n].revisions, plans[n].revisions)
              /\ plans[n].closed => plans'[n] = plans[n]
         /\ \A c \in DOMAIN configurations :
              /\ configurations'[c].schema = configurations[c].schema
              /\ configurations[c].closed =>
                   /\ configurations'[c] = configurations[c]
                   /\ \A n \in DOMAIN plans' : n \notin DOMAIN plans => plans'[n].configuration # c
<1>t. /\ configurations \in Seq(ConfigurationRows) /\ plans \in Seq(PlanRows)
      /\ DOMAIN plans = 1..Len(plans) /\ Len(plans) \in Nat
      /\ DOMAIN configurations = 1..Len(configurations) /\ Len(configurations) \in Nat
      /\ \A c \in DOMAIN configurations : configurations[c] \in ConfigurationRows
      /\ \A n \in DOMAIN plans : /\ plans[n] \in PlanRows /\ PlanSound(plans[n])
                                 /\ plans[n].configuration \in 0..Len(configurations)
  BY DEF CatalogueTyped
<1>s. \A n \in DOMAIN plans : Extends(plans[n].revisions, plans[n].revisions)
  BY DEF Extends
<1>1. /\ DOMAIN configurations \subseteq DOMAIN configurations'
      /\ configurations' \in Seq(ConfigurationRows) /\ DOMAIN configurations' = 1..Len(configurations')
      /\ Len(configurations') \in Nat /\ Len(configurations') >= Len(configurations)
      /\ \A c \in DOMAIN configurations :
           /\ configurations'[c].schema = configurations[c].schema
           /\ configurations[c].closed => configurations'[c] = configurations[c]
  <2>1. ASSUME NEW row \in ConfigurationRows, configurations' = Append(configurations, row)
        PROVE  /\ configurations' \in Seq(ConfigurationRows) /\ Len(configurations') = Len(configurations) + 1
               /\ DOMAIN configurations' = 1..Len(configurations')
               /\ \A c \in DOMAIN configurations : configurations'[c] = configurations[c]
    BY <1>t, <2>1
  <2>2. ASSUME NEW c \in DOMAIN configurations, OpenConfiguration(c),
               configurations' = [configurations EXCEPT ![c].closed = TRUE]
        PROVE  /\ configurations' \in Seq(ConfigurationRows) /\ Len(configurations') = Len(configurations)
               /\ DOMAIN configurations' = 1..Len(configurations')
               /\ \A x \in DOMAIN configurations :
                    /\ configurations'[x].schema = configurations[x].schema
                    /\ configurations[x].closed => configurations'[x] = configurations[x]
    <3>1. PICK row : row = [configurations[c] EXCEPT !.closed = TRUE]
      OBVIOUS
    <3>2. row \in ConfigurationRows /\ row.schema = configurations[c].schema
      BY <1>t, <3>1 DEF ConfigurationRows
    <3>3. configurations' = [configurations EXCEPT ![c] = row]
      BY <2>2, <3>1
    <3>4. /\ configurations' \in Seq(ConfigurationRows) /\ Len(configurations') = Len(configurations)
          /\ DOMAIN configurations' = DOMAIN configurations
          /\ \A x \in DOMAIN configurations :
               configurations'[x] = IF x = c THEN row ELSE configurations[x]
      BY <1>t, <3>2, <3>3
    <3>5. ~configurations[c].closed
      BY <2>2 DEF OpenConfiguration
    <3>6. QED
      BY <1>t, <3>2, <3>4, <3>5
  <2>3. QED
    BY <1>t, <2>1, <2>2, ConfigurationSteps DEF VersionAdded, FamilyClosed
<1>2. /\ plans' \in Seq(PlanRows) /\ DOMAIN plans \subseteq DOMAIN plans'
      /\ \A n \in DOMAIN plans :
           /\ PlanSound(plans'[n]) /\ plans'[n].configuration = plans[n].configuration
           /\ Extends(plans'[n].revisions, plans[n].revisions)
           /\ plans[n].closed => plans'[n] = plans[n]
      /\ \A n \in DOMAIN plans' \ DOMAIN plans :
           /\ PlanSound(plans'[n]) /\ plans'[n].configuration \in 0..Len(configurations)
           /\ plans'[n].configuration # 0 => OpenConfiguration(plans'[n].configuration)
           /\ configurations' = configurations
  <2>1. CASE plans' = plans
    BY <1>t, <1>s, <2>1
  <2>2. CASE PlanMoved
    <3>1. PICK n \in DOMAIN plans, q \in PlanRows : plans' = [plans EXCEPT ![n] = q] /\ PlanMove(plans[n], q)
      BY <2>2 DEF PlanMoved
    <3>2. /\ plans' \in Seq(PlanRows) /\ DOMAIN plans' = DOMAIN plans
          /\ \A x \in DOMAIN plans : plans'[x] = IF x = n THEN q ELSE plans[x]
      BY <1>t, <3>1
    <3>3. QED
      BY <1>t, <1>s, <3>1, <3>2 DEF PlanMove
  <2>3. CASE configurations' = configurations /\ PlanDrafted
    <3>1. PICK row \in PlanRows :
            /\ plans' = Append(plans, row) /\ PlanSound(row)
            /\ row.configuration \in 0..Len(configurations)
            /\ row.configuration # 0 => OpenConfiguration(row.configuration)
      BY <2>3 DEF PlanDrafted
    <3>2. /\ plans' \in Seq(PlanRows) /\ DOMAIN plans' = 1..(Len(plans) + 1)
          /\ plans'[Len(plans) + 1] = row
          /\ \A x \in DOMAIN plans : plans'[x] = plans[x]
      BY <1>t, <3>1
    <3>3. \A x \in DOMAIN plans' \ DOMAIN plans : x = Len(plans) + 1
      BY <1>t, <3>2
    <3>4. QED
      BY <1>t, <1>s, <2>3, <3>1, <3>2, <3>3
  <2>4. QED
    BY <2>1, <2>2, <2>3, PlanSteps
<1>3. CatalogueTyped'
  <2>0. \A n \in DOMAIN plans' : plans'[n] \in PlanRows
    BY <1>2
  <2>1. \A n \in DOMAIN plans' : PlanSound(plans'[n]) /\ plans'[n].configuration \in 0..Len(configurations')
    <3>1. SUFFICES ASSUME NEW n \in DOMAIN plans'
                   PROVE  PlanSound(plans'[n]) /\ plans'[n].configuration \in 0..Len(configurations')
      OBVIOUS
    <3>2. Len(configurations) <= Len(configurations') /\ Len(configurations) \in Nat
          /\ Len(configurations') \in Nat
      BY <1>t, <1>1
    <3>3. PlanSound(plans'[n]) /\ plans'[n].configuration \in 0..Len(configurations)
      <4>1. CASE n \in DOMAIN plans
        BY <1>t, <1>2, <4>1
      <4>2. CASE n \notin DOMAIN plans
        BY <1>2, <3>1, <4>2
      <4>3. QED
        BY <4>1, <4>2
    <3>4. QED
      BY <3>2, <3>3
  <2>2. QED
    BY <1>1, <1>2, <2>1, DeskSteps DEF CatalogueTyped
<1>4. ClosedFamilies'
  <2>1. SUFFICES ASSUME NEW n \in DOMAIN plans', plans'[n].configuration # 0,
                        configurations'[plans'[n].configuration].closed
                 PROVE  plans'[n].closed
    BY DEF ClosedFamilies
  <2>2. CASE n \notin DOMAIN plans
    BY <1>2, <2>1, <2>2 DEF OpenConfiguration
  <2>3. CASE n \in DOMAIN plans
    <3>1. PICK c : c = plans[n].configuration /\ c \in DOMAIN configurations /\ plans'[n].configuration = c
      BY <1>t, <1>2, <2>1, <2>3
    <3>2. CASE configurations[c].closed
      <4>1. plans[n].closed
        BY <2>1, <2>3, <3>1, <3>2 DEF ClosedFamilies
      <4>2. QED
        BY <1>2, <2>3, <4>1
    <3>3. CASE ~configurations[c].closed
      <4>1. configurations'[c].closed /\ configurations' # configurations
        BY <2>1, <3>1, <3>3
      <4>2. plans' = plans /\ FamilyClosed
        <5>1. ASSUME VersionAdded PROVE FALSE
          <6>1. PICK row \in ConfigurationRows : configurations' = Append(configurations, row)
            BY <5>1 DEF VersionAdded
          <6>2. configurations'[c] = configurations[c]
            BY <1>t, <3>1, <6>1
          <6>3. QED
            BY <3>3, <4>1, <6>2
        <5>2. QED
          BY <4>1, <5>1, ConfigurationSteps
      <4>3. PICK k \in DOMAIN configurations :
              configurations' = [configurations EXCEPT ![k].closed = TRUE] /\ OpenPlansOf(k) = {}
        BY <4>2 DEF FamilyClosed
      <4>4. k = c
        BY <3>1, <3>3, <4>1, <4>3
      <4>5. QED
        BY <2>3, <3>1, <4>2, <4>3, <4>4 DEF OpenPlansOf
    <3>4. QED
      BY <3>2, <3>3
  <2>4. QED
    BY <2>2, <2>3
<1>5. ASSUME NEW c \in DOMAIN configurations, configurations[c].closed,
             NEW n \in DOMAIN plans' \ DOMAIN plans
      PROVE  plans'[n].configuration # c
  BY <1>2, <1>5 DEF OpenConfiguration
<1>6. QED
  BY <1>1, <1>2, <1>3, <1>4, <1>5

-----------------------------------------------------------------------------
(* What a step does to the requests and the agreements. *)

NoneEnrolled ==
  \A r \in DOMAIN requests : requests'[r].status = "ENROLLED" => requests[r].status = "ENROLLED"
NothingAgreed == agreements' = agreements /\ SameRequests /\ NoneEnrolled
AgreedAtCounter ==
  /\ requests' = requests
  /\ \E n \in DOMAIN plans, row \in AgreementRows : AgreementMade(n, 0, row) /\ ~plans[n].closed
RequestAgreed(r) ==
  /\ SameRequests /\ Pending(r)
  /\ requests'[r].status = "ENROLLED" /\ requests'[r].account = Len(agreements) + 1
  /\ \A s \in DOMAIN requests : s # r => requests'[s] = requests[s]
  /\ \E n \in DOMAIN plans, row \in AgreementRows :
       /\ AgreementMade(n, r, row) /\ ~plans[n].closed
       /\ requests[r].text = row.text /\ requests[r].grade = row.grade
       /\ requests[r].configuration = row.configuration
       /\ requests[r].schema = 2 => requests[r].digest.terms = PlanTerms(plans[n])
Requested ==
  /\ agreements' = agreements /\ RequestsKept /\ NoneEnrolled
  /\ DOMAIN requests' = DOMAIN requests \cup {Len(requests) + 1}
  /\ \E q \in RequestRows :
       /\ requests'[Len(requests) + 1] = q /\ RequestSound(q) /\ q.status = "PENDING_OWNER_REVIEW"
       /\ ~plans[q.plan].closed
       /\ \A r \in DOMAIN requests :
            /\ requests[r].customer = q.customer /\ requests[r].plan = q.plan
            /\ requests[r].grade = q.grade
            => requests'[r].status # "PENDING_OWNER_REVIEW"

LEMMA UntouchedRequests ==
  ASSUME RequestsTyped, requests' = requests, agreements' = agreements
  PROVE  NothingAgreed
<1>1. requests \in Seq(RequestRows) /\ \A r \in DOMAIN requests : requests[r] \in RequestRows
  BY DEF RequestsTyped
<1>2. \A r \in DOMAIN requests : RequestKept(requests[r], requests[r])
  BY <1>1 DEF RequestKept
<1>3. QED
  BY <1>1, <1>2 DEF NothingAgreed, SameRequests, RequestsKept, NoneEnrolled

LEMMA RequestSteps ==
  ASSUME CatalogueTyped, RequestsTyped, AgreementsTyped, Next
  PROVE  \/ NothingAgreed \/ AgreedAtCounter \/ Requested
         \/ \E r \in DOMAIN requests : RequestAgreed(r)
<1>1. CASE CatalogueStep
  BY <1>1, UntouchedRequests DEF CatalogueStep, enrolmentVars
<1>2. ASSUME NEW c \in Customers, ShowOffer(c) \/ ContainCustomer(c) \/ EraseCustomer(c)
      PROVE  NothingAgreed
  BY <1>2, UntouchedRequests DEF ShowOffer, ContainCustomer, EraseCustomer
<1>3. ASSUME NEW c \in Customers, NEW d \in Desks, EnrolAtCounter(d, c)
      PROVE  AgreedAtCounter
  <2>1. PICK n \in DOMAIN plans, grade \in Grades : EnrolCustomer(c, n, grade, 0)
    BY <1>3 DEF EnrolAtCounter, Grades
  <2>2. \E row \in AgreementRows : AgreementMade(n, 0, row)
    BY <2>1, Enrolled
  <2>3. ~plans[n].closed /\ requests' = requests
    BY <1>3, <2>1 DEF EnrolCustomer, EnrolAtCounter
  <2>4. QED
    BY <2>2, <2>3 DEF AgreedAtCounter
<1>4. ASSUME NEW c \in Customers, SubmitRequest(c) PROVE Requested
  <2>1. agreements' = agreements
    BY <1>4 DEF SubmitRequest
  <2>2. QED
    BY <1>4, <2>1, SubmittedRequests DEF Requested, NoneEnrolled
<1>5. ASSUME NEW r \in DOMAIN requests,
             RequestGrowsOverdue(r) \/ WithdrawRequest(r) \/ DecideRequest(r)
      PROVE  NothingAgreed
  BY <1>5, DecidedRequests DEF NothingAgreed, NoneEnrolled
<1>6. ASSUME NEW r \in DOMAIN requests, EnrolFromRequest(r) PROVE RequestAgreed(r)
  <2>1. PICK n \in DOMAIN plans :
          /\ PlanMove(plans[n], plans'[n]) \/ ~plans[n].closed
          /\ \E row \in AgreementRows :
                   /\ AgreementMade(n, r, row)
                   /\ requests[r].text = row.text /\ requests[r].grade = row.grade
                   /\ requests[r].configuration = row.configuration
                   /\ requests[r].schema = 2 => requests[r].digest.terms = PlanTerms(plans[n])
    BY <1>6, ConvertedRequest DEF PlanMove
  <2>2. ~plans[n].closed
    BY <2>1 DEF PlanMove
  <2>3. QED
    BY <1>6, <2>1, <2>2, ConvertedRequest DEF RequestAgreed
<1>7. QED
  BY <1>1, <1>2, <1>3, <1>4, <1>5, <1>6 DEF Next

\* An offer is shown as its plan stands.
LEMMA ScreenSteps ==
  ASSUME CatalogueTyped, RequestsTyped, Next
  PROVE  /\ DOMAIN screen' = Customers
         /\ \A c \in Customers : screen'[c].kind = "OFFER" =>
              screen'[c].item \in DOMAIN plans /\ screen'[c].digest \in Digests
<1>1. CASE screen' = screen
  BY <1>1 DEF RequestsTyped
<1>2. ASSUME NEW c \in Customers, ShowOffer(c)
      PROVE  /\ DOMAIN screen' = Customers
             /\ \A x \in Customers : screen'[x].kind = "OFFER" =>
                  screen'[x].item \in DOMAIN plans /\ screen'[x].digest \in Digests
  <2>1. PICK n \in DOMAIN plans : screen' = [screen EXCEPT ![c] =
               [kind |-> "OFFER", item |-> n, digest |-> PlanEditDigest(plans[n])]]
    BY <1>2 DEF ShowOffer
  <2>2. PICK digest : digest = PlanEditDigest(plans[n])
    OBVIOUS
  <2>3. digest \in Digests
    <3>1. plans[n] \in PlanRows
      BY DEF CatalogueTyped
    <3>2. PICK evidence : evidence = PlanTerms(plans[n])
      OBVIOUS
    <3>3. evidence \in EvidenceRows
      BY <3>1, <3>2 DEF PlanTerms, PlanRows, EvidenceRows
    <3>4. PICK published \in Nat :
            published = IF plans[n].configuration = 0 THEN 0 ELSE plans[n].published
      BY <3>1 DEF PlanRows
    <3>5. digest = [terms |-> evidence, stamp |-> plans[n].stamp, published |-> published]
      BY <2>2, <3>2, <3>4 DEF PlanEditDigest
    <3>6. plans[n].stamp \in Nat
      BY <3>1 DEF PlanRows
    <3>7. QED
      BY <3>3, <3>5, <3>6 DEF Digests
  <2>4. PICK shown : shown = [kind |-> "OFFER", item |-> n, digest |-> digest]
    OBVIOUS
  <2>5. shown.item = n /\ shown.digest = digest
    BY <2>4
  <2>6. screen' = [screen EXCEPT ![c] = shown]
    BY <2>1, <2>2, <2>4
  <2>7. QED
    BY <2>3, <2>5, <2>6 DEF RequestsTyped
<1>3. screen' = screen \/ \E c \in Customers : ShowOffer(c)
  BY DEF Next, CatalogueStep, enrolmentVars, SubmitRequest, ContainCustomer, EraseCustomer,
         EnrolAtCounter, EnrolFromRequest, RequestGrowsOverdue, WithdrawRequest, DecideRequest, Decide
<1>4. QED
  BY <1>1, <1>2, <1>3

\* What a request is bound to stays: its plan and the schema it was made under.
LEMMA RequestsStayTyped ==
  ASSUME CatalogueTyped, ClosedFamilies, RequestsTyped, AgreementsTyped, Next
  PROVE  RequestsTyped'
<1>t. /\ DOMAIN plans \subseteq DOMAIN plans' /\ DOMAIN configurations \subseteq DOMAIN configurations'
      /\ \A c \in DOMAIN configurations : configurations'[c].schema = configurations[c].schema
      /\ DOMAIN configurations = 1..Len(configurations) /\ Len(configurations) \in Nat
      /\ DOMAIN configurations' = 1..Len(configurations') /\ Len(configurations') \in Nat
      /\ Len(configurations) <= Len(configurations')
  <2>1. CatalogueTyped'
    BY CatalogueKept
  <2>2. /\ DOMAIN configurations = 1..Len(configurations) /\ Len(configurations) \in Nat
        /\ DOMAIN configurations' = 1..Len(configurations') /\ Len(configurations') \in Nat
    BY <2>1 DEF CatalogueTyped
  <2>3. DOMAIN configurations \subseteq DOMAIN configurations'
    BY CatalogueKept
  <2>4. Len(configurations) <= Len(configurations')
    BY <2>2, <2>3
  <2>5. QED
    BY <2>2, <2>4, CatalogueKept
<1>1. ASSUME NEW q, RequestSound(q), NEW new, new.plan = q.plan, new.configuration = q.configuration,
             new.schema = q.schema, new.digest = q.digest, new.text = q.text
      PROVE  /\ new.plan \in DOMAIN plans'
             /\ new.configuration \in 0..Len(configurations')
             /\ new.schema = IF new.configuration = 0 THEN 0 ELSE configurations'[new.configuration].schema
             /\ new.schema = 2 => new.digest.terms.terms.text = new.text
  <2>1. new.configuration \in 0..Len(configurations')
    BY <1>t, <1>1 DEF RequestSound
  <2>2. new.schema = IF new.configuration = 0 THEN 0 ELSE configurations'[new.configuration].schema
    BY <1>t, <1>1 DEF RequestSound, SchemaOf
  <2>3. QED
    BY <1>t, <1>1, <2>1, <2>2 DEF RequestSound
<1>2. /\ requests' \in Seq(RequestRows)
      /\ \A r \in DOMAIN requests' : \E q :
           /\ RequestSound(q) /\ requests'[r].plan = q.plan /\ requests'[r].configuration = q.configuration
           /\ requests'[r].schema = q.schema /\ requests'[r].digest = q.digest
           /\ requests'[r].text = q.text
  <2>1. ASSUME RequestsKept, NEW r \in DOMAIN requests
        PROVE  /\ RequestSound(requests[r]) /\ requests'[r].plan = requests[r].plan
               /\ requests'[r].configuration = requests[r].configuration
               /\ requests'[r].schema = requests[r].schema /\ requests'[r].digest = requests[r].digest
               /\ requests'[r].text = requests[r].text
    BY <2>1 DEF RequestsTyped, RequestsKept, RequestKept
  <2>2. CASE SameRequests
    BY <2>1, <2>2 DEF SameRequests, RequestsKept
  <2>3. CASE Requested
    <3>1. RequestsKept /\ requests' \in Seq(RequestRows)
      BY <2>3 DEF Requested, RequestsKept
    <3>2. PICK q : RequestSound(q) /\ requests'[Len(requests) + 1] = q
      BY <2>3 DEF Requested
    <3>3. DOMAIN requests' = DOMAIN requests \cup {Len(requests) + 1}
      BY <2>3 DEF Requested
    <3>4. QED
      BY <2>1, <3>1, <3>2, <3>3
  <2>4. CASE requests' = requests
    BY <2>4 DEF RequestsTyped
  <2>5. QED
    BY <2>2, <2>3, <2>4, RequestSteps DEF NothingAgreed, AgreedAtCounter, RequestAgreed
<1>3. \A r \in DOMAIN requests' :
        /\ requests'[r].plan \in DOMAIN plans'
        /\ requests'[r].configuration \in 0..Len(configurations')
        /\ requests'[r].schema = IF requests'[r].configuration = 0 THEN 0
                                 ELSE configurations'[requests'[r].configuration].schema
        /\ requests'[r].schema = 2 => requests'[r].digest.terms.terms.text = requests'[r].text
  BY <1>1, <1>2
<1>4. /\ DOMAIN screen' = Customers
      /\ \A c \in Customers : screen'[c].kind = "OFFER" =>
           screen'[c].item \in DOMAIN plans' /\ screen'[c].digest \in Digests
  BY <1>t, ScreenSteps
<1>5. QED
  BY <1>2, <1>3, <1>4 DEF RequestsTyped, RequestSound, SchemaOf

\* Evidence is never withdrawn: what an agreement records stays where it is.
LEMMA AgreementsStaySound ==
  ASSUME CatalogueTyped, ClosedFamilies, RequestsTyped, AgreementsTyped, Next
  PROVE  AgreementsTyped'
<1>t. /\ agreements \in Seq(AgreementRows) /\ Len(agreements) \in Nat
      /\ DOMAIN agreements = 1..Len(agreements)
      /\ DOMAIN plans \subseteq DOMAIN plans'
      /\ \A n \in DOMAIN plans : Extends(plans'[n].revisions, plans[n].revisions)
  BY CatalogueKept DEF AgreementsTyped
<1>k. RequestsKept
  <2>1. requests' = requests => RequestsKept
    BY DEF RequestsTyped, RequestsKept, RequestKept
  <2>2. QED
    BY <2>1, RequestSteps
    DEF NothingAgreed, AgreedAtCounter, RequestAgreed, Requested, SameRequests
<1>1. ASSUME NEW a, NEW evidence, EvidenceAgrees(a, evidence, requests)
      PROVE  EvidenceAgrees(a, evidence, requests')
  BY <1>k, <1>1 DEF RequestsKept, RequestKept, EvidenceAgrees
<1>2. ASSUME NEW a, AgreementSound(a) PROVE AgreementUnder(a, plans', requests')
  <2>1. PICK evidence : evidence = plans[a.plan].revisions[a.revision]
    OBVIOUS
  <2>2. EvidenceAgrees(a, evidence, requests')
    BY <1>1, <1>2, <2>1 DEF AgreementSound, AgreementUnder
  <2>3. /\ a.plan \in DOMAIN plans' /\ a.revision \in DOMAIN plans'[a.plan].revisions
        /\ evidence = plans'[a.plan].revisions[a.revision]
    BY <1>t, <1>2, <2>1 DEF AgreementSound, AgreementUnder, Extends
  <2>4. QED
    BY <2>2, <2>3 DEF AgreementUnder
<1>3. ASSUME NEW n \in DOMAIN plans, NEW from, NEW a \in AgreementRows, AgreementMade(n, from, a),
             from = 0 \/ /\ from \in DOMAIN requests
                         /\ requests[from].text = a.text /\ requests[from].grade = a.grade
                         /\ requests[from].configuration = a.configuration
                         /\ requests[from].schema = 2 => requests[from].digest.terms = PlanTerms(plans[n])
      PROVE  AgreementUnder(a, plans', requests')
  <2>1. PICK evidence : evidence = PlanTerms(plans[n])
    OBVIOUS
  <2>2. /\ evidence.active = plans[n].active /\ evidence.terms = plans[n].terms
        /\ evidence.configuration = plans[n].configuration
    BY <2>1 DEF PlanTerms
  <2>3. EvidenceAgrees(a, evidence, requests)
    BY <1>3, <2>1, <2>2 DEF AgreementMade, EvidenceAgrees
  <2>4. /\ plans'[a.plan].revisions[a.revision] = evidence
        /\ a.plan \in DOMAIN plans' /\ a.revision \in DOMAIN plans'[a.plan].revisions
    BY <1>t, <1>3, <2>1 DEF AgreementMade
  <2>5. QED
    BY <1>1, <2>3, <2>4 DEF AgreementUnder
<1>4. ASSUME NEW a \in DOMAIN agreements PROVE AgreementSound(agreements[a])
  BY DEF AgreementsTyped
<1>5. agreements' \in Seq(AgreementRows)
      /\ \A a \in DOMAIN agreements' : AgreementUnder(agreements'[a], plans', requests')
  <2>1. CASE agreements' = agreements
    BY <1>t, <1>2, <1>4, <2>1
  <2>2. ASSUME NEW n \in DOMAIN plans, NEW row \in AgreementRows, NEW from, AgreementMade(n, from, row),
               from = 0 \/ /\ from \in DOMAIN requests
                           /\ requests[from].text = row.text /\ requests[from].grade = row.grade
                           /\ requests[from].configuration = row.configuration
                           /\ requests[from].schema = 2 => requests[from].digest.terms = PlanTerms(plans[n])
        PROVE  agreements' \in Seq(AgreementRows)
               /\ \A a \in DOMAIN agreements' : AgreementUnder(agreements'[a], plans', requests')
    <3>1. /\ agreements' \in Seq(AgreementRows) /\ DOMAIN agreements' = 1..(Len(agreements) + 1)
          /\ agreements'[Len(agreements) + 1] = row
          /\ \A a \in DOMAIN agreements : agreements'[a] = agreements[a]
      BY <1>t, <2>2 DEF AgreementMade
    <3>2. \A a \in DOMAIN agreements' : a = Len(agreements) + 1 \/ a \in DOMAIN agreements
      BY <1>t, <3>1
    <3>3. AgreementUnder(row, plans', requests')
      BY <1>3, <2>2
    <3>4. ASSUME NEW a \in DOMAIN agreements PROVE AgreementUnder(agreements'[a], plans', requests')
      BY <1>2, <1>4, <3>1, <3>4
    <3>5. QED
      BY <3>1, <3>2, <3>3, <3>4
  <2>3. QED
    BY <2>1, <2>2, RequestSteps DEF NothingAgreed, AgreedAtCounter, RequestAgreed, Requested
<1>6. QED
  BY <1>5 DEF AgreementsTyped, AgreementSound

LEMMA StayMadeOnce ==
  ASSUME CatalogueTyped, RequestsTyped, AgreementsTyped, \A r \in DOMAIN requests : MadeOnce(r), Next
  PROVE  \A r \in DOMAIN requests' : MadeOnce(r)'
<1>t. /\ agreements \in Seq(AgreementRows) /\ Len(agreements) \in Nat
      /\ DOMAIN agreements = 1..Len(agreements)
      /\ requests \in Seq(RequestRows) /\ Len(requests) \in Nat /\ DOMAIN requests = 1..Len(requests)
  BY DEF AgreementsTyped, RequestsTyped
<1>1. \A a \in DOMAIN agreements : agreements[a].from = 0 \/ agreements[a].from \in DOMAIN requests
  BY DEF AgreementsTyped, AgreementSound, AgreementUnder, EvidenceAgrees
<1>2. ASSUME NEW r \in DOMAIN requests, RequestsKept, requests'[r].status = "ENROLLED" => requests[r].status = "ENROLLED",
             {a \in DOMAIN agreements' : agreements'[a].from = r} = Made(r)
      PROVE  MadeOnce(r)'
  <2>1. CASE requests[r].status = "ENROLLED"
    <3>1. requests'[r].status = "ENROLLED" /\ requests'[r].account = requests[r].account
      BY <1>2, <2>1 DEF RequestsKept, RequestKept
    <3>2. Made(r) = {requests[r].account}
      BY <2>1 DEF MadeOnce
    <3>3. QED
      BY <1>2, <3>1, <3>2 DEF MadeOnce, Made
  <2>2. CASE requests[r].status # "ENROLLED"
    <3>1. Made(r) = {}
      BY <2>2 DEF MadeOnce
    <3>2. QED
      BY <1>2, <2>2, <3>1 DEF MadeOnce, Made
  <2>3. QED
    BY <2>1, <2>2
<1>3. CASE NothingAgreed
  BY <1>2, <1>3 DEF NothingAgreed, SameRequests, NoneEnrolled, Made
<1>4. ASSUME NEW n \in DOMAIN plans, NEW row \in AgreementRows, NEW from, AgreementMade(n, from, row)
      PROVE  /\ DOMAIN agreements' = 1..(Len(agreements) + 1) /\ agreements'[Len(agreements) + 1].from = from
             /\ \A a \in DOMAIN agreements : agreements'[a] = agreements[a]
             /\ \A r : {a \in DOMAIN agreements' : agreements'[a].from = r} =
                       IF r = from THEN Made(r) \cup {Len(agreements) + 1} ELSE Made(r)
  <2>1. /\ DOMAIN agreements' = 1..(Len(agreements) + 1) /\ agreements'[Len(agreements) + 1] = row
        /\ row.from = from
        /\ \A a \in DOMAIN agreements : agreements'[a] = agreements[a]
    BY <1>t, <1>4 DEF AgreementMade
  <2>2. \A a \in DOMAIN agreements' : a = Len(agreements) + 1 \/ a \in DOMAIN agreements
    BY <1>t, <2>1
  <2>3. DOMAIN agreements \subseteq DOMAIN agreements' /\ Len(agreements) + 1 \in DOMAIN agreements'
    BY <1>t, <2>1
  <2>4. QED
    BY <2>1, <2>2, <2>3 DEF Made
<1>5. CASE AgreedAtCounter
  <2>1. PICK n \in DOMAIN plans, row \in AgreementRows : AgreementMade(n, 0, row)
    BY <1>5 DEF AgreedAtCounter
  <2>2. requests' = requests /\ \A r \in DOMAIN requests : r # 0
    BY <1>t, <1>5 DEF AgreedAtCounter
  <2>3. \A r \in DOMAIN requests : {a \in DOMAIN agreements' : agreements'[a].from = r} = Made(r)
    BY <1>4, <2>1, <2>2
  <2>4. RequestsKept
    BY <2>2 DEF RequestsTyped, RequestsKept, RequestKept
  <2>5. QED
    BY <1>2, <2>2, <2>3, <2>4
<1>6. ASSUME NEW s \in DOMAIN requests, RequestAgreed(s)
      PROVE  \A r \in DOMAIN requests' : MadeOnce(r)'
  <2>1. PICK n \in DOMAIN plans, row \in AgreementRows : AgreementMade(n, s, row)
    BY <1>6 DEF RequestAgreed
  <2>2. /\ RequestsKept /\ DOMAIN requests' = DOMAIN requests
        /\ \A r \in DOMAIN requests : r # s => requests'[r] = requests[r]
        /\ requests'[s].status = "ENROLLED" /\ requests'[s].account = Len(agreements) + 1
        /\ requests[s].status # "ENROLLED"
    BY <1>6 DEF RequestAgreed, SameRequests, Pending
  <2>3. \A r \in DOMAIN requests : r # s => {a \in DOMAIN agreements' : agreements'[a].from = r} = Made(r)
    BY <1>4, <2>1
  <2>4. {a \in DOMAIN agreements' : agreements'[a].from = s} = {Len(agreements) + 1}
    <3>1. Made(s) = {}
      BY <2>2 DEF MadeOnce
    <3>2. QED
      BY <1>4, <2>1, <3>1
  <2>5. MadeOnce(s)'
    BY <2>2, <2>4 DEF MadeOnce, Made
  <2>6. \A r \in DOMAIN requests : r # s => MadeOnce(r)'
    BY <1>2, <2>2, <2>3
  <2>7. QED
    BY <2>2, <2>5, <2>6
<1>7. CASE Requested
  <2>n. PICK k : k = Len(requests) + 1
    OBVIOUS
  <2>1. /\ RequestsKept /\ NoneEnrolled /\ agreements' = agreements
        /\ DOMAIN requests' = DOMAIN requests \cup {k}
        /\ requests'[k].status = "PENDING_OWNER_REVIEW"
    BY <1>7, <2>n DEF Requested
  <2>2. \A r \in DOMAIN requests : MadeOnce(r)'
    BY <1>2, <2>1 DEF NoneEnrolled, Made
  <2>3. {a \in DOMAIN agreements : agreements[a].from = k} = {}
    BY <1>t, <1>1, <2>n
  <2>4. MadeOnce(k)'
    BY <2>1, <2>3 DEF MadeOnce, Made
  <2>5. QED
    BY <2>1, <2>2, <2>4
<1>8. QED
  BY <1>3, <1>5, <1>6, <1>7, RequestSteps

LEMMA PendingStayDifferent ==
  ASSUME CatalogueTyped, RequestsTyped, AgreementsTyped, PendingDiffer, Next
  PROVE  PendingDiffer'
<1>1. ASSUME RequestsKept, NEW r \in DOMAIN requests, NEW s \in DOMAIN requests,
             requests'[r].status = "PENDING_OWNER_REVIEW", requests'[s].status = "PENDING_OWNER_REVIEW",
             requests'[r].customer = requests'[s].customer, requests'[r].plan = requests'[s].plan,
             requests'[r].grade = requests'[s].grade
      PROVE  r = s
  <2>1. RequestKept(requests[r], requests'[r]) /\ RequestKept(requests[s], requests'[s])
    BY <1>1 DEF RequestsKept
  <2>2. QED
    BY <1>1, <2>1 DEF RequestKept, PendingDiffer, Pending
<1>2. CASE RequestsKept /\ DOMAIN requests' = DOMAIN requests
  BY <1>1, <1>2 DEF PendingDiffer, Pending
<1>3. CASE requests' = requests
  BY <1>3 DEF PendingDiffer, Pending
<1>4. CASE Requested
  <2>1. PICK q \in RequestRows :
          /\ requests'[Len(requests) + 1] = q
          /\ \A r \in DOMAIN requests :
               /\ requests[r].customer = q.customer /\ requests[r].plan = q.plan
               /\ requests[r].grade = q.grade
               => requests'[r].status # "PENDING_OWNER_REVIEW"
    BY <1>4 DEF Requested
  <2>2. RequestsKept /\ DOMAIN requests' = DOMAIN requests \cup {Len(requests) + 1}
    BY <1>4 DEF Requested
  <2>3. ASSUME NEW r \in DOMAIN requests, requests'[r].status = "PENDING_OWNER_REVIEW",
               requests'[r].customer = q.customer, requests'[r].plan = q.plan, requests'[r].grade = q.grade
        PROVE  FALSE
    BY <2>1, <2>2, <2>3 DEF RequestsKept, RequestKept
  <2>4. QED
    BY <1>1, <2>1, <2>2, <2>3 DEF PendingDiffer, Pending
<1>5. QED
  BY <1>2, <1>3, <1>4, RequestSteps DEF NothingAgreed, AgreedAtCounter, RequestAgreed, SameRequests

-----------------------------------------------------------------------------
(* The invariant, and what it gives. *)

EnrolmentInv ==
  /\ CatalogueTyped /\ ClosedFamilies
  /\ RequestsTyped /\ AgreementsTyped
  /\ \A r \in DOMAIN requests : MadeOnce(r)
  /\ PendingDiffer

LEMMA EnrolmentInit == Init => EnrolmentInv
<1>. SUFFICES ASSUME Init PROVE EnrolmentInv
  OBVIOUS
<1>1. CatalogueTyped
  <2>1. /\ configurations \in Seq(ConfigurationRows) /\ Len(configurations) = 0
    BY DEF Init, CatalogueInit
  <2>2. PICK OldRows :
          OldRows = [configuration : {0}, terms : Terms, active : BOOLEAN, listed : BOOLEAN, stamp : Nat,
                     published : {0}, revisions : {<<>>}, closed : {FALSE}]
    OBVIOUS
  <2>3. plans \in Seq(OldRows)
    BY <2>2, FirstPlansAssumption DEF Init, CatalogueInit
  <2>4. ASSUME NEW p \in OldRows PROVE PlanSound(p) /\ p \in PlanRows /\ p.configuration = 0
    <3>1. PICK s : s = p.revisions /\ s = <<>>
      BY <2>2, <2>4
    <3>2. s \in Seq(EvidenceRows)
      BY <3>1
    <3>3. PICK terms, active, listed, stamp :
            /\ terms = p.terms /\ active = p.active /\ listed = p.listed /\ stamp = p.stamp
      OBVIOUS
    <3>4. /\ p = [configuration |-> 0, terms |-> terms, active |-> active, listed |-> listed,
                  stamp |-> stamp, published |-> 0, revisions |-> s, closed |-> FALSE]
          /\ terms \in Terms /\ active \in BOOLEAN /\ listed \in BOOLEAN /\ stamp \in Nat
      BY <2>2, <2>4, <3>1, <3>3
    <3>5. p \in PlanRows
      BY <3>2, <3>4 DEF PlanRows
    <3>6. /\ p \in PlanRows /\ p.configuration = 0 /\ p.published = 0 /\ p.closed = FALSE
          /\ p.revisions = <<>>
      BY <3>1, <3>4, <3>5
    <3>7. QED
      BY <3>6 DEF PlanSound
  <2>5. plans \in Seq(PlanRows)
    BY <2>3, <2>4
  <2>6. \A n \in DOMAIN plans : PlanSound(plans[n]) /\ plans[n].configuration \in 0..Len(configurations)
    BY <2>1, <2>3, <2>4
  <2>7. DOMAIN desk = Desks /\ \A d \in Desks : desk[d].kind = "NONE"
    BY DEF Init, CatalogueInit, Nothing
  <2>8. QED
    BY <2>1, <2>5, <2>6, <2>7 DEF CatalogueTyped
<1>2. ClosedFamilies
  BY <1>1 DEF ClosedFamilies, CatalogueTyped, Init, CatalogueInit
<1>3. RequestsTyped
  BY DEF RequestsTyped, Init, Nothing
<1>4. AgreementsTyped /\ (\A r \in DOMAIN requests : MadeOnce(r)) /\ PendingDiffer
  BY DEF AgreementsTyped, PendingDiffer, Init
<1>5. QED
  BY <1>1, <1>2, <1>3, <1>4 DEF EnrolmentInv

LEMMA EnrolmentStutter == EnrolmentInv /\ UNCHANGED vars => EnrolmentInv'
<1>. SUFFICES ASSUME EnrolmentInv, UNCHANGED vars PROVE EnrolmentInv'
  OBVIOUS
<1>1. /\ configurations' = configurations /\ plans' = plans /\ desk' = desk
      /\ screen' = screen /\ requests' = requests /\ agreements' = agreements
  BY DEF vars, catalogueVars, enrolmentVars
<1>2. CatalogueTyped'
  BY <1>1 DEF EnrolmentInv, CatalogueTyped
<1>3. ClosedFamilies'
  BY <1>1 DEF EnrolmentInv, ClosedFamilies
<1>4. RequestsTyped'
  BY <1>1 DEF EnrolmentInv, RequestsTyped, RequestSound, SchemaOf
<1>5. AgreementsTyped'
  BY <1>1 DEF EnrolmentInv, AgreementsTyped, AgreementSound
<1>6. \A r \in DOMAIN requests' : MadeOnce(r)'
  BY <1>1 DEF EnrolmentInv, MadeOnce, Made
<1>7. PendingDiffer'
  BY <1>1 DEF EnrolmentInv, PendingDiffer, Pending
<1>8. QED
  BY <1>2, <1>3, <1>4, <1>5, <1>6, <1>7 DEF EnrolmentInv

LEMMA EnrolmentNext == EnrolmentInv /\ [Next]_vars => EnrolmentInv'
<1>1. ASSUME EnrolmentInv, Next PROVE EnrolmentInv'
  <2>1. /\ CatalogueTyped /\ ClosedFamilies /\ RequestsTyped /\ AgreementsTyped
        /\ (\A r \in DOMAIN requests : MadeOnce(r)) /\ PendingDiffer
    BY <1>1 DEF EnrolmentInv
  <2>2. CatalogueTyped' /\ ClosedFamilies'
    BY <1>1, <2>1, CatalogueKept
  <2>3. RequestsTyped'
    BY <1>1, <2>1, RequestsStayTyped
  <2>4. AgreementsTyped'
    BY <1>1, <2>1, AgreementsStaySound
  <2>5. \A r \in DOMAIN requests' : MadeOnce(r)'
    BY <1>1, <2>1, StayMadeOnce
  <2>6. PendingDiffer'
    BY <1>1, <2>1, PendingStayDifferent
  <2>7. QED
    BY <2>2, <2>3, <2>4, <2>5, <2>6 DEF EnrolmentInv
<1>2. QED
  BY <1>1, EnrolmentStutter

LEMMA EnrolmentInvariant == Spec => []EnrolmentInv
  BY EnrolmentInit, EnrolmentNext, PTL DEF Spec

\* The invariant gives what the run asks of the agreements.
LEMMA AgreedAsRequested == EnrolmentInv => AgreedIsRequested
<1>. SUFFICES ASSUME EnrolmentInv PROVE AgreedIsRequested
  OBVIOUS
<1>1. \A a \in DOMAIN agreements : AgreementSound(agreements[a])
  BY DEF EnrolmentInv, AgreementsTyped
<1>2. ASSUME NEW a \in DOMAIN agreements
      PROVE  LET agreed == agreements[a]
                 evidence == plans[agreed.plan].revisions[agreed.revision]
                 r == agreed.from
             IN  /\ evidence.active /\ evidence.terms.text = agreed.text
                 /\ agreed.grade \in evidence.terms.grades
                 /\ evidence.configuration = agreed.configuration
                 /\ r # 0 =>
                      /\ requests[r].text = agreed.text /\ requests[r].grade = agreed.grade
                      /\ requests[r].configuration = agreed.configuration
                      /\ requests[r].schema = 2 => requests[r].digest.terms = evidence
  BY <1>1 DEF AgreementSound, AgreementUnder, EvidenceAgrees
<1>3. \A r \in DOMAIN requests :
        LET made == {a \in DOMAIN agreements : agreements[a].from = r}
        IN  IF requests[r].status = "ENROLLED" THEN made = {requests[r].account} ELSE made = {}
  BY DEF EnrolmentInv, MadeOnce, Made
<1>4. ASSUME NEW c \in Customers, NEW n \in DOMAIN plans, NEW g \in UNION {t.grades : t \in Terms}
      PROVE  Cardinality(PendingOf(c, n, g)) <= 1
  <2>1. \A r, s \in PendingOf(c, n, g) : r = s
    BY DEF EnrolmentInv, PendingDiffer, PendingOf
  <2>2. CASE PendingOf(c, n, g) = {}
    <3>1. Cardinality(PendingOf(c, n, g)) = 0
      BY <2>2, FS_EmptySet
    <3>2. QED
      BY <3>1
  <2>3. CASE PendingOf(c, n, g) # {}
    <3>1. PICK r : PendingOf(c, n, g) = {r}
      BY <2>1, <2>3
    <3>2. Cardinality({r}) = 1
      BY FS_Singleton
    <3>3. QED
      BY <3>1, <3>2
  <2>4. QED
    BY <2>2, <2>3
<1>5. EnrolledOnce
  BY <1>3, <1>4 DEF EnrolledOnce
<1>6. QED
  BY <1>2, <1>5 DEF AgreedIsRequested

\* An agreement carries the terms its customer confirmed, its revision is
\* evidence of them, and a request leads to one agreement at most
\* (enroll_customer_from_request), whatever the catalogue does in between.
THEOREM AgreementsAreAsRequested == Spec => []AgreedIsRequested
  BY EnrolmentInvariant, AgreedAsRequested, PTL

\* What is open to customers is published, and drawn from an open configuration.
LEMMA OpenOffersArePublished == EnrolmentInv => ListedIsPublished
<1>. SUFFICES ASSUME EnrolmentInv, NEW n \in DOMAIN plans, plans[n].active \/ plans[n].listed
     PROVE  /\ ~plans[n].closed
            /\ plans[n].configuration # 0 =>
                 PublicationEvidence(plans[n]) /\ OpenConfiguration(plans[n].configuration)
  BY DEF ListedIsPublished
<1>1. PlanSound(plans[n])
  BY DEF EnrolmentInv, CatalogueTyped
<1>2. ~plans[n].closed /\ (plans[n].configuration # 0 => PublicationEvidence(plans[n]))
  BY <1>1 DEF PlanSound
<1>3. plans[n].configuration # 0 => OpenConfiguration(plans[n].configuration)
  BY <1>2 DEF EnrolmentInv, ClosedFamilies, OpenConfiguration
<1>4. QED
  BY <1>2, <1>3

\* Nothing is agreed or requested under a closed plan.
LEMMA NothingNewUnderClosedPlans ==
  ASSUME EnrolmentInv, Next, NEW n \in DOMAIN plans, plans[n].closed
  PROVE  /\ \A a \in DOMAIN agreements' : a \notin DOMAIN agreements => agreements'[a].plan # n
         /\ \A r \in DOMAIN requests' : r \notin DOMAIN requests => requests'[r].plan # n
<1>t. /\ CatalogueTyped /\ RequestsTyped /\ AgreementsTyped
      /\ agreements \in Seq(AgreementRows) /\ Len(agreements) \in Nat
      /\ DOMAIN agreements = 1..Len(agreements)
  BY DEF EnrolmentInv, AgreementsTyped
<1>1. ASSUME NEW m \in DOMAIN plans, NEW row \in AgreementRows, NEW from,
             AgreementMade(m, from, row), ~plans[m].closed
      PROVE  \A a \in DOMAIN agreements' : a \notin DOMAIN agreements => agreements'[a].plan # n
  <2>1. /\ DOMAIN agreements' = 1..(Len(agreements) + 1) /\ agreements'[Len(agreements) + 1] = row
        /\ row.plan = m
    BY <1>t, <1>1 DEF AgreementMade
  <2>2. \A a \in DOMAIN agreements' : a = Len(agreements) + 1 \/ a \in DOMAIN agreements
    BY <1>t, <2>1
  <2>3. QED
    BY <1>1, <2>1, <2>2
<1>2. \/ agreements' = agreements
      \/ \E m \in DOMAIN plans, row \in AgreementRows, from \in {0} \cup DOMAIN requests :
           AgreementMade(m, from, row) /\ ~plans[m].closed
  BY <1>t, RequestSteps DEF NothingAgreed, AgreedAtCounter, RequestAgreed, Requested
<1>3. ASSUME NEW r \in DOMAIN requests', r \notin DOMAIN requests PROVE requests'[r].plan # n
  <2>1. Requested
    BY <1>3, <1>t, RequestSteps DEF NothingAgreed, AgreedAtCounter, RequestAgreed, SameRequests
  <2>2. DOMAIN requests' = DOMAIN requests \cup {Len(requests) + 1}
    BY <2>1 DEF Requested
  <2>3. PICK q \in RequestRows : requests'[Len(requests) + 1] = q /\ ~plans[q.plan].closed
    BY <2>1 DEF Requested
  <2>4. QED
    BY <1>3, <2>2, <2>3
<1>4. QED
  BY <1>1, <1>2, <1>3

\* A closure is final, for pages loaded and requests made before it too
\* (archive_plan, archive_configuration): nothing is published, edited,
\* requested or agreed under it, and what is open to customers is published.
THEOREM ClosuresAreFinal == Spec => ClosedTakesNothingNew
<1>1. ASSUME EnrolmentInv, EnrolmentInv', Next
      PROVE  /\ \A n \in DOMAIN plans : plans[n].closed =>
                  /\ plans'[n] = plans[n]
                  /\ \A a \in DOMAIN agreements' : a \notin DOMAIN agreements => agreements'[a].plan # n
                  /\ \A r \in DOMAIN requests' : r \notin DOMAIN requests => requests'[r].plan # n
             /\ \A c \in DOMAIN configurations : configurations[c].closed =>
                  /\ configurations'[c] = configurations[c]
                  /\ \A n \in DOMAIN plans' : n \notin DOMAIN plans => plans'[n].configuration # c
  <2>1. CatalogueTyped /\ ClosedFamilies /\ RequestsTyped /\ AgreementsTyped
    BY <1>1 DEF EnrolmentInv
  <2>2. /\ \A n \in DOMAIN plans : plans[n].closed => plans'[n] = plans[n]
        /\ \A c \in DOMAIN configurations : configurations[c].closed =>
             /\ configurations'[c] = configurations[c]
             /\ \A n \in DOMAIN plans' : n \notin DOMAIN plans => plans'[n].configuration # c
    BY <1>1, <2>1, CatalogueKept
  <2>3. QED
    BY <1>1, <2>2, NothingNewUnderClosedPlans
<1>2. EnrolmentInv /\ EnrolmentInv' /\ [Next]_vars =>
      [/\ ListedIsPublished'
       /\ \A n \in DOMAIN plans : plans[n].closed =>
            /\ plans'[n] = plans[n]
            /\ \A a \in DOMAIN agreements' : a \notin DOMAIN agreements => agreements'[a].plan # n
            /\ \A r \in DOMAIN requests' : r \notin DOMAIN requests => requests'[r].plan # n
       /\ \A c \in DOMAIN configurations : configurations[c].closed =>
            /\ configurations'[c] = configurations[c]
            /\ \A n \in DOMAIN plans' : n \notin DOMAIN plans => plans'[n].configuration # c]_vars
  <2>1. EnrolmentInv' => ListedIsPublished'
    BY OpenOffersArePublished, PTL
  <2>2. QED
    BY <1>1, <2>1
<1>3. QED
  BY <1>2, EnrolmentInvariant, PTL DEF Spec, ClosedTakesNothingNew
=============================================================================
