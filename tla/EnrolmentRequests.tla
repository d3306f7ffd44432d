------------------------- MODULE EnrolmentRequests -------------------------
(***************************************************************************)
(* Customers ask for an agreement under a listed plan, and the owner turns *)
(* the request into one, or enrols a customer at the counter (services.py).*)
(* Every service locks the customer, the plan and the request: it is one   *)
(* step.  Between the steps the catalogue moves, requests grow overdue and *)
(* customers leave; a customer or an owner acts on what was displayed.     *)
(***************************************************************************)
EXTENDS PlanCatalogue

CONSTANTS
  Customers,
  MaxRequests,
  MaxAgreements

VARIABLES
  customers,         \* "ACTIVE", "CONTAINED" (login disabled) or "ERASED"
  screen,            \* the offer each customer was last shown
  requests,          \* SchemeEnrolmentRequest rows
  agreements         \* SchemeAccount rows; `from` is the request, 0 at the counter

enrolmentVars == <<customers, screen, requests, agreements>>
vars == <<catalogueVars, enrolmentVars>>

Init ==
  /\ CatalogueInit
  /\ customers = [c \in Customers |-> "ACTIVE"]
  /\ screen = [c \in Customers |-> Nothing]
  /\ requests = <<>> /\ agreements = <<>>

Pending(r) == requests[r].status = "PENDING_OWNER_REVIEW"
PendingOf(c, n, grade) ==
  {r \in DOMAIN requests : Pending(r) /\ requests[r].customer = c
                           /\ requests[r].plan = n /\ requests[r].grade = grade}

ShowOffer(c) ==
  /\ \E n \in DOMAIN plans :
       /\ RequireConfiguredOffer(plans[n]) /\ plans[n].active /\ plans[n].listed
       /\ screen' = [screen EXCEPT ![c] =
            [kind |-> "OFFER", item |-> n, digest |-> PlanEditDigest(plans[n])]]
  /\ UNCHANGED <<catalogueVars, customers, requests, agreements>>

NewRequest(c, n, grade) ==
  [customer |-> c, plan |-> n, grade |-> grade, text |-> plans[n].terms.text,
   configuration |-> plans[n].configuration, schema |-> Schema(plans[n]),
   revision |-> IF Independent(plans[n]) THEN plans[n].published ELSE 0,
   digest |-> IF Independent(plans[n]) THEN screen[c].digest ELSE Nothing,
   status |-> "PENDING_OWNER_REVIEW", overdue |-> FALSE, account |-> 0]

\* Only the form of an independent offer is bound to what it displayed.
SubmitRequest(c) ==
  /\ screen[c].kind = "OFFER" /\ customers[c] = "ACTIVE"
  /\ LET n == screen[c].item
         p == plans[n]
     IN  /\ RequireConfiguredOffer(p) /\ p.active /\ p.listed
         /\ Independent(p) => screen[c].digest = PlanEditDigest(p)
         /\ \E grade \in p.terms.grades :
              LET overdue == {r \in PendingOf(c, n, grade) : requests[r].overdue}
                  kept == [r \in DOMAIN requests |->
                             IF r \in overdue THEN [requests[r] EXCEPT !.status = "EXPIRED"]
                             ELSE requests[r]]
              IN  /\ PendingOf(c, n, grade) = overdue
                  /\ Len(requests) < MaxRequests
                  /\ requests' = Append(kept, NewRequest(c, n, grade))
  /\ UNCHANGED <<catalogueVars, customers, screen, agreements>>

RequestGrowsOverdue(r) ==
  /\ Pending(r) /\ ~requests[r].overdue
  /\ requests' = [requests EXCEPT ![r].overdue = TRUE]
  /\ UNCHANGED <<catalogueVars, customers, screen, agreements>>

Decide(r, status) ==
  /\ Pending(r)
  /\ requests' = [requests EXCEPT ![r].status = status]
  /\ UNCHANGED <<catalogueVars, customers, screen, agreements>>

WithdrawRequest(r) ==
  /\ customers[requests[r].customer] = "ACTIVE"
  /\ Decide(r, IF requests[r].overdue THEN "EXPIRED" ELSE "WITHDRAWN")

DecideRequest(r) ==
  \E status \in {"DECLINED", "EXPIRED"} :
    (requests[r].overdue => status = "EXPIRED") /\ Decide(r, status)

\* A slip: the configuration is pinned, so it alone is compared.
OfferIsCurrentByConfiguration(r) ==
  LET p == plans[requests[r].plan]
  IN  /\ RequireConfiguredOffer(p) /\ p.active /\ p.listed
      /\ requests[r].configuration = p.configuration
      /\ requests[r].grade \in p.terms.grades

OfferIsCurrent(r) ==
  LET p == plans[requests[r].plan]
  IN  /\ RequireConfiguredOffer(p) /\ p.active /\ p.listed
      /\ requests[r].configuration = p.configuration
      /\ IF requests[r].schema = 2
         THEN requests[r].revision = p.published /\ requests[r].digest = PlanEditDigest(p)
         ELSE requests[r].grade \in p.terms.grades /\ requests[r].text = p.terms.text

\* enroll_customer on the locked plan, and the revision its account records.
EnrolCustomer(c, n, grade, from) ==
  LET p == plans[n]
      observed == IF Independent(p) THEN p ELSE EnsurePlanRevision(p)
  IN  /\ Len(agreements) < MaxAgreements
      /\ customers[c] # "ERASED"
      /\ ~p.closed /\ RequireConfiguredOffer(p) /\ p.active /\ grade \in p.terms.grades
      /\ Save(n, observed)
      /\ agreements' = Append(agreements,
           [customer |-> c, plan |-> n, grade |-> grade, text |-> p.terms.text,
            configuration |-> p.configuration, from |-> from,
            revision |-> IF Independent(p) THEN p.published ELSE Len(observed.revisions)])

\* At the counter; a configured offer is the one the owner's page displayed.
EnrolAtCounter(d, c) ==
  /\ \E n \in DOMAIN plans, grade \in UNION {t.grades : t \in Terms} :
       /\ plans[n].configuration # 0 => PageIsCurrent(d) /\ desk[d].item = n
       /\ EnrolCustomer(c, n, grade, 0)
  /\ UNCHANGED <<gate, configurations, desk, customers, screen, requests>>

\* A slip: the answer to a repeated conversion is a second agreement.
ConvertibleAgain(r) == requests[r].status \in {"PENDING_OWNER_REVIEW", "ENROLLED"}

\* A request that became an agreement answers with it and changes nothing.
Convertible(r) == Pending(r)

EnrolFromRequest(r) ==
  /\ Convertible(r)
  /\ customers[requests[r].customer] = "ACTIVE"
  /\ ~requests[r].overdue
  /\ OfferIsCurrent(r)
  /\ EnrolCustomer(requests[r].customer, requests[r].plan, requests[r].grade, r)
  /\ requests' = [requests EXCEPT ![r].status = "ENROLLED", ![r].account = Len(agreements')]
  /\ UNCHANGED <<gate, configurations, desk, customers, screen>>
------------------------------------------------------------------------------
(* The account deletion, as far as an enrolment sees it (accounts).         *)

ContainCustomer(c) ==
  /\ customers[c] = "ACTIVE"
  /\ customers' = [customers EXCEPT ![c] = "CONTAINED"]
  /\ UNCHANGED <<catalogueVars, screen, requests, agreements>>

EraseCustomer(c) ==
  /\ customers[c] = "CONTAINED"
  /\ \A r \in DOMAIN requests : requests[r].customer = c => ~Pending(r)
  /\ customers' = [customers EXCEPT ![c] = "ERASED"]
  /\ UNCHANGED <<catalogueVars, screen, requests, agreements>>
------------------------------------------------------------------------------
Usage(n) == <<Cardinality({a \in DOMAIN agreements : agreements[a].plan = n}),
              Cardinality({r \in DOMAIN requests : requests[r].plan = n})>>

CatalogueStep ==
  /\ \/ CreateConfigurationVersion \/ CreatePlan \/ ToggleGate
     \/ \E d \in Desks :
          \/ LoadPlan(d) \/ EditPlan(d) \/ SetConfiguredPlanPublication(d)
          \/ \E n \in DOMAIN plans : PreviewPlanClosure(d, n, Usage(n))
          \/ desk[d].kind = "CLOSE_PLAN" /\ ClosePlan(d, Usage(desk[d].item))
          \/ PreviewConfigurationClosure(d) \/ CloseConfiguration(d)
  /\ UNCHANGED enrolmentVars

Next ==
  \/ CatalogueStep
  \/ \E c \in Customers :
       \/ ShowOffer(c) \/ SubmitRequest(c) \/ ContainCustomer(c) \/ EraseCustomer(c)
       \/ \E d \in Desks : EnrolAtCounter(d, c)
  \/ \E r \in DOMAIN requests :
       RequestGrowsOverdue(r) \/ WithdrawRequest(r) \/ DecideRequest(r) \/ EnrolFromRequest(r)

Spec == Init /\ [][Next]_vars
------------------------------------------------------------------------------
\* A request leads to one agreement at most, and says so exactly when it did:
\* submissions repeated by either session, a withdrawal or an expiry never make
\* a second agreement or leave one behind a request that was refused.
EnrolledOnce ==
  /\ \A r \in DOMAIN requests :
       LET made == {a \in DOMAIN agreements : agreements[a].from = r}
       IN  IF requests[r].status = "ENROLLED" THEN made = {requests[r].account} ELSE made = {}
  /\ \A c \in Customers, n \in DOMAIN plans, g \in UNION {t.grades : t \in Terms} :
       Cardinality(PendingOf(c, n, g)) <= 1

\* Whatever the catalogue did in between, an agreement carries the terms its
\* customer confirmed, and the revision it records is evidence of those terms:
\* same plan, text, grade and configuration, listed as it was
\* (enroll_customer_from_request, enrolment_request_offer_is_current); and it is the only
\* agreement the request led to.
AgreedIsRequested ==
  /\ EnrolledOnce
  /\ \A a \in DOMAIN agreements :
       LET agreed == agreements[a]
           evidence == plans[agreed.plan].revisions[agreed.revision]
           r == agreed.from
       IN  /\ evidence.active /\ evidence.terms.text = agreed.text
           /\ agreed.grade \in evidence.terms.grades
           /\ evidence.configuration = agreed.configuration
           /\ r # 0 =>
                /\ requests[r].text = agreed.text /\ requests[r].grade = agreed.grade
                /\ requests[r].configuration = agreed.configuration
                /\ requests[r].schema = 2 => requests[r].digest.terms = evidence

\* What is open to customers has its evidence: a configured plan that is active
\* or listed matches the revision it was published under, and neither it nor
\* the configuration it is drawn from has been archived.
ListedIsPublished ==
  \A n \in DOMAIN plans :
    LET p == plans[n]
    IN  p.active \/ p.listed =>
          /\ ~p.closed
          /\ p.configuration # 0 => PublicationEvidence(p) /\ OpenConfiguration(p.configuration)

\* A closure is final: nothing is published, edited, requested or agreed under
\* a closed plan, by pages loaded and requests made before it was closed too;
\* and what is open to customers is published and not archived.
ClosedTakesNothingNew ==
  [][/\ ListedIsPublished'
     /\ \A n \in DOMAIN plans : plans[n].closed =>
          /\ plans'[n] = plans[n]
          /\ \A a \in DOMAIN agreements' : a \notin DOMAIN agreements => agreements'[a].plan # n
          /\ \A r \in DOMAIN requests' : r \notin DOMAIN requests => requests'[r].plan # n
     /\ \A c \in DOMAIN configurations : configurations[c].closed =>
          /\ configurations'[c] = configurations[c]
          /\ \A n \in DOMAIN plans' : n \notin DOMAIN plans => plans'[n].configuration # c]_vars
==============================================================================
