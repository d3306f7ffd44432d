-------------------------- MODULE PlanApplications --------------------------
(***************************************************************************)
(* From a public registration to an approved customer, and with a plan     *)
(* application to an agreement (accounts/services.py, applications.py).    *)
(* Every step locks registration, application and offer in that order.     *)
(* Between the steps the offer moves, links are replaced and grow old, and *)
(* the applicant acts on the page and the access that were last opened.    *)
(***************************************************************************)
EXTENDS CustomerLogins

CONSTANTS MaxRegistrations, MaxOffers, MaxReissues, MaxAgreements

ASSUME ApplicationBounds ==
  MaxRegistrations \in Nat /\ MaxOffers \in Nat /\ MaxReissues \in Nat /\ MaxAgreements \in Nat

VARIABLES
  offer,            \* the plan's current terms, and whether it is listed
  registrations,    \* CustomerRegistration rows with their PlanApplication
  page,             \* the version of the offer on the applicant's page
  grant,            \* the applicant's session access: registration and digest
  agreements        \* SchemeAccount rows of the person's customers

applicationVars == <<offer, registrations, page, grant, agreements>>

NoGrant == [registration |-> 0, digest |-> 0]

ApplicationInit ==
  /\ offer = [version |-> 1, listed |-> TRUE]
  /\ registrations = <<>> /\ page = 1 /\ grant = NoGrant /\ agreements = <<>>

NewRegistration(journey) ==
  [journey |-> journey, status |-> "PENDING_EMAIL_VERIFICATION", mailed |-> FALSE,
   overdue |-> FALSE, lapsed |-> FALSE, progress |-> 0, reissues |-> 0,
   confirmations |-> IF journey THEN <<[final |-> FALSE, offer |-> offer.version]>> ELSE <<>>,
   past |-> FALSE, user |-> 0]

InStatus(r, status) == registrations[r].status = status
OpenRegistration(r) ==
  InStatus(r, "PENDING_EMAIL_VERIFICATION") \/ InStatus(r, "AWAITING_OWNER_APPROVAL")
Overdue == {r \in DOMAIN registrations :
              InStatus(r, "PENDING_EMAIL_VERIFICATION") /\ registrations[r].overdue}
ExistingIdentity ==
  EmailTaken \/ MobileTaken \/ \E r \in DOMAIN registrations \ Overdue : OpenRegistration(r)

\* Every attempt expires what is overdue; an identity that exists is not told.
SubmitRegistration(journey) ==
  /\ LET kept == [r \in DOMAIN registrations |->
                    IF r \in Overdue THEN [registrations[r] EXCEPT !.status = "EXPIRED"]
                    ELSE registrations[r]]
     IN  IF ExistingIdentity THEN Overdue # {} /\ registrations' = kept
         ELSE /\ Len(registrations) < MaxRegistrations
              /\ registrations' = Append(kept, NewRegistration(journey))
  /\ UNCHANGED <<loginVars, offer, page, grant, agreements>>

\* The form is bound to the offer it displayed.
SubmitPlanApplication ==
  /\ offer.listed /\ page = offer.version
  /\ SubmitRegistration(TRUE)

OpenPage ==
  /\ page # offer.version
  /\ page' = offer.version
  /\ UNCHANGED <<loginVars, offer, registrations, grant, agreements>>

Verifiable(r) == InStatus(r, "PENDING_EMAIL_VERIFICATION") /\ ~registrations[r].overdue

\* The mail is sent once per link; a failure leaves the owner's reissue.
SendVerification(r) ==
  /\ Verifiable(r) /\ ~registrations[r].mailed
  /\ registrations' = [registrations EXCEPT ![r].mailed = TRUE]
  /\ UNCHANGED <<loginVars, offer, page, grant, agreements>>

VerificationGrowsOverdue(r) ==
  /\ Verifiable(r)
  /\ registrations' = [registrations EXCEPT ![r].overdue = TRUE]
  /\ UNCHANGED <<loginVars, offer, page, grant, agreements>>

ApplicationLapses(r) ==
  /\ registrations[r].journey /\ OpenRegistration(r) /\ ~registrations[r].lapsed
  /\ registrations' = [registrations EXCEPT ![r].lapsed = TRUE]
  /\ UNCHANGED <<loginVars, offer, page, grant, agreements>>

StartDatePasses(r) ==
  /\ InStatus(r, "AWAITING_OWNER_APPROVAL") /\ ~registrations[r].past
  /\ \E n \in DOMAIN registrations[r].confirmations : registrations[r].confirmations[n].final
  /\ registrations' = [registrations EXCEPT ![r].past = TRUE]
  /\ UNCHANGED <<loginVars, offer, page, grant, agreements>>

ReissueVerification(r) ==
  /\ InStatus(r, "PENDING_EMAIL_VERIFICATION") /\ ~registrations[r].lapsed
  /\ registrations[r].reissues < MaxReissues
  /\ registrations' = [registrations EXCEPT
       ![r].overdue = FALSE, ![r].mailed = FALSE, ![r].reissues = @ + 1]
  /\ UNCHANGED <<loginVars, offer, page, grant, agreements>>

\* The link is followed: its registration waits for the owner, and the session
\* that verified holds the first progress access of an application.
VerifyRegistration(r) ==
  /\ registrations[r].mailed /\ Verifiable(r) /\ ~registrations[r].lapsed
  /\ LET verified == [registrations[r] EXCEPT !.status = "AWAITING_OWNER_APPROVAL"]
     IN  IF registrations[r].journey
         THEN /\ registrations' = [registrations EXCEPT ![r] = [verified EXCEPT !.progress = 1]]
              /\ grant' = [registration |-> r, digest |-> 1]
         ELSE /\ registrations' = [registrations EXCEPT ![r] = verified]
              /\ UNCHANGED grant
  /\ UNCHANGED <<loginVars, offer, page, agreements>>

ProgressIdentityAvailable(r) ==
  LET u == registrations[r].user
  IN  u # 0 => users[u].active /\ ~users[u].erased

\* The owner replaces the progress access of a verified application.
ReissueProgress(r) ==
  /\ registrations[r].journey /\ registrations[r].reissues < MaxReissues
  /\ registrations[r].status \in {"AWAITING_OWNER_APPROVAL", "APPROVED", "REJECTED"}
  /\ ~registrations[r].lapsed /\ ProgressIdentityAvailable(r)
  /\ registrations' = [registrations EXCEPT
       ![r].progress = 2 + registrations[r].reissues, ![r].reissues = @ + 1]
  /\ UNCHANGED <<loginVars, offer, page, grant, agreements>>

\* The mailed access is opened while it is the current one.
OpenProgress(r) ==
  /\ registrations[r].progress # 0 /\ ~registrations[r].lapsed /\ ProgressIdentityAvailable(r)
  /\ grant # [registration |-> r, digest |-> registrations[r].progress]
  /\ grant' = [registration |-> r, digest |-> registrations[r].progress]
  /\ UNCHANGED <<loginVars, offer, registrations, page, agreements>>

HoldsProgress(r) ==
  grant.registration = r /\ registrations[r].progress # 0 /\ grant.digest = registrations[r].progress

\* The applicant completes the details and confirms the offer on the page.
CompleteApplication(r) ==
  /\ registrations[r].journey /\ InStatus(r, "AWAITING_OWNER_APPROVAL")
  /\ ~registrations[r].lapsed /\ HoldsProgress(r)
  /\ offer.listed /\ page = offer.version
  /\ Len(registrations[r].confirmations) < MaxOffers + 1
  /\ registrations' = [registrations EXCEPT
       ![r].confirmations = Append(@, [final |-> TRUE, offer |-> offer.version]),
       ![r].past = FALSE]
  /\ UNCHANGED <<loginVars, offer, page, grant, agreements>>

Latest(r) == registrations[r].confirmations[Len(registrations[r].confirmations)]

\* A slip: a final confirmation is taken to be of today's offer.
TermsConfirmed(r) ==
  offer.listed /\ Latest(r).final /\ ~registrations[r].past

TermsCurrent(r) ==
  /\ offer.listed
  /\ Latest(r).final /\ Latest(r).offer = offer.version
  /\ ~registrations[r].past

\* The decision creates the login, its first link and, last, its reference.
ApproveIdentity(r) ==
  /\ InStatus(r, "AWAITING_OWNER_APPROVAL")
  /\ ~MobileTaken
  /\ CreateInvitedCustomer
  /\ registrations' = [registrations EXCEPT ![r] =
       [@ EXCEPT !.status = "APPROVED", !.user = Len(users) + 1]]

NewAgreement(u, r, confirmed) ==
  [user |-> u, registration |-> r, offer |-> offer.version, confirmed |-> confirmed,
   closed |-> FALSE, pending |-> FALSE]

ApproveRegistration(r) ==
  /\ ~registrations[r].journey
  /\ ApproveIdentity(r)
  /\ UNCHANGED <<offer, page, grant, agreements>>

\* Identity and agreement in one step; repeated, it answers with the agreement.
ApprovePlanApplication(r) ==
  /\ registrations[r].journey /\ ~registrations[r].lapsed
  /\ TermsCurrent(r)
  /\ ApproveIdentity(r)
  /\ Len(agreements) < MaxAgreements
  /\ agreements' = Append(agreements, NewAgreement(Len(users) + 1, r, Latest(r).offer))
  /\ UNCHANGED <<offer, page, grant>>

RejectRegistration(r) ==
  /\ InStatus(r, "AWAITING_OWNER_APPROVAL")
  /\ registrations' = [registrations EXCEPT ![r].status = "REJECTED"]
  /\ UNCHANGED <<loginVars, offer, page, grant, agreements>>

\* The plan's terms or its listing change (PlanCatalogue).
ChangeOffer ==
  /\ \/ offer.version < MaxOffers /\ offer' = [offer EXCEPT !.version = @ + 1]
     \/ offer' = [offer EXCEPT !.listed = ~@]
  /\ UNCHANGED <<loginVars, registrations, page, grant, agreements>>

ApplicationNext ==
  \/ SubmitRegistration(FALSE) \/ SubmitPlanApplication \/ OpenPage \/ ChangeOffer
  \/ \E r \in DOMAIN registrations :
       \/ SendVerification(r) \/ VerificationGrowsOverdue(r) \/ ApplicationLapses(r)
       \/ StartDatePasses(r) \/ ReissueVerification(r) \/ VerifyRegistration(r)
       \/ ReissueProgress(r) \/ OpenProgress(r) \/ CompleteApplication(r)
       \/ ApproveRegistration(r) \/ ApprovePlanApplication(r) \/ RejectRegistration(r)

\* (AUTH-010) Approving an application makes one login and one agreement, on
\* the terms the customer confirmed last, which are the plan's at that moment.
ApprovedAsConfirmed ==
  \A r \in DOMAIN registrations :
    LET made == {a \in DOMAIN agreements : agreements[a].registration = r}
    IN  /\ registrations[r].journey =>
             Cardinality(made) = IF InStatus(r, "APPROVED") THEN 1 ELSE 0
        /\ \A a \in made :
             /\ agreements[a].user = registrations[r].user
             /\ Latest(r).final
             /\ agreements[a].offer = Latest(r).offer
=============================================================================
