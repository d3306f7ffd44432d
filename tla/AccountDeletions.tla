-------------------------- MODULE AccountDeletions --------------------------
(***************************************************************************)
(* A customer asks for deletion, publicly by a mailed link or signed in;   *)
(* verification contains the login, the owner holds or completes, and the  *)
(* outcome is mailed from a durable outbox (accounts/services.py,          *)
(* deletion.py).  Financial history stays; the identity is minimized.      *)
(***************************************************************************)
EXTENDS PlanApplications

CONSTANTS MaxRequests, MaxNotices

ASSUME DeletionBounds == MaxRequests \in Nat /\ MaxNotices \in Nat

VARIABLES
  deletions,     \* CustomerAccountDeletionRequest rows
  notices        \* CustomerAccountDeletionNotice rows; `delivered` is the mailbox

deletionVars == <<deletions, notices>>
vars == <<loginVars, applicationVars, deletionVars>>

Init == LoginInit /\ ApplicationInit /\ deletions = <<>> /\ notices = <<>>

OpenStatuses == {"PENDING_VERIFICATION", "CONTAINED", "AWAITING_SETTLEMENT"}
OverdueDeletions == {d \in DOMAIN deletions :
                       deletions[d].status = "PENDING_VERIFICATION" /\ deletions[d].overdue}
OpenDeletions(u) == {d \in DOMAIN deletions :
                       deletions[d].user = u /\ deletions[d].status \in OpenStatuses}

NewDeletion(u, status) ==
  [user |-> u, status |-> status, overdue |-> FALSE, outcome |-> "NONE", mailed |-> FALSE]

\* A public request: what is overdue expires; a login in use gets a request,
\* or a fresh link while no mail of the pending one was accepted.
SubmitDeletion ==
  /\ LET kept == [d \in DOMAIN deletions |->
                    IF d \in OverdueDeletions THEN [deletions[d] EXCEPT !.status = "EXPIRED"]
                    ELSE deletions[d]]
     IN  \/ OverdueDeletions # {} /\ deletions' = kept
         \/ \E u \in DOMAIN users :
              /\ users[u].active /\ ~users[u].erased
              /\ \/ /\ OpenDeletions(u) \subseteq OverdueDeletions
                    /\ Len(deletions) < MaxRequests
                    /\ deletions' = Append(kept, NewDeletion(u, "PENDING_VERIFICATION"))
                 \/ \E d \in OpenDeletions(u) \ OverdueDeletions :
                      /\ deletions[d].status = "PENDING_VERIFICATION"
                      /\ deletions[d].outcome # "SENT"
                      /\ deletions' = [kept EXCEPT ![d] = NewDeletion(u, "PENDING_VERIFICATION")]
  /\ UNCHANGED <<loginVars, applicationVars, notices>>

DeletionVerifiable(d) == deletions[d].status = "PENDING_VERIFICATION" /\ ~deletions[d].overdue

\* The mail is accepted, refused, or accepted and never recorded.
SendDeletionVerification(d) ==
  /\ DeletionVerifiable(d) /\ deletions[d].outcome = "NONE" /\ ~deletions[d].mailed
  /\ \E outcome \in {"SENT", "FAILED", "NONE"} :
       deletions' = [deletions EXCEPT ![d] =
         [@ EXCEPT !.outcome = outcome, !.mailed = (outcome # "FAILED")]]
  /\ UNCHANGED <<loginVars, applicationVars, notices>>

DeletionGrowsOverdue(d) ==
  /\ DeletionVerifiable(d)
  /\ deletions' = [deletions EXCEPT ![d].overdue = TRUE]
  /\ UNCHANGED <<loginVars, applicationVars, notices>>

\* Sessions, Google binding, links and progress accesses go with the login.
Contain(u) ==
  /\ DisableLogin(u)
  /\ registrations' = [r \in DOMAIN registrations |->
       IF registrations[r].user = u THEN [registrations[r] EXCEPT !.progress = 0] ELSE registrations[r]]
  /\ UNCHANGED <<offer, page, grant, agreements, notices>>

VerifyAndContain(d) ==
  /\ deletions[d].mailed /\ DeletionVerifiable(d)
  /\ Contain(deletions[d].user)
  /\ deletions' = [deletions EXCEPT ![d].status = "CONTAINED"]

RequestDeletion(u) ==
  /\ SignedIn(u) /\ OpenDeletions(u) = {} /\ Len(deletions) < MaxRequests
  /\ Contain(u)
  /\ deletions' = Append(deletions, NewDeletion(u, "CONTAINED"))

InReview(d) == deletions[d].status \in {"CONTAINED", "AWAITING_SETTLEMENT"}

RecordHold(d) ==
  /\ deletions[d].status = "CONTAINED"
  /\ deletions' = [deletions EXCEPT ![d].status = "AWAITING_SETTLEMENT"]
  /\ UNCHANGED <<loginVars, applicationVars, notices>>

Owns(u, a) == agreements[a].user = u
Settled(u) == \A a \in DOMAIN agreements : Owns(u, a) => ~agreements[a].pending
MayKeep(u, kept) ==
  (\E a \in DOMAIN agreements : Owns(u, a) /\ ~agreements[a].closed) => "email" \in kept

\* Another registration under the same email needs a review of its own.
Ambiguous(u) ==
  \E r \in DOMAIN registrations :
    LET v == registrations[r].user
    IN  v # u /\ (v = 0 \/ ~users[v].erased)

NewNotice == [address |-> TRUE, accepted |-> FALSE, delivered |-> 0]

CompleteDeletion(d) ==
  LET u == deletions[d].user
  IN  /\ InReview(d)
      /\ ~users[u].active
      /\ Settled(u) /\ ~Ambiguous(u)
      /\ Len(notices) < MaxNotices
      /\ \E kept \in SUBSET ProfileIdentity : MayKeep(u, kept) /\ EraseLogin(u, kept)
      /\ registrations' = [r \in DOMAIN registrations |->
           IF registrations[r].user = u THEN [registrations[r] EXCEPT !.progress = 0] ELSE registrations[r]]
      /\ deletions' = [deletions EXCEPT ![d].status = "COMPLETED_WITH_RETENTION"]
      /\ notices' = Append(notices, NewNotice)
      /\ UNCHANGED <<offer, page, grant, agreements>>

\* A slip: the delivery address is dropped with the attempt, not its success.
SendNoticeOnce(n) ==
  /\ ~notices[n].accepted /\ notices[n].address
  /\ \E accepted \in BOOLEAN :
       notices' = [notices EXCEPT ![n] =
         [address |-> FALSE, accepted |-> accepted, delivered |-> IF accepted THEN 1 ELSE 0]]
  /\ UNCHANGED <<loginVars, applicationVars, deletions>>

\* Accepted and recorded, refused, or accepted before a crash rolls back.
SendNotice(n) ==
  /\ ~notices[n].accepted /\ notices[n].address
  /\ notices[n].delivered < 2
  /\ \/ notices' = [notices EXCEPT ![n] =
          [address |-> FALSE, accepted |-> TRUE, delivered |-> @.delivered + 1]]
     \/ notices' = [notices EXCEPT ![n].delivered = @ + 1]
  /\ UNCHANGED <<loginVars, applicationVars, deletions>>

\* A review keeps no more than before; its notice needs a retained address.
ReviewRetention(d) ==
  LET u == deletions[d].user
  IN  /\ deletions[d].status = "COMPLETED_WITH_RETENTION" /\ users[u].erased
      /\ \E kept \in SUBSET users[u].kept :
           /\ kept # users[u].kept => Settled(u) /\ MayKeep(u, kept)
           /\ users' = [users EXCEPT ![u].kept = kept]
      /\ IF "email" \in users[u].kept
         THEN Len(notices) < MaxNotices /\ notices' = Append(notices, NewNotice)
         ELSE UNCHANGED notices
      /\ UNCHANGED <<invitations, applicationVars, deletions>>

\* The owner registers a customer at the counter, and enrols one.
RegisterCustomer ==
  /\ CreateInvitedCustomer
  /\ UNCHANGED <<applicationVars, deletionVars>>

\* A slip: a removed login is enrolled like any other.
EnrolAnyone(u) ==
  /\ Len(agreements) < MaxAgreements
  /\ agreements' = Append(agreements, NewAgreement(u, 0, offer.version))
  /\ UNCHANGED <<loginVars, offer, registrations, page, grant, deletionVars>>

EnrolCustomer(u) ==
  /\ ~users[u].erased /\ Len(agreements) < MaxAgreements
  /\ agreements' = Append(agreements, NewAgreement(u, 0, offer.version))
  /\ UNCHANGED <<loginVars, offer, registrations, page, grant, deletionVars>>

\* A payment of the signed-in customer begins and is answered; the agreement
\* is redeemed in the showroom, whatever became of the login.
MoneyMoves(a) ==
  /\ \/ SignedIn(agreements[a].user) /\ ~agreements[a].pending /\ ~agreements[a].closed
          /\ agreements' = [agreements EXCEPT ![a].pending = TRUE]
     \/ agreements[a].pending /\ agreements' = [agreements EXCEPT ![a].pending = FALSE]
     \/ ~agreements[a].pending /\ ~agreements[a].closed
          /\ agreements' = [agreements EXCEPT ![a].closed = TRUE]
  /\ UNCHANGED <<loginVars, offer, registrations, page, grant, deletionVars>>

Next ==
  \/ LoginNext /\ UNCHANGED <<applicationVars, deletionVars>>
  \/ ApplicationNext /\ UNCHANGED deletionVars
  \/ RegisterCustomer \/ SubmitDeletion
  \/ \E u \in DOMAIN users : RequestDeletion(u) \/ EnrolCustomer(u)
  \/ \E a \in DOMAIN agreements : MoneyMoves(a)
  \/ \E d \in DOMAIN deletions :
       \/ SendDeletionVerification(d) \/ DeletionGrowsOverdue(d) \/ VerifyAndContain(d)
       \/ RecordHold(d) \/ CompleteDeletion(d) \/ ReviewRetention(d)
  \/ \E n \in DOMAIN notices : SendNotice(n)

Spec == Init /\ [][Next]_vars

\* (AUTH-018, AUTH-019) A removed login keeps no way in: no session of a
\* sign-in that overlapped the removal, no binding, link or progress access.
RemovedIsShut ==
  \A u \in DOMAIN users : users[u].erased =>
    /\ ~users[u].active /\ ~users[u].password /\ ~users[u].session /\ ~users[u].google
    /\ OpenLinks(u) = {}
    /\ \A r \in DOMAIN registrations : registrations[r].user = u => registrations[r].progress = 0

\* (AUTH-021) A completion owes its notice until a delivery of it is recorded:
\* the address is kept as long, and acceptance is never recorded undelivered.
OutcomeIsOwed ==
  /\ Cardinality({d \in DOMAIN deletions : deletions[d].status = "COMPLETED_WITH_RETENTION"})
       <= Len(notices)
  /\ \A n \in DOMAIN notices :
       IF notices[n].accepted THEN notices[n].delivered > 0 /\ ~notices[n].address
       ELSE notices[n].address

\* (AUTH-019, AUTH-021) A removed login is final: it gets no new agreement or
\* link, is never restored or entered, and a review only ever keeps less of
\* its profile.
RemovedIsFinal ==
  [][/\ RemovedIsShut'
     /\ \A u \in DOMAIN users : users[u].erased =>
          /\ users'[u].erased /\ ~users'[u].active /\ users'[u].kept \subseteq users[u].kept
          /\ \A a \in DOMAIN agreements' : agreements'[a].user = u =>
               a \in DOMAIN agreements /\ (agreements'[a].pending => agreements[a].pending)
          /\ \A i \in DOMAIN invitations' : invitations'[i].user = u => i \in DOMAIN invitations]_vars
=============================================================================
