--------------------------- MODULE CustomerLogins ---------------------------
(***************************************************************************)
(* The login of a customer: setup links issued by the owner, the password  *)
(* a link sets, sign-in and the Google credential (accounts/services.py,   *)
(* adapters.py).  Links are issued and used under the user's row lock, so  *)
(* each is one step; a sign-in checks the login first and writes its       *)
(* session later.  One person is followed: every row bears the same email  *)
(* and mobile until an erasure replaces them.                              *)
(***************************************************************************)
EXTENDS Naturals, Sequences, FiniteSets

CONSTANTS MaxUsers, MaxInvitations

ASSUME LoginBounds == MaxUsers \in Nat /\ MaxInvitations \in Nat

VARIABLES
  users,         \* CustomUser rows; `kept`: identity fields its profile retains
  invitations    \* CustomerInvitation rows; `mailed`: the link has left the shop

loginVars == <<users, invitations>>

ProfileIdentity == {"email", "mobile"}

LoginInit == users = <<>> /\ invitations = <<>>

NewUser ==
  [active |-> TRUE, password |-> FALSE, google |-> FALSE, session |-> FALSE,
   signing |-> FALSE, erased |-> FALSE, kept |-> ProfileIdentity]

NewInvitation(u) ==
  [user |-> u, status |-> "OPEN", expired |-> FALSE, mailed |-> FALSE, help |-> FALSE]

Open(i) == invitations[i].status = "OPEN"
OpenLinks(u) == {i \in DOMAIN invitations : invitations[i].user = u /\ Open(i)}
Marked(rows, status) ==
  [i \in DOMAIN invitations |->
     IF i \in rows THEN [invitations[i] EXCEPT !.status = status] ELSE invitations[i]]

EmailTaken == \E u \in DOMAIN users : ~users[u].erased
MobileTaken == \E u \in DOMAIN users : "mobile" \in users[u].kept
ProfileEmailTaken == \E u \in DOMAIN users : "email" \in users[u].kept

\* The login and profile of a new customer, with the first setup link.
CreateInvitedCustomer ==
  /\ ~EmailTaken /\ ~ProfileEmailTaken
  /\ Len(users) < MaxUsers /\ Len(invitations) < MaxInvitations
  /\ users' = Append(users, NewUser)
  /\ invitations' = Append(invitations, NewInvitation(Len(users) + 1))

Available(i) ==
  LET u == users[invitations[i].user]
  IN  /\ Open(i) /\ ~invitations[i].expired
      /\ u.active /\ ~u.erased /\ ~u.password

\* A slip: the link that is replaced stays open.
IssueBesideOlder(u) ==
  /\ Len(invitations) < MaxInvitations
  /\ users[u].active /\ ~users[u].password
  /\ invitations' = Append(invitations, NewInvitation(u))
  /\ UNCHANGED users

IssueInvitation(u) ==
  /\ Len(invitations) < MaxInvitations
  /\ users[u].active /\ ~users[u].password
  /\ invitations' = Append(Marked(OpenLinks(u), "REVOKED"), NewInvitation(u))
  /\ UNCHANGED users

\* The process that issued a link mails it, unless it ended or the mail failed.
SendInvitation(i) ==
  /\ Available(i) /\ ~invitations[i].mailed
  /\ invitations' = [invitations EXCEPT ![i].mailed = TRUE]
  /\ UNCHANGED users

InvitationExpires(i) ==
  /\ Open(i) /\ ~invitations[i].expired
  /\ invitations' = [invitations EXCEPT ![i].expired = TRUE]
  /\ UNCHANGED users

AcceptInvitation(i) ==
  LET u == invitations[i].user
  IN  /\ invitations[i].mailed /\ Available(i)
      /\ users' = [users EXCEPT ![u].password = TRUE]
      /\ invitations' = [Marked(OpenLinks(u), "REVOKED") EXCEPT ![i].status = "ACCEPTED"]

\* An expired link records that its holder asks for help; it opens nothing.
RequestInvitationRecovery(i) ==
  LET u == users[invitations[i].user]
  IN  /\ invitations[i].mailed /\ Open(i) /\ invitations[i].expired /\ ~invitations[i].help
      /\ u.active /\ ~u.erased /\ ~u.password
      /\ invitations' = [invitations EXCEPT ![i].help = TRUE]
      /\ UNCHANGED users

\* A row that was erased refuses every later save.
Save(u) == ~users[u].erased

\* The credentials are checked; the session is written by a later step.
StartSignIn(u) ==
  /\ users[u].active /\ users[u].password /\ ~users[u].session /\ ~users[u].signing
  /\ users' = [users EXCEPT ![u].signing = TRUE]
  /\ UNCHANGED invitations

\* A slip: the session is written whatever the save of the login says.
FinishAnySignIn(u) ==
  /\ users[u].signing
  /\ users' = [users EXCEPT ![u].signing = FALSE, ![u].session = TRUE]
  /\ UNCHANGED invitations

\* Writing the last login saves the user first: a removed login gets no session.
FinishSignIn(u) ==
  /\ users[u].signing
  /\ users' = [users EXCEPT ![u].signing = FALSE, ![u].session = Save(u)]
  /\ UNCHANGED invitations

SignedIn(u) == users[u].session /\ users[u].active

SignOut(u) ==
  /\ users[u].session
  /\ users' = [users EXCEPT ![u].session = FALSE]
  /\ UNCHANGED invitations

\* Google is bound from a signed-in, eligible login only.
ConnectGoogle(u) ==
  /\ SignedIn(u) /\ users[u].password /\ ~users[u].google
  /\ users' = [users EXCEPT ![u].google = TRUE]
  /\ UNCHANGED invitations

\* An administrator disables or re-enables a login.
ToggleActive(u) ==
  /\ Save(u)
  /\ users' = [users EXCEPT ![u].active = ~@]
  /\ UNCHANGED invitations

\* Containment: no session, binding or link is left, and the login is disabled.
DisableLogin(u) ==
  /\ users' = [users EXCEPT ![u].active = FALSE, ![u].session = FALSE, ![u].google = FALSE]
  /\ invitations' = Marked(OpenLinks(u), "REVOKED")

\* Erasure: the login is unusable for good and its links are deleted.
EraseLogin(u, kept) ==
  /\ Save(u)
  /\ users' = [users EXCEPT ![u] =
       [@ EXCEPT !.active = FALSE, !.session = FALSE, !.google = FALSE,
                 !.password = FALSE, !.erased = TRUE, !.kept = kept]]
  /\ invitations' = Marked({i \in DOMAIN invitations : invitations[i].user = u}, "DELETED")

LoginNext ==
  \/ \E u \in DOMAIN users :
       \/ IssueInvitation(u) \/ StartSignIn(u) \/ FinishSignIn(u) \/ SignOut(u)
       \/ ConnectGoogle(u) \/ ToggleActive(u)
  \/ \E i \in DOMAIN invitations :
       \/ SendInvitation(i) \/ InvitationExpires(i) \/ AcceptInvitation(i)
       \/ RequestInvitationRecovery(i)

\* (AUTH-005, AUTH-006) A customer has at most one setup link that works, the
\* latest issued, and none is left open once a password is set.
OneWorkingLink ==
  \A i \in DOMAIN invitations :
    Open(i) => /\ \A j \in DOMAIN invitations :
                    invitations[j].user = invitations[i].user => j <= i
               /\ ~users[invitations[i].user].password
=============================================================================
