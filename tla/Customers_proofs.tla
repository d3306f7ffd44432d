----------------------------- MODULE Customers_proofs -----------------------------
(***************************************************************************)
(* Theorems about what a person has of the system besides an agreement.    *)
(*                                                                         *)
(* Of AccountDeletions, for every number of logins, links, registrations,  *)
(* agreements and deletion requests: one link works, an application is     *)
(* approved as it was confirmed, a removal is final and its outcome is     *)
(* owed until it is delivered.                                             *)
(*                                                                         *)
(* Of Reminders, for every number of runs, days, retries and faults: a     *)
(* reminder is delivered once, and only while it is true.                  *)
(***************************************************************************)
EXTENDS AccountDeletions, Reminders, FiniteSetTheorems, SequenceTheorems, TLAPS

-----------------------------------------------------------------------------
(* Logins and their links. *)

UserRows ==
  [active : BOOLEAN, password : BOOLEAN, google : BOOLEAN, session : BOOLEAN,
   signing : BOOLEAN, erased : BOOLEAN, kept : SUBSET ProfileIdentity]
LinkStatuses == {"OPEN", "REVOKED", "ACCEPTED", "DELETED"}
LinkRows ==
  [user : Nat, status : LinkStatuses, expired : BOOLEAN, mailed : BOOLEAN, help : BOOLEAN]

LoginTyped ==
  /\ users \in Seq(UserRows)
  /\ invitations \in Seq(LinkRows)
  /\ \A i \in DOMAIN invitations : invitations[i].user \in DOMAIN users

\* A row without a way in.
Shut(r) == ~r.active /\ ~r.password /\ ~r.session /\ ~r.google

\* What erasure leaves of a login and of its links.
LoginsAreShut ==
  \A u \in DOMAIN users : users[u].erased => Shut(users[u]) /\ OpenLinks(u) = {}

\* What a step does to a login that another step may have erased.
UserKept(old, new) ==
  /\ new.erased => Shut(new)
  /\ old.erased => new.erased /\ new.kept \subseteq old.kept

UserChange(u, r) == users' = [users EXCEPT ![u] = r]

\* The steps of a login, inside whatever larger step takes them: those that
\* leave it a login, and its erasure.
KeepingStep ==
  \/ LoginNext
  \/ CreateInvitedCustomer
  \/ \E u \in DOMAIN users :
       \/ DisableLogin(u)
       \/ /\ users[u].erased /\ UNCHANGED invitations
          /\ \E kept \in SUBSET users[u].kept : users' = [users EXCEPT ![u].kept = kept]
  \/ UNCHANGED loginVars

LoginStep ==
  \/ KeepingStep
  \/ \E u \in DOMAIN users, kept \in SUBSET ProfileIdentity : EraseLogin(u, kept)

\* A login is a new one or keeps its row, changed in one of these ways.
LEMMA UserSteps ==
  ASSUME LoginTyped, LoginsAreShut, LoginStep
  PROVE  \/ users' = users
         \/ users' = Append(users, NewUser)
         \/ \E u \in DOMAIN users, r \in UserRows :
              /\ UserChange(u, r) /\ UserKept(users[u], r)
              /\ r.password => \/ users[u].password
                               \/ \E i \in DOMAIN invitations :
                                    AcceptInvitation(i) /\ invitations[i].user = u
<1>t. users \in Seq(UserRows) /\ \A u \in DOMAIN users : users[u] \in UserRows
  BY DEF LoginTyped
<1>s. \A u \in DOMAIN users : users[u].erased => Shut(users[u])
  BY DEF LoginsAreShut
<1>1. ASSUME NEW u \in DOMAIN users, StartSignIn(u)
      PROVE  \E r \in UserRows :
               /\ UserChange(u, r) /\ UserKept(users[u], r)
               /\ r.password => users[u].password
  <2>1. PICK r : r = [users[u] EXCEPT !.signing = TRUE]
    OBVIOUS
  <2>2. r \in UserRows
    BY <1>t, <2>1 DEF UserRows
  <2>3. UserKept(users[u], r) /\ (r.password => users[u].password)
    BY <1>t, <1>s, <2>1 DEF UserRows, UserKept, Shut
  <2>4. UserChange(u, r)
    BY <1>1, <2>1 DEF StartSignIn, UserChange
  <2>5. QED
    BY <2>2, <2>3, <2>4
<1>2. ASSUME NEW u \in DOMAIN users, FinishSignIn(u)
      PROVE  \E r \in UserRows :
               /\ UserChange(u, r) /\ UserKept(users[u], r)
               /\ r.password => users[u].password
  <2>1. PICK r : r = [users[u] EXCEPT !.signing = FALSE, !.session = ~users[u].erased]
    OBVIOUS
  <2>2. r \in UserRows
    BY <1>t, <2>1 DEF UserRows
  <2>3. UserKept(users[u], r) /\ (r.password => users[u].password)
    BY <1>t, <1>s, <2>1 DEF UserRows, UserKept, Shut
  <2>4. UserChange(u, r)
    BY <1>2, <2>1 DEF FinishSignIn, UserChange, Save
  <2>5. QED
    BY <2>2, <2>3, <2>4
<1>3. ASSUME NEW u \in DOMAIN users, SignOut(u)
      PROVE  \E r \in UserRows :
               /\ UserChange(u, r) /\ UserKept(users[u], r)
               /\ r.password => users[u].password
  <2>1. PICK r : r = [users[u] EXCEPT !.session = FALSE]
    OBVIOUS
  <2>2. r \in UserRows
    BY <1>t, <2>1 DEF UserRows
  <2>3. UserKept(users[u], r) /\ (r.password => users[u].password)
    BY <1>t, <1>s, <2>1 DEF UserRows, UserKept, Shut
  <2>4. UserChange(u, r)
    BY <1>3, <2>1 DEF SignOut, UserChange
  <2>5. QED
    BY <2>2, <2>3, <2>4
<1>4. ASSUME NEW u \in DOMAIN users, ConnectGoogle(u)
      PROVE  \E r \in UserRows :
               /\ UserChange(u, r) /\ UserKept(users[u], r)
               /\ r.password => users[u].password
  <2>1. PICK r : r = [users[u] EXCEPT !.google = TRUE]
    OBVIOUS
  <2>2. r \in UserRows
    BY <1>t, <2>1 DEF UserRows
  <2>3. ~users[u].erased
    BY <1>s, <1>4 DEF ConnectGoogle, SignedIn, Shut
  <2>4. UserKept(users[u], r) /\ (r.password => users[u].password)
    BY <1>t, <2>1, <2>3 DEF UserRows, UserKept, Shut
  <2>5. UserChange(u, r)
    BY <1>4, <2>1 DEF ConnectGoogle, UserChange
  <2>6. QED
    BY <2>2, <2>4, <2>5
<1>5. ASSUME NEW u \in DOMAIN users, ToggleActive(u)
      PROVE  \E r \in UserRows :
               /\ UserChange(u, r) /\ UserKept(users[u], r)
               /\ r.password => users[u].password
  <2>1. PICK r : r = [users[u] EXCEPT !.active = ~@]
    OBVIOUS
  <2>2. r \in UserRows
    BY <1>t, <2>1 DEF UserRows
  <2>3. UserKept(users[u], r) /\ (r.password => users[u].password)
    BY <1>t, <1>5, <2>1 DEF UserRows, UserKept, ToggleActive, Save
  <2>4. UserChange(u, r)
    BY <1>5, <2>1 DEF ToggleActive, UserChange
  <2>5. QED
    BY <2>2, <2>3, <2>4
<1>6. ASSUME NEW i \in DOMAIN invitations, AcceptInvitation(i)
      PROVE  \E u \in DOMAIN users, r \in UserRows :
               UserChange(u, r) /\ UserKept(users[u], r) /\ invitations[i].user = u
  <2>1. PICK u \in DOMAIN users : u = invitations[i].user
    BY DEF LoginTyped
  <2>2. PICK r : r = [users[u] EXCEPT !.password = TRUE]
    OBVIOUS
  <2>3. r \in UserRows
    BY <1>t, <2>2 DEF UserRows
  <2>4. ~users[u].erased
    BY <1>6, <2>1 DEF AcceptInvitation, Available
  <2>5. UserKept(users[u], r)
    BY <1>t, <2>2, <2>4 DEF UserRows, UserKept
  <2>6. UserChange(u, r)
    BY <1>6, <2>1, <2>2 DEF AcceptInvitation, UserChange
  <2>7. QED
    BY <2>1, <2>3, <2>5, <2>6
<1>7. ASSUME NEW u \in DOMAIN users, DisableLogin(u)
      PROVE  \E r \in UserRows :
               /\ UserChange(u, r) /\ UserKept(users[u], r)
               /\ r.password => users[u].password
  <2>1. PICK r : r = [users[u] EXCEPT !.active = FALSE, !.session = FALSE, !.google = FALSE]
    OBVIOUS
  <2>2. r \in UserRows
    BY <1>t, <2>1 DEF UserRows
  <2>3. UserKept(users[u], r) /\ (r.password => users[u].password)
    BY <1>t, <1>s, <2>1 DEF UserRows, UserKept, Shut
  <2>4. UserChange(u, r)
    BY <1>7, <2>1 DEF DisableLogin, UserChange
  <2>5. QED
    BY <2>2, <2>3, <2>4
<1>8. ASSUME NEW u \in DOMAIN users, NEW kept \in SUBSET ProfileIdentity, EraseLogin(u, kept)
      PROVE  \E r \in UserRows :
               /\ UserChange(u, r) /\ UserKept(users[u], r)
               /\ r.password => users[u].password
  <2>1. PICK r : r = [users[u] EXCEPT !.active = FALSE, !.session = FALSE, !.google = FALSE,
                        !.password = FALSE, !.erased = TRUE, !.kept = kept]
    OBVIOUS
  <2>2. r \in UserRows
    BY <1>t, <2>1 DEF UserRows
  <2>3. UserKept(users[u], r) /\ ~r.password
    BY <1>t, <1>8, <2>1 DEF UserRows, UserKept, Shut, EraseLogin, Save
  <2>4. UserChange(u, r)
    BY <1>8, <2>1 DEF EraseLogin, UserChange
  <2>5. QED
    BY <2>2, <2>3, <2>4
<1>9. ASSUME NEW u \in DOMAIN users, users[u].erased,
             NEW kept \in SUBSET users[u].kept, users' = [users EXCEPT ![u].kept = kept]
      PROVE  \E r \in UserRows :
               /\ UserChange(u, r) /\ UserKept(users[u], r)
               /\ r.password => users[u].password
  <2>1. PICK r : r = [users[u] EXCEPT !.kept = kept]
    OBVIOUS
  <2>2. r \in UserRows
    BY <1>t, <2>1 DEF UserRows
  <2>3. UserKept(users[u], r) /\ (r.password => users[u].password)
    BY <1>t, <1>s, <1>9, <2>1 DEF UserRows, UserKept, Shut
  <2>4. UserChange(u, r)
    BY <1>9, <2>1 DEF UserChange
  <2>5. QED
    BY <2>2, <2>3, <2>4
<1>10. QED
  <2>1. CASE LoginNext
    <3>1. CASE \E u \in DOMAIN users :
                 StartSignIn(u) \/ FinishSignIn(u) \/ SignOut(u) \/ ConnectGoogle(u) \/ ToggleActive(u)
      BY <3>1, <1>1, <1>2, <1>3, <1>4, <1>5
    <3>2. CASE \E i \in DOMAIN invitations : AcceptInvitation(i)
      BY <3>2, <1>6
    <3>3. CASE users' = users
      BY <3>3
    <3>4. QED
      BY <2>1, <3>1, <3>2, <3>3
      DEF LoginNext, IssueInvitation, SendInvitation, InvitationExpires, RequestInvitationRecovery
  <2>2. CASE CreateInvitedCustomer
    BY <2>2 DEF CreateInvitedCustomer
  <2>3. CASE \E u \in DOMAIN users :
               \/ DisableLogin(u)
               \/ \E kept \in SUBSET ProfileIdentity : EraseLogin(u, kept)
               \/ /\ users[u].erased /\ UNCHANGED invitations
                  /\ \E kept \in SUBSET users[u].kept : users' = [users EXCEPT ![u].kept = kept]
    BY <2>3, <1>7, <1>8, <1>9
  <2>4. CASE UNCHANGED loginVars
    BY <2>4 DEF loginVars
  <2>5. QED
    BY <2>1, <2>2, <2>3, <2>4 DEF KeepingStep, LoginStep

\* Links that are marked keep their rows otherwise.
LEMMA MarkedLinks ==
  ASSUME LoginTyped, NEW rows, NEW s \in LinkStatuses
  PROVE  /\ Marked(rows, s) \in Seq(LinkRows) /\ Len(Marked(rows, s)) = Len(invitations)
         /\ \A i \in DOMAIN invitations :
              /\ Marked(rows, s)[i].user = invitations[i].user
              /\ Marked(rows, s)[i].status = IF i \in rows THEN s ELSE invitations[i].status
<1>1. invitations \in Seq(LinkRows) /\ \A i \in DOMAIN invitations : invitations[i] \in LinkRows
  BY DEF LoginTyped
<1>2. \A i \in DOMAIN invitations :
        /\ Marked(rows, s)[i] \in LinkRows
        /\ Marked(rows, s)[i].user = invitations[i].user
        /\ Marked(rows, s)[i].status = IF i \in rows THEN s ELSE invitations[i].status
  <2>1. SUFFICES ASSUME NEW i \in DOMAIN invitations
                 PROVE  /\ Marked(rows, s)[i] \in LinkRows
                        /\ Marked(rows, s)[i].user = invitations[i].user
                        /\ Marked(rows, s)[i].status = IF i \in rows THEN s ELSE invitations[i].status
    OBVIOUS
  <2>2. PICK r : r = [invitations[i] EXCEPT !.status = s]
    OBVIOUS
  <2>3. r \in LinkRows /\ r.user = invitations[i].user /\ r.status = s
    BY <1>1, <2>1, <2>2 DEF LinkRows
  <2>4. Marked(rows, s)[i] = IF i \in rows THEN r ELSE invitations[i]
    BY <2>1, <2>2 DEF Marked
  <2>5. QED
    BY <1>1, <2>1, <2>3, <2>4
<1>3. DOMAIN Marked(rows, s) = 1..Len(invitations) /\ Len(invitations) \in Nat
  BY <1>1 DEF Marked
<1>4. PICK q, n : q = Marked(rows, s) /\ n = Len(invitations)
  OBVIOUS
<1>5. q \in Seq(LinkRows)
  <2>1. q = [i \in 1..n |-> q[i]]
    BY <1>3, <1>4 DEF Marked
  <2>2. \A i \in 1..n : q[i] \in LinkRows
    BY <1>1, <1>2, <1>4
  <2>3. q \in [1..n -> LinkRows] /\ n \in Nat
    BY <1>3, <1>4, <2>1, <2>2
  <2>4. QED
    BY <2>3
<1>6. Len(Marked(rows, s)) = Len(invitations)
  BY <1>1, <1>3, <1>4, <1>5
<1>7. QED
  BY <1>2, <1>4, <1>5, <1>6

\* No link changes hands or opens again.
LinksKept(new) ==
  /\ new \in Seq(LinkRows) /\ DOMAIN invitations \subseteq DOMAIN new
  /\ \A i \in DOMAIN invitations :
       /\ new[i].user = invitations[i].user
       /\ new[i].status = "OPEN" => invitations[i].status = "OPEN"

\* The links that were there, and a new one after them for u.
LinkIssued(new, u) ==
  /\ DOMAIN new = DOMAIN invitations \cup {Len(invitations) + 1}
  /\ new[Len(invitations) + 1] = NewInvitation(u)
  /\ \A i \in DOMAIN invitations : invitations[i].user = u => new[i].status # "OPEN"

\* A new link comes with its login or after the older links were revoked.
LEMMA LinkSteps ==
  ASSUME LoginTyped, LoginStep
  PROVE  /\ LinksKept(invitations')
         /\ \/ DOMAIN invitations' = DOMAIN invitations
            \/ /\ LinkIssued(invitations', Len(users) + 1)
               /\ users' = Append(users, NewUser)
            \/ \E u \in DOMAIN users :
                 /\ LinkIssued(invitations', u) /\ users' = users
                 /\ users[u].active /\ ~users[u].password
         /\ \A j \in DOMAIN invitations : AcceptInvitation(j) =>
              \A i \in DOMAIN invitations :
                invitations[i].user = invitations[j].user => invitations'[i].status # "OPEN"
<1>t. invitations \in Seq(LinkRows) /\ \A i \in DOMAIN invitations : invitations[i] \in LinkRows
  BY DEF LoginTyped
<1>l. Len(invitations) \in Nat /\ DOMAIN invitations = 1..Len(invitations)
  BY <1>t
<1>m. "REVOKED" \in LinkStatuses /\ "DELETED" \in LinkStatuses
  BY DEF LinkStatuses
<1>u. users \in Seq(UserRows)
  BY DEF LoginTyped
<1>1. ASSUME NEW i \in DOMAIN invitations, NEW r \in LinkRows,
             r.user = invitations[i].user, r.status = invitations[i].status,
             invitations' = [invitations EXCEPT ![i] = r]
      PROVE  LinksKept(invitations') /\ DOMAIN invitations' = DOMAIN invitations
  BY <1>t, <1>1 DEF LinksKept
<1>2. ASSUME NEW i \in DOMAIN invitations, SendInvitation(i) \/ InvitationExpires(i) \/ RequestInvitationRecovery(i)
      PROVE  LinksKept(invitations') /\ DOMAIN invitations' = DOMAIN invitations
  <2>1. CASE SendInvitation(i)
    <3>1. PICK r : r = [invitations[i] EXCEPT !.mailed = TRUE]
      OBVIOUS
    <3>2. r \in LinkRows /\ r.user = invitations[i].user /\ r.status = invitations[i].status
      BY <1>t, <3>1 DEF LinkRows
    <3>3. invitations' = [invitations EXCEPT ![i] = r]
      BY <2>1, <3>1 DEF SendInvitation
    <3>4. QED
      BY <1>1, <3>2, <3>3
  <2>2. CASE InvitationExpires(i)
    <3>1. PICK r : r = [invitations[i] EXCEPT !.expired = TRUE]
      OBVIOUS
    <3>2. r \in LinkRows /\ r.user = invitations[i].user /\ r.status = invitations[i].status
      BY <1>t, <3>1 DEF LinkRows
    <3>3. invitations' = [invitations EXCEPT ![i] = r]
      BY <2>2, <3>1 DEF InvitationExpires
    <3>4. QED
      BY <1>1, <3>2, <3>3
  <2>3. CASE RequestInvitationRecovery(i)
    <3>1. PICK r : r = [invitations[i] EXCEPT !.help = TRUE]
      OBVIOUS
    <3>2. r \in LinkRows /\ r.user = invitations[i].user /\ r.status = invitations[i].status
      BY <1>t, <3>1 DEF LinkRows
    <3>3. invitations' = [invitations EXCEPT ![i] = r]
      BY <2>3, <3>1 DEF RequestInvitationRecovery
    <3>4. QED
      BY <1>1, <3>2, <3>3
  <2>4. QED
    BY <1>2, <2>1, <2>2, <2>3
<1>3. ASSUME NEW q \in Seq(LinkRows), Len(q) = Len(invitations), NEW u \in Nat,
             invitations' = Append(q, NewInvitation(u)),
             \A i \in DOMAIN invitations : /\ q[i].user = invitations[i].user
                                           /\ q[i].status = "OPEN" => invitations[i].status = "OPEN"
                                           /\ invitations[i].user = u => q[i].status # "OPEN"
      PROVE  LinksKept(invitations') /\ LinkIssued(invitations', u)
  <2>1. PICK r : r = NewInvitation(u)
    OBVIOUS
  <2>2. r \in LinkRows
    BY <2>1 DEF NewInvitation, LinkRows, LinkStatuses
  <2>3. /\ Append(q, r) \in Seq(LinkRows) /\ DOMAIN Append(q, r) = 1..(Len(invitations) + 1)
        /\ Append(q, r)[Len(invitations) + 1] = r
        /\ \A i \in 1..Len(invitations) : Append(q, r)[i] = q[i]
    BY <1>3, <1>l, <2>2
  <2>4. QED
    BY <1>3, <1>l, <2>1, <2>3 DEF LinksKept, LinkIssued
<1>4. ASSUME NEW u \in DOMAIN users, IssueInvitation(u)
      PROVE  /\ LinksKept(invitations') /\ LinkIssued(invitations', u)
             /\ users' = users /\ users[u].active /\ ~users[u].password
  <2>1. PICK q : q = Marked(OpenLinks(u), "REVOKED")
    OBVIOUS
  <2>2. /\ q \in Seq(LinkRows) /\ Len(q) = Len(invitations)
        /\ \A i \in DOMAIN invitations :
             /\ q[i].user = invitations[i].user
             /\ q[i].status = IF i \in OpenLinks(u) THEN "REVOKED" ELSE invitations[i].status
    BY <1>m, <2>1, MarkedLinks
  <2>3. \A i \in DOMAIN invitations : invitations[i].user = u => q[i].status # "OPEN"
    BY <2>2 DEF OpenLinks, Open
  <2>4. u \in Nat
    BY <1>u
  <2>5. QED
    BY <1>3, <1>4, <2>1, <2>2, <2>3, <2>4 DEF IssueInvitation
<1>5. ASSUME CreateInvitedCustomer
      PROVE  /\ LinksKept(invitations') /\ LinkIssued(invitations', Len(users) + 1)
             /\ users' = Append(users, NewUser)
  <2>1. Len(users) + 1 \in Nat /\ Len(users) + 1 \notin DOMAIN users
    BY <1>u
  <2>2. \A i \in DOMAIN invitations : invitations[i].user # Len(users) + 1
    BY <2>1 DEF LoginTyped
  <2>3. QED
    BY <1>3, <1>5, <1>t, <2>1, <2>2 DEF CreateInvitedCustomer
<1>6. ASSUME NEW j \in DOMAIN invitations, AcceptInvitation(j)
      PROVE  /\ LinksKept(invitations') /\ DOMAIN invitations' = DOMAIN invitations
             /\ \A i \in DOMAIN invitations :
                  invitations[i].user = invitations[j].user => invitations'[i].status # "OPEN"
  <2>1. PICK q : q = Marked(OpenLinks(invitations[j].user), "REVOKED")
    OBVIOUS
  <2>2. /\ q \in Seq(LinkRows) /\ Len(q) = Len(invitations)
        /\ \A i \in DOMAIN invitations :
             /\ q[i].user = invitations[i].user
             /\ q[i].status = IF i \in OpenLinks(invitations[j].user) THEN "REVOKED" ELSE invitations[i].status
    BY <1>m, <2>1, MarkedLinks
  <2>3. PICK r : r = [q[j] EXCEPT !.status = "ACCEPTED"]
    OBVIOUS
  <2>4. q[j] \in LinkRows /\ DOMAIN q = DOMAIN invitations
    BY <1>l, <2>2
  <2>5. r \in LinkRows /\ r.user = q[j].user /\ r.status = "ACCEPTED"
    BY <2>3, <2>4 DEF LinkRows, LinkStatuses
  <2>6. invitations' = [q EXCEPT ![j] = r]
    BY <1>6, <2>1, <2>3 DEF AcceptInvitation
  <2>7. \A i \in DOMAIN invitations : invitations[i].user = invitations[j].user => q[i].status # "OPEN"
    BY <2>2 DEF OpenLinks, Open
  <2>8. /\ invitations' \in Seq(LinkRows) /\ DOMAIN invitations' = DOMAIN invitations
        /\ \A i \in DOMAIN invitations : invitations'[i] = IF i = j THEN r ELSE q[i]
    BY <2>2, <2>4, <2>5, <2>6
  <2>9. QED
    BY <2>2, <2>5, <2>7, <2>8 DEF LinksKept
<1>7. ASSUME NEW rows, NEW s \in LinkStatuses, s # "OPEN", invitations' = Marked(rows, s)
      PROVE  LinksKept(invitations') /\ DOMAIN invitations' = DOMAIN invitations
  BY <1>l, <1>7, MarkedLinks DEF LinksKept
<1>8. invitations' = invitations => LinksKept(invitations')
  BY <1>t DEF LinksKept
<1>9. /\ LinksKept(invitations')
      /\ \/ DOMAIN invitations' = DOMAIN invitations
         \/ /\ LinkIssued(invitations', Len(users) + 1)
            /\ users' = Append(users, NewUser)
         \/ \E u \in DOMAIN users :
              /\ LinkIssued(invitations', u) /\ users' = users
              /\ users[u].active /\ ~users[u].password
  <2>1. CASE LoginNext
    BY <2>1, <1>2, <1>4, <1>6, <1>8
    DEF LoginNext, StartSignIn, FinishSignIn, SignOut, ConnectGoogle, ToggleActive
  <2>2. CASE CreateInvitedCustomer
    BY <2>2, <1>5
  <2>3. CASE \E u \in DOMAIN users : DisableLogin(u)
    BY <2>3, <1>m, <1>7 DEF DisableLogin
  <2>4. CASE \E u \in DOMAIN users : \E kept \in SUBSET ProfileIdentity : EraseLogin(u, kept)
    BY <2>4, <1>m, <1>7 DEF EraseLogin
  <2>5. QED
    BY <2>1, <2>2, <2>3, <2>4, <1>8 DEF KeepingStep, LoginStep, loginVars
<1>10. QED
  BY <1>6, <1>9

\* What every step keeps of the logins, seen one login at a time.
LEMMA UsersKept ==
  ASSUME LoginTyped, LoginsAreShut, LoginStep
  PROVE  /\ users' \in Seq(UserRows) /\ DOMAIN users \subseteq DOMAIN users'
         /\ \A u \in DOMAIN users :
              /\ UserKept(users[u], users'[u])
              /\ users'[u].password =>
                   \/ users[u].password
                   \/ \E i \in DOMAIN invitations :
                        AcceptInvitation(i) /\ invitations[i].user = u
         /\ \A u \in DOMAIN users' \ DOMAIN users :
              /\ users' = Append(users, NewUser) /\ u = Len(users) + 1
              /\ ~users'[u].erased /\ ~users'[u].password
<1>t. users \in Seq(UserRows) /\ \A u \in DOMAIN users : users[u] \in UserRows
  BY DEF LoginTyped
<1>s. \A u \in DOMAIN users : UserKept(users[u], users[u])
  BY DEF LoginsAreShut, UserKept
<1>1. CASE users' = users
  BY <1>t, <1>s, <1>1
<1>2. CASE users' = Append(users, NewUser)
  <2>1. PICK r : r = NewUser
    OBVIOUS
  <2>2. r \in UserRows /\ ~r.erased /\ ~r.password
    BY <2>1 DEF NewUser, UserRows
  <2>3. /\ Append(users, r) \in Seq(UserRows) /\ DOMAIN Append(users, r) = 1..(Len(users) + 1)
        /\ Append(users, r)[Len(users) + 1] = r
        /\ DOMAIN users = 1..Len(users) /\ Len(users) \in Nat
        /\ \A u \in DOMAIN users : Append(users, r)[u] = users[u]
    BY <1>t, <2>2
  <2>4. QED
    BY <1>2, <1>s, <2>1, <2>2, <2>3
<1>3. ASSUME NEW v \in DOMAIN users, NEW r \in UserRows,
             UserChange(v, r), UserKept(users[v], r),
             r.password => \/ users[v].password
                           \/ \E i \in DOMAIN invitations :
                                AcceptInvitation(i) /\ invitations[i].user = v
      PROVE  /\ users' \in Seq(UserRows) /\ DOMAIN users' = DOMAIN users
             /\ \A u \in DOMAIN users :
                  /\ UserKept(users[u], users'[u])
                  /\ users'[u].password =>
                       \/ users[u].password
                       \/ \E i \in DOMAIN invitations :
                            AcceptInvitation(i) /\ invitations[i].user = u
  <2>1. /\ users' \in Seq(UserRows) /\ DOMAIN users' = DOMAIN users
        /\ \A u \in DOMAIN users : users'[u] = IF u = v THEN r ELSE users[u]
    BY <1>t, <1>3 DEF UserChange
  <2>2. QED
    BY <1>s, <1>3, <2>1
<1>4. QED
  BY <1>1, <1>2, <1>3, UserSteps

\* Only an erasure removes a login.
LEMMA ErasedByErasure ==
  ASSUME LoginTyped, KeepingStep, NEW u \in DOMAIN users, ~users[u].erased, users'[u].erased
  PROVE  FALSE
<1>t. users \in Seq(UserRows) /\ \A v \in DOMAIN users : users[v] \in UserRows
  BY DEF LoginTyped
<1>1. ASSUME NEW v \in DOMAIN users, NEW r, users' = [users EXCEPT ![v] = r]
      PROVE  v = u /\ r.erased
  BY <1>1
<1>2. users' # users
  OBVIOUS
<1>3. ~CreateInvitedCustomer
  <2>1. PICK r : r = NewUser
    OBVIOUS
  <2>2. Append(users, r)[u] = users[u]
    BY <1>t, <2>1 DEF NewUser, UserRows
  <2>3. QED
    BY <2>1, <2>2 DEF CreateInvitedCustomer
<1>4. ASSUME NEW v \in DOMAIN users,
             \/ StartSignIn(v) \/ FinishSignIn(v) \/ SignOut(v) \/ ConnectGoogle(v)
             \/ ToggleActive(v) \/ DisableLogin(v)
             \/ \E kept \in SUBSET users[v].kept : users' = [users EXCEPT ![v].kept = kept]
      PROVE  FALSE
  <2>1. ASSUME NEW r, users' = [users EXCEPT ![v] = r], r.erased = users[v].erased
        PROVE  FALSE
    BY <1>1, <2>1
  <2>2. CASE StartSignIn(v)
    <3>1. [users[v] EXCEPT !.signing = TRUE].erased = users[v].erased
      BY <1>t DEF UserRows
    <3>2. QED
      BY <2>1, <2>2, <3>1 DEF StartSignIn
  <2>3. CASE FinishSignIn(v)
    <3>1. [users[v] EXCEPT !.signing = FALSE, !.session = Save(v)].erased = users[v].erased
      BY <1>t DEF UserRows
    <3>2. QED
      BY <2>1, <2>3, <3>1 DEF FinishSignIn
  <2>4. CASE SignOut(v)
    <3>1. [users[v] EXCEPT !.session = FALSE].erased = users[v].erased
      BY <1>t DEF UserRows
    <3>2. QED
      BY <2>1, <2>4, <3>1 DEF SignOut
  <2>5. CASE ConnectGoogle(v)
    <3>1. [users[v] EXCEPT !.google = TRUE].erased = users[v].erased
      BY <1>t DEF UserRows
    <3>2. QED
      BY <2>1, <2>5, <3>1 DEF ConnectGoogle
  <2>6. CASE ToggleActive(v)
    <3>1. [users[v] EXCEPT !.active = ~@].erased = users[v].erased
      BY <1>t DEF UserRows
    <3>2. QED
      BY <2>1, <2>6, <3>1 DEF ToggleActive
  <2>7. CASE DisableLogin(v)
    <3>1. [users[v] EXCEPT !.active = FALSE, !.session = FALSE, !.google = FALSE].erased = users[v].erased
      BY <1>t DEF UserRows
    <3>2. QED
      BY <2>1, <2>7, <3>1 DEF DisableLogin
  <2>8. ASSUME NEW kept \in SUBSET users[v].kept, users' = [users EXCEPT ![v].kept = kept]
        PROVE  FALSE
    <3>1. [users[v] EXCEPT !.kept = kept].erased = users[v].erased
      BY <1>t DEF UserRows
    <3>2. QED
      BY <2>1, <2>8, <3>1
  <2>9. QED
    BY <1>4, <2>2, <2>3, <2>4, <2>5, <2>6, <2>7, <2>8
<1>5. ASSUME NEW i \in DOMAIN invitations, AcceptInvitation(i)
      PROVE  FALSE
  <2>1. PICK v \in DOMAIN users : v = invitations[i].user
    BY DEF LoginTyped
  <2>2. [users[v] EXCEPT !.password = TRUE].erased = users[v].erased
    BY <1>t DEF UserRows
  <2>3. QED
    BY <1>1, <1>5, <2>1, <2>2 DEF AcceptInvitation
<1>6. ~LoginNext
  BY <1>2, <1>4, <1>5
  DEF LoginNext, IssueInvitation, SendInvitation, InvitationExpires, RequestInvitationRecovery
<1>7. QED
  BY <1>2, <1>3, <1>4, <1>6 DEF KeepingStep, loginVars

\* A link works alone, for a login that has no password yet; a removed login has
\* none, and no step gives it one or reopens it.
LEMMA LoginsAreKept ==
  ASSUME LoginTyped, LoginsAreShut, OneWorkingLink, LoginStep
  PROVE  /\ LoginTyped' /\ LoginsAreShut' /\ OneWorkingLink'
         /\ \A u \in DOMAIN users : users[u].erased =>
              \A i \in DOMAIN invitations' : invitations'[i].user = u => i \in DOMAIN invitations
<1>1. /\ users' \in Seq(UserRows) /\ DOMAIN users \subseteq DOMAIN users'
      /\ \A u \in DOMAIN users : UserKept(users[u], users'[u])
  BY UsersKept
<1>2. LinksKept(invitations')
  BY LinkSteps
<1>u. users \in Seq(UserRows) /\ invitations \in Seq(LinkRows)
      /\ \A i \in DOMAIN invitations : invitations[i].user \in DOMAIN users
  BY DEF LoginTyped
<1>l. DOMAIN invitations = 1..Len(invitations) /\ Len(invitations) \in Nat
  BY <1>u
<1>3. \A i \in DOMAIN invitations' \ DOMAIN invitations :
        /\ i = Len(invitations) + 1
        /\ \E u \in DOMAIN users' :
             /\ invitations'[i].user = u
             /\ ~users'[u].password /\ ~users'[u].erased
             /\ \A j \in DOMAIN invitations : invitations[j].user = u => invitations'[j].status # "OPEN"
             /\ u \in DOMAIN users => ~users[u].erased
  <2>1. CASE DOMAIN invitations' = DOMAIN invitations
    BY <2>1
  <2>2. CASE /\ LinkIssued(invitations', Len(users) + 1)
             /\ users' = Append(users, NewUser)
    <3>1. Len(users) + 1 \in DOMAIN users' \ DOMAIN users
      BY <1>u, <2>2
    <3>2. invitations'[Len(invitations) + 1].user = Len(users) + 1
      BY <2>2 DEF LinkIssued, NewInvitation
    <3>3. ~users'[Len(users) + 1].erased /\ ~users'[Len(users) + 1].password
      BY <3>1, UsersKept
    <3>4. QED
      BY <2>2, <3>1, <3>2, <3>3 DEF LinkIssued
  <2>3. ASSUME NEW u \in DOMAIN users, LinkIssued(invitations', u), users' = users,
               users[u].active, ~users[u].password
        PROVE  \A i \in DOMAIN invitations' \ DOMAIN invitations :
                 /\ i = Len(invitations) + 1
                 /\ invitations'[i].user = u
                 /\ ~users'[u].password /\ ~users'[u].erased
                 /\ \A j \in DOMAIN invitations : invitations[j].user = u => invitations'[j].status # "OPEN"
    <3>1. ~users[u].erased
      BY <2>3 DEF LoginsAreShut, Shut
    <3>2. QED
      BY <2>3, <3>1 DEF LinkIssued, NewInvitation
  <2>4. QED
    BY <2>1, <2>2, <2>3, LinkSteps
<1>4. LoginTyped'
  BY <1>1, <1>2, <1>3, <1>u DEF LoginTyped, LinksKept
<1>5. LoginsAreShut'
  <2>1. SUFFICES ASSUME NEW u \in DOMAIN users', users'[u].erased
                 PROVE  Shut(users'[u]) /\ \A i \in DOMAIN invitations' :
                                             invitations'[i].user = u => invitations'[i].status # "OPEN"
    BY DEF LoginsAreShut, OpenLinks, Open
  <2>2. u \in DOMAIN users /\ Shut(users'[u])
    BY <1>1, <2>1, UsersKept DEF UserKept
  <2>3. ASSUME NEW i \in DOMAIN invitations', invitations'[i].user = u, invitations'[i].status = "OPEN"
        PROVE  FALSE
    <3>1. i \in DOMAIN invitations
      BY <1>3, <2>1, <2>3
    <3>2. invitations[i].user = u /\ invitations[i].status = "OPEN"
      BY <1>2, <2>3, <3>1 DEF LinksKept
    <3>3. CASE users[u].erased
      BY <2>2, <3>1, <3>2, <3>3 DEF LoginsAreShut, OpenLinks, Open
    <3>4. CASE ~users[u].erased
      <4>0. PICK v \in DOMAIN users, kept \in SUBSET ProfileIdentity : EraseLogin(v, kept)
        BY <2>1, <2>2, <3>4, ErasedByErasure DEF LoginStep
      <4>1. v = u
        BY <1>u, <2>1, <2>2, <3>4, <4>0 DEF EraseLogin
      <4>2. invitations'[i].status = "DELETED"
        BY <3>1, <3>2, <4>0, <4>1, MarkedLinks DEF EraseLogin, LinkStatuses
      <4>3. QED
        BY <2>3, <4>2
    <3>5. QED
      BY <3>3, <3>4
  <2>4. QED
    BY <2>2, <2>3
<1>6. OneWorkingLink'
  <2>1. SUFFICES ASSUME NEW i \in DOMAIN invitations', invitations'[i].status = "OPEN"
                 PROVE  /\ \A j \in DOMAIN invitations' :
                             invitations'[j].user = invitations'[i].user => j <= i
                        /\ ~users'[invitations'[i].user].password
    BY DEF OneWorkingLink, Open
  <2>2. CASE i \in DOMAIN invitations
    <3>1. /\ invitations[i].status = "OPEN" /\ invitations'[i].user = invitations[i].user
          /\ invitations[i].user \in DOMAIN users
      BY <1>2, <1>u, <2>1, <2>2 DEF LinksKept
    <3>2. /\ \A j \in DOMAIN invitations : invitations[j].user = invitations[i].user => j <= i
          /\ ~users[invitations[i].user].password
      BY <2>2, <3>1 DEF OneWorkingLink, Open
    <3>3. ASSUME NEW j \in DOMAIN invitations', invitations'[j].user = invitations'[i].user
          PROVE  j <= i
      <4>1. j \in DOMAIN invitations
        BY <1>3, <2>1, <2>2, <3>1, <3>3
      <4>2. QED
        BY <1>2, <3>1, <3>2, <3>3, <4>1 DEF LinksKept
    <3>4. ~users'[invitations[i].user].password
      <4>1. ASSUME NEW j \in DOMAIN invitations, AcceptInvitation(j),
                   invitations[j].user = invitations[i].user
            PROVE  FALSE
        BY <2>1, <2>2, <4>1, LinkSteps
      <4>2. QED
        BY <3>1, <3>2, <4>1, UsersKept
    <3>5. QED
      BY <3>1, <3>3, <3>4
  <2>3. CASE i \notin DOMAIN invitations
    <3>1. i = Len(invitations) + 1 /\ ~users'[invitations'[i].user].password
      BY <1>3, <2>1, <2>3
    <3>2. \A j \in DOMAIN invitations' : j <= i
      BY <1>3, <1>l, <3>1
    <3>3. QED
      BY <3>1, <3>2
  <2>4. QED
    BY <2>2, <2>3
<1>7. ASSUME NEW u \in DOMAIN users, users[u].erased,
             NEW i \in DOMAIN invitations', invitations'[i].user = u
      PROVE  i \in DOMAIN invitations
  BY <1>1, <1>3, <1>7
<1>8. QED
  BY <1>4, <1>5, <1>6, <1>7

-----------------------------------------------------------------------------
(* Registrations and applications. *)

RegistrationStatuses ==
  {"PENDING_EMAIL_VERIFICATION", "AWAITING_OWNER_APPROVAL", "APPROVED", "REJECTED", "EXPIRED"}
Confirmations == Seq([final : BOOLEAN, offer : Nat])
RegistrationRows ==
  [journey : BOOLEAN, status : RegistrationStatuses, mailed : BOOLEAN, overdue : BOOLEAN,
   lapsed : BOOLEAN, progress : Nat, reissues : Nat, confirmations : Confirmations,
   past : BOOLEAN, user : Nat]
AgreementRows ==
  [user : Nat, registration : Nat, offer : Nat, confirmed : Nat, closed : BOOLEAN, pending : BOOLEAN]

\* A registration has a login from its approval on.
RegistrationsTyped ==
  /\ offer \in [version : Nat, listed : BOOLEAN]
  /\ registrations \in Seq(RegistrationRows)
  /\ \A r \in DOMAIN registrations :
       /\ registrations[r].user \in DOMAIN users \cup {0}
       /\ registrations[r].user # 0 => registrations[r].status = "APPROVED"

\* The progress access of a removed login is gone.
ProgressIsShut ==
  \A r \in DOMAIN registrations :
    registrations[r].user # 0 /\ users[registrations[r].user].erased => registrations[r].progress = 0

ApprovalOf(r) == ApproveRegistration(r) \/ ApprovePlanApplication(r)

\* What a step does to one registration: its login and its decision come
\* together, and what was approved stays as it was confirmed.
RegistrationKept(r, new) ==
  /\ new \in RegistrationRows /\ new.journey = registrations[r].journey
  /\ \/ /\ new.user = registrations[r].user
        /\ new.status = "APPROVED" <=> registrations[r].status = "APPROVED"
        /\ new.status = "APPROVED" => new.confirmations = registrations[r].confirmations
     \/ /\ ApprovalOf(r)
        /\ new.status = "APPROVED" /\ new.user = Len(users) + 1
        /\ new.confirmations = registrations[r].confirmations
  /\ new.progress # 0 => \/ registrations[r].progress # 0
                         \/ registrations[r].user = 0
                         \/ ~users[registrations[r].user].erased

\* A mapping over the rows of a table is a table of as many rows.
LEMMA MappedRows ==
  ASSUME NEW S, NEW T, NEW s \in Seq(S), NEW f,
         f = [i \in DOMAIN s |-> f[i]], \A i \in DOMAIN s : f[i] \in T
  PROVE  f \in Seq(T) /\ DOMAIN f = DOMAIN s /\ Len(f) = Len(s)
<1>1. PICK n : n = Len(s) /\ n \in Nat /\ DOMAIN s = 1..n
  OBVIOUS
<1>2. f \in [1..n -> T]
  BY <1>1
<1>3. f \in Seq(T)
  BY <1>1, <1>2
<1>4. QED
  BY <1>1, <1>2, <1>3

\* What a registration has when a step leaves it alone.
LEMMA RegistrationUnchanged ==
  ASSUME RegistrationsTyped, NEW r \in DOMAIN registrations
  PROVE  RegistrationKept(r, registrations[r])
  BY DEF RegistrationsTyped, RegistrationKept

\* One row is changed, the others are not.
RegistrationsKept ==
  /\ registrations' \in Seq(RegistrationRows) /\ DOMAIN registrations \subseteq DOMAIN registrations'
  /\ \A r \in DOMAIN registrations : RegistrationKept(r, registrations'[r])
  /\ \A r \in DOMAIN registrations' \ DOMAIN registrations :
       /\ r = Len(registrations) + 1
       /\ registrations'[r].user = 0 /\ registrations'[r].status # "APPROVED"

LEMMA OneRegistration ==
  ASSUME RegistrationsTyped, NEW r \in DOMAIN registrations, NEW row,
         RegistrationKept(r, row), registrations' = [registrations EXCEPT ![r] = row]
  PROVE  RegistrationsKept
<1>1. registrations \in Seq(RegistrationRows) /\ row \in RegistrationRows
  BY DEF RegistrationsTyped, RegistrationKept
<1>2. /\ registrations' \in Seq(RegistrationRows) /\ DOMAIN registrations' = DOMAIN registrations
      /\ \A x \in DOMAIN registrations : registrations'[x] = IF x = r THEN row ELSE registrations[x]
  BY <1>1
<1>3. QED
  BY <1>2, RegistrationUnchanged DEF RegistrationsKept

\* The steps of an applicant and of the owner on one registration.
LEMMA ApplicationRows ==
  ASSUME RegistrationsTyped, NEW r \in DOMAIN registrations,
         \/ SendVerification(r) \/ VerificationGrowsOverdue(r) \/ ApplicationLapses(r)
         \/ StartDatePasses(r) \/ ReissueVerification(r) \/ VerifyRegistration(r)
         \/ ReissueProgress(r) \/ OpenProgress(r) \/ CompleteApplication(r)
         \/ ApproveRegistration(r) \/ ApprovePlanApplication(r) \/ RejectRegistration(r)
  PROVE  RegistrationsKept
<1>t. registrations[r] \in RegistrationRows /\ registrations \in Seq(RegistrationRows)
      /\ offer.version \in Nat
  BY DEF RegistrationsTyped
<1>u. registrations[r].user # 0 => registrations[r].status = "APPROVED"
  BY DEF RegistrationsTyped
<1>1. CASE SendVerification(r)
  <2>1. PICK row : row = [registrations[r] EXCEPT !.mailed = TRUE]
    OBVIOUS
  <2>2. RegistrationKept(r, row)
    BY <1>t, <2>1 DEF RegistrationKept, RegistrationRows
  <2>3. QED
    BY <1>1, <2>1, <2>2, OneRegistration DEF SendVerification
<1>2. CASE VerificationGrowsOverdue(r)
  <2>1. PICK row : row = [registrations[r] EXCEPT !.overdue = TRUE]
    OBVIOUS
  <2>2. RegistrationKept(r, row)
    BY <1>t, <2>1 DEF RegistrationKept, RegistrationRows
  <2>3. QED
    BY <1>2, <2>1, <2>2, OneRegistration DEF VerificationGrowsOverdue
<1>3. CASE ApplicationLapses(r)
  <2>1. PICK row : row = [registrations[r] EXCEPT !.lapsed = TRUE]
    OBVIOUS
  <2>2. RegistrationKept(r, row)
    BY <1>t, <2>1 DEF RegistrationKept, RegistrationRows
  <2>3. QED
    BY <1>3, <2>1, <2>2, OneRegistration DEF ApplicationLapses
<1>4. CASE StartDatePasses(r)
  <2>1. PICK row : row = [registrations[r] EXCEPT !.past = TRUE]
    OBVIOUS
  <2>2. RegistrationKept(r, row)
    BY <1>t, <2>1 DEF RegistrationKept, RegistrationRows
  <2>3. QED
    BY <1>4, <2>1, <2>2, OneRegistration DEF StartDatePasses
<1>5. CASE ReissueVerification(r)
  <2>1. PICK n : n = registrations[r].reissues + 1 /\ n \in Nat
    BY <1>t DEF RegistrationRows
  <2>2. PICK row : row = [registrations[r] EXCEPT !.overdue = FALSE, !.mailed = FALSE, !.reissues = n]
    OBVIOUS
  <2>3. RegistrationKept(r, row)
    BY <1>t, <2>1, <2>2 DEF RegistrationKept, RegistrationRows
  <2>4. QED
    BY <1>5, <2>1, <2>2, <2>3, OneRegistration DEF ReissueVerification
<1>6. CASE VerifyRegistration(r)
  <2>1. registrations[r].status = "PENDING_EMAIL_VERIFICATION" /\ registrations[r].user = 0
    BY <1>6, <1>u DEF VerifyRegistration, Verifiable, InStatus
  <2>2. PICK verified : verified = [registrations[r] EXCEPT !.status = "AWAITING_OWNER_APPROVAL"]
    OBVIOUS
  <2>3. RegistrationKept(r, verified) /\ verified \in RegistrationRows
    BY <1>t, <2>1, <2>2 DEF RegistrationKept, RegistrationRows, RegistrationStatuses
  <2>4. PICK row : row = [verified EXCEPT !.progress = 1]
    OBVIOUS
  <2>5. RegistrationKept(r, row)
    BY <2>1, <2>3, <2>4 DEF RegistrationKept, RegistrationRows
  <2>6. \/ registrations' = [registrations EXCEPT ![r] = row]
        \/ registrations' = [registrations EXCEPT ![r] = verified]
    BY <1>6, <2>2, <2>4 DEF VerifyRegistration
  <2>7. QED
    BY <2>3, <2>5, <2>6, OneRegistration
<1>7. CASE ReissueProgress(r)
  <2>0. registrations[r].reissues + 1 \in Nat /\ 2 + registrations[r].reissues \in Nat
    <3>1. registrations[r].reissues \in Nat
      BY <1>t DEF RegistrationRows
    <3>2. QED
      BY <3>1
  <2>a. PICK n, m : /\ n = registrations[r].reissues + 1 /\ n \in Nat
                    /\ m = 2 + registrations[r].reissues /\ m \in Nat
    BY <2>0, Zenon
  <2>1. PICK row : row = [registrations[r] EXCEPT !.progress = m, !.reissues = n]
    OBVIOUS
  <2>2. registrations[r].user # 0 => ~users[registrations[r].user].erased
    BY <1>7 DEF ReissueProgress, ProgressIdentityAvailable
  <2>3. RegistrationKept(r, row)
    BY <1>t, <2>a, <2>1, <2>2 DEF RegistrationKept, RegistrationRows
  <2>4. QED
    BY <1>7, <2>a, <2>1, <2>3, OneRegistration DEF ReissueProgress
<1>8. CASE OpenProgress(r)
  <2>1. registrations' = registrations
    BY <1>8 DEF OpenProgress
  <2>2. QED
    BY <1>t, <2>1, RegistrationUnchanged DEF RegistrationsKept
<1>9. CASE CompleteApplication(r)
  <2>1. PICK q : q = Append(registrations[r].confirmations, [final |-> TRUE, offer |-> offer.version])
                 /\ q \in Confirmations
    <3>1. registrations[r].confirmations \in Confirmations
      BY <1>t DEF RegistrationRows
    <3>a. [final |-> TRUE, offer |-> offer.version] \in [final : BOOLEAN, offer : Nat]
      BY <1>t
    <3>2. PICK o : o = [final |-> TRUE, offer |-> offer.version] /\ o \in [final : BOOLEAN, offer : Nat]
      BY <3>a
    <3>3. Append(registrations[r].confirmations, o) \in Confirmations
      BY <3>1, <3>2 DEF Confirmations
    <3>4. QED
      BY <3>2, <3>3
  <2>2. PICK row : row = [registrations[r] EXCEPT !.confirmations = q, !.past = FALSE]
    OBVIOUS
  <2>a. registrations' = [registrations EXCEPT ![r].confirmations = q, ![r].past = FALSE]
    BY <1>9, <2>1 DEF CompleteApplication
  <2>3. registrations[r].status = "AWAITING_OWNER_APPROVAL"
    BY <1>9 DEF CompleteApplication, InStatus
  <2>4. RegistrationKept(r, row)
    BY <1>t, <2>1, <2>2, <2>3 DEF RegistrationKept, RegistrationRows
  <2>5. QED
    BY <2>a, <2>2, <2>4, OneRegistration
<1>10. CASE ApprovalOf(r)
  <2>1. ApproveIdentity(r)
    BY <1>10 DEF ApprovalOf, ApproveRegistration, ApprovePlanApplication
  <2>2. PICK n : n = Len(users) + 1 /\ n \in Nat
    BY <2>1 DEF ApproveIdentity, CreateInvitedCustomer
  <2>3. PICK row : row = [registrations[r] EXCEPT !.status = "APPROVED", !.user = n]
    OBVIOUS
  <2>4. registrations[r].user = 0
    BY <2>1, <1>u DEF ApproveIdentity, InStatus
  <2>5. RegistrationKept(r, row)
    BY <1>t, <1>10, <2>2, <2>3, <2>4 DEF RegistrationKept, RegistrationRows, RegistrationStatuses
  <2>6. QED
    BY <2>1, <2>2, <2>3, <2>5, OneRegistration DEF ApproveIdentity
<1>11. CASE RejectRegistration(r)
  <2>1. PICK row : row = [registrations[r] EXCEPT !.status = "REJECTED"]
    OBVIOUS
  <2>2. registrations[r].status = "AWAITING_OWNER_APPROVAL"
    BY <1>11 DEF RejectRegistration, InStatus
  <2>3. RegistrationKept(r, row)
    BY <1>t, <2>1, <2>2 DEF RegistrationKept, RegistrationRows, RegistrationStatuses
  <2>4. QED
    BY <1>11, <2>1, <2>3, OneRegistration DEF RejectRegistration
<1>12. QED
  BY <1>1, <1>2, <1>3, <1>4, <1>5, <1>6, <1>7, <1>8, <1>9, <1>10, <1>11 DEF ApprovalOf

\* A new registration beside the overdue ones that expire.
LEMMA SubmittedRows ==
  ASSUME RegistrationsTyped, NEW journey \in BOOLEAN, SubmitRegistration(journey)
  PROVE  RegistrationsKept
<1>t. registrations \in Seq(RegistrationRows) /\ offer.version \in Nat
      /\ \A r \in DOMAIN registrations : registrations[r] \in RegistrationRows
  BY DEF RegistrationsTyped
<1>1. PICK kept : kept = [r \in DOMAIN registrations |->
                            IF r \in Overdue THEN [registrations[r] EXCEPT !.status = "EXPIRED"]
                            ELSE registrations[r]]
  OBVIOUS
<1>2. ASSUME NEW r \in DOMAIN registrations
      PROVE  RegistrationKept(r, kept[r])
  <2>1. CASE r \in Overdue
    <3>1. PICK row : row = [registrations[r] EXCEPT !.status = "EXPIRED"]
      OBVIOUS
    <3>2. registrations[r].status = "PENDING_EMAIL_VERIFICATION"
      BY <2>1 DEF Overdue, InStatus
    <3>3. RegistrationKept(r, row)
      BY <1>t, <3>1, <3>2 DEF RegistrationKept, RegistrationRows, RegistrationStatuses
    <3>4. QED
      BY <1>1, <2>1, <3>1, <3>3
  <2>2. CASE r \notin Overdue
    BY <1>1, <2>2, RegistrationUnchanged
  <2>3. QED
    BY <2>1, <2>2
<1>3. kept \in Seq(RegistrationRows) /\ DOMAIN kept = DOMAIN registrations /\ Len(kept) = Len(registrations)
  <2>1. kept = [r \in DOMAIN registrations |-> kept[r]]
    BY <1>1
  <2>2. \A r \in DOMAIN registrations : kept[r] \in RegistrationRows
    BY <1>2 DEF RegistrationKept
  <2>3. QED
    BY <1>t, <2>1, <2>2, MappedRows
<1>4. registrations' = kept \/ registrations' = Append(kept, NewRegistration(journey))
  BY <1>1 DEF SubmitRegistration
<1>5. PICK row : row = NewRegistration(journey)
  OBVIOUS
<1>6. row \in RegistrationRows /\ row.user = 0 /\ row.status # "APPROVED"
  <2>1. PICK q : q = (IF journey THEN <<[final |-> FALSE, offer |-> offer.version]>> ELSE <<>>)
                 /\ q \in Confirmations
    <3>a. [final |-> FALSE, offer |-> offer.version] \in [final : BOOLEAN, offer : Nat]
      BY <1>t
    <3>1. PICK o : o = [final |-> FALSE, offer |-> offer.version] /\ o \in [final : BOOLEAN, offer : Nat]
      BY <3>a
    <3>2. <<o>> \in Confirmations /\ <<>> \in Confirmations
      BY <3>1 DEF Confirmations
    <3>3. QED
      BY <3>1, <3>2
  <2>2. row = [journey |-> journey, status |-> "PENDING_EMAIL_VERIFICATION", mailed |-> FALSE,
               overdue |-> FALSE, lapsed |-> FALSE, progress |-> 0, reissues |-> 0,
               confirmations |-> q, past |-> FALSE, user |-> 0]
    BY <1>5, <2>1 DEF NewRegistration
  <2>3. QED
    BY <2>1, <2>2 DEF RegistrationRows, RegistrationStatuses
<1>7. /\ Append(kept, row) \in Seq(RegistrationRows) /\ DOMAIN Append(kept, row) = 1..(Len(registrations) + 1)
      /\ Append(kept, row)[Len(registrations) + 1] = row
      /\ DOMAIN registrations = 1..Len(registrations) /\ Len(registrations) \in Nat
      /\ \A r \in DOMAIN registrations : Append(kept, row)[r] = kept[r]
  BY <1>t, <1>3, <1>6
<1>8. QED
  BY <1>2, <1>3, <1>4, <1>5, <1>6, <1>7 DEF RegistrationsKept

\* Containment and removal clear the progress accesses of a login.
LEMMA ClearedRows ==
  ASSUME RegistrationsTyped, NEW u,
         registrations' = [r \in DOMAIN registrations |->
           IF registrations[r].user = u THEN [registrations[r] EXCEPT !.progress = 0] ELSE registrations[r]]
  PROVE  /\ RegistrationsKept /\ DOMAIN registrations' = DOMAIN registrations
         /\ \A r \in DOMAIN registrations : registrations[r].user = u => registrations'[r].progress = 0
<1>t. registrations \in Seq(RegistrationRows)
      /\ \A r \in DOMAIN registrations : registrations[r] \in RegistrationRows
  BY DEF RegistrationsTyped
<1>2. ASSUME NEW r \in DOMAIN registrations
      PROVE  /\ RegistrationKept(r, registrations'[r])
             /\ registrations[r].user = u => registrations'[r].progress = 0
  <2>1. CASE registrations[r].user = u
    <3>1. PICK row : row = [registrations[r] EXCEPT !.progress = 0]
      OBVIOUS
    <3>2. RegistrationKept(r, row) /\ row.progress = 0
      BY <1>t, <3>1 DEF RegistrationKept, RegistrationRows
    <3>3. QED
      BY <2>1, <3>1, <3>2
  <2>2. CASE registrations[r].user # u
    BY <2>2, RegistrationUnchanged
  <2>3. QED
    BY <2>1, <2>2
<1>3. PICK kept : kept = [r \in DOMAIN registrations |->
           IF registrations[r].user = u THEN [registrations[r] EXCEPT !.progress = 0] ELSE registrations[r]]
  OBVIOUS
<1>4. kept \in Seq(RegistrationRows) /\ DOMAIN kept = DOMAIN registrations
  <2>1. kept = [r \in DOMAIN registrations |-> kept[r]]
    BY <1>3
  <2>2. \A r \in DOMAIN registrations : kept[r] \in RegistrationRows
    BY <1>2, <1>3 DEF RegistrationKept
  <2>3. QED
    BY <1>t, <2>1, <2>2, MappedRows
<1>5. QED
  BY <1>2, <1>3, <1>4 DEF RegistrationsKept

\* Every step keeps the registrations.
LEMMA RegistrationSteps ==
  ASSUME RegistrationsTyped, Next
  PROVE  RegistrationsKept /\ offer' \in [version : Nat, listed : BOOLEAN]
<1>t. registrations \in Seq(RegistrationRows) /\ offer \in [version : Nat, listed : BOOLEAN]
  BY DEF RegistrationsTyped
<1>0. registrations' = registrations => RegistrationsKept
  BY <1>t, RegistrationUnchanged DEF RegistrationsKept
<1>1. offer' \in [version : Nat, listed : BOOLEAN]
  <2>1. ChangeOffer => offer' \in [version : Nat, listed : BOOLEAN]
    <3>1. PICK n : n = offer.version + 1 /\ n \in Nat
      BY <1>t
    <3>2. ChangeOffer => \/ offer' = [offer EXCEPT !.version = n]
                         \/ offer' = [offer EXCEPT !.listed = ~offer.listed]
      BY <3>1 DEF ChangeOffer
    <3>3. [offer EXCEPT !.version = n] \in [version : Nat, listed : BOOLEAN]
      BY <1>t, <3>1
    <3>4. [offer EXCEPT !.listed = ~offer.listed] \in [version : Nat, listed : BOOLEAN]
      BY <1>t
    <3>5. QED
      BY <3>2, <3>3, <3>4
  <2>2. offer' = offer \/ ChangeOffer
    BY
    DEF Next, ApplicationNext, applicationVars, SubmitPlanApplication, SubmitRegistration, OpenPage,
        SendVerification, VerificationGrowsOverdue, ApplicationLapses, StartDatePasses,
        ReissueVerification, VerifyRegistration, ReissueProgress, OpenProgress, CompleteApplication,
        ApproveRegistration, ApprovePlanApplication, RejectRegistration, RegisterCustomer,
        SubmitDeletion, RequestDeletion, Contain, EnrolCustomer, MoneyMoves, SendDeletionVerification,
        DeletionGrowsOverdue, VerifyAndContain, RecordHold, CompleteDeletion, ReviewRetention, SendNotice
  <2>3. QED
    BY <1>t, <2>1, <2>2
<1>2. ASSUME ApplicationNext PROVE RegistrationsKept
  BY <1>0, <1>2, SubmittedRows, ApplicationRows
  DEF ApplicationNext, SubmitPlanApplication, OpenPage, ChangeOffer
<1>3. ASSUME NEW u, Contain(u) PROVE RegistrationsKept
  BY <1>3, ClearedRows DEF Contain
<1>4. ASSUME NEW d \in DOMAIN deletions, CompleteDeletion(d) PROVE RegistrationsKept
  BY <1>4, ClearedRows DEF CompleteDeletion
<1>5. QED
  BY <1>0, <1>1, <1>2, <1>3, <1>4
  DEF Next, applicationVars, RegisterCustomer, SubmitDeletion, RequestDeletion, EnrolCustomer, MoneyMoves,
      SendDeletionVerification, DeletionGrowsOverdue, VerifyAndContain, RecordHold, ReviewRetention, SendNotice

-----------------------------------------------------------------------------
(* Agreements, deletion requests and notices. *)

AgreementsTyped ==
  /\ agreements \in Seq(AgreementRows)
  /\ \A a \in DOMAIN agreements :
       agreements[a].registration \in DOMAIN registrations \cup {0}

\* The agreements that were there; money moves for who is signed in.
AgreementsKept ==
  /\ agreements' \in Seq(AgreementRows) /\ DOMAIN agreements \subseteq DOMAIN agreements'
  /\ \A a \in DOMAIN agreements :
       /\ agreements'[a].user = agreements[a].user
       /\ agreements'[a].registration = agreements[a].registration
       /\ agreements'[a].offer = agreements[a].offer
       /\ agreements'[a].pending => agreements[a].pending \/ SignedIn(agreements[a].user)

\* A new agreement is of one enrolled at the counter or of one just approved.
AgreementMade(u, r, confirmed) ==
  /\ DOMAIN agreements' = DOMAIN agreements \cup {Len(agreements) + 1}
  /\ agreements'[Len(agreements) + 1].user = u
  /\ agreements'[Len(agreements) + 1].registration = r
  /\ agreements'[Len(agreements) + 1].offer = offer.version

LEMMA OneAgreement ==
  ASSUME AgreementsTyped, RegistrationsTyped, NEW u \in Nat, NEW r \in Nat, NEW c \in Nat,
         agreements' = Append(agreements, NewAgreement(u, r, c))
  PROVE  AgreementsKept /\ AgreementMade(u, r, c)
<1>1. PICK row : row = NewAgreement(u, r, c)
  OBVIOUS
<1>2. offer.version \in Nat
  BY DEF RegistrationsTyped
<1>3. /\ row \in AgreementRows /\ row.user = u /\ row.registration = r /\ row.offer = offer.version
  BY <1>1, <1>2 DEF NewAgreement, AgreementRows
<1>4. agreements \in Seq(AgreementRows)
  BY DEF AgreementsTyped
<1>5. /\ Append(agreements, row) \in Seq(AgreementRows)
      /\ DOMAIN Append(agreements, row) = 1..(Len(agreements) + 1)
      /\ Append(agreements, row)[Len(agreements) + 1] = row
      /\ DOMAIN agreements = 1..Len(agreements) /\ Len(agreements) \in Nat
      /\ \A a \in DOMAIN agreements : Append(agreements, row)[a] = agreements[a]
  BY <1>3, <1>4
<1>6. QED
  BY <1>1, <1>3, <1>5 DEF AgreementsKept, AgreementMade

LEMMA MoneyRows ==
  ASSUME AgreementsTyped, NEW a \in DOMAIN agreements, MoneyMoves(a)
  PROVE  AgreementsKept /\ DOMAIN agreements' = DOMAIN agreements
<1>t. agreements \in Seq(AgreementRows) /\ agreements[a] \in AgreementRows
  BY DEF AgreementsTyped
<1>1. ASSUME NEW row \in AgreementRows, agreements' = [agreements EXCEPT ![a] = row],
             row.user = agreements[a].user, row.registration = agreements[a].registration,
             row.offer = agreements[a].offer,
             row.pending => agreements[a].pending \/ SignedIn(agreements[a].user)
      PROVE  AgreementsKept /\ DOMAIN agreements' = DOMAIN agreements
  <2>1. /\ agreements' \in Seq(AgreementRows) /\ DOMAIN agreements' = DOMAIN agreements
        /\ \A b \in DOMAIN agreements : agreements'[b] = IF b = a THEN row ELSE agreements[b]
    BY <1>t, <1>1
  <2>2. QED
    BY <1>1, <2>1 DEF AgreementsKept
<1>2. CASE SignedIn(agreements[a].user) /\ agreements' = [agreements EXCEPT ![a].pending = TRUE]
  <2>1. PICK row : row = [agreements[a] EXCEPT !.pending = TRUE]
    OBVIOUS
  <2>2. /\ row \in AgreementRows /\ row.user = agreements[a].user /\ row.offer = agreements[a].offer
        /\ row.registration = agreements[a].registration
    BY <1>t, <2>1 DEF AgreementRows
  <2>3. QED
    BY <1>1, <1>2, <2>1, <2>2
<1>3. CASE agreements' = [agreements EXCEPT ![a].pending = FALSE]
  <2>1. PICK row : row = [agreements[a] EXCEPT !.pending = FALSE]
    OBVIOUS
  <2>2. /\ row \in AgreementRows /\ row.user = agreements[a].user /\ row.offer = agreements[a].offer
        /\ row.registration = agreements[a].registration /\ ~row.pending
    BY <1>t, <2>1 DEF AgreementRows
  <2>3. QED
    BY <1>1, <1>3, <2>1, <2>2
<1>4. CASE agreements' = [agreements EXCEPT ![a].closed = TRUE]
  <2>1. PICK row : row = [agreements[a] EXCEPT !.closed = TRUE]
    OBVIOUS
  <2>2. /\ row \in AgreementRows /\ row.user = agreements[a].user /\ row.offer = agreements[a].offer
        /\ row.registration = agreements[a].registration /\ row.pending = agreements[a].pending
    BY <1>t, <2>1 DEF AgreementRows
  <2>3. QED
    BY <1>1, <1>4, <2>1, <2>2
<1>5. QED
  BY <1>2, <1>3, <1>4 DEF MoneyMoves

\* The agreements after any step.
LEMMA AgreementSteps ==
  ASSUME LoginTyped, RegistrationsTyped, AgreementsTyped, Next
  PROVE  /\ AgreementsKept
         /\ \/ /\ DOMAIN agreements' = DOMAIN agreements
               /\ \A r \in DOMAIN registrations : ~ApprovePlanApplication(r)
            \/ \E u \in DOMAIN users :
                 /\ ~users[u].erased /\ AgreementMade(u, 0, offer.version)
                 /\ registrations' = registrations
            \/ \E r \in DOMAIN registrations :
                 /\ ApprovePlanApplication(r)
                 /\ AgreementMade(Len(users) + 1, r, Latest(r).offer)
<1>t. agreements \in Seq(AgreementRows) /\ users \in Seq(UserRows) /\ registrations \in Seq(RegistrationRows)
  BY DEF LoginTyped, RegistrationsTyped, AgreementsTyped
<1>0. agreements' = agreements => AgreementsKept /\ DOMAIN agreements' = DOMAIN agreements
  BY <1>t DEF AgreementsKept
<1>l. Len(agreements) \in Nat /\ offer.version \in Nat /\ Len(users) + 1 \in Nat
  BY <1>t DEF RegistrationsTyped
<1>1. ASSUME NEW u \in DOMAIN users, EnrolCustomer(u)
      PROVE  /\ AgreementsKept /\ AgreementMade(u, 0, offer.version)
             /\ ~users[u].erased /\ registrations' = registrations
  <2>1. u \in Nat
    BY <1>t
  <2>2. QED
    BY <1>1, <1>l, <2>1, OneAgreement DEF EnrolCustomer
<1>2. ASSUME NEW r \in DOMAIN registrations, ApprovePlanApplication(r)
      PROVE  AgreementsKept /\ AgreementMade(Len(users) + 1, r, Latest(r).offer)
  <2>1. r \in Nat /\ Latest(r).offer = offer.version
    BY <1>t, <1>2 DEF ApprovePlanApplication, TermsCurrent
  <2>2. QED
    BY <1>2, <1>l, <2>1, OneAgreement DEF ApprovePlanApplication
<1>3. ASSUME NEW a \in DOMAIN agreements, MoneyMoves(a)
      PROVE  /\ AgreementsKept /\ DOMAIN agreements' = DOMAIN agreements /\ registrations' = registrations
  BY <1>3, MoneyRows DEF MoneyMoves
<1>4. ASSUME NEW r \in DOMAIN registrations, ApprovePlanApplication(r)
      PROVE  /\ agreements' # agreements /\ registrations' # registrations
  <2>1. Append(agreements, NewAgreement(Len(users) + 1, r, Latest(r).offer)) # agreements
    BY <1>t
  <2>2. registrations'[r] # registrations[r]
    <3>1. registrations[r] \in RegistrationRows
      BY <1>t
    <3>2. registrations'[r] = [registrations[r] EXCEPT !.status = "APPROVED", !.user = Len(users) + 1]
      BY <1>4, <1>t DEF ApprovePlanApplication, ApproveIdentity
    <3>3. registrations'[r].status = "APPROVED"
      BY <3>1, <3>2 DEF RegistrationRows
    <3>4. QED
      BY <1>4, <3>3 DEF ApprovePlanApplication, ApproveIdentity, InStatus
  <2>3. QED
    BY <1>4, <2>1, <2>2 DEF ApprovePlanApplication
<1>5. \/ agreements' = agreements
      \/ \E u \in DOMAIN users : EnrolCustomer(u)
      \/ \E a \in DOMAIN agreements : MoneyMoves(a)
      \/ \E r \in DOMAIN registrations : ApprovePlanApplication(r)
  BY DEF Next, ApplicationNext, applicationVars, SubmitPlanApplication, SubmitRegistration, OpenPage, ChangeOffer,
     SendVerification, VerificationGrowsOverdue, ApplicationLapses, StartDatePasses,
     ReissueVerification, VerifyRegistration, ReissueProgress, OpenProgress, CompleteApplication,
     ApproveRegistration, RejectRegistration, RegisterCustomer,
     SubmitDeletion, RequestDeletion, Contain, SendDeletionVerification,
     DeletionGrowsOverdue, VerifyAndContain, RecordHold, CompleteDeletion, ReviewRetention, SendNotice
<1>6. QED
  BY <1>0, <1>1, <1>2, <1>3, <1>4, <1>5

\* What an application made: one agreement, of its login and on the terms of its
\* last confirmation, once it is approved, and none before.
Made(r) == {a \in DOMAIN agreements : agreements[a].registration = r}
MadeOnce(r) ==
  IF registrations[r].journey /\ registrations[r].status = "APPROVED"
    THEN \E a \in DOMAIN agreements :
           /\ Made(r) = {a}
           /\ agreements[a].user = registrations[r].user
           /\ Latest(r).final /\ agreements[a].offer = Latest(r).offer
    ELSE Made(r) = {}

LEMMA MadeOnceKept ==
  ASSUME LoginTyped, RegistrationsTyped, AgreementsTyped, Next,
         \A r \in DOMAIN registrations : MadeOnce(r)
  PROVE  AgreementsTyped' /\ \A r \in DOMAIN registrations' : MadeOnce(r)'
<1>t. /\ agreements \in Seq(AgreementRows) /\ registrations \in Seq(RegistrationRows)
      /\ \A a \in DOMAIN agreements : agreements[a].registration \in DOMAIN registrations \cup {0}
      /\ 0 \notin DOMAIN registrations /\ users \in Seq(UserRows)
  BY DEF LoginTyped, RegistrationsTyped, AgreementsTyped
<1>1. RegistrationsKept /\ AgreementsKept
  BY RegistrationSteps, AgreementSteps
<1>l. /\ DOMAIN agreements = 1..Len(agreements) /\ Len(agreements) \in Nat
      /\ DOMAIN registrations = 1..Len(registrations) /\ Len(registrations) \in Nat
  BY <1>t
<1>2. \A a \in DOMAIN agreements' \ DOMAIN agreements :
        /\ a = Len(agreements) + 1
        /\ agreements'[a].registration \in DOMAIN registrations \cup {0}
  BY AgreementSteps, <1>l DEF AgreementMade
<1>3. AgreementsTyped'
  BY <1>1, <1>2, <1>t DEF AgreementsTyped, AgreementsKept, RegistrationsKept
<1>4. ASSUME NEW r \in DOMAIN registrations'
      PROVE  MadeOnce(r)'
  <2>1. CASE r \notin DOMAIN registrations
    <3>1. registrations'[r].status # "APPROVED" /\ r # 0
      BY <1>1, <1>l, <2>1, <1>4 DEF RegistrationsKept
    <3>2. \A a \in DOMAIN agreements' : agreements'[a].registration # r
      BY <1>1, <1>2, <1>t, <2>1, <3>1 DEF AgreementsKept
    <3>3. Made(r)' = {}
      BY <3>2 DEF Made
    <3>4. QED
      BY <3>1, <3>3 DEF MadeOnce
  <2>2. CASE r \in DOMAIN registrations
    <3>0. RegistrationKept(r, registrations'[r]) /\ MadeOnce(r) /\ r # 0
      BY <1>1, <1>t, <2>2 DEF RegistrationsKept
    <3>1. CASE ApprovePlanApplication(r)
      <4>1. /\ registrations[r].journey /\ registrations[r].status # "APPROVED"
            /\ Latest(r).final /\ Latest(r).offer = offer.version
        BY <3>1 DEF ApprovePlanApplication, TermsCurrent, ApproveIdentity, InStatus
      <4>2. Made(r) = {}
        BY <3>0, <4>1 DEF MadeOnce
      <4>3. registrations' = [registrations EXCEPT ![r] = [registrations[r] EXCEPT
                                !.status = "APPROVED", !.user = Len(users) + 1]]
        BY <3>1 DEF ApprovePlanApplication, ApproveIdentity
      <4>r. PICK row : row = [registrations[r] EXCEPT !.status = "APPROVED", !.user = Len(users) + 1]
        OBVIOUS
      <4>4. /\ row.status = "APPROVED" /\ row.user = Len(users) + 1
            /\ row.journey /\ row.confirmations = registrations[r].confirmations
        <5>1. registrations[r] \in RegistrationRows
          BY <1>t, <2>2
        <5>2. QED
          BY <4>1, <4>r, <5>1 DEF RegistrationRows
      <4>5. registrations'[r] = row
        BY <2>2, <4>3, <4>r
      <4>6. AgreementMade(Len(users) + 1, r, Latest(r).offer)
        <5>1. agreements' = Append(agreements, NewAgreement(Len(users) + 1, r, Latest(r).offer))
          BY <3>1 DEF ApprovePlanApplication
        <5>2. Len(users) + 1 \in Nat /\ r \in Nat /\ offer.version \in Nat
          BY <1>t, <2>2 DEF RegistrationsTyped
        <5>3. QED
          BY <4>1, <5>1, <5>2, OneAgreement
      <4>7. PICK a : a = Len(agreements) + 1 /\ a \in DOMAIN agreements' /\ a \notin DOMAIN agreements
        BY <1>l, <4>6 DEF AgreementMade
      <4>8. /\ agreements'[a].registration = r /\ agreements'[a].user = Len(users) + 1
            /\ agreements'[a].offer = offer.version
            /\ DOMAIN agreements' = DOMAIN agreements \cup {a}
        BY <4>6, <4>7 DEF AgreementMade
      <4>9. Made(r)' = {a}
        BY <1>1, <4>2, <4>7, <4>8 DEF Made, AgreementsKept
      <4>10. Latest(r)' = Latest(r)
        BY <4>4, <4>5 DEF Latest
      <4>11. QED
        BY <4>1, <4>4, <4>5, <4>7, <4>8, <4>9, <4>10 DEF MadeOnce
    <3>2. CASE ~ApprovePlanApplication(r)
      <4>1. \A a \in DOMAIN agreements' \ DOMAIN agreements : agreements'[a].registration # r
        <5>1. CASE \E v \in DOMAIN users : AgreementMade(v, 0, offer.version)
          BY <1>l, <3>0, <5>1 DEF AgreementMade
        <5>2. CASE \E x \in DOMAIN registrations :
                     ApprovePlanApplication(x) /\ AgreementMade(Len(users) + 1, x, Latest(x).offer)
          BY <1>l, <3>2, <5>2 DEF AgreementMade
        <5>3. CASE DOMAIN agreements' = DOMAIN agreements
          BY <5>3
        <5>4. QED
          BY <5>1, <5>2, <5>3, AgreementSteps
      <4>2. Made(r)' = Made(r)
        BY <1>1, <4>1 DEF Made, AgreementsKept
      <4>3. CASE ApproveRegistration(r)
        BY <3>0, <4>2, <4>3 DEF RegistrationKept, ApproveRegistration, MadeOnce
      <4>4. CASE ~ApproveRegistration(r)
        <5>1. /\ registrations'[r].journey = registrations[r].journey
              /\ registrations'[r].user = registrations[r].user
              /\ registrations'[r].status = "APPROVED" <=> registrations[r].status = "APPROVED"
              /\ registrations'[r].status = "APPROVED" =>
                   registrations'[r].confirmations = registrations[r].confirmations
          BY <3>0, <3>2, <4>4 DEF RegistrationKept, ApprovalOf
        <5>2. CASE registrations[r].journey /\ registrations[r].status = "APPROVED"
          <6>1. PICK a \in DOMAIN agreements :
                  /\ Made(r) = {a} /\ agreements[a].user = registrations[r].user
                  /\ Latest(r).final /\ agreements[a].offer = Latest(r).offer
            BY <3>0, <5>2 DEF MadeOnce
          <6>2. a \in DOMAIN agreements' /\ agreements'[a].user = agreements[a].user
                /\ agreements'[a].offer = agreements[a].offer
            BY <1>1, <6>1 DEF AgreementsKept
          <6>3. Latest(r)' = Latest(r)
            BY <5>1, <5>2 DEF Latest
          <6>4. QED
            BY <4>2, <5>1, <5>2, <6>1, <6>2, <6>3 DEF MadeOnce
        <5>3. CASE ~(registrations[r].journey /\ registrations[r].status = "APPROVED")
          BY <3>0, <4>2, <5>1, <5>3 DEF MadeOnce
        <5>4. QED
          BY <5>2, <5>3
      <4>5. QED
        BY <4>3, <4>4
    <3>3. QED
      BY <3>1, <3>2
  <2>3. QED
    BY <2>1, <2>2
<1>5. QED
  BY <1>3, <1>4

DeletionStatuses ==
  {"PENDING_VERIFICATION", "CONTAINED", "AWAITING_SETTLEMENT", "COMPLETED_WITH_RETENTION", "EXPIRED"}
DeletionRows ==
  [user : Nat, status : DeletionStatuses, overdue : BOOLEAN,
   outcome : {"NONE", "SENT", "FAILED"}, mailed : BOOLEAN]
NoticeRows == [address : BOOLEAN, accepted : BOOLEAN, delivered : Nat]

DeletionsTyped ==
  /\ deletions \in Seq(DeletionRows)
  /\ \A d \in DOMAIN deletions : deletions[d].user \in DOMAIN users

Done(status) == status = "COMPLETED_WITH_RETENTION"

\* What a step does to one request: only its completion completes it.
DeletionKept(d, new) ==
  /\ new \in DeletionRows /\ new.user = deletions[d].user
  /\ Done(new.status) <=> Done(deletions[d].status) \/ CompleteDeletion(d)

DeletionsKept ==
  /\ deletions' \in Seq(DeletionRows) /\ DOMAIN deletions \subseteq DOMAIN deletions'
  /\ \A d \in DOMAIN deletions : DeletionKept(d, deletions'[d])
  /\ \A d \in DOMAIN deletions' \ DOMAIN deletions :
       ~Done(deletions'[d].status) /\ deletions'[d].user \in DOMAIN users

\* A completion changes its request, which was still in review.
LEMMA CompletionChanges ==
  ASSUME DeletionsTyped, NEW d \in DOMAIN deletions, CompleteDeletion(d)
  PROVE  ~Done(deletions[d].status) /\ deletions' # deletions
<1>1. deletions[d] \in DeletionRows /\ ~Done(deletions[d].status)
  BY DEF DeletionsTyped, CompleteDeletion, InReview, Done
<1>2. PICK row : row = [deletions[d] EXCEPT !.status = "COMPLETED_WITH_RETENTION"]
  OBVIOUS
<1>3. Done(row.status)
  BY <1>1, <1>2 DEF DeletionRows, Done
<1>4. deletions' = [deletions EXCEPT ![d] = row]
  BY <1>2 DEF CompleteDeletion
<1>5. QED
  BY <1>1, <1>3, <1>4

LEMMA OneDeletion ==
  ASSUME DeletionsTyped, NEW d \in DOMAIN deletions, NEW row,
         DeletionKept(d, row), deletions' = [deletions EXCEPT ![d] = row],
         \A x \in DOMAIN deletions : CompleteDeletion(x) => x = d
  PROVE  DeletionsKept
<1>1. deletions \in Seq(DeletionRows) /\ row \in DeletionRows
  BY DEF DeletionsTyped, DeletionKept
<1>2. /\ deletions' \in Seq(DeletionRows) /\ DOMAIN deletions' = DOMAIN deletions
      /\ \A x \in DOMAIN deletions : deletions'[x] = IF x = d THEN row ELSE deletions[x]
  BY <1>1
<1>3. \A x \in DOMAIN deletions : x # d => DeletionKept(x, deletions[x])
  BY DEF DeletionsTyped, DeletionKept
<1>4. QED
  BY <1>2, <1>3 DEF DeletionsKept

\* A completion is no other step, nor that of another request.
LEMMA CompletionIsOne ==
  ASSUME DeletionsTyped, NEW d \in DOMAIN deletions, NEW row,
         deletions' = [deletions EXCEPT ![d] = row]
  PROVE  \A x \in DOMAIN deletions : CompleteDeletion(x) => x = d /\ Done(row.status)
<1>1. SUFFICES ASSUME NEW x \in DOMAIN deletions, CompleteDeletion(x)
               PROVE  x = d /\ Done(row.status)
  OBVIOUS
<1>2. deletions[x] \in DeletionRows /\ ~Done(deletions[x].status)
  BY <1>1, CompletionChanges DEF DeletionsTyped
<1>3. PICK done : done = [deletions[x] EXCEPT !.status = "COMPLETED_WITH_RETENTION"]
  OBVIOUS
<1>4. Done(done.status) /\ deletions' = [deletions EXCEPT ![x] = done]
  BY <1>1, <1>2, <1>3 DEF DeletionRows, Done, CompleteDeletion
<1>5. QED
  BY <1>1, <1>2, <1>4

\* The requests after one was submitted.
LEMMA SubmittedDeletions ==
  ASSUME DeletionsTyped, LoginTyped, SubmitDeletion
  PROVE  DeletionsKept
<1>t. deletions \in Seq(DeletionRows) /\ (\A d \in DOMAIN deletions : deletions[d] \in DeletionRows)
      /\ users \in Seq(UserRows)
  BY DEF DeletionsTyped, LoginTyped
<1>c. ASSUME NEW d \in DOMAIN deletions PROVE ~CompleteDeletion(d)
  <2>1. SUFFICES ASSUME CompleteDeletion(d) PROVE FALSE
    OBVIOUS
  <2>2. notices' = notices /\ notices' # notices
    <3>1. CompleteDeletion(d) => users' # users
      <4>1. PICK u : u = deletions[d].user /\ u \in DOMAIN users
        BY DEF DeletionsTyped
      <4>2. PICK kept : EraseLogin(u, kept)
        BY <2>1, <4>1 DEF CompleteDeletion
      <4>3. users[u] \in UserRows /\ ~users[u].erased
        BY <1>t, <4>1, <4>2 DEF EraseLogin, Save
      <4>4. users'[u] = [users[u] EXCEPT !.active = FALSE, !.session = FALSE, !.google = FALSE,
                                        !.password = FALSE, !.erased = TRUE, !.kept = kept]
        BY <1>t, <4>1, <4>2 DEF EraseLogin
      <4>5. users'[u].erased
        BY <4>3, <4>4 DEF UserRows
      <4>6. QED
        BY <4>3, <4>5
    <3>2. QED
      BY <2>1, <3>1 DEF SubmitDeletion, loginVars
  <2>3. QED
    BY <2>2
<1>1. PICK kept : kept = [d \in DOMAIN deletions |->
                    IF d \in OverdueDeletions THEN [deletions[d] EXCEPT !.status = "EXPIRED"]
                    ELSE deletions[d]]
  OBVIOUS
<1>2. ASSUME NEW d \in DOMAIN deletions
      PROVE  DeletionKept(d, kept[d])
  <2>1. CASE d \in OverdueDeletions
    <3>1. PICK row : row = [deletions[d] EXCEPT !.status = "EXPIRED"]
      OBVIOUS
    <3>2. deletions[d].status = "PENDING_VERIFICATION"
      BY <2>1 DEF OverdueDeletions
    <3>3. DeletionKept(d, row)
      BY <1>t, <1>c, <3>1, <3>2 DEF DeletionKept, DeletionRows, DeletionStatuses, Done
    <3>4. QED
      BY <1>1, <2>1, <3>1, <3>3
  <2>2. CASE d \notin OverdueDeletions
    BY <1>1, <1>c, <1>t, <2>2 DEF DeletionKept
  <2>3. QED
    BY <2>1, <2>2
<1>3. kept \in Seq(DeletionRows) /\ DOMAIN kept = DOMAIN deletions /\ Len(kept) = Len(deletions)
  <2>1. kept = [d \in DOMAIN deletions |-> kept[d]]
    BY <1>1
  <2>2. \A d \in DOMAIN deletions : kept[d] \in DeletionRows
    BY <1>2 DEF DeletionKept
  <2>3. QED
    BY <1>t, <2>1, <2>2, MappedRows
<1>4. ASSUME NEW u \in DOMAIN users
      PROVE  \E row \in DeletionRows : /\ row = NewDeletion(u, "PENDING_VERIFICATION")
                                       /\ row.user = u /\ ~Done(row.status)
  <2>1. u \in Nat
    BY <1>t
  <2>2. PICK row : row = NewDeletion(u, "PENDING_VERIFICATION")
    OBVIOUS
  <2>3. row \in DeletionRows /\ row.user = u /\ ~Done(row.status)
    BY <2>1, <2>2 DEF NewDeletion, DeletionRows, DeletionStatuses, Done
  <2>4. QED
    BY <2>2, <2>3
<1>5. CASE deletions' = kept
  BY <1>2, <1>3, <1>5 DEF DeletionsKept
<1>6. ASSUME NEW u \in DOMAIN users, deletions' = Append(kept, NewDeletion(u, "PENDING_VERIFICATION"))
      PROVE  DeletionsKept
  <2>1. PICK row \in DeletionRows : /\ row = NewDeletion(u, "PENDING_VERIFICATION")
                                    /\ row.user = u /\ ~Done(row.status)
    BY <1>4
  <2>2. /\ Append(kept, row) \in Seq(DeletionRows) /\ DOMAIN Append(kept, row) = 1..(Len(deletions) + 1)
        /\ Append(kept, row)[Len(deletions) + 1] = row
        /\ DOMAIN deletions = 1..Len(deletions) /\ Len(deletions) \in Nat
        /\ \A d \in DOMAIN deletions : Append(kept, row)[d] = kept[d]
    BY <1>t, <1>3, <2>1
  <2>3. QED
    BY <1>2, <1>6, <2>1, <2>2 DEF DeletionsKept
<1>7. ASSUME NEW u \in DOMAIN users, NEW d \in OpenDeletions(u) \ OverdueDeletions,
             deletions[d].status = "PENDING_VERIFICATION",
             deletions' = [kept EXCEPT ![d] = NewDeletion(u, "PENDING_VERIFICATION")]
      PROVE  DeletionsKept
  <2>1. PICK row \in DeletionRows : /\ row = NewDeletion(u, "PENDING_VERIFICATION")
                                    /\ row.user = u /\ ~Done(row.status)
    BY <1>4
  <2>2. d \in DOMAIN deletions /\ deletions[d].user = u
    BY DEF OpenDeletions
  <2>3. /\ deletions' \in Seq(DeletionRows) /\ DOMAIN deletions' = DOMAIN deletions
        /\ \A x \in DOMAIN deletions : deletions'[x] = IF x = d THEN row ELSE kept[x]
    BY <1>3, <1>7, <2>1, <2>2
  <2>4. DeletionKept(d, row)
    BY <1>c, <1>7, <2>1, <2>2 DEF DeletionKept, Done
  <2>5. QED
    BY <1>2, <2>3, <2>4 DEF DeletionsKept
<1>8. QED
  BY <1>1, <1>5, <1>6, <1>7 DEF SubmitDeletion

\* Every step keeps the requests.
LEMMA DeletionSteps ==
  ASSUME DeletionsTyped, LoginTyped, Next
  PROVE  DeletionsKept
<1>t. deletions \in Seq(DeletionRows) /\ (\A d \in DOMAIN deletions : deletions[d] \in DeletionRows)
      /\ users \in Seq(UserRows)
  BY DEF DeletionsTyped, LoginTyped
<1>0. ASSUME deletions' = deletions PROVE DeletionsKept
  BY <1>0, <1>t, CompletionChanges DEF DeletionsKept, DeletionKept
<1>1. ASSUME NEW d \in DOMAIN deletions, NEW row \in DeletionRows,
             deletions' = [deletions EXCEPT ![d] = row],
             row.user = deletions[d].user, ~Done(deletions[d].status),
             Done(row.status) => CompleteDeletion(d)
      PROVE  DeletionsKept
  <2>1. \A x \in DOMAIN deletions : CompleteDeletion(x) => x = d /\ Done(row.status)
    BY <1>1, CompletionIsOne
  <2>2. DeletionKept(d, row)
    BY <1>1, <2>1 DEF DeletionKept
  <2>3. QED
    BY <1>1, <2>1, <2>2, OneDeletion
<1>2. ASSUME NEW d \in DOMAIN deletions, SendDeletionVerification(d) PROVE DeletionsKept
  <2>1. PICK outcome \in {"SENT", "FAILED", "NONE"} :
          deletions' = [deletions EXCEPT ![d] =
            [deletions[d] EXCEPT !.outcome = outcome, !.mailed = (outcome # "FAILED")]]
    BY <1>2 DEF SendDeletionVerification
  <2>2. PICK row : row = [deletions[d] EXCEPT !.outcome = outcome, !.mailed = (outcome # "FAILED")]
    OBVIOUS
  <2>3. ~Done(deletions[d].status)
    BY <1>2 DEF SendDeletionVerification, DeletionVerifiable, Done
  <2>4. row \in DeletionRows /\ row.user = deletions[d].user /\ row.status = deletions[d].status
    BY <1>t, <2>2 DEF DeletionRows
  <2>5. QED
    BY <1>1, <2>1, <2>2, <2>3, <2>4
<1>3. ASSUME NEW d \in DOMAIN deletions, DeletionGrowsOverdue(d) PROVE DeletionsKept
  <2>2. PICK row : row = [deletions[d] EXCEPT !.overdue = TRUE]
    OBVIOUS
  <2>3. ~Done(deletions[d].status) /\ deletions' = [deletions EXCEPT ![d] = row]
    BY <1>3, <2>2 DEF DeletionGrowsOverdue, DeletionVerifiable, Done
  <2>4. row \in DeletionRows /\ row.user = deletions[d].user /\ row.status = deletions[d].status
    BY <1>t, <2>2 DEF DeletionRows
  <2>5. QED
    BY <1>1, <2>3, <2>4
<1>4. ASSUME NEW d \in DOMAIN deletions, NEW s \in DeletionStatuses,
             ~Done(deletions[d].status), Done(s) => CompleteDeletion(d),
             deletions' = [deletions EXCEPT ![d].status = s]
      PROVE  DeletionsKept
  <2>2. PICK row : row = [deletions[d] EXCEPT !.status = s]
    OBVIOUS
  <2>3. deletions' = [deletions EXCEPT ![d] = row]
    BY <1>4, <2>2
  <2>4. row \in DeletionRows /\ row.user = deletions[d].user /\ row.status = s
    BY <1>t, <2>2 DEF DeletionRows
  <2>5. QED
    BY <1>1, <1>4, <2>3, <2>4
<1>5. ASSUME NEW d \in DOMAIN deletions, VerifyAndContain(d) \/ RecordHold(d) \/ CompleteDeletion(d)
      PROVE  DeletionsKept
  <2>1. CASE VerifyAndContain(d)
    <3>1. /\ deletions' = [deletions EXCEPT ![d].status = "CONTAINED"] /\ ~Done(deletions[d].status)
          /\ "CONTAINED" \in DeletionStatuses /\ ~Done("CONTAINED")
      BY <2>1 DEF VerifyAndContain, DeletionVerifiable, Done, DeletionStatuses
    <3>2. QED
      BY <1>4, <3>1
  <2>2. CASE RecordHold(d)
    <3>1. /\ deletions' = [deletions EXCEPT ![d].status = "AWAITING_SETTLEMENT"] /\ ~Done(deletions[d].status)
          /\ "AWAITING_SETTLEMENT" \in DeletionStatuses /\ ~Done("AWAITING_SETTLEMENT")
      BY <2>2 DEF RecordHold, Done, DeletionStatuses
    <3>2. QED
      BY <1>4, <3>1
  <2>3. CASE CompleteDeletion(d)
    <3>1. /\ deletions' = [deletions EXCEPT ![d].status = "COMPLETED_WITH_RETENTION"]
          /\ ~Done(deletions[d].status) /\ "COMPLETED_WITH_RETENTION" \in DeletionStatuses
      BY <2>3 DEF CompleteDeletion, InReview, Done, DeletionStatuses
    <3>2. QED
      BY <1>4, <2>3, <3>1
  <2>4. QED
    BY <1>5, <2>1, <2>2, <2>3
<1>6. ASSUME NEW u \in DOMAIN users, RequestDeletion(u) PROVE DeletionsKept
  <2>1. PICK row : row = NewDeletion(u, "CONTAINED")
    OBVIOUS
  <2>2. row \in DeletionRows /\ row.user = u /\ ~Done(row.status)
    <3>1. u \in Nat
      BY <1>t
    <3>2. QED
      BY <2>1, <3>1 DEF NewDeletion, DeletionRows, DeletionStatuses, Done
  <2>3. /\ Append(deletions, row) \in Seq(DeletionRows)
        /\ DOMAIN Append(deletions, row) = 1..(Len(deletions) + 1)
        /\ Append(deletions, row)[Len(deletions) + 1] = row
        /\ DOMAIN deletions = 1..Len(deletions) /\ Len(deletions) \in Nat
        /\ \A d \in DOMAIN deletions : Append(deletions, row)[d] = deletions[d]
    BY <1>t, <2>2
  <2>4. deletions' = Append(deletions, row)
    BY <1>6, <2>1 DEF RequestDeletion
  <2>5. \A d \in DOMAIN deletions : ~CompleteDeletion(d)
    <3>1. ASSUME NEW d \in DOMAIN deletions, CompleteDeletion(d) PROVE FALSE
      <4>1. DOMAIN deletions' = DOMAIN deletions
        BY <1>t, <3>1 DEF CompleteDeletion
      <4>2. DOMAIN deletions' = 1..(Len(deletions) + 1)
        BY <2>3, <2>4
      <4>3. Len(deletions) + 1 \in 1..(Len(deletions) + 1)
            /\ Len(deletions) + 1 \notin 1..Len(deletions)
        BY <2>3
      <4>4. QED
        BY <2>3, <4>1, <4>2, <4>3
    <3>2. QED
      BY <3>1
  <2>6. QED
    BY <1>t, <2>2, <2>3, <2>4, <2>5 DEF DeletionsKept, DeletionKept
<1>7. QED
  BY <1>0, <1>2, <1>3, <1>5, <1>6, SubmittedDeletions
  DEF Next, deletionVars, RegisterCustomer, EnrolCustomer, MoneyMoves, ReviewRetention, SendNotice

-----------------------------------------------------------------------------
(* The whole: what its steps do to the logins, and the invariant. *)

\* A step that is not a completion leaves every login one.
LEMMA LoginsOfSteps ==
  ASSUME DeletionsTyped, Next
  PROVE  KeepingStep \/ \E d \in DOMAIN deletions : CompleteDeletion(d)
<1>1. ASSUME ApplicationNext PROVE KeepingStep
  BY <1>1
  DEF ApplicationNext, SubmitPlanApplication, SubmitRegistration, OpenPage, ChangeOffer,
      SendVerification, VerificationGrowsOverdue, ApplicationLapses, StartDatePasses,
      ReissueVerification, VerifyRegistration, ReissueProgress, OpenProgress, CompleteApplication,
      ApproveRegistration, ApprovePlanApplication, RejectRegistration, ApproveIdentity, KeepingStep
<1>2. ASSUME NEW d \in DOMAIN deletions, VerifyAndContain(d) \/ ReviewRetention(d) PROVE KeepingStep
  <2>1. deletions[d].user \in DOMAIN users
    BY DEF DeletionsTyped
  <2>2. QED
    BY <1>2, <2>1 DEF VerifyAndContain, Contain, ReviewRetention, KeepingStep
<1>3. ASSUME NEW u \in DOMAIN users, RequestDeletion(u) PROVE KeepingStep
  BY <1>3 DEF RequestDeletion, Contain, KeepingStep
<1>4. RegisterCustomer => KeepingStep
  BY DEF RegisterCustomer, KeepingStep
<1>5. UNCHANGED loginVars => KeepingStep
  BY DEF KeepingStep
<1>6. LoginNext => KeepingStep
  BY DEF KeepingStep
<1>7. QED
  BY <1>1, <1>2, <1>3, <1>4, <1>5, <1>6
  DEF Next, SubmitDeletion, EnrolCustomer, MoneyMoves, SendDeletionVerification, DeletionGrowsOverdue,
      RecordHold, SendNotice

LEMMA LoginNextSteps ==
  ASSUME DeletionsTyped, Next
  PROVE  LoginStep
<1>1. ASSUME NEW d \in DOMAIN deletions, CompleteDeletion(d) PROVE LoginStep
  <2>1. deletions[d].user \in DOMAIN users
    BY DEF DeletionsTyped
  <2>2. QED
    BY <1>1, <2>1 DEF CompleteDeletion, LoginStep
<1>2. QED
  BY <1>1, LoginsOfSteps DEF LoginStep

\* A login is removed by the completion of a request of its own.
LEMMA RemovedByCompletion ==
  ASSUME LoginTyped, DeletionsTyped, Next, NEW u \in DOMAIN users, ~users[u].erased, users'[u].erased
  PROVE  \E d \in DOMAIN deletions : CompleteDeletion(d) /\ deletions[d].user = u
<1>1. ~KeepingStep
  BY ErasedByErasure
<1>2. PICK d \in DOMAIN deletions : CompleteDeletion(d)
  BY <1>1, LoginsOfSteps
<1>3. PICK v : v = deletions[d].user /\ v \in DOMAIN users
  BY DEF DeletionsTyped
<1>4. \E kept \in SUBSET ProfileIdentity : EraseLogin(v, kept)
  BY <1>2, <1>3 DEF CompleteDeletion
<1>5. users \in Seq(UserRows)
  BY DEF LoginTyped
<1>6. v = u
  BY <1>4, <1>5 DEF EraseLogin
<1>7. QED
  BY <1>2, <1>3, <1>6

\* Registrations keep their logins, and a removed login its shut progress.
LEMMA RegistrationsAreKept ==
  ASSUME LoginTyped, LoginsAreShut, RegistrationsTyped, ProgressIsShut, DeletionsTyped, Next
  PROVE  RegistrationsTyped' /\ ProgressIsShut'
<1>1. RegistrationsKept /\ offer' \in [version : Nat, listed : BOOLEAN]
  BY RegistrationSteps
<1>2. /\ users' \in Seq(UserRows) /\ DOMAIN users \subseteq DOMAIN users'
      /\ \A u \in DOMAIN users' \ DOMAIN users : ~users'[u].erased
  BY LoginNextSteps, UsersKept
<1>u. users \in Seq(UserRows) /\ 0 \notin DOMAIN users
  BY DEF LoginTyped
<1>3. ASSUME NEW r \in DOMAIN registrations, ApprovalOf(r)
      PROVE  Len(users) + 1 \in DOMAIN users'
  BY <1>u, <1>3
  DEF ApprovalOf, ApproveRegistration, ApprovePlanApplication, ApproveIdentity, CreateInvitedCustomer
<1>4. RegistrationsTyped'
  <2>1. ASSUME NEW r \in DOMAIN registrations'
        PROVE  /\ registrations'[r].user \in DOMAIN users' \cup {0}
               /\ registrations'[r].user # 0 => registrations'[r].status = "APPROVED"
    <3>1. CASE r \notin DOMAIN registrations
      BY <1>1, <2>1, <3>1 DEF RegistrationsKept
    <3>2. CASE r \in DOMAIN registrations
      <4>1. RegistrationKept(r, registrations'[r])
        BY <1>1, <3>2 DEF RegistrationsKept
      <4>2. /\ registrations[r].user \in DOMAIN users \cup {0}
            /\ registrations[r].user # 0 => registrations[r].status = "APPROVED"
        BY <3>2 DEF RegistrationsTyped
      <4>3. QED
        BY <1>2, <1>3, <3>2, <4>1, <4>2 DEF RegistrationKept
    <3>3. QED
      BY <3>1, <3>2
  <2>2. QED
    BY <1>1, <2>1 DEF RegistrationsTyped, RegistrationsKept
<1>5. ProgressIsShut'
  <2>1. SUFFICES ASSUME NEW r \in DOMAIN registrations', registrations'[r].user # 0,
                        users'[registrations'[r].user].erased
                 PROVE  registrations'[r].progress = 0
    BY DEF ProgressIsShut
  <2>2. r \in DOMAIN registrations /\ RegistrationKept(r, registrations'[r])
    BY <1>1, <2>1 DEF RegistrationsKept
  <2>3. registrations'[r].user \in DOMAIN users'
    BY <1>4, <2>1 DEF RegistrationsTyped
  <2>4. registrations'[r].user \in DOMAIN users
    BY <1>2, <2>1, <2>3
  <2>5. registrations'[r].user = registrations[r].user
    <3>1. Len(users) + 1 \notin DOMAIN users
      BY <1>u
    <3>2. QED
      BY <2>2, <2>4, <3>1 DEF RegistrationKept
  <2>6. CASE users[registrations[r].user].erased
    BY <2>1, <2>2, <2>5, <2>6 DEF ProgressIsShut, RegistrationKept
  <2>7. CASE ~users[registrations[r].user].erased
    <3>1. PICK d \in DOMAIN deletions : CompleteDeletion(d) /\ deletions[d].user = registrations[r].user
      BY <2>1, <2>4, <2>5, <2>7, RemovedByCompletion
    <3>2. registrations' = [x \in DOMAIN registrations |->
            IF registrations[x].user = registrations[r].user
            THEN [registrations[x] EXCEPT !.progress = 0] ELSE registrations[x]]
      BY <3>1 DEF CompleteDeletion
    <3>3. QED
      BY <2>2, <3>2, ClearedRows
  <2>8. QED
    BY <2>6, <2>7
<1>6. QED
  BY <1>4, <1>5

-----------------------------------------------------------------------------
(* The notices of completions. *)

NoticeOwed(notice) ==
  IF notice.accepted THEN notice.delivered > 0 /\ ~notice.address ELSE notice.address

NoticesTyped ==
  /\ notices \in Seq(NoticeRows)
  /\ \A n \in DOMAIN notices : NoticeOwed(notices[n])

Completed == {d \in DOMAIN deletions : Done(deletions[d].status)}
EachOwesOne == IsFiniteSet(Completed) /\ Cardinality(Completed) <= Len(notices)

\* A notice is kept while a completion appends the one it owes.
LEMMA NoticeSteps ==
  ASSUME NoticesTyped, Next
  PROVE  /\ NoticesTyped' /\ Len(notices') >= Len(notices)
         /\ (\E d \in DOMAIN deletions : CompleteDeletion(d)) => Len(notices') = Len(notices) + 1
<1>t. /\ notices \in Seq(NoticeRows) /\ Len(notices) \in Nat
      /\ \A n \in DOMAIN notices : notices[n] \in NoticeRows /\ NoticeOwed(notices[n])
  BY DEF NoticesTyped
<1>1. PICK new : new = NewNotice
  OBVIOUS
<1>2. new \in NoticeRows /\ NoticeOwed(new)
  BY <1>1 DEF NewNotice, NoticeRows, NoticeOwed
<1>3. ASSUME notices' = Append(notices, NewNotice)
      PROVE  NoticesTyped' /\ Len(notices') = Len(notices) + 1
  <2>1. /\ Append(notices, new) \in Seq(NoticeRows) /\ Len(Append(notices, new)) = Len(notices) + 1
        /\ \A n \in DOMAIN Append(notices, new) :
             Append(notices, new)[n] = IF n = Len(notices) + 1 THEN new ELSE notices[n]
        /\ DOMAIN Append(notices, new) = DOMAIN notices \cup {Len(notices) + 1}
    BY <1>t, <1>2
  <2>2. QED
    BY <1>t, <1>1, <1>2, <1>3, <2>1 DEF NoticesTyped
<1>4. ASSUME notices' = notices
      PROVE  NoticesTyped' /\ Len(notices') = Len(notices)
  BY <1>4 DEF NoticesTyped
<1>5. ASSUME NEW n \in DOMAIN notices, NEW row \in NoticeRows, NoticeOwed(row),
             notices' = [notices EXCEPT ![n] = row]
      PROVE  NoticesTyped' /\ Len(notices') = Len(notices)
  BY <1>t, <1>5 DEF NoticesTyped
<1>6. ASSUME NEW n \in DOMAIN notices, SendNotice(n)
      PROVE  NoticesTyped' /\ Len(notices') = Len(notices)
  <2>1. notices[n] \in NoticeRows /\ notices[n].delivered \in Nat
    BY <1>t DEF NoticeRows
  <2>2. PICK m : m = notices[n].delivered + 1 /\ m \in Nat /\ m > 0
    BY <2>1
  <2>3. CASE notices' = [notices EXCEPT ![n] =
               [address |-> FALSE, accepted |-> TRUE, delivered |-> notices[n].delivered + 1]]
    <3>1. PICK row : row = [address |-> FALSE, accepted |-> TRUE, delivered |-> m]
      OBVIOUS
    <3>2. row \in NoticeRows /\ NoticeOwed(row)
      BY <2>2, <3>1 DEF NoticeRows, NoticeOwed
    <3>3. QED
      BY <1>5, <2>2, <2>3, <3>1, <3>2
  <2>4. CASE notices' = [notices EXCEPT ![n].delivered = notices[n].delivered + 1]
    <3>1. PICK row : row = [notices[n] EXCEPT !.delivered = m]
      OBVIOUS
    <3>2. /\ row \in NoticeRows /\ row.accepted = notices[n].accepted /\ row.address = notices[n].address
      BY <2>1, <2>2, <3>1 DEF NoticeRows
    <3>3. NoticeOwed(row)
      BY <1>t, <1>6, <3>2 DEF SendNotice, NoticeOwed
    <3>4. QED
      BY <1>5, <2>2, <2>4, <3>1, <3>2, <3>3
  <2>5. QED
    BY <1>6, <2>3, <2>4 DEF SendNotice
<1>7. ASSUME NEW d \in DOMAIN deletions, CompleteDeletion(d) PROVE notices' = Append(notices, NewNotice)
  BY <1>7 DEF CompleteDeletion
<1>8. NoticesTyped' /\ Len(notices') >= Len(notices)
  <2>1. \/ notices' = notices \/ notices' = Append(notices, NewNotice)
        \/ \E n \in DOMAIN notices : SendNotice(n)
    BY
    DEF Next, deletionVars, RegisterCustomer, SubmitDeletion, EnrolCustomer, MoneyMoves,
        SendDeletionVerification, DeletionGrowsOverdue, VerifyAndContain, RequestDeletion, Contain,
        RecordHold, CompleteDeletion, ReviewRetention
  <2>2. QED
    BY <1>t, <1>3, <1>4, <1>6, <2>1
<1>9. QED
  BY <1>3, <1>7, <1>8

\* Each completed request has added a notice.
LEMMA OutcomesAreOwed ==
  ASSUME LoginTyped, DeletionsTyped, NoticesTyped, EachOwesOne, Next
  PROVE  EachOwesOne'
<1>1. PICK C : C = Completed
  OBVIOUS
<1>2. PICK D : D = Completed'
  OBVIOUS
<1>3. IsFiniteSet(C) /\ Cardinality(C) <= Len(notices) /\ Cardinality(C) \in Nat
  BY <1>1, FS_CardinalityType DEF EachOwesOne
<1>4. Len(notices) \in Nat /\ Len(notices') \in Nat /\ Len(notices') >= Len(notices)
  BY NoticeSteps DEF NoticesTyped
<1>5. DeletionsKept
  BY DeletionSteps
<1>6. CASE \E d \in DOMAIN deletions : CompleteDeletion(d)
  <2>1. PICK d \in DOMAIN deletions : CompleteDeletion(d)
    BY <1>6
  <2>2. \A x \in DOMAIN deletions : CompleteDeletion(x) => x = d
    <3>1. deletions' = [deletions EXCEPT ![d] = [deletions[d] EXCEPT !.status = "COMPLETED_WITH_RETENTION"]]
      BY <2>1 DEF CompleteDeletion
    <3>2. QED
      BY <3>1, CompletionIsOne
  <2>3. D \subseteq C \cup {d}
    BY <1>1, <1>2, <1>5, <2>2 DEF Completed, DeletionsKept, DeletionKept
  <2>4. IsFiniteSet(C \cup {d}) /\ Cardinality(C \cup {d}) <= Cardinality(C) + 1
        /\ Cardinality(C \cup {d}) \in Nat
    <3>1. /\ IsFiniteSet(C \cup {d})
          /\ Cardinality(C \cup {d}) = IF d \in C THEN Cardinality(C) ELSE Cardinality(C) + 1
      BY <1>3, FS_AddElement
    <3>2. QED
      BY <1>3, <3>1
  <2>5. IsFiniteSet(D) /\ Cardinality(D) <= Cardinality(C \cup {d}) /\ Cardinality(D) \in Nat
    BY <2>3, <2>4, FS_Subset, FS_CardinalityType
  <2>6. Len(notices') = Len(notices) + 1
    BY <2>1, NoticeSteps
  <2>7. QED
    BY <1>2, <1>3, <1>4, <2>4, <2>5, <2>6 DEF EachOwesOne
<1>7. CASE \A d \in DOMAIN deletions : ~CompleteDeletion(d)
  <2>1. D \subseteq C
    BY <1>1, <1>2, <1>5, <1>7 DEF Completed, DeletionsKept, DeletionKept
  <2>2. IsFiniteSet(D) /\ Cardinality(D) <= Cardinality(C) /\ Cardinality(D) \in Nat
    BY <1>3, <2>1, FS_Subset, FS_CardinalityType
  <2>3. QED
    BY <1>2, <1>3, <1>4, <2>2 DEF EachOwesOne
<1>8. QED
  BY <1>6, <1>7

-----------------------------------------------------------------------------
(* The invariant of the specification, and what follows from it. *)

AccountsInv ==
  /\ LoginTyped /\ LoginsAreShut /\ OneWorkingLink
  /\ RegistrationsTyped /\ ProgressIsShut
  /\ AgreementsTyped /\ \A r \in DOMAIN registrations : MadeOnce(r)
  /\ DeletionsTyped /\ NoticesTyped /\ EachOwesOne

LEMMA AccountsInit ==
  ASSUME Init
  PROVE  AccountsInv
<1>1. /\ users = <<>> /\ invitations = <<>> /\ registrations = <<>> /\ agreements = <<>>
      /\ deletions = <<>> /\ notices = <<>> /\ offer = [version |-> 1, listed |-> TRUE]
  BY DEF Init, LoginInit, ApplicationInit
<1>2. LoginTyped /\ LoginsAreShut /\ OneWorkingLink
  BY <1>1 DEF LoginTyped, LoginsAreShut, OneWorkingLink
<1>3. RegistrationsTyped /\ ProgressIsShut /\ AgreementsTyped /\ \A r \in DOMAIN registrations : MadeOnce(r)
  BY <1>1 DEF RegistrationsTyped, ProgressIsShut, AgreementsTyped
<1>4. DeletionsTyped /\ NoticesTyped
  BY <1>1 DEF DeletionsTyped, NoticesTyped
<1>5. EachOwesOne
  <2>1. Completed = {}
    BY <1>1 DEF Completed
  <2>2. QED
    BY <1>1, <2>1, FS_EmptySet DEF EachOwesOne
<1>6. QED
  BY <1>2, <1>3, <1>4, <1>5 DEF AccountsInv

LEMMA AccountsStep ==
  ASSUME AccountsInv, [Next]_vars
  PROVE  AccountsInv'
<1>1. CASE Next
  <2>1. LoginTyped' /\ LoginsAreShut' /\ OneWorkingLink'
    BY <1>1, LoginNextSteps, LoginsAreKept DEF AccountsInv
  <2>2. RegistrationsTyped' /\ ProgressIsShut'
    BY <1>1, RegistrationsAreKept DEF AccountsInv
  <2>3. AgreementsTyped' /\ \A r \in DOMAIN registrations' : MadeOnce(r)'
    BY <1>1, MadeOnceKept DEF AccountsInv
  <2>4. DeletionsTyped'
    <3>1. DeletionsKept
      BY <1>1, DeletionSteps DEF AccountsInv
    <3>2. DOMAIN users \subseteq DOMAIN users' /\ \A d \in DOMAIN deletions : deletions[d].user \in DOMAIN users
      BY <1>1, LoginNextSteps, UsersKept DEF AccountsInv, DeletionsTyped
    <3>3. QED
      BY <3>1, <3>2 DEF DeletionsTyped, DeletionsKept, DeletionKept
  <2>5. NoticesTyped' /\ EachOwesOne'
    BY <1>1, NoticeSteps, OutcomesAreOwed DEF AccountsInv
  <2>6. QED
    BY <2>1, <2>2, <2>3, <2>4, <2>5 DEF AccountsInv
<1>2. CASE UNCHANGED vars
  <2>1. UNCHANGED <<users, invitations, offer, registrations, agreements, deletions, notices>>
    BY <1>2 DEF vars, loginVars, applicationVars, deletionVars
  <2>2. LoginTyped' /\ LoginsAreShut' /\ OneWorkingLink'
    BY <2>1 DEF AccountsInv, LoginTyped, LoginsAreShut, OpenLinks, Open, OneWorkingLink
  <2>3. RegistrationsTyped' /\ ProgressIsShut' /\ AgreementsTyped'
    BY <2>1 DEF AccountsInv, RegistrationsTyped, ProgressIsShut, AgreementsTyped
  <2>4. ASSUME NEW r \in DOMAIN registrations PROVE MadeOnce(r)'
    <3>1. MadeOnce(r)
      BY DEF AccountsInv
    <3>2. QED
      BY <2>1, <3>1 DEF MadeOnce, Made, Latest
  <2>5. DeletionsTyped' /\ NoticesTyped' /\ EachOwesOne'
    BY <2>1 DEF AccountsInv, DeletionsTyped, NoticesTyped, EachOwesOne, Completed
  <2>6. QED
    BY <2>1, <2>2, <2>3, <2>4, <2>5 DEF AccountsInv
<1>3. QED
  BY <1>1, <1>2

LEMMA AccountsAreSound == Spec => []AccountsInv
  BY AccountsInit, AccountsStep, PTL DEF Spec

\* (AUTH-005, AUTH-006) A customer never has two setup links that work, nor one
\* beside a password (accounts/services.py issues and uses them under the lock).
THEOREM LinksWorkAlone == Spec => []OneWorkingLink
<1>1. AccountsInv => OneWorkingLink
  BY DEF AccountsInv
<1>2. QED
  BY <1>1, AccountsAreSound, PTL

\* (AUTH-010) An approved application has one agreement, of the login its
\* approval made, on the terms confirmed last (accounts/applications.py).
THEOREM ApprovalsAreAsConfirmed == Spec => []ApprovedAsConfirmed
<1>1. ASSUME AccountsInv PROVE ApprovedAsConfirmed
  <2>1. SUFFICES ASSUME NEW r \in DOMAIN registrations
                 PROVE  /\ registrations[r].journey =>
                             Cardinality(Made(r)) = IF registrations[r].status = "APPROVED" THEN 1 ELSE 0
                        /\ \A a \in Made(r) :
                             /\ agreements[a].user = registrations[r].user
                             /\ Latest(r).final
                             /\ agreements[a].offer = Latest(r).offer
    BY DEF ApprovedAsConfirmed, Made, InStatus
  <2>2. MadeOnce(r)
    BY <1>1 DEF AccountsInv
  <2>3. CASE registrations[r].journey /\ registrations[r].status = "APPROVED"
    BY <2>2, <2>3, FS_Singleton DEF MadeOnce
  <2>4. CASE ~(registrations[r].journey /\ registrations[r].status = "APPROVED")
    BY <2>2, <2>4, FS_EmptySet DEF MadeOnce
  <2>5. QED
    BY <2>3, <2>4
<1>2. QED
  BY <1>1, AccountsAreSound, PTL

\* (AUTH-021) A completion owes its notice until a delivery of it is recorded:
\* no completion is without a notice, and no address is dropped unsent.
THEOREM OutcomesOwed == Spec => []OutcomeIsOwed
<1>1. AccountsInv => OutcomeIsOwed
  BY DEF AccountsInv, NoticesTyped, NoticeOwed, EachOwesOne, Completed, Done, OutcomeIsOwed
<1>2. QED
  BY <1>1, AccountsAreSound, PTL

\* (AUTH-019) A removed login has no way in.
LEMMA RemovedAreShut == AccountsInv => RemovedIsShut
<1>1. AccountsInv => users \in Seq(UserRows) /\ 0 \notin DOMAIN users
  BY DEF AccountsInv, LoginTyped
<1>2. QED
  BY <1>1 DEF AccountsInv, LoginsAreShut, Shut, ProgressIsShut, RemovedIsShut

\* (AUTH-019, AUTH-021) A removed login stays removed: no agreement, link,
\* payment or restored profile is ever added to it.
THEOREM RemovalsAreFinal == Spec => RemovedIsFinal
<1>1. ASSUME AccountsInv, AccountsInv', Next,
             NEW u \in DOMAIN users, users[u].erased
      PROVE  /\ users'[u].erased /\ ~users'[u].active /\ users'[u].kept \subseteq users[u].kept
             /\ \A a \in DOMAIN agreements' : agreements'[a].user = u =>
                  a \in DOMAIN agreements /\ (agreements'[a].pending => agreements[a].pending)
             /\ \A i \in DOMAIN invitations' : invitations'[i].user = u => i \in DOMAIN invitations
  <2>1. LoginStep
    BY <1>1, LoginNextSteps DEF AccountsInv
  <2>2. users'[u].erased /\ ~users'[u].active /\ users'[u].kept \subseteq users[u].kept
    BY <1>1, <2>1, UsersKept DEF AccountsInv, UserKept, Shut
  <2>3. \A i \in DOMAIN invitations' : invitations'[i].user = u => i \in DOMAIN invitations
    BY <1>1, <2>1, LoginsAreKept DEF AccountsInv
  <2>4. ASSUME NEW a \in DOMAIN agreements', agreements'[a].user = u
        PROVE  a \in DOMAIN agreements /\ (agreements'[a].pending => agreements[a].pending)
    <3>1. AgreementsKept /\ ~SignedIn(u)
      BY <1>1, AgreementSteps DEF AccountsInv, LoginsAreShut, Shut, SignedIn
    <3>2. Len(users) + 1 # u
      BY <1>1 DEF AccountsInv, LoginTyped
    <3>3. a \in DOMAIN agreements
      BY <1>1, <2>4, <3>2, AgreementSteps DEF AccountsInv, AgreementMade
    <3>4. QED
      BY <2>4, <3>1, <3>3 DEF AgreementsKept
  <2>5. QED
    BY <2>2, <2>3, <2>4
<1>2. ASSUME AccountsInv, AccountsInv', RemovedIsShut', [Next]_vars
      PROVE  [/\ RemovedIsShut'
              /\ \A u \in DOMAIN users : users[u].erased =>
                   /\ users'[u].erased /\ ~users'[u].active /\ users'[u].kept \subseteq users[u].kept
                   /\ \A a \in DOMAIN agreements' : agreements'[a].user = u =>
                        a \in DOMAIN agreements /\ (agreements'[a].pending => agreements[a].pending)
                   /\ \A i \in DOMAIN invitations' : invitations'[i].user = u => i \in DOMAIN invitations]_vars
  BY <1>1, <1>2
<1>3. QED
  BY <1>2, AccountsAreSound, RemovedAreShut, PTL DEF Spec, RemovedIsFinal

-----------------------------------------------------------------------------
(* Types. *)

Kinds == {"UPCOMING_ELIGIBILITY", "UPCOMING_MONTHLY_COMPLETION", "ALLOCATION_EXCEPTION",
          "COMPLETED_REDEMPTION", "COMPLETED_INR_SETTLEMENT"}
Keys == [kind : Kinds, audience : Audiences, ref : Nat, day : Nat, lead : Nat]
Runs == [asOf : Nat, pending : SUBSET Keys]
Outcomes == {"ACCEPTED", "FAILED"}
Settlements == [day : Days, standing : BOOLEAN, sound : BOOLEAN]
Agreements ==
  [status : {"ACTIVE", "CLOSURE_PENDING", "REDEEMED"}, completion : Nat, unallocated : Nat,
   settled : Seq(Settlements)]

\* What a reminder's recipient and its records have seen.
RecordsAreTyped ==
  /\ \A k \in DOMAIN attempts : attempts[k] \in Seq(Outcomes)
  /\ \A k \in DOMAIN letters : letters[k] \in Nat
  /\ \A k \in DOMAIN lost : lost[k] \in Nat

RemindersTyped ==
  /\ family \in Families /\ today \in Days
  /\ agreement \in Agreements /\ undecided \in BOOLEAN
  /\ reachable \subseteq Audiences
  /\ jobs \in [Jobs -> Runs]
  /\ delivery = NoDelivery \/ delivery \in [job : Jobs, key : Keys]
  /\ RecordsAreTyped

\* A configured agreement is redeemed by the one settlement of it that stands.
OneStands ==
  family # "LEGACY" =>
    \A n, m \in DOMAIN agreement.settled :
      agreement.settled[n].standing =>
        /\ agreement.status = "REDEEMED"
        /\ agreement.settled[m].standing => m = n

\* The row lock keeps what the delivery under way read: no attempt on its
\* reminder was accepted, the limit is not reached, and its event stands.
LockHolds ==
  delivery # NoDelivery =>
    /\ Accepted(delivery.key) = {}
    /\ Len(Attempts(delivery.key)) < RetryLimit
    /\ Stands(delivery.key)

\* What the records of one reminder say of its letters.
Once(k) ==
  /\ IsFiniteSet(Accepted(k)) /\ Cardinality(Accepted(k)) <= 1
  /\ Len(Attempts(k)) <= RetryLimit
  /\ Letters(k) = Cardinality(Accepted(k)) + Lost(k)

RemindersInv == RemindersTyped /\ OneStands /\ LockHolds /\ \A k : Once(k)

\* What is read of the records has its type, recorded or not.
LEMMA RecordTypes ==
  ASSUME RecordsAreTyped
  PROVE  \A k : Attempts(k) \in Seq(Outcomes) /\ Letters(k) \in Nat /\ Lost(k) \in Nat
  BY DEF RecordsAreTyped, Attempts, Letters, Lost

\* A reminder of another key reads the same records.
LEMMA OthersRecords ==
  ASSUME NEW k, NEW x, x # k, NEW s, NEW n, NEW m,
         attempts' = attempts \/ attempts' = With(attempts, k, s),
         letters' = letters \/ letters' = With(letters, k, n),
         lost' = lost \/ lost' = With(lost, k, m)
  PROVE  /\ Attempts(x)' = Attempts(x) /\ Letters(x)' = Letters(x) /\ Lost(x)' = Lost(x)
         /\ Accepted(x)' = Accepted(x)
<1>1. Attempts(x)' = Attempts(x)
  <2>1. (x \in DOMAIN attempts' <=> x \in DOMAIN attempts)
        /\ (x \in DOMAIN attempts => attempts'[x] = attempts[x])
    BY DEF With
  <2>2. QED
    BY <2>1 DEF Attempts
<1>2. Letters(x)' = Letters(x)
  <2>1. (x \in DOMAIN letters' <=> x \in DOMAIN letters)
        /\ (x \in DOMAIN letters => letters'[x] = letters[x])
    BY DEF With
  <2>2. QED
    BY <2>1 DEF Letters
<1>3. Lost(x)' = Lost(x)
  <2>1. (x \in DOMAIN lost' <=> x \in DOMAIN lost)
        /\ (x \in DOMAIN lost => lost'[x] = lost[x])
    BY DEF With
  <2>2. QED
    BY <2>1 DEF Lost
<1>4. QED
  BY <1>1, <1>2, <1>3 DEF Accepted

\* The record of the reminder under way, after one more attempt or letter.
LEMMA OwnRecords ==
  ASSUME RecordsAreTyped, NEW k
  PROVE  /\ \A o \in Outcomes :
              attempts' = With(attempts, k, Append(Attempts(k), o)) =>
                /\ Attempts(k)' = Append(Attempts(k), o)
                /\ \A x \in DOMAIN attempts' : attempts'[x] \in Seq(Outcomes)
         /\ letters' = With(letters, k, Letters(k) + 1) =>
              /\ Letters(k)' = Letters(k) + 1
              /\ \A x \in DOMAIN letters' : letters'[x] \in Nat
         /\ lost' = With(lost, k, Lost(k) + 1) =>
              /\ Lost(k)' = Lost(k) + 1
              /\ \A x \in DOMAIN lost' : lost'[x] \in Nat
<1>0. Attempts(k) \in Seq(Outcomes) /\ Letters(k) \in Nat /\ Lost(k) \in Nat
  BY RecordTypes
<1>1. ASSUME NEW o \in Outcomes, attempts' = With(attempts, k, Append(Attempts(k), o))
      PROVE  /\ Attempts(k)' = Append(Attempts(k), o)
             /\ \A x \in DOMAIN attempts' : attempts'[x] \in Seq(Outcomes)
  <2>0. PICK t : t = Attempts(k) /\ t \in Seq(Outcomes)
    BY <1>0
  <2>a. Append(t, o) \in Seq(Outcomes)
    BY <2>0
  <2>1. PICK s : s = Append(Attempts(k), o) /\ s \in Seq(Outcomes)
    BY <2>0, <2>a
  <2>2. /\ DOMAIN attempts' = DOMAIN attempts \cup {k} /\ attempts'[k] = s
        /\ \A x \in DOMAIN attempts : x # k => attempts'[x] = attempts[x]
    BY <1>1, <2>1 DEF With
  <2>3. QED
    BY <2>1, <2>2 DEF Attempts, RecordsAreTyped
<1>2. ASSUME letters' = With(letters, k, Letters(k) + 1)
      PROVE  /\ Letters(k)' = Letters(k) + 1
             /\ \A x \in DOMAIN letters' : letters'[x] \in Nat
  <2>1. PICK n \in Nat : n = Letters(k) + 1
    BY <1>0
  <2>2. /\ DOMAIN letters' = DOMAIN letters \cup {k} /\ letters'[k] = n
        /\ \A x \in DOMAIN letters : x # k => letters'[x] = letters[x]
    BY <1>2, <2>1 DEF With
  <2>3. QED
    BY <2>1, <2>2 DEF Letters, RecordsAreTyped
<1>3. ASSUME lost' = With(lost, k, Lost(k) + 1)
      PROVE  /\ Lost(k)' = Lost(k) + 1
             /\ \A x \in DOMAIN lost' : lost'[x] \in Nat
  <2>1. PICK n \in Nat : n = Lost(k) + 1
    BY <1>0
  <2>2. /\ DOMAIN lost' = DOMAIN lost \cup {k} /\ lost'[k] = n
        /\ \A x \in DOMAIN lost : x # k => lost'[x] = lost[x]
    BY <1>3, <2>1 DEF With
  <2>3. QED
    BY <2>1, <2>2 DEF Lost, RecordsAreTyped
<1>4. QED
  BY <1>1, <1>2, <1>3

\* One more attempt on a reminder none of whose attempts was accepted.
LEMMA MoreAttempts ==
  ASSUME RecordsAreTyped, NEW k, Accepted(k) = {}, NEW o \in Outcomes,
         Attempts(k)' = Append(Attempts(k), o)
  PROVE  /\ Accepted(k)' = IF o = "ACCEPTED" THEN {Len(Attempts(k)) + 1} ELSE {}
         /\ Len(Attempts(k)') = Len(Attempts(k)) + 1
<1>1. PICK s : s = Attempts(k) /\ s \in Seq(Outcomes)
  BY RecordTypes
<1>2. /\ Len(Append(s, o)) = Len(s) + 1 /\ DOMAIN Append(s, o) = 1..(Len(s) + 1)
      /\ Append(s, o)[Len(s) + 1] = o
      /\ \A n \in 1..Len(s) : Append(s, o)[n] = s[n]
  BY <1>1
<1>3. \A n \in 1..Len(s) : s[n] # "ACCEPTED"
  BY <1>1 DEF Accepted
<1>4. Accepted(k)' = {n \in DOMAIN Append(s, o) : Append(s, o)[n] = "ACCEPTED"}
  BY <1>1 DEF Accepted
<1>5. QED
  BY <1>1, <1>2, <1>3, <1>4

-----------------------------------------------------------------------------
(* Types are kept. *)

LEMMA InitTyped ==
  ASSUME RemindersInit  PROVE RemindersTyped
<1>1. agreement \in Agreements
  <2>1. PICK c \in Forecasts : agreement = [status |-> "ACTIVE", completion |-> c,
                                            unallocated |-> 0, settled |-> <<>>]
    BY DEF RemindersInit
  <2>2. <<>> \in Seq(Settlements) /\ c \in Nat
    BY RemindersAssumption DEF Forecasts
  <2>3. QED
    BY <2>1, <2>2 DEF Agreements
<1>2. NoJob \in Runs
  BY DEF NoJob, Runs
<1>3. undecided \in BOOLEAN
  BY DEF RemindersInit
<1>4. QED
  BY <1>1, <1>2, <1>3, RemindersAssumption
  DEF RemindersInit, RemindersTyped, RecordsAreTyped, Families, Days

\* A plan holds reminders only.
LEMMA CandidatesAreKeys ==
  ASSUME RemindersTyped, NEW d \in Days
  PROVE  Candidates(d) \subseteq Keys
<1>1. EligibilityTerms(d) \in Nat
  BY DEF RemindersTyped, Families, EligibilityTerms, IndependentTerms, Forecast, Agreements
<1>2. EligibilityCandidates(d) \subseteq Keys
  <2>1. SUFFICES ASSUME NEW a \in reachable, NEW l \in Leads
                 PROVE  Key(EligibilityKind, a, 0, EligibilityTerms(d), l) \in Keys
    BY DEF EligibilityCandidates
  <2>2. a \in Audiences /\ l \in Nat /\ EligibilityKind \in Kinds
    BY RemindersAssumption DEF RemindersTyped, EligibilityKind, Kinds
  <2>3. QED
    BY <1>1, <2>2 DEF Key, Keys
<1>3. ExceptionCandidates \subseteq Keys
  <2>1. agreement.unallocated \in Nat
    BY DEF RemindersTyped, Agreements
  <2>2. Key("ALLOCATION_EXCEPTION", "OWNER", 1, agreement.unallocated, 0) \in Keys
    BY <2>1 DEF Key, Keys, Kinds, Audiences
  <2>3. QED
    BY <2>2 DEF ExceptionCandidates
<1>4. SettlementCandidates(d) \subseteq Keys
  <2>1. SUFFICES ASSUME NEW a \in reachable, NEW n \in SettledOn(d)
                 PROVE  Key(SettlementKind, a, n, d, 0) \in Keys
    BY DEF SettlementCandidates
  <2>2. agreement.settled \in Seq(Settlements)
    BY DEF RemindersTyped, Agreements
  <2>3. a \in Audiences /\ n \in Nat /\ d \in Nat /\ SettlementKind \in Kinds
    BY <2>2 DEF RemindersTyped, SettledOn, Days, SettlementKind, Kinds
  <2>4. QED
    BY <2>3 DEF Key, Keys
<1>5. QED
  BY <1>2, <1>3, <1>4 DEF Candidates

\* A run that is given a value keeps the table of runs typed.
LEMMA JobsAreTyped ==
  ASSUME jobs \in [Jobs -> Runs], NEW j, NEW r \in Runs, jobs' = [jobs EXCEPT ![j] = r]
  PROVE  jobs' \in [Jobs -> Runs]
  OBVIOUS

LEMMA FinishTyped ==
  ASSUME jobs \in [Jobs -> Runs], NEW j \in Jobs, NEW k, Finish(j, k)
  PROVE  jobs' \in [Jobs -> Runs]
<1>1. PICK r : r = [jobs[j] EXCEPT !.pending = @ \ {k}]
  OBVIOUS
<1>2. jobs[j] \in Runs
  OBVIOUS
<1>3. r \in Runs
  BY <1>1, <1>2 DEF Runs
<1>4. jobs' = [jobs EXCEPT ![j] = r]
  BY <1>1 DEF Finish
<1>5. QED
  BY <1>3, <1>4, JobsAreTyped

\* The records after a delivery of k.
LEMMA DeliveryTyped ==
  ASSUME RecordsAreTyped, NEW k,
         \/ attempts' = attempts
         \/ \E o \in Outcomes : attempts' = With(attempts, k, Append(Attempts(k), o)),
         letters' = letters \/ letters' = With(letters, k, Letters(k) + 1),
         lost' = lost \/ lost' = With(lost, k, Lost(k) + 1)
  PROVE  RecordsAreTyped'
<1>1. \A x \in DOMAIN attempts' : attempts'[x] \in Seq(Outcomes)
  BY OwnRecords DEF RecordsAreTyped
<1>2. \A x \in DOMAIN letters' : letters'[x] \in Nat
  BY OwnRecords DEF RecordsAreTyped
<1>3. \A x \in DOMAIN lost' : lost'[x] \in Nat
  BY OwnRecords DEF RecordsAreTyped
<1>4. QED
  BY <1>1, <1>2, <1>3 DEF RecordsAreTyped

\* The agreement after one of its own events.
LEMMA AgreementTyped ==
  ASSUME RemindersTyped,
         \/ Reassess \/ AllocationFails \/ AllocationSucceeds
         \/ Complete \/ Reverse \/ ReviewClosure
  PROVE  agreement' \in Agreements
<1>0. /\ agreement \in Agreements /\ today \in Days /\ today \in Nat
      /\ agreement.status \in {"ACTIVE", "CLOSURE_PENDING", "REDEEMED"}
      /\ agreement.settled \in Seq(Settlements)
  BY DEF RemindersTyped, Agreements, Days
<1>1. CASE Reassess
  <2>1. PICK d : agreement' = [agreement EXCEPT !.completion = d] /\ d \in Nat
    BY <1>1 DEF Reassess, Forecasts
  <2>2. QED
    BY <1>0, <2>1 DEF Agreements
<1>2. CASE AllocationFails \/ AllocationSucceeds
  <2>1. PICK d : agreement' = [agreement EXCEPT !.unallocated = d] /\ d \in Nat
    BY <1>0, <1>2 DEF AllocationFails, AllocationSucceeds
  <2>2. QED
    BY <1>0, <2>1 DEF Agreements
<1>3. CASE Complete
  <2>0. [day |-> today, standing |-> TRUE, sound |-> TRUE] \in Settlements
    BY <1>0 DEF Settlements
  <2>1. PICK r : r = [day |-> today, standing |-> TRUE, sound |-> TRUE] /\ r \in Settlements
    BY <2>0
  <2>2. PICK q : q = Append(agreement.settled, r) /\ q \in Seq(Settlements)
    <3>1. PICK u : u = agreement.settled /\ u \in Seq(Settlements)
      BY <1>0
    <3>2. Append(u, r) \in Seq(Settlements)
      BY <3>1, <2>1
    <3>3. QED
      BY <3>1, <3>2
  <2>3. PICK t : /\ t \in {"ACTIVE", "CLOSURE_PENDING", "REDEEMED"}
                 /\ agreement' = [agreement EXCEPT !.status = t, !.settled = q]
    BY <1>0, <1>3, <2>1, <2>2 DEF Complete
  <2>4. QED
    BY <1>0, <2>2, <2>3 DEF Agreements
<1>4. CASE Reverse
  <2>a. PICK n \in DOMAIN agreement.settled :
             agreement' = [agreement EXCEPT
                !.status = IF @ # "REDEEMED" THEN @
                           ELSE IF family = "LEGACY" THEN "ACTIVE" ELSE "CLOSURE_PENDING",
                !.settled[n].standing = FALSE]
    BY <1>4 DEF Reverse
  <2>b. PICK t : t = IF agreement.status # "REDEEMED" THEN agreement.status
                     ELSE IF family = "LEGACY" THEN "ACTIVE" ELSE "CLOSURE_PENDING"
    OBVIOUS
  <2>c. PICK q : q = [agreement.settled EXCEPT ![n].standing = FALSE]
    OBVIOUS
  <2>1. /\ t \in {"ACTIVE", "CLOSURE_PENDING", "REDEEMED"}
        /\ agreement' = [agreement EXCEPT !.status = t, !.settled = q]
    BY <1>0, <2>a, <2>b, <2>c
  <2>2. PICK r : r = [agreement.settled[n] EXCEPT !.standing = FALSE] /\ r \in Settlements
    <3>1. agreement.settled[n] \in Settlements
      BY <1>0, <2>a
    <3>2. [agreement.settled[n] EXCEPT !.standing = FALSE] \in Settlements
      BY <3>1 DEF Settlements
    <3>3. QED
      BY <3>2
  <2>3. q \in Seq(Settlements)
    <3>1. q = [agreement.settled EXCEPT ![n] = r]
      BY <2>c, <2>2
    <3>2. QED
      BY <1>0, <2>a, <2>2, <3>1
  <2>4. QED
    BY <1>0, <2>1, <2>3 DEF Agreements
<1>5. CASE ReviewClosure
  <2>1. PICK t : /\ t \in {"ACTIVE", "CLOSURE_PENDING", "REDEEMED"}
                 /\ agreement' = [agreement EXCEPT !.status = t]
    BY <1>5 DEF ReviewClosure
  <2>2. QED
    BY <1>0, <2>1 DEF Agreements
<1>6. QED
  BY <1>1, <1>2, <1>3, <1>4, <1>5

\* A decision about a capture keeps every settlement of the agreement.
LEMMA DecisionTyped ==
  ASSUME RemindersTyped, CaptureDecided
  PROVE  agreement' \in Agreements
<1>0. agreement \in Agreements /\ agreement.settled \in Seq(Settlements)
  BY DEF RemindersTyped, Agreements
<1>1. CASE agreement' = agreement
  BY <1>0, <1>1
<1>2. CASE agreement' # agreement
  <2>1. Unsound \in Seq(Settlements)
    <3>1. PICK m \in Nat : DOMAIN agreement.settled = 1..m
      BY <1>0
    <3>2. ASSUME NEW n \in 1..m
          PROVE  [agreement.settled[n] EXCEPT !.sound = FALSE] \in Settlements
      <4>1. agreement.settled[n] \in Settlements
        BY <1>0, <3>1
      <4>2. QED
        BY <4>1 DEF Settlements
    <3>3. Unsound \in [1..m -> Settlements]
      BY <3>1, <3>2 DEF Unsound
    <3>4. QED
      BY <3>1, <3>3, SeqDef
  <2>2. PICK d \in {agreement.completion} \cup {f \in Forecasts : f > today},
             s \in {agreement.settled} \cup (IF family = "INR" THEN {Unsound} ELSE {}) :
           agreement' = [agreement EXCEPT !.completion = d, !.settled = s]
    BY <1>2 DEF CaptureDecided
  <2>3. d \in Nat /\ s \in Seq(Settlements)
    BY <1>0, <2>1, <2>2 DEF Forecasts, Agreements
  <2>4. QED
    BY <1>0, <2>2, <2>3 DEF Agreements
<1>3. QED
  BY <1>1, <1>2

\* A run takes the pending reminders of its plan.
LEMMA StartTyped ==
  ASSUME RemindersTyped, NEW j \in Jobs, NEW d \in Days, StartRun(j, d)
  PROVE  jobs' \in [Jobs -> Runs]
<1>1. PICK r : r = [asOf |-> d, pending |-> {k \in Candidates(d) : CandidateState(k) = "PENDING"}]
  OBVIOUS
<1>2. {k \in Candidates(d) : CandidateState(k) = "PENDING"} \in SUBSET Keys
  BY CandidatesAreKeys
<1>3. d \in Nat
  BY DEF Days
<1>4. r \in Runs
  BY <1>1, <1>2, <1>3 DEF Runs
<1>5. jobs' = [jobs EXCEPT ![j] = r]
  BY <1>1 DEF StartRun
<1>6. QED
  BY <1>4, <1>5, JobsAreTyped DEF RemindersTyped

LEMMA BeginTyped ==
  ASSUME RemindersTyped, NEW j \in Jobs, NEW k \in jobs[j].pending, BeginDelivery(j, k)
  PROVE  delivery' \in [job : Jobs, key : Keys]
<1>1. jobs[j] \in Runs
  BY DEF RemindersTyped
<1>2. k \in Keys
  BY <1>1 DEF Runs
<1>3. QED
  BY <1>2 DEF BeginDelivery

LEMMA TypesAreKept ==
  ASSUME RemindersTyped, RemindersNext
  PROVE  RemindersTyped'
<1>0. /\ family \in Families /\ today \in Days /\ agreement \in Agreements /\ undecided \in BOOLEAN
      /\ reachable \subseteq Audiences /\ jobs \in [Jobs -> Runs]
      /\ delivery = NoDelivery \/ delivery \in [job : Jobs, key : Keys]
      /\ RecordsAreTyped
  BY DEF RemindersTyped
<1>n. NoJob \in Runs
  BY DEF NoJob, Runs
<1>1. ASSUME NEW j \in Jobs, NEW d \in Days, StartRun(j, d)
      PROVE  RemindersTyped'
  <2>1. jobs' \in [Jobs -> Runs]
    BY <1>1, StartTyped
  <2>2. QED
    BY <1>0, <1>1, <2>1 DEF StartRun, RemindersTyped, RecordsAreTyped
<1>2. ASSUME NEW j \in Jobs, NEW k \in jobs[j].pending, PassOver(j, k)
      PROVE  RemindersTyped'
  <2>1. jobs' \in [Jobs -> Runs]
    BY <1>0, <1>2, FinishTyped DEF PassOver
  <2>2. QED
    BY <1>0, <1>2, <2>1 DEF PassOver, RemindersTyped, RecordsAreTyped
<1>3. ASSUME NEW j \in Jobs, NEW k \in jobs[j].pending, BeginDelivery(j, k)
      PROVE  RemindersTyped'
  <2>1. jobs' \in [Jobs -> Runs]
    BY <1>0, <1>3, FinishTyped DEF BeginDelivery
  <2>2. delivery' \in [job : Jobs, key : Keys]
    BY <1>3, BeginTyped
  <2>3. QED
    BY <1>0, <1>3, <2>1, <2>2 DEF BeginDelivery, RemindersTyped, RecordsAreTyped
<1>4. ASSUME MailAccepted
      PROVE  RemindersTyped'
  <2>1. RecordsAreTyped'
    <3>1. /\ attempts' = With(attempts, delivery.key, Append(Attempts(delivery.key), "ACCEPTED"))
          /\ letters' = With(letters, delivery.key, Letters(delivery.key) + 1)
          /\ lost' = lost
      BY <1>4 DEF MailAccepted, Record
    <3>2. QED
      BY <1>0, <3>1, DeliveryTyped DEF Outcomes
  <2>2. QED
    BY <1>0, <1>4, <2>1 DEF MailAccepted, Record, RemindersTyped
<1>5. ASSUME NEW taken \in BOOLEAN, MailFails(taken)
      PROVE  RemindersTyped'
  <2>1. RecordsAreTyped'
    <3>1. /\ attempts' = With(attempts, delivery.key, Append(Attempts(delivery.key), "FAILED"))
          /\ letters' = letters \/ letters' = With(letters, delivery.key, Letters(delivery.key) + 1)
          /\ lost' = lost \/ lost' = With(lost, delivery.key, Lost(delivery.key) + 1)
      BY <1>5 DEF MailFails, Record
    <3>2. QED
      BY <1>0, <3>1, DeliveryTyped DEF Outcomes
  <2>2. QED
    BY <1>0, <1>5, <2>1 DEF MailFails, Record, RemindersTyped
<1>6. ASSUME NEW taken \in BOOLEAN, CrashInDelivery(taken)
      PROVE  RemindersTyped'
  <2>1. RecordsAreTyped'
    <3>1. /\ attempts' = attempts
          /\ letters' = letters \/ letters' = With(letters, delivery.key, Letters(delivery.key) + 1)
          /\ lost' = lost \/ lost' = With(lost, delivery.key, Lost(delivery.key) + 1)
      BY <1>6 DEF CrashInDelivery
    <3>2. QED
      BY <1>0, <3>1, DeliveryTyped
  <2>2. jobs' \in [Jobs -> Runs]
    BY <1>0, <1>n, <1>6, JobsAreTyped DEF CrashInDelivery
  <2>3. QED
    BY <1>0, <1>6, <2>1, <2>2 DEF CrashInDelivery, RemindersTyped
<1>7. ASSUME NEW j \in Jobs, EndRun(j)
      PROVE  RemindersTyped'
  <2>1. jobs' \in [Jobs -> Runs]
    BY <1>0, <1>n, <1>7, JobsAreTyped DEF EndRun
  <2>2. QED
    BY <1>0, <1>7, <2>1 DEF EndRun, RemindersTyped, RecordsAreTyped
<1>8. CASE Reassess \/ AllocationFails \/ AllocationSucceeds \/ Complete \/ Reverse \/ ReviewClosure
  <2>1. agreement' \in Agreements
    BY <1>8, AgreementTyped
  <2>2. AgreementChanges
    BY <1>8 DEF Reassess, AllocationFails, AllocationSucceeds, Complete, Reverse, ReviewClosure
  <2>3. QED
    BY <1>0, <2>1, <2>2 DEF AgreementChanges, RemindersTyped, RecordsAreTyped
<1>9. CASE CaptureReported
  BY <1>0, <1>9 DEF CaptureReported, RemindersTyped, RecordsAreTyped
<1>10. CASE CaptureDecided
  <2>1. agreement' \in Agreements
    BY <1>10, DecisionTyped
  <2>2. QED
    BY <1>0, <1>10, <2>1 DEF CaptureDecided, RemindersTyped, RecordsAreTyped
<1>11. CASE ReachChanges
  BY <1>0, <1>11 DEF ReachChanges, RemindersTyped, RecordsAreTyped
<1>12. CASE NextDay
  BY <1>0, <1>12, RemindersAssumption DEF NextDay, RemindersTyped, RecordsAreTyped, Days
<1>13. QED
  BY <1>1, <1>2, <1>3, <1>4, <1>5, <1>6, <1>7, <1>8, <1>9, <1>10, <1>11, <1>12 DEF RemindersNext

-----------------------------------------------------------------------------
(* The settlement that stands. *)

LEMMA SettlementStands ==
  ASSUME RemindersTyped, OneStands, RemindersNext
  PROVE  OneStands'
<1>0. /\ agreement \in Agreements /\ agreement.settled \in Seq(Settlements) /\ today \in Days
  BY DEF RemindersTyped, Agreements
<1>f. family' = family
  BY DEF RemindersNext, StartRun, PassOver, BeginDelivery, MailAccepted, MailFails, CrashInDelivery,
     EndRun, Reassess, AllocationFails, AllocationSucceeds, Complete, Reverse, ReviewClosure,
     AgreementChanges, CaptureReported, CaptureDecided, ReachChanges, NextDay
<1>1. CASE agreement' = agreement
  BY <1>1, <1>f DEF OneStands
<1>2. CASE Reassess \/ AllocationFails \/ AllocationSucceeds
  <2>1. agreement'.status = agreement.status /\ agreement'.settled = agreement.settled
    BY <1>0, <1>2 DEF Reassess, AllocationFails, AllocationSucceeds, Agreements
  <2>2. QED
    BY <1>f, <2>1 DEF OneStands
<1>3. CASE Complete
  <2>1. SUFFICES ASSUME family # "LEGACY"
                 PROVE  \A n, m \in DOMAIN agreement'.settled :
                          agreement'.settled[n].standing =>
                            /\ agreement'.status = "REDEEMED"
                            /\ agreement'.settled[m].standing => m = n
    BY <1>f DEF OneStands
  <2>2. agreement' = [agreement EXCEPT !.status = "REDEEMED",
                         !.settled = Append(@, [day |-> today, standing |-> TRUE, sound |-> TRUE])]
    BY <1>3, <2>1 DEF Complete
  <2>3. agreement'.status = "REDEEMED"
        /\ agreement'.settled = Append(agreement.settled, [day |-> today, standing |-> TRUE, sound |-> TRUE])
    BY <1>0, <2>2 DEF Agreements
  <2>4. agreement.status # "REDEEMED"
    BY <1>3 DEF Complete
  <2>5. \A n \in DOMAIN agreement.settled : ~ agreement.settled[n].standing
    BY <2>1, <2>4 DEF OneStands
  <2>6. PICK q, r : q = agreement.settled /\ q \in Seq(Settlements)
                    /\ r = [day |-> today, standing |-> TRUE, sound |-> TRUE] /\ r \in Settlements
    <3>1. [day |-> today, standing |-> TRUE, sound |-> TRUE] \in Settlements
      BY <1>0 DEF Settlements
    <3>2. QED
      BY <1>0, <3>1
  <2>7. /\ DOMAIN Append(q, r) = 1..(Len(q) + 1) /\ DOMAIN q = 1..Len(q) /\ Len(q) \in Nat
        /\ \A n \in 1..Len(q) : Append(q, r)[n] = q[n]
    BY <2>6
  <2>8. \A n \in DOMAIN Append(q, r) : Append(q, r)[n].standing => n = Len(q) + 1
    BY <2>5, <2>6, <2>7
  <2>9. QED
    BY <2>3, <2>6, <2>7, <2>8
<1>4. CASE Reverse
  <2>1. SUFFICES ASSUME family # "LEGACY",
                        NEW n \in DOMAIN agreement'.settled, NEW m \in DOMAIN agreement'.settled,
                        agreement'.settled[n].standing
                 PROVE  agreement'.status = "REDEEMED" /\ (agreement'.settled[m].standing => m = n)
    BY <1>f DEF OneStands
  <2>2. PICK v \in DOMAIN agreement.settled :
           /\ agreement.settled[v].standing
           /\ agreement' = [agreement EXCEPT
                !.status = IF @ # "REDEEMED" THEN @
                           ELSE IF family = "LEGACY" THEN "ACTIVE" ELSE "CLOSURE_PENDING",
                !.settled[v].standing = FALSE]
    BY <1>4 DEF Reverse
  <2>3. agreement'.settled = [agreement.settled EXCEPT ![v].standing = FALSE]
    BY <1>0, <2>2 DEF Agreements
  <2>4. n # v
    <3>1. agreement.settled[v] \in Settlements
      BY <1>0
    <3>2. [agreement.settled[v] EXCEPT !.standing = FALSE].standing = FALSE
      BY <3>1 DEF Settlements
    <3>3. QED
      BY <1>0, <2>1, <2>2, <2>3, <3>2
  <2>5. n \in DOMAIN agreement.settled /\ agreement.settled[n].standing
    BY <2>1, <2>3, <2>4
  <2>6. n = v
    BY <2>1, <2>2, <2>5 DEF OneStands
  <2>7. QED
    BY <2>4, <2>6
<1>5. CASE ReviewClosure
  <2>1. agreement.status # "REDEEMED" /\ agreement'.settled = agreement.settled
    BY <1>0, <1>5 DEF ReviewClosure, Agreements
  <2>2. QED
    BY <1>f, <2>1 DEF OneStands
<1>6. CASE CaptureDecided /\ agreement' # agreement
  <2>1. PICK d \in {agreement.completion} \cup {f \in Forecasts : f > today},
             s \in {agreement.settled} \cup (IF family = "INR" THEN {Unsound} ELSE {}) :
           agreement' = [agreement EXCEPT !.completion = d, !.settled = s]
    BY <1>6 DEF CaptureDecided
  <2>2. agreement'.status = agreement.status /\ agreement'.settled = s
    BY <1>0, <2>1 DEF Agreements
  <2>3. DOMAIN s = DOMAIN agreement.settled
    BY <2>1 DEF Unsound
  <2>4. ASSUME NEW n \in DOMAIN agreement.settled
        PROVE  s[n].standing = agreement.settled[n].standing
    <3>1. agreement.settled[n] \in Settlements
      BY <1>0
    <3>2. [agreement.settled[n] EXCEPT !.sound = FALSE].standing = agreement.settled[n].standing
      BY <3>1 DEF Settlements
    <3>3. QED
      BY <2>1, <3>2 DEF Unsound
  <2>5. QED
    BY <1>f, <2>2, <2>3, <2>4 DEF OneStands
<1>7. QED
  BY <1>1, <1>2, <1>3, <1>4, <1>5, <1>6
  DEF RemindersNext, StartRun, PassOver, BeginDelivery, MailAccepted, MailFails, CrashInDelivery,
      EndRun, CaptureReported, ReachChanges, NextDay

-----------------------------------------------------------------------------
(* What the row lock protects. *)

\* A reminder that is allowed tells the truth, and no reported capture is open: the
\* second look at its event asks for everything the notice says.
LEMMA AllowedStands ==
  ASSUME RemindersTyped, OneStands, NEW k, NEW d \in Nat, Allowed(k, d)
  PROVE  Stands(k) /\ Certain(k)
<1>0. /\ family \in Families /\ agreement \in Agreements /\ today \in Days
  BY DEF RemindersTyped
<1>1. CASE k.kind \in {"UPCOMING_ELIGIBILITY", "UPCOMING_MONTHLY_COMPLETION"}
  <2>1. /\ k.lead \in Nat \ {0}
        /\ ProcessingDate(d) + k.lead = k.day
        /\ EligibilityTerms(ProcessingDate(d)) = k.day
    BY <1>1, RemindersAssumption DEF Allowed
  <2>2. ProcessingDate(d) \in Nat
    BY <1>0 DEF ProcessingDate, Days
  <2>3. k.day # 0
    BY <2>1, <2>2
  <2>4. /\ agreement.status = "ACTIVE" /\ agreement.completion = k.day
        /\ family = "LEGACY" \/ ~undecided
    BY <1>0, <2>1, <2>3 DEF EligibilityTerms, IndependentTerms, Forecast, Families
  <2>5. QED
    BY <1>1, <2>4 DEF Stands, Certain
<1>2. CASE k.kind = "ALLOCATION_EXCEPTION"
  BY <1>2 DEF Allowed, Stands, Certain
<1>3. CASE k.kind \in {"COMPLETED_REDEMPTION", "COMPLETED_INR_SETTLEMENT"}
  <2>1. /\ k.ref \in DOMAIN agreement.settled
        /\ agreement.settled[k.ref].day = k.day /\ agreement.settled[k.ref].standing
        /\ Evidenced(k.ref)
    BY <1>3 DEF Allowed, SettledOn
  <2>2. family # "LEGACY" => agreement.status = "REDEEMED"
    BY <2>1 DEF OneStands
  <2>3. QED
    BY <1>3, <2>1, <2>2 DEF Stands, Certain
<1>4. QED
  BY <1>1, <1>2, <1>3 DEF Allowed

LEMMA LockIsKept ==
  ASSUME RemindersTyped, OneStands, LockHolds, RemindersNext
  PROVE  LockHolds'
<1>1. ASSUME NEW j \in Jobs, NEW k \in jobs[j].pending, BeginDelivery(j, k)
      PROVE  LockHolds'
  <2>1. jobs[j].asOf \in Nat
    BY DEF RemindersTyped, Runs
  <2>2. Stands(k)
    BY <1>1, <2>1, AllowedStands DEF BeginDelivery
  <2>3. Accepted(k) = {} /\ Len(Attempts(k)) < RetryLimit
    <3>1. Accepted(k) = {} /\ ~ (Len(Attempts(k)) >= RetryLimit)
      BY <1>1 DEF BeginDelivery, CandidateState
    <3>2. Attempts(k) \in Seq(Outcomes)
      BY RecordTypes DEF RemindersTyped
    <3>3. Len(Attempts(k)) \in Nat
      BY <3>2
    <3>4. QED
      BY <3>1, <3>3, RemindersAssumption
  <2>4. /\ delivery'.key = k
        /\ attempts' = attempts /\ agreement' = agreement /\ family' = family
    BY <1>1 DEF BeginDelivery
  <2>5. QED
    BY <2>2, <2>3, <2>4 DEF LockHolds, Accepted, Attempts, Stands
<1>2. CASE delivery' = NoDelivery
  BY <1>2 DEF LockHolds, NoDelivery
<1>3. CASE /\ delivery' = delivery /\ delivery # NoDelivery
           /\ attempts' = attempts /\ agreement' = agreement /\ family' = family
  BY <1>3 DEF LockHolds, Accepted, Attempts, Stands
<1>4. QED
  BY <1>1, <1>2, <1>3
  DEF RemindersNext, StartRun, PassOver, MailAccepted, MailFails, CrashInDelivery, Record,
      EndRun, Reassess, AllocationFails, AllocationSucceeds, Complete, Reverse, ReviewClosure,
      AgreementChanges, CaptureReported, CaptureDecided, ReachChanges, NextDay

-----------------------------------------------------------------------------
(* Letters and attempts are counted. *)

LEMMA QuietRecords ==
  ASSUME NEW k, Once(k), attempts' = attempts, letters' = letters, lost' = lost
  PROVE  Once(k)'
  BY DEF Once, Accepted, Attempts, Letters, Lost

LEMMA OnceIsKept ==
  ASSUME RemindersTyped, LockHolds, NEW k, Once(k), RemindersNext
  PROVE  Once(k)'
<1>r. RecordsAreTyped
  BY DEF RemindersTyped
<1>0. Attempts(k) \in Seq(Outcomes) /\ Letters(k) \in Nat /\ Lost(k) \in Nat
  BY <1>r, RecordTypes
<1>1. CASE MailAccepted
  <2>0. /\ attempts' = With(attempts, delivery.key, Append(Attempts(delivery.key), "ACCEPTED"))
        /\ letters' = With(letters, delivery.key, Letters(delivery.key) + 1)
        /\ lost' = lost
        /\ Accepted(delivery.key) = {} /\ Len(Attempts(delivery.key)) < RetryLimit
    BY <1>1 DEF MailAccepted, Record, LockHolds
  <2>1. CASE k # delivery.key
    BY <2>0, <2>1, OthersRecords DEF Once
  <2>2. CASE k = delivery.key
    <3>1. "ACCEPTED" \in Outcomes
      BY DEF Outcomes
    <3>2. Attempts(k)' = Append(Attempts(k), "ACCEPTED")
      BY <1>r, <2>0, <2>2, <3>1, OwnRecords
    <3>3. Letters(k)' = Letters(k) + 1
      BY <1>r, <2>0, <2>2, OwnRecords
    <3>4. Lost(k)' = Lost(k)
      BY <2>0 DEF Lost
    <3>5. /\ Accepted(k)' = {Len(Attempts(k)) + 1}
          /\ Len(Attempts(k)') = Len(Attempts(k)) + 1
      BY <1>r, <2>0, <2>2, <3>1, <3>2, MoreAttempts
    <3>6. Cardinality(Accepted(k)) = 0
      BY <2>0, <2>2, FS_EmptySet
    <3>7. IsFiniteSet(Accepted(k)') /\ Cardinality(Accepted(k)') = 1
      BY <3>5, FS_Singleton
    <3>8. Len(Attempts(k)) \in Nat
      BY <1>0
    <3>9. Len(Attempts(k)') <= RetryLimit
      BY <2>0, <2>2, <3>5, <3>8, RemindersAssumption
    <3>10. Letters(k)' = Cardinality(Accepted(k)') + Lost(k)'
      BY <1>0, <3>3, <3>4, <3>6, <3>7 DEF Once
    <3>11. QED
      BY <3>7, <3>9, <3>10 DEF Once
  <2>3. QED
    BY <2>1, <2>2
<1>2. ASSUME NEW taken \in BOOLEAN, MailFails(taken)
      PROVE  Once(k)'
  <2>0. /\ attempts' = With(attempts, delivery.key, Append(Attempts(delivery.key), "FAILED"))
        /\ \/ letters' = letters /\ lost' = lost
           \/ /\ letters' = With(letters, delivery.key, Letters(delivery.key) + 1)
              /\ lost' = With(lost, delivery.key, Lost(delivery.key) + 1)
        /\ Accepted(delivery.key) = {} /\ Len(Attempts(delivery.key)) < RetryLimit
    BY <1>2 DEF MailFails, Record, LockHolds
  <2>1. CASE k # delivery.key
    BY <2>0, <2>1, OthersRecords DEF Once
  <2>2. CASE k = delivery.key
    <3>1. "FAILED" \in Outcomes /\ "FAILED" # "ACCEPTED"
      BY DEF Outcomes
    <3>2. Attempts(k)' = Append(Attempts(k), "FAILED")
      BY <1>r, <2>0, <2>2, <3>1, OwnRecords
    <3>3. \/ Letters(k)' = Letters(k) /\ Lost(k)' = Lost(k)
          \/ Letters(k)' = Letters(k) + 1 /\ Lost(k)' = Lost(k) + 1
      <4>1. CASE letters' = letters /\ lost' = lost
        BY <4>1 DEF Letters, Lost
      <4>2. CASE /\ letters' = With(letters, delivery.key, Letters(delivery.key) + 1)
                 /\ lost' = With(lost, delivery.key, Lost(delivery.key) + 1)
        BY <1>r, <2>2, <4>2, OwnRecords
      <4>3. QED
        BY <2>0, <4>1, <4>2
    <3>5. /\ Accepted(k)' = {}
          /\ Len(Attempts(k)') = Len(Attempts(k)) + 1
      BY <1>r, <2>0, <2>2, <3>1, <3>2, MoreAttempts
    <3>6. Cardinality(Accepted(k)) = 0
      BY <2>0, <2>2, FS_EmptySet
    <3>7. IsFiniteSet(Accepted(k)') /\ Cardinality(Accepted(k)') = 0
      BY <3>5, FS_EmptySet
    <3>8. Len(Attempts(k)) \in Nat
      BY <1>0
    <3>9. Len(Attempts(k)') <= RetryLimit
      BY <2>0, <2>2, <3>5, <3>8, RemindersAssumption
    <3>10. Letters(k)' = Cardinality(Accepted(k)') + Lost(k)'
      BY <1>0, <3>3, <3>6, <3>7 DEF Once
    <3>11. QED
      BY <3>7, <3>9, <3>10 DEF Once
  <2>3. QED
    BY <2>1, <2>2
<1>3. ASSUME NEW taken \in BOOLEAN, CrashInDelivery(taken)
      PROVE  Once(k)'
  <2>0. /\ attempts' = attempts
        /\ \/ letters' = letters /\ lost' = lost
           \/ /\ letters' = With(letters, delivery.key, Letters(delivery.key) + 1)
              /\ lost' = With(lost, delivery.key, Lost(delivery.key) + 1)
    BY <1>3 DEF CrashInDelivery
  <2>1. CASE k # delivery.key
    BY <2>0, <2>1, OthersRecords DEF Once
  <2>2. CASE k = delivery.key
    <3>1. Attempts(k)' = Attempts(k) /\ Accepted(k)' = Accepted(k)
      BY <2>0 DEF Attempts, Accepted
    <3>2. \/ Letters(k)' = Letters(k) /\ Lost(k)' = Lost(k)
          \/ Letters(k)' = Letters(k) + 1 /\ Lost(k)' = Lost(k) + 1
      <4>1. CASE letters' = letters /\ lost' = lost
        BY <4>1 DEF Letters, Lost
      <4>2. CASE /\ letters' = With(letters, delivery.key, Letters(delivery.key) + 1)
                 /\ lost' = With(lost, delivery.key, Lost(delivery.key) + 1)
        BY <1>r, <2>2, <4>2, OwnRecords
      <4>3. QED
        BY <2>0, <4>1, <4>2
    <3>3. Cardinality(Accepted(k)) \in Nat
      BY FS_CardinalityType DEF Once
    <3>4. QED
      BY <1>0, <3>1, <3>2, <3>3 DEF Once
  <2>3. QED
    BY <2>1, <2>2
<1>4. CASE attempts' = attempts /\ letters' = letters /\ lost' = lost
  BY <1>4, QuietRecords
<1>5. QED
  BY <1>1, <1>2, <1>3, <1>4
  DEF RemindersNext, StartRun, PassOver, BeginDelivery,
      EndRun, Reassess, AllocationFails, AllocationSucceeds, Complete, Reverse, ReviewClosure,
      AgreementChanges, CaptureReported, CaptureDecided, ReachChanges, NextDay

-----------------------------------------------------------------------------
(* The theorems. *)

LEMMA RemindersInvariant == RemindersSpec => []RemindersInv
<1>1. RemindersInit => RemindersInv
  <2>1. SUFFICES ASSUME RemindersInit PROVE RemindersInv
    OBVIOUS
  <2>2. OneStands
    <3>1. agreement.settled = <<>>
      BY <2>1 DEF RemindersInit
    <3>2. QED
      BY <3>1 DEF OneStands
  <2>3. LockHolds
    BY <2>1 DEF RemindersInit, LockHolds
  <2>4. ASSUME NEW k PROVE Once(k)
    <3>1. Attempts(k) = <<>> /\ Letters(k) = 0 /\ Lost(k) = 0
      BY <2>1 DEF RemindersInit, Attempts, Letters, Lost
    <3>2. Accepted(k) = {} /\ Len(Attempts(k)) = 0
      BY <3>1 DEF Accepted
    <3>3. IsFiniteSet(Accepted(k)) /\ Cardinality(Accepted(k)) = 0
      BY <3>2, FS_EmptySet
    <3>4. QED
      BY <3>1, <3>2, <3>3, RemindersAssumption DEF Once
  <2>5. QED
    BY <2>1, <2>2, <2>3, <2>4, InitTyped DEF RemindersInv
<1>2. RemindersInv /\ [RemindersNext]_reminderVars => RemindersInv'
  <2>1. SUFFICES ASSUME RemindersInv, [RemindersNext]_reminderVars PROVE RemindersInv'
    OBVIOUS
  <2>2. CASE RemindersNext
    <3>1. RemindersTyped' /\ OneStands' /\ LockHolds'
      BY <2>1, <2>2, TypesAreKept, SettlementStands, LockIsKept DEF RemindersInv
    <3>2. ASSUME NEW k PROVE Once(k)'
      BY <2>1, <2>2, OnceIsKept DEF RemindersInv
    <3>3. QED
      BY <3>1, <3>2 DEF RemindersInv
  <2>3. CASE UNCHANGED reminderVars
    <3>1. ASSUME NEW k PROVE Once(k)'
      BY <2>1, <2>3, QuietRecords DEF RemindersInv, reminderVars
    <3>2. QED
      BY <2>1, <2>3, <3>1
      DEF RemindersInv, reminderVars, RemindersTyped, RecordsAreTyped, OneStands, LockHolds,
          Accepted, Attempts, Stands
  <2>4. QED
    BY <2>1, <2>2, <2>3
<1>3. QED
  BY <1>1, <1>2, PTL DEF RemindersSpec

\* However runs overlap and fail, a reminder has at most one accepted attempt, the
\* retry limit is never passed, and every letter beyond the accepted one is one
\* whose answer was lost (deliver_scheme_reminder under the agreement's row lock).
THEOREM NoticesAreSentOnce == RemindersSpec => []RemindedOnce
<1>1. RemindersInv => RemindedOnce
  BY DEF RemindersInv, Once, RemindedOnce
<1>2. QED
  BY <1>1, RemindersInvariant, PTL

\* A delivery begins only for an event that stands and that no reported capture
\* casts doubt on, and its letter leaves only while the event stands, whatever
\* happened since the plan of its run (the second look of deliver_scheme_reminder,
\* under the same row lock as the agreement's events).
THEOREM NoticesAreTrue == RemindersSpec => RemindsTheTruth
<1>1. RemindersInv /\ RemindersNext =>
        (delivery' \notin {delivery, NoDelivery} => Stands(delivery'.key) /\ Certain(delivery'.key))
  <2>1. SUFFICES ASSUME RemindersInv, RemindersNext, delivery' \notin {delivery, NoDelivery}
                 PROVE  Stands(delivery'.key) /\ Certain(delivery'.key)
    OBVIOUS
  <2>2. PICK j \in Jobs, k \in UNION {jobs[i].pending : i \in Jobs} :
           k \in jobs[j].pending /\ BeginDelivery(j, k)
    BY <2>1
    DEF RemindersNext, StartRun, PassOver, MailAccepted, MailFails, CrashInDelivery, Record,
        EndRun, Reassess, AllocationFails, AllocationSucceeds, Complete, Reverse, ReviewClosure,
        AgreementChanges, CaptureReported, CaptureDecided, ReachChanges, NextDay
  <2>3. jobs[j].asOf \in Nat
    BY <2>1 DEF RemindersInv, RemindersTyped, Runs
  <2>4. delivery'.key = k /\ Allowed(k, jobs[j].asOf)
    BY <2>2 DEF BeginDelivery
  <2>5. QED
    BY <2>1, <2>3, <2>4, AllowedStands DEF RemindersInv
<1>2. RemindersInv /\ RemindersNext =>
        \A k \in DOMAIN letters' : letters'[k] # Letters(k) => Stands(k)
  <2>1. SUFFICES ASSUME RemindersInv, RemindersNext, NEW k \in DOMAIN letters', letters'[k] # Letters(k)
                 PROVE  Stands(k)
    OBVIOUS
  <2>2. CASE letters' = letters
    BY <2>1, <2>2 DEF Letters
  <2>3. CASE /\ letters' = With(letters, delivery.key, Letters(delivery.key) + 1)
             /\ delivery # NoDelivery
    <3>1. CASE k = delivery.key
      BY <2>1, <2>3, <3>1 DEF RemindersInv, LockHolds
    <3>2. CASE k # delivery.key
      <4>1. k \in DOMAIN letters /\ letters'[k] = letters[k]
        BY <2>1, <2>3, <3>2 DEF With
      <4>2. QED
        BY <2>1, <4>1 DEF Letters
    <3>3. QED
      BY <3>1, <3>2
  <2>4. QED
    BY <2>1, <2>2, <2>3
    DEF RemindersNext, StartRun, PassOver, BeginDelivery, MailAccepted, MailFails, CrashInDelivery,
        EndRun, Reassess, AllocationFails, AllocationSucceeds, Complete, Reverse, ReviewClosure,
        AgreementChanges, CaptureReported, CaptureDecided, ReachChanges, NextDay
<1>3. RemindersInv /\ [RemindersNext]_reminderVars =>
        [/\ delivery' \notin {delivery, NoDelivery} => Stands(delivery'.key) /\ Certain(delivery'.key)
         /\ \A k \in DOMAIN letters' : letters'[k] # Letters(k) => Stands(k)]_reminderVars
  BY <1>1, <1>2
<1>4. QED
  BY <1>3, RemindersInvariant, PTL DEF RemindersSpec, RemindsTheTruth
=================================================================================
