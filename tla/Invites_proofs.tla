--------------------------- MODULE Invites_proofs ---------------------------
(***************************************************************************)
(* What holds of Invites for any number of addresses, companies, invites,  *)
(* tabs and requests in flight, wherever an acceptance stops.              *)
(***************************************************************************)
EXTENDS Invites, TLAPS

\* An invite that was sent has its columns, and a row that was not is empty.
InvitesOK == \A i \in Invites :
    \/ invite[i] = NoInvite
    \/ /\ invite[i].company \in Companies
       /\ invite[i].email \in Emails
       /\ invite[i].role \in Invitable

\* What a request of the staff, or a registration, remembers.
RequestOK(q) ==
    /\ pc[q] \in {"idle", "checked", "inserted", "creating", "unique", "answering", "revoking",
                  "revokeLoaded"}
    /\ pc[q] \in {"checked", "inserted"} =>
          /\ work[q].source \in Companies
          /\ work[q].email \in Emails
          /\ work[q].role = "COMPANY_ADMIN"
    /\ pc[q] \in {"creating", "unique"} =>
          /\ work[q].company \in Companies
          /\ work[q].email \in Emails
          /\ work[q].role \in Invitable
    /\ pc[q] \in {"answering", "revoking", "revokeLoaded"} => work[q].source \in Sent

\* What a tab shows, and what its request has copied from the invite.
TabOK(t) ==
    /\ pc[t] \in Accepts \cup {"blank", "form", "invalid", "failed", "overview"}
    /\ pc[t] \in Accepts \cup {"form", "failed"} => work[t].source \in Sent
    /\ pc[t] \in Accepts =>
          /\ work[t].email = invite[work[t].source].email
          /\ work[t].role = invite[work[t].source].role

WorkOK ==
    /\ \A q \in Requests : RequestOK(q)
    /\ \A t \in Tabs : TabOK(t)

\* A row that is inserted and not committed has an address that nobody has, nor inserts, besides.
InsertOK ==
    /\ \A p \in Procs : pc[p] = "inserted" => ~Taken(work[p].email)
    /\ \A p, q \in Procs :
          pc[p] = "inserted" /\ pc[q] = "inserted" /\ work[p].email = work[q].email => p = q

\* The account of an invite has the invite's address and role.
AccountsOK == \A i \in Invites : user[i] # NoUser =>
    i \in Sent /\ user[i].email = invite[i].email /\ user[i].role = invite[i].role

\* An acceptance that has created the account has left it there.
Created == {"created", "loaded", "signingIn"}
CreatedOK == \A t \in Tabs : pc[t] \in Created => user[work[t].source] # NoUser

\* An invite whose acceptances have neither been cut off nor met a revocation: as long as one goes
\* on nobody has revoked it, and once its account is there it is accepted, or will be.
SettledOK == \A i \in Invites :
    /\ Accepting(i) /\ Revoking(i) => i \in contested
    /\ i \notin contested =>
          /\ Accepting(i) => ~invite[i].revoked
          /\ \A t \in Tabs : pc[t] = "loaded" /\ work[t].source = i => ~work[t].differs
    /\ i \notin cut \cup contested /\ user[i] # NoUser =>
          /\ ~invite[i].revoked
          /\ ~Revoking(i)
          /\ \/ invite[i].accepted
             \/ \E t \in Tabs : pc[t] \in {"created", "loaded"} /\ work[t].source = i

AcceptedOK == \A i \in Invites : invite[i].accepted => user[i] # NoUser

IInv ==
    /\ TypeOK /\ InvitesOK /\ WorkOK
    /\ InsertOK /\ OneAccountPerEmail
    /\ AccountsOK /\ CouriersAreComplete /\ CreatedOK
    /\ AcceptedOK /\ SettledOK

----------------------------------------------------------------------------
\* A step of one request, or of one tab, moves nobody else.
LEMMA StepMoves ==
    ASSUME TypeOK, NEW q \in Procs, NEW from, NEW to, NEW w, Step(q, from, to, w)
    PROVE  /\ pc[q] = from /\ pc'[q] = to /\ work'[q] = w
           /\ \A p \in Procs \ {q} : pc'[p] = pc[p] /\ work'[p] = work[p]
           /\ to \in Steps => pc' \in [Procs -> Steps]
           /\ w \in Work => work' \in [Procs -> Work]
  BY DEF TypeOK, Step

LEMMA FinishMoves ==
    ASSUME TypeOK, NEW q \in Procs, Finish(q)
    PROVE  /\ q \in Tabs => pc'[q] = "failed" /\ work'[q] = [Idle EXCEPT !.source = work[q].source]
           /\ q \in Requests => pc'[q] = "idle" /\ work'[q] = Idle
           /\ \A p \in Procs \ {q} : pc'[p] = pc[p] /\ work'[p] = work[p]
           /\ pc' \in [Procs -> Steps]
           /\ work' \in [Procs -> Work]
<1>1. Idle \in Work
  BY DEF Idle, Work, Roles
<1>2. work[q].source \in Sources \cup {NoSource}
  BY DEF TypeOK, Work
<1>3. [Idle EXCEPT !.source = work[q].source] \in Work
  BY <1>1, <1>2 DEF Work
<1>4. QED
  BY <1>1, <1>3, KindsAreApart DEF TypeOK, Finish, Steps, Procs

\* Saving an invite writes the two columns of its state, and no other row.
SameInvite(i) ==
    /\ invite'[i].company = invite[i].company
    /\ invite'[i].email = invite[i].email
    /\ invite'[i].role = invite[i].role

LEMMA SaveRevokedWrites ==
    ASSUME TypeOK, NEW q \in Procs, work[q].source \in Sent, SaveRevoked(q)
    PROVE  LET i == work[q].source IN
           /\ i \in Invites
           /\ invite' \in [Invites -> InviteRows]
           /\ SameInvite(i)
           /\ invite'[i].revoked
           /\ invite'[i].accepted = (invite[i].accepted /\ ~work[q].differs)
           /\ \A j \in Invites \ {i} : invite'[j] = invite[j]
<1> DEFINE i == work[q].source
<1>1. i \in Invites /\ invite[i] \in InviteRows /\ work[q].differs \in BOOLEAN
  BY DEF Sent, TypeOK, Work
<1>2. invite' = [invite EXCEPT ![i] = [invite[i] EXCEPT
                    !.revoked = TRUE, !.accepted = invite[i].accepted /\ ~work[q].differs]]
  BY <1>1 DEF SaveRevoked, TypeOK, InviteRows
<1>3. invite'[i] = [invite[i] EXCEPT
                    !.revoked = TRUE, !.accepted = invite[i].accepted /\ ~work[q].differs]
  BY <1>1, <1>2 DEF TypeOK
<1>4. /\ invite'[i] \in InviteRows
      /\ SameInvite(i)
      /\ invite'[i].revoked
      /\ invite'[i].accepted = (invite[i].accepted /\ ~work[q].differs)
  BY <1>1, <1>3 DEF InviteRows, SameInvite
<1>5. \A j \in Invites \ {i} : invite'[j] = invite[j]
  BY <1>2 DEF TypeOK
<1>6. invite' \in [Invites -> InviteRows]
  BY <1>1, <1>2, <1>4 DEF TypeOK
<1>7. QED
  BY <1>1, <1>4, <1>5, <1>6

LEMMA SaveAcceptedWrites ==
    ASSUME TypeOK, NEW t \in Procs, work[t].source \in Sent, SaveAccepted(t)
    PROVE  LET i == work[t].source IN
           /\ i \in Invites
           /\ invite' \in [Invites -> InviteRows]
           /\ SameInvite(i)
           /\ invite'[i].accepted
           /\ invite'[i].revoked = (invite[i].revoked /\ ~work[t].differs)
           /\ \A j \in Invites \ {i} : invite'[j] = invite[j]
<1> DEFINE i == work[t].source
<1>1. i \in Invites /\ invite[i] \in InviteRows /\ work[t].differs \in BOOLEAN
  BY DEF Sent, TypeOK, Work
<1>2. invite' = [invite EXCEPT ![i] = [invite[i] EXCEPT
                    !.accepted = TRUE, !.revoked = invite[i].revoked /\ ~work[t].differs]]
  BY <1>1 DEF SaveAccepted, TypeOK, InviteRows
<1>3. invite'[i] = [invite[i] EXCEPT
                    !.accepted = TRUE, !.revoked = invite[i].revoked /\ ~work[t].differs]
  BY <1>1, <1>2 DEF TypeOK
<1>4. /\ invite'[i] \in InviteRows
      /\ SameInvite(i)
      /\ invite'[i].accepted
      /\ invite'[i].revoked = (invite[i].revoked /\ ~work[t].differs)
  BY <1>1, <1>3 DEF InviteRows, SameInvite
<1>5. \A j \in Invites \ {i} : invite'[j] = invite[j]
  BY <1>2 DEF TypeOK
<1>6. invite' \in [Invites -> InviteRows]
  BY <1>1, <1>2, <1>4 DEF TypeOK
<1>7. QED
  BY <1>1, <1>4, <1>5, <1>6

\* An invite that was sent stays sent, and keeps its company, address and role.
LEMMA InviteKept ==
    ASSUME TypeOK, WorkOK, [Next]_vars, NEW i \in Sent
    PROVE  i \in Sent' /\ SameInvite(i)
<1>0. i \in Invites /\ invite[i].company # NoCompany
  BY DEF Sent
<1> SUFFICES SameInvite(i)
  BY <1>0 DEF Sent, SameInvite
<1>1. CASE invite'[i] = invite[i]
  BY <1>1 DEF SameInvite
<1>2. ASSUME NEW q \in Requests, NEW j \in Invites, SaveInvite(q, j)
      PROVE  invite'[i] = invite[i]
  BY <1>0, <1>2 DEF SaveInvite, Sent, TypeOK
<1>3. ASSUME NEW q \in Requests, SaveRevoked(q)
      PROVE  SameInvite(i)
  BY <1>0, <1>1, <1>3, SaveRevokedWrites DEF SaveRevoked, WorkOK, RequestOK, Procs
<1>4. ASSUME NEW t \in Tabs, SaveAccepted(t)
      PROVE  SameInvite(i)
  <2>1. work[t].source \in Sent
    BY <1>4 DEF SaveAccepted, Step, WorkOK, TabOK, Accepts
  <2>2. QED
    BY <1>0, <1>1, <1>4, <2>1, SaveAcceptedWrites DEF Procs
<1>5. QED
  BY <1>1, <1>2, <1>3, <1>4
     DEF Next, Staff, Invitee, Registration, StartCreate, CheckInvites, ShowLink, StartRevoke,
         LoadRevoked, OpenPage, StartAccept, CommitAccount, LoadAccepted, SignIn, StartRegister,
         CommitCompany, InsertUser, Fail, Expire, rows, vars

\* Whoever moves has taken the step.
Unmoved(p) == pc'[p] = pc[p] /\ work'[p] = work[p]

Moves(q) ==
    \/ q \in Requests /\ (Staff(q) \/ Registration(q))
    \/ q \in Tabs /\ Invitee(q)
    \/ InsertUser(q)
    \/ Fail(q)

LEMMA OneMoves == ASSUME TypeOK, [Next]_vars, NEW p \in Procs PROVE Unmoved(p) \/ Moves(p)
<1>0. Unmoved(p) \/ \E q \in Procs : Moves(q)
  <2>1. CASE UNCHANGED vars
    BY <2>1 DEF vars, Unmoved
  <2>2. ASSUME NEW i \in Invites, Expire(i)
        PROVE  Unmoved(p)
    BY <2>2 DEF Expire, Unmoved
  <2>3. QED
    BY <2>1, <2>2 DEF Next, Moves, Procs
<1> SUFFICES ASSUME NEW q \in Procs, p # q, Moves(q)
             PROVE  Unmoved(p)
  BY <1>0
<1>1. (\E from, to, w : Step(q, from, to, w)) \/ Finish(q) => Unmoved(p)
  <2>1. ASSUME NEW from, NEW to, NEW w, Step(q, from, to, w)
        PROVE  Unmoved(p)
    BY <2>1, StepMoves DEF Unmoved
  <2>2. CASE Finish(q)
    BY <2>2, FinishMoves DEF Unmoved
  <2>3. QED
    BY <2>1, <2>2
<1>2. CASE q \in Requests /\ Staff(q)
  BY <1>1, <1>2 DEF Staff, StartCreate, CheckInvites, SaveInvite, ShowLink, StartRevoke, LoadRevoked,
                    SaveRevoked
<1>3. CASE q \in Requests /\ Registration(q)
  BY <1>1, <1>3 DEF Registration, StartRegister, CommitCompany
<1>4. CASE q \in Tabs /\ Invitee(q)
  <2>1. ASSUME NEW i \in Invites, OpenPage(q, i)
        PROVE  Unmoved(p)
    BY <2>1 DEF OpenPage, TypeOK, Unmoved
  <2>2. QED
    BY <1>1, <1>4, <2>1 DEF Invitee, StartAccept, CommitAccount, LoadAccepted, SaveAccepted, SignIn
<1>5. CASE InsertUser(q) \/ Fail(q)
  BY <1>1, <1>5 DEF InsertUser, Fail
<1>6. QED
  BY <1>2, <1>3, <1>4, <1>5 DEF Moves

----------------------------------------------------------------------------
LEMMA TypePreserved == TypeOK /\ InvitesOK /\ WorkOK /\ [Next]_vars => TypeOK'
<1> SUFFICES ASSUME TypeOK, InvitesOK, WorkOK, [Next]_vars PROVE TypeOK'
  OBVIOUS
<1> USE DEF Procs
<1>0. Sent \subseteq Sent' /\ Idle \in Work
  BY InviteKept DEF Idle, Work, Roles
<1>1. ASSUME NEW q \in Requests, NEW c \in Companies, NEW e \in Emails, StartRegister(q, c, e)
      PROVE  TypeOK'
  <2> DEFINE w == [source |-> c, email |-> e, company |-> c, role |-> "COMPANY_ADMIN",
                   differs |-> FALSE]
  <2>1. w \in Work /\ "checked" \in Steps
    BY DEF Work, Roles, Sources, Steps, Accepts
  <2>2. Step(q, "idle", "checked", w)
    BY <1>1 DEF StartRegister
  <2>3. pc' \in [Procs -> Steps] /\ work' \in [Procs -> Work]
    BY <2>1, <2>2, StepMoves
  <2>4. QED
    BY <1>1, <2>3, <1>0 DEF StartRegister, TypeOK, rows, links, aux
<1>2. ASSUME NEW q \in Procs, InsertUser(q)
      PROVE  TypeOK'
  <2>1. work[q] \in Work /\ "inserted" \in Steps
    BY DEF TypeOK, Steps, Accepts
  <2>2. pc' \in [Procs -> Steps] /\ work' \in [Procs -> Work]
    BY <1>2, <2>1, StepMoves, FinishMoves DEF InsertUser
  <2>3. QED
    BY <1>2, <2>2, <1>0 DEF InsertUser, TypeOK, rows, links, aux
<1>3. ASSUME NEW q \in Requests, CommitCompany(q)
      PROVE  TypeOK'
  <2>1. UserRow(work[q]) \in UserRows
    BY DEF TypeOK, UserRow, UserRows, Work
  <2>2. user' \in [Sources -> UserRows]
    BY <1>3, <2>1 DEF CommitCompany, TypeOK
  <2>3. pc' \in [Procs -> Steps] /\ work' \in [Procs -> Work]
    BY <1>3, FinishMoves DEF CommitCompany
  <2>4. QED
    BY <1>3, <2>2, <2>3, <1>0 DEF CommitCompany, TypeOK, rows, links, aux
<1>4. ASSUME NEW t \in Tabs, CommitAccount(t)
      PROVE  TypeOK'
  <2>1. UserRow(work[t]) \in UserRows
    BY DEF TypeOK, UserRow, UserRows, Work
  <2>2. user' \in [Sources -> UserRows]
    BY <1>4, <2>1 DEF CommitAccount, TypeOK
  <2>3. work[t] \in Work /\ "created" \in Steps
    BY DEF TypeOK, Steps, Accepts
  <2>4. pc' \in [Procs -> Steps] /\ work' \in [Procs -> Work]
    BY <1>4, <2>3, StepMoves DEF CommitAccount
  <2>5. pc[t] = "inserted"
    BY <1>4 DEF CommitAccount, Step
  <2>6. work[t].source \in Invites
    BY <2>5 DEF WorkOK, TabOK, Accepts, Sent
  <2>7. couriers' \subseteq Invites
    BY <1>4, <2>6 DEF CommitAccount, CourierRows, TypeOK
  <2>8. QED
    BY <1>4, <2>2, <2>4, <2>7, <1>0 DEF CommitAccount, TypeOK, rows, links, aux
<1>5. ASSUME NEW q \in Requests, NEW c \in Companies, NEW actor \in StaffRoles, NEW e \in Emails,
             NEW role \in Invitable, StartCreate(q, c, actor, e, role)
      PROVE  TypeOK'
  <2> DEFINE w == [Idle EXCEPT !.company = c, !.email = e, !.role = role]
  <2>1. w \in Work /\ "creating" \in Steps
    BY DEF Work, Roles, Invitable, Steps, Idle
  <2>2. Step(q, "idle", "creating", w)
    BY <1>5 DEF StartCreate
  <2>3. pc' \in [Procs -> Steps] /\ work' \in [Procs -> Work]
    BY <2>1, <2>2, StepMoves
  <2>4. QED
    BY <1>5, <2>3, <1>0 DEF StartCreate, TypeOK, rows, links, aux
<1>6. ASSUME NEW q \in Requests, CheckInvites(q)
      PROVE  TypeOK'
  <2>1. work[q] \in Work /\ "unique" \in Steps
    BY DEF TypeOK, Steps
  <2>2. Step(q, "creating", "unique", work[q]) \/ Finish(q)
    BY <1>6 DEF CheckInvites
  <2>3. pc' \in [Procs -> Steps] /\ work' \in [Procs -> Work]
    BY <2>1, <2>2, StepMoves, FinishMoves
  <2>4. QED
    BY <1>6, <2>3, <1>0 DEF CheckInvites, TypeOK, rows, links, aux
<1>7. ASSUME NEW q \in Requests, NEW i \in Invites, SaveInvite(q, i)
      PROVE  TypeOK'
  <2> DEFINE row == [company |-> work[q].company, email |-> work[q].email, role |-> work[q].role,
                     accepted |-> FALSE, revoked |-> FALSE]
  <2>1. row \in InviteRows /\ "answering" \in Steps
    BY DEF TypeOK, Work, InviteRows, Steps
  <2>2. invite' = [invite EXCEPT ![i] = row]
    BY <1>7 DEF SaveInvite
  <2>3. [work[q] EXCEPT !.source = i] \in Work
    BY DEF TypeOK, Work, Sources
  <2>4. pc' \in [Procs -> Steps] /\ work' \in [Procs -> Work]
    BY <1>7, <2>1, <2>3, StepMoves DEF SaveInvite
  <2>5. invite' \in [Invites -> InviteRows]
    BY <2>1, <2>2 DEF TypeOK
  <2>6. QED
    BY <1>7, <2>4, <2>5, <1>0 DEF SaveInvite, TypeOK, links, aux
<1>8. ASSUME NEW q \in Requests, ShowLink(q)
      PROVE  TypeOK'
  <2>1. work[q].source \in Sent
    BY <1>8 DEF ShowLink, WorkOK, RequestOK
  <2>2. pc' \in [Procs -> Steps] /\ work' \in [Procs -> Work]
    BY <1>8, FinishMoves DEF ShowLink
  <2>3. QED
    BY <1>8, <2>1, <2>2, <1>0 DEF ShowLink, TypeOK, rows, aux
<1>9. ASSUME NEW q \in Requests, NEW c \in Companies, NEW i \in Invites, StartRevoke(q, c, i)
      PROVE  TypeOK'
  <2>1. [Idle EXCEPT !.source = i] \in Work /\ "revoking" \in Steps
    BY <1>0 DEF Work, Sources, Steps
  <2>2. pc' \in [Procs -> Steps] /\ work' \in [Procs -> Work]
    BY <1>9, <2>1, StepMoves DEF StartRevoke
  <2>3. QED
    BY <1>9, <2>2, <1>0 DEF StartRevoke, TypeOK, rows, links
<1>10. ASSUME NEW q \in Requests, LoadRevoked(q)
       PROVE  TypeOK'
  <2>1. pc[q] = "revoking"
    BY <1>10 DEF LoadRevoked, Step
  <2>2. invite[work[q].source].accepted \in BOOLEAN
    BY <2>1 DEF TypeOK, WorkOK, RequestOK, InviteRows, Sent
  <2>3. [work[q] EXCEPT !.differs = invite[work[q].source].accepted] \in Work
    BY <2>2 DEF TypeOK, Work
  <2>4. pc' \in [Procs -> Steps] /\ work' \in [Procs -> Work]
    BY <1>10, <2>3, StepMoves DEF LoadRevoked, Steps
  <2>5. QED
    BY <1>10, <2>4, <1>0 DEF LoadRevoked, TypeOK, rows, links, aux
<1>11. ASSUME NEW q \in Requests, SaveRevoked(q)
       PROVE  TypeOK'
  <2>1. work[q].differs \in BOOLEAN
    BY DEF TypeOK, Work
  <2>2. invite' \in [Invites -> InviteRows]
    BY <1>11, SaveRevokedWrites DEF SaveRevoked, WorkOK, RequestOK
  <2>3. pc' \in [Procs -> Steps] /\ work' \in [Procs -> Work]
    BY <1>11, FinishMoves DEF SaveRevoked
  <2>4. QED
    BY <1>11, <2>2, <2>3, <1>0 DEF SaveRevoked, TypeOK, links, aux
<1>12. ASSUME NEW t \in Tabs, NEW i \in Invites, OpenPage(t, i)
       PROVE  TypeOK'
  <2>1. [Idle EXCEPT !.source = i] \in Work
    BY <1>0 DEF Work, Sources
  <2>2. pc' \in [Procs -> Steps] /\ work' \in [Procs -> Work]
    BY <1>12, <2>1 DEF OpenPage, Page, TypeOK, Steps
  <2>3. QED
    BY <1>12, <2>2, <1>0 DEF OpenPage, TypeOK, rows, links, aux
<1>13. ASSUME NEW t \in Tabs, StartAccept(t)
       PROVE  TypeOK'
  <2> DEFINE i == work[t].source
             w == [source |-> i, email |-> invite[i].email, company |-> invite[i].company,
                   role |-> invite[i].role, differs |-> FALSE]
  <2>1. i \in Invites
    BY <1>13 DEF StartAccept, WorkOK, TabOK, Sent
  <2>2. w \in Work /\ "checked" \in Steps
    BY <2>1 DEF TypeOK, Work, InviteRows, Sources, Steps, Accepts
  <2>3. Step(t, pc[t], "checked", w) \/ Finish(t)
    BY <1>13 DEF StartAccept
  <2>4. pc' \in [Procs -> Steps] /\ work' \in [Procs -> Work]
    BY <2>2, <2>3, StepMoves, FinishMoves
  <2>5. contested' \subseteq Invites
    BY <1>13, <2>1 DEF StartAccept, TypeOK
  <2>6. QED
    BY <1>13, <2>4, <2>5, <1>0 DEF StartAccept, TypeOK, rows, links
<1>14. ASSUME NEW t \in Tabs, LoadAccepted(t)
       PROVE  TypeOK'
  <2>1. pc[t] = "created"
    BY <1>14 DEF LoadAccepted, Step
  <2>2. invite[work[t].source].revoked \in BOOLEAN
    BY <2>1 DEF TypeOK, WorkOK, TabOK, Accepts, InviteRows, Sent
  <2>3. [work[t] EXCEPT !.differs = invite[work[t].source].revoked] \in Work
    BY <2>2 DEF TypeOK, Work
  <2>4. pc' \in [Procs -> Steps] /\ work' \in [Procs -> Work]
    <3>1. "loaded" \in Steps
      BY DEF Steps, Accepts
    <3>2. QED
      BY <1>14, <2>3, <3>1, StepMoves DEF LoadAccepted
  <2>5. QED
    BY <1>14, <2>4, <1>0 DEF LoadAccepted, TypeOK, rows, links, aux
<1>15. ASSUME NEW t \in Tabs, SaveAccepted(t)
       PROVE  TypeOK'
  <2>1. work[t] \in Work /\ work[t].differs \in BOOLEAN
    BY DEF TypeOK, Work
  <2>2. invite' \in [Invites -> InviteRows]
    <3>1. work[t].source \in Sent
      BY <1>15 DEF SaveAccepted, Step, WorkOK, TabOK, Accepts
    <3>2. QED
      BY <1>15, <3>1, SaveAcceptedWrites
  <2>3. pc' \in [Procs -> Steps] /\ work' \in [Procs -> Work]
    BY <1>15, <2>1, StepMoves DEF SaveAccepted, Steps, Accepts
  <2>4. QED
    BY <1>15, <2>2, <2>3, <1>0 DEF SaveAccepted, TypeOK, links, aux
<1>16. ASSUME NEW t \in Tabs, SignIn(t)
       PROVE  TypeOK'
  <2>1. pc' \in [Procs -> Steps] /\ work' \in [Procs -> Work]
    BY <1>16, <1>0, StepMoves DEF SignIn, Steps
  <2>2. QED
    BY <1>16, <2>1, <1>0 DEF SignIn, TypeOK, rows, links, aux
<1>17. ASSUME NEW q \in Procs, Fail(q)
       PROVE  TypeOK'
  <2>1. pc' \in [Procs -> Steps] /\ work' \in [Procs -> Work]
    BY <1>17, FinishMoves DEF Fail
  <2>2. pc[q] \in {"created", "loaded"} => work[q].source \in Sources
    BY KindsAreApart DEF WorkOK, RequestOK, TabOK, Accepts, Sent, Sources
  <2>3. cut' \subseteq Sources
    BY <1>17, <2>2 DEF Fail, TypeOK
  <2>4. QED
    BY <1>17, <2>1, <2>3, <1>0 DEF Fail, TypeOK, rows, links
<1>18. ASSUME NEW i \in Invites, Expire(i)
       PROVE  TypeOK'
  BY <1>18, <1>0 DEF Expire, TypeOK, rows, aux
<1>19. CASE UNCHANGED vars
  BY <1>19 DEF vars, TypeOK, Sent
<1>20. QED
  BY <1>1, <1>2, <1>3, <1>4, <1>5, <1>6, <1>7, <1>8, <1>9, <1>10, <1>11, <1>12, <1>13, <1>14, <1>15,
     <1>16, <1>17, <1>18, <1>19
     DEF Next, Staff, Invitee, Registration

----------------------------------------------------------------------------
LEMMA InvitesPreserved == TypeOK /\ InvitesOK /\ WorkOK /\ [Next]_vars => InvitesOK'
<1> SUFFICES ASSUME TypeOK, InvitesOK, WorkOK, [Next]_vars, NEW i \in Invites
             PROVE  \/ invite'[i] = NoInvite
                    \/ /\ invite'[i].company \in Companies
                       /\ invite'[i].email \in Emails
                       /\ invite'[i].role \in Invitable
  BY DEF InvitesOK
<1>1. CASE i \in Sent
  BY <1>1, InviteKept, NullsAreNotIds DEF InvitesOK, SameInvite, NoInvite, Sent
<1>2. CASE i \notin Sent
  <2>1. invite[i] = NoInvite
    BY <1>2, NullsAreNotIds DEF InvitesOK, Sent
  <2>2. ASSUME NEW q \in Requests, NEW j \in Invites, SaveInvite(q, j), i = j
        PROVE  /\ invite'[i].company \in Companies
               /\ invite'[i].email \in Emails
               /\ invite'[i].role \in Invitable
    BY <2>2 DEF SaveInvite, Step, WorkOK, RequestOK, TypeOK
  <2>3. ASSUME NEW q \in Requests, NEW j \in Invites, SaveInvite(q, j), i # j
        PROVE  invite'[i] = invite[i]
    BY <2>3 DEF SaveInvite, TypeOK
  <2>4. ASSUME NEW q \in Requests, SaveRevoked(q)
        PROVE  invite'[i] = invite[i]
    <3>1. work[q].source \in Sent
      BY <2>4 DEF SaveRevoked, WorkOK, RequestOK
    <3>2. QED
      BY <1>2, <2>4, <3>1, SaveRevokedWrites DEF Procs
  <2>5. ASSUME NEW t \in Tabs, SaveAccepted(t)
        PROVE  invite'[i] = invite[i]
    <3>1. work[t].source \in Sent
      BY <2>5 DEF SaveAccepted, Step, WorkOK, TabOK, Accepts
    <3>2. QED
      BY <1>2, <2>5, <3>1, SaveAcceptedWrites DEF Procs
  <2>6. QED
    BY <2>1, <2>2, <2>3, <2>4, <2>5
       DEF Next, Staff, Invitee, Registration, StartCreate, CheckInvites, ShowLink, StartRevoke,
           LoadRevoked, OpenPage, StartAccept, CommitAccount, LoadAccepted, SignIn, StartRegister,
           CommitCompany, InsertUser, Fail, Expire, rows, vars
<1>3. QED
  BY <1>1, <1>2

----------------------------------------------------------------------------
\* A request of the staff goes on with what it remembers.
LEMMA RequestKept ==
    ASSUME TypeOK, InvitesOK, WorkOK, [Next]_vars, NEW q \in Requests
    PROVE  RequestOK(q)'
<1> USE DEF Procs
<1>0. q \in Procs /\ q \notin Tabs /\ RequestOK(q) /\ Sent \subseteq Sent'
  BY KindsAreApart, InviteKept DEF WorkOK
<1>1. CASE Unmoved(q)
  BY <1>0, <1>1 DEF Unmoved, RequestOK
<1>2. CASE Finish(q)
  BY <1>0, <1>2, FinishMoves DEF RequestOK
<1>3. ASSUME NEW c \in Companies, NEW actor \in StaffRoles, NEW e \in Emails,
             NEW role \in Invitable, StartCreate(q, c, actor, e, role)
      PROVE  RequestOK(q)'
  <2>1. pc'[q] = "creating" /\ work'[q] = [Idle EXCEPT !.company = c, !.email = e, !.role = role]
    BY <1>0, <1>3, StepMoves DEF StartCreate
  <2>2. work'[q].company = c /\ work'[q].email = e /\ work'[q].role = role
    BY <2>1 DEF Idle
  <2>3. QED
    BY <2>1, <2>2 DEF RequestOK
<1>4. CASE CheckInvites(q)
  <2>1. Finish(q) \/ Step(q, "creating", "unique", work[q])
    BY <1>4 DEF CheckInvites
  <2>2. QED
    BY <1>0, <1>2, <2>1, StepMoves DEF RequestOK
<1>5. ASSUME NEW i \in Invites, SaveInvite(q, i)
      PROVE  RequestOK(q)'
  <2>1. pc[q] = "unique" /\ pc'[q] = "answering" /\ work'[q] = [work[q] EXCEPT !.source = i]
    BY <1>0, <1>5, StepMoves DEF SaveInvite
  <2>2. work'[q].source = i
    BY <2>1 DEF TypeOK, Work
  <2>3. invite'[i].company \in Companies
    BY <1>0, <1>5, <2>1 DEF SaveInvite, RequestOK, TypeOK
  <2>4. i \in Sent'
    BY <2>3, NullsAreNotIds DEF Sent
  <2>5. QED
    BY <2>1, <2>2, <2>4 DEF RequestOK
<1>6. CASE ShowLink(q)
  BY <1>2, <1>6 DEF ShowLink
<1>7. ASSUME NEW c \in Companies, NEW i \in Invites, StartRevoke(q, c, i)
      PROVE  RequestOK(q)'
  <2>1. pc'[q] = "revoking" /\ work'[q].source = i
    BY <1>0, <1>7, StepMoves DEF StartRevoke, Idle
  <2>2. i \in Sent
    BY <1>7 DEF StartRevoke, Listed
  <2>3. QED
    BY <1>0, <2>1, <2>2 DEF RequestOK
<1>8. CASE LoadRevoked(q)
  <2>1. pc[q] = "revoking" /\ pc'[q] = "revokeLoaded" /\ work'[q].source = work[q].source
    BY <1>0, <1>8, StepMoves DEF LoadRevoked, TypeOK, Work
  <2>2. QED
    BY <1>0, <2>1 DEF RequestOK
<1>9. CASE SaveRevoked(q)
  BY <1>2, <1>9 DEF SaveRevoked
<1>10. ASSUME NEW c \in Companies, NEW e \in Emails, StartRegister(q, c, e)
       PROVE  RequestOK(q)'
  BY <1>0, <1>10, StepMoves DEF StartRegister, RequestOK
<1>11. CASE CommitCompany(q)
  BY <1>2, <1>11 DEF CommitCompany
<1>12. CASE InsertUser(q)
  <2>1. Finish(q) \/ Step(q, "checked", "inserted", work[q])
    BY <1>12 DEF InsertUser
  <2>2. QED
    BY <1>0, <1>2, <2>1, StepMoves DEF RequestOK
<1>13. CASE Fail(q)
  BY <1>2, <1>13 DEF Fail
<1>14. QED
  BY <1>0, <1>1, <1>3, <1>4, <1>5, <1>6, <1>7, <1>8, <1>9, <1>10, <1>11, <1>12, <1>13, OneMoves
     DEF Moves, Staff, Registration

\* What a tab's request has copied from the invite stays true of it.
LEMMA TabKept ==
    ASSUME TypeOK, InvitesOK, WorkOK, [Next]_vars, NEW t \in Tabs
    PROVE  TabOK(t)'
<1> USE DEF Procs
<1> DEFINE i == work[t].source
<1>0. /\ t \in Procs /\ t \notin Requests /\ TabOK(t)
      /\ \A j \in Sent : j \in Sent' /\ SameInvite(j)
  BY KindsAreApart, InviteKept DEF WorkOK
<1>1. ASSUME pc'[t] \in Accepts => pc[t] \in Accepts,
             pc'[t] \in Accepts \cup {"form", "failed"} => pc[t] \in Accepts \cup {"form", "failed"},
             pc'[t] \in Accepts \cup {"blank", "form", "invalid", "failed", "overview"},
             pc'[t] \in Accepts \cup {"form", "failed"} => work'[t].source = i,
             pc'[t] \in Accepts => work'[t].email = work[t].email /\ work'[t].role = work[t].role
      PROVE  TabOK(t)'
  BY <1>0, <1>1 DEF TabOK, SameInvite, Accepts
<1>2. CASE Unmoved(t)
  BY <1>0, <1>1, <1>2 DEF Unmoved, TabOK
<1>3. ASSUME Finish(t), pc[t] \in Accepts \cup {"form", "failed"}
      PROVE  TabOK(t)'
  <2>1. pc'[t] = "failed" /\ work'[t].source = i
    BY <1>0, <1>3, FinishMoves DEF Idle
  <2>2. QED
    BY <1>1, <1>3, <2>1 DEF Accepts
<1>4. ASSUME NEW from, NEW to, from \in Accepts, to \in Accepts \cup {"overview"},
             \/ Step(t, from, to, work[t])
             \/ Step(t, from, "overview", Idle)
             \/ \E b : Step(t, from, to, [work[t] EXCEPT !.differs = b])
      PROVE  TabOK(t)'
  <2>1. work[t] \in Work
    BY <1>0 DEF TypeOK
  <2>2. CASE Step(t, from, to, work[t])
    BY <1>0, <1>1, <1>4, <2>2, StepMoves DEF Accepts
  <2>3. CASE Step(t, from, "overview", Idle)
    BY <1>0, <1>1, <1>4, <2>3, StepMoves DEF Accepts
  <2>4. ASSUME NEW b, Step(t, from, to, [work[t] EXCEPT !.differs = b])
        PROVE  TabOK(t)'
    <3>1. pc[t] = from /\ pc'[t] = to /\ work'[t] = [work[t] EXCEPT !.differs = b]
      BY <1>0, <2>4, StepMoves
    <3>2. /\ work'[t].source = i
          /\ work'[t].email = work[t].email
          /\ work'[t].role = work[t].role
      BY <2>1, <3>1 DEF Work
    <3>3. QED
      BY <1>1, <1>4, <3>1, <3>2 DEF Accepts
  <2>5. QED
    BY <1>4, <2>2, <2>3, <2>4
<1>5. ASSUME NEW j \in Invites, OpenPage(t, j)
      PROVE  TabOK(t)'
  <2>1. /\ j \in Sent
        /\ pc'[t] \in {"form", "invalid"}
        /\ work'[t].source = j
    BY <1>0, <1>5 DEF OpenPage, Page, TypeOK, Idle
  <2>2. QED
    BY <1>0, <2>1 DEF TabOK, Accepts
<1>6. CASE StartAccept(t)
  <2> DEFINE w == [source |-> i, email |-> invite[i].email, company |-> invite[i].company,
                   role |-> invite[i].role, differs |-> FALSE]
  <2>1. pc[t] \in {"form", "failed"} /\ i \in Sent /\ UNCHANGED invite
    BY <1>0, <1>6 DEF StartAccept, TabOK, rows
  <2>2. CASE Step(t, pc[t], "checked", w)
    <3>1. pc'[t] = "checked" /\ work'[t] = w
      BY <1>0, <2>2, StepMoves
    <3>2. QED
      BY <1>0, <2>1, <3>1 DEF TabOK, Accepts
  <2>3. QED
    BY <1>3, <1>6, <2>1, <2>2 DEF StartAccept
<1>7. CASE CommitAccount(t) \/ LoadAccepted(t) \/ SaveAccepted(t) \/ SignIn(t)
  BY <1>4, <1>7 DEF CommitAccount, LoadAccepted, SaveAccepted, SignIn, Accepts
<1>8. CASE InsertUser(t)
  <2>1. pc[t] = "checked" /\ (Finish(t) \/ Step(t, "checked", "inserted", work[t]))
    BY <1>8 DEF InsertUser
  <2>2. QED
    BY <1>3, <1>4, <2>1 DEF Accepts
<1>9. CASE Fail(t)
  BY <1>0, <1>3, <1>9 DEF Fail, TabOK, Accepts
<1>10. QED
  BY <1>0, <1>2, <1>5, <1>6, <1>7, <1>8, <1>9, OneMoves DEF Moves, Invitee

LEMMA WorkPreserved == TypeOK /\ InvitesOK /\ WorkOK /\ [Next]_vars => WorkOK'
  BY RequestKept, TabKept DEF WorkOK

----------------------------------------------------------------------------
\* Two steps write accounts; besides InsertUser they are the only ones that touch an inserted row.
LEMMA AccountSteps ==
    ASSUME TypeOK, [Next]_vars
    PROVE  \/ \E q \in Requests : CommitCompany(q)
           \/ \E t \in Tabs : CommitAccount(t)
           \/ UNCHANGED <<user, couriers>>
  BY DEF Next, Staff, Invitee, Registration, StartCreate, CheckInvites, SaveInvite, ShowLink,
         StartRevoke, LoadRevoked, SaveRevoked, OpenPage, StartAccept, LoadAccepted, SaveAccepted,
         SignIn, StartRegister, InsertUser, Fail, Expire, rows, vars

LEMMA InsertSteps ==
    ASSUME TypeOK, WorkOK, [Next]_vars, NEW p \in Procs, pc'[p] = "inserted"
    PROVE  Unmoved(p) \/ InsertUser(p)
<1> SUFFICES ASSUME ~InsertUser(p), ~Unmoved(p)
             PROVE  FALSE
  OBVIOUS
<1>1. ~Finish(p)
  BY FinishMoves DEF Procs
<1>2. ASSUME NEW from, NEW to, NEW w, Step(p, from, to, w)
      PROVE  to = "inserted"
  BY <1>2, StepMoves
<1>3. ~\E i \in Invites : OpenPage(p, i)
  BY DEF OpenPage, Page, TypeOK
<1>4. QED
  BY <1>1, <1>2, <1>3, OneMoves
     DEF Moves, Staff, Invitee, Registration, StartCreate, CheckInvites, SaveInvite, ShowLink,
         StartRevoke, LoadRevoked, SaveRevoked, StartAccept, CommitAccount, LoadAccepted,
         SaveAccepted, SignIn, StartRegister, CommitCompany, Fail

\* A commit writes one row, that of the source.
LEMMA CommitWrites ==
    ASSUME TypeOK, WorkOK, NEW p \in Procs,
           \/ p \in Requests /\ CommitCompany(p)
           \/ p \in Tabs /\ CommitAccount(p)
    PROVE  /\ pc[p] = "inserted"
           /\ pc'[p] # "inserted"
           /\ work[p].source \in Sources
           /\ user'[work[p].source] = UserRow(work[p])
           /\ \A s \in Sources \ {work[p].source} : user'[s] = user[s]
<1>1. pc[p] = "inserted"
  BY DEF CommitCompany, CommitAccount, Step
<1>2. pc'[p] # "inserted"
  <2>1. CASE p \in Requests /\ CommitCompany(p)
    BY <2>1, FinishMoves DEF CommitCompany
  <2>2. CASE p \in Tabs /\ CommitAccount(p)
    BY <2>2, StepMoves DEF CommitAccount
  <2>3. QED
    BY <2>1, <2>2
<1>3. work[p].source \in Sources
  BY <1>1, KindsAreApart DEF WorkOK, RequestOK, TabOK, Accepts, Sent, Sources, Procs
<1>4. user' = [user EXCEPT ![work[p].source] = UserRow(work[p])]
  BY DEF CommitCompany, CommitAccount
<1>5. QED
  BY <1>1, <1>2, <1>3, <1>4 DEF TypeOK

\* A row is inserted for an address that nobody has or inserts, and the first commit of it is the last.
LEMMA InsertPreserved ==
    TypeOK /\ InvitesOK /\ WorkOK /\ InsertOK /\ OneAccountPerEmail /\ [Next]_vars =>
        InsertOK' /\ OneAccountPerEmail'
<1> SUFFICES ASSUME TypeOK, InvitesOK, WorkOK, InsertOK, OneAccountPerEmail, [Next]_vars
             PROVE  InsertOK' /\ OneAccountPerEmail'
  OBVIOUS
<1>1. ASSUME NEW p \in Procs,
             \/ p \in Requests /\ CommitCompany(p)
             \/ p \in Tabs /\ CommitAccount(p)
      PROVE  InsertOK' /\ OneAccountPerEmail'
  <2> DEFINE e == work[p].email
             s == work[p].source
  <2>1. /\ pc[p] = "inserted" /\ pc'[p] # "inserted" /\ s \in Sources
        /\ user'[s].email = e
        /\ \A u \in Sources \ {s} : user'[u] = user[u]
    <3>1. /\ pc[p] = "inserted" /\ pc'[p] # "inserted" /\ s \in Sources
          /\ user'[s] = UserRow(work[p])
          /\ \A u \in Sources \ {s} : user'[u] = user[u]
      BY <1>1, CommitWrites
    <3>2. UserRow(work[p]).email = e
      BY DEF UserRow
    <3>3. QED
      BY <3>1, <3>2
  <2>2. \A u \in Sources : user[u].email # e
    BY <2>1 DEF InsertOK, Taken
  <2>3. ASSUME NEW q \in Procs, pc'[q] = "inserted"
        PROVE  Unmoved(q) /\ q # p
    <3>1. ~InsertUser(q)
      <4>1. InsertUser(q) => user' = user
        BY DEF InsertUser, rows
      <4>2. QED
        BY <2>1, <2>2, <4>1
    <3>2. QED
      BY <2>1, <2>3, <3>1, InsertSteps
  <2>4. ASSUME NEW q \in Procs, pc'[q] = "inserted"
        PROVE  ~Taken(work[q].email)'
    <3>1. pc[q] = "inserted" /\ work'[q] = work[q] /\ q # p
      BY <2>3, <2>4 DEF Unmoved
    <3>2. work[q].email # e /\ \A u \in Sources : user[u].email # work[q].email
      BY <2>1, <3>1 DEF InsertOK, Taken
    <3>3. QED
      BY <2>1, <3>1, <3>2 DEF Taken
  <2>5. InsertOK'
    BY <2>3, <2>4 DEF InsertOK, Unmoved
  <2>6. OneAccountPerEmail'
    BY <2>1, <2>2 DEF OneAccountPerEmail
  <2>7. QED
    BY <2>5, <2>6
<1>2. ASSUME UNCHANGED user
      PROVE  InsertOK' /\ OneAccountPerEmail'
  <2>1. \A e : Taken(e)' <=> Taken(e)
    BY <1>2 DEF Taken
  <2>2. ASSUME NEW q \in Procs, InsertUser(q)
        PROVE  InsertOK'
    <3>1. CASE Taken(work[q].email)
      <4>1. Finish(q)
        BY <2>2, <3>1 DEF InsertUser
      <4>2. ASSUME NEW p \in Procs, pc'[p] = "inserted"
            PROVE  Unmoved(p)
        BY <4>1, <4>2, FinishMoves DEF Unmoved, Procs
      <4>3. QED
        BY <2>1, <4>2 DEF InsertOK, Unmoved
    <3>2. CASE ~Taken(work[q].email)
      <4>1. ~Inserting(work[q].email) /\ Step(q, "checked", "inserted", work[q])
        BY <2>2, <3>2 DEF InsertUser
      <4>2. /\ work'[q] = work[q]
            /\ \A p \in Procs \ {q} : pc'[p] = pc[p] /\ work'[p] = work[p]
        BY <4>1, StepMoves
      <4>3. \A p \in Procs : pc'[p] = "inserted" => ~Taken(work'[p].email)
        <5>1. ASSUME NEW p \in Procs, pc'[p] = "inserted"
              PROVE  ~Taken(work'[p].email)
          BY <3>2, <4>2, <5>1 DEF InsertOK
        <5>2. QED
          BY <5>1
      <4>4. \A p, r \in Procs :
               pc'[p] = "inserted" /\ pc'[r] = "inserted" /\ work'[p].email = work'[r].email => p = r
        BY <4>1, <4>2 DEF InsertOK, Inserting
      <4>5. QED
        BY <1>2, <4>3, <4>4 DEF InsertOK, Taken
    <3>3. QED
      BY <3>1, <3>2
  <2>3. ASSUME ~\E q \in Procs : InsertUser(q)
        PROVE  InsertOK'
    <3>1. \A p \in Procs : pc'[p] = "inserted" => Unmoved(p)
      BY <2>3, InsertSteps
    <3>2. ASSUME NEW p \in Procs, pc'[p] = "inserted"
          PROVE  ~Taken(work[p].email)'
      <4>1. pc[p] = "inserted" /\ work'[p] = work[p]
        BY <3>1, <3>2 DEF Unmoved
      <4>2. ~Taken(work[p].email)
        BY <4>1 DEF InsertOK
      <4>3. QED
        BY <1>2, <4>1, <4>2 DEF Taken
    <3>3. QED
      BY <3>1, <3>2 DEF InsertOK, Unmoved
  <2>4. OneAccountPerEmail'
    BY <1>2 DEF OneAccountPerEmail
  <2>5. QED
    BY <2>2, <2>3, <2>4
<1>3. QED
  BY <1>1, <1>2, AccountSteps DEF Procs

----------------------------------------------------------------------------
\* An account is that of its invite, with a courier and a vehicle exactly if it is a courier's.
LEMMA AccountsPreserved ==
    TypeOK /\ InvitesOK /\ WorkOK /\ InsertOK /\ AccountsOK /\ CouriersAreComplete /\ [Next]_vars =>
        AccountsOK' /\ CouriersAreComplete'
<1> SUFFICES ASSUME TypeOK, InvitesOK, WorkOK, InsertOK, AccountsOK, CouriersAreComplete, [Next]_vars
             PROVE  AccountsOK' /\ CouriersAreComplete'
  OBVIOUS
<1>1. \A i \in Sent : i \in Sent' /\ SameInvite(i)
  BY InviteKept
<1>2. ASSUME NEW q \in Requests, CommitCompany(q)
      PROVE  AccountsOK' /\ CouriersAreComplete'
  <2>1. /\ pc[q] = "inserted"
        /\ user'[work[q].source] = UserRow(work[q])
        /\ \A s \in Sources \ {work[q].source} : user'[s] = user[s]
    BY <1>2, CommitWrites DEF Procs
  <2>2. work[q].source \in Companies /\ work[q].role = "COMPANY_ADMIN"
    BY <2>1 DEF WorkOK, RequestOK
  <2>3. \A i \in Invites : user'[i] = user[i]
    BY <2>1, <2>2, KindsAreApart DEF Sources
  <2>4. AccountsOK'
    BY <1>1, <2>3 DEF AccountsOK, SameInvite
  <2>5. work[q].source \notin couriers /\ couriers' = couriers
    BY <1>2, <2>2, KindsAreApart DEF TypeOK, CommitCompany
  <2>6. CouriersAreComplete'
    BY <2>1, <2>2, <2>5 DEF CouriersAreComplete, UserRow
  <2>7. QED
    BY <2>4, <2>6
<1>3. ASSUME NEW t \in Tabs, CommitAccount(t)
      PROVE  AccountsOK' /\ CouriersAreComplete'
  <2> DEFINE i == work[t].source
  <2>1. /\ pc[t] = "inserted"
        /\ user'[i] = UserRow(work[t])
        /\ \A s \in Sources \ {i} : user'[s] = user[s]
    BY <1>3, CommitWrites DEF Procs
  <2>2. /\ i \in Sent /\ i \in Sources
        /\ work[t].email = invite[i].email
        /\ work[t].role = invite[i].role
    BY <2>1 DEF WorkOK, TabOK, Accepts, Sent, Sources
  <2>3. AccountsOK'
    BY <1>1, <2>1, <2>2 DEF AccountsOK, SameInvite, UserRow, Sources
  <2>4. user[i] = NoUser
    <3>1. ~Taken(invite[i].email)
      BY <2>1, <2>2 DEF InsertOK, Procs
    <3>2. QED
      BY <2>2, <3>1 DEF AccountsOK, Taken, Sent
  <2>5. i \notin couriers
    BY <2>2, <2>4 DEF CouriersAreComplete, NoUser
  <2>6. couriers' = couriers \cup {s \in {i} : work[t].role = "COURIER"}
    BY <1>3 DEF CommitAccount, CourierRows
  <2>7. CouriersAreComplete'
    BY <2>1, <2>2, <2>5, <2>6 DEF CouriersAreComplete, UserRow
  <2>8. QED
    BY <2>3, <2>7
<1>4. CASE UNCHANGED <<user, couriers>>
  BY <1>1, <1>4 DEF AccountsOK, CouriersAreComplete, SameInvite
<1>5. QED
  BY <1>2, <1>3, <1>4, AccountSteps

----------------------------------------------------------------------------
\* A tab comes to accept by StartAccept, and leaves the acceptance by its end or a fault only.
LEMMA TabSteps ==
    ASSUME TypeOK, WorkOK, [Next]_vars, NEW t \in Tabs
    PROVE  /\ \/ StartAccept(t)
              \/ pc'[t] \in Accepts => pc[t] \in Accepts /\ work'[t].source = work[t].source
           /\ \/ SaveAccepted(t)
              \/ Fail(t)
              \/ pc[t] \in {"created", "loaded"} =>
                    pc'[t] \in {"created", "loaded"} /\ work'[t].source = work[t].source
           /\ \/ CommitAccount(t)
              \/ pc'[t] \in Created => pc[t] \in Created /\ work'[t].source = work[t].source
           /\ \/ LoadAccepted(t)
              \/ pc'[t] = "loaded" => Unmoved(t)
<1> USE DEF Procs
<1>0. t \in Procs /\ t \notin Requests /\ work[t] \in Work
  BY KindsAreApart DEF TypeOK
<1>1. CASE Unmoved(t)
  BY <1>1 DEF Unmoved
<1>2. CASE Finish(t) /\ pc[t] \notin {"created", "loaded"}
  BY <1>0, <1>2, FinishMoves DEF Accepts, Created
<1>3. CASE \E i \in Invites : OpenPage(t, i)
  BY <1>0, <1>3 DEF OpenPage, Page, TypeOK, Accepts, Created
<1>4. CASE StartAccept(t)
  <2>1. pc[t] \in {"form", "failed"} /\ pc'[t] \in {"checked", "failed"}
    BY <1>0, <1>4, StepMoves, FinishMoves DEF StartAccept
  <2>2. QED
    BY <1>4, <2>1 DEF Created
<1>5. CASE CommitAccount(t)
  BY <1>0, <1>5, StepMoves DEF CommitAccount, Accepts
<1>6. CASE LoadAccepted(t)
  <2>1. /\ pc[t] = "created" /\ pc'[t] = "loaded"
        /\ work'[t] = [work[t] EXCEPT !.differs = invite[work[t].source].revoked]
    BY <1>0, <1>6, StepMoves DEF LoadAccepted
  <2>2. work'[t].source = work[t].source
    BY <1>0, <2>1 DEF Work
  <2>3. QED
    BY <1>6, <2>1, <2>2 DEF Accepts, Created
<1>7. CASE SaveAccepted(t)
  BY <1>0, <1>7, StepMoves DEF SaveAccepted, Accepts, Created
<1>8. CASE SignIn(t)
  BY <1>0, <1>8, StepMoves DEF SignIn, Accepts, Created
<1>9. CASE InsertUser(t)
  <2>1. pc[t] = "checked" /\ (Finish(t) \/ Step(t, "checked", "inserted", work[t]))
    BY <1>9 DEF InsertUser
  <2>2. QED
    BY <1>0, <1>2, <2>1, StepMoves DEF Accepts, Created
<1>10. CASE Fail(t)
  <2>1. Finish(t)
    BY <1>10 DEF Fail
  <2>2. QED
    BY <1>0, <1>10, <2>1, FinishMoves DEF Accepts, Created
<1>11. QED
  BY <1>0, <1>1, <1>3, <1>4, <1>5, <1>6, <1>7, <1>8, <1>9, <1>10, OneMoves DEF Moves, Invitee

\* A request comes to revoke by StartRevoke only.
LEMMA RequestSteps ==
    ASSUME TypeOK, WorkOK, [Next]_vars, NEW q \in Requests
    PROVE  \/ \E c \in Companies, i \in Invites : StartRevoke(q, c, i)
           \/ pc'[q] \in {"revoking", "revokeLoaded"} =>
                 pc[q] \in {"revoking", "revokeLoaded"} /\ work'[q].source = work[q].source
<1> USE DEF Procs
<1>0. q \in Procs /\ q \notin Tabs /\ work[q] \in Work
  BY KindsAreApart DEF TypeOK
<1>1. CASE Unmoved(q)
  BY <1>1 DEF Unmoved
<1>2. CASE Finish(q)
  BY <1>0, <1>2, FinishMoves
<1>3. ASSUME NEW from, NEW to, NEW w, Step(q, from, to, w), to \notin {"revoking", "revokeLoaded"}
      PROVE  pc'[q] \notin {"revoking", "revokeLoaded"}
  BY <1>0, <1>3, StepMoves
<1>4. CASE LoadRevoked(q)
  <2>1. /\ pc[q] = "revoking" /\ pc'[q] = "revokeLoaded"
        /\ work'[q] = [work[q] EXCEPT !.differs = invite[work[q].source].accepted]
    BY <1>0, <1>4, StepMoves DEF LoadRevoked
  <2>2. QED
    BY <1>0, <2>1 DEF Work
<1>5. CASE CheckInvites(q) \/ ShowLink(q) \/ SaveRevoked(q)
  BY <1>2, <1>3, <1>5 DEF CheckInvites, ShowLink, SaveRevoked
<1>6. CASE \E c \in Companies, actor \in StaffRoles, e \in Emails, role \in Invitable :
              StartCreate(q, c, actor, e, role)
  BY <1>3, <1>6 DEF StartCreate
<1>7. CASE \E i \in Invites : SaveInvite(q, i)
  BY <1>3, <1>7 DEF SaveInvite
<1>8. CASE Registration(q)
  <2>1. CASE \E c \in Companies, e \in Emails : StartRegister(q, c, e)
    BY <1>3, <2>1 DEF StartRegister
  <2>2. CASE CommitCompany(q)
    BY <1>2, <2>2 DEF CommitCompany
  <2>3. QED
    BY <1>8, <2>1, <2>2 DEF Registration
<1>9. CASE InsertUser(q) \/ Fail(q)
  BY <1>2, <1>3, <1>9 DEF InsertUser, Fail
<1>10. QED
  BY <1>0, <1>1, <1>4, <1>5, <1>6, <1>7, <1>8, <1>9, OneMoves DEF Moves, Staff

\* Of an invite that was sent, only the two saves change the state.
LEMMA StateSteps ==
    ASSUME TypeOK, WorkOK, [Next]_vars, NEW i \in Invites
    PROVE  \/ \E q \in Requests : SaveRevoked(q) /\ work[q].source = i
           \/ \E t \in Tabs : SaveAccepted(t) /\ work[t].source = i
           \/ invite'[i].accepted = invite[i].accepted /\ invite'[i].revoked = invite[i].revoked
           \/ i \notin Sent /\ ~invite'[i].accepted /\ ~invite'[i].revoked
<1>1. ASSUME NEW q \in Requests, NEW j \in Invites, SaveInvite(q, j)
      PROVE  \/ invite'[i] = invite[i]
             \/ i \notin Sent /\ ~invite'[i].accepted /\ ~invite'[i].revoked
  BY <1>1 DEF SaveInvite, TypeOK
<1>2. ASSUME NEW q \in Requests, SaveRevoked(q), work[q].source # i
      PROVE  invite'[i] = invite[i]
  <2>1. work[q].source \in Sent
    BY <1>2 DEF SaveRevoked, WorkOK, RequestOK
  <2>2. QED
    BY <1>2, <2>1, SaveRevokedWrites DEF Procs
<1>3. ASSUME NEW t \in Tabs, SaveAccepted(t), work[t].source # i
      PROVE  invite'[i] = invite[i]
  <2>1. work[t].source \in Sent
    BY <1>3 DEF SaveAccepted, Step, WorkOK, TabOK, Accepts
  <2>2. QED
    BY <1>3, <2>1, SaveAcceptedWrites DEF Procs
<1>4. QED
  BY <1>1, <1>2, <1>3
     DEF Next, Staff, Invitee, Registration, StartCreate, CheckInvites, ShowLink, StartRevoke,
         LoadRevoked, OpenPage, StartAccept, CommitAccount, LoadAccepted, SignIn, StartRegister,
         CommitCompany, InsertUser, Fail, Expire, rows, vars

\* No account goes away, and one that an acceptance has created is there.
LEMMA AccountsStay ==
    ASSUME TypeOK, InvitesOK, WorkOK, [Next]_vars, NEW i \in Invites
    PROVE  /\ user[i] # NoUser => user'[i] # NoUser
           /\ \/ \E t \in Tabs : CommitAccount(t) /\ work[t].source = i /\ user'[i] # NoUser
              \/ user'[i] = user[i]
<1>1. ASSUME NEW q \in Requests, CommitCompany(q)
      PROVE  user'[i] = user[i]
  <2>1. /\ pc[q] = "inserted" /\ work[q].source \in Companies
        /\ \A s \in Sources \ {work[q].source} : user'[s] = user[s]
    BY <1>1, CommitWrites DEF Procs, WorkOK, RequestOK
  <2>2. QED
    BY <2>1, KindsAreApart DEF Sources
<1>2. ASSUME NEW t \in Tabs, CommitAccount(t)
      PROVE  \/ work[t].source = i /\ user'[i] # NoUser
             \/ user'[i] = user[i]
  <2>1. /\ pc[t] = "inserted"
        /\ user'[work[t].source] = UserRow(work[t])
        /\ \A s \in Sources \ {work[t].source} : user'[s] = user[s]
    BY <1>2, CommitWrites DEF Procs
  <2>2. CASE work[t].source = i
    <3>1. work[t].email \in Emails
      BY <2>1, <2>2, NullsAreNotIds DEF WorkOK, TabOK, Accepts, Sent, InvitesOK, NoInvite
    <3>2. QED
      BY <2>1, <2>2, <3>1, NullsAreNotIds DEF UserRow, NoUser
  <2>3. QED
    BY <2>1, <2>2 DEF Sources
<1>3. QED
  BY <1>1, <1>2, AccountSteps

----------------------------------------------------------------------------
LEMMA CreatedPreserved ==
    TypeOK /\ InvitesOK /\ WorkOK /\ CreatedOK /\ AcceptedOK /\ [Next]_vars =>
        CreatedOK' /\ AcceptedOK'
<1> SUFFICES ASSUME TypeOK, InvitesOK, WorkOK, CreatedOK, AcceptedOK, [Next]_vars
             PROVE  CreatedOK' /\ AcceptedOK'
  OBVIOUS
<1>1. ASSUME NEW t \in Tabs, pc'[t] \in Created
      PROVE  user'[work'[t].source] # NoUser
  <2>1. CASE pc[t] \in Created /\ work'[t].source = work[t].source
    <3>1. work[t].source \in Invites /\ user[work[t].source] # NoUser
      BY <2>1 DEF CreatedOK, WorkOK, TabOK, Accepts, Created, Sent
    <3>2. QED
      BY <2>1, <3>1, AccountsStay
  <2>2. CASE CommitAccount(t)
    <3>1. pc[t] = "inserted" /\ work'[t] = work[t]
      BY <2>2, StepMoves DEF CommitAccount, Procs
    <3>2. user'[work[t].source] = UserRow(work[t])
      BY <2>2, CommitWrites DEF Procs
    <3>3. work[t].email \in Emails
      BY <3>1, NullsAreNotIds DEF WorkOK, TabOK, Accepts, Sent, InvitesOK, NoInvite
    <3>4. QED
      BY <3>1, <3>2, <3>3, NullsAreNotIds DEF UserRow, NoUser
  <2>3. QED
    BY <1>1, <2>1, <2>2, TabSteps
<1>2. ASSUME NEW i \in Invites, invite'[i].accepted
      PROVE  user'[i] # NoUser
  <2>1. CASE invite[i].accepted
    BY <2>1, AccountsStay DEF AcceptedOK
  <2>2. ASSUME NEW q \in Requests, SaveRevoked(q), work[q].source = i
        PROVE  invite[i].accepted
    <3>1. work[q].source \in Sent
      BY <2>2 DEF SaveRevoked, WorkOK, RequestOK
    <3>2. QED
      BY <1>2, <2>2, <3>1, SaveRevokedWrites DEF Procs
  <2>3. ASSUME NEW t \in Tabs, SaveAccepted(t), work[t].source = i
        PROVE  user[i] # NoUser
    BY <2>3 DEF SaveAccepted, Step, CreatedOK, Created
  <2>4. QED
    BY <1>2, <2>1, <2>2, <2>3, StateSteps, AccountsStay
<1>3. QED
  BY <1>1, <1>2 DEF CreatedOK, AcceptedOK

\* Nobody starts to accept what is not open, nor to revoke what is accepted.
LEMMA AcceptingSteps ==
    ASSUME TypeOK, WorkOK, [Next]_vars, NEW i \in Invites
    PROVE  /\ \/ Accepting(i)' => Accepting(i)
              \/ \E t \in Tabs : StartAccept(t) /\ work[t].source = i /\ Active(i)
           /\ \/ Revoking(i)' => Revoking(i)
              \/ \E q \in Requests, c \in Companies : StartRevoke(q, c, i)
<1>1. ASSUME NEW t \in Tabs, StartAccept(t), pc'[t] \in Accepts, work'[t].source = i
      PROVE  work[t].source = i /\ Active(i)
  <2>1. ~Finish(t)
    BY <1>1, FinishMoves DEF Accepts, Procs
  <2>2. /\ Active(work[t].source)
        /\ \E w : Step(t, pc[t], "checked", w) /\ w.source = work[t].source
    BY <1>1, <2>1 DEF StartAccept
  <2>3. work'[t].source = work[t].source
    BY <2>2, StepMoves DEF Procs
  <2>4. QED
    BY <1>1, <2>2, <2>3
<1>2. ASSUME NEW q \in Requests, NEW c \in Companies, NEW j \in Invites, StartRevoke(q, c, j)
      PROVE  work'[q].source = j
  BY <1>2, StepMoves DEF StartRevoke, Procs, Idle
<1>3. Accepting(i)' => Accepting(i) \/ \E t \in Tabs : StartAccept(t) /\ work[t].source = i /\ Active(i)
  BY <1>1, TabSteps DEF Accepting
<1>4. Revoking(i)' => Revoking(i) \/ \E q \in Requests, c \in Companies : StartRevoke(q, c, i)
  BY <1>2, RequestSteps DEF Revoking
<1>5. QED
  BY <1>3, <1>4

\* What has been cut off, or contested, is so for ever.
LEMMA MarksStay == [Next]_vars => cut \subseteq cut' /\ contested \subseteq contested'
  BY DEF Next, Staff, Invitee, Registration, StartCreate, CheckInvites, SaveInvite, ShowLink,
         StartRevoke, LoadRevoked, SaveRevoked, OpenPage, StartAccept, CommitAccount, LoadAccepted,
         SaveAccepted, SignIn, StartRegister, CommitCompany, InsertUser, Fail, Expire, aux, vars

\* A tab's steps leave the requests of the staff where they are, and the other way round.
LEMMA SidesApart ==
    ASSUME TypeOK, WorkOK, NEW i \in Invites
    PROVE  /\ (\E t \in Tabs : StartAccept(t) \/ CommitAccount(t)) => (Revoking(i)' <=> Revoking(i))
           /\ (\E q \in Requests, c \in Companies, j \in Invites : StartRevoke(q, c, j)) =>
                 (Accepting(i)' <=> Accepting(i))
<1>1. ASSUME NEW t \in Tabs, StartAccept(t) \/ CommitAccount(t)
      PROVE  Revoking(i)' <=> Revoking(i)
  <2>1. \A q \in Requests : pc'[q] = pc[q] /\ work'[q] = work[q]
    <3>1. t \in Procs /\ t \notin Requests /\ Requests \subseteq Procs
      BY KindsAreApart DEF Procs
    <3>2. CASE Finish(t)
      BY <3>1, <3>2, FinishMoves
    <3>3. CASE \E from, to, w : Step(t, from, to, w)
      BY <3>1, <3>3, StepMoves
    <3>4. QED
      BY <1>1, <3>2, <3>3 DEF StartAccept, CommitAccount
  <2>2. QED
    BY <2>1 DEF Revoking
<1>2. ASSUME NEW q \in Requests, NEW c \in Companies, NEW j \in Invites, StartRevoke(q, c, j)
      PROVE  Accepting(i)' <=> Accepting(i)
  <2>1. \A t \in Tabs : pc'[t] = pc[t] /\ work'[t] = work[t]
    BY <1>2, StepMoves, KindsAreApart DEF StartRevoke, Procs
  <2>2. QED
    BY <2>1 DEF Accepting
<1>3. QED
  BY <1>1, <1>2

LEMMA SettledPreserved == IInv /\ [Next]_vars => SettledOK'
<1> SUFFICES ASSUME TypeOK, InvitesOK, WorkOK, AccountsOK, CreatedOK, SettledOK, [Next]_vars,
                    NEW i \in Invites
             PROVE  /\ Accepting(i)' /\ Revoking(i)' => i \in contested'
                    /\ i \notin contested' =>
                          /\ Accepting(i)' => ~invite'[i].revoked
                          /\ \A t \in Tabs : pc'[t] = "loaded" /\ work'[t].source = i =>
                                                ~work'[t].differs
                    /\ i \notin cut' \cup contested' /\ user'[i] # NoUser =>
                          /\ ~invite'[i].revoked
                          /\ ~Revoking(i)'
                          /\ \/ invite'[i].accepted
                             \/ \E t \in Tabs :
                                   pc'[t] \in {"created", "loaded"} /\ work'[t].source = i
  BY DEF IInv, SettledOK
<1>0. cut \subseteq cut' /\ contested \subseteq contested'
  BY MarksStay
<1>1. ASSUME NEW q \in Requests, NEW c \in Companies, StartRevoke(q, c, i)
      PROVE  ~invite[i].accepted /\ (Accepting(i) => i \in contested')
  BY <1>1 DEF StartRevoke
<1>2. ASSUME NEW q \in Requests, SaveRevoked(q), work[q].source = i
      PROVE  Revoking(i)
  BY <1>2 DEF SaveRevoked, Revoking
<1>3. ASSUME NEW t \in Tabs, SaveAccepted(t), work[t].source = i
      PROVE  /\ invite'[i].accepted
             /\ invite'[i].revoked = (invite[i].revoked /\ ~work[t].differs)
             /\ Accepting(i)
  <2>1. work[t].source \in Sent
    BY <1>3 DEF SaveAccepted, Step, WorkOK, TabOK, Accepts
  <2>2. Accepting(i)
    BY <1>3 DEF SaveAccepted, Step, Accepting, Accepts
  <2>3. QED
    BY <1>3, <2>1, <2>2, SaveAcceptedWrites DEF Procs
<1>4. ASSUME Accepting(i)', Revoking(i)'
      PROVE  i \in contested'
  <2>1. CASE Accepting(i) /\ Revoking(i)
    BY <1>0, <2>1 DEF SettledOK
  <2>2. ASSUME NEW t \in Tabs, StartAccept(t), work[t].source = i, Active(i)
        PROVE  i \in contested'
    <3>1. Revoking(i)
      BY <1>4, <2>2, SidesApart
    <3>2. QED
      BY <2>2, <3>1 DEF StartAccept
  <2>3. ASSUME NEW q \in Requests, NEW c \in Companies, StartRevoke(q, c, i)
        PROVE  i \in contested'
    <3>1. Accepting(i)
      BY <1>4, <2>3, SidesApart
    <3>2. QED
      BY <1>1, <2>3, <3>1
  <2>4. QED
    BY <1>4, <2>1, <2>2, <2>3, AcceptingSteps
<1>5. ASSUME i \notin contested', Accepting(i)'
      PROVE  ~invite'[i].revoked
  <2>1. CASE Accepting(i)
    <3>1. ~invite[i].revoked /\ ~Revoking(i)
      BY <1>0, <1>5, <2>1 DEF SettledOK
    <3>2. QED
      BY <1>2, <1>3, <3>1, StateSteps
  <2>2. ASSUME NEW t \in Tabs, StartAccept(t), work[t].source = i, Active(i)
        PROVE  ~invite'[i].revoked
    BY <2>2 DEF StartAccept, Active, Open, rows
  <2>3. QED
    BY <1>5, <2>1, <2>2, AcceptingSteps
<1>6. ASSUME i \notin contested', NEW t \in Tabs, pc'[t] = "loaded", work'[t].source = i
      PROVE  ~work'[t].differs
  <2>1. CASE Unmoved(t)
    BY <1>0, <1>6, <2>1 DEF Unmoved, SettledOK
  <2>2. CASE LoadAccepted(t)
    <3>1. /\ pc[t] = "created"
          /\ work'[t] = [work[t] EXCEPT !.differs = invite[work[t].source].revoked]
      BY <2>2, StepMoves DEF LoadAccepted, Procs
    <3>2. work'[t].source = work[t].source /\ work'[t].differs = invite[work[t].source].revoked
      BY <3>1 DEF TypeOK, Work, Procs
    <3>3. Accepting(i)
      BY <1>6, <3>1, <3>2 DEF Accepting, Accepts
    <3>4. QED
      BY <1>0, <1>6, <3>2, <3>3 DEF SettledOK
  <2>3. QED
    BY <1>6, <2>1, <2>2, TabSteps
<1>7. ASSUME i \notin cut' \cup contested', user'[i] # NoUser
      PROVE  /\ ~invite'[i].revoked
             /\ ~Revoking(i)'
             /\ \/ invite'[i].accepted
                \/ \E t \in Tabs : pc'[t] \in {"created", "loaded"} /\ work'[t].source = i
  <2>0. i \notin cut \cup contested
    BY <1>0, <1>7
  <2>1. CASE user[i] # NoUser
    <3>1. /\ ~invite[i].revoked
          /\ ~Revoking(i)
          /\ i \in Sent
          /\ \/ invite[i].accepted
             \/ \E t \in Tabs : pc[t] \in {"created", "loaded"} /\ work[t].source = i
      BY <2>0, <2>1 DEF SettledOK, AccountsOK
    <3>2. ~Revoking(i)'
      <4>1. invite[i].accepted \/ Accepting(i)
        BY <3>1 DEF Accepting, Accepts
      <4>2. QED
        BY <1>1, <1>7, <3>1, <4>1, AcceptingSteps
    <3>3. ~invite'[i].revoked
      BY <1>2, <1>3, <3>1, StateSteps
    <3>4. invite[i].accepted => invite'[i].accepted
      BY <1>2, <1>3, <3>1, StateSteps
    <3>5. ASSUME NEW t \in Tabs, pc[t] \in {"created", "loaded"}, work[t].source = i
          PROVE  \/ invite'[i].accepted
                 \/ pc'[t] \in {"created", "loaded"} /\ work'[t].source = i
      <4>1. CASE Fail(t)
        BY <1>7, <3>5, <4>1 DEF Fail
      <4>2. CASE SaveAccepted(t)
        BY <1>3, <3>5, <4>2
      <4>3. QED
        BY <3>5, <4>1, <4>2, TabSteps
    <3>6. QED
      BY <3>1, <3>2, <3>3, <3>4, <3>5
  <2>2. ASSUME NEW t \in Tabs, CommitAccount(t), work[t].source = i
        PROVE  /\ ~invite'[i].revoked
               /\ ~Revoking(i)'
               /\ pc'[t] \in {"created", "loaded"} /\ work'[t].source = i
    <3>1. pc[t] = "inserted" /\ pc'[t] = "created" /\ work'[t] = work[t]
      BY <2>2, StepMoves DEF CommitAccount, Procs
    <3>2. Accepting(i)
      BY <2>2, <3>1 DEF Accepting, Accepts
    <3>3. ~invite[i].revoked /\ ~Revoking(i)
      BY <2>0, <3>2 DEF SettledOK
    <3>4. invite' = invite /\ ~Revoking(i)'
      BY <2>2, <3>3, SidesApart DEF CommitAccount
    <3>5. QED
      BY <2>2, <3>1, <3>3, <3>4
  <2>3. QED
    BY <1>7, <2>1, <2>2, AccountsStay
<1>8. QED
  BY <1>4, <1>5, <1>6, <1>7

----------------------------------------------------------------------------
LEMMA InitialState == Init => IInv
<1> SUFFICES ASSUME Init PROVE IInv
  OBVIOUS
<1> USE DEF Init, Procs
<1>1. Sent = {}
  BY DEF Sent, NoInvite
<1>2. NoInvite \in InviteRows /\ NoUser \in UserRows /\ Idle \in Work
  BY DEF NoInvite, InviteRows, NoUser, UserRows, Idle, Work, Roles
<1>3. TypeOK
  BY <1>1, <1>2 DEF TypeOK, Steps
<1>4. InvitesOK
  BY DEF InvitesOK
<1>5. WorkOK
  BY KindsAreApart DEF WorkOK, RequestOK, TabOK, Accepts
<1>6. \A p \in Procs : pc[p] \in {"idle", "blank"}
  OBVIOUS
<1>7. InsertOK /\ CreatedOK
  BY <1>6 DEF InsertOK, CreatedOK, Created
<1>8. OneAccountPerEmail /\ AccountsOK /\ CouriersAreComplete
  BY DEF OneAccountPerEmail, AccountsOK, CouriersAreComplete, NoUser, Sources
<1>9. AcceptedOK
  BY DEF AcceptedOK, NoInvite
<1>10. SettledOK
  BY <1>6 DEF SettledOK, Accepting, Accepts, Revoking, Sources
<1>11. QED
  BY <1>3, <1>4, <1>5, <1>7, <1>8, <1>9, <1>10 DEF IInv

LEMMA Inductive == IInv /\ [Next]_vars => IInv'
  BY TypePreserved, InvitesPreserved, WorkPreserved, InsertPreserved, AccountsPreserved,
     CreatedPreserved, SettledPreserved DEF IInv

THEOREM InvitesInvariant == Spec => []IInv
<1>1. Init => IInv
  BY InitialState
<1>2. IInv /\ [Next]_vars => IInv'
  BY Inductive
<1>3. QED
  BY <1>1, <1>2, PTL DEF Spec

\* The type of every row, page and local variable.
THEOREM TypeCorrect == Spec => []TypeOK
  BY InvitesInvariant, PTL DEF IInv

\* auth.service.ts:40, invites.service.ts:57,196: a UNIQUE column and the wait for it leave every
\* address one account, however many pages and requests try at once.
THEOREM OneAccount == Spec => []OneAccountPerEmail
  BY InvitesInvariant, PTL DEF IInv

\* couriers.service.ts:29-31: an account of a courier comes with its courier and vehicle, or not at all.
THEOREM CouriersComplete == Spec => []CouriersAreComplete
  BY InvitesInvariant, PTL DEF IInv

\* Both together, as the run checks them.
THEOREM AccountsSound == Spec => []AccountsAreSound
<1>1. OneAccountPerEmail /\ CouriersAreComplete => AccountsAreSound
  BY DEF AccountsAreSound
<1>2. QED
  BY <1>1, OneAccount, CouriersComplete, PTL

\* invites.service.ts:187-217: an acceptance that is neither cut off nor races with a revocation ends
\* with its account there and its invite accepted.
THEOREM InvitesSettle == Spec => []AccountSettlesInvite
<1>1. IInv => AccountSettlesInvite
  <2> SUFFICES ASSUME IInv, NEW i \in Invites
               PROVE  /\ invite[i].accepted => user[i] # NoUser
                      /\ i \notin cut \cup contested /\ user[i] # NoUser /\ ~Accepting(i) =>
                            InviteState(i) = "ACCEPTED"
    BY DEF AccountSettlesInvite
  <2>1. invite[i].accepted => user[i] # NoUser
    BY DEF IInv, AcceptedOK
  <2>2. ASSUME i \notin cut \cup contested, user[i] # NoUser, ~Accepting(i)
        PROVE  InviteState(i) = "ACCEPTED"
    <3>1. ~invite[i].revoked /\ invite[i].accepted
      BY <2>2 DEF IInv, SettledOK, Accepting, Accepts
    <3>2. QED
      BY <3>1 DEF InviteState
  <2>3. QED
    BY <2>1, <2>2
<1>2. QED
  BY <1>1, InvitesInvariant, PTL

\* invites.service.ts:158-170: whatever pages and requests still remember, an invite that is revoked
\* and that nobody is accepting stays so, and makes no account any more.
THEOREM RevocationIsFinal == Spec => RevokedIsFinal
<1>1. ASSUME IInv, [Next]_vars, NEW i \in Invites, invite[i].revoked, ~Accepting(i)
      PROVE  invite'[i].revoked /\ ~Accepting(i)' /\ user'[i] = user[i]
  <2> USE DEF IInv
  <2>1. ~Accepting(i)'
    BY <1>1, AcceptingSteps DEF Active, Open
  <2>2. ASSUME NEW t \in Tabs, SaveAccepted(t) \/ CommitAccount(t)
        PROVE  work[t].source # i
    BY <1>1, <2>2 DEF SaveAccepted, CommitAccount, Step, Accepting, Accepts
  <2>3. ASSUME NEW q \in Requests, SaveRevoked(q), work[q].source = i
        PROVE  invite'[i].revoked
    <3>1. work[q].source \in Sent
      BY <1>1, <2>3 DEF SaveRevoked, WorkOK, RequestOK
    <3>2. QED
      BY <1>1, <2>3, <3>1, SaveRevokedWrites DEF Procs
  <2>4. i \in Sent
    BY <1>1, NullsAreNotIds DEF InvitesOK, Sent, NoInvite
  <2>5. invite'[i].revoked
    BY <1>1, <2>2, <2>3, <2>4, StateSteps
  <2>6. user'[i] = user[i]
    BY <1>1, <2>2, AccountsStay
  <2>7. QED
    BY <2>1, <2>5, <2>6
<1>2. IInv /\ [Next]_vars =>
         [\A i \in Invites : invite[i].revoked /\ ~Accepting(i) =>
             invite'[i].revoked /\ ~Accepting(i)' /\ user'[i] = user[i]]_vars
  BY <1>1
<1>3. QED
  BY <1>2, InvitesInvariant, PTL DEF Spec, RevokedIsFinal

=============================================================================
