------------------------------ MODULE Invites ------------------------------
(***************************************************************************)
(* How accounts come to exist: AuthService.registerCompany for a company's *)
(* first admin, and InvitesService (modules/invites) for everybody else,   *)
(* with the dashboard's pages on both sides of an invite.                  *)
(*                                                                         *)
(* create and revoke run in the tenant transaction of an authenticated     *)
(* request and show when it commits. accept is public: it reads the invite *)
(* by itself, writes the account in a transaction of its own, and then     *)
(* saves the invite it read at first. `save(entity)` loads the row again   *)
(* and writes the columns in which the entity differs from what it loaded. *)
(* An invite and its token are one model value; so are a company and the   *)
(* registration that made it.                                              *)
(***************************************************************************)

CONSTANTS
    Emails,
    Companies,  \* the companies that can be registered: a bound, as is the next
    Invites,    \* the invites that can be sent
    Requests,   \* slots of requests of the dashboard's staff, and of registrations
    Tabs,       \* browser tabs with the accept-invite page
    NoEmail, NoCompany, NoSource

Sources == Invites \cup Companies
Procs   == Requests \cup Tabs

ASSUME NullsAreNotIds ==
    /\ NoEmail \notin Emails /\ NoCompany \notin Companies /\ NoSource \notin Sources
ASSUME KindsAreApart == Invites \cap Companies = {} /\ Requests \cap Tabs = {}

VARIABLES
    invite,     \* [Invites -> row of invites]
    expired,    \* the invites whose expiresAt has passed
    user,       \* [Sources -> row of users]: the one an invite or a registration has made
    couriers,   \* the invites that have made rows of couriers and vehicles
    shown,      \* the invites whose link was shown to the staff
    pc,         \* how far each request, or each tab and its request, has come
    work,       \* the local variables of each handler, or what its page is about
    cut,        \* auxiliary: the invites with an acceptance that stopped on the way
    contested   \* auxiliary: the invites that were being accepted and revoked at once

rows  == <<invite, user, couriers>>
links == <<expired, shown>>
aux   == <<cut, contested>>
vars  == <<invite, expired, user, couriers, shown, pc, work, cut, contested>>

Roles      == {"COMPANY_ADMIN", "DISPATCHER", "COURIER", "none"}
StaffRoles == {"COMPANY_ADMIN", "DISPATCHER"}
Invitable  == {"DISPATCHER", "COURIER"}

NoInvite == [company |-> NoCompany, email |-> NoEmail, role |-> "none",
             accepted |-> FALSE, revoked |-> FALSE]
NoUser   == [email |-> NoEmail, company |-> NoCompany, role |-> "none"]
Idle     == [source |-> NoSource, email |-> NoEmail, company |-> NoCompany, role |-> "none",
             differs |-> FALSE]

Sent         == {i \in Invites : invite[i].company # NoCompany}
Taken(e)     == \E s \in Sources : user[s].email = e
Open(i)      == ~invite[i].accepted /\ ~invite[i].revoked
Active(i)    == Open(i) /\ i \notin expired
Inserting(e) == \E q \in Procs : pc[q] = "inserted" /\ work[q].email = e

Accepts      == {"checked", "inserted", "created", "loaded", "signingIn"}
Accepting(i) == \E t \in Tabs : pc[t] \in Accepts /\ work[t].source = i
Revoking(i)  == \E q \in Requests : pc[q] \in {"revoking", "revokeLoaded"} /\ work[q].source = i

Members(c) == {s \in Sources : user[s].company = c}
Listed(c)  == {i \in Sent : invite[i].company = c}
StaffOf(c) == {user[s].role : s \in Members(c)} \cap StaffRoles

Init ==
    /\ invite = [i \in Invites |-> NoInvite]
    /\ expired = {}
    /\ user = [s \in Sources |-> NoUser]
    /\ couriers = {}
    /\ shown = {}
    /\ pc = [q \in Procs |-> IF q \in Tabs THEN "blank" ELSE "idle"]
    /\ work = [q \in Procs |-> Idle]
    /\ cut = {}
    /\ contested = {}

Step(q, from, to, w) ==
    /\ pc[q] = from
    /\ pc' = [pc EXCEPT ![q] = to]
    /\ work' = [work EXCEPT ![q] = w]

\* A request ends; a tab whose request was refused has its form again, with an error.
Finish(q) ==
    /\ pc' = [pc EXCEPT ![q] = IF q \in Tabs THEN "failed" ELSE "idle"]
    /\ work' = [work EXCEPT ![q] = IF q \in Tabs THEN [Idle EXCEPT !.source = work[q].source]
                                   ELSE Idle]

----------------------------------------------------------------------------
(* Accounts: registerCompany(), createDispatcher() and onboard() *)

\* registerCompany(): nobody has the e-mail address.
StartRegister(q, c, e) ==
    /\ user[c] = NoUser
    /\ \A p \in Procs : work[p].source # c
    /\ ~Taken(e)
    /\ Step(q, "idle", "checked",
            [source |-> c, email |-> e, company |-> c, role |-> "COMPANY_ADMIN", differs |-> FALSE])
    /\ UNCHANGED <<rows, links, aux>>

\* A slip: the column lacks its UNIQUE, and only what has been committed is looked at.
InsertAnyUser(q) ==
    /\ pc[q] = "checked"
    /\ IF Taken(work[q].email) THEN Finish(q) ELSE Step(q, "checked", "inserted", work[q])
    /\ UNCHANGED <<rows, links, aux>>

\* The row of users, in the transaction, unless the address has been taken since. It waits for
\* another transaction that has inserted the same address, as a UNIQUE column makes it.
InsertUser(q) ==
    /\ pc[q] = "checked"
    /\ IF Taken(work[q].email) THEN Finish(q)
       ELSE ~Inserting(work[q].email) /\ Step(q, "checked", "inserted", work[q])
    /\ UNCHANGED <<rows, links, aux>>

\* A slip: two arguments swapped.
UserRowSwapped(w) == [email |-> w.company, company |-> w.email, role |-> w.role]

UserRow(w)     == [email |-> w.email, company |-> w.company, role |-> w.role]
CourierRows(w) == {s \in {w.source} : w.role = "COURIER"}

\* The company and its admin show together.
CommitCompany(q) ==
    /\ pc[q] = "inserted"
    /\ user' = [user EXCEPT ![work[q].source] = UserRow(work[q])]
    /\ Finish(q)
    /\ UNCHANGED <<invite, couriers, links, aux>>

\* accept(): the rows of couriers and vehicles follow, and one commit shows them all.
CommitAccount(t) ==
    /\ Step(t, "inserted", "created", work[t])
    /\ user' = [user EXCEPT ![work[t].source] = UserRow(work[t])]
    /\ couriers' = couriers \cup CourierRows(work[t])
    /\ UNCHANGED <<invite, links, aux>>

----------------------------------------------------------------------------
(* The staff: create() and revoke() *)

\* create(): the actor may invite that role, and nobody has the e-mail address.
StartCreate(q, c, actor, e, role) ==
    /\ actor \in StaffOf(c)
    /\ role = "DISPATCHER" => actor = "COMPANY_ADMIN"
    /\ ~Taken(e)
    /\ Step(q, "idle", "creating", [Idle EXCEPT !.company = c, !.email = e, !.role = role])
    /\ UNCHANGED <<rows, links, aux>>

\* findOne() returns one of the open invites for the address, whichever comes first; only if that
\* one has not expired is the new one refused.
CheckInvites(q) ==
    LET open == {i \in Sent : /\ Open(i)
                              /\ invite[i].email = work[q].email
                              /\ invite[i].company = work[q].company}
    IN /\ pc[q] = "creating"
       /\ \/ open = {} /\ Step(q, "creating", "unique", work[q])
          \/ \E i \in open : IF i \in expired THEN Step(q, "creating", "unique", work[q])
                             ELSE Finish(q)
       /\ UNCHANGED <<rows, links, aux>>

\* The invite and its audit row are committed.
SaveInvite(q, i) ==
    /\ i \notin Sent
    /\ Step(q, "unique", "answering", [work[q] EXCEPT !.source = i])
    /\ invite' = [invite EXCEPT ![i] = [company |-> work[q].company, email |-> work[q].email,
                                        role |-> work[q].role, accepted |-> FALSE, revoked |-> FALSE]]
    /\ UNCHANGED <<user, couriers, links, aux>>

\* The form shows the link, this once.
ShowLink(q) ==
    /\ pc[q] = "answering"
    /\ shown' = shown \cup {work[q].source}
    /\ Finish(q)
    /\ UNCHANGED <<rows, expired, aux>>

\* A slip: revoke() does not look at acceptedAt.
StartRevokeAny(q, c, i) ==
    /\ StaffOf(c) # {}
    /\ i \in Listed(c)
    /\ Step(q, "idle", "revoking", [Idle EXCEPT !.source = i])
    /\ contested' = contested \cup {j \in {i} : Accepting(j)}
    /\ UNCHANGED <<rows, links, cut>>

\* revoke() of an invite that was listed as pending some time ago, and is read as not accepted.
StartRevoke(q, c, i) ==
    /\ StaffOf(c) # {}
    /\ i \in Listed(c)
    /\ ~invite[i].accepted
    /\ Step(q, "idle", "revoking", [Idle EXCEPT !.source = i])
    /\ contested' = contested \cup {j \in {i} : Accepting(j)}
    /\ UNCHANGED <<rows, links, cut>>

\* save() loads the row: acceptedAt differs if the invite has been accepted since it was read.
LoadRevoked(q) ==
    /\ Step(q, "revoking", "revokeLoaded",
            [work[q] EXCEPT !.differs = invite[work[q].source].accepted])
    /\ UNCHANGED <<rows, links, aux>>

SaveRevoked(q) ==
    LET i == work[q].source IN
    /\ pc[q] = "revokeLoaded"
    /\ invite' = [invite EXCEPT ![i].revoked = TRUE,
                                ![i].accepted = @ /\ ~work[q].differs]
    /\ Finish(q)
    /\ UNCHANGED <<user, couriers, links, aux>>

----------------------------------------------------------------------------
(* The invitee: the accept-invite page, preview() and accept() *)

Page(i) == IF Active(i) THEN "form" ELSE "invalid"

\* The link is opened, or the page is loaded again.
OpenPage(t, i) ==
    /\ i \in shown
    /\ pc[t] \in {"blank", "form", "failed", "invalid", "overview"}
    /\ pc' = [pc EXCEPT ![t] = Page(i)]
    /\ work' = [work EXCEPT ![t] = [Idle EXCEPT !.source = i]]
    /\ UNCHANGED <<rows, links, aux>>

\* A slip: the page's preview is trusted, and the invite not looked at again.
AcceptPreviewed(t) ==
    LET i == work[t].source
        w == [source |-> i, email |-> invite[i].email, company |-> invite[i].company,
              role |-> invite[i].role, differs |-> FALSE]
    IN /\ pc[t] \in {"form", "failed"}
       /\ Step(t, pc[t], "checked", w)
       /\ contested' = contested \cup {j \in {i} : Revoking(j)}
       /\ UNCHANGED <<rows, links, cut>>

\* The form is submitted, which its button allows once at a time: accept() reads the invite.
StartAccept(t) ==
    LET i == work[t].source
        w == [source |-> i, email |-> invite[i].email, company |-> invite[i].company,
              role |-> invite[i].role, differs |-> FALSE]
    IN /\ pc[t] \in {"form", "failed"}
       /\ IF Active(i) THEN Step(t, pc[t], "checked", w) ELSE Finish(t)
       /\ contested' = contested \cup {j \in {i} : Active(j) /\ Revoking(j)}
       /\ UNCHANGED <<rows, links, cut>>

\* save(invite) loads the row: revokedAt differs if the invite has been revoked since it was read.
LoadAccepted(t) ==
    /\ Step(t, "created", "loaded", [work[t] EXCEPT !.differs = invite[work[t].source].revoked])
    /\ UNCHANGED <<rows, links, aux>>

SaveAccepted(t) ==
    LET i == work[t].source IN
    /\ Step(t, "loaded", "signingIn", work[t])
    /\ invite' = [invite EXCEPT ![i].accepted = TRUE,
                                ![i].revoked = @ /\ ~work[t].differs]
    /\ UNCHANGED <<user, couriers, links, aux>>

\* The new user is logged in, and the browser goes to the overview with both cookies.
SignIn(t) ==
    /\ Step(t, "signingIn", "overview", Idle)
    /\ UNCHANGED <<rows, links, aux>>

----------------------------------------------------------------------------
\* A statement fails, the backend restarts, or the answer is lost: what was not committed is gone.
Fail(q) ==
    /\ pc[q] \in Accepts \cup {"creating", "unique", "answering", "revoking", "revokeLoaded"}
    /\ Finish(q)
    /\ cut' = cut \cup {s \in {work[q].source} : pc[q] \in {"created", "loaded"}}
    /\ UNCHANGED <<rows, links, contested>>

Expire(i) ==
    /\ i \in Sent \ expired
    /\ expired' = expired \cup {i}
    /\ UNCHANGED <<rows, shown, pc, work, aux>>

Staff(q) ==
    \/ \E c \in Companies, actor \in StaffRoles, e \in Emails, role \in Invitable :
          StartCreate(q, c, actor, e, role)
    \/ CheckInvites(q)
    \/ \E i \in Invites : SaveInvite(q, i)
    \/ ShowLink(q)
    \/ \E c \in Companies, i \in Invites : StartRevoke(q, c, i)
    \/ LoadRevoked(q)
    \/ SaveRevoked(q)

Invitee(t) ==
    \/ \E i \in Invites : OpenPage(t, i)
    \/ StartAccept(t)
    \/ CommitAccount(t)
    \/ LoadAccepted(t)
    \/ SaveAccepted(t)
    \/ SignIn(t)

Registration(q) ==
    \/ \E c \in Companies, e \in Emails : StartRegister(q, c, e)
    \/ CommitCompany(q)

Next ==
    \/ \E q \in Requests : Staff(q) \/ Registration(q)
    \/ \E t \in Tabs : Invitee(t)
    \/ \E q \in Procs : InsertUser(q) \/ Fail(q)
    \/ \E i \in Invites : Expire(i)

Spec == Init /\ [][Next]_vars

----------------------------------------------------------------------------
(* Properties *)

InviteRows == [company : Companies \cup {NoCompany}, email : Emails \cup {NoEmail},
               role : Roles, accepted : BOOLEAN, revoked : BOOLEAN]
UserRows   == [email : Emails \cup {NoEmail}, company : Companies \cup {NoCompany}, role : Roles]
Work       == [source : Sources \cup {NoSource}, email : Emails \cup {NoEmail},
               company : Companies \cup {NoCompany}, role : Roles, differs : BOOLEAN]
Steps      == Accepts \cup {"idle", "creating", "unique", "answering", "revoking", "revokeLoaded",
                            "blank", "form", "invalid", "failed", "overview"}

\* The type of every row, page and local variable.
TypeOK ==
    /\ invite \in [Invites -> InviteRows]
    /\ expired \subseteq Sent
    /\ user \in [Sources -> UserRows]
    /\ couriers \subseteq Invites
    /\ shown \subseteq Sent
    /\ pc \in [Procs -> Steps]
    /\ work \in [Procs -> Work]
    /\ cut \subseteq Sources
    /\ contested \subseteq Invites

\* However registrations and acceptances race, an e-mail address has one account: login looks
\* accounts up by it.
OneAccountPerEmail ==
    \A s, u \in Sources : user[s].email # NoEmail /\ user[s].email = user[u].email => s = u

\* couriers.service.ts:29-31: no account of a courier is ever without its courier and vehicle,
\* wherever an acceptance stops.
CouriersAreComplete == \A s \in Sources : user[s].role = "COURIER" <=> s \in couriers

\* What login and the couriers' pages rely on, however registrations and acceptances race and
\* wherever they stop: one account for an address, and no courier's account without its rows.
AccountsAreSound == OneAccountPerEmail /\ CouriersAreComplete

\* "Revoked, and nobody is accepting it" is for ever, however many pages and requests remember the
\* invite as valid: it stays revoked, no acceptance starts, and no account appears.
RevokedIsFinal ==
    [][\A i \in Invites : invite[i].revoked /\ ~Accepting(i) =>
          invite'[i].revoked /\ ~Accepting(i)' /\ user'[i] = user[i]]_vars

\* How the staff's page lists an invite.
InviteState(i) ==
    IF invite[i].revoked THEN "REVOKED"
    ELSE IF invite[i].accepted THEN "ACCEPTED"
    ELSE IF i \in expired THEN "EXPIRED" ELSE "PENDING"

\* An invite is only listed as accepted when its account is there; and one whose account is there
\* is listed as accepted, once its acceptance is over, unless that was cut off or somebody was
\* revoking the invite meanwhile.
AccountSettlesInvite ==
    /\ \A i \in Invites : invite[i].accepted => user[i] # NoUser
    /\ \A i \in Invites \ (cut \cup contested) :
          user[i] # NoUser /\ ~Accepting(i) => InviteState(i) = "ACCEPTED"

=============================================================================
