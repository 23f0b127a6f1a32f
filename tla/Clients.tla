------------------------------ MODULE Clients ------------------------------
(***************************************************************************)
(* How the clients keep a session: the dashboard's middleware, login and   *)
(* logout with the two cookies of a browser (apps/dashboard), and the      *)
(* courier's app with the two keys of its secure store (apps/mobile).      *)
(*                                                                         *)
(* A pair of tokens goes by one model value: access[k] and refresh[k] say  *)
(* from which pair a client has each half. Several requests of a client    *)
(* may be on their way at once. The backend's refresh reads the token, and *)
(* later issues the next pair and revokes the old one; a token found       *)
(* revoked ends its whole family (see AuthSessions). A reset of the        *)
(* password runs beside the tasks of the client, from it or from elsewhere.*)
(***************************************************************************)

CONSTANTS
    Clients,
    Pairs,      \* the pairs of tokens that can be issued: a bound, none is issued twice
    Tasks,      \* slots of requests that a client has on their way
    Faulty,     \* whether requests can fail, on the network or in the backend, and apps be killed
    NoPair, NoClient

ASSUME NullsAreNotIds == NoPair \notin Pairs /\ NoClient \notin Clients
ASSUME FaultyIsBoolean == Faulty \in BOOLEAN

VARIABLES
    kind,       \* [Clients -> "browser" or "app"]
    access,     \* [Clients -> pair]: the cookie cp_access, the key courier.accessToken
    refresh,    \* [Clients -> pair]: the cookie cp_refresh, the key courier.refreshToken
    screen,     \* [Clients -> what the client shows]
    fresh,      \* the pairs whose access token has not expired
    row,        \* [Pairs -> [family, user]]: rows of refresh_tokens, each client a user
    revoked,    \* the pairs whose refresh token the backend has revoked
    lapsed,     \* the pairs whose refresh token has expired
    pc,         \* how far each task has come
    work,       \* the local variables of each task
    session,    \* auxiliary: [Clients -> "out", "in" or "lapsed"]: what its user would expect
    left,       \* auxiliary: the families whose users have logged out of them
    disturbed   \* auxiliary: the clients whose tasks overlapped, were cut off or met an error

stored == <<access, refresh>>
server == <<row, revoked>>
clock  == <<fresh, lapsed>>
aux    == <<session, left, disturbed>>
vars   == <<kind, access, refresh, screen, fresh, row, revoked, lapsed, pc, work, session,
            left, disturbed>>

Idle   == [client |-> NoClient, for |-> "none", access |-> NoPair, refresh |-> NoPair, next |-> NoPair]
NoRow  == [family |-> NoPair, user |-> NoClient]
Issued     == {p \in Pairs : row[p] # NoRow}
Family(p)  == {s \in Issued : row[s].family = row[p].family}
Busy(k)    == \E r \in Tasks : work[r].client = k
IsApp(k)   == kind[k] = "app"

Init ==
    /\ kind \in [Clients -> {"browser", "app"}]
    /\ access = [k \in Clients |-> NoPair]
    /\ refresh = [k \in Clients |-> NoPair]
    /\ screen = [k \in Clients |-> IF IsApp(k) THEN "loading" ELSE "login"]
    /\ fresh = {}
    /\ row = [p \in Pairs |-> NoRow]
    /\ revoked = {}
    /\ lapsed = {}
    /\ pc = [r \in Tasks |-> "idle"]
    /\ work = [r \in Tasks |-> Idle]
    /\ session = [k \in Clients |-> "out"]
    /\ left = {}
    /\ disturbed = {}

\* A task of the client starts, with the tokens it has now; one that finds another on its way
\* disturbs the client.
Start(r, k, for, step) ==
    /\ pc[r] = "idle"
    /\ pc' = [pc EXCEPT ![r] = step]
    /\ work' = [work EXCEPT ![r] = [client |-> k, for |-> for, access |-> access[k],
                                    refresh |-> refresh[k], next |-> NoPair]]
    /\ disturbed' = disturbed \cup {c \in {k} : Busy(c)}

Continue(r, from, to, w) ==
    /\ pc[r] = from
    /\ pc' = [pc EXCEPT ![r] = to]
    /\ work' = [work EXCEPT ![r] = w]

Finish(r) ==
    /\ pc' = [pc EXCEPT ![r] = "idle"]
    /\ work' = [work EXCEPT ![r] = Idle]

Show(r, s) == screen' = [screen EXCEPT ![work[r].client] = s]

----------------------------------------------------------------------------
(* The backend's side of a task *)

\* A slip: the user and the family, both ids, change places.
IssueSwapped(r, p) ==
    /\ p \notin Issued
    /\ Continue(r, "loggingIn", "answered", [work[r] EXCEPT !.next = p])
    /\ row' = [row EXCEPT ![p] = [family |-> work[r].client, user |-> p]]
    /\ fresh' = fresh \cup {p}
    /\ UNCHANGED <<kind, stored, screen, revoked, lapsed, aux>>

\* login: a new family, and an access token for a quarter of an hour.
IssueFirst(r, p) ==
    /\ p \notin Issued
    /\ Continue(r, "loggingIn", "answered", [work[r] EXCEPT !.next = p])
    /\ row' = [row EXCEPT ![p] = [family |-> p, user |-> work[r].client]]
    /\ fresh' = fresh \cup {p}
    /\ UNCHANGED <<kind, stored, screen, revoked, lapsed, aux>>

\* refresh: the token is read. One that was revoked ends its family.
ReadRefresh(r) ==
    LET p == work[r].refresh IN
    /\ Continue(r, "refreshing", IF p \in revoked \cup lapsed THEN "refused" ELSE "rotating", work[r])
    /\ revoked' = IF p \in revoked THEN revoked \cup Family(p) ELSE revoked
    /\ UNCHANGED <<kind, stored, screen, row, clock, aux>>

\* A slip: the old token is not saved.
RotateUnrevoked(r, p) ==
    /\ p \notin Issued
    /\ Continue(r, "rotating", "answered", [work[r] EXCEPT !.next = p])
    /\ row' = [row EXCEPT ![p] = row[work[r].refresh]]
    /\ fresh' = fresh \cup {p}
    /\ UNCHANGED <<kind, stored, screen, revoked, lapsed, aux>>

\* The next pair is issued, and the token it replaces is revoked.
Rotate(r, p) ==
    LET old == work[r].refresh IN
    /\ p \notin Issued
    /\ Continue(r, "rotating", "answered", [work[r] EXCEPT !.next = p])
    /\ row' = [row EXCEPT ![p] = row[old]]
    /\ revoked' = revoked \cup {old}
    /\ fresh' = fresh \cup {p}
    /\ UNCHANGED <<kind, stored, screen, lapsed, aux>>

\* logout ends the family of the token.
EndFamily(r) ==
    /\ Continue(r, "loggingOut", "clearing", work[r])
    /\ revoked' = revoked \cup Family(work[r].refresh)
    /\ UNCHANGED <<kind, stored, screen, row, clock, aux>>

\* resetPassword, which couriers alone can ask for: every token of the user is revoked.
RevokeAll(r) ==
    LET k == work[r].client IN
    /\ pc[r] = "resetting"
    /\ revoked' = revoked \cup {p \in Issued : row[p].user = k}
    /\ session' = [session EXCEPT ![k] = IF @ = "in" THEN "lapsed" ELSE @]
    /\ Finish(r)
    /\ UNCHANGED <<kind, stored, screen, row, clock, left, disturbed>>

----------------------------------------------------------------------------
(* The dashboard *)

\* A page is requested. middleware: with an access cookie it goes on to the page, without a refresh
\* cookie to /login, and otherwise it refreshes.
Navigate(r, k) ==
    /\ ~IsApp(k)
    /\ access[k] = NoPair
    /\ refresh[k] # NoPair
    /\ Start(r, k, "page", "refreshing")
    /\ UNCHANGED <<kind, stored, screen, server, clock, session, left>>

NavigateAtOnce(k) ==
    /\ ~IsApp(k)
    /\ access[k] # NoPair \/ refresh[k] = NoPair
    /\ screen' = [screen EXCEPT ![k] = IF access[k] \in fresh THEN "page" ELSE "login"]
    /\ UNCHANGED <<kind, stored, server, clock, pc, work, aux>>

\* A slip: the rotated refresh token is not put into its cookie.
AnswerAccessOnly(r) ==
    LET k == work[r].client IN
    /\ pc[r] = "answered"
    /\ ~IsApp(k)
    /\ access' = [access EXCEPT ![k] = work[r].next]
    /\ refresh' = [refresh EXCEPT ![k] = IF work[r].for = "login" THEN work[r].next ELSE @]
    /\ session' = [session EXCEPT ![k] = "in"]
    /\ Show(r, "page")
    /\ Finish(r)
    /\ UNCHANGED <<kind, server, clock, left, disturbed>>

\* The answer of the middleware, or of loginAction, sets both cookies, and the page follows.
AnswerBrowser(r) ==
    LET k == work[r].client IN
    /\ pc[r] = "answered"
    /\ ~IsApp(k)
    /\ access' = [access EXCEPT ![k] = work[r].next]
    /\ refresh' = [refresh EXCEPT ![k] = work[r].next]
    /\ session' = IF work[r].for = "login" THEN [session EXCEPT ![k] = "in"] ELSE session
    /\ Show(r, "page")
    /\ Finish(r)
    /\ UNCHANGED <<kind, server, clock, left, disturbed>>

\* The refresh was refused, or the user logs out: /login, and both cookies are deleted.
RedirectToLogin(r) ==
    LET k == work[r].client IN
    /\ pc[r] \in {"refused", "clearing"}
    /\ ~IsApp(k)
    /\ access' = [access EXCEPT ![k] = NoPair]
    /\ refresh' = [refresh EXCEPT ![k] = NoPair]
    /\ session' = IF pc[r] = "clearing" THEN [session EXCEPT ![k] = "out"] ELSE session
    /\ Show(r, "login")
    /\ Finish(r)
    /\ UNCHANGED <<kind, server, clock, left, disturbed>>

----------------------------------------------------------------------------
(* Logging in and out, on either *)

\* The login form is submitted, which both clients allow once at a time.
LogIn(r, k) ==
    /\ screen[k] \in {"login", "signedOut"}
    /\ \A s \in Tasks : work[s].client = k => work[s].for # "login"
    /\ Start(r, k, "login", "loggingIn")
    /\ UNCHANGED <<kind, stored, screen, server, clock, session, left>>

\* logout(): the backend is told, if there is a refresh token to tell it of.
LogOut(r, k) ==
    /\ screen[k] \in {"page", "signedIn"}
    /\ Start(r, k, "logout", IF refresh[k] = NoPair THEN "clearing" ELSE "loggingOut")
    /\ session' = [session EXCEPT ![k] = "out"]
    /\ left' = left \cup {row[p].family : p \in {refresh[k]} \ {NoPair}}
    /\ UNCHANGED <<kind, stored, screen, server, clock>>

----------------------------------------------------------------------------
(* The courier's app *)

\* AuthProvider, on launch: nobody is signed in without a stored access token; with one, and again
\* on HomeScreen, something is fetched.
Launch(k) ==
    /\ IsApp(k)
    /\ screen[k] = "loading" /\ access[k] = NoPair /\ ~Busy(k)
    /\ screen' = [screen EXCEPT ![k] = "signedOut"]
    /\ UNCHANGED <<kind, stored, server, clock, pc, work, aux>>

FetchMe(r, k) ==
    /\ IsApp(k)
    /\ screen[k] = "loading" /\ access[k] # NoPair
    /\ Start(r, k, "me", "fetching")
    /\ UNCHANGED <<kind, stored, screen, server, clock, session, left>>

FetchHome(r, k) ==
    /\ IsApp(k)
    /\ screen[k] = "mounting"
    /\ Start(r, k, "home", "fetching")
    /\ screen' = [screen EXCEPT ![k] = "signedIn"]
    /\ UNCHANGED <<kind, stored, server, clock, session, left>>

\* The courier resets the password, with this app or another device.
ResetPassword(r, k) ==
    /\ IsApp(k)
    /\ Start(r, k, "reset", "resetting")
    /\ UNCHANGED <<kind, stored, screen, server, clock, session, left>>

\* apiFetch(): the access token is good, or tryRefresh() reads the refresh token as it is stored
\* by then; with none there is nothing to try.
Fetch(r) ==
    LET k == work[r].client IN
    /\ \/ work[r].access \in fresh /\ Continue(r, "fetching", "done", work[r])
       \/ /\ work[r].access \notin fresh
          /\ Continue(r, "fetching", IF refresh[k] = NoPair THEN "refused" ELSE "refreshing",
                      [work[r] EXCEPT !.refresh = refresh[k]])
    /\ UNCHANGED <<kind, stored, screen, server, clock, aux>>

\* saveTokens(): one key, then the other.
SaveAccess(r) ==
    LET k == work[r].client IN
    /\ Continue(r, "answered", "saving", work[r])
    /\ IsApp(k)
    /\ access' = [access EXCEPT ![k] = work[r].next]
    /\ UNCHANGED <<kind, refresh, screen, server, clock, aux>>

SaveRefresh(r) ==
    LET k == work[r].client IN
    /\ Continue(r, "saving", "done", work[r])
    /\ refresh' = [refresh EXCEPT ![k] = work[r].next]
    /\ UNCHANGED <<kind, access, screen, server, clock, aux>>

\* clearTokens(), likewise: at the end of a logout, or when the refresh was refused.
ClearAccess(r) ==
    LET k == work[r].client IN
    /\ \E from \in {"clearing", "refused"} : Continue(r, from, "cleared", work[r])
    /\ IsApp(k)
    /\ access' = [access EXCEPT ![k] = NoPair]
    /\ UNCHANGED <<kind, refresh, screen, server, clock, aux>>

ClearRefresh(r) ==
    LET k == work[r].client IN
    /\ Continue(r, "cleared", IF work[r].for = "logout" THEN "done" ELSE "failed", work[r])
    /\ refresh' = [refresh EXCEPT ![k] = NoPair]
    /\ UNCHANGED <<kind, access, screen, server, clock, aux>>

\* AuthContext, and RootNavigator after it: the profile or a login leads to the home screen, a
\* failure on launch to the login screen. The home screen shows a dash for what it did not get.
Done(r) ==
    LET k == work[r].client IN
    /\ pc[r] = "done"
    /\ Show(r, CASE work[r].for \in {"login", "me"} -> "mounting"
                 [] work[r].for = "logout"         -> "signedOut"
                 [] OTHER                          -> screen[k])
    /\ session' = IF work[r].for = "login" THEN [session EXCEPT ![k] = "in"] ELSE session
    /\ Finish(r)
    /\ UNCHANGED <<kind, stored, server, clock, left, disturbed>>

Failed(r) ==
    /\ pc[r] = "failed"
    /\ IF work[r].for = "me" THEN Show(r, "signedOut") ELSE UNCHANGED screen
    /\ Finish(r)
    /\ UNCHANGED <<kind, stored, server, clock, aux>>

----------------------------------------------------------------------------
(* Faults, and time *)

\* fetch() throws, whether or not the backend has done its part, or something other than a refresh
\* is answered with an error: the middleware takes it for a refusal, logout goes on without,
\* everything else fails. "done" is when the app has its tokens and awaits what it fetches with them.
Throw(r) ==
    LET k == work[r].client
        to == CASE work[r].for = "logout" -> "clearing"
                [] work[r].for = "page"   -> "refused"
                [] OTHER                  -> "failed"
    IN /\ Faulty
       /\ \/ \E from \in {"fetching", "loggingIn", "refreshing", "rotating", "loggingOut", "answered"} :
                Continue(r, from, to, work[r])
          \/ work[r].for \in {"me", "home"} /\ Continue(r, "done", to, work[r])
       /\ disturbed' = disturbed \cup {k}
       /\ UNCHANGED <<kind, stored, screen, server, clock, session, left>>

\* A refresh is answered with an error though its token is live (429 of the throttler, 5xx), before
\* or after the backend has done its part: both clients take any answer but a good one for a refusal.
AnswerError(r) ==
    /\ Faulty
    /\ work[r].for \in {"page", "me", "home"}
    /\ \E from \in {"refreshing", "rotating", "answered"} : Continue(r, from, "refused", work[r])
    /\ disturbed' = disturbed \cup {work[r].client}
    /\ UNCHANGED <<kind, stored, screen, server, clock, session, left>>

\* A browser does not get the answer, or the app is killed and launched again.
Leave(r) ==
    /\ Faulty
    /\ pc[r] # "idle"
    /\ ~IsApp(work[r].client)
    /\ disturbed' = disturbed \cup {work[r].client}
    /\ Finish(r)
    /\ UNCHANGED <<kind, stored, screen, server, clock, session, left>>

Kill(k) ==
    /\ Faulty
    /\ IsApp(k)
    /\ pc' = [r \in Tasks |-> IF work[r].client = k THEN "idle" ELSE pc[r]]
    /\ work' = [r \in Tasks |-> IF work[r].client = k THEN Idle ELSE work[r]]
    /\ screen' = [screen EXCEPT ![k] = "loading"]
    /\ disturbed' = disturbed \cup {c \in {k} : Busy(c)}
    /\ UNCHANGED <<kind, stored, server, clock, session, left>>

\* An access token expires, a moment before the cookie it is in does.
ExpireAccess(p) ==
    /\ p \in fresh
    /\ fresh' = fresh \ {p}
    /\ UNCHANGED <<kind, stored, screen, server, lapsed, pc, work, aux>>

DropCookie(k) ==
    /\ ~IsApp(k)
    /\ access[k] # NoPair /\ access[k] \notin fresh
    /\ access' = [access EXCEPT ![k] = NoPair]
    /\ UNCHANGED <<kind, refresh, screen, server, clock, pc, work, aux>>

\* Thirty days pass without a refresh: no request takes that long.
Lapse(p) ==
    /\ p \in Issued \ (lapsed \cup fresh)
    /\ \A r \in Tasks : p \notin {work[r].refresh, work[r].next}
    /\ lapsed' = lapsed \cup {p}
    /\ session' = [k \in Clients |-> IF refresh[k] = p /\ session[k] = "in" THEN "lapsed" ELSE session[k]]
    /\ UNCHANGED <<kind, stored, screen, server, fresh, pc, work, left, disturbed>>

Backend(r) ==
    \/ \E p \in Pairs : IssueFirst(r, p) \/ Rotate(r, p)
    \/ ReadRefresh(r)
    \/ EndFamily(r) \/ RevokeAll(r)

Client(r) ==
    \/ \E k \in Clients : Navigate(r, k) \/ LogIn(r, k) \/ LogOut(r, k) \/ FetchMe(r, k) \/ FetchHome(r, k)
    \/ \E k \in Clients : ResetPassword(r, k)
    \/ AnswerBrowser(r) \/ RedirectToLogin(r)
    \/ Fetch(r) \/ SaveAccess(r) \/ SaveRefresh(r) \/ ClearAccess(r) \/ ClearRefresh(r)
    \/ Done(r) \/ Failed(r)

Next ==
    \/ \E r \in Tasks : Backend(r) \/ Client(r) \/ Throw(r) \/ AnswerError(r) \/ Leave(r)
    \/ \E k \in Clients : NavigateAtOnce(k) \/ Launch(k) \/ Kill(k) \/ DropCookie(k)
    \/ \E p \in Pairs : ExpireAccess(p) \/ Lapse(p)

Spec == Init /\ [][Next]_vars

----------------------------------------------------------------------------
(* Properties *)

Rows == [family : Pairs \cup {NoPair}, user : Clients \cup {NoClient}]
Work == [client : Clients \cup {NoClient}, for : {"none", "page", "login", "logout", "me", "home", "reset"},
         access : Pairs \cup {NoPair}, refresh : Pairs \cup {NoPair}, next : Pairs \cup {NoPair}]
Steps == {"idle", "loggingIn", "refreshing", "rotating", "refused", "answered", "loggingOut",
          "clearing", "fetching", "saving", "cleared", "done", "failed", "resetting"}
Screens == [browser |-> {"login", "page"},
            app     |-> {"loading", "signedOut", "mounting", "signedIn"}]

\* The type of every cookie, key, row and local variable; each client shows a screen of its own.
TypeOK ==
    /\ kind \in [Clients -> {"browser", "app"}]
    /\ access \in [Clients -> Pairs \cup {NoPair}]
    /\ refresh \in [Clients -> Pairs \cup {NoPair}]
    /\ \A k \in Clients : screen[k] \in Screens[kind[k]]
    /\ row \in [Pairs -> Rows]
    /\ fresh \subseteq Issued /\ revoked \subseteq Issued /\ lapsed \subseteq Issued
    /\ pc \in [Tasks -> Steps]
    /\ work \in [Tasks -> Work]
    /\ session \in [Clients -> {"out", "in", "lapsed"}]
    /\ left \subseteq Issued
    /\ disturbed \subseteq Clients

Live(p) == p \in Issued \ (revoked \cup lapsed)

\* middleware.ts:10-15, AuthContext.tsx:16-22: as long as a client's requests have not overlapped,
\* nor been cut off, nor met an error of the backend, its session lasts until a logout, a reset of
\* the password or thirty idle days, however often the access token expires: what it has stored can
\* be refreshed, and an app is not signed out.
SessionLasts ==
    \A k \in Clients \ disturbed : session[k] = "in" /\ ~Busy(k) =>
        /\ Live(refresh[k])
        /\ screen[k] # "signedOut"

\* Under the same condition, a client that has logged out has nothing stored, and no token of
\* a session it has logged out of can be refreshed.
LogoutLeavesNothing ==
    \A k \in Clients \ disturbed : session[k] = "out" /\ ~Busy(k) =>
        /\ access[k] = NoPair /\ refresh[k] = NoPair
        /\ \A p \in Issued : row[p].user = k /\ row[p].family \in left => ~Live(p)

\* What the user of such a client may rely on: in until a logout, a reset or thirty idle days, then
\* out. Whatever else ends a session, an error of a single refresh among them, is in disturbed.
SessionIsAsExpected == SessionLasts /\ LogoutLeavesNothing

=============================================================================
