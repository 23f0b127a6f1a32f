---------------------------- MODULE AuthSessions ----------------------------
(***************************************************************************)
(* AuthService and OtpService (modules/auth): login, refresh, logout, and  *)
(* the reset of a forgotten password by a code sent to the courier's       *)
(* phone. These endpoints are public, so there is no tenant context and no *)
(* transaction: each repository call commits by itself, each Redis command *)
(* runs by itself, and any other request may run between two of them.      *)
(*                                                                         *)
(* A refresh token is a model value, and the family a login starts goes by *)
(* the name of its first token. `save(entity)` writes every column in      *)
(* which the entity, read earlier, differs from the row as it is now.      *)
(***************************************************************************)

CONSTANTS
    Users,
    Tokens,         \* the refresh tokens that can be issued: a bound, none is issued twice
    Passwords,
    FirstPassword,  \* the one accounts start with
    Codes,          \* the codes that can be drawn: a bound, none is drawn twice
    Requests,       \* slots of requests in flight on the backend
    NoUser, NoToken, NoPassword, NoCode

ASSUME NullsAreNotIds ==
    /\ NoUser \notin Users /\ NoToken \notin Tokens
    /\ NoPassword \notin Passwords /\ NoCode \notin Codes
ASSUME FirstPasswordIsOne == FirstPassword \in Passwords

VARIABLES
    token,      \* [Tokens -> [user, family, revoked, next]]: rows of refresh_tokens
    expired,    \* the tokens whose expiresAt has passed
    password,   \* [Users -> password]: what the hash in the row of users verifies
    code,       \* [Users -> code]: the Redis key otp:code:<phone>
    cooldown,   \* the users with a Redis key otp:cooldown:<phone>
    held,       \* the tokens some client was sent
    fate,       \* [Codes -> how far a code has come]: only a sent one is known to its user
    pc,         \* how far each request's handler has come
    work,       \* the local variables of each handler
    ended,      \* auxiliary: [family -> what has ended it, or "no"]
    chosen,     \* auxiliary: [Users -> password]: the last one a reset has set
    raced       \* auxiliary: the users who have had two requests in flight at once

users  == <<password, chosen>>
otp    == <<code, cooldown, fate>>
tokens == <<token, expired, held, ended>>
vars   == <<token, expired, password, code, cooldown, held, fate, pc, work, ended, chosen, raced>>

----------------------------------------------------------------------------
\* A slip: the two uuid columns swapped.
RowSwapped(u, f) == [user |-> f, family |-> u, revoked |-> FALSE, next |-> NoToken]

Row(u, f) == [user |-> u, family |-> f, revoked |-> FALSE, next |-> NoToken]
NoRow == Row(NoUser, NoToken)

Issued == {t \in Tokens : token[t].family # NoToken}
Family(f) == {t \in Issued : token[t].family = f}

Idle == [user |-> NoUser, token |-> NoToken, next |-> NoToken, password |-> NoPassword,
         code |-> NoCode]

Init ==
    /\ token = [t \in Tokens |-> NoRow]
    /\ expired = {}
    /\ password = [u \in Users |-> FirstPassword]
    /\ code = [u \in Users |-> NoCode]
    /\ cooldown = {}
    /\ held = {}
    /\ fate = [k \in Codes |-> "unused"]
    /\ pc = [r \in Requests |-> "idle"]
    /\ work = [r \in Requests |-> Idle]
    /\ ended = [f \in Tokens |-> "no"]
    /\ chosen = password
    /\ raced = {}

\* A slot is taken; a user who already has a request in flight has two from now on.
Begin(r, step, w) ==
    /\ pc[r] = "idle"
    /\ pc' = [pc EXCEPT ![r] = step]
    /\ work' = [work EXCEPT ![r] = w]
    /\ raced' = raced \cup {u \in {w.user} : \E q \in Requests : work[q].user = u}

Continue(r, from, to) ==
    /\ pc[r] = from
    /\ pc' = [pc EXCEPT ![r] = to]
    /\ UNCHANGED raced

Finish(r) ==
    /\ pc' = [pc EXCEPT ![r] = "idle"]
    /\ work' = [work EXCEPT ![r] = Idle]
    /\ UNCHANGED raced

\* The answer reaches the client with its token, or is lost on the way.
Answer(t) == held' \in {held, held \cup {t}}

----------------------------------------------------------------------------
\* login(): the user is read and the password verified.
StartLogin(r, u) ==
    /\ Begin(r, "verified", [Idle EXCEPT !.user = u, !.password = password[u]])
    /\ UNCHANGED <<users, otp, tokens>>

\* users.save(user) for lastLoginAt, of the entity that was read: passwordHash goes back to what
\* it was then, if it has been changed since.
RecordLogin(r) ==
    /\ Continue(r, "verified", "issuing")
    /\ password' = [password EXCEPT ![work[r].user] = work[r].password]
    /\ UNCHANGED <<work, chosen, otp, tokens>>

\* issueTokenPair() at the end of a login: the first token of a new family.
IssueFirst(r, t) ==
    /\ pc[r] = "issuing"
    /\ work[r].token = NoToken
    /\ t \notin Issued
    /\ token' = [token EXCEPT ![t] = Row(work[r].user, t)]
    /\ Answer(t)
    /\ Finish(r)
    /\ UNCHANGED <<expired, ended, users, otp>>

\* A slip: the token is revoked at once, before its successor is saved.
StartRefreshRevoking(r, t) ==
    /\ t \in held \ expired
    /\ ~token[t].revoked
    /\ Begin(r, "issuing", [Idle EXCEPT !.user = token[t].user, !.token = t])
    /\ token' = [token EXCEPT ![t].revoked = TRUE]
    /\ UNCHANGED <<expired, held, ended, users, otp>>

\* refresh() of a token read as neither revoked nor expired. Nothing deactivates accounts.
StartRefresh(r, t) ==
    /\ t \in held \ expired
    /\ ~token[t].revoked
    /\ Begin(r, "issuing", [Idle EXCEPT !.user = token[t].user, !.token = t])
    /\ UNCHANGED <<users, otp, tokens>>

\* A slip: a refresh opens a family of its own, as a login does.
IssueNextInNewFamily(r, t) ==
    /\ Continue(r, "issuing", "rotating")
    /\ work[r].token # NoToken
    /\ t \notin Issued
    /\ token' = [token EXCEPT ![t] = Row(work[r].user, t)]
    /\ work' = [work EXCEPT ![r].next = t]
    /\ UNCHANGED <<expired, held, ended, users, otp>>

\* issueTokenPair() in refresh(): the successor is saved before the token it replaces is revoked.
IssueNext(r, t) ==
    /\ Continue(r, "issuing", "rotating")
    /\ work[r].token # NoToken
    /\ t \notin Issued
    /\ token' = [token EXCEPT ![t] = Row(work[r].user, token[work[r].token].family)]
    /\ work' = [work EXCEPT ![r].next = t]
    /\ UNCHANGED <<expired, held, ended, users, otp>>

\* A slip: only replacedByTokenHash is set, and revokedAt saved as it was read.
RotateUnrevoked(r) ==
    LET old == work[r].token IN
    /\ pc[r] = "rotating"
    /\ token' = [token EXCEPT ![old].revoked = FALSE, ![old].next = work[r].next]
    /\ Answer(work[r].next)
    /\ Finish(r)
    /\ UNCHANGED <<expired, ended, users, otp>>

\* refreshTokens.save(stored), and the answer.
Rotate(r) ==
    LET old == work[r].token IN
    /\ pc[r] = "rotating"
    /\ token' = [token EXCEPT ![old].revoked = TRUE, ![old].next = work[r].next]
    /\ Answer(work[r].next)
    /\ Finish(r)
    /\ UNCHANGED <<expired, ended, users, otp>>

\* refresh() of a token read as revoked, expired or not: taken for theft.
StartReuse(r, t) ==
    /\ t \in held
    /\ token[t].revoked
    /\ Begin(r, "reuse", [Idle EXCEPT !.user = token[t].user, !.token = t])
    /\ UNCHANGED <<users, otp, tokens>>

\* logout() with any token that was ever issued.
StartLogout(r, t) ==
    /\ t \in held
    /\ Begin(r, "logout", [Idle EXCEPT !.user = token[t].user, !.token = t])
    /\ UNCHANGED <<users, otp, tokens>>

\* One UPDATE, of the tokens that are there when it runs.
Revoke(ts) == token' = [t \in Tokens |-> IF t \in ts THEN [token[t] EXCEPT !.revoked = TRUE]
                                          ELSE token[t]]

\* A slip: only the token that was presented is revoked.
EndTokenOnly(r) ==
    /\ pc[r] \in {"reuse", "logout"}
    /\ Revoke({work[r].token})
    /\ ended' = [ended EXCEPT ![token[work[r].token].family] = pc[r]]
    /\ Finish(r)
    /\ UNCHANGED <<expired, held, users, otp>>

\* The second statement of a reuse or a logout.
EndFamily(r) ==
    LET f == token[work[r].token].family IN
    /\ pc[r] \in {"reuse", "logout"}
    /\ Revoke(Family(f))
    /\ ended' = [ended EXCEPT ![f] = pc[r]]
    /\ Finish(r)
    /\ UNCHANGED <<expired, held, users, otp>>

----------------------------------------------------------------------------
\* forgotPassword(), issue(): no cooldown key exists.
StartForgot(r, u) ==
    /\ u \notin cooldown
    /\ Begin(r, "drawing", [Idle EXCEPT !.user = u])
    /\ UNCHANGED <<users, otp, tokens>>

StoreCode(r, k) ==
    /\ Continue(r, "drawing", "stored")
    /\ fate[k] = "unused"
    /\ code' = [code EXCEPT ![work[r].user] = k]
    /\ fate' = [fate EXCEPT ![k] = "drawn"]
    /\ work' = [work EXCEPT ![r].code = k]
    /\ UNCHANGED <<cooldown, users, tokens>>

\* The cooldown is stored, and then the SMS gateway delivers the code, or does not.
StoreCooldown(r) ==
    /\ pc[r] = "stored"
    /\ cooldown' = cooldown \cup {work[r].user}
    /\ fate' \in {fate, [fate EXCEPT ![work[r].code] = "sent"]}
    /\ Finish(r)
    /\ UNCHANGED <<code, users, tokens>>

\* resetPassword(), verify(): the code read from Redis is the one presented.
StartReset(r, u, p) ==
    /\ code[u] # NoCode
    /\ fate[code[u]] # "drawn"
    /\ Begin(r, "matched", [Idle EXCEPT !.user = u, !.password = p, !.code = code[u]])
    /\ UNCHANGED <<users, otp, tokens>>

\* A slip: a matching code is left to expire by itself.
ConsumeNothing(r) ==
    /\ Continue(r, "matched", "saving")
    /\ UNCHANGED <<work, users, otp, tokens>>

\* verify() deletes the key, whatever code is under it by now.
ConsumeCode(r) ==
    /\ Continue(r, "matched", "saving")
    /\ code' = [code EXCEPT ![work[r].user] = NoCode]
    /\ UNCHANGED <<work, cooldown, fate, users, tokens>>

SavePassword(r) ==
    LET u == work[r].user IN
    /\ Continue(r, "saving", "revoking")
    /\ password' = [password EXCEPT ![u] = work[r].password]
    /\ chosen' = [chosen EXCEPT ![u] = work[r].password]
    /\ fate' = [fate EXCEPT ![work[r].code] = "spent"]
    /\ UNCHANGED <<work, code, cooldown, tokens>>

\* Every token of the account that is there when the UPDATE runs.
RevokeAll(r) ==
    LET all == {t \in Issued : token[t].user = work[r].user} IN
    /\ pc[r] = "revoking"
    /\ Revoke(all)
    /\ ended' = [f \in Tokens |-> IF \E t \in all : token[t].family = f THEN "reset" ELSE ended[f]]
    /\ Finish(r)
    /\ UNCHANGED <<expired, held, users, otp>>

----------------------------------------------------------------------------
\* A statement fails, or the backend restarts: what was committed stays.
Fail(r) ==
    /\ pc[r] # "idle"
    /\ Finish(r)
    /\ UNCHANGED <<users, otp, tokens>>

\* Time passes: a token, a code or a cooldown comes to its end.
ExpireToken(t) ==
    /\ t \notin expired
    /\ expired' = expired \cup {t}
    /\ UNCHANGED <<token, held, ended, users, otp, pc, work, raced>>

ExpireCode(u) ==
    /\ code[u] # NoCode
    /\ code' = [code EXCEPT ![u] = NoCode]
    /\ UNCHANGED <<cooldown, fate, users, tokens, pc, work, raced>>

ExpireCooldown(u) ==
    /\ u \in cooldown
    /\ cooldown' = cooldown \ {u}
    /\ UNCHANGED <<code, fate, users, tokens, pc, work, raced>>

Session(r) ==
    \/ \E u \in Users : StartLogin(r, u)
    \/ RecordLogin(r)
    \/ \E t \in Tokens : IssueFirst(r, t) \/ IssueNext(r, t)
    \/ \E t \in held : StartRefresh(r, t) \/ StartReuse(r, t) \/ StartLogout(r, t)
    \/ Rotate(r)
    \/ EndFamily(r)

Recovery(r) ==
    \/ \E u \in Users : StartForgot(r, u)
    \/ \E k \in Codes : StoreCode(r, k)
    \/ StoreCooldown(r)
    \/ \E u \in Users, p \in Passwords : StartReset(r, u, p)
    \/ ConsumeCode(r)
    \/ SavePassword(r)
    \/ RevokeAll(r)

Next ==
    \/ \E r \in Requests : Session(r) \/ Recovery(r) \/ Fail(r)
    \/ \E t \in held : ExpireToken(t)
    \/ \E u \in Users : ExpireCode(u) \/ ExpireCooldown(u)

Spec == Init /\ [][Next]_vars

----------------------------------------------------------------------------
(* Properties *)

TokenRows == [user : Users \cup {NoUser}, family : Tokens \cup {NoToken}, revoked : BOOLEAN,
              next : Tokens \cup {NoToken}]

Work == [user : Users \cup {NoUser}, token : Tokens \cup {NoToken}, next : Tokens \cup {NoToken},
         password : Passwords \cup {NoPassword}, code : Codes \cup {NoCode}]

Steps == {"idle", "verified", "issuing", "rotating", "reuse", "logout", "drawing", "stored",
          "matched", "saving", "revoking"}

\* The type of every row, Redis key and local variable of AuthService and OtpService.
TypeOK ==
    /\ token \in [Tokens -> TokenRows]
    /\ expired \subseteq Tokens
    /\ password \in [Users -> Passwords]
    /\ code \in [Users -> Codes \cup {NoCode}]
    /\ cooldown \subseteq Users
    /\ held \subseteq Issued
    /\ fate \in [Codes -> {"unused", "drawn", "sent", "spent"}]
    /\ pc \in [Requests -> Steps]
    /\ work \in [Requests -> Work]
    /\ ended \in [Tokens -> {"no", "reuse", "logout", "reset"}]
    /\ chosen \in [Users -> Passwords]
    /\ raced \subseteq Users

\* However requests race, a refresh that saves the token it read long ago does not bring it back
\* to life: a token that was revoked, by rotation, reuse, logout or reset, stays revoked.
RevokedForGood == [][\A t \in Tokens : token[t].revoked => token'[t].revoked]_vars

\* However requests race and wherever they stop, a session ends only by reuse, logout, reset or
\* expiry: until then its family has a live token.
FamilyStaysAlive ==
    \A t \in Issued :
        ended[token[t].family] = "no" => \E s \in Family(token[t].family) : ~token[s].revoked

\* A token is replaced by one of the same family and the same account, so whatever ends the family
\* of the first also ends its successors.
RotationStaysInFamily ==
    \A t \in Tokens : token[t].next # NoToken =>
        /\ token[t].revoked
        /\ token[t].next \in Issued
        /\ token[token[t].next].family = token[t].family
        /\ token[token[t].next].user = token[t].user

\* Unless requests of the account have raced, a family that was ended by a reuse, a logout or a
\* reset has no live token, not even one whose refresh was cut off.
EndedFamilyIsDead ==
    \A t \in Issued : token[t].user \notin raced /\ ended[token[t].family] # "no" => token[t].revoked

\* Unless requests of the account have raced, clients never hold two live tokens of one login.
OneLiveToken ==
    \A s, t \in held :
        /\ token[s].user \notin raced
        /\ token[s].family = token[t].family
        /\ ~token[s].revoked /\ ~token[t].revoked
        => s = t

\* OtpService: single-use. Unless requests of the account have raced, no reset goes on with a code
\* that has already set a password.
CodeWorksOnce ==
    \A r \in Requests :
        pc[r] \in {"matched", "saving"} /\ work[r].user \notin raced => fate[work[r].code] # "spent"

AtRest(u) == \A r \in Requests : work[r].user # u

\* auth.service.ts:125-126 and README.md:459-461: reuse and reset force a fresh login on every
\* device. At rest, no token of a family they have ended is live.
FreshLoginForced ==
    \A t \in Issued :
        AtRest(token[t].user) /\ ended[token[t].family] \in {"reuse", "reset"} => token[t].revoked

\* auth.service.spec.ts:268: a reset updates the password. At rest, the password of an account is
\* the one that was last set.
PasswordStays == \A u \in Users : AtRest(u) => password[u] = chosen[u]

=============================================================================
