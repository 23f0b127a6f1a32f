------------------------------ MODULE Recovery ------------------------------
(***************************************************************************)
(* A courier who has forgotten the password, from the app's screens to the *)
(* SMS gateway: ForgotPasswordScreen and ResetPasswordScreen (apps/mobile),*)
(* AuthService.forgotPassword() with OtpService.issue(), EskizSmsSender    *)
(* with its cached token, and OtpService.verify(). What the reset does to  *)
(* the account and its sessions is in AuthSessions.                        *)
(*                                                                         *)
(* A courier goes by the phone number. Codes are drawn from a small set,   *)
(* and may come again, as they may from a million. The gateway itself is   *)
(* known by its answers: it issues tokens, forgets them some time, and     *)
(* refuses a message that comes with one it has forgotten.                 *)
(***************************************************************************)
EXTENDS Naturals

CONSTANTS
    Phones,
    Codes,
    Tokens,     \* of the gateway: more than there are requests
    Requests,   \* slots of requests in flight
    MaxFaults,  \* how many requests are cut off, or processes restarted: a bound
    NoPhone, NoCode, NoToken

ASSUME NullsAreNotIds == NoPhone \notin Phones /\ NoCode \notin Codes /\ NoToken \notin Tokens
ASSUME BoundIsNatural == MaxFaults \in Nat

VARIABLES
    code,       \* [Phones -> code]: Redis, otp:code:<phone>
    cooldown,   \* the phones whose otp:cooldown:<phone> exists
    token,      \* EskizSmsSender.token
    good,       \* the tokens that the gateway accepts
    texted,     \* [Phones -> code]: the message received last
    screen,     \* [Phones -> the screen of the courier's app]
    pc,         \* how far each request has come
    work,       \* its local variables
    faults,     \* how many faults there have been
    unsure      \* auxiliary: phones whose requests have overlapped, or ended without a message

redis   == <<code, cooldown>>
gateway == <<token, good>>
vars    == <<code, cooldown, token, good, texted, screen, pc, work, faults, unsure>>

Idle == [phone |-> NoPhone, left |-> FALSE, code |-> NoCode, token |-> NoToken, own |-> FALSE]

Init ==
    /\ code = [p \in Phones |-> NoCode]
    /\ cooldown = {}
    /\ token = NoToken
    /\ good = {}
    /\ texted = [p \in Phones |-> NoCode]
    /\ screen = [p \in Phones |-> "forgot"]
    /\ pc = [r \in Requests |-> "idle"]
    /\ work = [r \in Requests |-> Idle]
    /\ faults = 0
    /\ unsure = {}

InFlight(p)   == {r \in Requests : work[r].phone = p}
Submitting(p) == \E r \in InFlight(p) : ~work[r].left

Step(r, from, to, w) ==
    /\ pc[r] = from
    /\ pc' = [pc EXCEPT ![r] = to]
    /\ work' = [work EXCEPT ![r] = w]

Submit(r, p, to, typed) ==
    /\ ~Submitting(p)
    /\ Step(r, "idle", to, [Idle EXCEPT !.phone = p, !.code = typed])
    /\ unsure' = IF InFlight(p) = {} THEN unsure ELSE unsure \cup {p}
    /\ UNCHANGED <<redis, gateway, texted, screen, faults>>

Answer(r, from, next) ==
    /\ Step(r, from, "idle", Idle)
    /\ screen' = [screen EXCEPT ![work[r].phone] = next]
    /\ UNCHANGED <<redis, gateway, texted, faults, unsure>>

----------------------------------------------------------------------------
(* forgotPassword() and issue() *)

\* The account is found. On cooldown there is nothing to do but answer.
AskOnCooldown(r, p) ==
    /\ screen[p] = "forgot" /\ p \in cooldown
    /\ Submit(r, p, "answering", NoCode)

Ask(r, p) ==
    /\ screen[p] = "forgot" /\ p \notin cooldown
    /\ Submit(r, p, "storing", NoCode)

\* A slip: two arguments swapped.
StoreCodeSwapped(r, k) ==
    LET p == work[r].phone IN
    /\ Step(r, "storing", "cooling", [work[r] EXCEPT !.code = k])
    /\ code' = [code EXCEPT ![p] = p]
    /\ unsure' = IF InFlight(p) = {r} THEN unsure \ {p} ELSE unsure
    /\ UNCHANGED <<cooldown, gateway, texted, screen, faults>>

\* The code, which the phone has for five minutes.
StoreCode(r, k) ==
    LET p == work[r].phone IN
    /\ Step(r, "storing", "cooling", [work[r] EXCEPT !.code = k])
    /\ code' = [code EXCEPT ![p] = k]
    /\ unsure' = IF InFlight(p) = {r} THEN unsure \ {p} ELSE unsure
    /\ UNCHANGED <<cooldown, gateway, texted, screen, faults>>

StoreCooldown(r) ==
    /\ Step(r, "cooling", "sending", work[r])
    /\ cooldown' = cooldown \cup {work[r].phone}
    /\ UNCHANGED <<code, gateway, texted, screen, faults, unsure>>

----------------------------------------------------------------------------
(* EskizSmsSender *)

\* send(), getToken(): the cached token, if there is one.
GetToken(r) ==
    /\ IF token # NoToken THEN Step(r, "sending", "posting", [work[r] EXCEPT !.token = token])
                          ELSE Step(r, "sending", "loggingIn", work[r])
    /\ UNCHANGED <<redis, gateway, texted, screen, faults, unsure>>

\* The gateway issues a token, which is cached over whatever is there by then.
LogIn(r) ==
    LET held == {token} \cup {work[q].token : q \in Requests}
        new  == CHOOSE t \in Tokens : t \notin held
    IN /\ ~(Tokens \subseteq held)
       /\ Step(r, "loggingIn", "posting", [work[r] EXCEPT !.token = new, !.own = TRUE])
       /\ token' = new
       /\ good' = (good \cap held) \cup {new}
       /\ UNCHANGED <<redis, texted, screen, faults, unsure>>

\* The gateway takes the message, and the phone gets it.
Post(r) ==
    LET p == work[r].phone IN
    /\ work[r].token \in good
    /\ Step(r, "posting", "answering", [work[r] EXCEPT !.code = NoCode, !.token = NoToken, !.own = FALSE])
    /\ texted' = [texted EXCEPT ![p] = work[r].code]
    /\ UNCHANGED <<redis, gateway, screen, faults, unsure>>

\* A slip: the cache is not cleared, so that the retry takes the token from it.
RefusedFromCache(r) ==
    /\ work[r].token \notin good
    /\ ~work[r].own
    /\ Step(r, "posting", "posting", [work[r] EXCEPT !.token = token, !.own = TRUE])
    /\ UNCHANGED <<redis, gateway, texted, screen, faults, unsure>>

\* 401: the cache is cleared, whatever is in it by now, and the send logs in for itself.
Refused(r) ==
    /\ work[r].token \notin good
    /\ ~work[r].own
    /\ Step(r, "posting", "loggingIn", [work[r] EXCEPT !.token = NoToken])
    /\ token' = NoToken
    /\ UNCHANGED <<redis, good, texted, screen, faults, unsure>>

\* 204: the app goes on to the code screen, wherever the courier has gone since.
ShowCodeScreen(r) == Answer(r, "answering", "code")

----------------------------------------------------------------------------
(* resetPassword() and verify() *)

\* The courier types the code of the last message, or mistypes it.
EnterCode(r, p) ==
    /\ screen[p] = "code" /\ texted[p] # NoCode
    /\ Submit(r, p, "verifying", texted[p])

Mistype(r, p) ==
    /\ screen[p] = "code"
    /\ Submit(r, p, "verifying", NoCode)

Matches(r) == work[r].code # NoCode /\ code[work[r].phone] = work[r].code

ReadCode(r) ==
    /\ Step(r, "verifying", IF Matches(r) THEN "matched" ELSE "refused",
            [work[r] EXCEPT !.code = NoCode])
    /\ UNCHANGED <<redis, gateway, texted, screen, faults, unsure>>

ConsumeCode(r) ==
    /\ Step(r, "matched", "reset", work[r])
    /\ code' = [code EXCEPT ![work[r].phone] = NoCode]
    /\ UNCHANGED <<cooldown, gateway, texted, screen, faults, unsure>>

\* The screen says how it went, if it is still there.
ShowSuccess(r) ==
    Answer(r, "reset", IF work[r].left THEN screen[work[r].phone] ELSE "done")

ShowError(r) == Answer(r, "refused", screen[work[r].phone])

----------------------------------------------------------------------------
(* The courier, time and faults *)

\* Back, from the forgot screen to the login screen and there again; a request of the screen that
\* is left goes on.
Back(p) ==
    /\ screen' = [screen EXCEPT ![p] = "forgot"]
    /\ work' = [r \in Requests |-> IF r \in InFlight(p) THEN [work[r] EXCEPT !.left = TRUE]
                                                        ELSE work[r]]
    /\ UNCHANGED <<redis, gateway, texted, pc, faults, unsure>>

\* A slip: the key is stored without its expiry.
CooldownStays(p) == p \notin cooldown /\ UNCHANGED vars

\* One minute after the last message; the code has four more, and no request takes as long.
CooldownEnds(p) ==
    /\ p \in cooldown
    /\ cooldown' = cooldown \ {p}
    /\ UNCHANGED <<code, gateway, texted, screen, pc, work, faults, unsure>>

CodeExpires(p) ==
    /\ code[p] # NoCode /\ p \notin cooldown /\ InFlight(p) = {}
    /\ code' = [code EXCEPT ![p] = NoCode]
    /\ UNCHANGED <<cooldown, gateway, texted, screen, pc, work, faults, unsure>>

\* The gateway forgets a token, some days after it has issued it.
TokenExpires(t) ==
    /\ t \in good
    /\ \A r \in Requests : work[r].token = t => ~work[r].own
    /\ good' = good \ {t}
    /\ UNCHANGED <<redis, token, texted, screen, pc, work, faults, unsure>>

Unsent == {"cooling", "sending", "loggingIn", "posting"}

\* A statement or a fetch fails, or the answer is lost: forgotPassword() of the app throws and its
\* screen stays, resetPassword() shows its error.
Fail(r) ==
    /\ faults < MaxFaults
    /\ pc[r] # "idle"
    /\ Step(r, pc[r], "idle", Idle)
    /\ faults' = faults + 1
    /\ unsure' = IF pc[r] \in Unsent THEN unsure \cup {work[r].phone} ELSE unsure
    /\ UNCHANGED <<redis, gateway, texted, screen>>

\* The backend restarts, with an empty cache.
Restart ==
    /\ faults < MaxFaults
    /\ faults' = faults + 1
    /\ pc' = [r \in Requests |-> "idle"]
    /\ work' = [r \in Requests |-> Idle]
    /\ token' = NoToken
    /\ unsure' = unsure \cup {work[r].phone : r \in {q \in Requests : pc[q] \in Unsent}}
    /\ UNCHANGED <<redis, good, texted, screen>>

Backend(r) ==
    \/ \E k \in Codes : StoreCode(r, k)
    \/ StoreCooldown(r)
    \/ GetToken(r) \/ LogIn(r) \/ Post(r) \/ Refused(r)
    \/ ReadCode(r) \/ ConsumeCode(r)
    \/ ShowCodeScreen(r) \/ ShowSuccess(r) \/ ShowError(r)

App(p) ==
    \/ Back(p)
    \/ \E r \in Requests : AskOnCooldown(r, p) \/ Ask(r, p) \/ EnterCode(r, p) \/ Mistype(r, p)

Next ==
    \/ \E r \in Requests : Backend(r) \/ Fail(r)
    \/ \E p \in Phones : App(p) \/ CooldownEnds(p) \/ CodeExpires(p)
    \/ \E t \in Tokens : TokenExpires(t)
    \/ Restart

Spec == Init /\ [][Next]_vars

\* Requests go on, the cooldown ends, and a courier who wants a new password does not give up.
FairSpec ==
    /\ Spec
    /\ \A r \in Requests : WF_vars(Backend(r))
    /\ \A p \in Phones :
        /\ WF_vars(CooldownEnds(p)) /\ WF_vars(Back(p))
        /\ SF_vars(\E r \in Requests : Ask(r, p))
        /\ SF_vars(\E r \in Requests : code[p] = texted[p] /\ EnterCode(r, p))

----------------------------------------------------------------------------
(* Properties *)

Work  == [phone : Phones \cup {NoPhone}, left : BOOLEAN, code : Codes \cup {NoCode},
          token : Tokens \cup {NoToken}, own : BOOLEAN]
Steps == Unsent \cup {"idle", "storing", "answering", "verifying", "matched", "refused", "reset"}

\* The type of every key, screen and local variable.
TypeOK ==
    /\ code \in [Phones -> Codes \cup {NoCode}]
    /\ cooldown \subseteq Phones
    /\ token \in Tokens \cup {NoToken}
    /\ good \subseteq Tokens
    /\ texted \in [Phones -> Codes \cup {NoCode}]
    /\ screen \in [Phones -> {"forgot", "code", "done"}]
    /\ pc \in [Requests -> Steps]
    /\ work \in [Requests -> Work]
    /\ faults \in 0 .. MaxFaults
    /\ unsure \subseteq Phones

\* sms.service.ts:64-65, README.md:460-467: however sends share and clear the cached token, none comes
\* back with a refused token a second time; and while no request of a courier is on its way, a code
\* in Redis is the one of his last message, however often he has mistyped it. After an overlap or
\* a fault this is so again from the next code on.
LastMessageWorks ==
    /\ \A r \in Requests : pc[r] = "posting" /\ work[r].own => work[r].token \in good
    /\ \A p \in Phones \ unsure : InFlight(p) = {} /\ code[p] # NoCode => texted[p] = code[p]

\* auth.service.ts:165-192: whatever expires, is mistyped, refused or cut off meanwhile, a courier
\* who does not give up gets the password reset, unless requests of one courier overlap for ever.
Overlapping  == \E q, r \in Requests : q # r /\ work[q].phone = work[r].phone /\ pc[q] # "idle"
RecoveryEnds ==
    <>[]~Overlapping =>
        \A p \in Phones :
            screen[p] \in {"forgot", "code"} ~> \E r \in InFlight(p) : pc[r] = "reset"

=============================================================================
