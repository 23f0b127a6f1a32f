-------------------------- MODULE Recovery_proofs --------------------------
(***************************************************************************)
(* What holds of Recovery for any number of couriers, codes, tokens of the *)
(* gateway and requests, and any number of faults.                         *)
(***************************************************************************)
EXTENDS Recovery, TLAPS

Reading == {"verifying", "matched", "refused", "reset"}

\* A request has a phone while it is in flight; one that is to be sent has its code, and one that
\* has logged in for itself holds a token that the gateway accepts.
RequestOK(r) ==
    /\ pc[r] = "idle" <=> work[r].phone = NoPhone
    /\ pc[r] \in Unsent => work[r].code \in Codes
    /\ work[r].own => pc[r] = "posting" /\ work[r].token \in good

WorkOK == \A r \in Requests : RequestOK(r)

\* The courier of a phone that is not unsure has one request in flight at most.
AloneOK == \A p \in Phones \ unsure : \A q, r \in InFlight(p) : q = r

\* The code in Redis is the one about to be sent, if one is, and otherwise the one received.
CodeOK == \A p \in Phones \ unsure : code[p] # NoCode =>
    /\ \A r \in InFlight(p) : pc[r] \in Unsent => work[r].code = code[p]
    /\ (\A r \in InFlight(p) : pc[r] \notin Unsent) => texted[p] = code[p]

IInv == TypeOK /\ WorkOK /\ AloneOK /\ CodeOK

----------------------------------------------------------------------------
LEMMA StepMoves ==
    ASSUME TypeOK, NEW r \in Requests, NEW from, NEW to \in Steps, NEW w \in Work,
           Step(r, from, to, w)
    PROVE  /\ pc[r] = from /\ pc'[r] = to /\ work'[r] = w
           /\ \A q \in Requests \ {r} : pc'[q] = pc[q] /\ work'[q] = work[q]
           /\ pc' \in [Requests -> Steps]
           /\ work' \in [Requests -> Work]
  BY DEF TypeOK, Step

LEMMA IdleIsWork == Idle \in Work
  BY DEF Idle, Work

\* A step of one request leaves the others their tokens.
LEMMA OthersOK ==
    ASSUME WorkOK, NEW r \in Requests, RequestOK(r)',
           \A q \in Requests \ {r} :
               /\ pc'[q] = pc[q] /\ work'[q] = work[q]
               /\ work[q].own /\ work[q].token \in good => work[q].token \in good'
    PROVE  WorkOK'
  BY DEF WorkOK, RequestOK

\* Nobody begins a request for a phone that remains sure.
LEMMA AloneStays ==
    ASSUME AloneOK, unsure \subseteq unsure',
           \A r \in Requests : \A p \in Phones \ unsure' :
               work'[r].phone = p => work[r].phone = p
    PROVE  AloneOK'
  BY DEF AloneOK, InFlight

\* No code is drawn and no message sent, and none of those about to be sent is given up while its
\* phone remains sure.
LEMMA CodesStay ==
    ASSUME CodeOK, unsure \subseteq unsure', texted' = texted,
           \A p \in Phones : code'[p] \in {code[p], NoCode},
           \A r \in Requests : \A p \in Phones \ unsure' :
               /\ work[r].phone = p /\ pc[r] \in Unsent => work'[r].phone = p /\ pc'[r] \in Unsent
               /\ work'[r].phone = p /\ pc'[r] \in Unsent =>
                      /\ work[r].phone = p /\ pc[r] \in Unsent
                      /\ work'[r].code = work[r].code
    PROVE  CodeOK'
<1> SUFFICES ASSUME NEW p \in Phones \ unsure', code'[p] # NoCode
             PROVE  /\ \A r \in Requests : work'[r].phone = p /\ pc'[r] \in Unsent =>
                           work'[r].code = code'[p]
                    /\ (\A r \in Requests : work'[r].phone = p => pc'[r] \notin Unsent) =>
                           texted'[p] = code'[p]
  BY DEF CodeOK, InFlight, Unsent
<1>1. p \in Phones \ unsure /\ code'[p] = code[p] /\ code[p] # NoCode
  OBVIOUS
<1>2. QED
  BY <1>1 DEF CodeOK, InFlight

----------------------------------------------------------------------------
\* The screens send a request: the phone has none in flight, or is unsure from now on.
LEMMA SubmitOK ==
    ASSUME IInv, NEW r \in Requests, NEW p \in Phones, NEW to \in {"storing", "answering", "verifying"},
           NEW typed \in Codes \cup {NoCode}, Submit(r, p, to, typed)
    PROVE  IInv'
<1> DEFINE w == [Idle EXCEPT !.phone = p, !.code = typed]
<1>1. /\ w \in Work /\ w.phone = p /\ ~w.own
      /\ to \in Steps /\ to \notin Unsent /\ to # "idle" /\ p # NoPhone
  BY NullsAreNotIds DEF Idle, Work, Steps, Unsent
<1>2. Step(r, "idle", to, w)
  BY DEF Submit
<1> HIDE DEF w
<1>3. /\ pc[r] = "idle" /\ pc'[r] = to /\ work'[r] = w
      /\ \A q \in Requests \ {r} : pc'[q] = pc[q] /\ work'[q] = work[q]
      /\ pc' \in [Requests -> Steps] /\ work' \in [Requests -> Work]
  BY <1>1, <1>2, StepMoves DEF IInv
<1>4. /\ UNCHANGED <<code, cooldown, token, good, texted, screen, faults>>
      /\ unsure' = IF InFlight(p) = {} THEN unsure ELSE unsure \cup {p}
  BY DEF Submit, redis, gateway
<1>5. TypeOK'
  BY <1>3, <1>4 DEF IInv, TypeOK
<1>6. WorkOK'
  <2>1. RequestOK(r)'
    BY <1>1, <1>3 DEF RequestOK, Unsent
  <2>2. QED
    BY <1>3, <1>4, <2>1, OthersOK DEF IInv
<1>7. AloneOK'
  <2> SUFFICES ASSUME NEW x \in Phones \ unsure', NEW q \in Requests, NEW z \in Requests,
                      work'[q].phone = x, work'[z].phone = x
               PROVE  q = z
    BY DEF AloneOK, InFlight
  <2>1. CASE x = p
    <3>1. InFlight(p) = {}
      BY <1>4, <2>1
    <3>2. QED
      BY <1>3, <2>1, <3>1 DEF InFlight
  <2>2. CASE x # p
    BY <1>1, <1>3, <1>4, <2>2 DEF IInv, AloneOK, InFlight
  <2>3. QED
    BY <2>1, <2>2
<1>8. CodeOK'
  <2>1. pc[r] \notin Unsent /\ pc'[r] \notin Unsent
    BY <1>1, <1>3 DEF Unsent
  <2>2. QED
    BY <1>3, <1>4, <2>1, CodesStay DEF IInv
<1>9. QED
  BY <1>5, <1>6, <1>7, <1>8 DEF IInv

\* A request goes on, and neither draws a code nor sends one, nor ends before it has.
LEMMA OwnStepOK ==
    ASSUME IInv, NEW r \in Requests, NEW from \in Steps \ {"idle"}, NEW to \in Steps, NEW w \in Work,
           Step(r, from, to, w), TypeOK', RequestOK(r)', texted' = texted, unsure' = unsure,
           \A p \in Phones : code'[p] \in {code[p], NoCode},
           \A q \in Requests \ {r} :
               work[q].own /\ work[q].token \in good => work[q].token \in good',
           w.phone \in {work[r].phone, NoPhone},
           from \in Unsent => w.phone = work[r].phone /\ w.code = work[r].code,
           from \in Unsent <=> to \in Unsent
    PROVE  IInv'
<1>0. TypeOK
  BY DEF IInv
<1>1. /\ pc[r] = from /\ pc'[r] = to /\ work'[r] = w
      /\ \A q \in Requests \ {r} : pc'[q] = pc[q] /\ work'[q] = work[q]
  BY <1>0 DEF TypeOK, Step
<1>2. WorkOK'
  BY <1>1, OthersOK DEF IInv
<1>3. AloneOK'
  BY <1>1, AloneStays, NullsAreNotIds DEF IInv
<1>4. CodeOK'
  BY <1>1, CodesStay DEF IInv
<1>5. QED
  BY <1>2, <1>3, <1>4 DEF IInv

\* What remains to be shown of a step like that, given what it writes.
LEMMA MovesOK ==
    ASSUME TypeOK, NEW r \in Requests, NEW from, NEW to \in Steps, NEW w \in Work, Step(r, from, to, w)
    PROVE  /\ pc[r] = from /\ pc'[r] = to /\ work'[r] = w
           /\ pc' \in [Requests -> Steps] /\ work' \in [Requests -> Work]
  BY StepMoves

LEMMA StoreCooldownOK ==
    ASSUME IInv, NEW r \in Requests, StoreCooldown(r)
    PROVE  IInv'
<1>1. TypeOK /\ RequestOK(r) /\ work[r] \in Work
  BY DEF IInv, TypeOK, WorkOK
<1>2. Step(r, "cooling", "sending", work[r])
  BY DEF StoreCooldown
<1>3. /\ "cooling" \in Steps /\ "sending" \in Steps /\ "cooling" \in Unsent /\ "sending" \in Unsent
  BY DEF Steps, Unsent
<1>4. /\ pc[r] = "cooling" /\ pc'[r] = "sending" /\ work'[r] = work[r]
      /\ pc' \in [Requests -> Steps] /\ work' \in [Requests -> Work]
  BY <1>1, <1>2, <1>3, MovesOK
<1>5. /\ UNCHANGED <<code, token, good, texted, screen, faults, unsure>>
      /\ cooldown' = cooldown \cup {work[r].phone}
  BY DEF StoreCooldown, gateway
<1>6. work[r].phone \in Phones
  BY <1>1, <1>4 DEF RequestOK, Work
<1>7. TypeOK'
  BY <1>1, <1>4, <1>5, <1>6 DEF TypeOK
<1>8. RequestOK(r)'
  BY <1>1, <1>3, <1>4, <1>5 DEF RequestOK
<1>9. QED
  BY <1>1, <1>2, <1>3, <1>5, <1>7, <1>8, OwnStepOK

LEMMA GetTokenOK ==
    ASSUME IInv, NEW r \in Requests, GetToken(r)
    PROVE  IInv'
<1> DEFINE to == IF token # NoToken THEN "posting" ELSE "loggingIn"
           w  == IF token # NoToken THEN [work[r] EXCEPT !.token = token] ELSE work[r]
<1>1. TypeOK /\ RequestOK(r) /\ work[r] \in Work
  BY DEF IInv, TypeOK, WorkOK
<1>2. Step(r, "sending", to, w)
  BY DEF GetToken
<1>3. /\ to \in Steps /\ to \in Unsent /\ "sending" \in Steps /\ "sending" \in Unsent
      /\ to # "idle"
  BY DEF Steps, Unsent
<1>4. /\ w \in Work /\ w.phone = work[r].phone /\ w.code = work[r].code /\ w.own = work[r].own
  BY <1>1 DEF TypeOK, Work
<1> HIDE DEF w, to
<1>5. /\ pc[r] = "sending" /\ pc'[r] = to /\ work'[r] = w
      /\ pc' \in [Requests -> Steps] /\ work' \in [Requests -> Work]
  BY <1>1, <1>2, <1>3, <1>4, MovesOK
<1>6. UNCHANGED <<code, cooldown, token, good, texted, screen, faults, unsure>>
  BY DEF GetToken, redis, gateway
<1>7. TypeOK'
  BY <1>1, <1>5, <1>6 DEF TypeOK
<1>8. RequestOK(r)'
  BY <1>1, <1>3, <1>4, <1>5, <1>6 DEF RequestOK
<1>9. QED
  BY <1>1, <1>2, <1>3, <1>4, <1>6, <1>7, <1>8, OwnStepOK

LEMMA LogInOK ==
    ASSUME IInv, NEW r \in Requests, LogIn(r)
    PROVE  IInv'
<1> DEFINE kept == {token} \cup {work[q].token : q \in Requests}
           new  == CHOOSE t \in Tokens : t \notin kept
           w    == [work[r] EXCEPT !.token = new, !.own = TRUE]
<1>1. TypeOK /\ RequestOK(r) /\ work[r] \in Work
  BY DEF IInv, TypeOK, WorkOK
<1>2. new \in Tokens
  <2>1. \E t \in Tokens : t \notin kept
    BY DEF LogIn
  <2>2. QED
    BY <2>1
<1>3. /\ Step(r, "loggingIn", "posting", w)
      /\ token' = new /\ good' = (good \cap kept) \cup {new}
      /\ UNCHANGED <<code, cooldown, texted, screen, faults, unsure>>
  BY DEF LogIn, redis
<1>4. \A q \in Requests : work[q].token \in kept
  OBVIOUS
<1> HIDE DEF new, kept
<1>5. /\ w \in Work /\ w.phone = work[r].phone /\ w.code = work[r].code /\ w.own /\ w.token = new
  BY <1>1, <1>2 DEF Work
<1> HIDE DEF w
<1>6. /\ "loggingIn" \in Steps /\ "posting" \in Steps
      /\ "loggingIn" \in Unsent /\ "posting" \in Unsent
  BY DEF Steps, Unsent
<1>7. /\ pc[r] = "loggingIn" /\ pc'[r] = "posting" /\ work'[r] = w
      /\ pc' \in [Requests -> Steps] /\ work' \in [Requests -> Work]
  BY <1>1, <1>3, <1>5, <1>6, MovesOK
<1>8. TypeOK'
  BY <1>1, <1>2, <1>3, <1>7 DEF TypeOK
<1>9. RequestOK(r)'
  BY <1>1, <1>3, <1>5, <1>6, <1>7 DEF RequestOK
<1>10. QED
  BY <1>1, <1>3, <1>4, <1>5, <1>6, <1>8, <1>9, OwnStepOK

\* The cache is cleared, which takes no token from anybody.
LEMMA RefusedOK ==
    ASSUME IInv, NEW r \in Requests, Refused(r)
    PROVE  IInv'
<1> DEFINE w == [work[r] EXCEPT !.token = NoToken]
<1>1. TypeOK /\ RequestOK(r) /\ work[r] \in Work
  BY DEF IInv, TypeOK, WorkOK
<1>2. /\ Step(r, "posting", "loggingIn", w) /\ ~work[r].own
      /\ token' = NoToken
      /\ UNCHANGED <<code, cooldown, good, texted, screen, faults, unsure>>
  BY DEF Refused, redis
<1>3. w \in Work /\ w.phone = work[r].phone /\ w.code = work[r].code /\ w.own = work[r].own
  BY <1>1 DEF Work
<1> HIDE DEF w
<1>4. /\ "loggingIn" \in Steps /\ "posting" \in Steps
      /\ "loggingIn" \in Unsent /\ "posting" \in Unsent
  BY DEF Steps, Unsent
<1>5. /\ pc[r] = "posting" /\ pc'[r] = "loggingIn" /\ work'[r] = w
      /\ pc' \in [Requests -> Steps] /\ work' \in [Requests -> Work]
  BY <1>1, <1>2, <1>3, <1>4, MovesOK
<1>6. TypeOK'
  BY <1>1, <1>2, <1>5 DEF TypeOK
<1>7. RequestOK(r)'
  BY <1>1, <1>2, <1>3, <1>4, <1>5 DEF RequestOK
<1>8. QED
  BY <1>1, <1>2, <1>3, <1>4, <1>6, <1>7, OwnStepOK

LEMMA ReadCodeOK ==
    ASSUME IInv, NEW r \in Requests, ReadCode(r)
    PROVE  IInv'
<1> DEFINE w  == [work[r] EXCEPT !.code = NoCode]
           to == IF Matches(r) THEN "matched" ELSE "refused"
<1>1. TypeOK /\ RequestOK(r) /\ work[r] \in Work
  BY DEF IInv, TypeOK, WorkOK
<1>2. /\ Step(r, "verifying", to, w)
      /\ UNCHANGED <<code, cooldown, token, good, texted, screen, faults, unsure>>
  BY DEF ReadCode, redis, gateway
<1>3. w \in Work /\ w.phone = work[r].phone /\ w.own = work[r].own
  BY <1>1 DEF Work
<1>4. /\ "verifying" \in Steps /\ to \in Steps
      /\ "verifying" \notin Unsent /\ to \notin Unsent /\ to # "idle"
  BY DEF Steps, Unsent
<1> HIDE DEF w, to
<1>5. /\ pc[r] = "verifying" /\ pc'[r] = to /\ work'[r] = w
      /\ pc' \in [Requests -> Steps] /\ work' \in [Requests -> Work]
  BY <1>1, <1>2, <1>3, <1>4, MovesOK
<1>6. TypeOK'
  BY <1>1, <1>2, <1>5 DEF TypeOK
<1>7. RequestOK(r)'
  BY <1>1, <1>2, <1>3, <1>4, <1>5 DEF RequestOK
<1>8. QED
  BY <1>1, <1>2, <1>3, <1>4, <1>6, <1>7, OwnStepOK

LEMMA ConsumeCodeOK ==
    ASSUME IInv, NEW r \in Requests, ConsumeCode(r)
    PROVE  IInv'
<1>1. TypeOK /\ RequestOK(r) /\ work[r] \in Work
  BY DEF IInv, TypeOK, WorkOK
<1>2. /\ Step(r, "matched", "reset", work[r])
      /\ code' = [code EXCEPT ![work[r].phone] = NoCode]
      /\ UNCHANGED <<cooldown, token, good, texted, screen, faults, unsure>>
  BY DEF ConsumeCode, gateway
<1>3. /\ "matched" \in Steps /\ "reset" \in Steps
      /\ "matched" \notin Unsent /\ "reset" \notin Unsent
  BY DEF Steps, Unsent
<1>4. /\ pc[r] = "matched" /\ pc'[r] = "reset" /\ work'[r] = work[r]
      /\ pc' \in [Requests -> Steps] /\ work' \in [Requests -> Work]
  BY <1>1, <1>2, <1>3, MovesOK
<1>5. /\ code' \in [Phones -> Codes \cup {NoCode}]
      /\ \A p \in Phones : code'[p] \in {code[p], NoCode}
  BY <1>1, <1>2 DEF TypeOK
<1>6. TypeOK'
  BY <1>1, <1>2, <1>4, <1>5 DEF TypeOK
<1>7. RequestOK(r)'
  BY <1>1, <1>2, <1>3, <1>4 DEF RequestOK
<1>8. QED
  BY <1>1, <1>2, <1>3, <1>5, <1>6, <1>7, OwnStepOK

\* An answer ends a request, which has sent its message or never had one.
LEMMA AnswerOK ==
    ASSUME IInv, NEW r \in Requests, NEW from \in {"answering", "reset", "refused"},
           NEW next \in {"forgot", "code", "done"}, Answer(r, from, next)
    PROVE  IInv'
<1>1. TypeOK /\ RequestOK(r) /\ work[r] \in Work /\ Idle \in Work
  BY IdleIsWork DEF IInv, TypeOK, WorkOK
<1>2. /\ Step(r, from, "idle", Idle)
      /\ screen' = [screen EXCEPT ![work[r].phone] = next]
      /\ UNCHANGED <<code, cooldown, token, good, texted, faults, unsure>>
  BY DEF Answer, redis, gateway
<1>3. /\ from \in Steps /\ "idle" \in Steps /\ from # "idle"
      /\ from \notin Unsent /\ "idle" \notin Unsent
  BY DEF Steps, Unsent
<1>4. /\ pc[r] = from /\ pc'[r] = "idle" /\ work'[r] = Idle
      /\ pc' \in [Requests -> Steps] /\ work' \in [Requests -> Work]
  BY <1>1, <1>2, <1>3, MovesOK
<1>5. screen' \in [Phones -> {"forgot", "code", "done"}]
  BY <1>1, <1>2 DEF TypeOK
<1>6. TypeOK'
  BY <1>1, <1>2, <1>4, <1>5 DEF TypeOK
<1>7. Idle.phone = NoPhone /\ ~Idle.own
  BY DEF Idle
<1>8. RequestOK(r)'
  BY <1>3, <1>4, <1>7 DEF RequestOK
<1>9. QED
  BY <1>1, <1>2, <1>3, <1>6, <1>7, <1>8, OwnStepOK

LEMMA ScreensOK ==
    ASSUME IInv, NEW r \in Requests, ShowCodeScreen(r) \/ ShowSuccess(r) \/ ShowError(r)
    PROVE  IInv'
<1>1. CASE ShowCodeScreen(r)
  BY <1>1, AnswerOK DEF ShowCodeScreen
<1>2. ASSUME NEW from \in {"reset", "refused"}, Step(r, from, "idle", Idle)
      PROVE  screen[work[r].phone] \in {"forgot", "code", "done"}
  <2>1. RequestOK(r) /\ pc[r] # "idle" /\ work[r] \in Work
    BY <1>2 DEF IInv, TypeOK, WorkOK, Step
  <2>2. work[r].phone \in Phones
    BY <2>1 DEF RequestOK, Work
  <2>3. QED
    BY <2>2 DEF IInv, TypeOK
<1>3. CASE ShowSuccess(r)
  BY <1>2, <1>3, AnswerOK DEF ShowSuccess, Answer
<1>4. CASE ShowError(r)
  BY <1>2, <1>4, AnswerOK DEF ShowError, Answer
<1>5. QED
  BY <1>1, <1>3, <1>4

----------------------------------------------------------------------------
\* A new code makes its phone sure again, if nobody else is about to send another.
LEMMA StoreCodeOK ==
    ASSUME IInv, NEW r \in Requests, NEW k \in Codes, StoreCode(r, k)
    PROVE  IInv'
<1> DEFINE p == work[r].phone
           w == [work[r] EXCEPT !.code = k]
<1>1. TypeOK /\ RequestOK(r) /\ work[r] \in Work
  BY DEF IInv, TypeOK, WorkOK
<1>2. /\ Step(r, "storing", "cooling", w)
      /\ code' = [code EXCEPT ![p] = k]
      /\ unsure' = IF InFlight(p) = {r} THEN unsure \ {p} ELSE unsure
      /\ UNCHANGED <<cooldown, token, good, texted, screen, faults>>
  BY DEF StoreCode, gateway
<1>3. w \in Work /\ w.phone = p /\ w.code = k /\ w.own = work[r].own
  BY <1>1 DEF Work
<1>4. "storing" \in Steps /\ "cooling" \in Steps /\ "storing" \notin Unsent /\ "cooling" \in Unsent
  BY DEF Steps, Unsent
<1> HIDE DEF w
<1>5. /\ pc[r] = "storing" /\ pc'[r] = "cooling" /\ work'[r] = w
      /\ \A q \in Requests \ {r} : pc'[q] = pc[q] /\ work'[q] = work[q]
      /\ pc' \in [Requests -> Steps] /\ work' \in [Requests -> Work]
  BY <1>1, <1>2, <1>3, <1>4, StepMoves
<1>6. p \in Phones
  BY <1>1, <1>5 DEF RequestOK, Work
<1> HIDE DEF p
<1>7. TypeOK'
  BY <1>1, <1>2, <1>5 DEF TypeOK
<1>8. WorkOK'
  <2>1. RequestOK(r)'
    BY <1>1, <1>2, <1>3, <1>4, <1>5 DEF RequestOK, p
  <2>2. QED
    BY <1>2, <1>5, <2>1, OthersOK DEF IInv
<1>9. \A x \in Phones : \A q \in Requests : work'[q].phone = x <=> work[q].phone = x
  BY <1>3, <1>5 DEF p
<1>10. AloneOK'
  <2> SUFFICES ASSUME NEW x \in Phones \ unsure', NEW q \in Requests, NEW z \in Requests,
                      work[q].phone = x, work[z].phone = x
               PROVE  q = z
    BY <1>9 DEF AloneOK, InFlight
  <2>1. x \notin unsure \/ InFlight(x) = {r}
    BY <1>2
  <2>2. QED
    BY <2>1 DEF IInv, AloneOK, InFlight
<1>11. CodeOK'
  <2> SUFFICES ASSUME NEW x \in Phones \ unsure', code'[x] # NoCode
               PROVE  /\ \A q \in Requests : work'[q].phone = x /\ pc'[q] \in Unsent =>
                             work'[q].code = code'[x]
                      /\ (\A q \in Requests : work'[q].phone = x => pc'[q] \notin Unsent) =>
                             texted'[x] = code'[x]
    BY DEF CodeOK, InFlight, Unsent
  <2>1. CASE x = p
    <3>1. code'[x] = k
      BY <1>1, <1>2, <1>6, <2>1 DEF TypeOK
    <3>2. work'[r].phone = x /\ pc'[r] \in Unsent /\ work'[r].code = k
      BY <1>3, <1>4, <1>5, <2>1
    <3>3. \A q \in Requests : work'[q].phone = x => q = r
      BY <1>10, <3>2 DEF AloneOK, InFlight
    <3>4. QED
      BY <3>1, <3>2, <3>3
  <2>2. CASE x # p
    <3>1. code'[x] = code[x] /\ x \notin unsure /\ texted' = texted
      BY <1>1, <1>2, <2>2 DEF TypeOK
    <3>2. \A q \in Requests : work'[q].phone = x => q # r
      BY <1>3, <1>5, <2>2 DEF p
    <3>3. \A q \in Requests : work[q].phone = x => q # r
      BY <2>2 DEF p
    <3>4. QED
      BY <1>5, <3>1, <3>2, <3>3 DEF IInv, CodeOK, InFlight
  <2>3. QED
    BY <2>1, <2>2
<1>12. QED
  BY <1>7, <1>8, <1>10, <1>11 DEF IInv

\* The phone gets the code that is in Redis, unless another request has drawn one meanwhile.
LEMMA PostOK ==
    ASSUME IInv, NEW r \in Requests, Post(r)
    PROVE  IInv'
<1> DEFINE p == work[r].phone
           w == [work[r] EXCEPT !.code = NoCode, !.token = NoToken, !.own = FALSE]
<1>1. TypeOK /\ RequestOK(r) /\ work[r] \in Work
  BY DEF IInv, TypeOK, WorkOK
<1>2. /\ Step(r, "posting", "answering", w)
      /\ texted' = [texted EXCEPT ![p] = work[r].code]
      /\ UNCHANGED <<code, cooldown, token, good, screen, faults, unsure>>
  BY DEF Post, redis, gateway
<1>3. w \in Work /\ w.phone = p /\ ~w.own
  BY <1>1 DEF Work
<1>4. /\ "posting" \in Steps /\ "answering" \in Steps
      /\ "posting" \in Unsent /\ "answering" \notin Unsent
  BY DEF Steps, Unsent
<1> HIDE DEF w
<1>5. /\ pc[r] = "posting" /\ pc'[r] = "answering" /\ work'[r] = w
      /\ \A q \in Requests \ {r} : pc'[q] = pc[q] /\ work'[q] = work[q]
      /\ pc' \in [Requests -> Steps] /\ work' \in [Requests -> Work]
  BY <1>1, <1>2, <1>3, <1>4, StepMoves
<1>6. p \in Phones /\ work[r].code \in Codes
  BY <1>1, <1>4, <1>5 DEF RequestOK, Work
<1> HIDE DEF p
<1>7. TypeOK'
  BY <1>1, <1>2, <1>5, <1>6 DEF TypeOK
<1>8. WorkOK'
  <2>1. RequestOK(r)'
    BY <1>1, <1>3, <1>4, <1>5 DEF RequestOK, p
  <2>2. QED
    BY <1>2, <1>5, <2>1, OthersOK DEF IInv
<1>9. \A x \in Phones : \A q \in Requests : work'[q].phone = x <=> work[q].phone = x
  BY <1>3, <1>5 DEF p
<1>10. AloneOK'
  BY <1>2, <1>9, AloneStays DEF IInv
<1>11. CodeOK'
  <2> SUFFICES ASSUME NEW x \in Phones \ unsure, code[x] # NoCode
               PROVE  /\ \A q \in Requests : work'[q].phone = x /\ pc'[q] \in Unsent =>
                             work'[q].code = code[x]
                      /\ (\A q \in Requests : work'[q].phone = x => pc'[q] \notin Unsent) =>
                             texted'[x] = code[x]
    BY <1>2 DEF CodeOK, InFlight, Unsent
  <2>1. CASE x = p
    <3>1. texted'[x] = work[r].code
      BY <1>1, <1>2, <1>6, <2>1 DEF TypeOK
    <3>2. work[r].code = code[x]
      BY <1>4, <1>5, <2>1 DEF IInv, CodeOK, InFlight, p
    <3>3. \A q \in Requests : work'[q].phone = x => q = r
      BY <1>9, <2>1 DEF IInv, AloneOK, InFlight, p
    <3>4. QED
      BY <1>4, <1>5, <3>1, <3>2, <3>3
  <2>2. CASE x # p
    <3>1. texted'[x] = texted[x]
      BY <1>1, <1>2, <2>2 DEF TypeOK
    <3>2. \A q \in Requests : work'[q].phone = x => q # r
      BY <1>3, <1>5, <2>2 DEF p
    <3>3. \A q \in Requests : work[q].phone = x => q # r
      BY <2>2 DEF p
    <3>4. QED
      BY <1>5, <3>1, <3>2, <3>3 DEF IInv, CodeOK, InFlight
  <2>3. QED
    BY <2>1, <2>2
<1>12. QED
  BY <1>7, <1>8, <1>10, <1>11 DEF IInv

----------------------------------------------------------------------------
\* Leaving a screen changes what its request will show, and nothing else.
LEMMA BackOK ==
    ASSUME IInv, NEW p \in Phones, Back(p)
    PROVE  IInv'
<1>1. /\ screen' = [screen EXCEPT ![p] = "forgot"]
      /\ work' = [r \in Requests |-> IF r \in InFlight(p) THEN [work[r] EXCEPT !.left = TRUE]
                                                          ELSE work[r]]
      /\ UNCHANGED <<code, cooldown, token, good, texted, pc, faults, unsure>>
  BY DEF Back, redis, gateway
<1>2. ASSUME NEW r \in Requests
      PROVE  /\ work'[r] \in Work
             /\ work'[r].phone = work[r].phone /\ work'[r].code = work[r].code
             /\ work'[r].token = work[r].token /\ work'[r].own = work[r].own
  <2>1. work[r] \in Work
    BY DEF IInv, TypeOK
  <2>2. work'[r] = IF r \in InFlight(p) THEN [work[r] EXCEPT !.left = TRUE] ELSE work[r]
    BY <1>1
  <2>3. QED
    BY <2>1, <2>2 DEF Work
<1>3. work' \in [Requests -> Work]
  BY <1>1, <1>2
<1>4. screen' \in [Phones -> {"forgot", "code", "done"}]
  BY <1>1 DEF IInv, TypeOK
<1>5. TypeOK'
  BY <1>1, <1>3, <1>4 DEF IInv, TypeOK
<1>6. WorkOK'
  BY <1>1, <1>2 DEF IInv, WorkOK, RequestOK
<1>7. AloneOK'
  BY <1>1, <1>2, AloneStays DEF IInv
<1>8. CodeOK'
  BY <1>1, <1>2, CodesStay DEF IInv
<1>9. QED
  BY <1>5, <1>6, <1>7, <1>8 DEF IInv

\* What expires is taken from nobody who needs it.
LEMMA ExpiryOK ==
    ASSUME IInv,
           \/ \E p \in Phones : CooldownEnds(p) \/ CodeExpires(p)
           \/ \E t \in Tokens : TokenExpires(t)
    PROVE  IInv'
<1>1. /\ UNCHANGED <<token, texted, screen, pc, work, faults, unsure>>
      /\ good' \subseteq good
      /\ \A r \in Requests : work[r].own /\ work[r].token \in good => work[r].token \in good'
      /\ cooldown' \subseteq cooldown
      /\ code' \in [Phones -> Codes \cup {NoCode}]
      /\ \A p \in Phones : code'[p] \in {code[p], NoCode}
  <2>1. ASSUME NEW p \in Phones, CooldownEnds(p)
        PROVE  <1>1!:
    BY <2>1 DEF CooldownEnds, gateway, IInv, TypeOK
  <2>2. ASSUME NEW p \in Phones, CodeExpires(p)
        PROVE  <1>1!:
    BY <2>2 DEF CodeExpires, gateway, IInv, TypeOK
  <2>3. ASSUME NEW t \in Tokens, TokenExpires(t)
        PROVE  <1>1!:
    BY <2>3 DEF TokenExpires, redis, IInv, TypeOK
  <2>4. QED
    BY <2>1, <2>2, <2>3
<1>2. TypeOK'
  BY <1>1 DEF IInv, TypeOK
<1>3. WorkOK'
  BY <1>1 DEF IInv, WorkOK, RequestOK
<1>4. AloneOK'
  BY <1>1, AloneStays DEF IInv
<1>5. CodeOK'
  BY <1>1, CodesStay DEF IInv
<1>6. QED
  BY <1>2, <1>3, <1>4, <1>5 DEF IInv

\* Requests that are cut off leave their phone unsure if they had a message to send.
LEMMA CutOK ==
    ASSUME IInv, NEW cut \in SUBSET Requests, faults' \in 0 .. MaxFaults,
           \A r \in cut : pc'[r] = "idle" /\ work'[r] = Idle,
           \A r \in Requests \ cut : pc'[r] = pc[r] /\ work'[r] = work[r],
           pc' \in [Requests -> Steps], work' \in [Requests -> Work],
           unsure' = unsure \cup {work[r].phone : r \in {q \in cut : pc[q] \in Unsent}},
           token' \in {token, NoToken}, UNCHANGED <<code, cooldown, good, texted, screen>>
    PROVE  IInv'
<1>1. Idle.phone = NoPhone /\ ~Idle.own /\ "idle" \notin Unsent
  BY DEF Idle, Unsent
<1>2. unsure' \subseteq Phones
  BY DEF IInv, TypeOK, WorkOK, RequestOK, Work, Unsent
<1>3. TypeOK'
  BY <1>2 DEF IInv, TypeOK
<1>4. WorkOK'
  BY <1>1 DEF IInv, WorkOK, RequestOK
<1>5. AloneOK'
  BY <1>1, NullsAreNotIds, AloneStays DEF IInv
<1>6. CodeOK'
  <2>1. ASSUME NEW r \in Requests, NEW p \in Phones \ unsure'
        PROVE  /\ work[r].phone = p /\ pc[r] \in Unsent => work'[r].phone = p /\ pc'[r] \in Unsent
               /\ work'[r].phone = p /\ pc'[r] \in Unsent =>
                      /\ work[r].phone = p /\ pc[r] \in Unsent
                      /\ work'[r].code = work[r].code
    <3>1. CASE r \in cut
      BY <1>1, <3>1
    <3>2. CASE r \notin cut
      BY <3>2
    <3>3. QED
      BY <3>1, <3>2
  <2>2. QED
    BY <2>1, CodesStay DEF IInv
<1>7. QED
  BY <1>3, <1>4, <1>5, <1>6 DEF IInv

LEMMA FailOK ==
    ASSUME IInv, NEW r \in Requests, Fail(r)
    PROVE  IInv'
<1>1. /\ faults < MaxFaults /\ pc[r] # "idle"
      /\ Step(r, pc[r], "idle", Idle)
      /\ faults' = faults + 1
      /\ unsure' = IF pc[r] \in Unsent THEN unsure \cup {work[r].phone} ELSE unsure
      /\ UNCHANGED <<code, cooldown, token, good, texted, screen>>
  BY DEF Fail, redis, gateway
<1>2. faults' \in 0 .. MaxFaults
  BY <1>1, BoundIsNatural DEF IInv, TypeOK
<1>3. TypeOK /\ Idle \in Work /\ "idle" \in Steps
  BY IdleIsWork DEF IInv, Steps
<1>4. /\ pc'[r] = "idle" /\ work'[r] = Idle
      /\ \A q \in Requests \ {r} : pc'[q] = pc[q] /\ work'[q] = work[q]
      /\ pc' \in [Requests -> Steps] /\ work' \in [Requests -> Work]
  BY <1>1, <1>3, StepMoves
<1>5. unsure' = unsure \cup {work[x].phone : x \in {q \in {r} : pc[q] \in Unsent}}
  BY <1>1
<1>6. /\ {r} \in SUBSET Requests
      /\ \A x \in {r} : pc'[x] = "idle" /\ work'[x] = Idle
      /\ token' \in {token, NoToken}
      /\ UNCHANGED <<code, cooldown, good, texted, screen>>
  BY <1>1, <1>4
<1>7. QED
  BY <1>2, <1>4, <1>5, <1>6, CutOK

LEMMA RestartOK ==
    ASSUME IInv, Restart
    PROVE  IInv'
<1>1. faults' \in 0 .. MaxFaults
  BY BoundIsNatural DEF Restart, IInv, TypeOK
<1>2. /\ pc' \in [Requests -> Steps] /\ work' \in [Requests -> Work]
      /\ \A r \in Requests : pc'[r] = "idle" /\ work'[r] = Idle
  BY IdleIsWork DEF Restart, Steps
<1>3. QED
  BY <1>1, <1>2, CutOK DEF Restart, redis

----------------------------------------------------------------------------
\* Whatever overlaps, expires or is cut off, what the two properties need stays true.
THEOREM RecoveryInvariant == Spec => []IInv
<1>1. Init => IInv
  <2> SUFFICES ASSUME Init PROVE IInv
    OBVIOUS
  <2>1. TypeOK
    BY IdleIsWork, BoundIsNatural DEF Init, TypeOK, Steps
  <2>2. Idle.phone = NoPhone /\ ~Idle.own /\ "idle" \notin Unsent
    BY DEF Idle, Unsent
  <2>3. WorkOK
    BY <2>2 DEF Init, WorkOK, RequestOK
  <2>4. AloneOK
    BY <2>2, NullsAreNotIds DEF Init, AloneOK, InFlight
  <2>5. CodeOK
    BY DEF Init, CodeOK
  <2>6. QED
    BY <2>1, <2>3, <2>4, <2>5 DEF IInv
<1>2. IInv /\ [Next]_vars => IInv'
  <2> SUFFICES ASSUME IInv, [Next]_vars PROVE IInv'
    OBVIOUS
  <2>1. ASSUME NEW r \in Requests, Backend(r)
        PROVE  IInv'
    BY <2>1, StoreCodeOK, StoreCooldownOK, GetTokenOK, LogInOK, PostOK, RefusedOK, ReadCodeOK,
       ConsumeCodeOK, ScreensOK DEF Backend
  <2>2. ASSUME NEW p \in Phones, App(p)
        PROVE  IInv'
    <3>1. CASE Back(p)
      BY <3>1, BackOK
    <3>2. ASSUME NEW r \in Requests,
                 AskOnCooldown(r, p) \/ Ask(r, p) \/ EnterCode(r, p) \/ Mistype(r, p)
          PROVE  IInv'
      <4>1. texted[p] \in Codes \cup {NoCode}
        BY DEF IInv, TypeOK
      <4>2. QED
        BY <3>2, <4>1, SubmitOK DEF AskOnCooldown, Ask, EnterCode, Mistype
    <3>3. QED
      BY <2>2, <3>1, <3>2 DEF App
  <2>3. CASE UNCHANGED vars
    BY <2>3 DEF IInv, vars, redis, gateway, TypeOK, WorkOK, RequestOK, AloneOK, CodeOK, InFlight
  <2>4. QED
    BY <2>1, <2>2, <2>3, FailOK, ExpiryOK, RestartOK DEF Next
<1>3. QED
  BY <1>1, <1>2, PTL DEF Spec

\* The type of every key, screen and local variable.
THEOREM TypeCorrect == Spec => []TypeOK
  BY RecoveryInvariant, PTL DEF IInv

\* sms.service.ts:64-65, README.md:460-467: the retry of a refused message has a token that the
\* gateway accepts, and the code in Redis is the one of the last message.
THEOREM LastMessage == Spec => []LastMessageWorks
<1>1. IInv => LastMessageWorks
  BY DEF IInv, WorkOK, RequestOK, CodeOK, LastMessageWorks
<1>2. QED
  BY <1>1, RecoveryInvariant, PTL

=============================================================================
