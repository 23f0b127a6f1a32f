------------------------ MODULE AuthSessions_proofs ------------------------
(***************************************************************************)
(* What holds of AuthSessions for any number of accounts, tokens, codes    *)
(* and requests in flight, however they interleave and wherever they stop; *)
(* and then what holds besides of the accounts whose requests have never   *)
(* overlapped. At the end, what clients see of the sessions is shown to    *)
(* implement SessionLifecycle.                                             *)
(***************************************************************************)
EXTENDS SessionRefinement, TLAPS

\* A family has one account, that of its first token, and a token nobody issued is unrevoked.
RowsOK ==
    /\ \A t \in Issued :
          /\ token[t].user \in Users
          /\ token[t].family \in Issued
          /\ token[token[t].family].user = token[t].user
    /\ \A t \in Tokens : token[t].revoked => t \in Issued

\* What a handler remembers: the token it was given was issued to its account.
RequestOK(r) == pc[r] # "idle" =>
    /\ work[r].user \in Users
    /\ work[r].token # NoToken =>
          work[r].token \in held /\ token[work[r].token].user = work[r].user
    /\ pc[r] \in {"rotating", "reuse", "logout"} => work[r].token # NoToken
    /\ pc[r] = "verified" => work[r].token = NoToken
    /\ pc[r] \in {"verified", "matched", "saving"} => work[r].password \in Passwords
    /\ pc[r] \in {"stored", "matched", "saving"} => work[r].code \in Codes

\* The successor it has issued is known to nobody yet, and lives as long as its family.
SuccessorOK(r) == pc[r] = "rotating" =>
    /\ work[r].next \in Issued \ held
    /\ token[work[r].next].family = token[work[r].token].family
    /\ token[work[r].next].user = work[r].user
    /\ ended[token[work[r].token].family] = "no" => ~token[work[r].next].revoked

SuccessorsDiffer == \A q, r \in Requests :
    pc[q] = "rotating" /\ pc[r] = "rotating" /\ work[q].next = work[r].next => q = r

WorkOK == (\A r \in Requests : RequestOK(r) /\ SuccessorOK(r)) /\ SuccessorsDiffer

IInv == TypeOK /\ RowsOK /\ WorkOK /\ RotationStaysInFamily /\ FamilyStaysAlive

----------------------------------------------------------------------------
\* Taking and leaving a slot keep the types of what slots hold.
LEMMA SlotsTyped ==
    ASSUME TypeOK, NEW r \in Requests
    PROVE  /\ Idle \in Work
           /\ Finish(r) => /\ pc' \in [Requests -> Steps]
                           /\ work' \in [Requests -> Work]
                           /\ raced' \subseteq Users
           /\ \A w \in Work : \A step \in {"verified", "issuing", "reuse", "logout", "drawing",
                                           "matched"} :
                 w.user \in Users /\ Begin(r, step, w) =>
                    /\ pc' \in [Requests -> Steps]
                    /\ work' \in [Requests -> Work]
                    /\ raced' \subseteq Users
<1>1. Idle \in Work
  BY DEF Idle, Work
<1>2. ASSUME Finish(r)
      PROVE  /\ pc' \in [Requests -> Steps]
             /\ work' \in [Requests -> Work]
             /\ raced' \subseteq Users
  BY <1>1, <1>2 DEF TypeOK, Finish, Steps
<1>3. ASSUME NEW w \in Work, w.user \in Users,
             NEW step \in {"verified", "issuing", "reuse", "logout", "drawing", "matched"},
             Begin(r, step, w)
      PROVE  /\ pc' \in [Requests -> Steps]
             /\ work' \in [Requests -> Work]
             /\ raced' \subseteq Users
  <2>1. pc' \in [Requests -> Steps]
    BY <1>3 DEF TypeOK, Begin, Steps
  <2>2. work' \in [Requests -> Work]
    BY <1>3 DEF TypeOK, Begin
  <2>3. raced' \subseteq Users
    BY <1>3 DEF TypeOK, Begin
  <2>4. QED
    BY <2>1, <2>2, <2>3
<1>4. QED
  BY <1>1, <1>2, <1>3

\* Issuing a token adds it to the issued ones and changes no row but its own.
LEMMA IssueAdds ==
    ASSUME TypeOK, NEW t \in Tokens, t \notin Issued, NEW u \in Users, NEW f \in Tokens,
           token' = [token EXCEPT ![t] = Row(u, f)]
    PROVE  /\ token' \in [Tokens -> TokenRows]
           /\ Issued' = Issued \cup {t}
           /\ token'[t] = Row(u, f)
           /\ \A s \in Tokens \ {t} : token'[s] = token[s]
<1>1. Row(u, f) \in TokenRows
  BY DEF Row, TokenRows
<1>2. /\ token' \in [Tokens -> TokenRows]
      /\ token'[t] = Row(u, f)
      /\ \A s \in Tokens \ {t} : token'[s] = token[s]
  BY <1>1 DEF TypeOK
<1>3. Row(u, f).family # NoToken
  BY NullsAreNotIds DEF Row
<1>4. Issued' = Issued \cup {t}
  BY <1>2, <1>3 DEF Issued
<1>5. QED
  BY <1>2, <1>4

\* Revoking tokens changes nothing else of any row.
LEMMA RevokeOnlyRevokes ==
    ASSUME TypeOK, NEW ts, Revoke(ts)
    PROVE  /\ token' \in [Tokens -> TokenRows]
           /\ Issued' = Issued
           /\ \A t \in Tokens :
                 /\ token'[t].user = token[t].user
                 /\ token'[t].family = token[t].family
                 /\ token'[t].next = token[t].next
                 /\ token'[t].revoked = (token[t].revoked \/ t \in ts)
<1>1. ASSUME NEW t \in Tokens
      PROVE  /\ token'[t] \in TokenRows
             /\ token'[t].user = token[t].user
             /\ token'[t].family = token[t].family
             /\ token'[t].next = token[t].next
             /\ token'[t].revoked = (token[t].revoked \/ t \in ts)
  <2>1. token[t] \in TokenRows
    BY DEF TypeOK
  <2>2. CASE t \in ts
    <3>1. token'[t] = [token[t] EXCEPT !.revoked = TRUE]
      BY <2>2 DEF Revoke
    <3>2. QED
      BY <2>1, <2>2, <3>1 DEF TokenRows
  <2>3. CASE t \notin ts
    <3>1. token'[t] = token[t]
      BY <2>3 DEF Revoke
    <3>2. QED
      BY <2>1, <2>3, <3>1 DEF TokenRows
  <2>4. QED
    BY <2>2, <2>3
<1>2. token' \in [Tokens -> TokenRows]
  BY <1>1 DEF Revoke
<1>3. Issued' = Issued
  BY <1>1 DEF Issued
<1>4. QED
  BY <1>1, <1>2, <1>3

\* A rotation revokes the token it replaces and names the successor there, and changes nothing else.
LEMMA RotateReplaces ==
    ASSUME TypeOK, WorkOK, NEW r \in Requests, Rotate(r)
    PROVE  /\ work[r].token \in Tokens
           /\ work[r].token \in Issued
           /\ work[r].next \in Issued
           /\ token' \in [Tokens -> TokenRows]
           /\ Issued' = Issued
           /\ \A t \in Tokens :
                 /\ token'[t].user = token[t].user
                 /\ token'[t].family = token[t].family
                 /\ t # work[r].token => token'[t] = token[t]
           /\ token'[work[r].token].revoked
           /\ token'[work[r].token].next = work[r].next
<1> DEFINE old == work[r].token
           row == [token[old] EXCEPT !.revoked = TRUE, !.next = work[r].next]
<1>1. old \in Tokens /\ old \in Issued /\ work[r].next \in Issued /\ work[r].next \in Tokens
  BY DEF Rotate, TypeOK, WorkOK, RequestOK, SuccessorOK, Issued
<1>2. token[old] \in TokenRows
  BY <1>1 DEF TypeOK
<1>3. /\ row \in TokenRows
      /\ row.user = token[old].user
      /\ row.family = token[old].family
      /\ row.revoked
      /\ row.next = work[r].next
  BY <1>1, <1>2 DEF TokenRows
<1>4. token' = [token EXCEPT ![old] = row]
  BY <1>1, <1>2 DEF Rotate, TypeOK, TokenRows
<1> HIDE DEF row, old
<1>5. /\ token' \in [Tokens -> TokenRows]
      /\ token'[old] = row
      /\ \A t \in Tokens : t # old => token'[t] = token[t]
  BY <1>1, <1>3, <1>4 DEF TypeOK
<1>6. Issued' = Issued
  BY <1>1, <1>3, <1>5 DEF Issued
<1>7. QED
  BY <1>1, <1>3, <1>5, <1>6 DEF old

\* Types are kept by every step.
LEMMA TypePreserved == TypeOK /\ RowsOK /\ WorkOK /\ [Next]_vars => TypeOK'
<1> SUFFICES ASSUME TypeOK, RowsOK, WorkOK, [Next]_vars
             PROVE  TypeOK'
  OBVIOUS
<1> USE NullsAreNotIds
<1>1. ASSUME NEW r \in Requests, NEW u \in Users, StartLogin(r, u)
      PROVE  TypeOK'
  BY <1>1 DEF TypeOK, StartLogin, Begin, Idle, Work, Issued, users, otp, tokens, Steps
<1>2. ASSUME NEW r \in Requests, RecordLogin(r)
      PROVE  TypeOK'
  BY <1>2 DEF TypeOK, WorkOK, RequestOK, SuccessorOK, RecordLogin, Continue, Issued, otp, tokens, Steps
<1>3. ASSUME NEW r \in Requests, NEW t \in Tokens, IssueFirst(r, t)
      PROVE  TypeOK'
  <2>1. work[r].user \in Users
    BY <1>3 DEF IssueFirst, WorkOK, RequestOK, SuccessorOK
  <2>2. token' \in [Tokens -> TokenRows] /\ Issued' = Issued \cup {t}
    BY <1>3, <2>1, IssueAdds DEF IssueFirst
  <2>3. held' \subseteq Issued'
    BY <1>3, <2>2 DEF IssueFirst, Answer, TypeOK
  <2>4. QED
    BY <1>3, <2>2, <2>3, SlotsTyped DEF IssueFirst, TypeOK, users, otp
<1>4. ASSUME NEW r \in Requests, NEW t \in Tokens, IssueNext(r, t)
      PROVE  TypeOK'
  <2>1. work[r].user \in Users /\ token[work[r].token].family \in Tokens
    BY <1>4 DEF IssueNext, Continue, WorkOK, RequestOK, SuccessorOK, RowsOK, TypeOK, Issued
  <2>2. token' \in [Tokens -> TokenRows] /\ Issued' = Issued \cup {t}
    BY <1>4, <2>1, IssueAdds DEF IssueNext
  <2>3. work' \in [Requests -> Work]
    <3>1. work[r] \in Work
      BY DEF TypeOK
    <3>2. [work[r] EXCEPT !.next = t] \in Work
      BY <3>1 DEF Work
    <3>3. work' = [work EXCEPT ![r] = [work[r] EXCEPT !.next = t]]
      BY <1>4 DEF IssueNext, TypeOK
    <3>4. QED
      BY <3>2, <3>3 DEF TypeOK
  <2>4. QED
    BY <1>4, <2>2, <2>3 DEF IssueNext, Continue, TypeOK, users, otp, Steps
<1>5. ASSUME NEW r \in Requests, NEW t \in held,
             StartRefresh(r, t) \/ StartReuse(r, t) \/ StartLogout(r, t)
      PROVE  TypeOK'
  <2> DEFINE w == [Idle EXCEPT !.user = token[t].user, !.token = t]
  <2>1. t \in Tokens /\ token[t].user \in Users
    BY DEF TypeOK, RowsOK, Issued
  <2>2. w \in Work /\ w.user \in Users
    BY <2>1 DEF Idle, Work
  <2>3. \E step \in {"issuing", "reuse", "logout"} : Begin(r, step, w)
    BY <1>5 DEF StartRefresh, StartReuse, StartLogout
  <2> HIDE DEF w
  <2>4. UNCHANGED <<users, otp, tokens>>
    BY <1>5 DEF StartRefresh, StartReuse, StartLogout
  <2>5. /\ pc' \in [Requests -> Steps]
        /\ work' \in [Requests -> Work]
        /\ raced' \subseteq Users
    BY <2>2, <2>3, SlotsTyped
  <2>6. QED
    BY <2>4, <2>5 DEF TypeOK, Issued, users, otp, tokens
<1>6. ASSUME NEW r \in Requests, Rotate(r)
      PROVE  TypeOK'
  <2>1. /\ token' \in [Tokens -> TokenRows]
        /\ Issued' = Issued
        /\ work[r].next \in Issued
    BY <1>6, RotateReplaces
  <2>2. held' \subseteq Issued'
    BY <1>6, <2>1 DEF Rotate, Answer, TypeOK
  <2>3. QED
    BY <1>6, <2>1, <2>2, SlotsTyped DEF Rotate, TypeOK, users, otp
<1>7. ASSUME NEW r \in Requests, EndFamily(r)
      PROVE  TypeOK'
  <2>1. token' \in [Tokens -> TokenRows] /\ Issued' = Issued
    BY <1>7, RevokeOnlyRevokes DEF EndFamily
  <2>2. ended' \in [Tokens -> {"no", "reuse", "logout", "reset"}]
    BY <1>7 DEF EndFamily, TypeOK
  <2>3. QED
    BY <1>7, <2>1, <2>2, SlotsTyped DEF EndFamily, TypeOK, users, otp
<1>8. ASSUME NEW r \in Requests, NEW u \in Users, StartForgot(r, u)
      PROVE  TypeOK'
  BY <1>8 DEF TypeOK, StartForgot, Begin, Idle, Work, Issued, users, otp, tokens, Steps
<1>9. ASSUME NEW r \in Requests, NEW k \in Codes, StoreCode(r, k)
      PROVE  TypeOK'
  <2>1. pc' \in [Requests -> Steps] /\ UNCHANGED raced
    BY <1>9 DEF TypeOK, StoreCode, Continue, Steps
  <2>2. code' \in [Users -> Codes \cup {NoCode}]
    BY <1>9 DEF TypeOK, StoreCode
  <2>3. fate' \in [Codes -> {"unused", "drawn", "sent", "spent"}]
    BY <1>9 DEF TypeOK, StoreCode
  <2>4. work' \in [Requests -> Work]
    <3>1. work[r] \in Work
      BY DEF TypeOK
    <3>2. [work[r] EXCEPT !.code = k] \in Work
      BY <3>1 DEF Work
    <3>3. work' = [work EXCEPT ![r] = [work[r] EXCEPT !.code = k]]
      BY <1>9 DEF StoreCode, TypeOK
    <3>4. QED
      BY <3>2, <3>3 DEF TypeOK
  <2>5. UNCHANGED <<cooldown, users, tokens>>
    BY <1>9 DEF StoreCode
  <2>6. QED
    BY <2>1, <2>2, <2>3, <2>4, <2>5 DEF TypeOK, Issued, users, tokens
<1>10. ASSUME NEW r \in Requests, StoreCooldown(r)
       PROVE  TypeOK'
  BY <1>10 DEF TypeOK, WorkOK, RequestOK, SuccessorOK, StoreCooldown, Finish, Idle, Work, Issued, users, tokens, Steps
<1>11. ASSUME NEW r \in Requests, NEW u \in Users, NEW p \in Passwords, StartReset(r, u, p)
       PROVE  TypeOK'
  BY <1>11 DEF TypeOK, StartReset, Begin, Idle, Work, Issued, users, otp, tokens, Steps
<1>12. ASSUME NEW r \in Requests, ConsumeCode(r)
       PROVE  TypeOK'
  BY <1>12 DEF TypeOK, WorkOK, RequestOK, SuccessorOK, ConsumeCode, Continue, Issued, users, tokens, Steps
<1>13. ASSUME NEW r \in Requests, SavePassword(r)
       PROVE  TypeOK'
  BY <1>13 DEF TypeOK, WorkOK, RequestOK, SuccessorOK, SavePassword, Continue, Issued, tokens, Steps
<1>14. ASSUME NEW r \in Requests, RevokeAll(r)
       PROVE  TypeOK'
  <2>1. token' \in [Tokens -> TokenRows] /\ Issued' = Issued
    BY <1>14, RevokeOnlyRevokes DEF RevokeAll
  <2>2. ended' \in [Tokens -> {"no", "reuse", "logout", "reset"}]
    BY <1>14 DEF RevokeAll, TypeOK
  <2>3. QED
    BY <1>14, <2>1, <2>2, SlotsTyped DEF RevokeAll, TypeOK, users, otp
<1>15. ASSUME NEW r \in Requests, Fail(r)
       PROVE  TypeOK'
  BY <1>15 DEF TypeOK, Fail, Finish, Idle, Work, Issued, users, otp, tokens, Steps
<1>16. ASSUME NEW t \in held, ExpireToken(t)
       PROVE  TypeOK'
  BY <1>16 DEF TypeOK, ExpireToken, Issued, users, otp
<1>17. ASSUME NEW u \in Users, ExpireCode(u) \/ ExpireCooldown(u)
       PROVE  TypeOK'
  BY <1>17 DEF TypeOK, ExpireCode, ExpireCooldown, Issued, users, tokens
<1>18. CASE UNCHANGED vars
  BY <1>18 DEF TypeOK, vars, Issued
<1>19. QED
  BY <1>1, <1>2, <1>3, <1>4, <1>5, <1>6, <1>7, <1>8, <1>9, <1>10, <1>11, <1>12, <1>13, <1>14, <1>15,
     <1>16, <1>17, <1>18
     DEF Next, Session, Recovery

----------------------------------------------------------------------------
\* The steps that write rows of refresh_tokens; every other one leaves them as they are.
LEMMA TokenSteps ==
    ASSUME [Next]_vars
    PROVE  \/ UNCHANGED <<token, ended>>
           \/ \E r \in Requests : \/ \E t \in Tokens : IssueFirst(r, t) \/ IssueNext(r, t)
                                  \/ Rotate(r)
                                  \/ EndFamily(r)
                                  \/ RevokeAll(r)
  BY DEF Next, Session, Recovery, StartLogin, RecordLogin, StartRefresh, StartReuse, StartLogout,
         StartForgot, StoreCode, StoreCooldown, StartReset, ConsumeCode, SavePassword, Fail,
         ExpireToken, ExpireCode, ExpireCooldown, tokens, vars

\* A new row names no successor, and its family is its own or one that is there with its account.
LEMMA IssuesWell ==
    ASSUME TypeOK, RowsOK, WorkOK, NEW r \in Requests, NEW t \in Tokens,
           IssueFirst(r, t) \/ IssueNext(r, t)
    PROVE  \E u \in Users, f \in Issued \cup {t} :
              /\ t \notin Issued
              /\ token' = [token EXCEPT ![t] = Row(u, f)]
              /\ f # t => token[f].user = u
              /\ ended' = ended
<1>1. CASE IssueFirst(r, t)
  <2>1. work[r].user \in Users
    BY <1>1 DEF IssueFirst, WorkOK, RequestOK, SuccessorOK
  <2>2. QED
    BY <1>1, <2>1 DEF IssueFirst
<1>2. CASE IssueNext(r, t)
  <2> DEFINE old == work[r].token
  <2>1. /\ work[r].user \in Users
        /\ old \in Issued
        /\ token[old].user = work[r].user
    BY <1>2 DEF IssueNext, Continue, WorkOK, RequestOK, SuccessorOK, TypeOK
  <2>2. token[old].family \in Issued /\ token[token[old].family].user = work[r].user
    BY <2>1 DEF RowsOK
  <2>3. QED
    BY <1>2, <2>1, <2>2 DEF IssueNext
<1>3. QED
  BY <1>1, <1>2

\* Revoked tokens stay revoked, whatever step is taken.
LEMMA StaysRevoked ==
    ASSUME TypeOK, RowsOK, WorkOK, [Next]_vars
    PROVE  \A t \in Tokens : token[t].revoked => token'[t].revoked
<1>1. CASE UNCHANGED <<token, ended>>
  BY <1>1
<1>2. ASSUME NEW r \in Requests, NEW t \in Tokens, IssueFirst(r, t) \/ IssueNext(r, t)
      PROVE  \A s \in Tokens : token[s].revoked => token'[s].revoked
  <2>1. PICK u \in Users, f \in Issued \cup {t} :
           t \notin Issued /\ token' = [token EXCEPT ![t] = Row(u, f)]
    BY <1>2, IssuesWell
  <2>2. \A s \in Tokens \ {t} : token'[s] = token[s]
    BY <2>1 DEF TypeOK
  <2>3. ~token[t].revoked
    BY <2>1 DEF RowsOK
  <2>4. QED
    BY <2>2, <2>3
<1>3. ASSUME NEW r \in Requests, Rotate(r)
      PROVE  \A t \in Tokens : token[t].revoked => token'[t].revoked
  BY <1>3, RotateReplaces
<1>4. ASSUME NEW r \in Requests, EndFamily(r) \/ RevokeAll(r)
      PROVE  \A t \in Tokens : token[t].revoked => token'[t].revoked
  <2>1. \E ts : Revoke(ts)
    BY <1>4 DEF EndFamily, RevokeAll
  <2>2. QED
    BY <2>1, RevokeOnlyRevokes
<1>5. QED
  BY <1>1, <1>2, <1>3, <1>4, TokenSteps

\* The rows stay well formed.
LEMMA RowsPreserved ==
    ASSUME TypeOK, RowsOK, WorkOK, [Next]_vars
    PROVE  RowsOK'
<1>1. CASE UNCHANGED <<token, ended>>
  BY <1>1 DEF RowsOK, Issued
<1>2. ASSUME NEW r \in Requests, NEW t \in Tokens, IssueFirst(r, t) \/ IssueNext(r, t)
      PROVE  RowsOK'
  <2>1. PICK u \in Users, f \in Issued \cup {t} :
           /\ t \notin Issued
           /\ token' = [token EXCEPT ![t] = Row(u, f)]
           /\ f # t => token[f].user = u
    BY <1>2, IssuesWell
  <2>2. f \in Tokens
    BY <2>1 DEF Issued
  <2>3. /\ Issued' = Issued \cup {t}
        /\ token'[t] = Row(u, f)
        /\ \A s \in Tokens \ {t} : token'[s] = token[s]
    BY <2>1, <2>2, IssueAdds
  <2>4. Row(u, f).user = u /\ Row(u, f).family = f /\ ~Row(u, f).revoked
    BY DEF Row
  <2>5. Issued \subseteq Tokens \ {t}
    BY <2>1 DEF Issued
  <2>6. \A s \in Issued' : /\ token'[s].user \in Users
                           /\ token'[s].family \in Issued'
                           /\ token'[token'[s].family].user = token'[s].user
    <3>1. ASSUME NEW s \in Issued
          PROVE  /\ token'[s].user \in Users
                 /\ token'[s].family \in Issued'
                 /\ token'[token'[s].family].user = token'[s].user
      BY <2>3, <2>5 DEF RowsOK
    <3>2. /\ token'[t].user \in Users
          /\ token'[t].family \in Issued'
          /\ token'[token'[t].family].user = token'[t].user
      BY <2>1, <2>3, <2>4, <2>5
    <3>3. QED
      BY <2>3, <3>1, <3>2
  <2>7. \A s \in Tokens : token'[s].revoked => s \in Issued'
    BY <2>3, <2>4 DEF RowsOK
  <2>8. QED
    BY <2>6, <2>7 DEF RowsOK
<1>3. ASSUME NEW r \in Requests, Rotate(r)
      PROVE  RowsOK'
  <2>1. /\ Issued' = Issued
        /\ work[r].token \in Issued
        /\ \A t \in Tokens :
              /\ token'[t].user = token[t].user
              /\ token'[t].family = token[t].family
              /\ t # work[r].token => token'[t] = token[t]
    BY <1>3, RotateReplaces
  <2>2. QED
    BY <2>1 DEF RowsOK, Issued
<1>4. ASSUME NEW r \in Requests, EndFamily(r) \/ RevokeAll(r)
      PROVE  RowsOK'
  <2>1. PICK ts \in SUBSET Issued : Revoke(ts)
    BY <1>4 DEF EndFamily, RevokeAll, Family
  <2>2. Issued' = Issued
    BY <2>1, RevokeOnlyRevokes
  <2>3. ASSUME NEW t \in Tokens
        PROVE  /\ token'[t].user = token[t].user
               /\ token'[t].family = token[t].family
               /\ token'[t].revoked => token[t].revoked \/ t \in ts
    BY <2>1, RevokeOnlyRevokes
  <2>4. Issued \subseteq Tokens
    BY DEF Issued
  <2>5. ASSUME NEW t \in Issued
        PROVE  /\ token'[t].user \in Users
               /\ token'[t].family \in Issued
               /\ token'[token'[t].family].user = token'[t].user
    <3>1. /\ t \in Tokens
          /\ token[t].user \in Users
          /\ token[t].family \in Issued
          /\ token[t].family \in Tokens
          /\ token[token[t].family].user = token[t].user
      BY <2>4 DEF RowsOK
    <3>2. QED
      BY <2>3, <3>1
  <2>6. ASSUME NEW t \in Tokens, token'[t].revoked
        PROVE  t \in Issued
    BY <2>1, <2>3, <2>6 DEF RowsOK
  <2>7. QED
    BY <2>2, <2>5, <2>6 DEF RowsOK
<1>5. QED
  BY <1>1, <1>2, <1>3, <1>4, TokenSteps

\* Successors stay in the family and with the account.
LEMMA RotationPreserved ==
    ASSUME TypeOK, RowsOK, WorkOK, RotationStaysInFamily, [Next]_vars
    PROVE  RotationStaysInFamily'
<1>1. CASE UNCHANGED <<token, ended>>
  BY <1>1 DEF RotationStaysInFamily, Issued
<1>2. ASSUME NEW r \in Requests, NEW t \in Tokens, IssueFirst(r, t) \/ IssueNext(r, t)
      PROVE  RotationStaysInFamily'
  <2>1. PICK u \in Users, f \in Issued \cup {t} :
           t \notin Issued /\ token' = [token EXCEPT ![t] = Row(u, f)]
    BY <1>2, IssuesWell
  <2>2. /\ Issued' = Issued \cup {t}
        /\ token'[t] = Row(u, f)
        /\ \A s \in Tokens \ {t} : token'[s] = token[s]
    BY <2>1, IssueAdds DEF Issued
  <2>3. Row(u, f).next = NoToken
    BY DEF Row
  <2>4. Issued \subseteq Tokens \ {t}
    BY <2>1 DEF Issued
  <2>5. QED
    BY <2>2, <2>3, <2>4 DEF RotationStaysInFamily
<1>3. ASSUME NEW r \in Requests, Rotate(r)
      PROVE  RotationStaysInFamily'
  <2> DEFINE old == work[r].token
             new == work[r].next
  <2>1. /\ token[new].family = token[old].family
        /\ token[new].user = token[old].user
    BY <1>3 DEF Rotate, WorkOK, RequestOK, SuccessorOK
  <2>2. /\ old \in Tokens
        /\ new \in Issued
        /\ Issued' = Issued
        /\ \A t \in Tokens :
              /\ token'[t].user = token[t].user
              /\ token'[t].family = token[t].family
              /\ t # old => token'[t] = token[t]
        /\ token'[old].revoked
        /\ token'[old].next = new
    BY <1>3, RotateReplaces
  <2> HIDE DEF old, new
  <2>3. QED
    BY <2>1, <2>2 DEF RotationStaysInFamily, Issued
<1>4. ASSUME NEW r \in Requests, EndFamily(r) \/ RevokeAll(r)
      PROVE  RotationStaysInFamily'
  <2>1. \E ts : Revoke(ts)
    BY <1>4 DEF EndFamily, RevokeAll
  <2>2. /\ Issued' = Issued
        /\ \A t \in Tokens :
              /\ token'[t].user = token[t].user
              /\ token'[t].family = token[t].family
              /\ token'[t].next = token[t].next
              /\ token[t].revoked => token'[t].revoked
    BY <2>1, RevokeOnlyRevokes
  <2>3. QED
    BY <2>2 DEF RotationStaysInFamily, Issued
<1>5. QED
  BY <1>1, <1>2, <1>3, <1>4, TokenSteps

\* EndFamily and RevokeAll end the family of every token they revoke.
LEMMA EndsWhatItRevokes ==
    ASSUME TypeOK, RowsOK, NEW r \in Requests, EndFamily(r) \/ RevokeAll(r)
    PROVE  \E ts \in SUBSET Issued :
              /\ Revoke(ts)
              /\ \A t \in Issued : ended'[token[t].family] = "no" =>
                    /\ ended[token[t].family] = "no"
                    /\ \A s \in ts : token[s].family # token[t].family
<1>1. \A t \in Issued : token[t].family \in Tokens
  BY DEF RowsOK, Issued
<1>2. CASE EndFamily(r)
  <2> DEFINE f == token[work[r].token].family
  <2>1. ended' = [ended EXCEPT ![f] = pc[r]] /\ pc[r] # "no" /\ Revoke(Family(f))
    BY <1>2 DEF EndFamily
  <2> HIDE DEF f
  <2>2. QED
    BY <1>1, <2>1 DEF Family, TypeOK
<1>3. CASE RevokeAll(r)
  <2> DEFINE all == {t \in Issued : token[t].user = work[r].user}
  <2>1. /\ Revoke(all)
        /\ ended' = [f \in Tokens |->
              IF \E t \in all : token[t].family = f THEN "reset" ELSE ended[f]]
    BY <1>3 DEF RevokeAll
  <2>2. all \in SUBSET Issued
    OBVIOUS
  <2> HIDE DEF all
  <2>3. QED
    BY <1>1, <2>1, <2>2
<1>4. QED
  BY <1>2, <1>3

\* A family that loses a token by rotation has its successor, and one that loses all has ended.
LEMMA FamilyPreserved ==
    ASSUME TypeOK, RowsOK, WorkOK, FamilyStaysAlive, [Next]_vars
    PROVE  FamilyStaysAlive'
<1>1. CASE UNCHANGED <<token, ended>>
  BY <1>1 DEF FamilyStaysAlive, Family, Issued
<1>2. ASSUME NEW r \in Requests, NEW t \in Tokens, IssueFirst(r, t) \/ IssueNext(r, t)
      PROVE  FamilyStaysAlive'
  <2>1. PICK u \in Users, f \in Issued \cup {t} :
           /\ t \notin Issued
           /\ token' = [token EXCEPT ![t] = Row(u, f)]
           /\ ended' = ended
    BY <1>2, IssuesWell
  <2>2. /\ Issued' = Issued \cup {t}
        /\ token'[t] = Row(u, f)
        /\ \A s \in Tokens \ {t} : token'[s] = token[s]
    BY <2>1, IssueAdds DEF Issued
  <2>3. Row(u, f).family = f /\ ~Row(u, f).revoked
    BY DEF Row
  <2>4. Issued \subseteq Tokens \ {t}
    BY <2>1 DEF Issued
  <2>5. SUFFICES ASSUME NEW s \in Issued', ended[token'[s].family] = "no"
                 PROVE  \E l \in Issued' : token'[l].family = token'[s].family /\ ~token'[l].revoked
    BY <2>1 DEF FamilyStaysAlive, Family
  <2>6. CASE s = t
    BY <2>2, <2>3, <2>6
  <2>7. CASE s \in Issued
    <3>1. PICK l \in Issued : token[l].family = token[s].family /\ ~token[l].revoked
      BY <2>2, <2>4, <2>5, <2>7 DEF FamilyStaysAlive, Family
    <3>2. QED
      BY <2>2, <2>4, <2>7, <3>1
  <2>8. QED
    BY <2>2, <2>6, <2>7
<1>3. ASSUME NEW r \in Requests, Rotate(r)
      PROVE  FamilyStaysAlive'
  <2> DEFINE old == work[r].token
             new == work[r].next
  <2>1. /\ old \in held
        /\ new \in Issued \ held
        /\ token[new].family = token[old].family
        /\ ended[token[old].family] = "no" => ~token[new].revoked
        /\ ended' = ended
    BY <1>3 DEF Rotate, WorkOK, RequestOK, SuccessorOK
  <2>2. /\ Issued' = Issued
        /\ \A t \in Tokens :
              /\ token'[t].family = token[t].family
              /\ t # old => token'[t] = token[t]
    BY <1>3, RotateReplaces
  <2> HIDE DEF old, new
  <2>3. SUFFICES ASSUME NEW s \in Issued, ended[token[s].family] = "no"
                 PROVE  \E l \in Issued : token[l].family = token[s].family /\ ~token'[l].revoked
    BY <2>1, <2>2 DEF FamilyStaysAlive, Family, Issued
  <2>4. PICK l \in Issued : token[l].family = token[s].family /\ ~token[l].revoked
    BY <2>3 DEF FamilyStaysAlive, Family
  <2>5. CASE l = old
    BY <2>1, <2>2, <2>3, <2>4, <2>5 DEF Issued
  <2>6. CASE l # old
    BY <2>2, <2>4, <2>6 DEF Issued
  <2>7. QED
    BY <2>5, <2>6
<1>4. ASSUME NEW r \in Requests, EndFamily(r) \/ RevokeAll(r)
      PROVE  FamilyStaysAlive'
  <2>1. PICK ts \in SUBSET Issued :
           /\ Revoke(ts)
           /\ \A t \in Issued : ended'[token[t].family] = "no" =>
                 /\ ended[token[t].family] = "no"
                 /\ \A s \in ts : token[s].family # token[t].family
    BY <1>4, EndsWhatItRevokes
  <2>2. /\ Issued' = Issued
        /\ \A t \in Tokens :
              /\ token'[t].family = token[t].family
              /\ token'[t].revoked = (token[t].revoked \/ t \in ts)
    BY <2>1, RevokeOnlyRevokes
  <2>3. SUFFICES ASSUME NEW s \in Issued, ended'[token[s].family] = "no"
                 PROVE  \E l \in Issued : token[l].family = token[s].family /\ ~token'[l].revoked
    BY <2>2 DEF FamilyStaysAlive, Family, Issued
  <2>4. PICK l \in Issued : token[l].family = token[s].family /\ ~token[l].revoked
    BY <2>1, <2>3 DEF FamilyStaysAlive, Family
  <2>5. QED
    BY <2>1, <2>2, <2>3, <2>4 DEF Issued
<1>5. QED
  BY <1>1, <1>2, <1>3, <1>4, TokenSteps

----------------------------------------------------------------------------
\* A step is a step of one request, or of none.
LEMMA OneMoves ==
    ASSUME TypeOK, [Next]_vars
    PROVE  \/ pc' = pc /\ work' = work
           \/ \E r \in Requests :
                 /\ Session(r) \/ Recovery(r) \/ Fail(r)
                 /\ \A q \in Requests \ {r} : pc'[q] = pc[q] /\ work'[q] = work[q]
<1>1. CASE UNCHANGED vars
  BY <1>1 DEF vars
<1>2. CASE \E t \in held : ExpireToken(t)
  BY <1>2 DEF ExpireToken
<1>3. CASE \E u \in Users : ExpireCode(u) \/ ExpireCooldown(u)
  BY <1>3 DEF ExpireCode, ExpireCooldown
<1>4. ASSUME NEW r \in Requests, Session(r) \/ Recovery(r) \/ Fail(r)
      PROVE  \A q \in Requests \ {r} : pc'[q] = pc[q] /\ work'[q] = work[q]
  <2>1. \E step, w : /\ pc' = [pc EXCEPT ![r] = step]
                     /\ work' = work \/ work' = [work EXCEPT ![r] = w]
    BY <1>4 DEF Session, Recovery, Fail, StartLogin, RecordLogin, IssueFirst, StartRefresh, IssueNext,
       Rotate, StartReuse, StartLogout, EndFamily, StartForgot, StoreCode, StoreCooldown, StartReset,
       ConsumeCode, SavePassword, RevokeAll, Begin, Continue, Finish
  <2>2. QED
    BY <2>1 DEF TypeOK
<1>5. QED
  BY <1>1, <1>2, <1>3, <1>4 DEF Next

\* Whoever a row belongs to, it belongs to for good.
LEMMA IdentityKept ==
    ASSUME TypeOK, RowsOK, WorkOK, [Next]_vars
    PROVE  /\ Issued \subseteq Issued'
           /\ \A t \in Issued : token'[t].user = token[t].user /\ token'[t].family = token[t].family
<1>1. CASE UNCHANGED <<token, ended>>
  BY <1>1 DEF Issued
<1>2. ASSUME NEW r \in Requests, NEW t \in Tokens, IssueFirst(r, t) \/ IssueNext(r, t)
      PROVE  /\ Issued \subseteq Issued'
             /\ \A s \in Issued : token'[s].user = token[s].user /\ token'[s].family = token[s].family
  <2>1. PICK u \in Users, f \in Issued \cup {t} :
           t \notin Issued /\ token' = [token EXCEPT ![t] = Row(u, f)]
    BY <1>2, IssuesWell
  <2>2. Issued' = Issued \cup {t} /\ \A s \in Tokens \ {t} : token'[s] = token[s]
    BY <2>1, IssueAdds DEF Issued
  <2>3. QED
    BY <2>1, <2>2 DEF Issued
<1>3. ASSUME NEW r \in Requests, Rotate(r)
      PROVE  /\ Issued \subseteq Issued'
             /\ \A s \in Issued : token'[s].user = token[s].user /\ token'[s].family = token[s].family
  BY <1>3, RotateReplaces DEF Issued
<1>4. ASSUME NEW r \in Requests, EndFamily(r) \/ RevokeAll(r)
      PROVE  /\ Issued \subseteq Issued'
             /\ \A s \in Issued : token'[s].user = token[s].user /\ token'[s].family = token[s].family
  <2>1. \E ts : Revoke(ts)
    BY <1>4 DEF EndFamily, RevokeAll
  <2>2. QED
    BY <2>1, RevokeOnlyRevokes DEF Issued
<1>5. QED
  BY <1>1, <1>2, <1>3, <1>4, TokenSteps

\* No client forgets a token, and no step hands out a successor but the rotation it waits for.
LEMMA HeldGrows ==
    ASSUME TypeOK, WorkOK, [Next]_vars
    PROVE  /\ held \subseteq held'
           /\ \A q \in Requests : pc[q] = "rotating" /\ pc'[q] = "rotating" => work[q].next \notin held'
<1>1. CASE held' = held
  BY <1>1 DEF WorkOK, SuccessorOK
<1>2. ASSUME NEW r \in Requests, NEW t \in Tokens, IssueFirst(r, t)
      PROVE  /\ held \subseteq held'
             /\ \A q \in Requests : pc[q] = "rotating" => work[q].next \notin held'
  BY <1>2 DEF IssueFirst, Answer, WorkOK, SuccessorOK
<1>3. ASSUME NEW r \in Requests, Rotate(r)
      PROVE  /\ held \subseteq held'
             /\ \A q \in Requests :
                   pc[q] = "rotating" /\ pc'[q] = "rotating" => work[q].next \notin held'
  <2>1. pc[r] = "rotating" /\ held' \subseteq held \cup {work[r].next} /\ held \subseteq held'
    BY <1>3 DEF Rotate, Answer
  <2>2. pc'[r] = "idle"
    BY <1>3 DEF Rotate, Finish, TypeOK
  <2>3. QED
    BY <2>1, <2>2 DEF WorkOK, SuccessorOK, SuccessorsDiffer
<1>4. QED
  BY <1>1, <1>2, <1>3
     DEF Next, Session, Recovery, StartLogin, RecordLogin, StartRefresh, IssueNext, StartReuse,
         StartLogout, EndFamily, StartForgot, StoreCode, StoreCooldown, StartReset, ConsumeCode,
         SavePassword, RevokeAll, Fail, ExpireToken, ExpireCode, ExpireCooldown, tokens, vars

\* A successor that is still to be handed out is revoked by nothing but the end of its family.
LEMMA SuccessorLives ==
    ASSUME TypeOK, RowsOK, WorkOK, [Next]_vars, NEW q \in Requests, pc[q] = "rotating",
           ended'[token[work[q].token].family] = "no"
    PROVE  ~token'[work[q].next].revoked
<1> DEFINE new == work[q].next
           fam == token[work[q].token].family
<1>1. /\ work[q].token \in held
      /\ new \in Issued
      /\ new \notin held
      /\ token[new].family = fam
      /\ ended[fam] = "no" => ~token[new].revoked
  BY DEF WorkOK, RequestOK, SuccessorOK
<1> HIDE DEF new, fam
<1>2. CASE UNCHANGED <<token, ended>>
  BY <1>1, <1>2 DEF fam, new
<1>3. ASSUME NEW r \in Requests, NEW t \in Tokens, IssueFirst(r, t) \/ IssueNext(r, t)
      PROVE  ~token'[new].revoked
  <2>1. PICK u \in Users, f \in Issued \cup {t} :
           /\ t \notin Issued
           /\ token' = [token EXCEPT ![t] = Row(u, f)]
           /\ ended' = ended
    BY <1>3, IssuesWell
  <2>2. token'[new] = token[new]
    BY <1>1, <2>1 DEF TypeOK, Issued
  <2>3. QED
    BY <1>1, <2>1, <2>2 DEF fam
<1>4. ASSUME NEW r \in Requests, Rotate(r)
      PROVE  ~token'[new].revoked
  <2>1. work[r].token \in held /\ ended' = ended
    BY <1>4 DEF Rotate, WorkOK, RequestOK
  <2>2. token'[new] = token[new]
    BY <1>1, <1>4, <2>1, RotateReplaces DEF Issued
  <2>3. QED
    BY <1>1, <2>1, <2>2 DEF fam
<1>5. ASSUME NEW r \in Requests, EndFamily(r) \/ RevokeAll(r)
      PROVE  ~token'[new].revoked
  <2>1. PICK ts \in SUBSET Issued :
           /\ Revoke(ts)
           /\ \A t \in Issued : ended'[token[t].family] = "no" =>
                 /\ ended[token[t].family] = "no"
                 /\ \A s \in ts : token[s].family # token[t].family
    BY <1>5, EndsWhatItRevokes
  <2>2. ended[fam] = "no" /\ new \notin ts
    BY <1>1, <2>1 DEF fam
  <2>3. QED
    BY <1>1, <2>1, <2>2, RevokeOnlyRevokes DEF Issued
<1>6. QED
  BY <1>2, <1>3, <1>4, <1>5, TokenSteps DEF new

\* A request that is not the one that moves remembers nothing that has become wrong.
LEMMA OthersKept ==
    ASSUME TypeOK, RowsOK, WorkOK, [Next]_vars, NEW q \in Requests,
           pc'[q] = pc[q], work'[q] = work[q]
    PROVE  RequestOK(q)' /\ SuccessorOK(q)'
<1>1. RequestOK(q) /\ SuccessorOK(q)
  BY DEF WorkOK
<1>2. held \subseteq held' /\ held \subseteq Issued
  BY HeldGrows DEF TypeOK
<1>3. RequestOK(q)'
  BY <1>1, <1>2, IdentityKept DEF RequestOK
<1>4. SuccessorOK(q)'
  <2> SUFFICES ASSUME pc[q] = "rotating"
               PROVE  SuccessorOK(q)'
    BY DEF SuccessorOK
  <2>1. work[q].token \in Issued /\ work[q].next \in Issued
    BY <1>1, <1>2 DEF RequestOK, SuccessorOK
  <2>2. QED
    BY <1>1, <2>1, IdentityKept, HeldGrows, SuccessorLives DEF SuccessorOK
<1>5. QED
  BY <1>3, <1>4

\* The request that moves remembers what it should.
LEMMA MoverKept ==
    ASSUME TypeOK, RowsOK, WorkOK, [Next]_vars, NEW r \in Requests, Session(r) \/ Recovery(r) \/ Fail(r)
    PROVE  RequestOK(r)' /\ SuccessorOK(r)'
<1> USE NullsAreNotIds
<1>1. RequestOK(r) /\ SuccessorOK(r)
  BY DEF WorkOK
<1>2. held \subseteq Issued /\ Issued \subseteq Tokens
  BY DEF TypeOK, Issued
<1>3. ASSUME NEW u \in Users, StartLogin(r, u) \/ StartForgot(r, u)
      PROVE  RequestOK(r)' /\ SuccessorOK(r)'
  <2>1. CASE StartLogin(r, u)
    <3>1. /\ pc'[r] = "verified"
          /\ work'[r] = [Idle EXCEPT !.user = u, !.password = password[u]]
      BY <2>1 DEF StartLogin, Begin, TypeOK
    <3>2. work'[r].user = u /\ work'[r].token = NoToken /\ work'[r].password = password[u]
      BY <3>1 DEF Idle
    <3>3. QED
      BY <3>1, <3>2 DEF RequestOK, SuccessorOK, TypeOK
  <2>2. CASE StartForgot(r, u)
    <3>1. /\ pc'[r] = "drawing"
          /\ work'[r] = [Idle EXCEPT !.user = u]
      BY <2>2 DEF StartForgot, Begin, TypeOK
    <3>2. work'[r].user = u /\ work'[r].token = NoToken
      BY <3>1 DEF Idle
    <3>3. QED
      BY <3>1, <3>2 DEF RequestOK, SuccessorOK
  <2>3. QED
    BY <1>3, <2>1, <2>2
<1>4. ASSUME RecordLogin(r) \/ ConsumeCode(r) \/ SavePassword(r)
      PROVE  RequestOK(r)' /\ SuccessorOK(r)'
  BY <1>1, <1>4 DEF RecordLogin, ConsumeCode, SavePassword, Continue, RequestOK, SuccessorOK, TypeOK,
                    tokens
<1>5. ASSUME NEW t \in held, StartRefresh(r, t) \/ StartReuse(r, t) \/ StartLogout(r, t)
      PROVE  RequestOK(r)' /\ SuccessorOK(r)'
  <2>1. t \in Tokens /\ token[t].user \in Users
    BY <1>2 DEF RowsOK
  <2>2. /\ pc'[r] \in {"issuing", "reuse", "logout"}
        /\ work'[r] = [Idle EXCEPT !.user = token[t].user, !.token = t]
        /\ UNCHANGED tokens
    BY <1>5 DEF StartRefresh, StartReuse, StartLogout, Begin, TypeOK
  <2>3. work'[r].user = token[t].user /\ work'[r].token = t
    BY <2>2 DEF Idle
  <2>4. QED
    BY <2>1, <2>2, <2>3 DEF RequestOK, SuccessorOK, tokens
<1>6. ASSUME NEW t \in Tokens, IssueNext(r, t)
      PROVE  RequestOK(r)' /\ SuccessorOK(r)'
  <2> DEFINE old == work[r].token
             fam == token[old].family
  <2>1. /\ pc[r] = "issuing" /\ pc'[r] = "rotating"
        /\ old \in held
        /\ work[r].user \in Users
        /\ token[old].user = work[r].user
        /\ t \notin Issued
        /\ token' = [token EXCEPT ![t] = Row(work[r].user, fam)]
        /\ held' = held
    BY <1>1, <1>6 DEF IssueNext, Continue, RequestOK, TypeOK
  <2>2. /\ work'[r].user = work[r].user
        /\ work'[r].token = old
        /\ work'[r].next = t
    <3>1. work[r] \in Work /\ work' = [work EXCEPT ![r].next = t]
      BY <1>6 DEF IssueNext, TypeOK
    <3>2. QED
      BY <3>1 DEF Work, TypeOK
  <2>3. fam \in Tokens
    BY <1>2, <2>1 DEF RowsOK
  <2>4. /\ Issued' = Issued \cup {t}
        /\ token'[t] = Row(work[r].user, fam)
        /\ token'[old] = token[old]
    <3> HIDE DEF fam, old
    <3>1. QED
      BY <1>2, <2>1, <2>3, IssueAdds
  <2>5. Row(work[r].user, fam).user = work[r].user /\ Row(work[r].user, fam).family = fam
        /\ ~Row(work[r].user, fam).revoked
    BY DEF Row
  <2> HIDE DEF old
  <2>6. RequestOK(r)'
    BY <1>2, <2>1, <2>2, <2>4 DEF RequestOK
  <2>7. SuccessorOK(r)'
    BY <1>2, <2>1, <2>2, <2>4, <2>5 DEF SuccessorOK
  <2>8. QED
    BY <2>6, <2>7
<1>7. ASSUME NEW k \in Codes, StoreCode(r, k)
      PROVE  RequestOK(r)' /\ SuccessorOK(r)'
  <2>1. work[r] \in Work /\ work' = [work EXCEPT ![r].code = k]
    BY <1>7 DEF StoreCode, TypeOK
  <2>2. /\ work'[r].user = work[r].user
        /\ work'[r].token = work[r].token
        /\ work'[r].code = k
    BY <2>1 DEF Work, TypeOK
  <2>3. pc[r] = "drawing" /\ pc'[r] = "stored" /\ UNCHANGED tokens
    BY <1>7 DEF StoreCode, Continue, TypeOK
  <2>4. QED
    BY <1>1, <2>2, <2>3 DEF RequestOK, SuccessorOK, tokens
<1>8. ASSUME NEW u \in Users, NEW p \in Passwords, StartReset(r, u, p)
      PROVE  RequestOK(r)' /\ SuccessorOK(r)'
  BY <1>8 DEF StartReset, Begin, Idle, RequestOK, SuccessorOK, TypeOK
<1>9. CASE Finish(r)
  <2>1. pc'[r] = "idle"
    BY <1>9 DEF Finish, TypeOK
  <2>2. QED
    BY <2>1 DEF RequestOK, SuccessorOK
<1>10. QED
  <2>1. \/ \E u \in Users : StartLogin(r, u) \/ StartForgot(r, u)
        \/ RecordLogin(r) \/ ConsumeCode(r) \/ SavePassword(r)
        \/ \E t \in held : StartRefresh(r, t) \/ StartReuse(r, t) \/ StartLogout(r, t)
        \/ \E t \in Tokens : IssueNext(r, t)
        \/ \E k \in Codes : StoreCode(r, k)
        \/ \E u \in Users, p \in Passwords : StartReset(r, u, p)
        \/ Finish(r)
    BY DEF Session, Recovery, IssueFirst, Rotate, EndFamily, StoreCooldown, RevokeAll, Fail
  <2>2. QED
    BY <2>1, <1>3, <1>4, <1>5, <1>6, <1>7, <1>8, <1>9

\* Only IssueNext makes a request wait with a successor, and with one that nobody else has.
LEMMA SuccessorsKept ==
    ASSUME TypeOK, WorkOK, [Next]_vars
    PROVE  SuccessorsDiffer'
<1>1. CASE pc' = pc /\ work' = work
  BY <1>1 DEF WorkOK, SuccessorsDiffer
<1>2. ASSUME NEW r \in Requests, Session(r) \/ Recovery(r) \/ Fail(r),
             \A q \in Requests \ {r} : pc'[q] = pc[q] /\ work'[q] = work[q]
      PROVE  SuccessorsDiffer'
  <2>1. CASE \E t \in Tokens : IssueNext(r, t)
    <3>1. PICK t \in Tokens : IssueNext(r, t)
      BY <2>1
    <3>2. work'[r].next = t
      <4>1. work[r] \in Work /\ work' = [work EXCEPT ![r].next = t]
        BY <3>1 DEF IssueNext, TypeOK
      <4>2. QED
        BY <4>1 DEF TypeOK, Work
    <3>3. \A q \in Requests \ {r} : pc[q] = "rotating" => work[q].next # t
      BY <3>1 DEF IssueNext, WorkOK, SuccessorOK
    <3>4. QED
      BY <1>2, <3>2, <3>3 DEF WorkOK, SuccessorsDiffer
  <2>2. CASE pc'[r] # "rotating"
    BY <1>2, <2>2 DEF WorkOK, SuccessorsDiffer
  <2>3. \/ \E t \in Tokens : IssueNext(r, t)
        \/ pc'[r] # "rotating"
    BY <1>2 DEF Session, Recovery, Fail, StartLogin, RecordLogin, IssueFirst, StartRefresh, Rotate,
       StartReuse, StartLogout, EndFamily, StartForgot, StoreCode, StoreCooldown, StartReset,
       ConsumeCode, SavePassword, RevokeAll, Begin, Continue, Finish, TypeOK
  <2>4. QED
    BY <2>1, <2>2, <2>3
<1>3. QED
  BY <1>1, <1>2, OneMoves

LEMMA WorkPreserved ==
    ASSUME TypeOK, RowsOK, WorkOK, [Next]_vars
    PROVE  WorkOK'
<1>1. \A q \in Requests : RequestOK(q)' /\ SuccessorOK(q)'
  <2> TAKE q \in Requests
  <2>1. CASE pc'[q] = pc[q] /\ work'[q] = work[q]
    BY <2>1, OthersKept
  <2>2. CASE Session(q) \/ Recovery(q) \/ Fail(q)
    BY <2>2, MoverKept
  <2>3. QED
    BY <2>1, <2>2, OneMoves
<1>2. QED
  BY <1>1, SuccessorsKept DEF WorkOK

----------------------------------------------------------------------------
LEMMA InitialState == Init => IInv
<1> SUFFICES ASSUME Init
             PROVE  IInv
  OBVIOUS
<1> USE NullsAreNotIds, FirstPasswordIsOne
<1>1. \A t \in Tokens : token[t] = NoRow /\ token[t] \in TokenRows
  BY DEF Init, NoRow, Row, TokenRows
<1>2. Issued = {} /\ \A t \in Tokens : token[t].next = NoToken /\ ~token[t].revoked
  BY <1>1 DEF Issued, NoRow, Row
<1>3. Idle \in Work
  BY DEF Idle, Work
<1>4. TypeOK
  BY <1>1, <1>2, <1>3 DEF Init, TypeOK, Steps
<1>5. RowsOK /\ RotationStaysInFamily /\ FamilyStaysAlive
  BY <1>2 DEF RowsOK, RotationStaysInFamily, FamilyStaysAlive
<1>6. WorkOK
  BY DEF Init, WorkOK, RequestOK, SuccessorOK, SuccessorsDiffer
<1>7. QED
  BY <1>4, <1>5, <1>6 DEF IInv

LEMMA Inductive == IInv /\ [Next]_vars => IInv'
  BY TypePreserved, RowsPreserved, WorkPreserved, RotationPreserved, FamilyPreserved DEF IInv

\* The strengthening holds of every behaviour of the handlers.
THEOREM SessionsInvariant == Spec => []IInv
<1>1. Init => IInv
  BY InitialState
<1>2. IInv /\ [Next]_vars => IInv'
  BY Inductive
<1>3. QED
  BY <1>1, <1>2, PTL DEF Spec

\* TypeOK of every run, for any number of accounts, tokens, codes and requests.
THEOREM TypeCorrect == Spec => []TypeOK
<1>1. IInv => TypeOK
  BY DEF IInv
<1>2. QED
  BY <1>1, SessionsInvariant, PTL

\* However many requests race over an account, its sessions end only by what is meant to end them.
THEOREM SessionsSurvive == Spec => []FamilyStaysAlive
<1>1. IInv => FamilyStaysAlive
  BY DEF IInv
<1>2. QED
  BY <1>1, SessionsInvariant, PTL

\* However many requests race over an account, a rotation never leaves the family or the account.
THEOREM RotationIsLocal == Spec => []RotationStaysInFamily
<1>1. IInv => RotationStaysInFamily
  BY DEF IInv
<1>2. QED
  BY <1>1, SessionsInvariant, PTL

\* However many requests race over an account, no step brings a revoked token back to life.
THEOREM RevocationIsFinal == Spec => RevokedForGood
<1>1. IInv /\ [Next]_vars => [\A t \in Tokens : token[t].revoked => token'[t].revoked]_vars
  BY StaysRevoked DEF IInv
<1>2. QED
  BY <1>1, SessionsInvariant, PTL DEF Spec, RevokedForGood

----------------------------------------------------------------------------
(* The accounts whose requests have never overlapped, however those of other accounts interleave
   with theirs *)

\* One request at a time works on an account, and a slot without a request holds nothing.
AloneOK ==
    /\ \A q, r \in Requests : q # r /\ work[q].user \in Users /\ work[q].user = work[r].user
                                 => work[q].user \in raced
    /\ \A r \in Requests : pc[r] = "idle" => work[r] = Idle

\* What a refresh has read is still live when it issues the successor.
LiveOK == \A r \in Requests :
    pc[r] \in {"issuing", "rotating"} /\ work[r].token # NoToken /\ work[r].user \notin raced
        => ~token[work[r].token].revoked

\* A family that has been ended is one that has tokens.
EndedOK == \A f \in Tokens : ended[f] # "no" => f \in Issued

\* A code is drawn once, for one account.
CodesOK ==
    /\ \A u, v \in Users : code[u] # NoCode /\ code[u] = code[v] => u = v
    /\ \A u \in Users, r \in Requests :
          work[r].code # NoCode /\ work[r].code = code[u] => work[r].user = u
    /\ \A q, r \in Requests :
          work[r].code # NoCode /\ work[r].code = work[q].code => work[r].user = work[q].user
    /\ \A u \in Users : code[u] # NoCode => fate[code[u]] # "unused"
    /\ \A r \in Requests : work[r].code # NoCode => fate[work[r].code] # "unused"

\* The code that is stored has set no password, and is gone before it sets one.
FreshOK ==
    /\ \A u \in Users \ raced : code[u] # NoCode => fate[code[u]] # "spent"
    /\ \A r \in Requests :
          pc[r] = "saving" /\ work[r].user \notin raced => code[work[r].user] = NoCode

SessionsInv == IInv /\ AloneOK /\ LiveOK /\ EndedOK /\ EndedFamilyIsDead /\ OneLiveToken
CodesInv    == IInv /\ AloneOK /\ CodesOK /\ FreshOK /\ CodeWorksOnce

----------------------------------------------------------------------------
(* Who works on what *)

\* A request begins, goes on with its account or ends, and no other one moves.
LEMMA Moves ==
    ASSUME TypeOK, [Next]_vars
    PROVE  \/ UNCHANGED <<pc, work, raced>>
           \/ \E r \in Requests :
                 /\ \A q \in Requests \ {r} : pc'[q] = pc[q] /\ work'[q] = work[q]
                 /\ \/ Finish(r) /\ pc'[r] = "idle" /\ work'[r] = Idle
                    \/ /\ pc[r] # "idle" /\ pc'[r] # "idle" /\ raced' = raced
                       /\ work'[r].user = work[r].user
                    \/ /\ pc[r] = "idle" /\ pc'[r] # "idle"
                       /\ raced' = raced \cup {u \in {work'[r].user} : \E q \in Requests : work[q].user = u}
<1>1. ASSUME NEW r \in Requests, NEW from \in Steps, NEW to \in Steps, Continue(r, from, to),
             from # "idle", to # "idle", NEW w \in Work, work' = [work EXCEPT ![r] = w],
             w.user = work[r].user
      PROVE  /\ \A q \in Requests \ {r} : pc'[q] = pc[q] /\ work'[q] = work[q]
             /\ pc[r] # "idle" /\ pc'[r] # "idle" /\ raced' = raced
             /\ work'[r].user = work[r].user
  BY <1>1 DEF Continue, TypeOK
<1>2. ASSUME NEW r \in Requests, Finish(r)
      PROVE  /\ \A q \in Requests \ {r} : pc'[q] = pc[q] /\ work'[q] = work[q]
             /\ pc'[r] = "idle" /\ work'[r] = Idle
  BY <1>2 DEF Finish, TypeOK
<1>3. ASSUME NEW r \in Requests, NEW step \in Steps, NEW w, Begin(r, step, w), step # "idle"
      PROVE  /\ \A q \in Requests \ {r} : pc'[q] = pc[q] /\ work'[q] = work[q]
             /\ pc[r] = "idle" /\ pc'[r] # "idle"
             /\ raced' = raced \cup {u \in {work'[r].user} : \E q \in Requests : work[q].user = u}
  BY <1>3 DEF Begin, TypeOK
<1>4. \A r \in Requests : work[r] \in Work /\ work = [work EXCEPT ![r] = work[r]]
  BY DEF TypeOK
<1>5. ASSUME NEW r \in Requests, NEW t \in Tokens, IssueNext(r, t)
      PROVE  \E w \in Work : w.user = work[r].user /\ work' = [work EXCEPT ![r] = w]
  <2>1. [work[r] EXCEPT !.next = t] \in Work
    BY <1>4 DEF Work
  <2>2. [work[r] EXCEPT !.next = t].user = work[r].user
    BY <1>4 DEF Work
  <2>3. QED
    BY <1>5, <2>1, <2>2 DEF IssueNext
<1>6. ASSUME NEW r \in Requests, NEW k \in Codes, StoreCode(r, k)
      PROVE  \E w \in Work : w.user = work[r].user /\ work' = [work EXCEPT ![r] = w]
  <2>1. [work[r] EXCEPT !.code = k] \in Work
    BY <1>4 DEF Work
  <2>2. [work[r] EXCEPT !.code = k].user = work[r].user
    BY <1>4 DEF Work
  <2>3. QED
    BY <1>6, <2>1, <2>2 DEF StoreCode
<1>7. ASSUME NEW r \in Requests, Session(r) \/ Recovery(r) \/ Fail(r)
      PROVE  \/ Finish(r)
             \/ \E step \in Steps : \E w : Begin(r, step, w) /\ step # "idle"
             \/ \E from \in Steps, to \in Steps, w \in Work :
                   /\ Continue(r, from, to) /\ from # "idle" /\ to # "idle"
                   /\ work' = [work EXCEPT ![r] = w] /\ w.user = work[r].user
  <2>1. CASE \/ \E t \in Tokens : IssueFirst(r, t)
             \/ Rotate(r) \/ EndFamily(r) \/ StoreCooldown(r) \/ RevokeAll(r) \/ Fail(r)
    BY <2>1 DEF IssueFirst, Rotate, EndFamily, StoreCooldown, RevokeAll, Fail
  <2>2. CASE \/ \E u \in Users : StartLogin(r, u) \/ StartForgot(r, u)
             \/ \E t \in held : StartRefresh(r, t) \/ StartReuse(r, t) \/ StartLogout(r, t)
             \/ \E u \in Users, p \in Passwords : StartReset(r, u, p)
    BY <2>2 DEF StartLogin, StartForgot, StartRefresh, StartReuse, StartLogout, StartReset, Steps
  <2>3. CASE RecordLogin(r) \/ ConsumeCode(r) \/ SavePassword(r)
    <3>1. work' = [work EXCEPT ![r] = work[r]]
      BY <1>4, <2>3 DEF RecordLogin, ConsumeCode, SavePassword
    <3>2. \E from, to \in Steps : Continue(r, from, to) /\ from # "idle" /\ to # "idle"
      BY <2>3 DEF RecordLogin, ConsumeCode, SavePassword, Steps
    <3>3. QED
      BY <1>4, <3>1, <3>2
  <2>4. CASE \E t \in Tokens : IssueNext(r, t)
    <3>1. \E from, to \in Steps : Continue(r, from, to) /\ from # "idle" /\ to # "idle"
      BY <2>4 DEF IssueNext, Steps
    <3>2. QED
      BY <1>5, <2>4, <3>1
  <2>5. CASE \E k \in Codes : StoreCode(r, k)
    <3>1. \E from, to \in Steps : Continue(r, from, to) /\ from # "idle" /\ to # "idle"
      BY <2>5 DEF StoreCode, Steps
    <3>2. QED
      BY <1>6, <2>5, <3>1
  <2>6. QED
    BY <1>7, <2>1, <2>2, <2>3, <2>4, <2>5 DEF Session, Recovery
<1>8. CASE UNCHANGED vars \/ (\E t \in held : ExpireToken(t))
           \/ \E u \in Users : ExpireCode(u) \/ ExpireCooldown(u)
  BY <1>8 DEF vars, ExpireToken, ExpireCode, ExpireCooldown
<1>9. QED
  BY <1>1, <1>2, <1>3, <1>7, <1>8 DEF Next

LEMMA RacedGrows == TypeOK /\ [Next]_vars => raced \subseteq raced'
  BY Moves DEF Finish

LEMMA AlonePreserved == TypeOK /\ AloneOK /\ [Next]_vars => AloneOK'
<1> SUFFICES ASSUME TypeOK, AloneOK, [Next]_vars PROVE AloneOK'
  OBVIOUS
<1>1. CASE UNCHANGED <<pc, work, raced>>
  BY <1>1 DEF AloneOK
<1>2. ASSUME NEW r \in Requests, \A q \in Requests \ {r} : pc'[q] = pc[q] /\ work'[q] = work[q],
             \/ Finish(r) /\ pc'[r] = "idle" /\ work'[r] = Idle
             \/ /\ pc[r] # "idle" /\ pc'[r] # "idle" /\ raced' = raced
                /\ work'[r].user = work[r].user
             \/ /\ pc[r] = "idle" /\ pc'[r] # "idle"
                /\ raced' = raced \cup {u \in {work'[r].user} : \E q \in Requests : work[q].user = u}
      PROVE  AloneOK'
  <2>1. ASSUME NEW q \in Requests \ {r}, work'[r].user \in Users, work'[r].user = work[q].user
        PROVE  work[q].user \in raced'
    <3>1. Idle.user \notin Users
      BY NullsAreNotIds DEF Idle
    <3>2. QED
      BY <1>2, <2>1, <3>1 DEF AloneOK
  <2>2. \A q \in Requests : pc'[q] = "idle" => work'[q] = Idle
    BY <1>2 DEF AloneOK
  <2>3. raced \subseteq raced'
    BY RacedGrows
  <2>4. QED
    BY <1>2, <2>1, <2>2, <2>3 DEF AloneOK
<1>3. QED
  BY <1>1, <1>2, Moves

----------------------------------------------------------------------------
(* Tokens *)

\* A token is revoked by a request of its own account, which ends with that.
LEMMA OwnersRevoke ==
    ASSUME TypeOK, RowsOK, WorkOK, [Next]_vars, NEW t \in Issued,
           ~token[t].revoked, token'[t].revoked
    PROVE  \E r \in Requests :
              /\ Rotate(r) \/ EndFamily(r) \/ RevokeAll(r)
              /\ pc[r] # "idle" /\ work[r].user = token[t].user
<1>1. t \in Tokens
  BY DEF Issued
<1>2. CASE UNCHANGED <<token, ended>>
  BY <1>2
<1>3. ASSUME NEW r \in Requests, NEW s \in Tokens, IssueFirst(r, s) \/ IssueNext(r, s)
      PROVE  FALSE
  <2>1. PICK u \in Users, f \in Issued \cup {s} :
           s \notin Issued /\ token' = [token EXCEPT ![s] = Row(u, f)]
    BY <1>3, IssuesWell
  <2>2. token'[t] = token[t]
    BY <1>1, <2>1 DEF TypeOK
  <2>3. QED
    BY <2>2
<1>4. ASSUME NEW r \in Requests, Rotate(r)
      PROVE  pc[r] # "idle" /\ work[r].user = token[t].user
  <2>1. work[r].token = t
    BY <1>1, <1>4, RotateReplaces
  <2>2. pc[r] = "rotating"
    BY <1>4 DEF Rotate
  <2>3. QED
    BY <2>1, <2>2, NullsAreNotIds, <1>1 DEF WorkOK, RequestOK
<1>5. ASSUME NEW r \in Requests, EndFamily(r)
      PROVE  pc[r] # "idle" /\ work[r].user = token[t].user
  <2>1. pc[r] \in {"reuse", "logout"} /\ Revoke(Family(token[work[r].token].family))
    BY <1>5 DEF EndFamily
  <2>2. t \in Family(token[work[r].token].family)
    BY <1>1, <2>1, RevokeOnlyRevokes
  <2>3. work[r].token \in Issued /\ token[work[r].token].user = work[r].user
    BY <2>1 DEF WorkOK, RequestOK, TypeOK
  <2>4. QED
    BY <2>1, <2>2, <2>3 DEF Family, RowsOK
<1>6. ASSUME NEW r \in Requests, RevokeAll(r)
      PROVE  pc[r] # "idle" /\ work[r].user = token[t].user
  <2> DEFINE all == {s \in Issued : token[s].user = work[r].user}
  <2>1. pc[r] = "revoking" /\ Revoke(all)
    BY <1>6 DEF RevokeAll
  <2> HIDE DEF all
  <2>2. t \in all
    BY <1>1, <2>1, RevokeOnlyRevokes
  <2>3. QED
    BY <2>1, <2>2 DEF all
<1>7. QED
  BY <1>2, <1>3, <1>4, <1>5, <1>6, TokenSteps

\* So a token whose account has one request stays live until that request is done.
LEMMA LiveKept ==
    ASSUME TypeOK, RowsOK, WorkOK, AloneOK, [Next]_vars, NEW q \in Requests, NEW t \in Issued,
           pc[q] # "idle", pc'[q] # "idle", work[q].user = token[t].user, work[q].user \notin raced,
           ~token[t].revoked
    PROVE  ~token'[t].revoked
<1> SUFFICES ASSUME token'[t].revoked PROVE FALSE
  OBVIOUS
<1>1. PICK r \in Requests : /\ Rotate(r) \/ EndFamily(r) \/ RevokeAll(r)
                            /\ work[r].user = token[t].user
  BY OwnersRevoke
<1>2. pc'[r] = "idle"
  BY <1>1 DEF Rotate, EndFamily, RevokeAll, Finish, TypeOK
<1>3. r # q
  BY <1>2
<1>4. work[q].user \in Users
  BY DEF WorkOK, RequestOK
<1>5. QED
  BY <1>1, <1>3, <1>4 DEF AloneOK

LEMMA LivePreserved ==
    ASSUME TypeOK, RowsOK, WorkOK, AloneOK, LiveOK, [Next]_vars
    PROVE  LiveOK'
<1> SUFFICES ASSUME NEW q \in Requests, pc'[q] \in {"issuing", "rotating"},
                    work'[q].token # NoToken, work'[q].user \notin raced'
             PROVE  ~token'[work'[q].token].revoked
  BY DEF LiveOK
<1>0. raced \subseteq raced' /\ held \subseteq Issued
  BY RacedGrows DEF TypeOK
<1>1. CASE pc'[q] = pc[q] /\ work'[q] = work[q]
  <2>1. /\ ~token[work[q].token].revoked
        /\ work[q].token \in Issued /\ token[work[q].token].user = work[q].user
    BY <1>0, <1>1 DEF LiveOK, WorkOK, RequestOK
  <2>2. QED
    BY <1>0, <1>1, <2>1, LiveKept
<1>2. ASSUME NEW t \in held, StartRefresh(q, t)
      PROVE  ~token'[work'[q].token].revoked
  <2>1. work'[q] = [Idle EXCEPT !.user = token[t].user, !.token = t]
    BY <1>2 DEF StartRefresh, Begin, TypeOK
  <2>2. work'[q].token = t
    BY <2>1 DEF Idle
  <2>3. QED
    BY <1>2, <2>2 DEF StartRefresh, tokens
<1>3. ASSUME NEW t \in Tokens, IssueNext(q, t)
      PROVE  ~token'[work'[q].token].revoked
  <2>1. work[q] \in Work /\ work' = [work EXCEPT ![q].next = t]
    BY <1>3 DEF IssueNext, TypeOK
  <2>2. work'[q].token = work[q].token /\ work'[q].user = work[q].user
    BY <2>1 DEF TypeOK, Work
  <2>3. pc[q] = "issuing" /\ work[q].token # NoToken
    BY <1>3 DEF IssueNext, Continue
  <2>4. /\ ~token[work[q].token].revoked
        /\ work[q].token \in Issued /\ token[work[q].token].user = work[q].user
    BY <1>0, <2>2, <2>3 DEF LiveOK, WorkOK, RequestOK
  <2>5. QED
    BY <1>0, <2>2, <2>3, <2>4, LiveKept
<1>4. CASE RecordLogin(q)
  <2>1. work'[q] = work[q] /\ pc[q] = "verified"
    BY <1>4 DEF RecordLogin, Continue
  <2>2. QED
    BY <2>1 DEF WorkOK, RequestOK
<1>5. ASSUME Session(q) \/ Recovery(q) \/ Fail(q)
      PROVE  \/ \E t \in held : StartRefresh(q, t)
             \/ \E t \in Tokens : IssueNext(q, t)
             \/ RecordLogin(q)
  BY <1>5 DEF Session, Recovery, Fail, StartLogin, IssueFirst, Rotate, StartReuse, StartLogout,
     EndFamily, StartForgot, StoreCode, StoreCooldown, StartReset, ConsumeCode, SavePassword,
     RevokeAll, Begin, Continue, Finish, TypeOK
<1>6. QED
  BY <1>1, <1>2, <1>3, <1>4, <1>5, OneMoves

LEMMA EndedPreserved ==
    ASSUME TypeOK, RowsOK, WorkOK, LiveOK, EndedOK, EndedFamilyIsDead, [Next]_vars
    PROVE  EndedOK' /\ EndedFamilyIsDead'
<1> DEFINE Kept ==
              /\ \A f \in Tokens : ended'[f] # "no" => f \in Issued'
              /\ \A t \in Issued' :
                    token'[t].user \notin raced /\ ended'[token'[t].family] # "no"
                       => token'[t].revoked
<1> SUFFICES Kept
  BY RacedGrows DEF EndedOK, EndedFamilyIsDead
<1>0. \A t \in Issued : t \in Tokens /\ token[t].family \in Issued
  BY DEF RowsOK, Issued
<1>1. CASE UNCHANGED <<token, ended>>
  BY <1>1 DEF EndedOK, EndedFamilyIsDead, Issued
<1>2. ASSUME NEW r \in Requests, NEW s \in Tokens, NEW u \in Users, NEW f \in Tokens,
             s \notin Issued, token' = [token EXCEPT ![s] = Row(u, f)], ended' = ended,
             u \notin raced => ended[f] = "no"
      PROVE  Kept
  <2>1. /\ Issued' = Issued \cup {s} /\ token'[s] = Row(u, f)
        /\ \A t \in Tokens \ {s} : token'[t] = token[t]
    BY <1>2, IssueAdds
  <2>2. Row(u, f).user = u /\ Row(u, f).family = f
    BY DEF Row
  <2>3. QED
    BY <1>0, <1>2, <2>1, <2>2 DEF EndedOK, EndedFamilyIsDead
<1>3. ASSUME NEW r \in Requests, NEW s \in Tokens, IssueFirst(r, s)
      PROVE  Kept
  <2>1. /\ work[r].user \in Users /\ s \notin Issued /\ ended' = ended
        /\ token' = [token EXCEPT ![s] = Row(work[r].user, s)]
    BY <1>3 DEF IssueFirst, WorkOK, RequestOK
  <2>2. ended[s] = "no"
    BY <2>1 DEF EndedOK
  <2>3. QED
    BY <1>2, <2>1, <2>2
<1>4. ASSUME NEW r \in Requests, NEW s \in Tokens, IssueNext(r, s)
      PROVE  Kept
  <2> DEFINE old == work[r].token
             fam == token[old].family
  <2>1. /\ pc[r] = "issuing" /\ old # NoToken /\ s \notin Issued /\ ended' = ended
        /\ token' = [token EXCEPT ![s] = Row(work[r].user, fam)]
    BY <1>4 DEF IssueNext, Continue
  <2>2. work[r].user \in Users /\ old \in Issued /\ token[old].user = work[r].user
    BY <2>1 DEF WorkOK, RequestOK, TypeOK
  <2>3. work[r].user \notin raced => ended[fam] = "no"
    BY <2>1, <2>2 DEF LiveOK, EndedFamilyIsDead
  <2>4. fam \in Tokens
    BY <1>0, <2>2
  <2> HIDE DEF fam
  <2>5. QED
    BY <1>2, <2>1, <2>2, <2>3, <2>4
<1>5. ASSUME NEW r \in Requests, Rotate(r)
      PROVE  Kept
  <2>1. ended' = ended
    BY <1>5 DEF Rotate
  <2>2. QED
    BY <1>0, <1>5, <2>1, RotateReplaces, StaysRevoked DEF EndedOK, EndedFamilyIsDead
<1>6. ASSUME NEW r \in Requests, EndFamily(r)
      PROVE  Kept
  <2> DEFINE f == token[work[r].token].family
  <2>1. work[r].token \in Issued
    BY <1>6 DEF EndFamily, WorkOK, RequestOK, TypeOK
  <2>2. /\ f \in Issued
        /\ \A g \in Tokens : g # f => ended'[g] = ended[g]
        /\ Revoke(Family(f))
    BY <1>0, <1>6, <2>1 DEF EndFamily, TypeOK
  <2> HIDE DEF f
  <2>3. /\ Issued' = Issued
        /\ \A t \in Tokens : /\ token'[t].user = token[t].user
                             /\ token'[t].family = token[t].family
                             /\ token'[t].revoked = (token[t].revoked \/ t \in Family(f))
    BY <2>2, RevokeOnlyRevokes
  <2>4. ASSUME NEW t \in Issued, token[t].user \notin raced, ended'[token[t].family] # "no"
        PROVE  token'[t].revoked
    <3>1. CASE token[t].family = f
      BY <1>0, <2>3, <3>1 DEF Family
    <3>2. CASE token[t].family # f
      BY <1>0, <2>2, <2>3, <2>4, <3>2 DEF EndedFamilyIsDead
    <3>3. QED
      BY <3>1, <3>2
  <2>5. QED
    BY <1>0, <2>2, <2>3, <2>4 DEF EndedOK
<1>7. ASSUME NEW r \in Requests, RevokeAll(r)
      PROVE  Kept
  <2> DEFINE all == {t \in Issued : token[t].user = work[r].user}
  <2>1. /\ Revoke(all)
        /\ \A g \in Tokens : ended'[g] # ended[g] => \E t \in all : token[t].family = g
    BY <1>7 DEF RevokeAll
  <2>2. \A s, t \in Issued : token[s].family = token[t].family => token[s].user = token[t].user
    BY DEF RowsOK
  <2>3. \A t \in Issued : t \in all <=> token[t].user = work[r].user
    OBVIOUS
  <2>4. all \subseteq Issued
    OBVIOUS
  <2> HIDE DEF all
  <2>5. /\ Issued' = Issued
        /\ \A t \in Tokens : /\ token'[t].user = token[t].user
                             /\ token'[t].family = token[t].family
                             /\ token'[t].revoked = (token[t].revoked \/ t \in all)
    BY <2>1, RevokeOnlyRevokes
  <2>6. ASSUME NEW t \in Issued, token[t].user \notin raced, ended'[token[t].family] # "no"
        PROVE  token'[t].revoked
    <3>1. CASE t \in all
      BY <1>0, <2>5, <3>1
    <3>2. CASE t \notin all
      <4>1. ended'[token[t].family] = ended[token[t].family]
        BY <1>0, <2>1, <2>2, <2>3, <2>4, <3>2
      <4>2. QED
        BY <1>0, <2>5, <2>6, <4>1 DEF EndedFamilyIsDead
    <3>3. QED
      BY <3>1, <3>2
  <2>7. QED
    BY <1>0, <2>1, <2>4, <2>5, <2>6 DEF EndedOK
<1>8. QED
  BY <1>1, <1>3, <1>4, <1>5, <1>6, <1>7, TokenSteps

\* Only a login and a rotation hand out a token.
LEMMA HandedOut ==
    ASSUME TypeOK, [Next]_vars
    PROVE  \/ held' = held
           \/ \E r \in Requests : Rotate(r) \/ \E t \in Tokens : IssueFirst(r, t)
  BY DEF Next, Session, Recovery, StartLogin, RecordLogin, IssueNext, StartRefresh, StartReuse,
         StartLogout, EndFamily, StartForgot, StoreCode, StoreCooldown, StartReset, ConsumeCode,
         SavePassword, RevokeAll, Fail, ExpireToken, ExpireCode, ExpireCooldown, tokens, vars

LEMMA OneLivePreserved ==
    ASSUME TypeOK, RowsOK, WorkOK, LiveOK, OneLiveToken, [Next]_vars
    PROVE  OneLiveToken'
<1> SUFFICES ASSUME NEW s \in held', NEW t \in held', token'[s].user \notin raced,
                    token'[s].family = token'[t].family, ~token'[s].revoked, ~token'[t].revoked
             PROVE  s = t
  BY RacedGrows DEF OneLiveToken
<1>0. /\ held \subseteq Issued /\ Issued \subseteq Tokens
      /\ \A x \in Issued : token[x].family \in Issued
      /\ \A x, y \in Issued : token[x].family = token[y].family => token[x].user = token[y].user
  BY DEF TypeOK, RowsOK, Issued
<1>1. \A x \in Issued : /\ token'[x].user = token[x].user /\ token'[x].family = token[x].family
                        /\ ~token'[x].revoked => ~token[x].revoked
  BY <1>0, IdentityKept, StaysRevoked
<1>2. CASE s \in held /\ t \in held
  BY <1>0, <1>1, <1>2 DEF OneLiveToken
<1>3. ASSUME NEW r \in Requests, NEW new \in Tokens, IssueFirst(r, new)
      PROVE  s = t
  <2>1. /\ work[r].user \in Users /\ new \notin Issued
        /\ token' = [token EXCEPT ![new] = Row(work[r].user, new)]
        /\ held' \subseteq held \cup {new}
    BY <1>3 DEF IssueFirst, Answer, WorkOK, RequestOK
  <2>2. token'[new].family = new
    BY <2>1, IssueAdds DEF Row
  <2>3. \A x \in held : token'[x].family # new
    BY <1>0, <1>1, <2>1
  <2>4. QED
    BY <1>2, <2>1, <2>2, <2>3
<1>4. ASSUME NEW r \in Requests, Rotate(r)
      PROVE  s = t
  <2> DEFINE old == work[r].token
             next == work[r].next
  <2>1. /\ old \in held /\ next \in Issued /\ old # NoToken
        /\ token[next].family = token[old].family
        /\ token[old].user = work[r].user /\ pc[r] = "rotating"
    BY <1>0, <1>4, NullsAreNotIds DEF Rotate, WorkOK, RequestOK, SuccessorOK
  <2>2. held' \subseteq held \cup {next}
    BY <1>4 DEF Rotate, Answer
  <2>3. token'[old].revoked
    BY <1>4, RotateReplaces
  <2>4. work[r].user \notin raced => ~token[old].revoked
    BY <2>1 DEF LiveOK
  <2> HIDE DEF old, next
  <2>5. ASSUME NEW x \in held, ~token'[x].revoked, token'[x].family = token'[next].family,
               token[next].user \notin raced
        PROVE  FALSE
    <3>1. token[x].family = token[old].family /\ ~token[x].revoked
      BY <1>0, <1>1, <2>1, <2>5
    <3>2. token[old].user \notin raced
      BY <1>0, <2>1, <2>5
    <3>3. x = old
      BY <2>1, <2>4, <3>1, <3>2 DEF OneLiveToken
    <3>4. QED
      BY <2>3, <2>5, <3>3
  <2>6. s \in Issued /\ t \in Issued
    BY <1>0, <2>1, <2>2
  <2>7. token[s].user \notin raced /\ token[t].user \notin raced
    BY <1>0, <1>1, <2>6
  <2>8. QED
    BY <1>2, <2>2, <2>5, <2>7
<1>5. QED
  BY <1>2, <1>3, <1>4, HandedOut

----------------------------------------------------------------------------
(* Codes *)

\* A handler keeps the code it has, for the account it has it for, or ends.
CodeKept(q) == \/ work'[q].code = NoCode
               \/ work'[q].code = work[q].code /\ work'[q].user = work[q].user

LEMMA CodeSteps ==
    ASSUME TypeOK, [Next]_vars
    PROVE  \/ /\ \A q \in Requests : CodeKept(q)
              /\ \/ UNCHANGED <<code, fate>>
                 \/ \E r \in Requests : StoreCooldown(r) \/ ConsumeCode(r) \/ SavePassword(r)
                 \/ \E u \in Users : ExpireCode(u)
           \/ \E r \in Requests, k \in Codes : StoreCode(r, k)
           \/ \E r \in Requests, u \in Users, p \in Passwords : StartReset(r, u, p)
<1>1. ASSUME NEW r \in Requests, Finish(r)
      PROVE  \A q \in Requests : CodeKept(q)
  BY <1>1 DEF Finish, CodeKept, Idle, TypeOK
<1>2. ASSUME NEW r \in Requests, NEW step, NEW w, Begin(r, step, w), w.code = NoCode
      PROVE  \A q \in Requests : CodeKept(q)
  BY <1>2 DEF Begin, CodeKept, TypeOK
<1>3. ASSUME NEW r \in Requests, NEW t \in Tokens, IssueNext(r, t)
      PROVE  \A q \in Requests : CodeKept(q)
  <2>1. work[r] \in Work /\ work' = [work EXCEPT ![r].next = t]
    BY <1>3 DEF IssueNext, TypeOK
  <2>2. QED
    BY <2>1 DEF CodeKept, Work, TypeOK
<1>4. ASSUME UNCHANGED work
      PROVE  \A q \in Requests : CodeKept(q)
  BY <1>4 DEF CodeKept
<1>5. CASE UNCHANGED vars
  BY <1>4, <1>5 DEF vars
<1>6. ASSUME NEW r \in Requests, \/ \E u \in Users : StartLogin(r, u) \/ StartForgot(r, u)
                                 \/ \E t \in held : StartRefresh(r, t) \/ StartReuse(r, t)
                                                                      \/ StartLogout(r, t)
      PROVE  UNCHANGED <<code, fate>> /\ \A q \in Requests : CodeKept(q)
  <2>1. UNCHANGED <<code, fate>>
    BY <1>6 DEF StartLogin, StartForgot, StartRefresh, StartReuse, StartLogout, otp
  <2>2. ASSUME NEW u \in Users, StartLogin(r, u)
        PROVE  \A q \in Requests : CodeKept(q)
    <3> DEFINE w == [Idle EXCEPT !.user = u, !.password = password[u]]
    <3>1. Begin(r, "verified", w) /\ w.code = NoCode
      BY <2>2 DEF StartLogin, Idle
    <3> HIDE DEF w
    <3>2. QED
      BY <1>2, <3>1
  <2>3. ASSUME NEW u \in Users, StartForgot(r, u)
        PROVE  \A q \in Requests : CodeKept(q)
    <3> DEFINE w == [Idle EXCEPT !.user = u]
    <3>1. Begin(r, "drawing", w) /\ w.code = NoCode
      BY <2>3 DEF StartForgot, Idle
    <3> HIDE DEF w
    <3>2. QED
      BY <1>2, <3>1
  <2>4. ASSUME NEW t \in held, StartRefresh(r, t) \/ StartReuse(r, t) \/ StartLogout(r, t)
        PROVE  \A q \in Requests : CodeKept(q)
    <3> DEFINE w == [Idle EXCEPT !.user = token[t].user, !.token = t]
    <3>1. /\ Begin(r, "issuing", w) \/ Begin(r, "reuse", w) \/ Begin(r, "logout", w)
          /\ w.code = NoCode
      BY <2>4 DEF StartRefresh, StartReuse, StartLogout, Idle
    <3> HIDE DEF w
    <3>2. QED
      BY <1>2, <3>1
  <2>5. QED
    BY <1>6, <2>1, <2>2, <2>3, <2>4
<1>7. ASSUME NEW r \in Requests, \/ RecordLogin(r) \/ Rotate(r) \/ EndFamily(r) \/ RevokeAll(r)
                                 \/ Fail(r)
                                 \/ \E t \in Tokens : IssueFirst(r, t) \/ IssueNext(r, t)
      PROVE  UNCHANGED <<code, fate>> /\ \A q \in Requests : CodeKept(q)
  BY <1>1, <1>3, <1>4, <1>7
     DEF RecordLogin, Rotate, EndFamily, RevokeAll, Fail, IssueFirst, IssueNext, otp
<1>8. ASSUME NEW r \in Requests, StoreCooldown(r) \/ ConsumeCode(r) \/ SavePassword(r)
      PROVE  \A q \in Requests : CodeKept(q)
  BY <1>1, <1>4, <1>8 DEF StoreCooldown, ConsumeCode, SavePassword
<1>9. ASSUME NEW u \in Users, ExpireCode(u) \/ ExpireCooldown(u)
      PROVE  \A q \in Requests : CodeKept(q)
  BY <1>4, <1>9 DEF ExpireCode, ExpireCooldown
<1>10. ASSUME NEW t \in held, ExpireToken(t)
       PROVE  UNCHANGED <<code, fate>> /\ \A q \in Requests : CodeKept(q)
  BY <1>4, <1>10 DEF ExpireToken, otp
<1>11. \A u \in Users : ExpireCooldown(u) => UNCHANGED <<code, fate>>
  BY DEF ExpireCooldown
<1>12. QED
  BY <1>4, <1>5, <1>6, <1>7, <1>8, <1>9, <1>10, <1>11 DEF Next, Session, Recovery, vars

\* Storing a code, and reading it, are all that gives an account or a handler one.
LEMMA CodeStored ==
    ASSUME TypeOK, NEW r \in Requests, NEW k \in Codes, StoreCode(r, k)
    PROVE  /\ work'[r].code = k /\ work'[r].user = work[r].user
           /\ \A q \in Requests \ {r} : pc'[q] = pc[q] /\ work'[q] = work[q]
           /\ pc[r] = "drawing" /\ pc'[r] = "stored"
           /\ \A u \in Users : code'[u] = IF u = work[r].user THEN k ELSE code[u]
           /\ fate[k] = "unused" /\ fate'[k] = "drawn"
           /\ \A x \in Codes \ {k} : fate'[x] = fate[x]
<1>1. work[r] \in Work /\ work' = [work EXCEPT ![r].code = k]
  BY DEF StoreCode, TypeOK
<1>2. work'[r].code = k /\ work'[r].user = work[r].user
  BY <1>1 DEF TypeOK, Work
<1>3. pc' = [pc EXCEPT ![r] = "stored"] /\ pc[r] = "drawing"
  BY DEF StoreCode, Continue
<1>4. QED
  BY <1>1, <1>2, <1>3 DEF StoreCode, TypeOK

LEMMA CodeRead ==
    ASSUME TypeOK, NEW r \in Requests, NEW u \in Users, NEW p \in Passwords, StartReset(r, u, p)
    PROVE  /\ work'[r].code = code[u] /\ work'[r].user = u /\ code[u] # NoCode
           /\ \A q \in Requests \ {r} : pc'[q] = pc[q] /\ work'[q] = work[q]
           /\ pc'[r] = "matched"
           /\ UNCHANGED <<code, fate>>
<1>1. Begin(r, "matched", [Idle EXCEPT !.user = u, !.password = p, !.code = code[u]])
  BY DEF StartReset
<1>2. work'[r] = [Idle EXCEPT !.user = u, !.password = p, !.code = code[u]]
  BY <1>1 DEF Begin, TypeOK
<1>3. work'[r].code = code[u] /\ work'[r].user = u
  BY <1>2 DEF Idle
<1>4. QED
  BY <1>1, <1>3 DEF StartReset, Begin, TypeOK, otp

\* Of all that happens to a code, only drawing it takes it from the unused ones.
LEMMA FatesMove ==
    ASSUME TypeOK, WorkOK, NEW r \in Requests,
           StoreCooldown(r) \/ ConsumeCode(r) \/ SavePassword(r)
    PROVE  /\ \A k \in Codes : fate'[k] = "unused" => fate[k] = "unused"
           /\ \A k \in Codes : fate'[k] = "spent" =>
                 fate[k] = "spent" \/ (SavePassword(r) /\ pc[r] = "saving" /\ k = work[r].code)
           /\ \A u \in Users : code'[u] = NoCode \/ code'[u] = code[u]
<1>1. CASE StoreCooldown(r)
  BY <1>1 DEF StoreCooldown, TypeOK
<1>2. CASE ConsumeCode(r)
  BY <1>2 DEF ConsumeCode, TypeOK
<1>3. CASE SavePassword(r)
  BY <1>3 DEF SavePassword, Continue, TypeOK
<1>4. QED
  BY <1>1, <1>2, <1>3

LEMMA CodesPreserved == TypeOK /\ WorkOK /\ CodesOK /\ [Next]_vars => CodesOK'
<1> SUFFICES ASSUME TypeOK, WorkOK, CodesOK, [Next]_vars PROVE CodesOK'
  OBVIOUS
<1>0. /\ \A u \in Users : code[u] # NoCode => code[u] \in Codes
      /\ \A r \in Requests : work[r].code # NoCode => work[r].code \in Codes
  BY DEF TypeOK, Work
<1>1. ASSUME \A q \in Requests : CodeKept(q),
             \A u \in Users : code'[u] = NoCode \/ code'[u] = code[u],
             \A k \in Codes : fate'[k] = "unused" => fate[k] = "unused"
      PROVE  CodesOK'
  BY <1>0, <1>1 DEF CodesOK, CodeKept
<1>2. ASSUME NEW r \in Requests, NEW k \in Codes, StoreCode(r, k)
      PROVE  CodesOK'
  <2>1. /\ \A u \in Users : code[u] # k
        /\ \A q \in Requests : work[q].code # k
    BY <1>2, CodeStored, NullsAreNotIds DEF CodesOK
  <2>2. QED
    BY <1>0, <1>2, <2>1, CodeStored, NullsAreNotIds DEF CodesOK
<1>3. ASSUME NEW r \in Requests, NEW u \in Users, NEW p \in Passwords, StartReset(r, u, p)
      PROVE  CodesOK'
  BY <1>3, CodeRead DEF CodesOK
<1>4. ASSUME NEW u \in Users, ExpireCode(u)
      PROVE  (\A v \in Users : code'[v] = NoCode \/ code'[v] = code[v]) /\ fate' = fate
  BY <1>4 DEF ExpireCode, TypeOK
<1>5. QED
  BY <1>1, <1>2, <1>3, <1>4, CodeSteps, FatesMove

LEMMA FreshPreserved ==
    TypeOK /\ WorkOK /\ AloneOK /\ CodesOK /\ FreshOK /\ CodeWorksOnce /\ [Next]_vars
        => FreshOK' /\ CodeWorksOnce'
<1> SUFFICES ASSUME TypeOK, WorkOK, AloneOK, CodesOK, FreshOK, CodeWorksOnce, [Next]_vars
             PROVE  FreshOK' /\ CodeWorksOnce'
  OBVIOUS
<1>0. /\ raced \subseteq raced'
      /\ \A u \in Users : code[u] # NoCode => code[u] \in Codes
      /\ \A r \in Requests : pc[r] \in {"matched", "saving"} =>
            /\ work[r].code \in Codes /\ work[r].code # NoCode
            /\ work[r].user \in Users
  BY RacedGrows, NullsAreNotIds DEF TypeOK, WorkOK, RequestOK
<1>1. ASSUME NEW u \in Users, u \notin raced', code'[u] # NoCode
      PROVE  fate'[code'[u]] # "spent"
  <2>1. CASE UNCHANGED <<code, fate>>
    BY <1>0, <1>1, <2>1 DEF FreshOK
  <2>2. ASSUME NEW r \in Requests, StoreCooldown(r) \/ ConsumeCode(r) \/ SavePassword(r)
        PROVE  fate'[code'[u]] # "spent"
    <3>1. code'[u] = code[u] /\ code[u] \in Codes /\ fate[code[u]] # "spent"
      BY <1>0, <1>1, <2>2, FatesMove DEF FreshOK
    <3>2. SavePassword(r) /\ pc[r] = "saving" => work[r].code # code[u]
      BY <1>0, <1>1 DEF CodesOK, FreshOK
    <3>3. QED
      BY <2>2, <3>1, <3>2, FatesMove
  <2>3. ASSUME NEW v \in Users, ExpireCode(v)
        PROVE  fate'[code'[u]] # "spent"
    BY <1>0, <1>1, <2>3 DEF ExpireCode, FreshOK, TypeOK
  <2>4. ASSUME NEW r \in Requests, NEW k \in Codes, StoreCode(r, k)
        PROVE  fate'[code'[u]] # "spent"
    BY <1>0, <1>1, <2>4, CodeStored DEF FreshOK
  <2>5. ASSUME NEW r \in Requests, NEW v \in Users, NEW p \in Passwords, StartReset(r, v, p)
        PROVE  fate'[code'[u]] # "spent"
    BY <1>0, <1>1, <2>5, CodeRead DEF FreshOK
  <2>6. QED
    BY <2>1, <2>2, <2>3, <2>4, <2>5, CodeSteps
<1>2. ASSUME NEW q \in Requests, pc'[q] \in {"matched", "saving"}, work'[q].user \notin raced'
      PROVE  /\ pc'[q] = "saving" => code'[work'[q].user] = NoCode
             /\ fate'[work'[q].code] # "spent"
  <2>1. CASE pc'[q] = pc[q] /\ work'[q] = work[q]
    <3>1. /\ work[q].user \in Users /\ work[q].user \notin raced
          /\ work[q].code \in Codes /\ work[q].code # NoCode
          /\ fate[work[q].code] # "spent"
          /\ pc[q] = "saving" => code[work[q].user] = NoCode
      BY <1>0, <1>2, <2>1 DEF FreshOK, CodeWorksOnce
    <3>2. \A r \in Requests : r # q => work[r].user # work[q].user
      BY <3>1 DEF AloneOK
    <3>3. CASE UNCHANGED <<code, fate>>
      BY <2>1, <3>1, <3>3
    <3>4. ASSUME NEW r \in Requests, StoreCooldown(r) \/ ConsumeCode(r) \/ SavePassword(r)
          PROVE  /\ pc'[q] = "saving" => code'[work'[q].user] = NoCode
                 /\ fate'[work'[q].code] # "spent"
      <4>1. ASSUME SavePassword(r), pc[r] = "saving", work[r].code = work[q].code
            PROVE  FALSE
        <5>1. work[r].user = work[q].user
          BY <3>1, <4>1 DEF CodesOK
        <5>2. pc'[r] = "revoking"
          BY <4>1 DEF SavePassword, Continue, TypeOK
        <5>3. QED
          BY <1>2, <3>2, <5>1, <5>2
      <4>2. QED
        BY <2>1, <3>1, <3>4, <4>1, FatesMove
    <3>5. ASSUME NEW v \in Users, ExpireCode(v)
          PROVE  /\ pc'[q] = "saving" => code'[work'[q].user] = NoCode
                 /\ fate'[work'[q].code] # "spent"
      BY <2>1, <3>1, <3>5 DEF ExpireCode, TypeOK
    <3>6. ASSUME NEW r \in Requests, NEW k \in Codes, StoreCode(r, k)
          PROVE  /\ pc'[q] = "saving" => code'[work'[q].user] = NoCode
                 /\ fate'[work'[q].code] # "spent"
      <4>1. r # q
        BY <1>2, <3>6, CodeStored
      <4>2. code'[work[q].user] = code[work[q].user]
        BY <3>1, <3>2, <3>6, <4>1, CodeStored
      <4>3. fate'[work[q].code] # "spent"
        BY <3>1, <3>6, CodeStored
      <4>4. QED
        BY <2>1, <3>1, <4>2, <4>3
    <3>7. ASSUME NEW r \in Requests, NEW v \in Users, NEW p \in Passwords, StartReset(r, v, p)
          PROVE  /\ pc'[q] = "saving" => code'[work'[q].user] = NoCode
                 /\ fate'[work'[q].code] # "spent"
      BY <2>1, <3>1, <3>7, CodeRead
    <3>8. QED
      BY <3>3, <3>4, <3>5, <3>6, <3>7, CodeSteps
  <2>2. ASSUME NEW u \in Users, NEW p \in Passwords, StartReset(q, u, p)
        PROVE  /\ pc'[q] = "saving" => code'[work'[q].user] = NoCode
               /\ fate'[work'[q].code] # "spent"
    BY <1>0, <1>2, <2>2, CodeRead DEF FreshOK
  <2>3. CASE ConsumeCode(q)
    <3>1. /\ pc[q] = "matched" /\ work' = work /\ fate' = fate /\ raced' = raced
          /\ code' = [code EXCEPT ![work[q].user] = NoCode]
      BY <2>3 DEF ConsumeCode, Continue
    <3>2. QED
      BY <1>0, <1>2, <3>1 DEF CodeWorksOnce, TypeOK
  <2>4. ASSUME Session(q) \/ Recovery(q) \/ Fail(q)
        PROVE  ConsumeCode(q) \/ \E u \in Users, p \in Passwords : StartReset(q, u, p)
    BY <1>2, <2>4 DEF Session, Recovery, Fail, StartLogin, RecordLogin, IssueFirst, IssueNext,
       StartRefresh, Rotate, StartReuse, StartLogout, EndFamily, StartForgot, StoreCode,
       StoreCooldown, SavePassword, RevokeAll, Begin, Continue, Finish, TypeOK
  <2>5. QED
    BY <2>1, <2>2, <2>3, <2>4, OneMoves
<1>3. QED
  BY <1>1, <1>2 DEF FreshOK, CodeWorksOnce

----------------------------------------------------------------------------
(* The theorems *)

LEMMA FirstState == Init => SessionsInv /\ CodesInv
<1> SUFFICES ASSUME Init PROVE SessionsInv /\ CodesInv
  OBVIOUS
<1>1. IInv
  BY InitialState
<1>2. Issued = {}
  <2>1. \A t \in Tokens : token[t].family = NoToken
    BY DEF Init, NoRow, Row
  <2>2. QED
    BY <2>1 DEF Issued
<1>3. AloneOK /\ CodesOK
  <2>1. Idle.user \notin Users /\ Idle.code = NoCode
    BY NullsAreNotIds DEF Idle
  <2>2. QED
    BY <2>1 DEF Init, AloneOK, CodesOK
<1>4. LiveOK /\ EndedOK /\ FreshOK /\ CodeWorksOnce
  BY DEF Init, LiveOK, EndedOK, FreshOK, CodeWorksOnce
<1>5. EndedFamilyIsDead /\ OneLiveToken
  BY <1>2 DEF Init, EndedFamilyIsDead, OneLiveToken
<1>6. QED
  BY <1>1, <1>3, <1>4, <1>5 DEF SessionsInv, CodesInv

LEMMA SessionsInductive == SessionsInv /\ [Next]_vars => SessionsInv'
  BY Inductive, AlonePreserved, LivePreserved, EndedPreserved, OneLivePreserved
  DEF SessionsInv, IInv

LEMMA CodesInductive == CodesInv /\ [Next]_vars => CodesInv'
  BY Inductive, AlonePreserved, CodesPreserved, FreshPreserved DEF CodesInv, IInv

\* Unless requests of the account have raced, a family that was ended has no live token, not even
\* one whose refresh was cut off.
THEOREM EndedMeansDead == Spec => []EndedFamilyIsDead
<1>1. SessionsInv => EndedFamilyIsDead
  BY DEF SessionsInv
<1>2. QED
  BY <1>1, FirstState, SessionsInductive, PTL DEF Spec

\* Unless requests of the account have raced, clients never hold two live tokens of one login.
THEOREM NeverTwoTokens == Spec => []OneLiveToken
<1>1. SessionsInv => OneLiveToken
  BY DEF SessionsInv
<1>2. QED
  BY <1>1, FirstState, SessionsInductive, PTL DEF Spec

\* OtpService: single-use, unless requests of the account have raced.
THEOREM SingleUse == Spec => []CodeWorksOnce
<1>1. CodesInv => CodeWorksOnce
  BY DEF CodesInv
<1>2. QED
  BY <1>1, FirstState, CodesInductive, PTL DEF Spec

----------------------------------------------------------------------------
(* The sessions of SessionLifecycle *)

\* A family goes by the name of one of its own tokens.
RootsOK == \A t \in Issued : token[token[t].family].family = token[t].family

\* A successor is not the first of its family, and is not revoked before the token it replaces.
ReplacingOK == \A r \in Requests : pc[r] = "rotating" =>
    /\ token[work[r].next].family # work[r].next
    /\ token[work[r].next].revoked => token[work[r].token].revoked

RefinementInv == SessionsInv /\ RootsOK /\ ReplacingOK

LEMMA RootsPreserved ==
    ASSUME TypeOK, RowsOK, WorkOK, RootsOK, [Next]_vars
    PROVE  RootsOK'
<1>1. /\ Issued \subseteq Issued'
      /\ \A t \in Issued : token'[t].family = token[t].family /\ token[t].family \in Issued
  BY IdentityKept DEF RowsOK
<1>2. \A t \in Issued : token'[token'[t].family].family = token'[t].family
  BY <1>1 DEF RootsOK
<1>3. CASE Issued' = Issued
  BY <1>2, <1>3 DEF RootsOK
<1>4. ASSUME NEW r \in Requests, NEW t \in Tokens, IssueFirst(r, t) \/ IssueNext(r, t)
      PROVE  RootsOK'
  <2>1. PICK u \in Users, f \in Issued \cup {t} :
           t \notin Issued /\ token' = [token EXCEPT ![t] = Row(u, f)]
    BY <1>4, IssuesWell
  <2>2. f \in Tokens
    BY <2>1 DEF Issued
  <2>3. Issued' = Issued \cup {t} /\ token'[t].family = f
    BY <2>1, <2>2, IssueAdds DEF Row
  <2>4. CASE f = t
    BY <1>2, <2>3, <2>4 DEF RootsOK
  <2>5. CASE f # t
    <3>1. f \in Issued /\ \E s \in Issued : f = token[s].family
      <4>1. IssueNext(r, t)
        <5>1. CASE IssueFirst(r, t)
          <6>1. token' = [token EXCEPT ![t] = Row(work[r].user, t)]
            BY <5>1 DEF IssueFirst
          <6>2. token'[t].family = t
            BY <6>1 DEF TypeOK, Row
          <6>3. QED
            BY <2>3, <2>5, <6>2
        <5>2. QED
          BY <1>4, <5>1
      <4>2. /\ work[r].token \in Issued
            /\ token' = [token EXCEPT ![t] = Row(work[r].user, token[work[r].token].family)]
        BY <4>1 DEF IssueNext, Continue, WorkOK, RequestOK, TypeOK
      <4>3. token'[t].family = token[work[r].token].family
        BY <4>2 DEF TypeOK, Row
      <4>4. QED
        BY <2>1, <2>3, <2>5, <4>2, <4>3
    <3>2. token'[f].family = f
      BY <1>1, <3>1 DEF RootsOK
    <3>3. QED
      BY <1>2, <2>3, <3>2 DEF RootsOK
  <2>6. QED
    BY <2>4, <2>5
<1>5. QED
  <2>1. CASE UNCHANGED <<token, ended>>
    BY <1>3, <2>1 DEF Issued
  <2>2. ASSUME NEW r \in Requests, Rotate(r) \/ EndFamily(r) \/ RevokeAll(r)
        PROVE  Issued' = Issued
    BY <2>2, RotateReplaces, RevokeOnlyRevokes DEF EndFamily, RevokeAll
  <2>3. QED
    BY <1>3, <1>4, <2>1, <2>2, TokenSteps

LEMMA ReplacingPreserved ==
    ASSUME TypeOK, RowsOK, WorkOK, ReplacingOK, [Next]_vars
    PROVE  ReplacingOK'
<1> SUFFICES ASSUME NEW q \in Requests, pc'[q] = "rotating"
             PROVE  /\ token'[work'[q].next].family # work'[q].next
                    /\ token'[work'[q].next].revoked => token'[work'[q].token].revoked
  BY DEF ReplacingOK
<1>1. CASE pc'[q] = pc[q] /\ work'[q] = work[q]
  <2> DEFINE old == work[q].token
             new == work[q].next
  <2>1. /\ new \in Issued /\ new \notin held
        /\ old \in held /\ old \in Issued
        /\ token[new].family = token[old].family
        /\ token[new].user = token[old].user
        /\ token[new].family # new
        /\ token[new].revoked => token[old].revoked
    BY <1>1 DEF WorkOK, RequestOK, SuccessorOK, ReplacingOK, TypeOK
  <2>2. old \in Tokens /\ new \in Tokens
    BY <2>1 DEF Issued
  <2> HIDE DEF old, new
  <2>3. token'[new].family # new
    BY <2>1, IdentityKept
  <2>4. token[new].revoked => token'[old].revoked
    BY <2>1, <2>2, StaysRevoked
  <2>5. ASSUME ~token[new].revoked, token'[new].revoked
        PROVE  token'[old].revoked
    <3>1. PICK r \in Requests : Rotate(r) \/ EndFamily(r) \/ RevokeAll(r)
      BY <2>1, <2>5, OwnersRevoke
    <3>2. CASE Rotate(r)
      <4>1. work[r].token \in held
        BY <3>2 DEF Rotate, WorkOK, RequestOK
      <4>2. token'[new] = token[new]
        BY <2>1, <2>2, <3>2, <4>1, RotateReplaces
      <4>3. QED
        BY <2>5, <4>2
    <3>3. CASE EndFamily(r)
      <4> DEFINE f == token[work[r].token].family
      <4>1. Revoke(Family(f))
        BY <3>3 DEF EndFamily
      <4>2. new \in Family(f)
        BY <2>2, <2>5, <4>1, RevokeOnlyRevokes
      <4>3. old \in Family(f)
        BY <2>1, <4>2 DEF Family
      <4>4. QED
        BY <2>2, <4>1, <4>3, RevokeOnlyRevokes
    <3>4. CASE RevokeAll(r)
      <4> DEFINE all == {s \in Issued : token[s].user = work[r].user}
      <4>1. Revoke(all)
        BY <3>4 DEF RevokeAll
      <4>2. new \in all
        BY <2>2, <2>5, <4>1, RevokeOnlyRevokes
      <4>3. old \in all
        BY <2>1, <4>2
      <4>4. QED
        BY <2>2, <4>1, <4>3, RevokeOnlyRevokes
    <3>5. QED
      BY <3>1, <3>2, <3>3, <3>4
  <2>6. QED
    BY <1>1, <2>3, <2>4, <2>5 DEF old, new
<1>2. ASSUME NEW t \in Tokens, IssueNext(q, t)
      PROVE  /\ token'[work'[q].next].family # work'[q].next
             /\ ~token'[work'[q].next].revoked
  <2>1. /\ t \notin Issued
        /\ work' = [work EXCEPT ![q].next = t]
        /\ token' = [token EXCEPT ![t] = Row(work[q].user, token[work[q].token].family)]
        /\ work[q].token \in Issued
    BY <1>2 DEF IssueNext, Continue, WorkOK, RequestOK, TypeOK
  <2>2. work'[q].next = t
    BY <2>1 DEF TypeOK, Work
  <2>3. token'[t] = Row(work[q].user, token[work[q].token].family)
    BY <2>1 DEF TypeOK
  <2>4. token[work[q].token].family \in Issued
    BY <2>1 DEF RowsOK
  <2>5. QED
    BY <2>1, <2>2, <2>3, <2>4 DEF Row
<1>3. ASSUME Session(q) \/ Recovery(q) \/ Fail(q)
      PROVE  \E t \in Tokens : IssueNext(q, t)
  BY <1>3 DEF Session, Recovery, Fail, StartLogin, RecordLogin, IssueFirst, StartRefresh, Rotate,
     StartReuse, StartLogout, EndFamily, StartForgot, StoreCode, StoreCooldown, StartReset,
     ConsumeCode, SavePassword, RevokeAll, Begin, Continue, Finish, TypeOK
<1>4. QED
  BY <1>1, <1>2, <1>3, OneMoves

\* A step that neither issues nor revokes nor hands out a token shows at most as an overlap.
LEMMA QuietSteps ==
    ASSUME TypeOK, RowsOK, WorkOK, [Next]_vars, UNCHANGED <<token, held>>
    PROVE  Lifecycle!Next \/ UNCHANGED Lifecycle!sessionVars
<1>1. UNCHANGED <<OwnerOf, OpenOf, SessionOf, WorkingOf>>
  BY DEF OwnerOf, OpenOf, SessionOf, WorkingOf, Family, Issued
<1>2. raced' = raced \/ \E u \in Users : raced' = raced \cup {u}
  <2>1. CASE UNCHANGED raced
    BY <2>1
  <2>2. ASSUME NEW r \in Requests, pc'[r] # "idle",
               raced' = raced \cup {u \in {work'[r].user} : \E q \in Requests : work[q].user = u}
        PROVE  raced' = raced \/ \E u \in Users : raced' = raced \cup {u}
    <3>1. work'[r].user \in Users
      BY <2>2, WorkPreserved DEF WorkOK, RequestOK
    <3>2. CASE \E q \in Requests : work[q].user = work'[r].user
      BY <2>2, <3>1, <3>2
    <3>3. CASE ~\E q \in Requests : work[q].user = work'[r].user
      BY <2>2, <3>3
    <3>4. QED
      BY <3>2, <3>3
  <2>3. QED
    BY <2>1, <2>2, Moves DEF Finish
<1>3. CASE raced' = raced
  BY <1>1, <1>3 DEF Lifecycle!sessionVars
<1>4. ASSUME NEW u \in Users, raced' = raced \cup {u}
      PROVE  Lifecycle!Next
  <2>1. Lifecycle!Overlap(u)
    BY <1>1, <1>4 DEF Lifecycle!Overlap
  <2>2. QED
    BY <2>1 DEF Lifecycle!Next
<1>5. QED
  BY <1>2, <1>3, <1>4

\* Nothing that is not issued is a session, or has been sent.
LEMMA UnissuedIsNew ==
    ASSUME TypeOK, NEW t \in Tokens, t \notin Issued
    PROVE  /\ OwnerOf[t] = NoUser /\ SessionOf[t] = NoToken
           /\ t \notin held
<1>1. token[t].family = NoToken /\ token[t].family # t /\ t \notin held
  BY NullsAreNotIds DEF Issued, TypeOK
<1>2. QED
  BY <1>1 DEF OwnerOf, SessionOf

\* What a token that is issued and perhaps sent adds to the state of the sessions.
LEMMA IssueShows ==
    ASSUME TypeOK, NEW t \in Tokens, t \notin Issued, NEW u \in Users, NEW f \in Tokens,
           token' = [token EXCEPT ![t] = Row(u, f)]
    PROVE  /\ Lifecycle!New(t)
           /\ OwnerOf' = IF f = t THEN [OwnerOf EXCEPT ![t] = u] ELSE OwnerOf
           /\ OpenOf' = OpenOf \cup {f}
           /\ held' = held =>
                 SessionOf' = SessionOf /\ WorkingOf' = WorkingOf
           /\ held' = held \cup {t} =>
                 SessionOf' = [SessionOf EXCEPT ![t] = f] /\ WorkingOf' = WorkingOf \cup {t}
<1>1. /\ Issued' = Issued \cup {t}
      /\ token'[t].user = u /\ token'[t].family = f /\ ~token'[t].revoked
      /\ \A s \in Tokens \ {t} : token'[s] = token[s]
  BY IssueAdds DEF Row
<1>2. /\ OwnerOf[t] = NoUser /\ SessionOf[t] = NoToken /\ t \notin held
      /\ token[t].family # t
  BY UnissuedIsNew, NullsAreNotIds DEF Issued
<1>3. held \subseteq Tokens \ {t} /\ Issued \subseteq Tokens \ {t}
  BY <1>2 DEF TypeOK, Issued
<1>4. OwnerOf' = IF f = t THEN [OwnerOf EXCEPT ![t] = u] ELSE OwnerOf
  BY <1>1, <1>2 DEF OwnerOf
<1>5. OpenOf' = OpenOf \cup {f}
  <2>1. Family(f)' = Family(f) \cup {t} /\ \A g \in Tokens \ {f} : Family(g)' = Family(g)
    BY <1>1, <1>3 DEF Family
  <2>2. \A g \in Tokens : Family(g) \subseteq Tokens \ {t}
    BY <1>3 DEF Family
  <2>3. f \in OpenOf'
    BY <1>1, <2>1 DEF OpenOf
  <2>4. \A g \in Tokens \ {f} : g \in OpenOf' <=> g \in OpenOf
    BY <1>1, <2>1, <2>2 DEF OpenOf
  <2>5. QED
    BY <2>3, <2>4 DEF OpenOf
<1>6. held' = held => SessionOf' = SessionOf /\ WorkingOf' = WorkingOf
  BY <1>1, <1>2, <1>3 DEF SessionOf, WorkingOf
<1>7. ASSUME held' = held \cup {t}
      PROVE  SessionOf' = [SessionOf EXCEPT ![t] = f] /\ WorkingOf' = WorkingOf \cup {t}
  <2>1. SessionOf' = [SessionOf EXCEPT ![t] = f]
    <3>1. SessionOf'[t] = f
      BY <1>1, <1>7 DEF SessionOf
    <3>2. \A s \in Tokens \ {t} : SessionOf'[s] = SessionOf[s]
      BY <1>1, <1>7 DEF SessionOf
    <3>3. QED
      BY <3>1, <3>2 DEF SessionOf
  <2>2. WorkingOf' = WorkingOf \cup {t}
    BY <1>1, <1>2, <1>3, <1>7 DEF WorkingOf
  <2>3. QED
    BY <2>1, <2>2
<1>8. QED
  BY <1>2, <1>4, <1>5, <1>6, <1>7 DEF Lifecycle!New

LEMMA LoginOpens ==
    ASSUME TypeOK, RowsOK, WorkOK, NEW r \in Requests, NEW t \in Tokens, IssueFirst(r, t)
    PROVE  Lifecycle!Next
<1> DEFINE u == work[r].user
<1>1. /\ t \notin Issued /\ token' = [token EXCEPT ![t] = Row(u, t)]
      /\ held' = held \/ held' = held \cup {t}
      /\ raced' = raced
  BY DEF IssueFirst, Answer, Finish
<1>2. u \in Users
  BY DEF IssueFirst, WorkOK, RequestOK
<1> HIDE DEF u
<1>3. Lifecycle!Open(u, t)
  BY <1>1, <1>2, IssueShows DEF Lifecycle!Open
<1>4. QED
  BY <1>2, <1>3 DEF Lifecycle!Next

\* The account of a session is that of each of its tokens.
LEMMA SessionsOwner ==
    ASSUME TypeOK, RowsOK, RootsOK, NEW t \in Issued
    PROVE  /\ token[t].family \in Tokens
           /\ OwnerOf[token[t].family] = token[t].user
           /\ t \in held => SessionOf[t] = token[t].family
<1>1. t \in Tokens /\ token[t].family \in Tokens
  BY DEF Issued, RowsOK
<1>2. QED
  BY <1>1 DEF OwnerOf, SessionOf, RootsOK, RowsOK

\* The successor a refresh saves shows only where it is the first sign of life of a session that
\* was closed meanwhile.
LEMMA SuccessorReopens ==
    ASSUME TypeOK, RowsOK, WorkOK, RootsOK, LiveOK,
           NEW r \in Requests, NEW t \in Tokens, IssueNext(r, t)
    PROVE  Lifecycle!Next \/ UNCHANGED Lifecycle!sessionVars
<1> DEFINE u == work[r].user
           old == work[r].token
           f == token[old].family
<1>1. /\ t \notin Issued /\ token' = [token EXCEPT ![t] = Row(u, f)]
      /\ UNCHANGED <<held, raced>>
      /\ pc[r] = "issuing" /\ old # NoToken
  BY DEF IssueNext, Continue
<1>2. u \in Users /\ old \in held /\ old \in Issued /\ token[old].user = u
  BY <1>1 DEF WorkOK, RequestOK, TypeOK
<1>3. f \in Tokens /\ f # t /\ OwnerOf[f] = u
  BY <1>1, <1>2, SessionsOwner DEF RowsOK
<1>4. /\ OwnerOf' = OwnerOf /\ OpenOf' = OpenOf \cup {f}
      /\ SessionOf' = SessionOf /\ WorkingOf' = WorkingOf
  <2> HIDE DEF u, f
  <2>1. QED
    BY <1>1, <1>2, <1>3, IssueShows
<1>5. CASE f \in OpenOf
  BY <1>1, <1>4, <1>5 DEF Lifecycle!sessionVars
<1>6. CASE f \notin OpenOf
  <2>1. token[old].revoked
    BY <1>2, <1>3, <1>6 DEF OpenOf, Family
  <2>2. u \in raced
    BY <1>1, <2>1 DEF LiveOK
  <2>3. Lifecycle!Reopen(f)
    BY <1>1, <1>3, <1>4, <2>2 DEF Lifecycle!Reopen
  <2>4. QED
    BY <1>3, <2>3 DEF Lifecycle!Next
<1>7. QED
  BY <1>5, <1>6

\* The rotation takes the old key and sends the new one; only where another request has taken the
\* old one first is there a branch.
LEMMA RotationRenews ==
    ASSUME TypeOK, RowsOK, WorkOK, RootsOK, LiveOK, ReplacingOK, NEW r \in Requests, Rotate(r)
    PROVE  Lifecycle!Next \/ UNCHANGED Lifecycle!sessionVars
<1> DEFINE old == work[r].token
           new == work[r].next
           f == token[old].family
<1>1. /\ old \in held /\ old \in Issued /\ old \in Tokens
      /\ token[old].user = work[r].user
      /\ new \in Issued /\ new \notin held /\ new \in Tokens
      /\ token[new].family = f /\ f # new
      /\ token[new].revoked => token[old].revoked
      /\ work[r].user \notin raced => ~token[old].revoked
  BY DEF Rotate, WorkOK, RequestOK, SuccessorOK, ReplacingOK, LiveOK, TypeOK, Issued
<1>2. /\ f \in Tokens /\ f # NoToken
      /\ OwnerOf[f] = work[r].user
      /\ SessionOf[old] = f
  BY <1>1, SessionsOwner, NullsAreNotIds
<1>3. /\ Issued' = Issued
      /\ \A t \in Tokens : /\ token'[t].user = token[t].user
                           /\ token'[t].family = token[t].family
                           /\ t # old => token'[t] = token[t]
      /\ token'[old].revoked
  BY RotateReplaces
<1>4. /\ held' = held \/ held' = held \cup {new}
      /\ raced' = raced
  BY DEF Rotate, Answer, Finish
<1>5. held \subseteq Tokens /\ Issued \subseteq Tokens
  BY DEF TypeOK, Issued
<1> HIDE DEF old, new, f
<1>6. OwnerOf' = OwnerOf
  BY <1>3 DEF OwnerOf
<1>7. OpenOf' = OpenOf
  <2>1. ASSUME NEW g \in Tokens, NEW s \in Family(g), ~token[s].revoked
        PROVE  \E t \in Family(g)' : ~token'[t].revoked
    <3>1. CASE s # old
      BY <1>3, <1>5, <2>1, <3>1 DEF Family
    <3>2. CASE s = old
      <4>1. new \in Family(g)' /\ ~token'[new].revoked
        BY <1>1, <1>3, <2>1, <3>2 DEF Family, f
      <4>2. QED
        BY <4>1
    <3>3. QED
      BY <3>1, <3>2
  <2>2. ASSUME NEW g \in Tokens, NEW s \in Family(g)', ~token'[s].revoked
        PROVE  s \in Family(g) /\ ~token[s].revoked
    BY <1>3, <1>5, <2>2 DEF Family
  <2>3. QED
    BY <2>1, <2>2 DEF OpenOf
<1>8. Lifecycle!New(new)
  BY <1>1, NullsAreNotIds DEF Lifecycle!New, OwnerOf, SessionOf
<1>9. /\ held' = held => SessionOf' = SessionOf
      /\ held' = held \cup {new} => SessionOf' = [SessionOf EXCEPT ![new] = f]
  BY <1>1, <1>3, <1>5 DEF SessionOf
<1>10. CASE ~token[old].revoked
  <2>1. old \in WorkingOf
    BY <1>1, <1>10 DEF WorkingOf
  <2>2. /\ held' = held => WorkingOf' = WorkingOf \ {old}
        /\ held' = held \cup {new} => WorkingOf' = (WorkingOf \ {old}) \cup {new}
    BY <1>1, <1>3, <1>5, <1>10 DEF WorkingOf
  <2>3. Lifecycle!Renew(old, new)
    BY <1>2, <1>4, <1>6, <1>7, <1>8, <1>9, <2>1, <2>2 DEF Lifecycle!Renew
  <2>4. QED
    BY <1>1, <2>3 DEF Lifecycle!Next
<1>11. CASE token[old].revoked
  <2>1. old \notin WorkingOf /\ work[r].user \in raced
    BY <1>1, <1>11 DEF WorkingOf
  <2>2. /\ held' = held => WorkingOf' = WorkingOf
        /\ held' = held \cup {new} =>
              WorkingOf' = IF token[new].revoked THEN WorkingOf ELSE WorkingOf \cup {new}
    BY <1>1, <1>3, <1>5, <1>11 DEF WorkingOf
  <2>3. ~token[new].revoked => OpenOf \cup {f} = OpenOf
    BY <1>1, <1>2 DEF OpenOf, Family
  <2>4. CASE held' = held
    BY <1>4, <1>6, <1>7, <1>9, <2>2, <2>4 DEF Lifecycle!sessionVars
  <2>5. CASE held' = held \cup {new}
    <3>1. Lifecycle!Branch(old, new)
      BY <1>2, <1>4, <1>6, <1>7, <1>8, <1>9, <2>1, <2>2, <2>5, <2>3 DEF Lifecycle!Branch
    <3>2. QED
      BY <1>1, <3>1 DEF Lifecycle!Next
  <2>6. QED
    BY <1>4, <2>4, <2>5
<1>12. QED
  BY <1>10, <1>11

\* Revoking the tokens of some sessions closes those, and nothing else.
LEMMA RevokeCloses ==
    ASSUME TypeOK, NEW fs, Revoke({t \in Issued : token[t].family \in fs}),
           UNCHANGED <<held, raced>>
    PROVE  Lifecycle!Close(fs)
<1> DEFINE ts == {t \in Issued : token[t].family \in fs}
<1>1. /\ Issued' = Issued
      /\ \A t \in Tokens : /\ token'[t].user = token[t].user
                           /\ token'[t].family = token[t].family
                           /\ token'[t].revoked = (token[t].revoked \/ t \in ts)
  BY RevokeOnlyRevokes
<1>2. Issued \subseteq Tokens /\ held \subseteq Issued
  BY DEF TypeOK, Issued
<1>3. OwnerOf' = OwnerOf
  BY <1>1 DEF OwnerOf
<1>4. SessionOf' = SessionOf
  BY <1>1, <1>2 DEF SessionOf
<1>5. OpenOf' = OpenOf \ fs
  <2>1. \A g \in Tokens : Family(g)' = Family(g) /\ Family(g) \subseteq Tokens
    BY <1>1, <1>2 DEF Family
  <2>2. ASSUME NEW g \in Tokens, NEW t \in Family(g)
        PROVE  token'[t].revoked = (token[t].revoked \/ g \in fs)
    BY <1>1, <1>2, <2>2 DEF Family
  <2>3. \A g \in Tokens : g \in OpenOf' <=> g \in OpenOf /\ g \notin fs
    BY <2>1, <2>2 DEF OpenOf
  <2>4. QED
    BY <2>3 DEF OpenOf
<1>6. \A t \in held : t \in ts <=> SessionOf[t] \in fs
  BY <1>2 DEF SessionOf
<1> HIDE DEF ts
<1>7. WorkingOf' = {t \in WorkingOf : SessionOf[t] \notin fs}
  BY <1>1, <1>2, <1>6 DEF WorkingOf
<1>8. QED
  BY <1>3, <1>4, <1>5, <1>7 DEF Lifecycle!Close

\* The UPDATE of a reuse or a logout closes the session, or finds it closed.
LEMMA EndFamilyCloses ==
    ASSUME TypeOK, RowsOK, WorkOK, RootsOK, NEW r \in Requests, EndFamily(r)
    PROVE  Lifecycle!Next \/ UNCHANGED Lifecycle!sessionVars
<1> DEFINE k == work[r].token
           f == token[k].family
<1>1. k \in held /\ k \in Issued
  BY DEF EndFamily, WorkOK, RequestOK, TypeOK
<1>2. k \in Tokens /\ SessionOf[k] = f
  BY <1>1, SessionsOwner DEF Issued
<1>3. Lifecycle!Close({f})
  <2>1. Revoke(Family(f)) /\ UNCHANGED <<held, raced>>
    BY DEF EndFamily, Finish
  <2>2. Family(f) = {t \in Issued : token[t].family \in {f}}
    BY DEF Family
  <2> HIDE DEF f
  <2>3. QED
    BY <2>1, <2>2, RevokeCloses
<1>4. CASE f \in OpenOf
  <2>1. Lifecycle!CloseWith(k)
    BY <1>2, <1>3, <1>4 DEF Lifecycle!CloseWith
  <2>2. QED
    BY <1>2, <2>1 DEF Lifecycle!Next
<1>5. CASE f \notin OpenOf
  <2>1. \A t \in WorkingOf : SessionOf[t] # f
    <3>1. ASSUME NEW t \in WorkingOf, SessionOf[t] = f
          PROVE  t \in Family(f) /\ ~token[t].revoked /\ f \in Tokens
      BY <1>1, <3>1 DEF WorkingOf, SessionOf, Family, TypeOK, Issued, RowsOK
    <3>2. QED
      BY <1>5, <3>1 DEF OpenOf
  <2>2. OpenOf \ {f} = OpenOf /\ {t \in WorkingOf : SessionOf[t] \notin {f}} = WorkingOf
    BY <1>5, <2>1
  <2>3. QED
    BY <1>3, <2>2 DEF Lifecycle!Close, Lifecycle!sessionVars
<1>6. QED
  BY <1>4, <1>5

\* The UPDATE of a reset closes every session of the account.
LEMMA RevokeAllCloses ==
    ASSUME TypeOK, RowsOK, WorkOK, RootsOK, NEW r \in Requests, RevokeAll(r)
    PROVE  Lifecycle!Next
<1> DEFINE u == work[r].user
           fs == {f \in Tokens : OwnerOf[f] = u}
<1>1. u \in Users
  BY DEF RevokeAll, WorkOK, RequestOK
<1>2. Revoke({t \in Issued : token[t].user = u}) /\ UNCHANGED <<held, raced>>
  BY DEF RevokeAll, Finish
<1>3. {t \in Issued : token[t].user = u} = {t \in Issued : token[t].family \in fs}
  BY SessionsOwner
<1> HIDE DEF fs
<1>4. Lifecycle!Close(fs)
  BY <1>2, <1>3, RevokeCloses
<1>5. Lifecycle!CloseAll(u)
  BY <1>4 DEF Lifecycle!CloseAll, fs
<1>6. QED
  BY <1>1, <1>5 DEF Lifecycle!Next

LEMMA FirstSessions == Init => RefinementInv /\ Lifecycle!Init
<1> SUFFICES ASSUME Init PROVE RefinementInv /\ Lifecycle!Init
  OBVIOUS
<1>1. SessionsInv
  BY FirstState
<1>2. /\ \A t \in Tokens : token[t].family = NoToken
      /\ held = {} /\ raced = {}
  BY DEF Init, NoRow, Row
<1>3. Issued = {}
  BY <1>2 DEF Issued
<1>4. RootsOK /\ ReplacingOK
  BY <1>3 DEF Init, RootsOK, ReplacingOK
<1>5. /\ OwnerOf = [f \in Tokens |-> NoUser] /\ OpenOf = {}
      /\ SessionOf = [t \in Tokens |-> NoToken] /\ WorkingOf = {}
  BY <1>2, <1>3, NullsAreNotIds DEF OwnerOf, OpenOf, SessionOf, WorkingOf, Family
<1>6. QED
  BY <1>1, <1>2, <1>4, <1>5 DEF RefinementInv, Lifecycle!Init

LEMMA RefinementInductive == RefinementInv /\ [Next]_vars => RefinementInv'
  BY SessionsInductive, RootsPreserved, ReplacingPreserved DEF RefinementInv, SessionsInv, IInv

\* Every step of the requests is a step of the lifecycle, or does not show there.
LEMMA StepsShow ==
    ASSUME RefinementInv, [Next]_vars
    PROVE  Lifecycle!Next \/ UNCHANGED Lifecycle!sessionVars
<1> USE DEF RefinementInv, SessionsInv, IInv
<1>1. CASE UNCHANGED <<token, held>>
  BY <1>1, QuietSteps
<1>2. ASSUME NEW r \in Requests, NEW t \in Tokens, IssueFirst(r, t)
      PROVE  Lifecycle!Next
  BY <1>2, LoginOpens
<1>3. ASSUME NEW r \in Requests, NEW t \in Tokens, IssueNext(r, t)
      PROVE  Lifecycle!Next \/ UNCHANGED Lifecycle!sessionVars
  BY <1>3, SuccessorReopens
<1>4. ASSUME NEW r \in Requests, Rotate(r)
      PROVE  Lifecycle!Next \/ UNCHANGED Lifecycle!sessionVars
  BY <1>4, RotationRenews
<1>5. ASSUME NEW r \in Requests, EndFamily(r)
      PROVE  Lifecycle!Next \/ UNCHANGED Lifecycle!sessionVars
  BY <1>5, EndFamilyCloses
<1>6. ASSUME NEW r \in Requests, RevokeAll(r)
      PROVE  Lifecycle!Next
  BY <1>6, RevokeAllCloses
<1>7. QED
  BY <1>1, <1>2, <1>3, <1>4, <1>5, <1>6, TokenSteps, HandedOut

\* However requests interleave and wherever they stop, what clients see of a session is the
\* lifecycle; only of accounts whose requests have overlapped may a session that was closed open
\* again, or have two keys.
THEOREM SessionsFollowLifecycle == Spec => ImplementsSessions
<1>1. RefinementInv /\ [Next]_vars => [Lifecycle!Next]_(Lifecycle!sessionVars)
  BY StepsShow
<1>2. QED
  BY <1>1, FirstSessions, RefinementInductive, PTL DEF Spec, ImplementsSessions, Lifecycle!Spec

=============================================================================
