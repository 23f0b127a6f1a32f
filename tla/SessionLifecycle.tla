-------------------------- MODULE SessionLifecycle --------------------------
(***************************************************************************)
(* What AuthService promises of a session, with no requests and no         *)
(* database. A login opens a session of one account and sends its first    *)
(* key. A refresh takes a key that works and sends another, which nobody   *)
(* had before, or loses it on the way. Whoever was ever sent a key can     *)
(* close the session, by logging out or by presenting a key that was       *)
(* replaced, and a reset of the password closes all sessions of the        *)
(* account: for good, unless requests of the account have overlapped. Of   *)
(* an account whose requests have, a session may open again, and have      *)
(* several keys that work.                                                 *)
(***************************************************************************)

CONSTANTS
    Users,
    Tokens,      \* the keys; a session goes by the name of its first
    NoUser, NoToken

VARIABLES
    owner,       \* [Tokens -> account]: whose session it is
    open,        \* the sessions that are open
    session,     \* [Tokens -> session]: of the keys that clients were sent
    working,     \* the keys that can be exchanged for another
    unsettled    \* the accounts whose requests have overlapped

sessionVars == <<owner, open, session, working, unsettled>>

Init ==
    /\ owner = [f \in Tokens |-> NoUser]
    /\ open = {}
    /\ session = [t \in Tokens |-> NoToken]
    /\ working = {}
    /\ unsettled = {}

New(t) == session[t] = NoToken /\ owner[t] = NoUser

Open(u, f) ==
    /\ New(f)
    /\ owner' = [owner EXCEPT ![f] = u]
    /\ open' = open \cup {f}
    /\ \/ session' = [session EXCEPT ![f] = f] /\ working' = working \cup {f}
       \/ UNCHANGED <<session, working>>
    /\ UNCHANGED unsettled

Renew(k, t) ==
    /\ k \in working
    /\ New(t)
    /\ \/ session' = [session EXCEPT ![t] = session[k]] /\ working' = (working \ {k}) \cup {t}
       \/ working' = working \ {k} /\ UNCHANGED session
    /\ UNCHANGED <<owner, open, unsettled>>

Close(fs) ==
    /\ open' = open \ fs
    /\ working' = {k \in working : session[k] \notin fs}
    /\ UNCHANGED <<owner, session, unsettled>>

\* By a client with a key of the session, that works or not.
CloseWith(k) == session[k] \in open /\ Close({session[k]})

CloseAll(u) == Close({f \in Tokens : owner[f] = u})

Overlap(u) ==
    /\ unsettled' = unsettled \cup {u}
    /\ UNCHANGED <<owner, open, session, working>>

\* A request that was in flight when the session was closed opens it again.
Reopen(f) ==
    /\ owner[f] \in unsettled
    /\ open' = open \cup {f}
    /\ UNCHANGED <<owner, session, working, unsettled>>

\* A key that another request has replaced meanwhile, or closed the session of, is replaced once
\* more, and the new one works unless it was closed in turn.
Branch(k, t) ==
    /\ session[k] # NoToken
    /\ owner[session[k]] \in unsettled
    /\ k \notin working
    /\ New(t)
    /\ session' = [session EXCEPT ![t] = session[k]]
    /\ \/ open' = open \cup {session[k]} /\ working' = working \cup {t}
       \/ UNCHANGED <<open, working>>
    /\ UNCHANGED <<owner, unsettled>>

Next ==
    \/ \E u \in Users : CloseAll(u) \/ Overlap(u) \/ \E f \in Tokens : Open(u, f)
    \/ \E k \in Tokens : CloseWith(k) \/ \E t \in Tokens : Renew(k, t) \/ Branch(k, t)
    \/ \E f \in Tokens : Reopen(f)

Spec == Init /\ [][Next]_sessionVars

=============================================================================
