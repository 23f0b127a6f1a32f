------------------------- MODULE SessionRefinement -------------------------
(***************************************************************************)
(* How the rows of refresh_tokens, and the tokens clients were sent,       *)
(* represent the state of SessionLifecycle: a session is a family, open    *)
(* while one of its tokens is not revoked.                                 *)
(***************************************************************************)
EXTENDS AuthSessions

OwnerOf   == [f \in Tokens |-> IF token[f].family = f THEN token[f].user ELSE NoUser]
OpenOf    == {f \in Tokens : \E t \in Family(f) : ~token[t].revoked}
SessionOf == [t \in Tokens |-> IF t \in held THEN token[t].family ELSE NoToken]
WorkingOf == {t \in held : ~token[t].revoked}

Lifecycle == INSTANCE SessionLifecycle WITH
    owner     <- OwnerOf,
    open      <- OpenOf,
    session   <- SessionOf,
    working   <- WorkingOf,
    unsettled <- raced

\* auth.service.ts:97-155 and 182-192: however requests interleave and wherever they stop, what
\* clients see of a session is the lifecycle; only of accounts whose requests have overlapped may
\* a session that was closed open again, or have two keys.
ImplementsSessions == Lifecycle!Spec

=============================================================================
