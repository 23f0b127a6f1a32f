-------------------------- MODULE ClientRefinement --------------------------
(***************************************************************************)
(* How the pairs of tokens that clients were issued represent the state of *)
(* SessionLifecycle: the backend that Clients has in it, in short, keeps   *)
(* the same promise as the one of AuthSessions, in detail.                 *)
(***************************************************************************)
EXTENDS Clients

OwnerOf   == [p \in Pairs |-> IF row[p].family = p THEN row[p].user ELSE NoClient]
WorkingOf == Issued \ revoked
OpenOf    == {row[p].family : p \in WorkingOf}
SessionOf == [p \in Pairs |-> row[p].family]

Lifecycle == INSTANCE SessionLifecycle WITH
    Users     <- Clients,
    Tokens    <- Pairs,
    NoUser    <- NoClient,
    NoToken   <- NoPair,
    owner     <- OwnerOf,
    open      <- OpenOf,
    session   <- SessionOf,
    working   <- WorkingOf,
    unsettled <- disturbed

\* middleware.ts:34-48, apps/mobile/src/lib/api.ts:28-38: whatever clients send and wherever they
\* are cut off, their sessions follow the lifecycle; only for a client whose requests have
\* overlapped, been cut off or met an error may a session branch or open again.
FollowsLifecycle == Lifecycle!Spec

=============================================================================
