-------------------------- MODULE OrderRefinement --------------------------
(***************************************************************************)
(* How the committed rows of OrderTransactions represent the state of      *)
(* OrderLifecycle, and with its requests in flight that of OrderOverlap.   *)
(***************************************************************************)
EXTENDS OrderTransactions

Lifecycle == INSTANCE OrderLifecycle WITH
    status    <- [o \in Orders |-> order[o].status],
    holder    <- [o \in Orders |-> order[o].courier],
    deliverer <- delivery

\* While no two requests for one order overlap, the service is the lifecycle of the README:
\* every committed transaction is one step of it, whatever else runs for other orders.
ImplementsLifecycle == Lifecycle!Spec

\* What each request still in flight for an order read as its status.
Open == [o \in Orders |->
            {work[r].from : r \in {q \in Requests : pc[q] # "idle" /\ work[q].order = o}}]

Overlap == INSTANCE OrderOverlap WITH
    status    <- [o \in Orders |-> order[o].status],
    holder    <- [o \in Orders |-> order[o].courier],
    deliverer <- delivery,
    open      <- Open

\* However requests overlap: an order is moved by requests in flight only, each by one rule of the
\* table from the status it read, and its courier and its delivery row survive the overwriting.
SurvivesOverlap == Overlap!Spec

\* Some request in flight read a status the order no longer has.
Stale(o) == \E s \in Open[o] : s # order[o].status

\* And overlapping requests are all that can go wrong: a step that changes an order of which no
\* read is out of date is a step of the lifecycle, whatever happened to the order before.
LifecycleUnlessStale ==
    [][(\A o \in Orders : order'[o] # order[o] => ~Stale(o))
       => Lifecycle!Next \/ UNCHANGED Lifecycle!lifecycleVars]_vars

=============================================================================
