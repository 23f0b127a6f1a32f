--------------------------- MODULE OrderLifecycle ---------------------------
(***************************************************************************)
(* What OrdersService promises of each order, with no requests and no      *)
(* database: an order is created, assigned once, and then moves one rule   *)
(* of the transitions table at a time, as the README says ("validated      *)
(* server-side against both the order's current status and the caller's    *)
(* role"); it keeps its courier, and is recorded as delivered, by that     *)
(* courier, in the step that makes it DELIVERED.                           *)
(***************************************************************************)
EXTENDS Naturals

CONSTANTS Orders, Couriers, NoCourier, NoStatus, Edges

VARIABLES
    status,      \* [Orders -> status]
    holder,      \* [Orders -> the assigned courier]
    deliverer    \* [Orders -> the courier of the delivery row]

lifecycleVars == <<status, holder, deliverer>>

Init ==
    /\ status = [o \in Orders |-> NoStatus]
    /\ holder = [o \in Orders |-> NoCourier]
    /\ deliverer = [o \in Orders |-> NoCourier]

Create(o) ==
    /\ status[o] = NoStatus
    /\ status' = [status EXCEPT ![o] = "CREATED"]
    /\ UNCHANGED <<holder, deliverer>>

\* Assignment happens once: nothing leads back to CREATED.
Assign(o, c) ==
    /\ status[o] = "CREATED"
    /\ status' = [status EXCEPT ![o] = "ASSIGNED"]
    /\ holder' = [holder EXCEPT ![o] = c]
    /\ UNCHANGED deliverer

Move(o, to) ==
    /\ to # "ASSIGNED"
    /\ <<status[o], to>> \in Edges
    /\ status' = [status EXCEPT ![o] = to]
    /\ deliverer' = IF to = "DELIVERED" THEN [deliverer EXCEPT ![o] = holder[o]] ELSE deliverer
    /\ UNCHANGED holder

Next ==
    \E o \in Orders :
        \/ Create(o)
        \/ \E c \in Couriers : Assign(o, c)
        \/ \E to \in {e[2] : e \in Edges} : Move(o, to)

Spec == Init /\ [][Next]_lifecycleVars

=============================================================================
