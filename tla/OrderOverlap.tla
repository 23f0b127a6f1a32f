---------------------------- MODULE OrderOverlap ----------------------------
(***************************************************************************)
(* What OrdersService promises of each order when requests for it overlap, *)
(* which OrderLifecycle forbids: no row lock is held from the read to the  *)
(* UPDATE, so a request takes a rule of the transitions table from the     *)
(* status it READ, and overwrites what others have made of the order       *)
(* since.  What is left of the lifecycle is that nothing else moves an     *)
(* order: only requests still open do, each from what it read; only an     *)
(* assignment names a courier; and a delivery is recorded once, for the    *)
(* courier the order has by then.                                          *)
(***************************************************************************)
EXTENDS Naturals

CONSTANTS Orders, Couriers, NoCourier, NoStatus, Edges

VARIABLES
    status,      \* [Orders -> status]
    holder,      \* [Orders -> the assigned courier]
    deliverer,   \* [Orders -> the courier of the delivery row]
    open         \* [Orders -> the statuses read by the requests still open for the order]

overlapVars == <<status, holder, deliverer, open>>

Init ==
    /\ status = [o \in Orders |-> NoStatus]
    /\ holder = [o \in Orders |-> NoCourier]
    /\ deliverer = [o \in Orders |-> NoCourier]
    /\ open = [o \in Orders |-> {}]

Create(o) ==
    /\ status[o] = NoStatus
    /\ status' = [status EXCEPT ![o] = "CREATED"]
    /\ UNCHANGED <<holder, deliverer, open>>

\* A request reads the order: it may act on this status, and on no other, until it ends.
Open(o) ==
    /\ status[o] # NoStatus
    /\ open' = [open EXCEPT ![o] = @ \cup {status[o]}]
    /\ UNCHANGED <<status, holder, deliverer>>

\* A request that read `from` ends, and it was or was not the only one.
Close(o, from) == open' \in {open, [open EXCEPT ![o] = @ \ {from}]}

\* It ends without having changed anything.
Abandon(o, from) ==
    /\ Close(o, from)
    /\ UNCHANGED <<status, holder, deliverer>>

Assign(o, c) ==
    /\ "CREATED" \in open[o]
    /\ status' = [status EXCEPT ![o] = "ASSIGNED"]
    /\ holder' = [holder EXCEPT ![o] = c]
    /\ Close(o, "CREATED")
    /\ UNCHANGED deliverer

Move(o, from, to) ==
    /\ from \in open[o]
    /\ <<from, to>> \in Edges
    /\ to # "ASSIGNED"
    /\ status' = [status EXCEPT ![o] = to]
    /\ IF to = "DELIVERED"
         THEN /\ holder[o] # NoCourier
              /\ deliverer[o] = NoCourier
              /\ deliverer' = [deliverer EXCEPT ![o] = holder[o]]
         ELSE UNCHANGED deliverer
    /\ Close(o, from)
    /\ UNCHANGED holder

Next ==
    \E o \in Orders :
        \/ Create(o)
        \/ Open(o)
        \/ \E from \in open[o] : Abandon(o, from)
        \/ \E c \in Couriers : Assign(o, c)
        \/ \E from \in open[o] : \E to \in {e[2] : e \in Edges} : Move(o, from, to)

Spec == Init /\ [][Next]_overlapVars

=============================================================================
