--------------------------- MODULE OrderAnalytics ---------------------------
(***************************************************************************)
(* AnalyticsService.getSummary() (modules/analytics): what its queries     *)
(* join of the rows OrdersService writes, for a range of dates that has    *)
(* all of them, and as if nothing were committed between the queries. An   *)
(* average is taken over the pairs of history rows below, one pair an      *)
(* order if the history is what the queries take it to be. Times are left  *)
(* out: the rows of a history are in the order of their commits, while the *)
(* times in them are those at which the transactions began.                *)
(***************************************************************************)
EXTENDS OrderTransactions, FiniteSets

CONSTANT Limit    \* how many couriers the leaderboard names: 10 in the query

ASSUME LimitIsNat == Limit \in Nat

\* Orders by status.
ByStatus(s) == {o \in Orders : order[o].status = s}

\* The rows <<i, j>> of an order's history that lead to the one status and to the other.
HistoryPairs(o, earlier, later) ==
    {p \in (DOMAIN history[o]) \X (DOMAIN history[o]) :
        history[o][p[1]].to = earlier /\ history[o][p[2]].to = later}

\* What avgDeliveryTimeSeconds and avgDispatchTimeSeconds average over.
DeliveryPairs(o) == HistoryPairs(o, "ACCEPTED", "DELIVERED")
DispatchPairs(o) == HistoryPairs(o, "CREATED", "ASSIGNED")

\* A slip: the count joins orders instead of deliveries.
AssignedDeliveries(c) == {o \in Orders : order[o].courier = c /\ order[o].status \in Terminal}

\* The deliveries counted for a courier, who has a line in the result if there are any.
Deliveries(c) == {o \in Orders : delivery[o] = c}
Lines == {c \in Couriers : Deliveries(c) # {}}

\* ORDER BY "deliveredCount" DESC LIMIT: the couriers of the lines that are left, any if they tie.
TopCouriers ==
    IF Cardinality(Lines) <= Limit THEN {Lines}
    ELSE {top \in SUBSET Lines :
             /\ Cardinality(top) = Limit
             /\ \A c \in top, d \in Lines \ top : Cardinality(Deliveries(d)) <= Cardinality(Deliveries(c))}

----------------------------------------------------------------------------
(* Properties *)

\* What a courier has delivered, by the orders and not by the deliveries.
Delivered(c) == {o \in ByStatus("DELIVERED") : order[o].courier = c}

\* analytics.service.ts:35-96, with one request per order: a delivered order, and no other, enters
\* the average delivery time, once, and an order enters the average dispatch time at most once, each
\* with two rows committed in that order. The leaderboard counts what its couriers have delivered,
\* and one who has delivered is missing only when it is full of such as have delivered no less.
SummaryAgrees ==
    /\ \A o \in Orders :
        /\ DeliveryPairs(o) # {} <=> o \in ByStatus("DELIVERED")
        /\ \A p, q \in DeliveryPairs(o) : p = q /\ p[1] < p[2]
        /\ \A p, q \in DispatchPairs(o) : p = q /\ p[1] < p[2]
    /\ \A top \in TopCouriers :
        /\ \A c \in top : Deliveries(c) = Delivered(c)
        /\ \A d \in Couriers \ top : Delivered(d) # {} =>
              /\ Cardinality(top) = Limit
              /\ \A c \in top : Cardinality(Delivered(d)) <= Cardinality(Delivered(c))

\* However requests race, a delivered order enters both averages: its history has been led to
\* CREATED before ASSIGNED and to ACCEPTED before DELIVERED, in the order of the commits.
DeliveredAreCounted ==
    \A o \in ByStatus("DELIVERED") :
        /\ \E p \in DeliveryPairs(o) : p[1] < p[2]
        /\ \E p \in DispatchPairs(o) : p[1] < p[2]

=============================================================================
