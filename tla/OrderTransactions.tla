------------------------- MODULE OrderTransactions -------------------------
(***************************************************************************)
(* OrdersService (modules/orders/orders.service.ts) as it runs inside the  *)
(* database: every authenticated HTTP request is one READ COMMITTED        *)
(* transaction (TenantContextService.runForActor), and a handler is a      *)
(* plain SELECT, some checks in memory, and then UPDATEs and INSERTs, each *)
(* an await at which any other request may run.                            *)
(*                                                                         *)
(* `order`, `courier`, `history` and `delivery` are the COMMITTED rows.    *)
(* What a transaction has written and not committed is known from its pc   *)
(* and `work`, and no other transaction sees it; a row it has updated is   *)
(* locked until it ends, so an UPDATE of that row by another waits.        *)
(*                                                                         *)
(* Two other services write couriers.status: CouriersService, when a       *)
(* courier chooses it, and DevicesService.pair(), which saves the whole    *)
(* courier as it has read it.                                              *)
(***************************************************************************)
EXTENDS Naturals, Sequences

CONSTANTS
    Orders,       \* order ids
    Couriers,     \* courier ids of the company
    Requests,     \* slots of requests in flight on the backend
    Pairings,     \* slots of pairings of a device with a courier in flight
    OwnChoices,   \* the statuses couriers choose for themselves, of those the DTO accepts
    NoOrder,      \* what an idle slot works on
    NoCourier,    \* a NULL "assignedCourierId", or no row in deliveries
    NoRequest,    \* nobody holds the row lock
    MaxHistory    \* bound: no request starts on an order with this many history rows

ASSUME NullsAreNotIds ==
    NoOrder \notin Orders /\ NoCourier \notin Couriers /\ NoRequest \notin Requests
ASSUME MaxHistoryIsNat == MaxHistory \in Nat

\* "NONE" is an order that has not been created (and the fromStatus NULL of its first history row).
Statuses == {"CREATED", "ASSIGNED", "ACCEPTED", "PICKUP", "PICKED_UP",
             "DELIVERING", "DELIVERED", "CANCELLED", "FAILED"}
NoStatus == "NONE"
CourierStatuses == {"OFFLINE", "ONLINE", "AVAILABLE", "DELIVERING", "PAUSED"}

\* DELIVERING is refused by the DTO and by the service: only orders set it.
ASSUME DeliveringIsNotChosen == OwnChoices \subseteq CourierStatuses \ {"DELIVERING"}

Staff == {"COMPANY_ADMIN", "DISPATCHER"}
Roles == Staff \cup {"COURIER"}

VARIABLES
    order,        \* [Orders -> [status, courier]]: rows of orders
    history,      \* [Orders -> Seq([from, to])]: rows of order_status_history, in commit order
    delivery,     \* [Orders -> courier]: the row of deliveries, at most one per order
    courier,      \* [Couriers -> status]: rows of couriers
    orderLock,    \* which request's transaction has updated the orders row
    courierLock,  \* which request's transaction has updated the couriers row
    pc,           \* how far each request's handler has come
    work,         \* the local variables of each handler: what it read and what it was asked
    orderFeed,    \* the status in the last order:status:changed broadcast for the order
    pairing,      \* the courier each pairing in flight has read, and his status then
    retracted,    \* auxiliary: the transaction behind orderFeed[o] was rolled back
    restored      \* auxiliary: couriers who are DELIVERING because a pairing has saved them so

rows  == <<order, history, delivery, courier>>
locks == <<orderLock, courierLock>>
feeds == <<orderFeed, retracted>>
saves == <<pairing, restored>>
vars  == <<order, history, delivery, courier, orderLock, courierLock, pc, work,
           orderFeed, pairing, retracted, restored>>

----------------------------------------------------------------------------
\* The transitions table: [to, roles] rules by the status the order is in.

Rule(to, roles) == [to |-> to, roles |-> roles]

\* A slip in the table a reviewer should catch: a delivered order may still fail.
ReopenedTransitions ==
    [s \in Statuses |->
        CASE s = "CREATED"    -> {Rule("CANCELLED", Staff)}
          [] s = "ASSIGNED"   -> {Rule("ACCEPTED", {"COURIER"}), Rule("CANCELLED", Staff)}
          [] s = "ACCEPTED"   -> {Rule("PICKUP", {"COURIER"})}
          [] s = "PICKUP"     -> {Rule("PICKED_UP", {"COURIER"})}
          [] s = "PICKED_UP"  -> {Rule("DELIVERING", {"COURIER"})}
          [] s = "DELIVERING" -> {Rule("DELIVERED", {"COURIER"})}
          [] s = "DELIVERED"  -> {Rule("FAILED", Roles)}
          [] OTHER            -> {}]

Transitions ==
    [s \in Statuses |->
        CASE s = "CREATED"    -> {Rule("CANCELLED", Staff)}
          [] s = "ASSIGNED"   -> {Rule("ACCEPTED", {"COURIER"}), Rule("CANCELLED", Staff)}
          [] s = "ACCEPTED"   -> {Rule("PICKUP", {"COURIER"}), Rule("CANCELLED", Staff)}
          [] s = "PICKUP"     -> {Rule("PICKED_UP", {"COURIER"}), Rule("FAILED", Roles)}
          [] s = "PICKED_UP"  -> {Rule("DELIVERING", {"COURIER"}), Rule("FAILED", Roles)}
          [] s = "DELIVERING" -> {Rule("DELIVERED", {"COURIER"}), Rule("FAILED", Roles)}
          [] OTHER            -> {}]

\* Every step the code lets one request take: the table's, and assign()'s.
Edges == {<<"CREATED", "ASSIGNED">>} \cup
         {e \in Statuses \X Statuses : \E rule \in Transitions[e[1]] : rule.to = e[2]}

Terminal == {"DELIVERED", "CANCELLED", "FAILED"}
Active   == {"ACCEPTED", "PICKUP", "PICKED_UP", "DELIVERING"}

----------------------------------------------------------------------------
NoPairing == [courier |-> NoCourier, status |-> "OFFLINE"]

Idle == [order |-> NoOrder, from |-> NoStatus, to |-> NoStatus, courier |-> NoCourier]

Work == [order : Orders \cup {NoOrder}, from : Statuses \cup {NoStatus}, to : Statuses \cup {NoStatus},
         courier : Couriers \cup {NoCourier}]

Init ==
    /\ order = [o \in Orders |-> [status |-> NoStatus, courier |-> NoCourier]]
    /\ history = [o \in Orders |-> <<>>]
    /\ delivery = [o \in Orders |-> NoCourier]
    /\ courier = [c \in Couriers |-> "OFFLINE"]
    /\ orderLock = [o \in Orders |-> NoRequest]
    /\ courierLock = [c \in Couriers |-> NoRequest]
    /\ pc = [r \in Requests |-> "idle"]
    /\ work = [r \in Requests |-> Idle]
    /\ orderFeed = [o \in Orders |-> NoStatus]
    /\ pairing = [p \in Pairings |-> NoPairing]
    /\ retracted = [o \in Orders |-> FALSE]
    /\ restored = {}

\* Slips in recordHistory: the columns swapped; fromStatus read after the UPDATE.
HistoryRowSwapped(from, to) == [from |-> to, to |-> from]
HistoryRowReread(from, to) == [from |-> to, to |-> to]

HistoryRow(from, to) == [from |-> from, to |-> to]

\* create(): the order, its first history row and the audit row commit together, and until then
\* no other request can know the id, so the whole handler is one step. It broadcasts nothing.
Create(o) ==
    /\ order[o].status = NoStatus
    /\ order' = [order EXCEPT ![o] = [status |-> "CREATED", courier |-> NoCourier]]
    /\ history' = [history EXCEPT ![o] = Append(@, HistoryRow(NoStatus, "CREATED"))]
    /\ UNCHANGED <<delivery, courier, locks, pc, work, feeds, saves>>

\* The first half of a handler: a slot is taken, the order is read as last committed, and the
\* checks in memory pass. A request that fails a check changes nothing and is not a step.
Start(r, o, to, c) ==
    /\ pc[r] = "idle"
    /\ order[o].status # NoStatus
    /\ Len(history[o]) < MaxHistory
    /\ pc' = [pc EXCEPT ![r] = "checked"]
    /\ work' = [work EXCEPT ![r] = [order |-> o, from |-> order[o].status, to |-> to,
                                    courier |-> c]]
    /\ UNCHANGED <<rows, locks, feeds, saves>>

\* assign(): only an order read as CREATED, to any courier of the company.
StartAssign(r, o, c) ==
    /\ order[o].status = "CREATED"
    /\ Start(r, o, "ASSIGNED", c)

\* transition(): a rule of the table for the status that was read, a role it allows, and for a
\* courier, `me`, an order that was read as assigned to him.
StartTransition(r, o, to, role, me) ==
    /\ order[o].status # NoStatus
    /\ \E rule \in Transitions[order[o].status] : rule.to = to /\ role \in rule.roles
    /\ role = "COURIER" => order[o].courier = me
    /\ Start(r, o, to, order[o].courier)

\* UPDATE orders ... WHERE id, then the history and audit rows: waits for the row lock and checks
\* nothing again. Assign writes the courier too.
UpdateOrder(r) ==
    LET o == work[r].order IN
    /\ pc[r] = "checked"
    /\ orderLock[o] = NoRequest
    /\ orderLock' = [orderLock EXCEPT ![o] = r]
    /\ pc' = [pc EXCEPT ![r] = "updated"]
    /\ UNCHANGED <<rows, courierLock, work, feeds, saves>>

\* A slip in the side effect: FAILED is forgotten among the statuses that free the courier.
TouchesNotOnFailure(r, c) ==
    /\ work[r].courier = c
    /\ \/ work[r].to = "ACCEPTED"
       \/ work[r].to \in {"DELIVERED", "CANCELLED"} /\ courier[c] = "DELIVERING"

\* The one couriers row the side effect will UPDATE, if any. Acceptance updates the courier that
\* was read with the order, unconditionally; the end of an order only WHERE status = 'DELIVERING'
\* is what is committed now (a row that does not match is skipped, and never waited for).
Touches(r, c) ==
    /\ work[r].courier = c
    /\ \/ work[r].to = "ACCEPTED"
       \/ work[r].to \in Terminal /\ courier[c] = "DELIVERING"

\* A slip: the early return for an order without a courier also skips the order broadcast.
SettleCourierSilently(r) ==
    LET o == work[r].order
        to == work[r].to
    IN
    /\ pc[r] = "updated"
    /\ \A c \in Couriers : Touches(r, c) => courierLock[c] = NoRequest
    /\ courierLock' = [c \in Couriers |-> IF Touches(r, c) THEN r ELSE courierLock[c]]
    /\ orderFeed' = IF work[r].courier = NoCourier THEN orderFeed
                      ELSE [orderFeed EXCEPT ![o] = to]
    /\ retracted' = [retracted EXCEPT ![o] = FALSE]
    /\ pc' = [pc EXCEPT ![r] = "settled"]
    /\ UNCHANGED <<rows, orderLock, work, saves>>

\* applyCourierStatusSideEffect() and then the order broadcast, which leaves before the commit, as
\* the courier's does, of which nothing is kept here.
SettleCourier(r) ==
    LET o == work[r].order
        to == work[r].to
    IN
    /\ pc[r] = "updated"
    /\ \A c \in Couriers : Touches(r, c) => courierLock[c] = NoRequest
    /\ courierLock' = [c \in Couriers |-> IF Touches(r, c) THEN r ELSE courierLock[c]]
    /\ orderFeed' = [orderFeed EXCEPT ![o] = to]
    /\ retracted' = [retracted EXCEPT ![o] = FALSE]
    /\ pc' = [pc EXCEPT ![r] = "settled"]
    /\ UNCHANGED <<rows, orderLock, work, saves>>

\* A slip: a transaction that fails before its broadcast keeps its connection, and its locks.
ReleaseWhenSettled(r) ==
    /\ orderLock' = [o \in Orders |->
                       IF orderLock[o] = r /\ pc[r] = "settled" THEN NoRequest ELSE orderLock[o]]
    /\ courierLock' = [c \in Couriers |-> IF courierLock[c] = r THEN NoRequest ELSE courierLock[c]]
    /\ pc' = [pc EXCEPT ![r] = "idle"]
    /\ work' = [work EXCEPT ![r] = Idle]

\* The end of a transaction: its locks are gone and the slot is free.
Release(r) ==
    /\ orderLock' = [o \in Orders |-> IF orderLock[o] = r THEN NoRequest ELSE orderLock[o]]
    /\ courierLock' = [c \in Couriers |-> IF courierLock[c] = r THEN NoRequest ELSE courierLock[c]]
    /\ pc' = [pc EXCEPT ![r] = "idle"]
    /\ work' = [work EXCEPT ![r] = Idle]

\* INSERT INTO deliveries selects the courier the row holds now; it needs one, and no earlier row.
CanRecordDelivery(o) == order[o].courier # NoCourier /\ delivery[o] = NoCourier

\* Slips in the writes of a transaction, of which one field or one condition differs from Commit.
CommitWith(r, row, recorded) ==
    LET o == work[r].order
        to == work[r].to
    IN
    /\ pc[r] = "settled"
    /\ to = "DELIVERED" => CanRecordDelivery(o)
    /\ order' = [order EXCEPT ![o] = row]
    /\ history' = [history EXCEPT ![o] = Append(@, HistoryRow(work[r].from, to))]
    /\ delivery' = IF recorded THEN [delivery EXCEPT ![o] = order[o].courier] ELSE delivery
    /\ courier' = [c \in Couriers |->
                     IF courierLock[c] # r THEN courier[c]
                     ELSE IF to = "ACCEPTED" THEN "DELIVERING" ELSE "AVAILABLE"]
    /\ restored' = {c \in restored : courierLock[c] # r}
    /\ Release(r)
    /\ UNCHANGED <<feeds, pairing>>

NewRow(r) ==
    [status |-> work[r].to,
     courier |-> IF work[r].to = "ASSIGNED" THEN work[r].courier
                 ELSE order[work[r].order].courier]

\* The delivery is inserted only where the side effect has updated the courier.
CommitDeliveryIfCourierFreed(r) ==
    CommitWith(r, NewRow(r),
               work[r].to = "DELIVERED" /\ \E c \in Couriers : courierLock[c] = r)

\* The UPDATE is guarded by the status that was read, but the history row is inserted anyway.
CommitIfUnchanged(r) ==
    CommitWith(r, IF order[work[r].order].status = work[r].from THEN NewRow(r)
                  ELSE order[work[r].order],
               work[r].to = "DELIVERED")

\* A cancellation also clears the courier.
CommitClearingCourier(r) ==
    CommitWith(r, IF work[r].to = "CANCELLED" THEN [NewRow(r) EXCEPT !.courier = NoCourier]
                  ELSE NewRow(r),
               work[r].to = "DELIVERED")

\* The UPDATE writes every column of the entity that was read, the courier with the status.
CommitWholeEntity(r) ==
    CommitWith(r, [status |-> work[r].to, courier |-> work[r].courier], work[r].to = "DELIVERED")

\* The delivery row, if the order was delivered, and COMMIT.
Commit(r) ==
    LET o == work[r].order
        to == work[r].to
    IN
    /\ pc[r] = "settled"
    /\ to = "DELIVERED" => CanRecordDelivery(o)
    /\ order' = [order EXCEPT ![o] =
                   [status |-> to,
                    courier |-> IF to = "ASSIGNED" THEN work[r].courier ELSE @.courier]]
    /\ history' = [history EXCEPT ![o] = Append(@, HistoryRow(work[r].from, to))]
    /\ delivery' = IF to = "DELIVERED"
                      THEN [delivery EXCEPT ![o] = order[o].courier] ELSE delivery
    /\ courier' = [c \in Couriers |->
                     IF courierLock[c] # r THEN courier[c]
                     ELSE IF to = "ACCEPTED" THEN "DELIVERING" ELSE "AVAILABLE"]
    /\ restored' = {c \in restored : courierLock[c] # r}
    /\ Release(r)
    /\ UNCHANGED <<feeds, pairing>>

\* ROLLBACK: nothing is written, but what was broadcast is not taken back.
RollBack(r) ==
    /\ Release(r)
    /\ retracted' = IF pc[r] = "settled"
                      THEN [retracted EXCEPT ![work[r].order] = TRUE] ELSE retracted
    /\ UNCHANGED <<rows, orderFeed, saves>>

\* The insert into deliveries violates a constraint: the request ends in an error.
RejectDelivery(r) ==
    /\ pc[r] = "settled"
    /\ work[r].to = "DELIVERED"
    /\ ~CanRecordDelivery(work[r].order)
    /\ RollBack(r)

\* A query fails, the connection is lost or the backend restarts before the commit.
Fail(r) ==
    /\ pc[r] # "idle"
    /\ RollBack(r)

\* updateOwnStatus(): one UPDATE of one row in a transaction of its own, skipped by save() when
\* the row already says so; it takes effect at its commit, or, when that fails, not at all.
\* An order in progress is not looked at.
ChooseStatus(c, s) ==
    /\ courier[c] # s => courierLock[c] = NoRequest
    /\ courier' \in {courier, [courier EXCEPT ![c] = s]}
    /\ restored' = {d \in restored : courier'[d] = courier[d]}
    /\ UNCHANGED <<order, history, delivery, locks, pc, work, orderFeed, pairing, retracted>>

\* DevicesService.pair() reads the courier, and then awaits the save of the device.
ReadForPairing(p, c) ==
    /\ pairing[p].courier = NoCourier
    /\ pairing' = [pairing EXCEPT ![p] = [courier |-> c, status |-> courier[c]]]
    /\ UNCHANGED <<rows, locks, pc, work, feeds, restored>>

\* save(courier): where the row is not as it was read, the status that was read is written back,
\* in one UPDATE at the end of its transaction; it takes effect at its commit. No event tells.
SaveCourier(p) ==
    LET c == pairing[p].courier
        s == pairing[p].status
    IN
    /\ c # NoCourier
    /\ courier[c] # s
    /\ courierLock[c] = NoRequest
    /\ courier' = [courier EXCEPT ![c] = s]
    /\ restored' = IF s = "DELIVERING" THEN restored \cup {c} ELSE restored \ {c}
    /\ pairing' = [pairing EXCEPT ![p] = NoPairing]
    /\ UNCHANGED <<order, history, delivery, locks, pc, work, feeds>>

\* The pairing ends without a change of the status: it is as it was read, or a statement fails.
EndPairing(p) ==
    /\ pairing[p].courier # NoCourier
    /\ pairing' = [pairing EXCEPT ![p] = NoPairing]
    /\ UNCHANGED <<rows, locks, pc, work, feeds, restored>>

Handle(r) ==
    \/ \E o \in Orders, c \in Couriers : StartAssign(r, o, c)
    \/ \E o \in Orders, to \in Statuses, role \in Roles, me \in Couriers :
           StartTransition(r, o, to, role, me)
    \/ UpdateOrder(r)
    \/ SettleCourier(r)
    \/ Commit(r)
    \/ RejectDelivery(r)
    \/ Fail(r)

Pair(p) == (\E c \in Couriers : ReadForPairing(p, c)) \/ SaveCourier(p) \/ EndPairing(p)

Next ==
    \/ \E o \in Orders : Create(o)
    \/ \E r \in Requests : Handle(r)
    \/ \E c \in Couriers, s \in OwnChoices : ChooseStatus(c, s)
    \/ \E p \in Pairings : Pair(p)

Spec == Init /\ [][Next]_vars

\* Node keeps running a handler it has begun, and Postgres hands a row lock to its waiters in
\* turn, so a handler that finds a lock free again and again gets it. Nobody has to send requests.
Fairness ==
    \A r \in Requests :
        /\ SF_vars(UpdateOrder(r))
        /\ SF_vars(SettleCourier(r))
        /\ WF_vars(Commit(r) \/ RejectDelivery(r))

FairSpec == Spec /\ Fairness

\* The environment in which no two requests are in flight for one order.
OneRequestPerOrder ==
    \A r1, r2 \in Requests :
        pc[r1] # "idle" /\ pc[r2] # "idle" /\ work[r1].order = work[r2].order => r1 = r2

SerialSpec == Init /\ [][Next /\ OneRequestPerOrder']_vars

----------------------------------------------------------------------------
(* Properties *)

Rows == [status : Statuses \cup {NoStatus}, courier : Couriers \cup {NoCourier}]
HistoryRows == [from : Statuses \cup {NoStatus}, to : Statuses]

\* The type of every row, lock and local variable of OrdersService.
TypeOK ==
    /\ order \in [Orders -> Rows]
    /\ history \in [Orders -> Seq(HistoryRows)]
    /\ delivery \in [Orders -> Couriers \cup {NoCourier}]
    /\ courier \in [Couriers -> CourierStatuses]
    /\ orderLock \in [Orders -> Requests \cup {NoRequest}]
    /\ courierLock \in [Couriers -> Requests \cup {NoRequest}]
    /\ pc \in [Requests -> {"idle", "checked", "updated", "settled"}]
    /\ work \in [Requests -> Work]
    /\ orderFeed \in [Orders -> Statuses \cup {NoStatus}]
    /\ pairing \in [Pairings -> [courier : Couriers \cup {NoCourier}, status : CourierStatuses]]
    /\ retracted \in [Orders -> BOOLEAN]
    /\ restored \subseteq Couriers

\* However requests race, an order that has left CREATED otherwise than by cancellation has a
\* courier: so assignedCourierId, read again by the INSERT into deliveries, is never NULL there.
InProgressHasCourier ==
    \A o \in Orders :
        order[o].status \notin {NoStatus, "CREATED", "CANCELLED"} => order[o].courier # NoCourier

\* A DELIVERED order has its delivery row, although the row is inserted after the status update
\* and its insertion can fail: one never commits without the other.
DeliveredIsRecorded ==
    \A o \in Orders : order[o].status = "DELIVERED" => delivery[o] # NoCourier

\* What the rows of an order owe each other at every commit, whoever overwrote whom: a courier for
\* what is in progress, a delivery row for what is delivered.
OrderIsBacked == InProgressHasCourier /\ DeliveredIsRecorded

\* The audit trail ends where the order is: the last committed history row of an order leads to
\* its status, whoever overwrote whom.
HistoryEndsAtStatus ==
    \A o \in Orders :
        IF order[o].status = NoStatus THEN history[o] = <<>>
        ELSE history[o] # <<>> /\ history[o][Len(history[o])].to = order[o].status

\* The rest of the trail survives the races too: it begins with the creation, and each later row is
\* a step of the table from a status the order has had, if not the last one.
HistoryIsGrounded ==
    \A o \in Orders : \A i \in 1..Len(history[o]) :
        LET row == history[o][i] IN
        IF i = 1 THEN row.from = NoStatus /\ row.to = "CREATED"
        ELSE /\ <<row.from, row.to>> \in Edges
             /\ \E j \in 1..(i - 1) : history[o][j].to = row.from

\* What the audit trail says of an order, whoever overwrote whom: where it is, and by which steps.
TrailIsSound == HistoryEndsAtStatus /\ HistoryIsGrounded

\* The last order:status:changed of an order tells its committed status once nobody is changing
\* it, except when the transaction behind that very broadcast was rolled back.
FeedIsCurrent ==
    \A o \in Orders :
        /\ orderLock[o] = NoRequest
        /\ ~retracted[o]
        /\ order[o].status \notin {NoStatus, "CREATED"}
        => orderFeed[o] = order[o].status

\* No handler hangs: transactions wait for one orders row and then one couriers row, so a request
\* that has begun is answered, even when others keep taking the locks it needs.
RequestsEnd == \A r \in Requests : pc[r] # "idle" ~> pc[r] = "idle"

\* The UPDATE that q sends next is of a row that r has updated and not committed.
WaitsFor(q, r) ==
    \/ pc[q] = "checked" /\ orderLock[work[q].order] = r
    \/ pc[q] = "updated" /\ \E c \in Couriers : Touches(q, c) /\ courierLock[c] = r

\* Why no handler can hang: whoever waits does so for a request that is running; if that one waits
\* too, it is for one that waits for nobody. So no wait is circular, however many requests there are.
WaitsAreShort ==
    \A q, r \in Requests : WaitsFor(q, r) =>
        /\ pc[r] # "idle"
        /\ \A s, t \in Requests : WaitsFor(r, s) => ~WaitsFor(s, t)

\* README.md:129-132: a committed status change is a step of the transitions table from the
\* status the order has at that time.
TransitionsFollowTable ==
    [][\A o \in Orders :
          order[o].status # NoStatus /\ order'[o].status # order[o].status
          => <<order[o].status, order'[o].status>> \in Edges]_vars

\* With one request per order, the history is a path: each row starts where the one before it
\* ended, from creation on, and no step is repeated.
HistoryIsAPath ==
    \A o \in Orders : \A i \in 1..Len(history[o]) :
        history[o][i].from = IF i = 1 THEN NoStatus ELSE history[o][i - 1].to

\* With one request per order, a courier is only ever shown DELIVERING while an order he accepted
\* is in progress, however requests for different orders of his overlap, unless a pairing has
\* saved him so from an old read and nothing has written his status since.
DeliveringHasActiveOrder ==
    \A c \in Couriers \ restored : courier[c] = "DELIVERING" =>
        \E o \in Orders : order[o].courier = c /\ order[o].status \in Active

\* With one request per order, the delivery row names the courier the order is assigned to, and
\* exists only for a delivered order.
DeliveryMatchesOrder ==
    \A o \in Orders : delivery[o] # NoCourier =>
        order[o].status = "DELIVERED" /\ order[o].courier = delivery[o]

=============================================================================
