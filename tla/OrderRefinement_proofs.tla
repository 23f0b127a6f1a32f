----------------------- MODULE OrderRefinement_proofs -----------------------
(***************************************************************************)
(* What OrdersService gives in an environment that never has two requests  *)
(* in flight for one order (SerialSpec), for any number of orders,         *)
(* couriers, requests and pairings: it implements OrderLifecycle, its      *)
(* audit trail is a path, a courier shown DELIVERING has an order in       *)
(* progress unless a pairing has put that status back, and the summary of  *)
(* the rows counts each order once.                                        *)
(***************************************************************************)
EXTENDS OrderRefinement, OrderAnalytics, OrderTransactions_proofs

\* A read is still true when it is used: nobody else commits to the order meanwhile.
SnapshotOK ==
    \A r \in Requests : pc[r] # "idle" =>
        /\ order[work[r].order].status = work[r].from
        /\ work[r].to # "ASSIGNED" => work[r].courier = order[work[r].order].courier

\* Who may hold the lock of a couriers row, and who must.
CourierLockOK ==
    \A c \in Couriers, r \in Requests :
        /\ courierLock[c] = r =>
              /\ pc[r] = "settled"
              /\ work[r].courier = c
              /\ work[r].to = "ACCEPTED" \/ work[r].to \in Terminal
        /\ pc[r] = "settled" /\ work[r].courier = c /\ work[r].to = "ACCEPTED"
              => courierLock[c] = r

\* Order o keeps courier c busy: it is in progress, and a request about to end it will free c.
Occupies(o, c) ==
    /\ order[o].courier = c
    /\ order[o].status \in Active
    /\ \A r \in Requests :
          pc[r] = "settled" /\ work[r].order = o /\ work[r].to \in Terminal
          => courierLock[c] = r

DeliveringOK ==
    \A c \in Couriers \ restored : courier[c] = "DELIVERING" => \E o \in Orders : Occupies(o, c)

\* An order nobody has created has no courier.
UncreatedIsBare == \A o \in Orders : order[o].status = NoStatus => order[o].courier = NoCourier

SerialInv == IInv /\ OneRequestPerOrder /\ SnapshotOK /\ HistoryIsAPath /\ DeliveryMatchesOrder
             /\ CourierLockOK /\ DeliveringOK /\ UncreatedIsBare

SerialNext == Next /\ OneRequestPerOrder'

----------------------------------------------------------------------------
\* What a commit does to the rows of its order and leaves alone of the others.
LEMMA CommitEffect ==
    ASSUME IInv, NEW r \in Requests, Commit(r)
    PROVE  LET o == work[r].order
               to == work[r].to
           IN
           /\ o \in Orders
           /\ <<work[r].from, to>> \in Edges
           /\ to = "ASSIGNED" => work[r].courier \in Couriers
           /\ order' = [order EXCEPT ![o] =
                          [status |-> to,
                           courier |-> IF to = "ASSIGNED" THEN work[r].courier
                                       ELSE order[o].courier]]
           /\ order'[o].status = to
           /\ order'[o].courier = IF to = "ASSIGNED" THEN work[r].courier ELSE order[o].courier
           /\ history'[o] = Append(history[o], HistoryRow(work[r].from, to))
           /\ delivery'[o] = IF to = "DELIVERED" THEN order[o].courier ELSE delivery[o]
           /\ \A p \in Orders : p # o =>
                 order'[p] = order[p] /\ history'[p] = history[p] /\ delivery'[p] = delivery[p]
<1>1. /\ work[r].order \in Orders
      /\ <<work[r].from, work[r].to>> \in Edges
      /\ work[r].to = "ASSIGNED" => work[r].courier \in Couriers
  BY DEF IInv, WorkOK, Commit
<1>2. QED
  BY <1>1 DEF IInv, TypeOK, Commit

\* The end of a transaction touches no other request.
LEMMA ReleaseEffect ==
    ASSUME TypeOK, NEW r \in Requests, Release(r)
    PROVE  /\ pc'[r] = "idle"
           /\ \A q \in Requests : q # r => pc'[q] = pc[q] /\ work'[q] = work[q]
           /\ \A c \in Couriers :
                 courierLock'[c] = IF courierLock[c] = r THEN NoRequest ELSE courierLock[c]
BY DEF TypeOK, Release

\* Nothing gives a courier to an order before it is created.
LEMMA UncreatedPreserved == IInv /\ UncreatedIsBare /\ [Next]_vars => UncreatedIsBare'
<1> SUFFICES ASSUME IInv, UncreatedIsBare, [Next]_vars
             PROVE  UncreatedIsBare'
  OBVIOUS
<1>1. ASSUME NEW r \in Requests, Commit(r)
      PROVE  UncreatedIsBare'
  <2> DEFINE o == work[r].order
  <2>1. /\ <<work[r].from, work[r].to>> \in Edges
        /\ order'[o].status = work[r].to
        /\ \A p \in Orders : p # o => order'[p] = order[p]
    BY <1>1, CommitEffect
  <2>2. order'[o].status # NoStatus
    BY <2>1, EdgeFacts DEF NoStatus, Statuses
  <2>3. QED
    BY <2>1, <2>2 DEF UncreatedIsBare
<1>2. ASSUME NEW o \in Orders, Create(o)
      PROVE  UncreatedIsBare'
  BY <1>2 DEF IInv, TypeOK, UncreatedIsBare, Create, NoStatus
<1>3. ASSUME UNCHANGED order
      PROVE  UncreatedIsBare'
  BY <1>3 DEF UncreatedIsBare
<1>4. \/ \E o \in Orders : Create(o)
      \/ \E r \in Requests : Commit(r)
      \/ UNCHANGED order
  BY PairingStep DEF Next, Handle, StartAssign, StartTransition, Start, UpdateOrder, SettleCourier,
         RejectDelivery, Fail, RollBack, ChooseStatus, rows, vars
<1>5. QED
  BY <1>1, <1>2, <1>3, <1>4

\* Nobody commits to an order another request is working on, so what was read stays true.
LEMMA SnapshotPreserved == SerialInv /\ [SerialNext]_vars => SnapshotOK'
<1> SUFFICES ASSUME SerialInv, [SerialNext]_vars
             PROVE  SnapshotOK'
  OBVIOUS
<1> USE NullsAreNotIds
<1>0. TypeOK /\ WorkOK /\ OneRequestPerOrder /\ SnapshotOK
  BY DEF SerialInv, IInv
<1>1. ASSUME NEW o \in Orders, Create(o)
      PROVE  SnapshotOK'
  BY <1>0, <1>1 DEF TypeOK, WorkOK, SnapshotOK, Create
<1>2. ASSUME NEW r \in Requests, NEW o \in Orders, NEW to, NEW c, Start(r, o, to, c),
             to = "ASSIGNED" \/ c = order[o].courier
      PROVE  SnapshotOK'
  BY <1>0, <1>2 DEF TypeOK, SnapshotOK, Start, rows
<1>3. ASSUME NEW r \in Requests, UpdateOrder(r)
      PROVE  SnapshotOK'
  BY <1>0, <1>3 DEF TypeOK, SnapshotOK, UpdateOrder, rows
<1>4. ASSUME NEW r \in Requests, SettleCourier(r)
      PROVE  SnapshotOK'
  BY <1>0, <1>4 DEF TypeOK, SnapshotOK, SettleCourier, rows
<1>5. ASSUME NEW r \in Requests, Commit(r)
      PROVE  SnapshotOK'
  <2>1. pc[r] # "idle" /\ Release(r)
    BY <1>5 DEF Commit
  <2>2. ASSUME NEW q \in Requests, pc'[q] # "idle"
        PROVE  /\ pc[q] # "idle" /\ work'[q] = work[q]
               /\ order'[work[q].order] = order[work[q].order]
    <3>1. q # r /\ pc[q] # "idle" /\ work'[q] = work[q]
      BY <1>0, <2>1, <2>2, ReleaseEffect
    <3>2. work[q].order \in Orders /\ work[q].order # work[r].order
      BY <1>0, <2>1, <3>1 DEF WorkOK, OneRequestPerOrder
    <3>3. QED
      BY <1>5, <3>1, <3>2, CommitEffect DEF SerialInv
  <2>3. QED
    BY <1>0, <2>2 DEF SnapshotOK
<1>6. ASSUME NEW r \in Requests, RollBack(r)
      PROVE  SnapshotOK'
  BY <1>0, <1>6, ReleaseEffect DEF SnapshotOK, RollBack, rows
<1>7. ASSUME NEW c \in Couriers, NEW s \in OwnChoices, ChooseStatus(c, s)
      PROVE  SnapshotOK'
  BY <1>0, <1>7 DEF SnapshotOK, ChooseStatus
<1>8. ASSUME NEW p \in Pairings, Pair(p)
      PROVE  SnapshotOK'
  BY <1>0, <1>8, PairingStep DEF SnapshotOK
<1>9. CASE UNCHANGED vars
  BY <1>0, <1>9 DEF SnapshotOK, vars
<1>10. QED
  BY <1>1, <1>2, <1>3, <1>4, <1>5, <1>6, <1>7, <1>8, <1>9
     DEF SerialNext, Next, Handle, StartAssign, StartTransition, RejectDelivery, Fail

\* Only creation and commits touch histories and deliveries, and they keep the trail a path and
\* the delivery row in agreement with its order.
LEMMA TrailPreserved ==
    SerialInv /\ [SerialNext]_vars => HistoryIsAPath' /\ DeliveryMatchesOrder'
<1> SUFFICES ASSUME SerialInv, [SerialNext]_vars
             PROVE  HistoryIsAPath' /\ DeliveryMatchesOrder'
  OBVIOUS
<1>0. /\ TypeOK /\ SnapshotOK /\ HistoryIsAPath /\ DeliveryMatchesOrder /\ HistoryEndsAtStatus
      /\ WorkOK
  BY DEF SerialInv, IInv
<1>1. ASSUME UNCHANGED <<order, history, delivery>>
      PROVE  HistoryIsAPath' /\ DeliveryMatchesOrder'
  BY <1>0, <1>1 DEF HistoryIsAPath, DeliveryMatchesOrder
<1>2. ASSUME NEW o \in Orders, NEW row \in HistoryRows, history'[o] = Append(history[o], row),
             \A p \in Orders : p # o => history'[p] = history[p],
             row.from = order[o].status
      PROVE  HistoryIsAPath'
  <2>1. history[o] \in Seq(HistoryRows)
    BY <1>0 DEF TypeOK
  <2>2. ASSUME NEW i \in 1..Len(history'[o])
        PROVE  history'[o][i].from = IF i = 1 THEN NoStatus ELSE history'[o][i - 1].to
    <3>1. CASE i = Len(history[o]) + 1 /\ history[o] = <<>>
      BY <1>0, <1>2, <2>1, <3>1 DEF HistoryEndsAtStatus, NoStatus
    <3>2. CASE i = Len(history[o]) + 1 /\ history[o] # <<>>
      <4>1. /\ history'[o][i] = row
            /\ Len(history[o]) \in Nat /\ Len(history[o]) # 0
            /\ history'[o][i - 1] = history[o][Len(history[o])]
        BY <1>2, <2>1, <3>2
      <4>2. history[o][Len(history[o])].to = order[o].status
        BY <1>0, <3>2 DEF HistoryEndsAtStatus
      <4>3. QED
        BY <1>2, <3>2, <4>1, <4>2
    <3>3. CASE i \in 1..Len(history[o])
      BY <1>0, <1>2, <2>1, <3>3 DEF HistoryIsAPath
    <3>4. QED
      BY <1>2, <2>1, <2>2, <3>1, <3>2, <3>3
  <2>3. ASSUME NEW p \in Orders, p # o, NEW i \in 1..Len(history'[p])
        PROVE  history'[p][i].from = IF i = 1 THEN NoStatus ELSE history'[p][i - 1].to
    <3>1. history'[p] = history[p]
      BY <1>2, <2>3
    <3>2. QED
      BY <1>0, <2>3, <3>1 DEF HistoryIsAPath
  <2>4. ASSUME NEW p \in Orders, NEW i \in 1..Len(history'[p])
        PROVE  history'[p][i].from = IF i = 1 THEN NoStatus ELSE history'[p][i - 1].to
    BY <2>2, <2>3, <2>4
  <2>5. QED
    BY <2>4 DEF HistoryIsAPath
<1>3. ASSUME NEW o \in Orders, Create(o)
      PROVE  HistoryIsAPath' /\ DeliveryMatchesOrder'
  <2>1. HistoryRow(NoStatus, "CREATED") \in HistoryRows
    BY DEF HistoryRow, HistoryRows, Statuses
  <2>2. history'[o] = Append(history[o], HistoryRow(NoStatus, "CREATED"))
    BY <1>0, <1>3 DEF TypeOK, Create
  <2>3. HistoryRow(NoStatus, "CREATED").from = order[o].status
    BY <1>3 DEF Create, HistoryRow
  <2>4. \A p \in Orders : p # o => order'[p] = order[p] /\ history'[p] = history[p]
    BY <1>0, <1>3 DEF TypeOK, Create
  <2>5. delivery[o] = NoCourier /\ UNCHANGED delivery
    BY <1>0, <1>3 DEF Create, DeliveryMatchesOrder, NoStatus
  <2>6. HistoryIsAPath'
    <3>1. PICK row \in HistoryRows : row = HistoryRow(NoStatus, "CREATED")
      BY <2>1
    <3>2. row.from = order[o].status
      BY <2>3, <3>1
    <3>3. history'[o] = Append(history[o], row)
      BY <2>2, <3>1
    <3>4. \A p \in Orders : p # o => history'[p] = history[p]
      BY <2>4
    <3>5. QED
      BY <1>2, <3>2, <3>3, <3>4
  <2>7. DeliveryMatchesOrder'
    BY <1>0, <2>4, <2>5 DEF DeliveryMatchesOrder
  <2>8. QED
    BY <2>6, <2>7
<1>4. ASSUME NEW r \in Requests, Commit(r)
      PROVE  HistoryIsAPath' /\ DeliveryMatchesOrder'
  <2> DEFINE o == work[r].order
             to == work[r].to
  <2>0. /\ o \in Orders
        /\ order'[o].status = to
        /\ order'[o].courier = IF to = "ASSIGNED" THEN work[r].courier ELSE order[o].courier
        /\ history'[o] = Append(history[o], HistoryRow(work[r].from, to))
        /\ delivery'[o] = IF to = "DELIVERED" THEN order[o].courier ELSE delivery[o]
        /\ \A p \in Orders : p # o =>
              order'[p] = order[p] /\ history'[p] = history[p] /\ delivery'[p] = delivery[p]
    BY <1>4, CommitEffect DEF SerialInv
  <2>1. order[o].status = work[r].from
    BY <1>0, <1>4 DEF SnapshotOK, Commit
  <2>2. HistoryRow(work[r].from, to) \in HistoryRows /\ HistoryRow(work[r].from, to).from = work[r].from
    BY <1>4, CommitEffect, EdgeFacts DEF SerialInv, HistoryRow, HistoryRows
  <2>3. order[o].status \notin Terminal
    BY <1>4, <2>1, CommitEffect, EdgeFacts DEF SerialInv
  <2>4. delivery[o] = NoCourier
    BY <1>0, <1>4, <2>3, CommitEffect DEF SerialInv, DeliveryMatchesOrder, Terminal
  <2>5. DeliveryMatchesOrder'
    BY <1>0, <2>0, <2>4 DEF DeliveryMatchesOrder
  <2>6. HistoryIsAPath'
    <3>1. HistoryRow(work[r].from, to).from = order[o].status
      BY <2>1, <2>2
    <3>2. QED
      BY <1>2, <2>0, <2>2, <3>1
  <2>7. QED
    BY <2>5, <2>6
<1>5. QED
  BY <1>1, <1>3, <1>4, PairingStep
     DEF SerialNext, Next, Handle, StartAssign, StartTransition, Start, UpdateOrder, SettleCourier,
         RejectDelivery, Fail, RollBack, ChooseStatus, rows, vars

\* Locks of couriers rows are held only by requests about to commit a change of that row.
LEMMA CourierLockPreserved == SerialInv /\ [SerialNext]_vars => CourierLockOK'
<1> SUFFICES ASSUME SerialInv, [SerialNext]_vars
             PROVE  CourierLockOK'
  OBVIOUS
<1> USE NullsAreNotIds
<1>0. TypeOK /\ CourierLockOK
  BY DEF SerialInv, IInv
<1>1. ASSUME UNCHANGED <<courierLock, pc, work>>
      PROVE  CourierLockOK'
  BY <1>0, <1>1 DEF CourierLockOK
<1>2. ASSUME NEW r \in Requests, NEW o \in Orders, NEW to, NEW c, Start(r, o, to, c)
      PROVE  CourierLockOK'
  BY <1>0, <1>2 DEF TypeOK, CourierLockOK, Start, locks
<1>3. ASSUME NEW r \in Requests, UpdateOrder(r)
      PROVE  CourierLockOK'
  BY <1>0, <1>3 DEF TypeOK, CourierLockOK, UpdateOrder
<1>4. ASSUME NEW r \in Requests, SettleCourier(r)
      PROVE  CourierLockOK'
  <2>1. /\ pc[r] = "updated" /\ pc' = [pc EXCEPT ![r] = "settled"] /\ work' = work
        /\ \A c \in Couriers : Touches(r, c) => courierLock[c] = NoRequest
        /\ \A c \in Couriers : courierLock'[c] = IF Touches(r, c) THEN r ELSE courierLock[c]
    BY <1>4 DEF SettleCourier
  <2>2. ASSUME NEW c \in Couriers, NEW q \in Requests, courierLock'[c] = q
        PROVE  /\ pc'[q] = "settled"
               /\ work'[q].courier = c
               /\ work'[q].to = "ACCEPTED" \/ work'[q].to \in Terminal
    BY <1>0, <2>1, <2>2 DEF TypeOK, CourierLockOK, Touches
  <2>3. ASSUME NEW c \in Couriers, NEW q \in Requests, pc'[q] = "settled",
               work'[q].courier = c, work'[q].to = "ACCEPTED"
        PROVE  courierLock'[c] = q
    BY <1>0, <2>1, <2>3 DEF TypeOK, CourierLockOK, Touches
  <2>4. QED
    BY <2>2, <2>3 DEF CourierLockOK
<1>5. ASSUME NEW r \in Requests, Release(r)
      PROVE  CourierLockOK'
  BY <1>0, <1>5, ReleaseEffect DEF TypeOK, CourierLockOK
<1>6. QED
  BY <1>1, <1>2, <1>3, <1>4, <1>5, PairingStep
     DEF SerialNext, Next, Handle, StartAssign, StartTransition, Create, Commit, RejectDelivery,
         Fail, RollBack, ChooseStatus, locks, vars

\* A courier becomes DELIVERING with an order that then occupies him, and the commit that ends the
\* last order to occupy him holds his row's lock and makes him AVAILABLE.
LEMMA DeliveringPreserved == SerialInv /\ [SerialNext]_vars => DeliveringOK'
<1> SUFFICES ASSUME SerialInv, [SerialNext]_vars
             PROVE  DeliveringOK'
  OBVIOUS
<1> USE NullsAreNotIds
<1>0. /\ TypeOK /\ WorkOK /\ OneRequestPerOrder /\ SnapshotOK /\ CourierLockOK /\ DeliveringOK
  BY DEF SerialInv, IInv
<1> SUFFICES ASSUME NEW c \in Couriers, courier'[c] = "DELIVERING", c \notin restored'
             PROVE  \E o \in Orders : Occupies(o, c)'
  BY DEF DeliveringOK
<1>1. ASSUME NEW o \in Orders, Create(o)
      PROVE  \E p \in Orders : Occupies(p, c)'
  <2>1. PICK p \in Orders : Occupies(p, c)
    BY <1>0, <1>1 DEF DeliveringOK, Create, saves
  <2>2. p # o
    BY <1>1, <2>1 DEF Occupies, Create, Active, NoStatus
  <2>3. Occupies(p, c)'
    BY <1>0, <1>1, <2>1, <2>2 DEF TypeOK, Occupies, Create, locks
  <2>4. QED
    BY <2>3
<1>2. ASSUME NEW r \in Requests, NEW o \in Orders, NEW to, NEW d, Start(r, o, to, d)
      PROVE  \E p \in Orders : Occupies(p, c)'
  <2>1. PICK p \in Orders : Occupies(p, c)
    BY <1>0, <1>2 DEF DeliveringOK, Start, rows, saves
  <2>2. Occupies(p, c)'
    BY <1>0, <1>2, <2>1 DEF TypeOK, Occupies, Start, rows, locks
  <2>3. QED
    BY <2>2
<1>3. ASSUME NEW r \in Requests, UpdateOrder(r)
      PROVE  \E p \in Orders : Occupies(p, c)'
  <2>1. PICK p \in Orders : Occupies(p, c)
    BY <1>0, <1>3 DEF DeliveringOK, UpdateOrder, rows, saves
  <2>2. Occupies(p, c)'
    BY <1>0, <1>3, <2>1 DEF TypeOK, Occupies, UpdateOrder, rows
  <2>3. QED
    BY <2>2
<1>4. ASSUME NEW r \in Requests, SettleCourier(r)
      PROVE  \E p \in Orders : Occupies(p, c)'
  <2>1. /\ pc[r] = "updated" /\ pc' = [pc EXCEPT ![r] = "settled"] /\ work' = work
        /\ \A d \in Couriers : Touches(r, d) => courierLock[d] = NoRequest
        /\ \A d \in Couriers : courierLock'[d] = IF Touches(r, d) THEN r ELSE courierLock[d]
        /\ UNCHANGED rows /\ UNCHANGED restored
    BY <1>4 DEF SettleCourier, saves
  <2>2. courier[c] = "DELIVERING" /\ c \notin restored /\ UNCHANGED order
    BY <2>1 DEF rows
  <2>3. PICK p \in Orders : Occupies(p, c)
    BY <1>0, <2>2 DEF DeliveringOK
  <2>4. ASSUME NEW q \in Requests, pc'[q] = "settled", work'[q].order = p, work'[q].to \in Terminal
        PROVE  courierLock'[c] = q
    <3>1. CASE q = r
      <4>1. work[r].courier = c
        BY <1>0, <2>1, <2>3, <2>4, <3>1 DEF SnapshotOK, Occupies, Terminal
      <4>2. Touches(r, c)
        BY <2>1, <2>2, <2>4, <3>1, <4>1 DEF Touches
      <4>3. QED
        BY <2>1, <3>1, <4>2
    <3>2. CASE q # r
      <4>1. courierLock[c] = q
        BY <1>0, <2>1, <2>3, <2>4, <3>2 DEF TypeOK, Occupies
      <4>2. ~Touches(r, c)
        BY <2>1, <4>1
      <4>3. QED
        BY <2>1, <4>1, <4>2
    <3>3. QED
      BY <3>1, <3>2
  <2>5. QED
    BY <2>2, <2>3, <2>4 DEF Occupies
<1>5. ASSUME NEW r \in Requests, Commit(r)
      PROVE  \E p \in Orders : Occupies(p, c)'
  <2>8. PICK o \in Orders : o = work[r].order
    BY <1>5, CommitEffect DEF SerialInv
  <2>9. PICK to \in Statuses : to = work[r].to
    BY <1>5, CommitEffect, EdgeFacts DEF SerialInv
  <2>0. /\ o \in Orders
        /\ <<work[r].from, to>> \in Edges
        /\ order'[o].status = to
        /\ order'[o].courier = IF to = "ASSIGNED" THEN work[r].courier ELSE order[o].courier
        /\ \A p \in Orders : p # o => order'[p] = order[p]
    BY <1>5, <2>8, <2>9, CommitEffect DEF SerialInv
  <2>1. /\ pc[r] = "settled" /\ Release(r)
        /\ courier'[c] = IF courierLock[c] # r THEN courier[c]
                         ELSE IF to = "ACCEPTED" THEN "DELIVERING" ELSE "AVAILABLE"
        /\ courierLock[c] # r => c \notin restored
    BY <1>5, <2>9 DEF Commit
  <2>2. /\ pc'[r] = "idle"
        /\ \A q \in Requests : q # r => pc'[q] = pc[q] /\ work'[q] = work[q]
        /\ courierLock'[c] = IF courierLock[c] = r THEN NoRequest ELSE courierLock[c]
    BY <1>0, <2>1, ReleaseEffect
  <2>3. \A q \in Requests : pc'[q] # "idle" => work'[q].order # o
    BY <1>0, <2>8, <2>1, <2>2 DEF OneRequestPerOrder
  <2>4. CASE courierLock[c] = r
    <3>1. to = "ACCEPTED" /\ work[r].courier = c
      BY <1>0, <2>9, <2>1, <2>4 DEF CourierLockOK, Terminal
    <3>2. order'[o].courier = c
      BY <1>0, <2>8, <2>9, <2>0, <2>1, <3>1 DEF SnapshotOK
    <3>3. Occupies(o, c)'
      BY <2>0, <2>3, <3>1, <3>2 DEF Occupies, Active
    <3>4. QED
      BY <2>0, <3>3
  <2>5. CASE courierLock[c] # r
    <3>1. PICK p \in Orders : Occupies(p, c)
      BY <1>0, <2>1, <2>5 DEF DeliveringOK
    <3>2. CASE p # o
      <4>1. ASSUME NEW q \in Requests, pc'[q] = "settled", work'[q].order = p,
                   work'[q].to \in Terminal
            PROVE  courierLock'[c] = q
        BY <2>2, <2>5, <3>1, <4>1 DEF Occupies
      <4>2. QED
        BY <2>0, <3>1, <3>2, <4>1 DEF Occupies
    <3>3. CASE p = o
      <4>1. to \notin Terminal
        BY <2>8, <2>9, <2>1, <2>5, <3>1, <3>3 DEF Occupies
      <4>2. to \in Active /\ to # "ASSIGNED"
        <5>1. work[r].from \in Active
          BY <1>0, <2>8, <2>1, <3>1, <3>3 DEF SnapshotOK, Occupies
        <5>2. to \in Statuses /\ to # "CREATED" /\ to # "ASSIGNED"
          BY <2>0, <5>1, EdgeFacts DEF Active
        <5>3. QED
          BY <4>1, <5>2 DEF Statuses, Active, Terminal
      <4>3. Occupies(o, c)'
        BY <2>0, <2>3, <3>1, <3>3, <4>2 DEF Occupies
      <4>4. QED
        BY <2>0, <4>3
    <3>4. QED
      BY <3>2, <3>3
  <2>6. QED
    BY <2>4, <2>5
<1>6. ASSUME NEW r \in Requests, pc[r] # "idle", RollBack(r)
      PROVE  \E p \in Orders : Occupies(p, c)'
  <2>1. /\ pc'[r] = "idle" /\ UNCHANGED rows /\ UNCHANGED restored
        /\ \A q \in Requests : q # r => pc'[q] = pc[q] /\ work'[q] = work[q]
        /\ courierLock'[c] = IF courierLock[c] = r THEN NoRequest ELSE courierLock[c]
    BY <1>0, <1>6, ReleaseEffect DEF RollBack, saves
  <2>2. courier[c] = "DELIVERING" /\ c \notin restored /\ UNCHANGED order
    BY <2>1 DEF rows
  <2>3. PICK p \in Orders : Occupies(p, c)
    BY <1>0, <2>2 DEF DeliveringOK
  <2>4. Occupies(p, c)'
    BY <2>1, <2>2, <2>3 DEF Occupies
  <2>5. QED
    BY <2>4
<1>7. ASSUME NEW d \in Couriers, NEW s \in OwnChoices, ChooseStatus(d, s)
      PROVE  \E p \in Orders : Occupies(p, c)'
  <2>1. courier[c] = "DELIVERING" /\ c \notin restored
    BY <1>0, <1>7, DeliveringIsNotChosen DEF TypeOK, ChooseStatus
  <2>2. PICK p \in Orders : Occupies(p, c)
    BY <1>0, <2>1 DEF DeliveringOK
  <2>3. Occupies(p, c)'
    BY <1>7, <2>2 DEF Occupies, ChooseStatus, locks
  <2>4. QED
    BY <2>3
<1>8. ASSUME NEW q \in Pairings, Pair(q)
      PROVE  \E p \in Orders : Occupies(p, c)'
  <2>1. courier[c] = "DELIVERING" /\ c \notin restored
    BY <1>0, <1>8 DEF TypeOK, Pair, ReadForPairing, SaveCourier, EndPairing, rows
  <2>2. PICK p \in Orders : Occupies(p, c)
    BY <1>0, <2>1 DEF DeliveringOK
  <2>3. Occupies(p, c)'
    BY <1>8, <2>2, PairingStep DEF Occupies, locks
  <2>4. QED
    BY <2>3
<1>9. CASE UNCHANGED vars
  <2>1. PICK p \in Orders : Occupies(p, c)
    BY <1>0, <1>9 DEF DeliveringOK, vars
  <2>2. Occupies(p, c)'
    BY <1>9, <2>1 DEF Occupies, vars
  <2>3. QED
    BY <2>2
<1>10. QED
  BY <1>1, <1>2, <1>3, <1>4, <1>5, <1>6, <1>7, <1>8, <1>9
     DEF SerialNext, Next, Handle, StartAssign, StartTransition, RejectDelivery, Fail

----------------------------------------------------------------------------
\* The inductive invariant while no two requests for one order overlap.
THEOREM SerialInductive == SerialSpec => []SerialInv
<1>1. ASSUME Init
      PROVE  SerialInv
  <2>1. IInv
    BY <1>1, InitialState
  <2>2. OneRequestPerOrder /\ SnapshotOK
    BY <1>1 DEF Init, OneRequestPerOrder, SnapshotOK
  <2>3. HistoryIsAPath /\ DeliveryMatchesOrder
    BY <1>1 DEF Init, HistoryIsAPath, DeliveryMatchesOrder
  <2>4. CourierLockOK /\ DeliveringOK /\ UncreatedIsBare
    BY <1>1, NullsAreNotIds DEF Init, CourierLockOK, DeliveringOK, UncreatedIsBare
  <2>5. QED
    BY <2>1, <2>2, <2>3, <2>4 DEF SerialInv
<1>2. SerialInv /\ [SerialNext]_vars => SerialInv'
  <2> SUFFICES ASSUME SerialInv, [SerialNext]_vars
               PROVE  SerialInv'
    OBVIOUS
  <2>1. IInv'
    BY TypePreserved, LockPreserved, WorkPreserved, SafetyPreserved DEF SerialInv, SerialNext, IInv
  <2>2. OneRequestPerOrder'
    BY DEF SerialInv, SerialNext, OneRequestPerOrder, vars
  <2>3. UncreatedIsBare'
    BY UncreatedPreserved DEF SerialInv, SerialNext
  <2>4. QED
    BY <2>1, <2>2, <2>3, SnapshotPreserved, TrailPreserved, CourierLockPreserved,
       DeliveringPreserved
       DEF SerialInv
<1>3. QED
  BY <1>1, <1>2, PTL DEF SerialSpec, SerialNext

\* The audit trail of an order is a path: each row starts where the one before it ended.
THEOREM TrailIsAPath == SerialSpec => []HistoryIsAPath
BY SerialInductive, PTL DEF SerialInv

\* The delivery row names the courier the order is assigned to, and only a delivered order has one.
THEOREM DeliveryAgrees == SerialSpec => []DeliveryMatchesOrder
BY SerialInductive, PTL DEF SerialInv

\* A courier shown DELIVERING has an order in progress that is assigned to him, unless a pairing
\* has saved him so from an old read and nothing has written his status since.
THEOREM DeliveringIsJustified == SerialSpec => []DeliveringHasActiveOrder
<1>1. SerialInv => DeliveringHasActiveOrder
  BY DEF SerialInv, DeliveringOK, DeliveringHasActiveOrder, Occupies
<1>2. QED
  BY <1>1, SerialInductive, PTL

----------------------------------------------------------------------------
\* A commit on a read that is still true is one step of the lifecycle: an assignment, or a rule of
\* the table.
LEMMA CommitIsALifecycleStep ==
    ASSUME IInv, NEW r \in Requests, Commit(r), work[r].from = order[work[r].order].status
    PROVE  Lifecycle!Next
<1>0. /\ work[r].order \in Orders
      /\ <<order[work[r].order].status, work[r].to>> \in Edges
      /\ work[r].to = "ASSIGNED" => work[r].courier \in Couriers
  BY CommitEffect
<1> PICK o, to, c : o = work[r].order /\ to = work[r].to /\ c = work[r].courier
  OBVIOUS
<1>1. o \in Orders /\ <<order[o].status, to>> \in Edges /\ (to = "ASSIGNED" => c \in Couriers)
  BY <1>0
<1>2. /\ order \in [Orders -> Rows]
      /\ order' = [order EXCEPT ![o] =
                     [status |-> to,
                      courier |-> IF to = "ASSIGNED" THEN c ELSE order[o].courier]]
      /\ delivery' = IF to = "DELIVERED"
                        THEN [delivery EXCEPT ![o] = order[o].courier] ELSE delivery
  BY CommitEffect DEF IInv, TypeOK, Commit
<1>3. [p \in Orders |-> order'[p].status] =
        [[p \in Orders |-> order[p].status] EXCEPT ![o] = to]
  BY <1>1, <1>2 DEF Rows
<1>4. CASE to = "ASSIGNED"
  <2>1. order[o].status = "CREATED"
    BY <1>1, <1>4, EdgeFacts
  <2>2. [p \in Orders |-> order'[p].courier] =
          [[p \in Orders |-> order[p].courier] EXCEPT ![o] = c]
    BY <1>1, <1>2, <1>4 DEF Rows
  <2>3. delivery' = delivery
    BY <1>2, <1>4
  <2>4. Lifecycle!Assign(o, c)
    BY <1>1, <1>3, <1>4, <2>1, <2>2, <2>3 DEF Lifecycle!Assign
  <2>5. QED
    BY <1>1, <1>4, <2>4 DEF Lifecycle!Next
<1>5. CASE to # "ASSIGNED"
  <2>1. [p \in Orders |-> order'[p].courier] = [p \in Orders |-> order[p].courier]
    BY <1>1, <1>2, <1>5 DEF Rows
  <2>2. Lifecycle!Move(o, to)
    BY <1>1, <1>2, <1>3, <1>5, <2>1 DEF Lifecycle!Move
  <2>3. to \in {e[2] : e \in Edges}
    BY <1>1
  <2>4. QED
    BY <1>1, <2>2, <2>3 DEF Lifecycle!Next
<1>6. QED
  BY <1>4, <1>5

\* Creation is the lifecycle's.
LEMMA CreateIsALifecycleStep ==
    ASSUME IInv, UncreatedIsBare, NEW o \in Orders, Create(o)
    PROVE  Lifecycle!Next
<1>1. order \in [Orders -> Rows]
  BY DEF IInv, TypeOK
<1>2. /\ order[o].status = NoStatus
      /\ order' = [order EXCEPT ![o] = [status |-> "CREATED", courier |-> NoCourier]]
      /\ delivery' = delivery
  BY DEF Create
<1>3. order[o].courier = NoCourier
  BY <1>2 DEF UncreatedIsBare
<1>4. [p \in Orders |-> order'[p].status] =
        [[p \in Orders |-> order[p].status] EXCEPT ![o] = "CREATED"]
  BY <1>1, <1>2 DEF Rows
<1>5. [p \in Orders |-> order'[p].courier] = [p \in Orders |-> order[p].courier]
  BY <1>1, <1>2, <1>3 DEF Rows
<1>6. Lifecycle!Create(o)
  BY <1>1, <1>2, <1>4, <1>5 DEF Lifecycle!Create
<1>7. QED
  BY <1>6 DEF Lifecycle!Next

\* While no two requests for one order overlap, OrdersService implements the lifecycle: every
\* commit is a step of it, and no other step of a handler shows.
THEOREM Refinement == SerialSpec => ImplementsLifecycle
<1>1. Init => Lifecycle!Init
  BY DEF Init, Lifecycle!Init
<1>2. SerialInv /\ [SerialNext]_vars => [Lifecycle!Next]_(Lifecycle!lifecycleVars)
  <2> SUFFICES ASSUME SerialInv, [SerialNext]_vars
               PROVE  Lifecycle!Next \/ UNCHANGED Lifecycle!lifecycleVars
    OBVIOUS
  <2>1. ASSUME UNCHANGED <<order, delivery>>
        PROVE  UNCHANGED Lifecycle!lifecycleVars
    BY <2>1 DEF Lifecycle!lifecycleVars
  <2>2. IInv /\ UncreatedIsBare
    BY DEF SerialInv
  <2>3. ASSUME NEW r \in Requests, Commit(r)
        PROVE  Lifecycle!Next
    <3>1. work[r].from = order[work[r].order].status
      BY <2>3 DEF SerialInv, SnapshotOK, Commit
    <3>2. QED
      BY <2>2, <2>3, <3>1, CommitIsALifecycleStep
  <2>4. QED
    BY <2>1, <2>2, <2>3, CreateIsALifecycleStep, PairingStep
       DEF SerialNext, Next, Handle, StartAssign, StartTransition, Start, UpdateOrder,
           SettleCourier, RejectDelivery, Fail, RollBack, ChooseStatus, rows, vars
<1>3. QED
  BY <1>1, <1>2, SerialInductive, PTL DEF SerialSpec, SerialNext, ImplementsLifecycle, Lifecycle!Spec

----------------------------------------------------------------------------
(* What OrdersService implements however requests overlap *)

\* Which statuses the requests in flight have read, one request at a time.
LEMMA OpenMembers ==
    ASSUME NEW o \in Orders, NEW s
    PROVE  /\ s \in Open[o] <=>
                 \E q \in Requests : pc[q] # "idle" /\ work[q].order = o /\ work[q].from = s
           /\ (s \in Open[o])' <=>
                 \E q \in Requests : pc'[q] # "idle" /\ work'[q].order = o /\ work'[q].from = s
BY DEF Open

\* A request that goes on without ending has read what it had read.
LEMMA OpenStays ==
    ASSUME UNCHANGED work, \A q \in Requests : pc'[q] # "idle" <=> pc[q] # "idle"
    PROVE  Open' = Open
<1>1. ASSUME NEW o \in Orders, NEW s
      PROVE  (s \in Open[o])' <=> s \in Open[o]
  BY OpenMembers
<1>2. \A o \in Orders : (Open[o])' = Open[o]
  BY <1>1
<1>3. QED
  BY <1>2 DEF Open

\* A request that begins has read the status the order has.
LEMMA StartOpens ==
    ASSUME TypeOK, NEW r \in Requests, NEW o \in Orders, NEW to, NEW c, Start(r, o, to, c)
    PROVE  Open' = [Open EXCEPT ![o] = @ \cup {order[o].status}]
<1>1. /\ pc[r] = "idle" /\ pc'[r] # "idle"
      /\ work'[r].order = o /\ work'[r].from = order[o].status
      /\ \A q \in Requests : q # r => pc'[q] = pc[q] /\ work'[q] = work[q]
  BY DEF TypeOK, Start
<1>2. ASSUME NEW p \in Orders, NEW s
      PROVE  (s \in Open[p])' <=> s \in Open[p] \/ (p = o /\ s = order[o].status)
  BY <1>1, OpenMembers
<1>3. \A p \in Orders : (Open[p])' = IF p = o THEN Open[p] \cup {order[o].status} ELSE Open[p]
  BY <1>2
<1>4. QED
  BY <1>3 DEF Open

\* A request that ends takes with it what it read, unless another one has read the same.
LEMMA ReleaseCloses ==
    ASSUME TypeOK, WorkOK, NEW r \in Requests, pc[r] # "idle", Release(r)
    PROVE  /\ work[r].from \in Open[work[r].order]
           /\ Overlap!Close(work[r].order, work[r].from)
<1> PICK o, from : o = work[r].order /\ from = work[r].from
  OBVIOUS
<1>1. o \in Orders
  BY DEF WorkOK
<1>2. /\ pc'[r] = "idle"
      /\ \A q \in Requests : q # r => pc'[q] = pc[q] /\ work'[q] = work[q]
  BY ReleaseEffect
<1>3. from \in Open[o]
  BY <1>1, OpenMembers
<1>4. ASSUME NEW p \in Orders, p # o
      PROVE  (Open[p])' = Open[p]
  <2>1. ASSUME NEW s
        PROVE  (s \in Open[p])' <=> s \in Open[p]
    BY <1>2, <1>4, OpenMembers
  <2>2. QED
    BY <2>1
<1>5. ASSUME NEW s, s # from
      PROVE  (s \in Open[o])' <=> s \in Open[o]
  BY <1>1, <1>2, <1>5, OpenMembers
<1>6. CASE (from \in Open[o])'
  <2>1. (Open[o])' = Open[o]
    BY <1>3, <1>5, <1>6
  <2>2. Open' = Open
    BY <1>4, <2>1 DEF Open
  <2>3. QED
    BY <1>3, <2>2 DEF Overlap!Close
<1>7. CASE ~(from \in Open[o])'
  <2>1. (Open[o])' = Open[o] \ {from}
    BY <1>5, <1>7
  <2>2. Open' = [Open EXCEPT ![o] = @ \ {from}]
    BY <1>1, <1>4, <2>1 DEF Open
  <2>3. QED
    BY <1>3, <2>2 DEF Overlap!Close
<1>8. QED
  BY <1>6, <1>7

\* A commit is a step of the table from what was read, whatever the order has become.
LEMMA CommitSurvives ==
    ASSUME IInv, NEW r \in Requests, Commit(r)
    PROVE  Overlap!Next
<1>0. /\ work[r].order \in Orders
      /\ <<work[r].from, work[r].to>> \in Edges
      /\ work[r].to = "ASSIGNED" => work[r].courier \in Couriers
  BY CommitEffect
<1>1. work[r].from \in Open[work[r].order] /\ Overlap!Close(work[r].order, work[r].from)
  BY ReleaseCloses DEF IInv, Commit
<1> PICK o, from, to, c :
       o = work[r].order /\ from = work[r].from /\ to = work[r].to /\ c = work[r].courier
  OBVIOUS
<1>2. /\ o \in Orders /\ <<from, to>> \in Edges /\ (to = "ASSIGNED" => c \in Couriers)
      /\ from \in Open[o] /\ Overlap!Close(o, from)
  BY <1>0, <1>1
<1>3. /\ order \in [Orders -> Rows] /\ delivery \in [Orders -> Couriers \cup {NoCourier}]
      /\ order' = [order EXCEPT ![o] =
                     [status |-> to,
                      courier |-> IF to = "ASSIGNED" THEN c ELSE order[o].courier]]
      /\ delivery' = IF to = "DELIVERED"
                        THEN [delivery EXCEPT ![o] = order[o].courier] ELSE delivery
      /\ to = "DELIVERED" => order[o].courier # NoCourier /\ delivery[o] = NoCourier
  BY CommitEffect DEF IInv, TypeOK, Commit, CanRecordDelivery
<1>4. [p \in Orders |-> order'[p].status] =
        [[p \in Orders |-> order[p].status] EXCEPT ![o] = to]
  BY <1>2, <1>3 DEF Rows
<1>5. CASE to = "ASSIGNED"
  <2>1. from = "CREATED"
    BY <1>2, <1>5, EdgeFacts
  <2>2. [p \in Orders |-> order'[p].courier] =
          [[p \in Orders |-> order[p].courier] EXCEPT ![o] = c]
    BY <1>2, <1>3, <1>5 DEF Rows
  <2>3. delivery' = delivery
    BY <1>3, <1>5
  <2>4. Overlap!Assign(o, c)
    BY <1>2, <1>4, <1>5, <2>1, <2>2, <2>3 DEF Overlap!Assign
  <2>5. QED
    BY <1>2, <1>5, <2>4 DEF Overlap!Next
<1>6. CASE to # "ASSIGNED"
  <2>1. [p \in Orders |-> order'[p].courier] = [p \in Orders |-> order[p].courier]
    BY <1>2, <1>3, <1>6 DEF Rows
  <2>2. Overlap!Move(o, from, to)
    BY <1>2, <1>3, <1>4, <1>6, <2>1 DEF Overlap!Move
  <2>3. to \in {e[2] : e \in Edges}
    BY <1>2
  <2>4. QED
    BY <1>2, <2>2, <2>3 DEF Overlap!Next
<1>7. QED
  BY <1>5, <1>6

\* So is creation, of an order no request can know.
LEMMA CreateSurvives ==
    ASSUME IInv, UncreatedIsBare, NEW o \in Orders, Create(o)
    PROVE  Overlap!Next
<1>1. order \in [Orders -> Rows]
  BY DEF IInv, TypeOK
<1>2. /\ order[o].status = NoStatus
      /\ order' = [order EXCEPT ![o] = [status |-> "CREATED", courier |-> NoCourier]]
      /\ delivery' = delivery /\ pc' = pc /\ work' = work
  BY DEF Create
<1>3. order[o].courier = NoCourier
  BY <1>2 DEF UncreatedIsBare
<1>4. [p \in Orders |-> order'[p].status] =
        [[p \in Orders |-> order[p].status] EXCEPT ![o] = "CREATED"]
  BY <1>1, <1>2 DEF Rows
<1>5. [p \in Orders |-> order'[p].courier] = [p \in Orders |-> order[p].courier]
  BY <1>1, <1>2, <1>3 DEF Rows
<1>6. Open' = Open
  BY <1>2, OpenStays
<1>7. Overlap!Create(o)
  BY <1>1, <1>2, <1>4, <1>5, <1>6 DEF Overlap!Create
<1>8. QED
  BY <1>7 DEF Overlap!Next

\* A request opens, or ends without a commit: nothing but Open changes.
LEMMA RequestSurvives ==
    ASSUME IInv, NEW r \in Requests,
           \/ \E o \in Orders, to \in Statuses, c \in Couriers \cup {NoCourier} : Start(r, o, to, c)
           \/ pc[r] # "idle" /\ RollBack(r)
    PROVE  Overlap!Next
<1>1. ASSUME NEW o \in Orders, NEW to, NEW c, Start(r, o, to, c)
      PROVE  Overlap!Next
  <2>1. Open' = [Open EXCEPT ![o] = @ \cup {order[o].status}]
    BY <1>1, StartOpens DEF IInv
  <2>2. order[o].status # NoStatus /\ UNCHANGED <<order, delivery>>
    BY <1>1 DEF Start, rows
  <2>3. Overlap!Open(o)
    BY <2>1, <2>2 DEF Overlap!Open, Open
  <2>4. QED
    BY <2>3 DEF Overlap!Next
<1>2. ASSUME pc[r] # "idle", RollBack(r)
      PROVE  Overlap!Next
  <2>1. /\ work[r].order \in Orders
        /\ work[r].from \in Open[work[r].order]
        /\ Overlap!Close(work[r].order, work[r].from)
    BY <1>2, ReleaseCloses DEF IInv, WorkOK, RollBack
  <2>2. UNCHANGED <<order, delivery>>
    BY <1>2 DEF RollBack, rows
  <2>3. Overlap!Abandon(work[r].order, work[r].from)
    BY <2>1, <2>2 DEF Overlap!Abandon
  <2>4. QED
    BY <2>1, <2>3 DEF Overlap!Next
<1>3. QED
  BY <1>1, <1>2

\* However requests overlap and fail, OrdersService implements OrderOverlap: orders are moved by
\* requests in flight only, each from the status it read, and couriers and deliveries survive.
THEOREM OverlapRefinement == Spec => SurvivesOverlap
<1>1. Init => Overlap!Init
  BY DEF Init, Overlap!Init, Open
<1>2. Init => UncreatedIsBare
  BY DEF Init, UncreatedIsBare
<1>3. IInv /\ UncreatedIsBare /\ [Next]_vars => [Overlap!Next]_(Overlap!overlapVars)
  <2> SUFFICES ASSUME IInv, UncreatedIsBare, [Next]_vars
               PROVE  Overlap!Next \/ UNCHANGED Overlap!overlapVars
    OBVIOUS
  <2>1. ASSUME UNCHANGED <<order, delivery>>, Open' = Open
        PROVE  UNCHANGED Overlap!overlapVars
    BY <2>1 DEF Overlap!overlapVars
  <2>2. ASSUME NEW r \in Requests, UpdateOrder(r) \/ SettleCourier(r)
        PROVE  UNCHANGED Overlap!overlapVars
    <3>1. /\ UNCHANGED <<order, delivery, work>>
          /\ \A q \in Requests : pc'[q] # "idle" <=> pc[q] # "idle"
      BY <2>2 DEF IInv, TypeOK, UpdateOrder, SettleCourier, rows
    <3>2. QED
      BY <2>1, <3>1, OpenStays
  <2>3. ASSUME UNCHANGED <<order, delivery, pc, work>>
        PROVE  UNCHANGED Overlap!overlapVars
    BY <2>1, <2>3, OpenStays
  <2>4. ASSUME NEW r \in Requests, Handle(r)
        PROVE  Overlap!Next \/ UNCHANGED Overlap!overlapVars
    <3>1. ASSUME NEW o \in Orders, NEW c \in Couriers, StartAssign(r, o, c)
          PROVE  Overlap!Next
      BY <3>1, RequestSurvives DEF StartAssign, Statuses
    <3>2. ASSUME NEW o \in Orders, NEW to \in Statuses, NEW role \in Roles, NEW me \in Couriers,
                 StartTransition(r, o, to, role, me)
          PROVE  Overlap!Next
      <4>1. order[o].courier \in Couriers \cup {NoCourier}
        BY DEF IInv, TypeOK, Rows
      <4>2. QED
        BY <3>2, <4>1, RequestSurvives DEF StartTransition
    <3>3. ASSUME RejectDelivery(r) \/ Fail(r)
          PROVE  Overlap!Next
      BY <3>3, RequestSurvives DEF RejectDelivery, Fail
    <3>4. QED
      BY <2>2, <2>4, <3>1, <3>2, <3>3, CommitSurvives DEF Handle
  <2>5. ASSUME NEW c \in Couriers, NEW s \in OwnChoices, ChooseStatus(c, s)
        PROVE  UNCHANGED Overlap!overlapVars
    BY <2>3, <2>5 DEF ChooseStatus
  <2>6. ASSUME NEW p \in Pairings, Pair(p)
        PROVE  UNCHANGED Overlap!overlapVars
    BY <2>3, <2>6, PairingStep
  <2>7. CASE UNCHANGED vars
    BY <2>3, <2>7 DEF vars
  <2>8. QED
    BY <2>4, <2>5, <2>6, <2>7, CreateSurvives DEF Next
<1>4. QED
  BY <1>1, <1>2, <1>3, Inductive, UncreatedPreserved, PTL
     DEF Spec, SurvivesOverlap, Overlap!Spec

\* A step that changes an order of which no read is out of date is a step of the lifecycle, however
\* the order came to be where it is: overlapping requests are the only way to leave the table.
THEOREM OnlyStaleReadsDeviate == Spec => LifecycleUnlessStale
<1>1. ASSUME IInv, UncreatedIsBare, [Next]_vars,
             \A o \in Orders : order'[o] # order[o] => ~Stale(o)
      PROVE  Lifecycle!Next \/ UNCHANGED Lifecycle!lifecycleVars
  <2>1. ASSUME NEW o \in Orders, Create(o)
        PROVE  Lifecycle!Next
    BY <1>1, <2>1, CreateIsALifecycleStep
  <2>2. ASSUME NEW r \in Requests, Commit(r), order'[work[r].order] # order[work[r].order]
        PROVE  Lifecycle!Next
    <3>1. work[r].order \in Orders /\ pc[r] # "idle"
      BY <1>1, <2>2, CommitEffect DEF Commit
    <3>2. work[r].from \in Open[work[r].order]
      BY <3>1, OpenMembers
    <3>3. work[r].from = order[work[r].order].status
      BY <1>1, <2>2, <3>1, <3>2 DEF Stale
    <3>4. QED
      BY <1>1, <2>2, <3>3, CommitIsALifecycleStep
  <2>3. ASSUME NEW r \in Requests, Commit(r), order'[work[r].order] = order[work[r].order]
        PROVE  UNCHANGED <<order, delivery>>
    <3>1. /\ work[r].order \in Orders
          /\ order'[work[r].order].status = work[r].to
          /\ \A p \in Orders : p # work[r].order => order'[p] = order[p]
      BY <1>1, <2>3, CommitEffect
    <3>2. order' = order
      <4>1. order \in [Orders -> Rows] /\ order' \in [Orders -> Rows]
        BY <1>1, TypePreserved DEF IInv, TypeOK
      <4>2. \A p \in Orders : order'[p] = order[p]
        BY <2>3, <3>1
      <4>3. QED
        BY <4>1, <4>2
    <3>3. work[r].to # "DELIVERED"
      <4>1. ASSUME work[r].to = "DELIVERED"
            PROVE  FALSE
        <5>1. delivery[work[r].order] = NoCourier
          BY <2>3, <4>1 DEF Commit, CanRecordDelivery
        <5>2. delivery[work[r].order] # NoCourier
          BY <1>1, <2>3, <3>1, <4>1 DEF IInv, DeliveredIsRecorded
        <5>3. QED
          BY <5>1, <5>2
      <4>2. QED
        BY <4>1
    <3>4. delivery' = delivery
      BY <2>3, <3>3 DEF Commit
    <3>5. QED
      BY <3>2, <3>4
  <2>4. ASSUME UNCHANGED <<order, delivery>>
        PROVE  UNCHANGED Lifecycle!lifecycleVars
    BY <2>4 DEF Lifecycle!lifecycleVars
  <2>5. \/ \E o \in Orders : Create(o)
        \/ \E r \in Requests : Commit(r)
        \/ UNCHANGED <<order, delivery>>
    BY <1>1, PairingStep
       DEF Next, Handle, StartAssign, StartTransition, Start, UpdateOrder, SettleCourier,
           RejectDelivery, Fail, RollBack, ChooseStatus, rows, vars
  <2>6. QED
    BY <2>1, <2>2, <2>3, <2>4, <2>5
<1>2. Init => UncreatedIsBare
  BY DEF Init, UncreatedIsBare
<1>3. QED
  BY <1>1, <1>2, Inductive, UncreatedPreserved, PTL DEF Spec, LifecycleUnlessStale

----------------------------------------------------------------------------
\* How far an order has come: every edge of the table leads upwards.
Rank == [s \in Statuses |->
    CASE s = "CREATED"    -> 1
      [] s = "ASSIGNED"   -> 2
      [] s = "ACCEPTED"   -> 3
      [] s = "PICKUP"     -> 4
      [] s = "PICKED_UP"  -> 5
      [] s = "DELIVERING" -> 6
      [] OTHER            -> 7]

\* The rows of a history, each in its place: they climb, and nothing that needs the courier's
\* acceptance comes before it.
Climbs(h) == \A i, j \in DOMAIN h : i < j => Rank[h[i].to] < Rank[h[j].to]
Accepted(h) == \A j \in DOMAIN h : h[j].to \in Active \cup {"DELIVERED"} =>
                   \E i \in DOMAIN h : h[i].to = "ACCEPTED"

TrailInv == \A o \in Orders : Climbs(history[o]) /\ Accepted(history[o])

LEMMA EdgesClimb ==
    ASSUME NEW s, NEW t, <<s, t>> \in Edges
    PROVE  /\ Rank[s] \in 1..7 /\ Rank[t] \in 1..7 /\ Rank[s] < Rank[t]
           /\ t \in Active \cup {"DELIVERED"} => t = "ACCEPTED" \/ s \in Active
<1>1. CASE s = "CREATED" /\ t = "ASSIGNED"
  BY <1>1 DEF Rank, Statuses, Active
<1>2. CASE s \in Statuses /\ t \in Statuses /\ \E rule \in Transitions[s] : rule.to = t
  BY <1>2 DEF Transitions, Rule, Rank, Statuses, Active
<1>3. QED
  BY <1>1, <1>2 DEF Edges

\* A row that follows an edge from the last one goes on climbing.
LEMMA AppendClimbs ==
    ASSUME NEW h \in Seq(HistoryRows), NEW row \in HistoryRows, Climbs(h), Accepted(h),
           IF h = <<>> THEN row.to = "CREATED" ELSE <<h[Len(h)].to, row.to>> \in Edges
    PROVE  Climbs(Append(h, row)) /\ Accepted(Append(h, row))
<1> DEFINE g == Append(h, row)
           n == Len(h)
<1>1. /\ n \in Nat /\ DOMAIN h = 1..n /\ DOMAIN g = 1..(n + 1)
      /\ \A i \in 1..n : g[i] = h[i]
      /\ g[n + 1] = row
      /\ h = <<>> <=> n = 0
  OBVIOUS
<1>2. \A s \in Statuses : Rank[s] \in 1..7
  BY DEF Rank, Statuses
<1>3. row.to \in Statuses /\ \A i \in 1..n : h[i].to \in Statuses
  <2>1. \A i \in 1..n : h[i] \in HistoryRows
    BY <1>1
  <2>2. \A x \in HistoryRows : x.to \in Statuses
    BY DEF HistoryRows
  <2>3. QED
    BY <2>1, <2>2
<1>4. n # 0 => <<h[n].to, row.to>> \in Edges
  BY <1>1
<1>5. n = 0 => row.to = "CREATED"
  BY <1>1
<1> HIDE DEF g, n
<1>6. ASSUME NEW i \in DOMAIN g, NEW j \in DOMAIN g, i < j
      PROVE  Rank[g[i].to] < Rank[g[j].to]
  <2>1. CASE j = n + 1
    <3>1. i \in 1..n /\ n \in 1..n /\ g[i] = h[i] /\ g[j] = row
      BY <1>1, <1>6, <2>1
    <3>2. Rank[h[n].to] < Rank[row.to] /\ Rank[h[n].to] \in 1..7 /\ Rank[row.to] \in 1..7
      BY <1>4, <3>1, EdgesClimb
    <3>3. i = n \/ Rank[h[i].to] < Rank[h[n].to]
      BY <1>1, <3>1 DEF Climbs
    <3>4. Rank[h[i].to] \in 1..7
      BY <1>2, <1>3, <3>1
    <3>5. Rank[h[i].to] < Rank[row.to]
      BY <3>2, <3>3, <3>4
    <3>6. QED
      BY <3>1, <3>5
  <2>2. CASE j # n + 1
    <3>1. i \in 1..n /\ j \in 1..n
      BY <1>1, <1>6, <2>2
    <3>2. QED
      BY <1>1, <1>6, <3>1 DEF Climbs
  <2>3. QED
    BY <2>1, <2>2
<1>7. ASSUME NEW j \in DOMAIN g, g[j].to \in Active \cup {"DELIVERED"}
      PROVE  \E i \in DOMAIN g : g[i].to = "ACCEPTED"
  <2>1. ASSUME NEW i \in 1..n, h[i].to \in Active \cup {"DELIVERED"}
        PROVE  \E x \in DOMAIN g : g[x].to = "ACCEPTED"
    <3>1. PICK x \in 1..n : h[x].to = "ACCEPTED"
      BY <1>1, <2>1 DEF Accepted
    <3>2. QED
      BY <1>1, <3>1
  <2>2. CASE j = n + 1 /\ row.to # "ACCEPTED"
    <3>1. g[j] = row
      BY <1>1, <2>2
    <3>2. n # 0
      BY <1>5, <1>7, <3>1 DEF Active
    <3>3. n \in 1..n /\ h[n].to \in Active
      BY <1>1, <1>4, <1>7, <2>2, <3>1, <3>2, EdgesClimb
    <3>4. QED
      BY <2>1, <3>3
  <2>3. CASE j = n + 1 /\ row.to = "ACCEPTED"
    BY <1>1, <2>3
  <2>4. CASE j \in 1..n
    BY <1>1, <1>7, <2>1, <2>4
  <2>5. QED
    BY <1>1, <1>7, <2>2, <2>3, <2>4
<1>8. QED
  BY <1>6, <1>7 DEF Climbs, Accepted, g

LEMMA TrailInductive == SerialSpec => []TrailInv
<1>1. Init => TrailInv
  <2>1. DOMAIN << >> = {}
    OBVIOUS
  <2>2. Climbs(<< >>) /\ Accepted(<< >>)
    BY <2>1 DEF Climbs, Accepted
  <2>3. Init => \A o \in Orders : history[o] = << >>
    <3>1. Init => history = [o \in Orders |-> << >>]
      BY DEF Init
    <3>2. QED
      BY <3>1, Zenon
  <2>4. QED
    BY <2>2, <2>3 DEF TrailInv, Climbs, Accepted
<1>2. SerialInv /\ TrailInv /\ [SerialNext]_vars => TrailInv'
  <2> SUFFICES ASSUME SerialInv, TrailInv, [SerialNext]_vars
               PROVE  TrailInv'
    OBVIOUS
  <2>0. TypeOK /\ HistoryEndsAtStatus
    BY DEF SerialInv, IInv
  <2>1. ASSUME NEW o \in Orders, NEW row \in HistoryRows,
               history'[o] = Append(history[o], row),
               \A p \in Orders : p # o => history'[p] = history[p],
               IF order[o].status = NoStatus THEN row.to = "CREATED"
               ELSE <<order[o].status, row.to>> \in Edges
        PROVE  TrailInv'
    <3>1. history[o] \in Seq(HistoryRows)
      BY <2>0 DEF TypeOK
    <3>2. IF history[o] = <<>> THEN row.to = "CREATED"
          ELSE <<history[o][Len(history[o])].to, row.to>> \in Edges
      BY <2>0, <2>1 DEF HistoryEndsAtStatus
    <3>3. Climbs(history'[o]) /\ Accepted(history'[o])
      <4>1. Climbs(history[o]) /\ Accepted(history[o])
        BY DEF TrailInv
      <4>2. Climbs(Append(history[o], row)) /\ Accepted(Append(history[o], row))
        BY <3>1, <3>2, <4>1, AppendClimbs
      <4>3. QED
        BY <2>1, <4>2
    <3>4. ASSUME NEW p \in Orders
          PROVE  Climbs(history'[p]) /\ Accepted(history'[p])
      <4>1. CASE p = o
        BY <3>3, <4>1
      <4>2. CASE p # o
        <5>1. history'[p] = history[p]
          BY <2>1, <4>2
        <5>2. Climbs(history[p]) /\ Accepted(history[p])
          BY DEF TrailInv
        <5>3. QED
          BY <5>1, <5>2
      <4>3. QED
        BY <4>1, <4>2
    <3>5. QED
      BY <3>4 DEF TrailInv
  <2>2. ASSUME NEW o \in Orders, Create(o)
        PROVE  TrailInv'
    <3>1. /\ HistoryRow(NoStatus, "CREATED") \in HistoryRows
          /\ HistoryRow(NoStatus, "CREATED").to = "CREATED"
      BY DEF HistoryRow, HistoryRows, Statuses
    <3>2. /\ order[o].status = NoStatus
          /\ history'[o] = Append(history[o], HistoryRow(NoStatus, "CREATED"))
          /\ \A p \in Orders : p # o => history'[p] = history[p]
      BY <2>0, <2>2 DEF TypeOK, Create
    <3>3. QED
      BY <2>1, <3>1, <3>2
  <2>3. ASSUME NEW r \in Requests, Commit(r)
        PROVE  TrailInv'
    <3> DEFINE o == work[r].order
               to == work[r].to
    <3>1. /\ o \in Orders /\ <<work[r].from, to>> \in Edges
          /\ history'[o] = Append(history[o], HistoryRow(work[r].from, to))
          /\ \A p \in Orders : p # o => history'[p] = history[p]
      BY <2>3, CommitEffect DEF SerialInv
    <3>2. order[o].status = work[r].from
      BY <2>3 DEF SerialInv, SnapshotOK, Commit
    <3>3. /\ HistoryRow(work[r].from, to) \in HistoryRows
          /\ HistoryRow(work[r].from, to).to = to
          /\ work[r].from \in Statuses
      BY <3>1, EdgeFacts DEF HistoryRow, HistoryRows
    <3>4. order[o].status # NoStatus
      BY <3>2, <3>3 DEF NoStatus, Statuses
    <3>5. PICK row \in HistoryRows : row = HistoryRow(work[r].from, to)
      BY <3>3
    <3>6. row.to = to /\ history'[o] = Append(history[o], row)
      BY <3>1, <3>3, <3>5
    <3>7. <<order[o].status, row.to>> \in Edges
      BY <3>1, <3>2, <3>6
    <3>8. QED
      BY <2>1, <3>1, <3>4, <3>6, <3>7
  <2>4. CASE UNCHANGED history
    BY <2>4 DEF TrailInv
  <2>5. QED
    BY <2>2, <2>3, <2>4, PairingStep
       DEF SerialNext, Next, Handle, StartAssign, StartTransition, Start, UpdateOrder,
           SettleCourier, RejectDelivery, Fail, RollBack, ChooseStatus, rows, vars
<1>3. QED
  BY <1>1, <1>2, SerialInductive, PTL DEF SerialSpec, SerialNext

\* analytics.service.ts:35-96, while no two requests for one order overlap: the joins behind the
\* averages meet each order once, and the leaderboard counts the delivered orders of the couriers
\* who have delivered most.
THEOREM SummaryIsRight == SerialSpec => []SummaryAgrees
<1>1. ASSUME SerialInv, TrailInv
      PROVE  SummaryAgrees
  <2>0. TypeOK /\ HistoryEndsAtStatus /\ DeliveredIsRecorded /\ DeliveryMatchesOrder
    BY <1>1 DEF SerialInv, IInv
  <2>1. ASSUME NEW o \in Orders
        PROVE  /\ DeliveryPairs(o) # {} <=> o \in ByStatus("DELIVERED")
               /\ \A p, q \in DeliveryPairs(o) : p = q /\ p[1] < p[2]
               /\ \A p, q \in DispatchPairs(o) : p = q /\ p[1] < p[2]
    <3> DEFINE h == history[o]
    <3>1. /\ h \in Seq(HistoryRows) /\ DOMAIN h = 1..Len(h) /\ Len(h) \in Nat
          /\ \A i \in DOMAIN h : h[i].to \in Statuses
      <4>1. h \in Seq(HistoryRows)
        BY <2>0 DEF TypeOK
      <4>2. \A i \in DOMAIN h : h[i] \in HistoryRows
        BY <4>1
      <4>3. \A x \in HistoryRows : x.to \in Statuses
        BY DEF HistoryRows
      <4>4. QED
        BY <4>1, <4>2, <4>3
    <3>2. Climbs(h) /\ Accepted(h)
      BY <1>1 DEF TrailInv
    <3>3. IF order[o].status = NoStatus THEN h = <<>> ELSE h # <<>> /\ h[Len(h)].to = order[o].status
      BY <2>0 DEF HistoryEndsAtStatus
    <3> HIDE DEF h
    <3>4. \A s \in Statuses : Rank[s] \in 1..7
      BY DEF Rank, Statuses
    <3>5. \A i, j \in DOMAIN h : h[i].to = h[j].to => i = j
      BY <3>1, <3>2, <3>4 DEF Climbs
    <3>6. ASSUME NEW s \in Statuses, NEW t \in Statuses, Rank[s] < Rank[t],
                 NEW p \in HistoryPairs(o, s, t), NEW q \in HistoryPairs(o, s, t)
          PROVE  p = q /\ p[1] < p[2]
      <4>1. /\ p \in (DOMAIN h) \X (DOMAIN h) /\ h[p[1]].to = s /\ h[p[2]].to = t
            /\ q \in (DOMAIN h) \X (DOMAIN h) /\ h[q[1]].to = s /\ h[q[2]].to = t
        BY <3>6 DEF HistoryPairs, h
      <4>2. p = q
        BY <3>5, <4>1
      <4>3. p[1] # p[2]
        BY <3>4, <3>6, <4>1
      <4>4. ~(p[2] < p[1])
        BY <3>2, <3>4, <3>6, <4>1 DEF Climbs
      <4>5. QED
        BY <3>1, <4>1, <4>2, <4>3, <4>4
    <3>7. /\ "ACCEPTED" \in Statuses /\ "DELIVERED" \in Statuses
          /\ "CREATED" \in Statuses /\ "ASSIGNED" \in Statuses
          /\ Rank["ACCEPTED"] < Rank["DELIVERED"] /\ Rank["CREATED"] < Rank["ASSIGNED"]
          /\ Rank["DELIVERED"] = 7
      BY DEF Rank, Statuses
    <3>8. ASSUME NEW p \in DeliveryPairs(o)
          PROVE  order[o].status = "DELIVERED"
      <4>1. p[2] \in DOMAIN h /\ h[p[2]].to = "DELIVERED"
        BY <3>8 DEF DeliveryPairs, HistoryPairs, h
      <4>2. Len(h) \in DOMAIN h /\ h # <<>>
        BY <3>1, <4>1
      <4>3. ASSUME p[2] < Len(h)
            PROVE  FALSE
        <5>1. Rank[h[p[2]].to] < Rank[h[Len(h)].to]
          BY <3>2, <4>1, <4>2, <4>3 DEF Climbs
        <5>2. Rank[h[Len(h)].to] \in 1..7
          BY <3>1, <3>4, <4>2
        <5>3. QED
          BY <3>7, <4>1, <5>1, <5>2
      <4>4. p[2] = Len(h)
        BY <3>1, <4>1, <4>3
      <4>5. QED
        BY <3>3, <4>1, <4>2, <4>4
    <3>9. ASSUME order[o].status = "DELIVERED"
          PROVE  DeliveryPairs(o) # {}
      <4>1. Len(h) \in DOMAIN h /\ h[Len(h)].to = "DELIVERED"
        BY <3>1, <3>3, <3>9 DEF NoStatus
      <4>2. PICK i \in DOMAIN h : h[i].to = "ACCEPTED"
        BY <3>2, <4>1 DEF Accepted
      <4>3. <<i, Len(h)>> \in DeliveryPairs(o)
        BY <4>1, <4>2 DEF DeliveryPairs, HistoryPairs, h
      <4>4. QED
        BY <4>3
    <3>10. QED
      BY <3>6, <3>7, <3>8, <3>9 DEF DeliveryPairs, DispatchPairs, ByStatus
  <2>2. ASSUME NEW c \in Couriers
        PROVE  Deliveries(c) = Delivered(c)
    <3>1. ASSUME NEW o \in Orders
          PROVE  delivery[o] = c <=> order[o].status = "DELIVERED" /\ order[o].courier = c
      BY <2>0, NullsAreNotIds DEF TypeOK, DeliveredIsRecorded, DeliveryMatchesOrder
    <3>2. QED
      BY <3>1 DEF Deliveries, Delivered, ByStatus
  <2>3. ASSUME NEW top \in TopCouriers
        PROVE  /\ \A c \in top : Deliveries(c) = Delivered(c)
               /\ \A d \in Couriers \ top : Delivered(d) # {} =>
                     /\ Cardinality(top) = Limit
                     /\ \A c \in top : Cardinality(Delivered(d)) <= Cardinality(Delivered(c))
    <3>1. top \subseteq Lines /\ Lines \subseteq Couriers
      BY <2>3 DEF TopCouriers, Lines
    <3>2. ASSUME NEW d \in Couriers \ top, Delivered(d) # {}
          PROVE  /\ Cardinality(top) = Limit
                 /\ \A c \in top : Cardinality(Delivered(d)) <= Cardinality(Delivered(c))
      <4>1. d \in Lines \ top
        BY <2>2, <3>2 DEF Lines
      <4>2. /\ Cardinality(top) = Limit
            /\ \A c \in top : Cardinality(Deliveries(d)) <= Cardinality(Deliveries(c))
        BY <2>3, <4>1 DEF TopCouriers
      <4>3. QED
        BY <2>2, <3>1, <4>2
    <3>3. QED
      BY <2>2, <3>1, <3>2
  <2>4. QED
    BY <2>1, <2>3 DEF SummaryAgrees
<1>2. QED
  BY <1>1, SerialInductive, TrailInductive, PTL

----------------------------------------------------------------------------
(* What the averages take in, however requests race *)

\* On the way to a delivery each status has one that leads to it.
LEMMA OneWayIn ==
    ASSUME NEW s, NEW t, <<s, t>> \in Edges
    PROVE  /\ t = "DELIVERED"  => s = "DELIVERING"
           /\ t = "DELIVERING" => s = "PICKED_UP"
           /\ t = "PICKED_UP"  => s = "PICKUP"
           /\ t = "PICKUP"     => s = "ACCEPTED"
           /\ t = "ACCEPTED"   => s = "ASSIGNED"
           /\ t = "ASSIGNED"   => s = "CREATED"
<1>1. CASE s = "CREATED" /\ t = "ASSIGNED"
  BY <1>1
<1>2. CASE s \in Statuses /\ t \in Statuses /\ \E rule \in Transitions[s] : rule.to = t
  BY <1>2 DEF Transitions, Rule, Statuses
<1>3. QED
  BY <1>1, <1>2 DEF Edges

\* So a grounded history that leads to the one has led to the other before.
LEMMA StepBack ==
    ASSUME NEW h \in Seq(HistoryRows), Grounded(h), NEW i \in 1..Len(h), h[i].to # "CREATED"
    PROVE  \E j \in 1..Len(h) : j < i /\ <<h[j].to, h[i].to>> \in Edges
<1>1. i # 1 /\ <<h[i].from, h[i].to>> \in Edges
  BY DEF Grounded
<1>2. PICK j \in 1..(i - 1) : h[j].to = h[i].from
  BY <1>1 DEF Grounded
<1>3. Len(h) \in Nat
  OBVIOUS
<1>4. j \in 1..Len(h) /\ j < i
  BY <1>3
<1>5. QED
  BY <1>1, <1>2, <1>4

\* However requests race, a delivered order enters both averages: its history has been led to CREATED
\* before ASSIGNED and to ACCEPTED before DELIVERED.
THEOREM DeliveredCount == Spec => []DeliveredAreCounted
<1>1. ASSUME GroundedInv
      PROVE  DeliveredAreCounted
  <2> SUFFICES ASSUME NEW o \in Orders, order[o].status = "DELIVERED"
               PROVE  /\ \E p \in DeliveryPairs(o) : p[1] < p[2]
                      /\ \E p \in DispatchPairs(o) : p[1] < p[2]
    BY DEF DeliveredAreCounted, ByStatus
  <2> DEFINE h == history[o]
  <2>1. /\ h \in Seq(HistoryRows) /\ Grounded(h)
        /\ h # <<>> /\ h[Len(h)].to = "DELIVERED"
    BY <1>1 DEF GroundedInv, IInv, TypeOK, HistoryIsGrounded, Grounded, HistoryEndsAtStatus, NoStatus
  <2>2. /\ DeliveryPairs(o) = {p \in (1..Len(h)) \X (1..Len(h)) :
                                 h[p[1]].to = "ACCEPTED" /\ h[p[2]].to = "DELIVERED"}
        /\ DispatchPairs(o) = {p \in (1..Len(h)) \X (1..Len(h)) :
                                 h[p[1]].to = "CREATED" /\ h[p[2]].to = "ASSIGNED"}
    BY <2>1 DEF DeliveryPairs, DispatchPairs, HistoryPairs
  <2>3. Len(h) \in 1..Len(h)
    BY <2>1
  <2> HIDE DEF h
  <2>4. PICK i6 \in 1..Len(h) : i6 < Len(h) /\ h[i6].to = "DELIVERING"
    <3>1. h[Len(h)].to # "CREATED"
      BY <2>1, <2>3
    <3>2. PICK j \in 1..Len(h) : j < Len(h) /\ <<h[j].to, h[Len(h)].to>> \in Edges
      BY <2>1, <2>3, <3>1, StepBack
    <3>3. h[j].to = "DELIVERING"
      BY <2>1, <2>3, <3>2, OneWayIn
    <3>4. QED
      BY <3>2, <3>3
  <2>5. PICK i5 \in 1..Len(h) : i5 < i6 /\ h[i5].to = "PICKED_UP"
    <3>1. h[i6].to # "CREATED"
      BY <2>1, <2>4
    <3>2. PICK j \in 1..Len(h) : j < i6 /\ <<h[j].to, h[i6].to>> \in Edges
      BY <2>1, <2>4, <3>1, StepBack
    <3>3. h[j].to = "PICKED_UP"
      BY <2>1, <2>4, <3>2, OneWayIn
    <3>4. QED
      BY <3>2, <3>3
  <2>6. PICK i4 \in 1..Len(h) : i4 < i5 /\ h[i4].to = "PICKUP"
    <3>1. h[i5].to # "CREATED"
      BY <2>1, <2>5
    <3>2. PICK j \in 1..Len(h) : j < i5 /\ <<h[j].to, h[i5].to>> \in Edges
      BY <2>1, <2>5, <3>1, StepBack
    <3>3. h[j].to = "PICKUP"
      BY <2>1, <2>5, <3>2, OneWayIn
    <3>4. QED
      BY <3>2, <3>3
  <2>7. PICK i3 \in 1..Len(h) : i3 < i4 /\ h[i3].to = "ACCEPTED"
    <3>1. h[i4].to # "CREATED"
      BY <2>1, <2>6
    <3>2. PICK j \in 1..Len(h) : j < i4 /\ <<h[j].to, h[i4].to>> \in Edges
      BY <2>1, <2>6, <3>1, StepBack
    <3>3. h[j].to = "ACCEPTED"
      BY <2>1, <2>6, <3>2, OneWayIn
    <3>4. QED
      BY <3>2, <3>3
  <2>8. PICK i2 \in 1..Len(h) : i2 < i3 /\ h[i2].to = "ASSIGNED"
    <3>1. h[i3].to # "CREATED"
      BY <2>1, <2>7
    <3>2. PICK j \in 1..Len(h) : j < i3 /\ <<h[j].to, h[i3].to>> \in Edges
      BY <2>1, <2>7, <3>1, StepBack
    <3>3. h[j].to = "ASSIGNED"
      BY <2>1, <2>7, <3>2, OneWayIn
    <3>4. QED
      BY <3>2, <3>3
  <2>9. PICK i1 \in 1..Len(h) : i1 < i2 /\ h[i1].to = "CREATED"
    <3>1. h[i2].to # "CREATED"
      BY <2>1, <2>8
    <3>2. PICK j \in 1..Len(h) : j < i2 /\ <<h[j].to, h[i2].to>> \in Edges
      BY <2>1, <2>8, <3>1, StepBack
    <3>3. h[j].to = "CREATED"
      BY <2>1, <2>8, <3>2, OneWayIn
    <3>4. QED
      BY <3>2, <3>3
  <2>10. <<i3, Len(h)>> \in DeliveryPairs(o) /\ i3 < Len(h)
    BY <2>1, <2>2, <2>3, <2>4, <2>5, <2>6, <2>7
  <2>11. <<i1, i2>> \in DispatchPairs(o) /\ i1 < i2
    BY <2>2, <2>8, <2>9
  <2>12. QED
    BY <2>10, <2>11
<1>2. Spec => []GroundedInv
  BY FirstGrounded, GroundedInductive, PTL DEF Spec
<1>3. QED
  BY <1>1, <1>2, PTL

=============================================================================
