---------------------- MODULE OrderTransactions_proofs ----------------------
(***************************************************************************)
(* What holds of OrderTransactions for any number of orders, couriers and  *)
(* concurrent requests, any history bound, and whatever fails: the typing  *)
(* of the state, the safety invariants that survive the races between      *)
(* requests for one order, what the audit trail still says of an order,    *)
(* and that no requests wait for each other.                               *)
(***************************************************************************)
EXTENDS OrderTransactions, TLAPS

\* The row lock of an order is held exactly by the request that has updated it.
LockOK ==
    \A o \in Orders, r \in Requests :
        orderLock[o] = r <=> pc[r] \in {"updated", "settled"} /\ work[r].order = o

\* What a handler remembers from its read and still relies on when it writes: the order exists,
\* the step it takes was legal when it was checked, and a courier that was there is still there.
WorkOK ==
    \A r \in Requests : pc[r] # "idle" =>
        /\ work[r].order \in Orders
        /\ order[work[r].order].status # NoStatus
        /\ <<work[r].from, work[r].to>> \in Edges
        /\ work[r].from # "CREATED" => order[work[r].order].courier # NoCourier
        /\ work[r].to = "ASSIGNED" => work[r].courier \in Couriers

\* The last broadcast is that of the request about to commit, or else tells the committed status.
FeedOK ==
    /\ \A r \in Requests : pc[r] = "settled" =>
          orderFeed[work[r].order] = work[r].to /\ ~retracted[work[r].order]
    /\ \A o \in Orders :
          /\ \A r \in Requests : ~(pc[r] = "settled" /\ work[r].order = o)
          /\ ~retracted[o]
          /\ order[o].status \notin {NoStatus, "CREATED"}
          => orderFeed[o] = order[o].status

IInv == TypeOK /\ LockOK /\ WorkOK /\ InProgressHasCourier /\ DeliveredIsRecorded
        /\ HistoryEndsAtStatus /\ FeedOK

----------------------------------------------------------------------------
\* What the transitions table and assign() allow, in the terms the invariants need.
LEMMA EdgeFacts ==
    ASSUME NEW s, NEW t, <<s, t>> \in Edges
    PROVE  /\ s \in Statuses /\ t \in Statuses
           /\ t # "CREATED"
           /\ s = "CREATED" => t \in {"ASSIGNED", "CANCELLED"}
           /\ t = "ASSIGNED" => s = "CREATED"
           /\ s \notin Terminal
<1>1. CASE s = "CREATED" /\ t = "ASSIGNED"
  BY <1>1 DEF Statuses, Terminal
<1>2. CASE s \in Statuses /\ t \in Statuses /\ \E rule \in Transitions[s] : rule.to = t
  BY <1>2 DEF Transitions, Rule, Statuses, Terminal
<1>3. QED
  BY <1>1, <1>2 DEF Edges

\* A rule of the table for a status is an edge from it.
LEMMA RuleIsEdge ==
    ASSUME NEW s \in Statuses, NEW t \in Statuses, NEW rule \in Transitions[s], rule.to = t
    PROVE  <<s, t>> \in Edges
BY DEF Edges

\* recordHistory adds one row at the end of a history.
LEMMA AppendRow ==
    ASSUME NEW h \in Seq(HistoryRows), NEW row \in HistoryRows
    PROVE  /\ Append(h, row) \in Seq(HistoryRows)
           /\ Append(h, row) # <<>>
           /\ Append(h, row)[Len(Append(h, row))] = row
OBVIOUS

\* A pairing writes couriers.status, and nothing else that requests for orders read or write.
LEMMA PairingStep ==
    ASSUME NEW p \in Pairings, Pair(p)
    PROVE  UNCHANGED <<order, history, delivery, locks, pc, work, feeds>>
BY DEF Pair, ReadForPairing, SaveCourier, EndPairing, rows

\* Types are kept by every step: the rows, locks and local variables stay what they are.
LEMMA TypePreserved == TypeOK /\ WorkOK /\ [Next]_vars => TypeOK'
<1> SUFFICES ASSUME TypeOK, WorkOK, [Next]_vars
             PROVE  TypeOK'
  OBVIOUS
<1> USE NullsAreNotIds, DeliveringIsNotChosen
<1>1. ASSUME NEW o \in Orders, Create(o)
      PROVE  TypeOK'
  <2>1. order' \in [Orders -> Rows]
    BY <1>1 DEF TypeOK, Create, Rows, Statuses
  <2>2. HistoryRow(NoStatus, "CREATED") \in HistoryRows
    BY DEF HistoryRow, HistoryRows, Statuses
  <2>3. history' \in [Orders -> Seq(HistoryRows)]
    BY <1>1, <2>2, AppendRow DEF TypeOK, Create
  <2>4. QED
    BY <1>1, <2>1, <2>3 DEF TypeOK, Create, locks, feeds, saves
<1>2. ASSUME NEW r \in Requests, NEW o \in Orders, NEW to \in Statuses,
             NEW c \in Couriers \cup {NoCourier}, Start(r, o, to, c)
      PROVE  TypeOK'
  BY <1>2 DEF TypeOK, Start, rows, locks, feeds, saves, Rows, Work
<1>3. ASSUME NEW r \in Requests, NEW o \in Orders, NEW c \in Couriers, StartAssign(r, o, c)
      PROVE  TypeOK'
  BY <1>2, <1>3 DEF StartAssign, Statuses
<1>4. ASSUME NEW r \in Requests, NEW o \in Orders, NEW to \in Statuses, NEW role \in Roles,
             NEW me \in Couriers, StartTransition(r, o, to, role, me)
      PROVE  TypeOK'
  <2>1. order[o].courier \in Couriers \cup {NoCourier}
    BY DEF TypeOK, Rows
  <2>2. QED
    BY <1>2, <1>4, <2>1 DEF StartTransition
<1>5. ASSUME NEW r \in Requests, UpdateOrder(r)
      PROVE  TypeOK'
  BY <1>5 DEF TypeOK, UpdateOrder, rows, feeds, saves
<1>6. ASSUME NEW r \in Requests, SettleCourier(r)
      PROVE  TypeOK'
  <2>1. work[r].to \in Statuses
    BY <1>6, EdgeFacts DEF SettleCourier, WorkOK
  <2>2. courierLock' \in [Couriers -> Requests \cup {NoRequest}]
    BY <1>6 DEF TypeOK, SettleCourier
  <2>3. QED
    BY <1>6, <2>1, <2>2 DEF TypeOK, SettleCourier, rows, saves
<1>7. ASSUME NEW r \in Requests, Release(r)
      PROVE  /\ orderLock' \in [Orders -> Requests \cup {NoRequest}]
             /\ courierLock' \in [Couriers -> Requests \cup {NoRequest}]
             /\ pc' \in [Requests -> {"idle", "checked", "updated", "settled"}]
             /\ work' \in [Requests -> Work]
  BY <1>7 DEF TypeOK, Release, Idle, Work
<1>8. ASSUME NEW r \in Requests, Commit(r)
      PROVE  TypeOK'
  <2> DEFINE o == work[r].order
  <2>1. o \in Orders /\ work[r].from \in Statuses /\ work[r].to \in Statuses
    BY <1>8, EdgeFacts DEF Commit, WorkOK
  <2>2. work[r].courier \in Couriers \cup {NoCourier}
    BY DEF TypeOK, Work
  <2>3. order' \in [Orders -> Rows]
    BY <1>8, <2>1, <2>2 DEF TypeOK, Commit, Rows
  <2>4. history' \in [Orders -> Seq(HistoryRows)]
    <3>1. HistoryRow(work[r].from, work[r].to) \in HistoryRows
      BY <2>1 DEF HistoryRow, HistoryRows
    <3>2. QED
      BY <1>8, <2>1, <3>1, AppendRow DEF TypeOK, Commit
  <2>5. delivery' \in [Orders -> Couriers \cup {NoCourier}]
    BY <1>8, <2>1 DEF TypeOK, Commit, Rows
  <2>6. courier' \in [Couriers -> CourierStatuses]
    BY <1>8 DEF TypeOK, Commit, CourierStatuses
  <2>7. QED
    BY <1>7, <1>8, <2>3, <2>4, <2>5, <2>6 DEF TypeOK, Commit, feeds
<1>9. ASSUME NEW r \in Requests, pc[r] # "idle", RollBack(r)
      PROVE  TypeOK'
  <2>1. retracted' \in [Orders -> BOOLEAN]
    BY <1>9 DEF TypeOK, RollBack
  <2>2. QED
    BY <1>7, <1>9, <2>1 DEF TypeOK, RollBack, rows, saves
<1>10. ASSUME NEW c \in Couriers, NEW s \in OwnChoices, ChooseStatus(c, s)
       PROVE  TypeOK'
  BY <1>10 DEF TypeOK, ChooseStatus, locks
<1>11. ASSUME NEW p \in Pairings, Pair(p)
       PROVE  TypeOK'
  <2>1. ASSUME NEW c \in Couriers, ReadForPairing(p, c)
        PROVE  TypeOK'
    BY <2>1 DEF TypeOK, ReadForPairing, rows, locks, feeds
  <2>2. NoPairing \in [courier : Couriers \cup {NoCourier}, status : CourierStatuses]
    BY DEF NoPairing, CourierStatuses
  <2>3. CASE SaveCourier(p)
    <3>1. pairing[p].courier \in Couriers /\ pairing[p].status \in CourierStatuses
      BY <2>3 DEF TypeOK, SaveCourier
    <3>2. pairing' \in [Pairings -> [courier : Couriers \cup {NoCourier}, status : CourierStatuses]]
      BY <2>2, <2>3 DEF TypeOK, SaveCourier
    <3>3. QED
      BY <2>3, <3>1, <3>2 DEF TypeOK, SaveCourier, locks, feeds
  <2>4. CASE EndPairing(p)
    BY <2>2, <2>4 DEF TypeOK, EndPairing, rows, locks, feeds
  <2>5. QED
    BY <1>11, <2>1, <2>3, <2>4 DEF Pair
<1>12. CASE UNCHANGED vars
  BY <1>12 DEF TypeOK, vars
<1>13. QED
  BY <1>1, <1>3, <1>4, <1>5, <1>6, <1>8, <1>9, <1>10, <1>11, <1>12
     DEF Next, Handle, RejectDelivery, Fail

\* Row locks follow the requests that have updated the row.
LEMMA LockPreserved == TypeOK /\ LockOK /\ WorkOK /\ [Next]_vars => LockOK'
<1> SUFFICES ASSUME TypeOK, LockOK, WorkOK, [Next]_vars
             PROVE  LockOK'
  OBVIOUS
<1> USE NullsAreNotIds
<1>1. ASSUME NEW o \in Orders, Create(o)
      PROVE  LockOK'
  BY <1>1 DEF LockOK, Create, locks
<1>2. ASSUME NEW r \in Requests, NEW o \in Orders, NEW to, NEW c, Start(r, o, to, c)
      PROVE  LockOK'
  BY <1>2 DEF TypeOK, LockOK, Start, locks
<1>3. ASSUME NEW r \in Requests, UpdateOrder(r)
      PROVE  LockOK'
  BY <1>3 DEF TypeOK, LockOK, WorkOK, UpdateOrder
<1>4. ASSUME NEW r \in Requests, SettleCourier(r)
      PROVE  LockOK'
  BY <1>4 DEF TypeOK, LockOK, SettleCourier
<1>5. ASSUME NEW r \in Requests, Release(r)
      PROVE  LockOK'
  BY <1>5 DEF TypeOK, LockOK, Release, Idle
<1>6. ASSUME NEW c \in Couriers, NEW s \in OwnChoices, ChooseStatus(c, s)
      PROVE  LockOK'
  BY <1>6 DEF LockOK, ChooseStatus, locks
<1>7. ASSUME NEW p \in Pairings, Pair(p)
      PROVE  LockOK'
  BY <1>7, PairingStep DEF LockOK, locks
<1>8. CASE UNCHANGED vars
  BY <1>8 DEF LockOK, vars
<1>9. QED
  BY <1>1, <1>2, <1>3, <1>4, <1>5, <1>6, <1>7, <1>8
     DEF Next, Handle, StartAssign, StartTransition, Commit, RejectDelivery, Fail, RollBack

\* A handler's reads, however stale, keep supporting its writes: nothing un-creates an order, and
\* nothing takes the courier of an order away.
LEMMA WorkPreserved ==
    TypeOK /\ LockOK /\ WorkOK /\ InProgressHasCourier /\ [Next]_vars => WorkOK'
<1> SUFFICES ASSUME TypeOK, LockOK, WorkOK, InProgressHasCourier, [Next]_vars
             PROVE  WorkOK'
  OBVIOUS
<1> USE NullsAreNotIds
<1>0. \A o \in Orders : order[o].status \in Statuses \cup {NoStatus} /\ NoStatus \notin Statuses
  BY DEF TypeOK, Rows, NoStatus, Statuses
<1>1. ASSUME NEW o \in Orders, Create(o)
      PROVE  WorkOK'
  BY <1>1 DEF TypeOK, WorkOK, Create, NoStatus
<1>2. ASSUME NEW r \in Requests, NEW o \in Orders, NEW c \in Couriers, StartAssign(r, o, c)
      PROVE  WorkOK'
  <2>1. <<"CREATED", "ASSIGNED">> \in Edges
    BY DEF Edges
  <2>2. QED
    BY <1>2, <2>1 DEF TypeOK, WorkOK, StartAssign, Start, rows
<1>3. ASSUME NEW r \in Requests, NEW o \in Orders, NEW to \in Statuses, NEW role \in Roles,
             NEW me \in Couriers, StartTransition(r, o, to, role, me)
      PROVE  WorkOK'
  <2>1. order[o].status \in Statuses
    BY <1>0, <1>3 DEF StartTransition
  <2>2. PICK rule \in Transitions[order[o].status] : rule.to = to
    BY <1>3 DEF StartTransition
  <2>3. <<order[o].status, to>> \in Edges
    BY <2>1, <2>2, RuleIsEdge
  <2>4. to # "ASSIGNED"
    BY <2>1, <2>2 DEF Transitions, Rule, Statuses
  <2>5. order[o].status # "CREATED" => order[o].courier # NoCourier
    BY <2>3, EdgeFacts, <1>0 DEF InProgressHasCourier, Terminal, NoStatus, Statuses
  <2>6. QED
    BY <1>3, <2>3, <2>4, <2>5 DEF TypeOK, WorkOK, StartTransition, Start, rows
<1>4. ASSUME NEW r \in Requests, UpdateOrder(r)
      PROVE  WorkOK'
  BY <1>4 DEF TypeOK, WorkOK, UpdateOrder, rows
<1>5. ASSUME NEW r \in Requests, SettleCourier(r)
      PROVE  WorkOK'
  BY <1>5 DEF TypeOK, WorkOK, SettleCourier, rows
<1>6. ASSUME NEW r \in Requests, Commit(r)
      PROVE  WorkOK'
  <2> DEFINE o == work[r].order
  <2>1. /\ o \in Orders /\ work[r].to \in Statuses
        /\ work[r].to = "ASSIGNED" => work[r].courier \in Couriers
    BY <1>6, EdgeFacts DEF Commit, WorkOK
  <2>2. /\ order'[o].status = work[r].to
        /\ order'[o].courier = IF work[r].to = "ASSIGNED" THEN work[r].courier
                                ELSE order[o].courier
        /\ \A p \in Orders : p # o => order'[p] = order[p]
    BY <1>6, <2>1 DEF TypeOK, Commit
  <2>3. order'[o].status # NoStatus
    BY <1>0, <2>1, <2>2
  <2>4. \A q \in Requests : pc'[q] # "idle" => pc[q] # "idle" /\ work'[q] = work[q]
    BY <1>6 DEF TypeOK, Commit, Release
  <2>5. ASSUME NEW q \in Requests, pc'[q] # "idle"
        PROVE  /\ order'[work[q].order].status # NoStatus
               /\ work[q].from # "CREATED" => order'[work[q].order].courier # NoCourier
    <3>1. /\ pc[q] # "idle"
          /\ work[q].order \in Orders
          /\ order[work[q].order].status # NoStatus
          /\ work[q].from # "CREATED" => order[work[q].order].courier # NoCourier
      BY <2>4, <2>5 DEF WorkOK
    <3>2. work[r].from # "CREATED" => order[o].courier # NoCourier
      BY <1>6 DEF Commit, WorkOK
    <3>3. CASE work[q].order = o
      <4>1. work[q].from # "CREATED" => order[o].courier # NoCourier
        BY <3>1, <3>3
      <4>2. NoCourier \notin Couriers
        BY <1>0
      <4>3. QED
        BY <2>1, <2>2, <2>3, <3>3, <4>1, <4>2
    <3>4. CASE work[q].order # o
      BY <2>2, <3>1, <3>4
    <3>5. QED
      BY <3>3, <3>4
  <2>6. QED
    BY <2>4, <2>5 DEF WorkOK
<1>7. ASSUME NEW r \in Requests, RollBack(r)
      PROVE  WorkOK'
  BY <1>7 DEF TypeOK, WorkOK, RollBack, Release, Idle, rows
<1>8. ASSUME NEW c \in Couriers, NEW s \in OwnChoices, ChooseStatus(c, s)
      PROVE  WorkOK'
  BY <1>8 DEF WorkOK, ChooseStatus
<1>9. ASSUME NEW p \in Pairings, Pair(p)
      PROVE  WorkOK'
  BY <1>9, PairingStep DEF WorkOK
<1>10. CASE UNCHANGED vars
  BY <1>10 DEF WorkOK, vars
<1>11. QED
  BY <1>1, <1>2, <1>3, <1>4, <1>5, <1>6, <1>7, <1>8, <1>9, <1>10
     DEF Next, Handle, RejectDelivery, Fail

\* Two requests past their UPDATE are past it on different orders.
LEMMA OneWriter ==
    ASSUME LockOK, WorkOK, NEW q \in Requests, NEW r \in Requests,
           pc[q] \in {"updated", "settled"}, pc[r] \in {"updated", "settled"},
           work[q].order = work[r].order
    PROVE  q = r
<1>1. work[r].order \in Orders
  BY DEF WorkOK
<1>2. orderLock[work[r].order] = q /\ orderLock[work[r].order] = r
  BY <1>1 DEF LockOK
<1>3. QED
  BY <1>2

\* The four invariants about committed rows and broadcasts are kept together: a commit is the only
\* step that changes an existing row, and it is made by the request that holds the row's lock.
LEMMA SafetyPreserved ==
    IInv /\ [Next]_vars =>
        InProgressHasCourier' /\ DeliveredIsRecorded' /\ HistoryEndsAtStatus' /\ FeedOK'
<1> SUFFICES ASSUME IInv, [Next]_vars
             PROVE  InProgressHasCourier' /\ DeliveredIsRecorded' /\ HistoryEndsAtStatus' /\ FeedOK'
  OBVIOUS
<1> USE NullsAreNotIds
<1> DEFINE RowsSafe == InProgressHasCourier /\ DeliveredIsRecorded /\ HistoryEndsAtStatus
<1>0. TypeOK /\ LockOK /\ WorkOK /\ RowsSafe /\ FeedOK
  BY DEF IInv
<1>1. ASSUME UNCHANGED <<order, history, delivery>>
      PROVE  RowsSafe'
  BY <1>0, <1>1 DEF InProgressHasCourier, DeliveredIsRecorded, HistoryEndsAtStatus
<1>2. ASSUME NEW o \in Orders, Create(o)
      PROVE  RowsSafe' /\ FeedOK'
  <2>1. HistoryRow(NoStatus, "CREATED") \in HistoryRows /\ "CREATED" # NoStatus
    BY DEF HistoryRow, HistoryRows, Statuses, NoStatus
  <2>2. \A p \in Orders : p # o =>
           order'[p] = order[p] /\ history'[p] = history[p] /\ delivery'[p] = delivery[p]
    BY <1>0, <1>2 DEF TypeOK, Create
  <2>3. order'[o].status = "CREATED" /\ history'[o] = Append(history[o], HistoryRow(NoStatus, "CREATED"))
    BY <1>0, <1>2 DEF TypeOK, Create
  <2>4. history'[o] # <<>> /\ history'[o][Len(history'[o])].to = "CREATED"
    <3>1. history[o] \in Seq(HistoryRows)
      BY <1>0 DEF TypeOK
    <3>2. history'[o] # <<>> /\ history'[o][Len(history'[o])] = HistoryRow(NoStatus, "CREATED")
      BY <2>1, <2>3, <3>1, AppendRow
    <3>3. QED
      BY <3>2 DEF HistoryRow
  <2>5. RowsSafe'
    BY <1>0, <2>1, <2>2, <2>3, <2>4
       DEF InProgressHasCourier, DeliveredIsRecorded, HistoryEndsAtStatus
  <2>6. FeedOK'
    BY <1>0, <1>2, <2>2, <2>3 DEF FeedOK, Create, feeds
  <2>7. QED
    BY <2>5, <2>6
<1>3. ASSUME NEW r \in Requests, NEW o \in Orders, NEW to, NEW c, Start(r, o, to, c)
      PROVE  RowsSafe' /\ FeedOK'
  BY <1>0, <1>1, <1>3 DEF TypeOK, FeedOK, Start, rows, feeds
<1>4. ASSUME NEW r \in Requests, UpdateOrder(r)
      PROVE  RowsSafe' /\ FeedOK'
  BY <1>0, <1>1, <1>4 DEF TypeOK, FeedOK, UpdateOrder, rows, feeds
<1>5. ASSUME NEW r \in Requests, SettleCourier(r)
      PROVE  RowsSafe' /\ FeedOK'
  <2>1. \A q \in Requests : pc[q] = "settled" => work[q].order # work[r].order
    BY <1>0, <1>5, OneWriter DEF SettleCourier
  <2>2. QED
    BY <1>0, <1>1, <1>5, <2>1 DEF TypeOK, WorkOK, FeedOK, SettleCourier, rows
<1>6. ASSUME NEW r \in Requests, Commit(r)
      PROVE  RowsSafe' /\ FeedOK'
  <2> DEFINE o == work[r].order
             to == work[r].to
  <2>1. /\ o \in Orders /\ work[r].from \in Statuses /\ to \in Statuses /\ to # "CREATED"
        /\ work[r].from = "CREATED" => to \in {"ASSIGNED", "CANCELLED"}
        /\ to = "ASSIGNED" => work[r].courier \in Couriers
        /\ work[r].from # "CREATED" => order[o].courier # NoCourier
    BY <1>0, <1>6, EdgeFacts DEF Commit, WorkOK
  <2>2. \A p \in Orders : p # o =>
           order'[p] = order[p] /\ history'[p] = history[p] /\ delivery'[p] = delivery[p]
    BY <1>0, <1>6 DEF TypeOK, Commit
  <2>3. /\ order'[o].status = to
        /\ order'[o].courier = IF to = "ASSIGNED" THEN work[r].courier ELSE order[o].courier
        /\ history'[o] = Append(history[o], HistoryRow(work[r].from, to))
        /\ delivery'[o] = IF to = "DELIVERED" THEN order[o].courier ELSE delivery[o]
    BY <1>0, <1>6, <2>1 DEF TypeOK, Commit
  <2>4. history'[o] # <<>> /\ history'[o][Len(history'[o])].to = to /\ to # NoStatus
    <3>1. HistoryRow(work[r].from, to) \in HistoryRows
      BY <2>1 DEF HistoryRow, HistoryRows
    <3>2. history[o] \in Seq(HistoryRows)
      BY <1>0, <2>1 DEF TypeOK
    <3>3. history'[o] # <<>> /\ history'[o][Len(history'[o])] = HistoryRow(work[r].from, to)
      <4> DEFINE row == HistoryRow(work[r].from, to)
                 old == history[o]
                 new == history'[o]
      <4>1. row \in HistoryRows /\ old \in Seq(HistoryRows) /\ new = Append(old, row)
        BY <2>3, <3>1, <3>2
      <4> HIDE DEF row, old, new
      <4>2. new # <<>> /\ new[Len(new)] = row
        BY <4>1, AppendRow
      <4>3. QED
        BY <4>2 DEF row, new
    <3>4. HistoryRow(work[r].from, to).to = to
      BY DEF HistoryRow
    <3>5. to # NoStatus
      BY <2>1 DEF Statuses, NoStatus
    <3>6. QED
      BY <3>3, <3>4, <3>5
  <2>5. to = "DELIVERED" => order[o].courier # NoCourier
    BY <1>6 DEF Commit, CanRecordDelivery
  <2>6. InProgressHasCourier'
    BY <1>0, <2>1, <2>2, <2>3 DEF InProgressHasCourier
  <2>7. DeliveredIsRecorded'
    BY <1>0, <2>2, <2>3, <2>5 DEF DeliveredIsRecorded
  <2>8. HistoryEndsAtStatus'
    <3>1. ASSUME NEW p \in Orders, p # o
          PROVE  IF order'[p].status = NoStatus THEN history'[p] = <<>>
                 ELSE history'[p] # <<>> /\ history'[p][Len(history'[p])].to = order'[p].status
      <4>1. order'[p] = order[p] /\ history'[p] = history[p]
        BY <2>2, <3>1
      <4>2. IF order[p].status = NoStatus THEN history[p] = <<>>
            ELSE history[p] # <<>> /\ history[p][Len(history[p])].to = order[p].status
        BY <1>0, <3>1 DEF HistoryEndsAtStatus
      <4>3. QED
        BY <4>1, <4>2
    <3>2. /\ order'[o].status # NoStatus
          /\ history'[o] # <<>> /\ history'[o][Len(history'[o])].to = order'[o].status
      BY <2>3, <2>4
    <3>3. QED
      BY <3>1, <3>2 DEF HistoryEndsAtStatus
  <2>9. orderFeed[o] = to /\ ~retracted[o] /\ UNCHANGED feeds
    BY <1>0, <1>6 DEF FeedOK, Commit
  <2>10. \A q \in Requests : q # r => pc'[q] = pc[q] /\ work'[q] = work[q]
    BY <1>0, <1>6 DEF TypeOK, Commit, Release
  <2>11. pc'[r] = "idle"
    BY <1>0, <1>6 DEF TypeOK, Commit, Release
  <2>12. \A p \in Orders : p # o =>
            ((\A q \in Requests : ~(pc'[q] = "settled" /\ work'[q].order = p))
             => \A q \in Requests : ~(pc[q] = "settled" /\ work[q].order = p))
    BY <2>10
  <2>13. FeedOK'
    <3>1. UNCHANGED <<orderFeed, retracted>>
      BY <2>9 DEF feeds
    <3>2. ASSUME NEW p \in Orders, p # o
          PROVE  order'[p] = order[p]
      BY <2>2, <3>2
    <3>3. QED
      BY <1>0, <2>3, <2>9, <2>10, <2>11, <2>12, <3>1, <3>2 DEF FeedOK
  <2>14. QED
    BY <2>6, <2>7, <2>8, <2>13
<1>7. ASSUME NEW r \in Requests, pc[r] # "idle", RollBack(r)
      PROVE  RowsSafe' /\ FeedOK'
  <2>1. RowsSafe'
    BY <1>1, <1>7 DEF RollBack, rows
  <2>2. \A q \in Requests : q # r => pc'[q] = pc[q] /\ work'[q] = work[q]
    BY <1>0, <1>7 DEF TypeOK, RollBack, Release
  <2>3. pc'[r] = "idle" /\ UNCHANGED <<order, orderFeed>>
    BY <1>0, <1>7 DEF TypeOK, RollBack, Release, rows
  <2>4. CASE pc[r] = "settled"
    <3>1. \A q \in Requests : q # r /\ pc[q] = "settled" => work[q].order # work[r].order
      BY <1>0, <2>4, OneWriter
    <3>2. retracted'[work[r].order] /\ \A p \in Orders : p # work[r].order => retracted'[p] = retracted[p]
      BY <1>0, <1>7, <2>4 DEF TypeOK, WorkOK, RollBack
    <3>3. ASSUME NEW q \in Requests, pc'[q] = "settled"
          PROVE  orderFeed'[work'[q].order] = work'[q].to /\ ~retracted'[work'[q].order]
      <4>1. q # r /\ pc[q] = "settled" /\ work'[q] = work[q]
        BY <2>2, <2>3, <3>3
      <4>2. work[q].order \in Orders /\ work[q].order # work[r].order
        BY <1>0, <3>1, <4>1 DEF WorkOK
      <4>3. QED
        BY <1>0, <2>3, <3>2, <4>1, <4>2 DEF FeedOK
    <3>4. ASSUME NEW p \in Orders, ~retracted'[p], order'[p].status \notin {NoStatus, "CREATED"},
                 \A q \in Requests : ~(pc'[q] = "settled" /\ work'[q].order = p)
          PROVE  orderFeed'[p] = order'[p].status
      <4>1. p # work[r].order /\ ~retracted[p]
        BY <3>2, <3>4
      <4>2. \A q \in Requests : ~(pc[q] = "settled" /\ work[q].order = p)
        BY <2>2, <3>4, <4>1
      <4>3. QED
        BY <1>0, <2>3, <3>4, <4>1, <4>2 DEF FeedOK
    <3>5. QED
      BY <2>1, <3>3, <3>4 DEF FeedOK
  <2>5. CASE pc[r] # "settled"
    BY <1>0, <1>7, <2>1, <2>2, <2>3, <2>5 DEF FeedOK, RollBack
  <2>6. QED
    BY <2>4, <2>5
<1>8. ASSUME NEW c \in Couriers, NEW s \in OwnChoices, ChooseStatus(c, s)
      PROVE  RowsSafe' /\ FeedOK'
  BY <1>0, <1>1, <1>8 DEF FeedOK, ChooseStatus
<1>9. ASSUME NEW p \in Pairings, Pair(p)
      PROVE  RowsSafe' /\ FeedOK'
  BY <1>0, <1>1, <1>9, PairingStep DEF FeedOK, feeds
<1>10. CASE UNCHANGED vars
  BY <1>0, <1>1, <1>10 DEF FeedOK, vars
<1>11. QED
  BY <1>2, <1>3, <1>4, <1>5, <1>6, <1>7, <1>8, <1>9, <1>10
     DEF Next, Handle, StartAssign, StartTransition, RejectDelivery, Fail

----------------------------------------------------------------------------
\* The empty database satisfies the invariant.
LEMMA InitialState == Init => IInv
<1> SUFFICES ASSUME Init
             PROVE  IInv
  OBVIOUS
<1>1. TypeOK
  <2>1. <<>> \in Seq(HistoryRows) /\ Idle \in Work
    BY DEF Idle, Work
  <2>2. [status |-> NoStatus, courier |-> NoCourier] \in Rows /\ "OFFLINE" \in CourierStatuses
    BY DEF Rows, CourierStatuses
  <2>3. QED
    BY <2>1, <2>2 DEF Init, TypeOK, NoPairing
<1>2. LockOK /\ WorkOK /\ FeedOK
  BY NullsAreNotIds DEF Init, LockOK, WorkOK, FeedOK
<1>3. InProgressHasCourier /\ DeliveredIsRecorded /\ HistoryEndsAtStatus
  BY DEF Init, InProgressHasCourier, DeliveredIsRecorded, HistoryEndsAtStatus, NoStatus
<1>4. QED
  BY <1>1, <1>2, <1>3 DEF IInv

\* The inductive invariant of OrdersService under any interleaving of requests and failures.
THEOREM Inductive == Spec => []IInv
<1>1. IInv /\ [Next]_vars => IInv'
  BY TypePreserved, LockPreserved, WorkPreserved, SafetyPreserved DEF IInv
<1>2. QED
  BY <1>1, InitialState, PTL DEF Spec

\* The type of every row, lock and local variable, for any number of requests in flight.
THEOREM TypeCorrect == Spec => []TypeOK
BY Inductive, PTL DEF IInv

\* An order that has left CREATED otherwise than by cancellation always has a courier, and a
\* DELIVERED one always has its delivery row.
THEOREM OrdersBacked == Spec => []OrderIsBacked
BY Inductive, PTL DEF IInv, OrderIsBacked

\* The last committed history row of an order leads to its status.
THEOREM HistoryComplete == Spec => []HistoryEndsAtStatus
BY Inductive, PTL DEF IInv

\* An order nobody is changing was last broadcast with its committed status, unless the
\* transaction behind that broadcast was rolled back.
THEOREM FeedCurrent == Spec => []FeedIsCurrent
<1>1. IInv => FeedIsCurrent
  BY NullsAreNotIds DEF IInv, TypeOK, LockOK, WorkOK, FeedOK, FeedIsCurrent
<1>2. QED
  BY <1>1, Inductive, PTL

----------------------------------------------------------------------------
(* The audit trail *)

\* A status is one the history has led to.
Reached(h, s) == \E j \in 1..Len(h) : h[j].to = s

Grounded(h) ==
    \A i \in 1..Len(h) :
        IF i = 1 THEN h[i].from = NoStatus /\ h[i].to = "CREATED"
        ELSE /\ <<h[i].from, h[i].to>> \in Edges
             /\ \E j \in 1..(i - 1) : h[j].to = h[i].from

\* However stale, the status a handler has read is one the order has had.
ReadsOK == \A r \in Requests :
    pc[r] # "idle" => Reached(history[work[r].order], work[r].from)

GroundedInv == IInv /\ HistoryIsGrounded /\ ReadsOK

\* A row that continues a grounded history, or begins it, leaves it grounded.
LEMMA GroundedGrows ==
    ASSUME NEW h \in Seq(HistoryRows), NEW row \in HistoryRows, Grounded(h),
           h = <<>> => row.from = NoStatus /\ row.to = "CREATED",
           h # <<>> => <<row.from, row.to>> \in Edges /\ Reached(h, row.from)
    PROVE  Grounded(Append(h, row))
<1> DEFINE g == Append(h, row)
<1>1. /\ Len(g) = Len(h) + 1 /\ Len(h) \in Nat
      /\ g[Len(h) + 1] = row
      /\ \A i \in 1..Len(h) : g[i] = h[i]
  OBVIOUS
<1>2. h = <<>> <=> Len(h) = 0
  OBVIOUS
<1> HIDE DEF g
<1>3. ASSUME NEW i \in 1..Len(g)
      PROVE  IF i = 1 THEN g[i].from = NoStatus /\ g[i].to = "CREATED"
             ELSE /\ <<g[i].from, g[i].to>> \in Edges
                  /\ \E j \in 1..(i - 1) : g[j].to = g[i].from
  <2>1. CASE i \in 1..Len(h)
    <3>1. g[i] = h[i] /\ \A j \in 1..(i - 1) : g[j] = h[j]
      BY <1>1, <2>1
    <3>2. QED
      BY <2>1, <3>1 DEF Grounded
  <2>2. CASE i = Len(h) + 1 /\ h # <<>>
    <3>1. i # 1 /\ i - 1 = Len(h) /\ g[i] = row
      BY <1>1, <1>2, <2>2
    <3>2. PICK j \in 1..Len(h) : h[j].to = row.from
      BY <2>2 DEF Reached
    <3>3. g[j].to = g[i].from
      BY <1>1, <3>1, <3>2
    <3>4. QED
      BY <2>2, <3>1, <3>3
  <2>3. CASE i = Len(h) + 1 /\ h = <<>>
    BY <1>1, <1>2, <2>3
  <2>4. QED
    BY <1>1, <2>1, <2>2, <2>3
<1>4. QED
  BY <1>3 DEF Grounded, g

\* What a history has led to it has led to for ever.
LEMMA ReachedStays ==
    ASSUME NEW h \in Seq(HistoryRows), NEW row \in HistoryRows, NEW s, Reached(h, s)
    PROVE  Reached(Append(h, row), s)
<1>1. PICK j \in 1..Len(h) : h[j].to = s
  BY DEF Reached
<1>2. j \in 1..Len(Append(h, row)) /\ Append(h, row)[j] = h[j]
  OBVIOUS
<1>3. QED
  BY <1>1, <1>2 DEF Reached

\* Creation and commits add one row each to a history, and nothing else writes one.
LEMMA HistorySteps ==
    ASSUME IInv, [Next]_vars, NEW o \in Orders
    PROVE  \/ history'[o] = history[o]
           \/ /\ order[o].status = NoStatus
              /\ history'[o] = Append(history[o], HistoryRow(NoStatus, "CREATED"))
           \/ \E r \in Requests :
                 /\ pc[r] # "idle" /\ work[r].order = o
                 /\ history'[o] = Append(history[o], HistoryRow(work[r].from, work[r].to))
<1>0. TypeOK /\ WorkOK
  BY DEF IInv
<1>1. CASE UNCHANGED history
  BY <1>1
<1>2. ASSUME NEW p \in Orders, Create(p)
      PROVE  \/ history'[o] = history[o]
             \/ /\ order[o].status = NoStatus
                /\ history'[o] = Append(history[o], HistoryRow(NoStatus, "CREATED"))
  BY <1>0, <1>2 DEF Create, TypeOK
<1>3. ASSUME NEW r \in Requests, Commit(r)
      PROVE  \/ history'[o] = history[o]
             \/ /\ pc[r] # "idle" /\ work[r].order = o
                /\ history'[o] = Append(history[o], HistoryRow(work[r].from, work[r].to))
  BY <1>0, <1>3 DEF Commit, TypeOK, WorkOK
<1>4. ASSUME NEW r \in Requests, NEW p \in Orders, NEW to, NEW c, Start(r, p, to, c)
      PROVE  UNCHANGED history
  BY <1>4 DEF Start, rows
<1>5. ASSUME NEW r \in Requests, UpdateOrder(r) \/ SettleCourier(r)
      PROVE  UNCHANGED history
  BY <1>5 DEF UpdateOrder, SettleCourier, rows
<1>6. ASSUME NEW r \in Requests, RejectDelivery(r) \/ Fail(r)
      PROVE  UNCHANGED history
  BY <1>6 DEF RejectDelivery, Fail, RollBack, rows
<1>7. ASSUME NEW c \in Couriers, NEW s \in OwnChoices, ChooseStatus(c, s)
      PROVE  UNCHANGED history
  BY <1>7 DEF ChooseStatus
<1>8. ASSUME NEW r \in Requests, Handle(r)
      PROVE  UNCHANGED history \/ Commit(r)
  BY <1>4, <1>5, <1>6, <1>8 DEF Handle, StartAssign, StartTransition
<1>9. ASSUME NEW p \in Pairings, Pair(p)
      PROVE  UNCHANGED history
  BY <1>9, PairingStep
<1>10. CASE UNCHANGED vars
  BY <1>10 DEF vars
<1>11. QED
  BY <1>1, <1>2, <1>3, <1>7, <1>8, <1>9, <1>10 DEF Next

\* A handler has just read its order, or goes on with what it read, or is over.
LEMMA RequestSteps ==
    ASSUME TypeOK, [Next]_vars, NEW q \in Requests, pc'[q] # "idle"
    PROVE  \/ pc[q] # "idle" /\ work'[q] = work[q]
           \/ /\ UNCHANGED history
              /\ work'[q].order \in Orders
              /\ work'[q].from = order[work'[q].order].status
              /\ work'[q].from # NoStatus
<1>1. ASSUME NEW r \in Requests, NEW o \in Orders, NEW to, NEW c, Start(r, o, to, c)
      PROVE  \/ pc[q] # "idle" /\ work'[q] = work[q]
             \/ /\ UNCHANGED history
                /\ work'[q].order \in Orders
                /\ work'[q].from = order[work'[q].order].status
                /\ work'[q].from # NoStatus
  BY <1>1 DEF Start, TypeOK, rows
<1>2. ASSUME NEW r \in Requests, UpdateOrder(r) \/ SettleCourier(r)
      PROVE  pc[q] # "idle" /\ work'[q] = work[q]
  BY <1>2 DEF UpdateOrder, SettleCourier, TypeOK
<1>3. ASSUME NEW r \in Requests, Release(r)
      PROVE  pc[q] # "idle" /\ work'[q] = work[q]
  BY <1>3 DEF Release, TypeOK
<1>4. CASE UNCHANGED <<pc, work>>
  BY <1>4
<1>5. QED
  BY <1>1, <1>2, <1>3, <1>4, PairingStep DEF Next, Handle, Create, StartAssign, StartTransition, Commit,
     RejectDelivery, Fail, RollBack, ChooseStatus, vars

LEMMA GroundedInductive == GroundedInv /\ [Next]_vars => GroundedInv'
<1> SUFFICES ASSUME GroundedInv, [Next]_vars PROVE GroundedInv'
  OBVIOUS
<1>0. TypeOK /\ WorkOK /\ HistoryEndsAtStatus /\ IInv /\ HistoryIsGrounded /\ ReadsOK
  BY DEF GroundedInv, IInv
<1>1. IInv'
  BY <1>0, TypePreserved, LockPreserved, WorkPreserved, SafetyPreserved DEF IInv
<1>2. ASSUME NEW o \in Orders
      PROVE  Grounded(history'[o]) /\ \A s : Reached(history[o], s) => Reached(history'[o], s)
  <2>1. history[o] \in Seq(HistoryRows) /\ Grounded(history[o])
    BY <1>0 DEF TypeOK, HistoryIsGrounded, Grounded
  <2>2. CASE history'[o] = history[o]
    BY <2>1, <2>2
  <2>3. ASSUME order[o].status = NoStatus,
               history'[o] = Append(history[o], HistoryRow(NoStatus, "CREATED"))
        PROVE  Grounded(history'[o]) /\ \A s : Reached(history[o], s) => Reached(history'[o], s)
    <3>1. history[o] = <<>>
      BY <1>0, <2>3 DEF HistoryEndsAtStatus
    <3>2. HistoryRow(NoStatus, "CREATED") \in HistoryRows
      BY DEF HistoryRow, HistoryRows, Statuses
    <3>3. HistoryRow(NoStatus, "CREATED").from = NoStatus /\ HistoryRow(NoStatus, "CREATED").to = "CREATED"
      BY DEF HistoryRow
    <3>4. QED
      BY <2>1, <2>3, <3>1, <3>2, <3>3, GroundedGrows, ReachedStays
  <2>4. ASSUME NEW r \in Requests, pc[r] # "idle", work[r].order = o,
               history'[o] = Append(history[o], HistoryRow(work[r].from, work[r].to))
        PROVE  Grounded(history'[o]) /\ \A s : Reached(history[o], s) => Reached(history'[o], s)
    <3> DEFINE row == HistoryRow(work[r].from, work[r].to)
    <3>1. /\ <<work[r].from, work[r].to>> \in Edges
          /\ Reached(history[o], work[r].from)
          /\ order[o].status # NoStatus
      BY <1>0, <2>4 DEF WorkOK, ReadsOK
    <3>2. row \in HistoryRows /\ row.from = work[r].from /\ row.to = work[r].to
      BY <3>1, EdgeFacts DEF HistoryRow, HistoryRows
    <3>3. history[o] # <<>>
      BY <1>0, <3>1 DEF HistoryEndsAtStatus
    <3> HIDE DEF row
    <3>4. Grounded(Append(history[o], row))
      BY <2>1, <3>1, <3>2, <3>3, GroundedGrows
    <3>5. QED
      BY <2>1, <2>4, <3>2, <3>4, ReachedStays DEF row
  <2>5. QED
    BY <1>0, <2>2, <2>3, <2>4, HistorySteps
<1>3. HistoryIsGrounded'
  BY <1>2 DEF HistoryIsGrounded, Grounded
<1>4. ASSUME NEW q \in Requests, pc'[q] # "idle"
      PROVE  Reached(history'[work'[q].order], work'[q].from)
  <2>1. CASE pc[q] # "idle" /\ work'[q] = work[q]
    <3>1. work[q].order \in Orders /\ Reached(history[work[q].order], work[q].from)
      BY <1>0, <2>1 DEF WorkOK, ReadsOK
    <3>2. QED
      BY <1>2, <2>1, <3>1
  <2>2. ASSUME UNCHANGED history, NEW o \in Orders, order[o].status # NoStatus
        PROVE  Reached(history'[o], order[o].status)
    <3>1. /\ history[o] \in Seq(HistoryRows) /\ history[o] # <<>>
          /\ history[o][Len(history[o])].to = order[o].status
      BY <1>0, <2>2 DEF TypeOK, HistoryEndsAtStatus
    <3>2. Len(history[o]) \in 1..Len(history[o])
      BY <3>1
    <3>3. QED
      BY <2>2, <3>1, <3>2 DEF Reached
  <2>3. QED
    BY <1>0, <1>4, <2>1, <2>2, RequestSteps
<1>5. QED
  BY <1>1, <1>3, <1>4 DEF GroundedInv, ReadsOK

LEMMA FirstGrounded == Init => GroundedInv
<1>1. ASSUME Init PROVE HistoryIsGrounded /\ ReadsOK
  BY <1>1 DEF Init, HistoryIsGrounded, ReadsOK
<1>2. QED
  BY <1>1, InitialState DEF GroundedInv

\* However requests race, the audit trail of an order begins with its creation, goes on by steps of
\* the table from statuses it has had, and ends at its status.
THEOREM TrailSound == Spec => []TrailIsSound
<1>1. GroundedInv => TrailIsSound
  BY DEF GroundedInv, IInv, TrailIsSound
<1>2. QED
  BY <1>1, FirstGrounded, GroundedInductive, PTL DEF Spec

----------------------------------------------------------------------------
(* Waiting *)

\* Couriers' rows are locked by requests that have no row left to lock.
LastLockOK == \A c \in Couriers, r \in Requests : courierLock[c] = r => pc[r] = "settled"

LEMMA LastLockPreserved == TypeOK /\ LastLockOK /\ [Next]_vars => LastLockOK'
<1> SUFFICES ASSUME TypeOK, LastLockOK, [Next]_vars PROVE LastLockOK'
  OBVIOUS
<1>1. ASSUME NEW r \in Requests, NEW o \in Orders, NEW to, NEW c, Start(r, o, to, c)
      PROVE  LastLockOK'
  BY <1>1 DEF Start, LastLockOK, TypeOK, locks
<1>2. ASSUME NEW r \in Requests, UpdateOrder(r)
      PROVE  LastLockOK'
  BY <1>2 DEF UpdateOrder, LastLockOK, TypeOK
<1>3. ASSUME NEW r \in Requests, SettleCourier(r)
      PROVE  LastLockOK'
  <2>1. /\ pc' = [pc EXCEPT ![r] = "settled"]
        /\ \A c \in Couriers : courierLock'[c] \in {r, courierLock[c]}
    BY <1>3 DEF SettleCourier
  <2>2. QED
    BY <2>1 DEF LastLockOK, TypeOK
<1>4. ASSUME NEW r \in Requests, Release(r)
      PROVE  LastLockOK'
  <2>1. /\ pc' = [pc EXCEPT ![r] = "idle"]
        /\ \A c \in Couriers : courierLock'[c] = IF courierLock[c] = r THEN NoRequest ELSE courierLock[c]
    BY <1>4 DEF Release
  <2> SUFFICES ASSUME NEW c \in Couriers, NEW q \in Requests, courierLock'[c] = q
               PROVE  pc'[q] = "settled"
    BY DEF LastLockOK
  <2>2. q # NoRequest
    BY NullsAreNotIds
  <2>3. courierLock[c] = q /\ q # r
    BY <2>1, <2>2
  <2>4. pc[q] = "settled"
    BY <2>3 DEF LastLockOK
  <2>5. QED
    BY <2>1, <2>3, <2>4 DEF TypeOK
<1>5. CASE UNCHANGED <<courierLock, pc>>
  BY <1>5 DEF LastLockOK
<1>6. QED
  BY <1>1, <1>2, <1>3, <1>4, <1>5, PairingStep DEF Next, Handle, Create, StartAssign, StartTransition, Commit,
     RejectDelivery, Fail, RollBack, ChooseStatus, locks, vars

\* For any number of requests and rows: whoever waits does so for a request that is running, and
\* that one for one that waits for nobody, so no wait is circular.
THEOREM NoCircularWait == Spec => []WaitsAreShort
<1>1. Init => LastLockOK
  BY NullsAreNotIds DEF Init, LastLockOK
<1>2. ASSUME LockOK, WorkOK, LastLockOK
      PROVE  WaitsAreShort
  <2>1. ASSUME NEW q \in Requests, NEW r \in Requests, WaitsFor(q, r)
        PROVE  /\ pc[r] \in {"updated", "settled"}
               /\ pc[q] \in {"checked", "updated"}
               /\ pc[q] = "updated" => pc[r] = "settled"
    <3>1. CASE pc[q] = "checked" /\ orderLock[work[q].order] = r
      <4>1. work[q].order \in Orders
        BY <1>2, <3>1 DEF WorkOK
      <4>2. pc[r] \in {"updated", "settled"}
        BY <1>2, <3>1, <4>1 DEF LockOK
      <4>3. QED
        BY <3>1, <4>2
    <3>2. ASSUME NEW c \in Couriers, pc[q] = "updated", courierLock[c] = r
          PROVE  pc[r] = "settled"
      BY <1>2, <3>2 DEF LastLockOK
    <3>3. QED
      BY <2>1, <3>1, <3>2 DEF WaitsFor, Touches
  <2>2. QED
    BY <2>1 DEF WaitsAreShort
<1>3. IInv => LockOK /\ WorkOK /\ TypeOK
  BY DEF IInv
<1>4. QED
  BY <1>1, <1>2, <1>3, Inductive, LastLockPreserved, PTL DEF Spec

=============================================================================
