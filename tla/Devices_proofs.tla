--------------------------- MODULE Devices_proofs ---------------------------
(***************************************************************************)
(* What holds of Tenancy and Devices for any number of companies,          *)
(* connections, requests, devices and couriers.                            *)
(***************************************************************************)
EXTENDS Devices, TLAPS

\* A connection serves the one request that holds it, with its actor's settings as soon as the
\* transaction has begun, and a free one has none.
HoldsOK ==
    /\ \A q \in Requests : conn[q] # NoConn <=> at[q] \in {"starting", "open", "reading"}
    /\ \A p, q \in Requests : conn[p] # NoConn /\ conn[p] = conn[q] => p = q

SettingOK ==
    /\ \A q \in Requests : actor[q] \in Actors \cup {Unset}
    /\ \A q \in Requests : conn[q] # NoConn =>
          setting[conn[q]] = IF at[q] = "starting" THEN Unset ELSE actor[q]
    /\ \A c \in Free : setting[c] = Unset

\* A device that is registered stays so, in its company; it is paired within the company.
InCompany(row) == row.courier # NoCourier => Employer[row.courier] = row.company
Within(d, c)   == d # NoDevice => d \in Registered /\ Employer[c] = device[d].company
DevicesOK ==
    /\ \A d \in Registered : device[d].company \in Companies /\ InCompany(device[d])
    /\ \A c \in Couriers : Within(current[c], c)

\* What a handler has read, and not yet committed.
Registers(q) ==
    /\ step[q] \in {"inserting", "ready"}
    /\ work[q].device \in Devices
    /\ work[q].courier = NoCourier /\ work[q].entity = NoRow /\ work[q].points = Kept
    /\ actor[q].company \in Companies
    /\ IF step[q] = "inserting" THEN work[q].row = NoRow
       ELSE work[q].device \notin Registered /\ work[q].row = New(actor[q].company)

Edits(q) ==
    LET w == work[q] IN
    /\ w.device \in Registered
    /\ w.entity.company = device[w.device].company /\ InCompany(w.entity)
    /\ w.row # NoRow => w.row.company = device[w.device].company /\ InCompany(w.row)

Saves(q) ==
    LET w == work[q] IN
    /\ w.courier \in Couriers
    /\ Within(w.pointer, w.courier)
    /\ w.points # Kept => step[q] = "ready" /\ Within(w.points, w.courier)

Pairs(q) ==
    LET w == work[q] IN
    /\ step[q] \in {"found", "loaded", "saved", "courierLoaded", "ready"}
    /\ w.entity.status = "PAIRED"
    /\ w.pointer = w.device
    /\ Saves(q) /\ Edits(q)

Chooses(q) ==
    LET w == work[q] IN
    /\ step[q] \in {"chosen", "courierLoaded", "ready"}
    /\ w.device = NoDevice /\ w.entity = NoRow /\ w.row = NoRow
    /\ Saves(q)

Revokes(q) ==
    LET w == work[q] IN
    /\ step[q] \in {"revoking", "cleared", "loaded", "saved"}
    /\ w.entity.status = "REVOKED"
    /\ w.points \in {Kept, NoDevice}
    /\ w.points = NoDevice => w.courier \in Couriers
    /\ Edits(q)

Busy(q) ==
    /\ at[q] = "open"
    /\ Registers(q) \/ Pairs(q) \/ Revokes(q) \/ Chooses(q)

WorkOK == \A q \in Requests : IF step[q] = "start" THEN work[q] = Idle ELSE Busy(q)

\* Two transactions never have changed one device.
RowLockOK == \A p, q \in Requests, d \in Devices : Holds(p, d) /\ Holds(q, d) => p = q

\* What two requests work on has been raced for.
RacedOK == \A p, q \in Requests : p # q =>
    /\ work[p].device \in Devices /\ work[p].device = work[q].device => work[p].device \in raced
    /\ work[p].courier \in Couriers /\ work[p].courier = work[q].courier => work[p].courier \in raced

\* Nobody else writes a device that has not been raced for: the entity is what becomes of the row.
EntityOf(q) ==
    LET w == work[q]
        d == w.device
    IN step[q] # "start" /\ w.entity # NoRow /\ d \in Devices \ raced =>
        /\ w.entity = IF w.entity.status = "PAIRED" THEN Paired(device[d], w.courier)
                                                    ELSE Revoked(device[d])
        /\ step[q] \in {"found", "revoking", "cleared", "loaded"} => w.row = NoRow
        /\ step[q] \in {"found", "loaded"} /\ w.entity.status = "PAIRED" => "token" \in w.columns
        /\ step[q] = "loaded" =>
              \A f \in DOMAIN NoRow : w.entity[f] # device[d][f] => f \in w.columns
        /\ step[q] \in {"saved", "courierLoaded", "ready"} =>
              \/ w.row = w.entity
              \/ w.entity.status = "REVOKED" /\ w.row = NoRow /\ device[d] = w.entity

EntityOK == \A q \in Requests : EntityOf(q)

\* Nor a courier's pointer.
PointerOf(q) ==
    LET w == work[q] IN
    step[q] # "start" /\ w.courier \in Couriers \ raced =>
        /\ w.entity.status = "REVOKED" /\ w.points = NoDevice => current[w.courier] = w.device
        /\ w.entity = NoRow => current[w.courier] = w.pointer
        /\ step[q] = "courierLoaded" /\ "currentDeviceId" \notin w.columns =>
              current[w.courier] = w.pointer
        /\ step[q] = "ready" =>
              w.points = w.pointer \/ (w.points = Kept /\ current[w.courier] = w.pointer)

PointerOK == \A q \in Requests : PointerOf(q)

BondOK == \A b \in bond : b[1] \notin raced /\ b[2] \notin raced

IInv ==
    /\ TypeOK /\ HoldsOK /\ SettingOK
    /\ DevicesOK /\ WorkOK /\ RowLockOK /\ RacedOK
    /\ EntityOK /\ TokenWhilePaired
    /\ PointerOK /\ BondOK /\ PairingIsMutual

----------------------------------------------------------------------------
(* The pool of connections *)

PoolStep(q) ==
    \/ AskPublic(q)
    \/ \E a \in Actors : Arrive(q, a)
    \/ AskProfile(q)
    \/ \E c \in Conns :
          Connect(q, c) \/ ConnectFails(q, c) \/ ServePublic(q, c) \/ ServeProfile(q, c)
    \/ Begin(q) \/ StartFails(q)
    \/ at[q] = "open" /\ Release(q) /\ UNCHANGED queue

\* Whatever a handler does besides leaves the pool as it is.
LEMMA PoolSteps == [Next]_vars => UNCHANGED tvars \/ \E q \in Requests : PoolStep(q)
<1> SUFFICES ASSUME [Next]_vars PROVE UNCHANGED tvars \/ \E q \in Requests : PoolStep(q)
  OBVIOUS
<1>1. CASE UNCHANGED vars
  BY <1>1 DEF vars
<1>2. ASSUME NEW q \in Requests, Scope(q)
      PROVE  PoolStep(q)
  BY <1>2 DEF Scope, Ask, Serve, PoolStep
<1>3. ASSUME NEW q \in Requests, Start(q)
      PROVE  UNCHANGED tvars
  BY <1>3 DEF Start, FindNone, FindPair, FindRevoke, FindOwn, Find, pool, tvars
<1>4. ASSUME NEW q \in Requests, Handler(q) \/ Rollback(q)
      PROVE  UNCHANGED tvars \/ PoolStep(q)
  <2>1. CASE Commit(q) \/ Rollback(q)
    BY <2>1 DEF Commit, Rollback, Finish, PoolStep
  <2>2. CASE Abort(q) \/ Refuse(q)
    BY <2>2 DEF Abort, Refuse, Rollback, Finish, PoolStep
  <2>3. QED
    BY <1>4, <2>1, <2>2
       DEF Handler, Insert, LoadDevice, UpdateDevice, LoadCourier, UpdateCourier, ClearCourier, Quiet
<1>5. QED
  BY <1>1, <1>2, <1>3, <1>4 DEF Next

LEMMA PoolTyped == TenancyTypeOK /\ HoldsOK /\ [Next]_vars => TenancyTypeOK'
<1> SUFFICES ASSUME TenancyTypeOK, HoldsOK, NEW q \in Requests, PoolStep(q)
             PROVE  TenancyTypeOK'
  BY PoolSteps DEF TenancyTypeOK, tvars
<1> USE DEF TenancyTypeOK
<1>0. /\ Unset \in Settings /\ Actors \subseteq Settings
      /\ Append(queue, q) \in Seq(Requests)
      /\ queue # <<>> => Tail(queue) \in Seq(Requests)
  <2>1. Unset \in Settings /\ Actors \subseteq Settings
    <3>1. Unset \in Settings /\ SuperAdmin \in Settings
      BY DEF Unset, SuperAdmin, Settings
    <3>2. \A k \in Companies : Member(k) \in Settings
      BY DEF Member, Settings
    <3>3. QED
      BY <3>1, <3>2 DEF Actors
  <2>2. queue \in Seq(Requests)
    OBVIOUS
  <2>3. Append(queue, q) \in Seq(Requests) /\ (queue # <<>> => Tail(queue) \in Seq(Requests))
    BY <2>2
  <2>4. QED
    BY <2>1, <2>3
<1>1. CASE AskPublic(q)
  BY <1>0, <1>1 DEF AskPublic, Wait
<1>2. ASSUME NEW a \in Actors, Arrive(q, a)
      PROVE  TenancyTypeOK'
  BY <1>0, <1>2 DEF Arrive, Wait
<1>3. CASE AskProfile(q)
  BY <1>0, <1>3 DEF AskProfile, Wait
<1>4. ASSUME NEW c \in Conns, Connect(q, c)
      PROVE  TenancyTypeOK'
  BY <1>0, <1>4 DEF Connect, Served
<1>5. ASSUME NEW c \in Conns, ServePublic(q, c)
      PROVE  TenancyTypeOK'
  BY <1>0, <1>5 DEF ServePublic, Served
<1>6. ASSUME Release(q)
      PROVE  /\ setting' \in [Conns -> Settings]
             /\ conn' \in [Requests -> Conns \cup {NoConn}]
             /\ leaked' \subseteq Conns
             /\ at' \in [Requests -> {"idle", "waiting", "public", "starting", "open", "reading"}]
             /\ actor' \in [Requests -> Settings]
  BY <1>0, <1>6 DEF Release
<1>7. ASSUME NEW c \in Conns, ServeProfile(q, c)
      PROVE  TenancyTypeOK'
  BY <1>0, <1>6, <1>7 DEF ServeProfile, Served
<1>8. CASE Release(q) /\ UNCHANGED queue
  BY <1>6, <1>8
<1>9. ASSUME NEW c \in Conns, ConnectFails(q, c)
      PROVE  TenancyTypeOK'
  BY <1>0, <1>9 DEF ConnectFails, Served
<1>10. CASE Begin(q)
  BY <1>10 DEF Begin
<1>11. CASE StartFails(q)
  <2>1. conn[q] \in Conns
    BY <1>11 DEF StartFails, HoldsOK
  <2>2. QED
    BY <1>0, <1>11, <2>1 DEF StartFails
<1>12. QED
  BY <1>1, <1>2, <1>3, <1>4, <1>5, <1>7, <1>8, <1>9, <1>10, <1>11 DEF PoolStep

LEMMA HoldsPreserved == TenancyTypeOK /\ HoldsOK /\ [Next]_vars => HoldsOK'
<1> SUFFICES ASSUME TenancyTypeOK, HoldsOK, NEW q \in Requests, PoolStep(q)
             PROVE  HoldsOK'
  BY PoolSteps DEF HoldsOK, tvars
<1> USE DEF TenancyTypeOK, HoldsOK
<1>1. CASE AskPublic(q)
  BY <1>1 DEF AskPublic, Wait
<1>2. ASSUME NEW a \in Actors, Arrive(q, a)
      PROVE  HoldsOK'
  BY <1>2 DEF Arrive, Wait
<1>3. CASE AskProfile(q)
  BY <1>3 DEF AskProfile, Wait
<1>4. ASSUME NEW c \in Conns, Connect(q, c)
      PROVE  HoldsOK'
  <2>1. /\ conn' = [conn EXCEPT ![q] = c]
        /\ at' = [at EXCEPT ![q] = "starting"]
        /\ at[q] = "waiting"
        /\ c # NoConn
        /\ \A p \in Requests : conn[p] # c
    BY <1>4, NullsAreNotIds DEF Connect, Served, Free
  <2>2. QED
    BY <2>1
<1>5. ASSUME NEW c \in Conns, ServePublic(q, c)
      PROVE  HoldsOK'
  BY <1>5 DEF ServePublic, Served
<1>6. ASSUME Release(q)
      PROVE  HoldsOK'
  BY <1>6 DEF Release
<1>7. CASE Begin(q) \/ StartFails(q) \/ \E c \in Conns : ConnectFails(q, c)
  BY <1>7 DEF Begin, StartFails, ConnectFails, Served
<1>8. QED
  BY <1>1, <1>2, <1>3, <1>4, <1>5, <1>6, <1>7 DEF PoolStep, ServeProfile

\* A connection that is given back is as good as new.
LEMMA SettingPreserved == TenancyTypeOK /\ HoldsOK /\ SettingOK /\ [Next]_vars => SettingOK'
<1> SUFFICES ASSUME TenancyTypeOK, HoldsOK, SettingOK, NEW q \in Requests, PoolStep(q)
             PROVE  SettingOK'
  <2>1. UNCHANGED tvars => (SettingOK' <=> SettingOK)
    BY DEF SettingOK, tvars, Free
  <2>2. QED
    BY <2>1, PoolSteps
<1> USE DEF TenancyTypeOK
<1>1. ASSUME UNCHANGED <<setting, conn, leaked, actor>>,
             \A p \in Requests : conn[p] # NoConn => (at'[p] = "starting" <=> at[p] = "starting")
      PROVE  SettingOK'
  BY <1>1 DEF SettingOK, Free
<1>2. ASSUME NEW a \in Actors \cup {Unset}, UNCHANGED <<setting, conn, leaked>>, conn[q] = NoConn,
             actor' = [actor EXCEPT ![q] = a], \A p \in Requests \ {q} : at'[p] = at[p]
      PROVE  SettingOK'
  BY <1>2 DEF SettingOK, Free
<1>3. ASSUME NEW c \in Conns, Connect(q, c)
      PROVE  SettingOK'
  <2>1. /\ conn' = [conn EXCEPT ![q] = c]
        /\ UNCHANGED <<setting, leaked, actor>>
        /\ at'[q] = "starting" /\ \A p \in Requests \ {q} : at'[p] = at[p]
        /\ c \in Free /\ setting[c] = Unset
        /\ conn[q] = NoConn
    BY <1>3 DEF Connect, Served, SettingOK, HoldsOK
  <2>2. Free' \subseteq Free
    BY <2>1, NullsAreNotIds DEF Free
  <2>3. QED
    BY <2>1, <2>2 DEF SettingOK
<1>4. ASSUME NEW c \in Conns, conn[q] = c, NEW v, setting' = [setting EXCEPT ![c] = v],
             \A p \in Requests \ {q} : conn'[p] = conn[p] /\ actor'[p] = actor[p] /\ at'[p] = at[p],
             actor'[q] \in Actors \cup {Unset}, leaked \subseteq leaked',
             \/ conn'[q] = NoConn /\ v = Unset
             \/ conn'[q] = c /\ v = actor'[q] /\ at'[q] = "open"
      PROVE  SettingOK'
  <2>1. \A p \in Requests \ {q} : conn[p] # c
    BY <1>4, NullsAreNotIds DEF HoldsOK
  <2>2. \A p \in Requests : conn'[p] # NoConn =>
           setting'[conn'[p]] = IF at'[p] = "starting" THEN Unset ELSE actor'[p]
    BY <1>4, <2>1 DEF SettingOK
  <2>3. Free' \subseteq Free \cup {c}
    BY <1>4 DEF Free
  <2>4. c \in Free' => v = Unset
    BY <1>4 DEF Free
  <2>5. \A x \in Free' : setting'[x] = Unset
    BY <1>4, <2>3, <2>4 DEF SettingOK, Free
  <2>6. \A p \in Requests : actor'[p] \in Actors \cup {Unset}
    BY <1>4 DEF SettingOK
  <2>7. QED
    BY <2>2, <2>5, <2>6 DEF SettingOK
<1>5. ASSUME Release(q), at[q] \in {"open", "reading"}
      PROVE  SettingOK'
  <2>1. conn[q] \in Conns
    BY <1>5 DEF HoldsOK
  <2>2. QED
    BY <1>4, <1>5, <2>1 DEF Release
<1>6. CASE Begin(q)
  <2>1. conn[q] \in Conns /\ actor[q] \in Actors \cup {Unset}
    BY <1>6 DEF Begin, HoldsOK, SettingOK
  <2>2. QED
    BY <1>4, <1>6, <2>1 DEF Begin
<1>7. CASE StartFails(q)
  <2>1. conn[q] \in Conns /\ setting[conn[q]] = Unset
    BY <1>7 DEF StartFails, HoldsOK, SettingOK
  <2>2. /\ conn'[q] = NoConn /\ actor'[q] = Unset /\ leaked \subseteq leaked'
        /\ \A p \in Requests \ {q} : conn'[p] = conn[p] /\ actor'[p] = actor[p] /\ at'[p] = at[p]
        /\ setting' = [setting EXCEPT ![conn[q]] = Unset]
    BY <1>7, <2>1 DEF StartFails
  <2>3. QED
    BY <1>4, <2>1, <2>2
<1>8. CASE AskPublic(q) \/ AskProfile(q) \/ \E c \in Conns : ServePublic(q, c)
  BY <1>1, <1>8 DEF AskPublic, AskProfile, Wait, ServePublic, Served
<1>9. CASE (\E a \in Actors : Arrive(q, a)) \/ \E c \in Conns : ConnectFails(q, c)
  BY <1>2, <1>9 DEF Arrive, ConnectFails, Served, Wait, HoldsOK
<1>10. QED
  BY <1>3, <1>5, <1>6, <1>7, <1>8, <1>9 DEF PoolStep, ServeProfile, Served

----------------------------------------------------------------------------
(* The handlers *)

Unmoved(p) == step'[p] = step[p] /\ work'[p] = work[p] /\ at'[p] = at[p] /\ actor'[p] = actor[p]

\* A handler goes on alone.
LEMMA ContinueMoves ==
    ASSUME TypeOK, NEW q \in Requests, NEW from, NEW to, NEW w, Continue(q, from, to, w)
    PROVE  /\ at[q] = "open" /\ step[q] = from /\ step'[q] = to /\ work'[q] = w
           /\ \A p \in Requests \ {q} : step'[p] = step[p] /\ work'[p] = work[p]
           /\ to \in Steps => step' \in [Requests -> Steps]
           /\ w \in Work => work' \in [Requests -> Work]
  BY DEF TypeOK, Continue

LEMMA FindMoves ==
    ASSUME TypeOK, NEW q \in Requests, NEW to \in Steps, NEW w \in Work, Find(q, to, w)
    PROVE  /\ at[q] = "open" /\ step[q] = "start" /\ step'[q] = to /\ work'[q] = w
           /\ \A p \in Requests \ {q} : Unmoved(p)
           /\ step' \in [Requests -> Steps] /\ work' \in [Requests -> Work]
           /\ UNCHANGED <<tvars, rows>>
           /\ raced \subseteq raced' /\ raced' \subseteq Devices \cup Couriers
           /\ \A p \in Requests \ {q} :
                 /\ w.device \in Devices /\ w.device = work[p].device => w.device \in raced'
                 /\ w.courier \in Couriers /\ w.courier = work[p].courier => w.courier \in raced'
           /\ bond' = {b \in bond : b[1] \notin raced' /\ b[2] \notin raced'}
<1> DEFINE R(v) == {v.device, v.courier} \ {NoDevice, NoCourier}
           rivals == {p \in Requests \ {q} : R(w) \cap R(work[p]) # {}}
<1>1. Continue(q, "start", to, w) /\ UNCHANGED <<pool, at, actor, rows>>
  BY DEF Find
<1>2. UNCHANGED <<tvars, rows>>
  BY <1>1 DEF tvars, pool
<1>3. raced' = raced \cup UNION {R(w) \cup R(work[p]) : p \in rivals}
  BY DEF Find
<1>4. \A v \in Work : R(v) \subseteq Devices \cup Couriers
  BY DEF Work
<1>5. raced' \subseteq Devices \cup Couriers
  BY <1>3, <1>4 DEF TypeOK
<1>6. ASSUME NEW p \in Requests \ {q}, NEW x \in Devices \cup Couriers, x \in {w.device, w.courier},
             x \in {work[p].device, work[p].courier}
      PROVE  x \in raced'
  <2>1. x \in R(w) /\ x \in R(work[p])
    BY <1>6, NoDeviceNoCourier
  <2>2. p \in rivals
    BY <2>1
  <2>3. QED
    BY <1>3, <2>1, <2>2
<1>7. bond' = {b \in bond : b[1] \notin raced' /\ b[2] \notin raced'}
  BY DEF Find
<1>8. raced \subseteq raced'
  BY <1>3
<1>9. \A p \in Requests \ {q} : Unmoved(p)
  BY <1>1, <1>2, ContinueMoves DEF Unmoved, tvars
<1>10. QED
  BY <1>1, <1>2, <1>5, <1>6, <1>7, <1>8, <1>9, ContinueMoves

\* The rows that handlers make.
LEMMA RowsTyped ==
    /\ NoRow \in DeviceRows
    /\ DOMAIN NoRow = {"company", "status", "token", "courier"}
    /\ Idle \in Work
    /\ \A k \in Companies \cup {NoCompany} : New(k) \in DeviceRows
    /\ \A row \in DeviceRows : Revoked(row) \in DeviceRows
    /\ \A row \in DeviceRows : \A c \in Couriers : Paired(row, c) \in DeviceRows
<1>1. NoRow \in DeviceRows
  BY DEF NoRow, DeviceRows
<1>2. DOMAIN NoRow = {"company", "status", "token", "courier"}
  BY DEF NoRow
<1>3. Idle \in Work
  BY <1>1 DEF Idle, Work
<1>4. \A k \in Companies \cup {NoCompany} : New(k) \in DeviceRows
  BY DEF New, DeviceRows
<1>5. \A row \in DeviceRows : Revoked(row) \in DeviceRows
  BY DEF Revoked, DeviceRows
<1>6. \A row \in DeviceRows : \A c \in Couriers : Paired(row, c) \in DeviceRows
  BY DEF Paired, DeviceRows
<1>7. QED
  BY <1>1, <1>2, <1>3, <1>4, <1>5, <1>6

\* What an UPDATE of the columns that differ leaves in the row.
Merged(new, old, columns) ==
    [f \in DOMAIN NoRow |-> IF f \in columns THEN new[f] ELSE old[f]]

LEMMA MergedRow ==
    ASSUME NEW new \in DeviceRows, NEW old \in DeviceRows, NEW columns
    PROVE  LET row == Merged(new, old, columns) IN
           /\ row \in DeviceRows
           /\ row.company \in {new.company, old.company}
           /\ row.courier \in {new.courier, old.courier}
           /\ (\A f \in DOMAIN NoRow : new[f] # old[f] => f \in columns) => row = new
<1> DEFINE row == Merged(new, old, columns)
<1>1. row = [f \in {"company", "status", "token", "courier"} |->
                IF f \in columns THEN new[f] ELSE old[f]]
  BY RowsTyped DEF Merged
<1>2. /\ row.company = IF "company" \in columns THEN new.company ELSE old.company
      /\ row.courier = IF "courier" \in columns THEN new.courier ELSE old.courier
      /\ row.token = IF "token" \in columns THEN new.token ELSE old.token
      /\ row.status = IF "status" \in columns THEN new.status ELSE old.status
  BY <1>1
<1>3. row \in DeviceRows
  BY <1>1, <1>2 DEF DeviceRows
<1>4. ASSUME \A f \in DOMAIN NoRow : new[f] # old[f] => f \in columns
      PROVE  row = new
  <2>1. /\ new.company # old.company => "company" \in columns
        /\ new.courier # old.courier => "courier" \in columns
        /\ new.token # old.token => "token" \in columns
        /\ new.status # old.status => "status" \in columns
    BY <1>4, RowsTyped
  <2>2. /\ row.company = new.company /\ row.courier = new.courier
        /\ row.token = new.token /\ row.status = new.status
    BY <1>2, <2>1
  <2>3. QED
    BY <1>3, <2>2 DEF DeviceRows
<1>5. QED
  BY <1>2, <1>3, <1>4

\* One statement of a handler, and all that it changes.
QuietStep(q) ==
    \/ Insert(q) \/ LoadDevice(q) \/ UpdateDevice(q)
    \/ LoadCourier(q) \/ UpdateCourier(q) \/ ClearCourier(q)

Keep(q) ==
    /\ work'[q].device = work[q].device
    /\ work'[q].courier = work[q].courier
    /\ work'[q].entity = work[q].entity
    /\ work'[q].pointer = work[q].pointer

Inserted(q) ==
    /\ step[q] = "inserting" /\ step'[q] = "ready"
    /\ work[q].device \notin Registered /\ DeviceFree(q, work[q].device)
    /\ work'[q].row = New(actor[q].company)
    /\ work'[q].points = work[q].points

DeviceLoaded(q) ==
    /\ step[q] \in {"found", "cleared"} /\ step'[q] = "loaded" /\ work[q].entity # NoRow
    /\ work'[q].columns = work[q].columns \cup
          {f \in DOMAIN NoRow : work[q].entity[f] # device[work[q].device][f]}
    /\ work'[q].row = work[q].row /\ work'[q].points = work[q].points

DeviceUpdated(q) ==
    /\ step[q] = "loaded" /\ step'[q] = "saved"
    /\ \/ work[q].columns = {} /\ work'[q].row = work[q].row
       \/ /\ DeviceFree(q, work[q].device)
          /\ work'[q].row = Merged(work[q].entity, device[work[q].device], work[q].columns)
    /\ work'[q].points = work[q].points

CourierLoaded(q) ==
    /\ \/ step[q] = "saved" /\ work[q].entity.status = "PAIRED"
       \/ step[q] = "chosen"
    /\ step'[q] = "courierLoaded"
    /\ "currentDeviceId" \notin work'[q].columns => current[work[q].courier] = work[q].pointer
    /\ work'[q].row = work[q].row /\ work'[q].points = work[q].points

CourierUpdated(q) ==
    /\ step[q] = "courierLoaded" /\ step'[q] = "ready"
    /\ \/ work[q].columns = {} /\ work'[q].points = work[q].points
       \/ /\ "currentDeviceId" \in work[q].columns
          /\ work'[q].points = work[q].pointer
       \/ /\ "currentDeviceId" \notin work[q].columns
          /\ work'[q].points = current[work[q].courier]
    /\ work'[q].row = work[q].row

CourierCleared(q) ==
    /\ step[q] = "revoking" /\ step'[q] = "cleared"
    /\ \/ work'[q].points = work[q].points
       \/ /\ work[q].courier # NoCourier /\ current[work[q].courier] = work[q].device
          /\ work'[q].points = NoDevice
    /\ work'[q].row = work[q].row

LEMMA Statements ==
    ASSUME TypeOK, WorkOK, NEW q \in Requests, QuietStep(q)
    PROVE  /\ UNCHANGED <<tvars, rows, aux>>
           /\ \A p \in Requests \ {q} : Unmoved(p)
           /\ at[q] = "open" /\ Keep(q)
           /\ step' \in [Requests -> Steps] /\ work' \in [Requests -> Work]
           /\ \/ Inserted(q) \/ DeviceLoaded(q) \/ DeviceUpdated(q)
              \/ CourierLoaded(q) \/ CourierUpdated(q) \/ CourierCleared(q)
<1> DEFINE w == work[q]
           Good(v) == v \in Work /\ v.device = w.device /\ v.courier = w.courier
                                 /\ v.entity = w.entity /\ v.pointer = w.pointer
           Result == /\ UNCHANGED <<tvars, rows, aux>>
                     /\ \A p \in Requests \ {q} : Unmoved(p)
                     /\ at[q] = "open" /\ Keep(q)
                     /\ step' \in [Requests -> Steps] /\ work' \in [Requests -> Work]
<1>0. /\ w \in Work /\ actor[q].company \in Companies \cup {NoCompany}
      /\ Good(w)
  BY DEF TypeOK, TenancyTypeOK, Settings
<1>1. ASSUME NEW from, NEW to \in Steps, NEW v, Continue(q, from, to, v), Good(v), Quiet
      PROVE  Result /\ step[q] = from /\ step'[q] = to /\ work'[q] = v
  <2>1. UNCHANGED <<tvars, rows, aux>> /\ at' = at /\ actor' = actor
    BY <1>1 DEF Quiet, tvars
  <2>2. /\ at[q] = "open" /\ step[q] = from /\ step'[q] = to /\ work'[q] = v
        /\ \A p \in Requests \ {q} : step'[p] = step[p] /\ work'[p] = work[p]
        /\ step' \in [Requests -> Steps] /\ work' \in [Requests -> Work]
    BY <1>1, ContinueMoves
  <2>3. Keep(q)
    BY <1>1, <2>2 DEF Keep
  <2>4. QED
    BY <2>1, <2>2, <2>3 DEF Unmoved
<1>2. /\ step[q] = "loaded" => w.device \in Devices
      /\ step[q] = "courierLoaded" => w.courier \in Couriers
  BY DEF WorkOK, Busy, Registers, Pairs, Revokes, Chooses, Edits, Saves, Registered
<1>3. ASSUME Insert(q)
      PROVE  Result /\ Inserted(q)
  <2> DEFINE v == [w EXCEPT !.row = New(actor[q].company)]
  <2>1. Good(v) /\ v.row = New(actor[q].company) /\ v.points = w.points
    BY <1>0, RowsTyped DEF Work
  <2>2. /\ Continue(q, "inserting", "ready", v) /\ Quiet
        /\ w.device \notin Registered /\ DeviceFree(q, w.device)
    BY <1>3 DEF Insert
  <2> HIDE DEF v
  <2>3. Result /\ step[q] = "inserting" /\ step'[q] = "ready" /\ work'[q] = v
    BY <1>1, <2>1, <2>2 DEF Steps
  <2>4. QED
    BY <2>1, <2>2, <2>3 DEF Inserted
<1>4. ASSUME LoadDevice(q)
      PROVE  Result /\ DeviceLoaded(q)
  <2> DEFINE cols == w.columns \cup {f \in DOMAIN NoRow : w.entity[f] # device[w.device][f]}
             v == [w EXCEPT !.columns = cols]
  <2>1. cols \in SUBSET (DOMAIN NoRow \cup {"currentDeviceId"})
    BY <1>0 DEF Work
  <2>2. Good(v) /\ v.columns = cols /\ v.row = w.row /\ v.points = w.points
    BY <1>0, <2>1 DEF Work
  <2>3. PICK from \in {"found", "cleared"} : Continue(q, from, "loaded", v)
    BY <1>4 DEF LoadDevice
  <2>4. Quiet /\ w.entity # NoRow
    BY <1>4 DEF LoadDevice
  <2> HIDE DEF v
  <2>5. Result /\ step[q] = from /\ step'[q] = "loaded" /\ work'[q] = v
    BY <1>1, <2>2, <2>3, <2>4 DEF Steps
  <2>6. QED
    BY <2>2, <2>4, <2>5 DEF DeviceLoaded
<1>5. ASSUME UpdateDevice(q)
      PROVE  Result /\ DeviceUpdated(q)
  <2>1. CASE w.columns = {} /\ Continue(q, "loaded", "saved", w)
    <3>1. Result /\ step[q] = "loaded" /\ step'[q] = "saved" /\ work'[q] = w
      BY <1>0, <1>1, <1>5, <2>1 DEF UpdateDevice, Steps
    <3>2. QED
      BY <2>1, <3>1 DEF DeviceUpdated
  <2>2. CASE w.columns # {}
    <3> DEFINE row == Merged(w.entity, device[w.device], w.columns)
               v == [w EXCEPT !.row = row, !.columns = {}]
    <3>1. /\ Continue(q, "loaded", "saved", v) /\ Quiet
          /\ DeviceFree(q, w.device)
      BY <1>5, <2>2 DEF UpdateDevice, Merged
    <3>2. w.device \in Devices
      BY <1>2, <3>1 DEF Continue
    <3>3. row \in DeviceRows
      BY <1>0, <3>2, MergedRow DEF TypeOK, Work
    <3>4. Good(v) /\ v.row = row /\ v.points = w.points
      BY <1>0, <3>3 DEF Work
    <3> HIDE DEF v
    <3>5. Result /\ step[q] = "loaded" /\ step'[q] = "saved" /\ work'[q] = v
      BY <1>1, <3>1, <3>4 DEF Steps
    <3>6. QED
      BY <3>1, <3>4, <3>5 DEF DeviceUpdated
  <2>3. QED
    BY <1>5, <2>1, <2>2 DEF UpdateDevice
<1>6. ASSUME LoadCourier(q)
      PROVE  Result /\ CourierLoaded(q)
  <2> DEFINE differs == {f \in {"currentDeviceId"} : current[w.courier] # w.pointer}
  <2>1. PICK other \in SUBSET {"status"} :
           Continue(q, step[q], "courierLoaded", [w EXCEPT !.columns = differs \cup other])
    BY <1>6 DEF LoadCourier
  <2> DEFINE v == [w EXCEPT !.columns = differs \cup other]
  <2>2. differs \cup other \in SUBSET (DOMAIN NoRow \cup {"currentDeviceId"})
    BY RowsTyped
  <2>3. /\ Good(v) /\ v.columns = differs \cup other
        /\ v.row = w.row /\ v.points = w.points
    BY <1>0, <2>2 DEF Work
  <2>4. /\ Quiet
        /\ step[q] = "chosen" \/ (w.entity.status = "PAIRED" /\ step[q] = "saved")
    BY <1>6 DEF LoadCourier
  <2>5. "currentDeviceId" \notin v.columns => current[w.courier] = w.pointer
    BY <2>3
  <2> HIDE DEF v
  <2>6. Result /\ step'[q] = "courierLoaded" /\ work'[q] = v
    BY <1>1, <2>1, <2>3, <2>4 DEF Steps, v
  <2>7. QED
    BY <2>3, <2>4, <2>5, <2>6 DEF CourierLoaded
<1>7. ASSUME UpdateCourier(q)
      PROVE  Result /\ CourierUpdated(q)
  <2>1. CASE w.columns = {} /\ Continue(q, "courierLoaded", "ready", w)
    <3>1. Result /\ step[q] = "courierLoaded" /\ step'[q] = "ready" /\ work'[q] = w
      BY <1>0, <1>1, <1>7, <2>1 DEF UpdateCourier, Steps
    <3>2. QED
      BY <2>1, <3>1 DEF CourierUpdated
  <2>2. CASE w.columns # {}
    <3> DEFINE new == IF "currentDeviceId" \in w.columns THEN w.pointer ELSE current[w.courier]
               v == [w EXCEPT !.points = new, !.columns = {}]
    <3>1. Continue(q, "courierLoaded", "ready", v) /\ Quiet
      BY <1>7, <2>2 DEF UpdateCourier
    <3>2. w.courier \in Couriers
      BY <1>2, <3>1 DEF Continue
    <3>3. new \in Devices \cup {NoDevice}
      BY <1>0, <3>2 DEF TypeOK, Work
    <3>4. Good(v) /\ v.row = w.row /\ v.points = new
      BY <1>0, <3>3 DEF Work
    <3> HIDE DEF v
    <3>5. Result /\ step[q] = "courierLoaded" /\ step'[q] = "ready" /\ work'[q] = v
      BY <1>1, <3>1, <3>4 DEF Steps
    <3>6. QED
      BY <3>4, <3>5 DEF CourierUpdated
  <2>3. QED
    BY <1>7, <2>1, <2>2 DEF UpdateCourier
<1>8. ASSUME ClearCourier(q)
      PROVE  Result /\ CourierCleared(q)
  <2>1. CASE Continue(q, "revoking", "cleared", w)
    <3>1. Result /\ step[q] = "revoking" /\ step'[q] = "cleared" /\ work'[q] = w
      BY <1>0, <1>1, <1>8, <2>1 DEF ClearCourier, Steps
    <3>2. QED
      BY <3>1 DEF CourierCleared
  <2>2. CASE ~Continue(q, "revoking", "cleared", w)
    <3> DEFINE v == [w EXCEPT !.points = NoDevice]
    <3>1. /\ Continue(q, "revoking", "cleared", v) /\ Quiet
          /\ w.courier # NoCourier /\ current[w.courier] = w.device
      BY <1>8, <2>2 DEF ClearCourier
    <3>2. Good(v) /\ v.row = w.row /\ v.points = NoDevice
      BY <1>0 DEF Work
    <3> HIDE DEF v
    <3>3. Result /\ step[q] = "revoking" /\ step'[q] = "cleared" /\ work'[q] = v
      BY <1>1, <3>1, <3>2 DEF Steps
    <3>4. QED
      BY <3>1, <3>2, <3>3 DEF CourierCleared
  <2>3. QED
    BY <2>1, <2>2
<1>9. QED
  BY <1>3, <1>4, <1>5, <1>6, <1>7, <1>8 DEF QuietStep

LEMMA StepKinds ==
    [Next]_vars =>
        \/ UNCHANGED vars
        \/ \E q \in Requests : Scope(q) \/ Start(q) \/ QuietStep(q) \/ Commit(q) \/ Rollback(q)
<1>1. ASSUME NEW q \in Requests, Handler(q)
      PROVE  QuietStep(q) \/ Commit(q) \/ Rollback(q)
  BY <1>1 DEF Handler, QuietStep, Abort, Refuse
<1>2. QED
  BY <1>1 DEF Next

\* Waiting for a connection, and getting one, is for requests whose handler has not begun.
LEMMA ScopeMoves ==
    ASSUME TypeOK, WorkOK, NEW q \in Requests, Scope(q)
    PROVE  /\ UNCHANGED <<rows, step, work, aux>>
           /\ step[q] = "start"
           /\ \A p \in Requests \ {q} : Unmoved(p)
<1>1. UNCHANGED <<rows, step, work, aux>>
  BY DEF Scope
<1>2. at[q] # "open" \/ step[q] = "start"
  BY DEF Scope, Ask, Serve, AskPublic, Arrive, Wait, Connect, ConnectFails, Begin, StartFails,
         ServePublic, ServeProfile, Served
<1>3. step[q] = "start"
  BY <1>2 DEF WorkOK, Busy
<1>4. \A p \in Requests \ {q} : at'[p] = at[p] /\ actor'[p] = actor[p]
  BY DEF Scope, Ask, Serve, AskPublic, AskProfile, Arrive, Wait, Connect, ConnectFails, Begin,
         StartFails, ServePublic, ServeProfile, Release, TypeOK, TenancyTypeOK
<1>5. QED
  BY <1>1, <1>3, <1>4 DEF Unmoved

\* What a handler begins with.
Registering(q, d, w) ==
    /\ actor[q].company # NoCompany
    /\ w = [Idle EXCEPT !.device = d]

Pairing(q, d, c, w) ==
    /\ d \in Registered
    /\ Mine(q, device[d].company) /\ Mine(q, Employer[c])
    /\ w = [Idle EXCEPT !.device = d, !.courier = c, !.entity = Paired(device[d], c),
                        !.pointer = d, !.columns = {"token"}]

Choosing(q, c, w) == w = [Idle EXCEPT !.courier = c, !.pointer = current[c]]

Revoking(q, d, w) ==
    /\ d \in Registered
    /\ w = [Idle EXCEPT !.device = d, !.courier = device[d].courier,
                        !.entity = Revoked(device[d])]

Started(q, to, w) ==
    \/ to = "inserting" /\ \E d \in Devices : Registering(q, d, w)
    \/ to = "found" /\ \E d \in Devices, c \in Couriers : Pairing(q, d, c, w)
    \/ to = "revoking" /\ \E d \in Devices : Revoking(q, d, w)
    \/ to = "chosen" /\ \E c \in Couriers : Choosing(q, c, w)

LEMMA Starts ==
    ASSUME TypeOK, NEW q \in Requests, Start(q)
    PROVE  \E to \in Steps, w \in Work : Find(q, to, w) /\ Started(q, to, w)
<1>1. \A d \in Devices : device[d] \in DeviceRows
  BY DEF TypeOK
<1>2. ASSUME NEW d \in Devices, FindNone(q, d)
      PROVE  \E w \in Work : Find(q, "inserting", w) /\ Registering(q, d, w)
  <2>1. [Idle EXCEPT !.device = d] \in Work
    BY RowsTyped DEF Work
  <2>2. QED
    BY <1>2, <2>1 DEF FindNone, Registering
<1>3. ASSUME NEW d \in Devices, NEW c \in Couriers, FindPair(q, d, c)
      PROVE  \E w \in Work : Find(q, "found", w) /\ Pairing(q, d, c, w)
  <2>1. Paired(device[d], c) \in DeviceRows
    BY <1>1, RowsTyped
  <2>2. [Idle EXCEPT !.device = d, !.courier = c, !.entity = Paired(device[d], c),
                     !.pointer = d, !.columns = {"token"}] \in Work
    BY <2>1, RowsTyped DEF Work
  <2>3. QED
    BY <1>3, <2>2 DEF FindPair, Pairing
<1>4. ASSUME NEW d \in Devices, FindRevoke(q, d)
      PROVE  \E w \in Work : Find(q, "revoking", w) /\ Revoking(q, d, w)
  <2>1. Revoked(device[d]) \in DeviceRows /\ device[d].courier \in Couriers \cup {NoCourier}
    BY <1>1, RowsTyped DEF DeviceRows
  <2>2. [Idle EXCEPT !.device = d, !.courier = device[d].courier,
                     !.entity = Revoked(device[d])] \in Work
    BY <2>1, RowsTyped DEF Work
  <2>3. QED
    BY <1>4, <2>2 DEF FindRevoke, Revoking
<1>5. ASSUME NEW c \in Couriers, FindOwn(q, c)
      PROVE  \E w \in Work : Find(q, "chosen", w) /\ Choosing(q, c, w)
  <2>1. current[c] \in Devices \cup {NoDevice}
    BY DEF TypeOK
  <2>2. [Idle EXCEPT !.courier = c, !.pointer = current[c]] \in Work
    BY <2>1, RowsTyped DEF Work
  <2>3. QED
    BY <1>5, <2>2 DEF FindOwn, Choosing
<1>6. {"inserting", "found", "revoking", "chosen"} \subseteq Steps
  BY DEF Steps
<1>7. QED
  BY <1>2, <1>3, <1>4, <1>5, <1>6 DEF Start, Started

\* Nothing is written yet.
LEMMA StartsIdle == \A q, to, w : Started(q, to, w) => w.row = NoRow /\ w.points = Kept
<1>1. \A q, d, w : Registering(q, d, w) => w.row = NoRow /\ w.points = Kept
  BY DEF Registering, Idle
<1>2. \A q, d, c, w : Pairing(q, d, c, w) => w.row = NoRow /\ w.points = Kept
  BY DEF Pairing, Idle
<1>3. \A q, d, w : Revoking(q, d, w) => w.row = NoRow /\ w.points = Kept
  BY DEF Revoking, Idle
<1>4. \A q, c, w : Choosing(q, c, w) => w.row = NoRow /\ w.points = Kept
  BY DEF Choosing, Idle
<1>5. QED
  BY <1>1, <1>2, <1>3, <1>4 DEF Started

LEMMA FinishMoves ==
    ASSUME TypeOK, NEW q \in Requests, Finish(q)
    PROVE  /\ step'[q] = "start" /\ work'[q] = Idle
           /\ \A p \in Requests \ {q} : Unmoved(p)
           /\ step' \in [Requests -> Steps] /\ work' \in [Requests -> Work]
<1>1. "start" \in Steps /\ Idle \in Work
  BY RowsTyped DEF Steps
<1>2. QED
  BY <1>1 DEF Finish, Release, TypeOK, TenancyTypeOK, Unmoved

LEMMA CommitWrites ==
    ASSUME TypeOK, WorkOK, NEW q \in Requests, Commit(q)
    PROVE  LET w == work[q] IN
           /\ w \in Work /\ Busy(q)
           /\ w.row # NoRow \/ w.entity.status = "PAIRED" => w.device \in Devices
           /\ step[q] = "ready" \/ (step[q] = "saved" /\ w.entity.status = "REVOKED")
           /\ device' \in [Devices -> DeviceRows]
           /\ \A d \in Devices : device'[d] = IF d = w.device /\ w.row # NoRow THEN w.row ELSE device[d]
           /\ current' \in [Couriers -> Devices \cup {NoDevice}]
           /\ \A c \in Couriers :
                 current'[c] = IF c = w.courier /\ w.points # Kept THEN w.points ELSE current[c]
           /\ raced' = raced
           /\ bond' \subseteq Devices \X Couriers
           /\ \A b \in bond' :
                 \/ /\ b \in bond /\ b[1] # w.device
                    /\ w.entity.status = "PAIRED" => b[2] # w.courier
                 \/ /\ b = <<w.device, w.courier>> /\ w.entity.status = "PAIRED"
                    /\ b[1] \notin raced /\ b[2] \notin raced
<1> DEFINE w == work[q]
<1>1. step[q] = "ready" \/ (step[q] = "saved" /\ w.entity.status = "REVOKED")
  BY DEF Commit
<1>2. /\ w \in Work /\ Busy(q)
      /\ w.row # NoRow \/ w.entity.status = "PAIRED" => w.device \in Devices
  <2>1. w \in Work /\ Busy(q)
    BY <1>1 DEF TypeOK, WorkOK
  <2>2. Chooses(q) => w.row = NoRow /\ w.entity.status # "PAIRED"
    BY DEF Chooses, NoRow
  <2>3. ~Chooses(q) => w.device \in Devices
    BY <2>1 DEF Busy, Registers, Pairs, Revokes, Edits, Registered
  <2>4. QED
    BY <2>1, <2>2, <2>3
<1>3. device' = IF w.row = NoRow THEN device ELSE [device EXCEPT ![w.device] = w.row]
  BY DEF Commit
<1>4. /\ device' \in [Devices -> DeviceRows]
      /\ \A d \in Devices : device'[d] = IF d = w.device /\ w.row # NoRow THEN w.row ELSE device[d]
  BY <1>2, <1>3 DEF TypeOK, Work
<1>5. current' = IF w.points = Kept THEN current ELSE [current EXCEPT ![w.courier] = w.points]
  BY DEF Commit
<1>6. /\ current' \in [Couriers -> Devices \cup {NoDevice}]
      /\ \A c \in Couriers :
            current'[c] = IF c = w.courier /\ w.points # Kept THEN w.points ELSE current[c]
  BY <1>2, <1>5 DEF TypeOK, Work
<1>7. bond' = {b \in bond : b[1] # w.device /\ (w.entity.status = "PAIRED" => b[2] # w.courier)}
              \cup {b \in {<<w.device, w.courier>>} :
                        w.entity.status = "PAIRED" /\ raced \cap {b[1], b[2]} = {}}
  BY DEF Commit
<1>8. w.entity.status = "PAIRED" => w.courier \in Couriers
  BY <1>2 DEF Busy, Registers, Pairs, Revokes, Chooses, Saves, NoRow
<1>9. bond' \subseteq Devices \X Couriers
  BY <1>2, <1>7, <1>8 DEF TypeOK
<1>10. ASSUME NEW b \in bond'
       PROVE  \/ /\ b \in bond /\ b[1] # w.device
                 /\ w.entity.status = "PAIRED" => b[2] # w.courier
              \/ /\ b = <<w.device, w.courier>> /\ w.entity.status = "PAIRED"
                 /\ b[1] \notin raced /\ b[2] \notin raced
  BY <1>7, <1>10
<1>11. raced' = raced
  BY DEF Commit
<1>12. QED
  BY <1>1, <1>2, <1>4, <1>6, <1>9, <1>10, <1>11

LEMMA TypePreserved == TypeOK /\ HoldsOK /\ WorkOK /\ [Next]_vars => TypeOK'
<1> SUFFICES ASSUME TypeOK, HoldsOK, WorkOK, [Next]_vars PROVE TypeOK'
  OBVIOUS
<1>0. TenancyTypeOK'
  BY PoolTyped DEF TypeOK
<1>1. CASE UNCHANGED vars
  BY <1>0, <1>1 DEF TypeOK, vars
<1>2. ASSUME NEW q \in Requests, Scope(q)
      PROVE  TypeOK'
  BY <1>0, <1>2 DEF Scope, TypeOK, rows, aux
<1>3. ASSUME NEW q \in Requests, Start(q)
      PROVE  TypeOK'
  <2>1. PICK to \in Steps, w \in Work : Find(q, to, w)
    BY <1>3, Starts
  <2>2. /\ step' \in [Requests -> Steps] /\ work' \in [Requests -> Work]
        /\ UNCHANGED <<tvars, rows>>
        /\ raced' \subseteq Devices \cup Couriers
        /\ bond' = {b \in bond : b[1] \notin raced' /\ b[2] \notin raced'}
    BY <2>1, FindMoves
  <2>3. QED
    BY <1>0, <2>2 DEF TypeOK, rows
<1>4. ASSUME NEW q \in Requests, QuietStep(q)
      PROVE  TypeOK'
  BY <1>0, <1>4, Statements DEF TypeOK, rows, aux
<1>5. ASSUME NEW q \in Requests, Commit(q)
      PROVE  TypeOK'
  <2>1. step' \in [Requests -> Steps] /\ work' \in [Requests -> Work]
    BY <1>5, FinishMoves DEF Commit
  <2>2. QED
    BY <1>0, <1>5, <2>1, CommitWrites DEF TypeOK
<1>6. ASSUME NEW q \in Requests, Rollback(q)
      PROVE  TypeOK'
  BY <1>0, <1>6, FinishMoves DEF Rollback, TypeOK, rows, aux
<1>7. QED
  BY <1>1, <1>2, <1>3, <1>4, <1>5, <1>6, StepKinds

----------------------------------------------------------------------------
(* Devices and couriers of one company *)

\* Only a COMMIT writes devices and couriers.
LEMMA RowSteps ==
    ASSUME TypeOK, WorkOK, [Next]_vars
    PROVE  UNCHANGED rows \/ \E q \in Requests : Commit(q)
<1>1. ASSUME NEW q \in Requests, Start(q)
      PROVE  UNCHANGED rows
  BY <1>1, Starts, FindMoves
<1>2. QED
  BY <1>1, StepKinds, ScopeMoves, Statements DEF Rollback, vars, rows

LEMMA RealRows == \A k \in Companies : New(k) # NoRow
  BY NullsAreNotIds DEF New, NoRow

LEMMA CompanyKept ==
    ASSUME TypeOK, WorkOK, DevicesOK, [Next]_vars, NEW d \in Registered
    PROVE  d \in Registered' /\ device'[d].company = device[d].company
<1>1. CASE UNCHANGED rows
  BY <1>1 DEF rows, Registered
<1>2. ASSUME NEW q \in Requests, Commit(q)
      PROVE  d \in Registered' /\ device'[d].company = device[d].company
  <2>1. device'[d] = IF d = work[q].device /\ work[q].row # NoRow THEN work[q].row ELSE device[d]
    BY <1>2, CommitWrites DEF Registered
  <2>2. d = work[q].device /\ work[q].row # NoRow => work[q].row.company = device[d].company
    BY <1>2, CommitWrites DEF Busy, Registers, Pairs, Revokes, Chooses, Edits
  <2>3. QED
    BY <2>1, <2>2 DEF Registered
<1>3. QED
  BY <1>1, <1>2, RowSteps

LEMMA WithinKept ==
    ASSUME TypeOK, WorkOK, DevicesOK, [Next]_vars, NEW d, NEW c, Within(d, c)
    PROVE  Within(d, c)'
  BY CompanyKept DEF Within

LEMMA RowLockPreserved == TypeOK /\ WorkOK /\ RowLockOK /\ [Next]_vars => RowLockOK'
<1> SUFFICES ASSUME TypeOK, WorkOK, RowLockOK, [Next]_vars PROVE RowLockOK'
  OBVIOUS
<1>1. \A p \in Requests, d \in Devices : Unmoved(p) => (Holds(p, d)' <=> Holds(p, d))
  BY DEF Unmoved, Holds
<1>2. ASSUME NEW q \in Requests, \A p \in Requests \ {q} : Unmoved(p),
             \A d \in Devices : Holds(q, d)' =>
                Holds(q, d) \/ \A p \in Requests \ {q} : ~Holds(p, d)
      PROVE  RowLockOK'
  BY <1>1, <1>2 DEF RowLockOK
<1>3. ASSUME NEW q \in Requests, Start(q)
      PROVE  RowLockOK'
  <2>1. PICK to \in Steps, w \in Work : Find(q, to, w) /\ w.row = NoRow
    BY <1>3, Starts, StartsIdle
  <2>2. /\ \A p \in Requests \ {q} : Unmoved(p)
        /\ \A d \in Devices : ~Holds(q, d)'
    BY <2>1, FindMoves DEF Holds
  <2>3. QED
    BY <1>2, <2>2
<1>4. ASSUME NEW q \in Requests, QuietStep(q)
      PROVE  RowLockOK'
  <2>1. /\ \A p \in Requests \ {q} : Unmoved(p)
        /\ work'[q].device = work[q].device
        /\ \/ Inserted(q) \/ DeviceLoaded(q) \/ DeviceUpdated(q)
           \/ CourierLoaded(q) \/ CourierUpdated(q) \/ CourierCleared(q)
    BY <1>4, Statements DEF Keep
  <2>2. work'[q].row = work[q].row \/ DeviceFree(q, work[q].device)
    BY <2>1 DEF Inserted, DeviceLoaded, DeviceUpdated, CourierLoaded, CourierUpdated, CourierCleared
  <2>3. \A d \in Devices : Holds(q, d)' =>
           Holds(q, d) \/ \A p \in Requests \ {q} : ~Holds(p, d)
    BY <2>1, <2>2 DEF Holds, DeviceFree
  <2>4. QED
    BY <1>2, <2>1, <2>3
<1>5. ASSUME NEW q \in Requests, Finish(q)
      PROVE  RowLockOK'
  <2>1. /\ \A p \in Requests \ {q} : Unmoved(p)
        /\ \A d \in Devices : ~Holds(q, d)'
    BY <1>5, FinishMoves DEF Holds, Idle
  <2>2. QED
    BY <1>2, <2>1
<1>6. ASSUME UNCHANGED work
      PROVE  RowLockOK'
  BY <1>6 DEF RowLockOK, Holds
<1>7. QED
  BY <1>3, <1>4, <1>5, <1>6, StepKinds, ScopeMoves DEF Commit, Rollback, vars

\* A handler that does not move stays true to what it has read.
LEMMA BusyKept ==
    ASSUME TypeOK, WorkOK, DevicesOK, RowLockOK, [Next]_vars, NEW p \in Requests, Unmoved(p),
           step[p] # "start"
    PROVE  Busy(p)'
<1>1. Busy(p)
  BY DEF WorkOK
<1>2. \A d \in Registered : d \in Registered' /\ device'[d].company = device[d].company
  BY CompanyKept
<1>6. Saves(p) => Saves(p)'
  BY WithinKept DEF Saves, Unmoved
<1>3. CASE Registers(p)
  <2>1. ASSUME step[p] = "ready"
        PROVE  work[p].device \notin Registered'
    <3>1. Holds(p, work[p].device) /\ work[p].device \in Devices /\ work[p].device \notin Registered
      BY <1>1, <1>3, <2>1, RealRows DEF Registers, Holds
    <3>2. CASE UNCHANGED rows
      BY <3>1, <3>2 DEF rows, Registered
    <3>3. ASSUME NEW q \in Requests, Commit(q)
          PROVE  work[p].device \notin Registered'
      <4>1. q # p
        BY <2>1, <3>3, FinishMoves DEF Commit, Unmoved
      <4>2. ~Holds(q, work[p].device)
        BY <3>1, <4>1 DEF RowLockOK
      <4>3. device'[work[p].device] = device[work[p].device]
        BY <3>1, <3>3, <4>2, CommitWrites DEF Holds
      <4>4. QED
        BY <3>1, <4>3 DEF Registered
    <3>4. QED
      BY <3>2, <3>3, RowSteps
  <2>2. QED
    BY <1>1, <1>3, <2>1 DEF Unmoved, Busy, Registers
<1>5. CASE Chooses(p)
  BY <1>1, <1>5, <1>6 DEF Chooses, Busy, Unmoved
<1>4. CASE Edits(p)
  <2>1. Edits(p)'
    BY <1>2, <1>4 DEF Edits, Unmoved, InCompany
  <2>2. work[p].device \in Registered
    BY <1>4 DEF Edits
  <2>3. Pairs(p) => Pairs(p)'
    BY <1>4, <2>1, <1>6 DEF Pairs, Unmoved
  <2>4. Revokes(p) => Revokes(p)'
    BY <2>1 DEF Revokes, Unmoved
  <2>5. QED
    BY <1>1, <1>3, <1>5, <2>3, <2>4 DEF Busy, Unmoved
<1>7. QED
  BY <1>1, <1>3, <1>4, <1>5 DEF Busy, Pairs, Revokes

\* What a handler finds is of its company.
LEMMA StartBusy ==
    ASSUME TypeOK, DevicesOK, NEW q \in Requests, Start(q)
    PROVE  Busy(q)' /\ step'[q] # "start"
<1>1. PICK to \in Steps, w \in Work : Find(q, to, w) /\ Started(q, to, w)
  BY Starts
<1>2. /\ at'[q] = "open" /\ step'[q] = to /\ work'[q] = w
      /\ UNCHANGED <<device, current, actor>>
  BY <1>1, FindMoves DEF tvars, rows
<1>3. ASSUME NEW d \in Devices, to = "inserting", Registering(q, d, w)
      PROVE  Busy(q)' /\ step'[q] # "start"
  <2>1. /\ w.device = d /\ w.courier = NoCourier /\ w.entity = NoRow
        /\ w.points = Kept /\ w.row = NoRow
        /\ actor[q].company \in Companies
    BY <1>3 DEF Registering, Idle, TypeOK, TenancyTypeOK, Settings
  <2>2. Registers(q)'
    BY <1>2, <1>3, <2>1 DEF Registers
  <2>3. QED
    BY <1>2, <1>3, <2>1, <2>2 DEF Busy
<1>4. ASSUME NEW d \in Devices, NEW c \in Couriers, to = "found", Pairing(q, d, c, w)
      PROVE  Busy(q)' /\ step'[q] # "start"
  <2>1. /\ w.device = d /\ w.courier = c /\ w.entity = Paired(device[d], c)
        /\ w.pointer = d /\ w.row = NoRow /\ w.points = Kept /\ d \in Registered
        /\ Employer[c] = device[d].company
    BY <1>4 DEF Pairing, Mine, Idle
  <2>2. /\ w.entity.status = "PAIRED" /\ w.entity.courier = c
        /\ w.entity.company = device[d].company
    BY <2>1 DEF Paired, TypeOK, DeviceRows
  <2>3. Edits(q)'
    BY <1>2, <2>1, <2>2 DEF Edits, InCompany, Registered
  <2>4. Saves(q)'
    BY <1>2, <2>1 DEF Saves, Within, Registered
  <2>5. Pairs(q)'
    BY <1>2, <1>4, <2>1, <2>2, <2>3, <2>4 DEF Pairs
  <2>6. QED
    BY <1>2, <1>4, <2>5 DEF Busy
<1>5. ASSUME NEW d \in Devices, to = "revoking", Revoking(q, d, w)
      PROVE  Busy(q)' /\ step'[q] # "start"
  <2>1. /\ w.device = d /\ w.entity = Revoked(device[d])
        /\ w.row = NoRow /\ w.points = Kept /\ d \in Registered
    BY <1>5 DEF Revoking, Idle
  <2>2. /\ w.entity.status = "REVOKED" /\ w.entity.courier = NoCourier
        /\ w.entity.company = device[d].company
    BY <2>1 DEF Revoked, TypeOK, DeviceRows
  <2>3. Edits(q)'
    BY <1>2, <2>1, <2>2 DEF Edits, InCompany, Registered
  <2>4. Revokes(q)'
    BY <1>2, <1>5, <2>1, <2>2, <2>3, NoDeviceNoCourier DEF Revokes
  <2>5. QED
    BY <1>2, <1>5, <2>1, <2>4 DEF Busy
<1>6. ASSUME NEW c \in Couriers, to = "chosen", Choosing(q, c, w)
      PROVE  Busy(q)' /\ step'[q] # "start"
  <2>1. /\ w.device = NoDevice /\ w.courier = c /\ w.entity = NoRow /\ w.row = NoRow
        /\ w.pointer = current[c] /\ w.points = Kept
    BY <1>6 DEF Choosing, Idle
  <2>2. Saves(q)'
    BY <1>2, <2>1 DEF Saves, Within, DevicesOK, Registered
  <2>3. QED
    BY <1>2, <1>6, <2>1, <2>2 DEF Chooses, Busy
<1>7. QED
  BY <1>1, <1>3, <1>4, <1>5, <1>6 DEF Started

\* What it then writes, too.
LEMMA StatementBusy ==
    ASSUME TypeOK, WorkOK, DevicesOK, NEW q \in Requests, QuietStep(q)
    PROVE  Busy(q)' /\ step'[q] # "start"
<1>1. /\ UNCHANGED <<tvars, rows, aux>>
      /\ at[q] = "open" /\ Keep(q)
      /\ \/ Inserted(q) \/ DeviceLoaded(q) \/ DeviceUpdated(q)
         \/ CourierLoaded(q) \/ CourierUpdated(q) \/ CourierCleared(q)
  BY Statements
<1>2. /\ step[q] # "start" /\ step'[q] # "start"
  BY <1>1 DEF Inserted, DeviceLoaded, DeviceUpdated, CourierLoaded, CourierUpdated, CourierCleared
<1>3. Busy(q)
  BY <1>2 DEF WorkOK
<1>4. /\ at' = at /\ actor' = actor /\ device' = device
      /\ Registered' = Registered
  BY <1>1 DEF tvars, rows, Registered
<1>5. work[q] \in Work
  BY DEF TypeOK
<1>6. CASE Inserted(q)
  <2>1. Registers(q)
    BY <1>3, <1>6 DEF Inserted, Busy, Pairs, Revokes, Chooses
  <2>2. Registers(q)'
    BY <1>1, <1>4, <1>6, <2>1 DEF Inserted, Registers, Keep
  <2>3. QED
    BY <1>1, <1>2, <1>3, <1>4, <2>2 DEF Busy, Keep
<1>13. ASSUME Saves(q), \/ work'[q].points = work[q].points
                        \/ step'[q] = "ready" /\ Within(work'[q].points, work[q].courier),
              step[q] # "ready"
       PROVE  Saves(q)'
  BY <1>1, <1>4, <1>13 DEF Saves, Within, Keep
<1>7. ASSUME Pairs(q) \/ Revokes(q), work'[q].row = work[q].row \/ InCompany(work'[q].row),
             \/ work'[q].row = work[q].row
             \/ work'[q].row.company = device[work[q].device].company
      PROVE  Edits(q)'
  BY <1>1, <1>4, <1>7 DEF Pairs, Revokes, Edits, Keep, InCompany
<1>8. CASE DeviceLoaded(q)
  <2>1. Pairs(q) \/ Revokes(q)
    BY <1>3, <1>8 DEF DeviceLoaded, Busy, Registers, Chooses
  <2>2. Edits(q)'
    BY <1>7, <1>8, <2>1 DEF DeviceLoaded
  <2>3. (Pairs(q) => Pairs(q)') /\ (Revokes(q) => Revokes(q)')
    BY <1>1, <1>4, <1>8, <1>13, <2>2 DEF DeviceLoaded, Pairs, Revokes, Keep
  <2>4. QED
    BY <1>1, <1>2, <1>3, <1>4, <2>1, <2>3 DEF Busy, Keep
<1>9. CASE DeviceUpdated(q)
  <2>1. Pairs(q) \/ Revokes(q)
    BY <1>3, <1>9 DEF DeviceUpdated, Busy, Registers, Chooses
  <2>2. work[q].device \in Registered /\ Edits(q)
    BY <2>1 DEF Pairs, Revokes, Edits
  <2>3. /\ work[q].entity \in DeviceRows /\ device[work[q].device] \in DeviceRows
        /\ work[q].entity.company = device[work[q].device].company
        /\ InCompany(work[q].entity) /\ InCompany(device[work[q].device])
    BY <1>5, <2>2 DEF Work, TypeOK, DevicesOK, Edits, Registered
  <2>4. \/ work'[q].row = work[q].row
        \/ InCompany(work'[q].row) /\ work'[q].row.company = device[work[q].device].company
    <3>1. CASE work'[q].row = Merged(work[q].entity, device[work[q].device], work[q].columns)
      BY <2>3, <3>1, MergedRow DEF InCompany
    <3>2. QED
      BY <1>9, <3>1 DEF DeviceUpdated
  <2>5. Edits(q)'
    BY <1>7, <2>1, <2>4
  <2>6. (Pairs(q) => Pairs(q)') /\ (Revokes(q) => Revokes(q)')
    BY <1>1, <1>4, <1>9, <1>13, <2>5 DEF DeviceUpdated, Pairs, Revokes, Keep
  <2>7. QED
    BY <1>1, <1>2, <1>3, <1>4, <2>1, <2>6 DEF Busy, Keep
<1>10. CASE CourierLoaded(q) \/ CourierUpdated(q)
  <2>1. Pairs(q) \/ Chooses(q)
    BY <1>3, <1>10 DEF CourierLoaded, CourierUpdated, Busy, Registers, Revokes, NoRow
  <2>2. Saves(q)
    BY <2>1 DEF Pairs, Chooses
  <2>3. \/ work'[q].points = work[q].points
        \/ step'[q] = "ready" /\ Within(work'[q].points, work[q].courier)
    BY <1>10, <2>2 DEF CourierLoaded, CourierUpdated, Saves, DevicesOK
  <2>4. Saves(q)'
    BY <1>10, <1>13, <2>2, <2>3 DEF CourierLoaded, CourierUpdated
  <2>5. CASE Pairs(q)
    <3>1. Edits(q)'
      BY <1>7, <1>10, <2>5 DEF CourierLoaded, CourierUpdated
    <3>2. Pairs(q)'
      BY <1>1, <1>4, <1>10, <2>4, <2>5, <3>1 DEF CourierLoaded, CourierUpdated, Pairs, Keep
    <3>3. QED
      BY <1>1, <1>2, <1>4, <3>2 DEF Busy
  <2>6. CASE Chooses(q)
    <3>1. Chooses(q)'
      BY <1>1, <1>10, <2>4, <2>6 DEF CourierLoaded, CourierUpdated, Chooses, Keep
    <3>2. QED
      BY <1>1, <1>2, <1>4, <3>1 DEF Busy
  <2>7. QED
    BY <2>1, <2>5, <2>6
<1>11. CASE CourierCleared(q)
  <2>1. Revokes(q)
    BY <1>3, <1>11 DEF CourierCleared, Busy, Registers, Pairs, Chooses
  <2>2. Edits(q)'
    BY <1>7, <1>11, <2>1 DEF CourierCleared
  <2>3. Revokes(q)'
    BY <1>1, <1>4, <1>5, <1>11, <2>1, <2>2 DEF CourierCleared, Revokes, Keep, Work
  <2>4. QED
    BY <1>1, <1>2, <1>3, <1>4, <2>3 DEF Busy, Keep
<1>12. QED
  BY <1>1, <1>2, <1>6, <1>8, <1>9, <1>10, <1>11

LEMMA WorkPreserved == TypeOK /\ WorkOK /\ DevicesOK /\ RowLockOK /\ [Next]_vars => WorkOK'
<1> SUFFICES ASSUME TypeOK, WorkOK, DevicesOK, RowLockOK, [Next]_vars, NEW p \in Requests
             PROVE  IF step'[p] = "start" THEN work'[p] = Idle ELSE Busy(p)'
  BY DEF WorkOK
<1>1. CASE Unmoved(p)
  BY <1>1, BusyKept DEF Unmoved, WorkOK
<1>2. CASE Finish(p)
  BY <1>2, FinishMoves
<1>3. CASE step[p] = "start" /\ UNCHANGED <<step, work>>
  BY <1>3 DEF WorkOK
<1>4. ASSUME NEW q \in Requests, Scope(q) \/ Start(q) \/ QuietStep(q) \/ Finish(q)
      PROVE  q = p \/ Unmoved(p)
  BY <1>4, ScopeMoves, Starts, FindMoves, Statements, FinishMoves
<1>5. QED
  BY <1>1, <1>2, <1>3, <1>4, StepKinds, ScopeMoves, StartBusy, StatementBusy
     DEF Commit, Rollback, vars, Unmoved, tvars

LEMMA DevicesPreserved == TypeOK /\ WorkOK /\ DevicesOK /\ [Next]_vars => DevicesOK'
<1> SUFFICES ASSUME TypeOK, WorkOK, DevicesOK, [Next]_vars PROVE DevicesOK'
  OBVIOUS
<1>0. \A d \in Registered : d \in Registered' /\ device'[d].company = device[d].company
  BY CompanyKept
<1>1. CASE UNCHANGED rows
  BY <1>1 DEF rows, DevicesOK, Registered, InCompany, Within
<1>2. ASSUME NEW q \in Requests, Commit(q)
      PROVE  DevicesOK'
  <2> DEFINE w == work[q]
  <2>1. /\ w \in Work
        /\ Registers(q) \/ Pairs(q) \/ Revokes(q) \/ Chooses(q)
        /\ \A d \in Devices : device'[d] = IF d = w.device /\ w.row # NoRow THEN w.row ELSE device[d]
        /\ \A c \in Couriers :
              current'[c] = IF c = w.courier /\ w.points # Kept THEN w.points ELSE current[c]
    BY <1>2, CommitWrites DEF Busy
  <2>2. w.row # NoRow => w.row.company \in Companies /\ InCompany(w.row)
    <3>1. CASE Registers(q)
      BY <3>1 DEF Registers, New, InCompany
    <3>2. CASE Edits(q)
      BY <3>2 DEF Edits, DevicesOK
    <3>3. QED
      BY <2>1, <3>1, <3>2 DEF Pairs, Revokes, Chooses
  <2>3. ASSUME NEW d \in Registered'
        PROVE  device'[d].company \in Companies /\ InCompany(device[d])'
    BY <2>1, <2>2, <2>3 DEF Registered, DevicesOK, InCompany
  <2>4. ASSUME NEW c \in Couriers
        PROVE  Within(current[c], c)'
    <3>1. current'[c] = current[c] \/ (c = w.courier /\ w.points # Kept /\ current'[c] = w.points)
      BY <2>1
    <3>2. Within(current[c], c)
      BY DEF DevicesOK
    <3>3. c = w.courier /\ w.points # Kept => Within(w.points, c)
      BY <2>1 DEF Registers, Pairs, Chooses, Saves, Revokes, Within
    <3>4. Within(current'[c], c)
      BY <3>1, <3>2, <3>3
    <3>5. QED
      BY <1>0, <3>4 DEF Within
  <2>5. QED
    BY <2>3, <2>4 DEF DevicesOK
<1>3. QED
  BY <1>1, <1>2, RowSteps

----------------------------------------------------------------------------
(* Pairings that nobody races for *)

LEMMA RacedPreserved == TypeOK /\ WorkOK /\ RacedOK /\ [Next]_vars => RacedOK' /\ raced \subseteq raced'
<1> SUFFICES ASSUME TypeOK, WorkOK, RacedOK, [Next]_vars PROVE RacedOK' /\ raced \subseteq raced'
  OBVIOUS
<1>1. CASE UNCHANGED <<work, raced>>
  BY <1>1 DEF RacedOK
<1>2. ASSUME NEW q \in Requests, raced \subseteq raced', \A p \in Requests \ {q} : Unmoved(p),
             \A p \in Requests \ {q} :
                /\ work'[q].device \in Devices /\ work'[q].device = work[p].device
                      => work'[q].device \in raced'
                /\ work'[q].courier \in Couriers /\ work'[q].courier = work[p].courier
                      => work'[q].courier \in raced'
      PROVE  RacedOK'
  BY <1>2 DEF RacedOK, Unmoved
<1>3. ASSUME NEW q \in Requests, Start(q)
      PROVE  RacedOK' /\ raced \subseteq raced'
  <2>1. PICK to \in Steps, w \in Work : Find(q, to, w)
    BY <1>3, Starts
  <2>2. QED
    BY <1>2, <2>1, FindMoves
<1>4. ASSUME NEW q \in Requests, QuietStep(q)
      PROVE  RacedOK' /\ raced \subseteq raced'
  <2>1. raced' = raced /\ Keep(q) /\ \A p \in Requests \ {q} : Unmoved(p)
    BY <1>4, Statements DEF aux
  <2>2. QED
    BY <1>2, <2>1 DEF Keep, RacedOK
<1>5. ASSUME NEW q \in Requests, Finish(q), raced' = raced
      PROVE  RacedOK' /\ raced \subseteq raced'
  <2>1. work'[q].device \notin Devices /\ work'[q].courier \notin Couriers
    BY <1>5, FinishMoves, NoDeviceNoCourier DEF Idle
  <2>2. QED
    BY <1>2, <1>5, <2>1, FinishMoves
<1>6. QED
  BY <1>1, <1>3, <1>4, <1>5, StepKinds, ScopeMoves DEF Commit, Rollback, vars, aux

\* A request moves itself only; what a COMMIT writes that another request works on has been raced
\* for.
LEMMA OthersKept ==
    ASSUME TypeOK, WorkOK, RacedOK, [Next]_vars, NEW p \in Requests, Unmoved(p), step[p] # "start"
    PROVE  /\ work[p].device \in Devices \ raced' =>
                 device'[work[p].device] = device[work[p].device]
           /\ work[p].courier \in Couriers \ raced' =>
                 current'[work[p].courier] = current[work[p].courier]
<1>1. raced \subseteq raced'
  BY RacedPreserved
<1>2. CASE UNCHANGED rows
  BY <1>2 DEF rows
<1>3. ASSUME NEW q \in Requests, Commit(q)
      PROVE  /\ work[p].device \in Devices \ raced' =>
                   device'[work[p].device] = device[work[p].device]
             /\ work[p].courier \in Couriers \ raced' =>
                   current'[work[p].courier] = current[work[p].courier]
  <2>1. q # p
    BY <1>3, FinishMoves DEF Commit, Unmoved
  <2>3. work[p].device \in Devices \ raced' => work[q].device # work[p].device
    BY <1>1, <2>1 DEF RacedOK
  <2>4. work[p].courier \in Couriers \ raced' => work[q].courier # work[p].courier
    BY <1>1, <2>1 DEF RacedOK
  <2>5. QED
    BY <1>3, <2>3, <2>4, CommitWrites
<1>4. QED
  BY <1>2, <1>3, RowSteps

LEMMA Movers ==
    ASSUME TypeOK, WorkOK, [Next]_vars, NEW p \in Requests, step'[p] # "start"
    PROVE  \/ Unmoved(p) /\ step[p] # "start"
           \/ Start(p)
           \/ QuietStep(p)
<1>1. ASSUME NEW q \in Requests, Scope(q) \/ Start(q) \/ QuietStep(q) \/ Finish(q)
      PROVE  q = p \/ Unmoved(p)
  BY <1>1, ScopeMoves, Starts, FindMoves, Statements, FinishMoves
<1>2. Unmoved(p) => step[p] # "start"
  BY DEF Unmoved
<1>3. QED
  BY <1>1, <1>2, StepKinds, ScopeMoves, FinishMoves DEF Commit, Rollback, vars, tvars, Unmoved

\* What the entities of pair() and revoke() are.
LEMMA EntityRows ==
    ASSUME NEW row \in DeviceRows
    PROVE  /\ \A c : /\ Paired(row, c).status = "PAIRED" /\ Paired(row, c).token
                     /\ Paired(row, c).courier = c /\ Paired(row, c) # NoRow
           /\ Revoked(row).status = "REVOKED" /\ ~Revoked(row).token
           /\ Revoked(row).courier = NoCourier /\ Revoked(row) # NoRow
<1>1. \A c : /\ Paired(row, c).status = "PAIRED" /\ Paired(row, c).token
             /\ Paired(row, c).courier = c
  BY DEF Paired, DeviceRows
<1>2. /\ Revoked(row).status = "REVOKED" /\ ~Revoked(row).token
      /\ Revoked(row).courier = NoCourier
  BY DEF Revoked, DeviceRows
<1>3. QED
  BY <1>1, <1>2 DEF NoRow

LEMMA EntityPreserved ==
    TypeOK /\ WorkOK /\ RacedOK /\ EntityOK /\ [Next]_vars => EntityOK'
<1> SUFFICES ASSUME TypeOK, WorkOK, RacedOK, EntityOK, [Next]_vars, NEW p \in Requests,
                    step'[p] # "start"
             PROVE  EntityOf(p)'
  BY DEF EntityOK, EntityOf
<1>0. EntityOf(p) /\ raced \subseteq raced'
  BY RacedPreserved DEF EntityOK
<1>1. CASE Unmoved(p) /\ step[p] # "start"
  BY <1>0, <1>1, OthersKept DEF EntityOf, Unmoved
<1>2. CASE Start(p)
  <2>1. PICK to \in Steps, w \in Work : Find(p, to, w) /\ Started(p, to, w)
    BY <1>2, Starts
  <2>2. step'[p] = to /\ work'[p] = w /\ device' = device
    BY <2>1, FindMoves DEF rows
  <2>3. \A d \in Devices : device[d] \in DeviceRows
    BY DEF TypeOK
  <2>4. ASSUME w.entity = NoRow
        PROVE  EntityOf(p)'
    BY <2>2, <2>4 DEF EntityOf
  <2>5. ASSUME NEW d \in Devices, NEW c \in Couriers, to = "found", Pairing(p, d, c, w)
        PROVE  EntityOf(p)'
    <3>1. /\ w.device = d /\ w.courier = c /\ w.entity = Paired(device[d], c)
          /\ w.columns = {"token"} /\ w.row = NoRow
      BY <2>5 DEF Pairing, Idle
    <3>2. QED
      BY <2>2, <2>3, <2>5, <3>1, EntityRows DEF EntityOf
  <2>6. ASSUME NEW d \in Devices, to = "revoking", Revoking(p, d, w)
        PROVE  EntityOf(p)'
    <3>1. w.device = d /\ w.entity = Revoked(device[d]) /\ w.row = NoRow
      BY <2>6 DEF Revoking, Idle
    <3>2. QED
      BY <2>2, <2>3, <2>6, <3>1, EntityRows DEF EntityOf
  <2>7. \A d, c : Registering(p, d, w) \/ Choosing(p, c, w) => w.entity = NoRow
    BY DEF Registering, Choosing, Idle
  <2>8. QED
    BY <2>1, <2>4, <2>5, <2>6, <2>7 DEF Started
<1>3. CASE QuietStep(p)
  <2>1. /\ device' = device /\ raced' = raced /\ Keep(p)
        /\ \/ Inserted(p) \/ DeviceLoaded(p) \/ DeviceUpdated(p)
           \/ CourierLoaded(p) \/ CourierUpdated(p) \/ CourierCleared(p)
    BY <1>3, Statements DEF rows, aux
  <2> SUFFICES ASSUME step[p] # "start", work[p].entity # NoRow, work[p].device \in Devices \ raced
               PROVE  EntityOf(p)'
    BY <2>1 DEF EntityOf, Keep, Inserted, DeviceLoaded, DeviceUpdated, CourierLoaded, CourierUpdated,
                CourierCleared
  <2>2. Busy(p) /\ work[p].device \in Devices /\ work[p] \in Work
    BY DEF WorkOK, TypeOK
  <2>3. /\ work[p].entity = IF work[p].entity.status = "PAIRED"
                            THEN Paired(device[work[p].device], work[p].courier)
                            ELSE Revoked(device[work[p].device])
        /\ step[p] \in {"found", "revoking", "cleared", "loaded"} => work[p].row = NoRow
    BY <1>0 DEF EntityOf
  <2>4. CASE Inserted(p)
    <3>1. Registers(p)
      BY <2>2, <2>4 DEF Inserted, Busy, Pairs, Revokes, Chooses
    <3>2. QED
      BY <3>1 DEF Registers
  <2>5. CASE DeviceLoaded(p)
    <3>1. work[p].entity.status = "PAIRED" => step[p] = "found"
      BY <2>2, <2>5 DEF DeviceLoaded, Busy, Registers, Pairs, Revokes, Chooses
    <3>2. work[p].entity.status = "PAIRED" => "token" \in work'[p].columns
      BY <1>0, <2>5, <3>1 DEF DeviceLoaded, EntityOf
    <3>3. \A f \in DOMAIN NoRow :
             work[p].entity[f] # device[work[p].device][f] => f \in work'[p].columns
      BY <2>5 DEF DeviceLoaded
    <3>4. step'[p] = "loaded" /\ work'[p].row = NoRow
      BY <2>3, <2>5 DEF DeviceLoaded
    <3>5. QED
      BY <2>1, <2>3, <3>2, <3>3, <3>4 DEF EntityOf, Keep
  <2>6. CASE DeviceUpdated(p)
    <3>1. \A f \in DOMAIN NoRow : work[p].entity[f] # device[work[p].device][f]
                                     => f \in work[p].columns
      BY <1>0, <2>6 DEF DeviceUpdated, EntityOf
    <3>2. work[p].entity \in DeviceRows /\ device[work[p].device] \in DeviceRows
      BY <2>2 DEF Work, TypeOK
    <3>3. CASE work[p].columns = {} /\ work'[p].row = work[p].row
      <4>1. work[p].entity.status # "PAIRED"
        BY <1>0, <2>6, <3>3 DEF DeviceUpdated, EntityOf
      <4>2. work[p].entity.status = "REVOKED"
        BY <2>3, <3>2, <4>1, EntityRows
      <4>3. device[work[p].device] = work[p].entity
        BY <3>1, <3>2, <3>3, RowsTyped DEF DeviceRows
      <4>4. QED
        BY <2>1, <2>3, <2>6, <3>3, <4>2, <4>3 DEF DeviceUpdated, EntityOf, Keep
    <3>4. CASE work'[p].row = Merged(work[p].entity, device[work[p].device], work[p].columns)
      <4>1. work'[p].row = work[p].entity
        BY <3>1, <3>2, <3>4, MergedRow
      <4>2. QED
        BY <2>1, <2>3, <2>6, <4>1 DEF DeviceUpdated, EntityOf, Keep
    <3>5. QED
      BY <2>6, <3>3, <3>4 DEF DeviceUpdated
  <2>7. CASE CourierLoaded(p)
    <3>1. step[p] = "saved"
      BY <2>2, <2>7 DEF CourierLoaded, Busy, Registers, Pairs, Revokes, Chooses
    <3>2. QED
      BY <1>0, <2>1, <2>7, <3>1 DEF CourierLoaded, EntityOf, Keep
  <2>8. CASE CourierUpdated(p)
    BY <1>0, <2>1, <2>8 DEF CourierUpdated, EntityOf, Keep
  <2>9. CASE CourierCleared(p)
    BY <1>0, <2>1, <2>9 DEF CourierCleared, EntityOf, Keep
  <2>10. QED
    BY <2>1, <2>4, <2>5, <2>6, <2>7, <2>8, <2>9
<1>4. QED
  BY <1>1, <1>2, <1>3, Movers

\* A COMMIT on a device that nobody has raced for writes the entity.
LEMMA CommitsEntity ==
    ASSUME TypeOK, WorkOK, EntityOK, NEW q \in Requests, Commit(q), work[q].device \notin raced,
           work[q].row # NoRow \/ work[q].entity.status = "PAIRED"
    PROVE  LET w == work[q]
               d == w.device
           IN \/ Registers(q) /\ w.row = New(actor[q].company)
              \/ Pairs(q) /\ step[q] = "ready" /\ w.row = w.entity /\ w.row # NoRow
                 /\ w.row = Paired(device[d], w.courier)
              \/ Revokes(q) /\ w.row = w.entity /\ w.row = Revoked(device[d])
<1> DEFINE w == work[q]
           d == w.device
<1>1. /\ Busy(q) /\ d \in Devices
      /\ step[q] = "ready" \/ (step[q] = "saved" /\ w.entity.status = "REVOKED")
  BY CommitWrites
<1>2. CASE Registers(q)
  BY <1>1, <1>2 DEF Registers
<1>3. CASE Pairs(q) \/ Revokes(q)
  <2>1. w.entity.status \in {"PAIRED", "REVOKED"} /\ w.entity # NoRow
    BY <1>3 DEF Pairs, Revokes, NoRow
  <2>2. /\ w.entity = IF w.entity.status = "PAIRED" THEN Paired(device[d], w.courier)
                                                    ELSE Revoked(device[d])
        /\ \/ w.row = w.entity
           \/ w.entity.status = "REVOKED" /\ w.row = NoRow
    BY <1>1, <2>1 DEF EntityOK, EntityOf
  <2>3. w.row = w.entity
    BY <2>2
  <2>4. QED
    BY <1>1, <1>3, <2>1, <2>2, <2>3 DEF Pairs, Revokes
<1>4. QED
  BY <1>1, <1>2, <1>3 DEF Busy, Chooses, NoRow

LEMMA TokenPreserved ==
    TypeOK /\ WorkOK /\ RacedOK /\ EntityOK /\ TokenWhilePaired /\ [Next]_vars => TokenWhilePaired'
<1> SUFFICES ASSUME TypeOK, WorkOK, RacedOK, EntityOK, TokenWhilePaired, [Next]_vars,
                    NEW d \in Devices, d \notin raced'
             PROVE  /\ device'[d].token <=> device'[d].status = "PAIRED"
                    /\ device'[d].courier # NoCourier <=> device'[d].status = "PAIRED"
  BY DEF TokenWhilePaired
<1>0. d \notin raced
  BY RacedPreserved
<1>1. CASE device'[d] = device[d]
  BY <1>0, <1>1 DEF TokenWhilePaired
<1>2. ASSUME NEW q \in Requests, Commit(q), d = work[q].device, work[q].row # NoRow
      PROVE  /\ device'[d].token <=> device'[d].status = "PAIRED"
             /\ device'[d].courier # NoCourier <=> device'[d].status = "PAIRED"
  <2>1. device'[d] = work[q].row /\ device[d] \in DeviceRows
    BY <1>2, CommitWrites DEF TypeOK
  <2>2. CASE work[q].row = New(actor[q].company)
    BY <2>1, <2>2 DEF New
  <2>3. CASE Pairs(q) /\ work[q].row = Paired(device[d], work[q].courier)
    BY <2>1, <2>3, EntityRows, NoDeviceNoCourier DEF Pairs, Saves
  <2>4. CASE work[q].row = Revoked(device[d])
    BY <2>1, <2>4, EntityRows
  <2>5. QED
    BY <1>0, <1>2, <2>2, <2>3, <2>4, CommitsEntity
<1>3. CASE UNCHANGED rows
  BY <1>1, <1>3 DEF rows
<1>4. QED
  BY <1>1, <1>2, <1>3, RowSteps, CommitWrites

LEMMA PointerPreserved ==
    TypeOK /\ WorkOK /\ RacedOK /\ PointerOK /\ [Next]_vars => PointerOK'
<1> SUFFICES ASSUME TypeOK, WorkOK, RacedOK, PointerOK, [Next]_vars, NEW p \in Requests,
                    step'[p] # "start"
             PROVE  PointerOf(p)'
  BY DEF PointerOK, PointerOf
<1>0. PointerOf(p) /\ raced \subseteq raced'
  BY RacedPreserved DEF PointerOK
<1>1. CASE Unmoved(p) /\ step[p] # "start"
  BY <1>0, <1>1, OthersKept DEF PointerOf, Unmoved
<1>2. CASE Start(p)
  <2>1. PICK to \in Steps, w \in Work : Find(p, to, w) /\ Started(p, to, w)
    BY <1>2, Starts
  <2>2. /\ w.points = Kept /\ to \in {"inserting", "found", "revoking", "chosen"}
        /\ step'[p] = to /\ work'[p] = w /\ UNCHANGED rows
    <3>1. step'[p] = to /\ work'[p] = w /\ UNCHANGED rows
      BY <2>1, FindMoves
    <3>2. w.points = Kept
      BY <2>1, StartsIdle
    <3>3. QED
      BY <2>1, <3>1, <3>2 DEF Started
  <2>3. w.entity = NoRow /\ w.courier \in Couriers => current[w.courier] = w.pointer
    <3>1. \A d : Registering(p, d, w) => w.courier = NoCourier
      BY DEF Registering, Idle
    <3>2. \A d \in Devices, c \in Couriers : Pairing(p, d, c, w) => w.entity # NoRow
      BY EntityRows DEF Pairing, Idle, TypeOK
    <3>3. \A d \in Devices : Revoking(p, d, w) => w.entity # NoRow
      BY EntityRows DEF Revoking, Idle, TypeOK
    <3>4. \A c : Choosing(p, c, w) => w.courier = c /\ w.pointer = current[c]
      BY DEF Choosing, Idle
    <3>5. QED
      BY <2>1, <3>1, <3>2, <3>3, <3>4, NoDeviceNoCourier DEF Started
  <2>4. QED
    BY <2>2, <2>3, NoDeviceNoCourier DEF PointerOf, rows
<1>3. CASE QuietStep(p)
  <2>1. /\ current' = current /\ raced' = raced /\ Keep(p)
        /\ \/ Inserted(p) \/ DeviceLoaded(p) \/ DeviceUpdated(p)
           \/ CourierLoaded(p) \/ CourierUpdated(p) \/ CourierCleared(p)
    BY <1>3, Statements DEF rows, aux
  <2>2. step[p] # "start" /\ Busy(p)
    BY <2>1 DEF WorkOK, Inserted, DeviceLoaded, DeviceUpdated, CourierLoaded, CourierUpdated,
                CourierCleared
  <2>3. CASE Inserted(p)
    <3>1. work[p].courier \notin Couriers
      BY <2>2, <2>3, NoDeviceNoCourier DEF Inserted, Busy, Registers, Pairs, Revokes, Chooses
    <3>2. QED
      BY <2>1, <3>1 DEF PointerOf, Keep
  <2>4. CASE DeviceLoaded(p) \/ DeviceUpdated(p)
    BY <1>0, <2>1, <2>2, <2>4 DEF DeviceLoaded, DeviceUpdated, PointerOf, Keep
  <2>5. CASE CourierLoaded(p)
    BY <1>0, <2>1, <2>2, <2>5 DEF CourierLoaded, PointerOf, Keep
  <2>6. CASE CourierUpdated(p)
    <3>1. work[p].entity.status # "REVOKED" /\ work[p].points = Kept
      BY <2>2, <2>6 DEF CourierUpdated, Busy, Registers, Pairs, Revokes, Chooses, Saves, NoRow
    <3>2. QED
      BY <1>0, <2>1, <2>2, <2>6, <3>1 DEF CourierUpdated, PointerOf, Keep
  <2>7. CASE CourierCleared(p)
    BY <1>0, <2>1, <2>2, <2>7 DEF CourierCleared, PointerOf, Keep
  <2>8. QED
    BY <2>1, <2>3, <2>4, <2>5, <2>6, <2>7
<1>4. QED
  BY <1>1, <1>2, <1>3, Movers

LEMMA BondPreserved ==
    /\ TypeOK /\ WorkOK /\ RacedOK /\ EntityOK /\ PointerOK /\ BondOK /\ PairingIsMutual
    /\ [Next]_vars
    => BondOK' /\ PairingIsMutual'
<1> SUFFICES ASSUME TypeOK, WorkOK, RacedOK, EntityOK, PointerOK, BondOK, PairingIsMutual,
                    [Next]_vars
             PROVE  BondOK' /\ PairingIsMutual'
  OBVIOUS
<1>1. CASE UNCHANGED <<rows, bond, raced>>
  BY <1>1 DEF BondOK, PairingIsMutual, rows
<1>2. ASSUME NEW q \in Requests, Start(q)
      PROVE  BondOK' /\ PairingIsMutual'
  <2>1. /\ UNCHANGED rows
        /\ bond' = {b \in bond : b[1] \notin raced' /\ b[2] \notin raced'}
    BY <1>2, Starts, FindMoves
  <2>2. QED
    BY <2>1 DEF BondOK, PairingIsMutual, rows
<1>3. ASSUME NEW q \in Requests, Commit(q), NEW b \in bond'
      PROVE  /\ b[1] \notin raced' /\ b[2] \notin raced'
             /\ device'[b[1]].courier = b[2] /\ current'[b[2]] = b[1]
  <2> DEFINE w == work[q]
  <2>1. /\ w \in Work /\ Busy(q) /\ raced' = raced
        /\ bond' \subseteq Devices \X Couriers
        /\ \A d \in Devices : device'[d] = IF d = w.device /\ w.row # NoRow THEN w.row ELSE device[d]
        /\ \A c \in Couriers :
              current'[c] = IF c = w.courier /\ w.points # Kept THEN w.points ELSE current[c]
    BY <1>3, CommitWrites
  <2>2. b[1] \in Devices /\ b[2] \in Couriers
    BY <2>1
  <2>3. CASE b \in bond /\ b[1] # w.device /\ (w.entity.status = "PAIRED" => b[2] # w.courier)
    <3>1. b[1] \notin raced /\ b[2] \notin raced
      BY <2>3 DEF BondOK
    <3>2. device[b[1]].courier = b[2] /\ current[b[2]] = b[1]
      BY <2>3 DEF PairingIsMutual
    <3>3. ASSUME b[2] = w.courier, w.points # Kept
          PROVE  w.points = current[b[2]]
      <4>1. Revokes(q) \/ Chooses(q)
        BY <2>1, <2>3, <3>3 DEF Busy, Registers, Pairs
      <4>2. CASE Revokes(q)
        <5>1. w.points = NoDevice
          BY <3>3, <4>2 DEF Revokes
        <5>2. current[w.courier] = w.device
          BY <2>2, <3>1, <3>3, <4>2, <5>1 DEF PointerOK, PointerOf, Revokes
        <5>3. QED
          BY <2>3, <3>2, <3>3, <5>2
      <4>3. CASE Chooses(q)
        BY <2>2, <3>1, <3>3, <4>3 DEF PointerOK, PointerOf, Chooses, Saves
      <4>4. QED
        BY <4>1, <4>2, <4>3
    <3>4. QED
      BY <2>1, <2>2, <2>3, <3>1, <3>2, <3>3
  <2>4. CASE /\ b = <<w.device, w.courier>> /\ w.entity.status = "PAIRED"
             /\ b[1] \notin raced /\ b[2] \notin raced
    <3>1. /\ Pairs(q) /\ step[q] = "ready" /\ w.row # NoRow
          /\ w.row = Paired(device[w.device], w.courier)
      BY <1>3, <2>4, CommitsEntity DEF Registers, Revokes, NoRow
    <3>2. device'[b[1]].courier = b[2]
      BY <2>1, <2>4, <3>1, EntityRows DEF TypeOK
    <3>3. w.points = w.device \/ (w.points = Kept /\ current[w.courier] = w.device)
      BY <2>2, <2>4, <3>1 DEF PointerOK, PointerOf, Pairs
    <3>4. current'[b[2]] = b[1]
      BY <2>1, <2>2, <2>4, <3>1, <3>3, NoDeviceNoCourier DEF Pairs
    <3>5. QED
      BY <2>1, <2>4, <3>2, <3>4
  <2>5. QED
    BY <1>3, <2>3, <2>4, CommitWrites
<1>4. ASSUME NEW q \in Requests, Commit(q)
      PROVE  BondOK' /\ PairingIsMutual'
  BY <1>3, <1>4 DEF BondOK, PairingIsMutual
<1>5. QED
  BY <1>1, <1>2, <1>4, StepKinds, ScopeMoves, Statements DEF Rollback, vars, rows, aux

----------------------------------------------------------------------------
(* The theorems *)

LEMMA InitialState == Init => IInv
<1> SUFFICES ASSUME Init PROVE IInv
  OBVIOUS
<1> USE DEF Init, TInit
<1>1. TypeOK
  <2>1. Unset \in Settings
    BY DEF Unset, Settings
  <2>2. TenancyTypeOK
    BY <2>1 DEF TenancyTypeOK
  <2>3. "start" \in Steps
    BY DEF Steps
  <2>4. device \in [Devices -> DeviceRows] /\ work \in [Requests -> Work]
    BY RowsTyped
  <2>5. current \in [Couriers -> Devices \cup {NoDevice}] /\ step \in [Requests -> Steps]
    BY <2>3
  <2>6. bond \subseteq Devices \X Couriers /\ raced \subseteq Devices \cup Couriers
    OBVIOUS
  <2>7. QED
    BY <2>2, <2>4, <2>5, <2>6 DEF TypeOK
<1>2. HoldsOK /\ SettingOK
  <2>1. /\ \A q \in Requests : conn[q] = NoConn /\ at[q] = "idle" /\ actor[q] = Unset
        /\ \A c \in Free : setting[c] = Unset
    BY DEF Free
  <2>2. QED
    BY <2>1 DEF HoldsOK, SettingOK
<1>3. DevicesOK
  BY DEF DevicesOK, Registered, Within
<1>4. WorkOK /\ EntityOK /\ PointerOK
  BY DEF WorkOK, EntityOK, EntityOf, PointerOK, PointerOf
<1>5. RowLockOK /\ RacedOK
  BY NoDeviceNoCourier DEF RowLockOK, RacedOK, Holds, Idle
<1>6. TokenWhilePaired /\ BondOK /\ PairingIsMutual
  BY DEF TokenWhilePaired, BondOK, PairingIsMutual, NoRow
<1>7. QED
  BY <1>1, <1>2, <1>3, <1>4, <1>5, <1>6 DEF IInv

LEMMA Inductive == IInv /\ [Next]_vars => IInv'
  BY TypePreserved, HoldsPreserved, SettingPreserved, DevicesPreserved, WorkPreserved,
     RowLockPreserved, RacedPreserved, EntityPreserved, TokenPreserved, PointerPreserved,
     BondPreserved
  DEF IInv, TypeOK

\* What is behind the others: what each handler has read, locked and not committed, and what of it
\* other requests can have worked on.
THEOREM DevicesInvariant == Spec => []IInv
  BY InitialState, Inductive, PTL DEF Spec

\* Every row, setting and local variable has its type.
THEOREM TypeCorrect == Spec => []TypeOK
<1>1. IInv => TypeOK
  BY DEF IInv
<1>2. QED
  BY <1>1, DevicesInvariant, PTL

\* rls.e2e-spec.ts: a connection serves one request, whose statements see the rows of their actor's
\* company only, whoever has had the connection before.
THEOREM Isolation == Spec => []TenantIsolation
<1>1. IInv => TenantIsolation
  BY NullsAreNotIds DEF IInv, TypeOK, TenancyTypeOK, Settings, HoldsOK, SettingOK, TenantIsolation,
                        Visible, Free, Unset, Actors, Member, SuperAdmin
<1>2. QED
  BY <1>1, DevicesInvariant, PTL

\* A device and a courier that point at each other, either way, are of one company.
THEOREM OneCompany == Spec => []PairingStaysInCompany
<1>1. IInv => PairingStaysInCompany
  BY DEF IInv, DevicesOK, InCompany, Within, PairingStaysInCompany
<1>2. QED
  BY <1>1, DevicesInvariant, PTL

\* devices.service.ts:50-56: a revoked device cannot be used with its old token.
THEOREM TokenGoesWithPairing == Spec => []TokenWhilePaired
<1>1. IInv => TokenWhilePaired
  BY DEF IInv
<1>2. QED
  BY <1>1, DevicesInvariant, PTL

\* A pairing that nothing has undone, or raced for, shows in both rows.
THEOREM MutualPairing == Spec => []PairingIsMutual
<1>1. IInv => PairingIsMutual
  BY DEF IInv
<1>2. QED
  BY <1>1, DevicesInvariant, PTL

=============================================================================
