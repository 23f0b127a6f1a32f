------------------------------ MODULE Devices ------------------------------
(***************************************************************************)
(* DevicesService (modules/devices) in the transactions of Tenancy: the    *)
(* company's staff register tracking devices, pair them with couriers and  *)
(* revoke them. updateOwnStatus() of CouriersService saves the row that    *)
(* points at the courier's device. A device goes by its hardware id.       *)
(*                                                                         *)
(* Reads see what is committed. save(entity) loads the row and then        *)
(* updates the columns in which the entity differs from what it has        *)
(* loaded. An UPDATE waits for the transaction that has changed the row,   *)
(* and what it writes shows when its own commits. Of two transactions that *)
(* wait for each other the database aborts one.                            *)
(***************************************************************************)
EXTENDS Tenancy

CONSTANTS
    Devices,
    Couriers,
    Employer,       \* [Couriers -> Companies]
    NoDevice, NoCourier, Kept

ASSUME EmployerIsCompany == Employer \in [Couriers -> Companies]
ASSUME NoDeviceNoCourier ==
    /\ {NoDevice, NoCourier, Kept} \cap (Devices \cup Couriers) = {}
    /\ NoDevice # Kept

VARIABLES
    device,     \* [Devices -> row of devices]
    current,    \* [Couriers -> Devices]: currentDeviceId in the row of couriers
    step,       \* how far each request's handler has come
    work,       \* its local variables, and what it has written and not committed
    bond,       \* auxiliary: the pairings that nothing has undone, or raced for, since
    raced       \* auxiliary: devices and couriers that two requests have worked on at once

rows == <<device, current>>
aux  == <<bond, raced>>
vars == <<tvars, device, current, step, work, bond, raced>>

NoRow    == [company |-> NoCompany, status |-> "none", token |-> FALSE, courier |-> NoCourier]
New(k)   == [company |-> k, status |-> "UNPAIRED", token |-> FALSE, courier |-> NoCourier]
\* A slip: the id of the company goes into the column of the courier.
PairedSwapped(row, c) == [row EXCEPT !.status = "PAIRED", !.token = TRUE, !.courier = row.company]

Paired(row, c) == [row EXCEPT !.status = "PAIRED", !.token = TRUE, !.courier = c]
Revoked(row)   == [row EXCEPT !.status = "REVOKED", !.token = FALSE, !.courier = NoCourier]

\* What a handler has read and changed: the entity of the device, and the currentDeviceId in that
\* of the courier; then the columns it saves, and what it has written to either row.
Idle == [device |-> NoDevice, courier |-> NoCourier, entity |-> NoRow, pointer |-> NoDevice,
         columns |-> {}, row |-> NoRow, points |-> Kept]

Init ==
    /\ TInit
    /\ device = [d \in Devices |-> NoRow]
    /\ current = [c \in Couriers |-> NoDevice]
    /\ step = [q \in Requests |-> "start"]
    /\ work = [q \in Requests |-> Idle]
    /\ bond = {}
    /\ raced = {}

Registered  == {d \in Devices : device[d] # NoRow}
Mine(q, k)  == k = actor[q].company /\ k \in Visible(conn[q])
Holds(q, d) == work[q].device = d /\ work[q].row # NoRow
Keeps(q, c) == work[q].courier = c /\ work[q].points # Kept

\* No other transaction has changed the row.
DeviceFree(q, d)  == \A p \in Requests \ {q} : ~Holds(p, d)
CourierFree(q, c) == \A p \in Requests \ {q} : ~Keeps(p, c)

Continue(q, from, to, w) ==
    /\ at[q] = "open" /\ step[q] = from
    /\ step' = [step EXCEPT ![q] = to]
    /\ work' = [work EXCEPT ![q] = w]

\* The request has read the device, and its courier: from now on it works on them.
Find(q, to, w) ==
    LET Rows(v)   == {v.device, v.courier} \ {NoDevice, NoCourier}
        rivals    == {p \in Requests \ {q} : Rows(w) \cap Rows(work[p]) # {}}
    IN /\ Continue(q, "start", to, w)
       /\ raced' = raced \cup UNION {Rows(w) \cup Rows(work[p]) : p \in rivals}
       /\ bond' = {b \in bond : {b[1], b[2]} \cap raced' = {}}
       /\ UNCHANGED <<pool, at, actor, rows>>

Quiet == UNCHANGED <<tvars, rows, aux>>

----------------------------------------------------------------------------
\* register(): no device of that hardware id is visible. The row is inserted, and fails if there
\* is one that was not visible: hardwareId is UNIQUE.
FindNone(q, d) ==
    /\ actor[q].company # NoCompany
    /\ device[d].company \notin Visible(conn[q])
    /\ Find(q, "inserting", [Idle EXCEPT !.device = d])

\* A slip: hardwareId is not UNIQUE.
InsertAny(q) ==
    LET d == work[q].device IN
    /\ DeviceFree(q, d)
    /\ Continue(q, "inserting", "ready", [work[q] EXCEPT !.row = New(actor[q].company)])
    /\ Quiet

Insert(q) ==
    LET d == work[q].device IN
    /\ DeviceFree(q, d)
    /\ d \notin Registered
    /\ Continue(q, "inserting", "ready", [work[q] EXCEPT !.row = New(actor[q].company)])
    /\ Quiet

----------------------------------------------------------------------------
\* pair(): the device and the courier are read; every column that pair() sets is in the entity,
\* the hash of the new token always differing from the old.
FindPair(q, d, c) ==
    /\ d \in Registered
    /\ Mine(q, device[d].company)
    /\ Mine(q, Employer[c])
    /\ Find(q, "found", [Idle EXCEPT !.device = d, !.courier = c, !.entity = Paired(device[d], c),
                                     !.pointer = d, !.columns = {"token"}])

\* save(device), first half: the row as it is committed now.
LoadDevice(q) ==
    LET w == work[q]
        different == {f \in DOMAIN NoRow : w.entity[f] # device[w.device][f]}
    IN /\ w.entity # NoRow
       /\ \E from \in {"found", "cleared"} :
             Continue(q, from, "loaded", [w EXCEPT !.columns = @ \cup different])
       /\ Quiet

\* A slip: the UPDATE writes the token only.
UpdateToken(q) ==
    LET w == work[q] IN
    /\ DeviceFree(q, w.device)
    /\ Continue(q, "loaded", "saved",
          [w EXCEPT !.row = [device[w.device] EXCEPT !.token = w.entity.token], !.columns = {}])
    /\ Quiet

\* The second half: the columns that differed, and no statement when none did.
UpdateDevice(q) ==
    LET w == work[q]
        new == [f \in DOMAIN NoRow |-> IF f \in w.columns THEN w.entity[f] ELSE device[w.device][f]]
    IN /\ \/ w.columns = {} /\ Continue(q, "loaded", "saved", w)
          \/ /\ w.columns # {} /\ DeviceFree(q, w.device)
             /\ Continue(q, "loaded", "saved", [w EXCEPT !.row = new, !.columns = {}])
       /\ Quiet

\* pair() goes on with save(courier), as does updateOwnStatus(): it loads the row. The status, kept
\* in OrderTransactions, may differ too: from a courier's choice, or since the courier was read.
LoadCourier(q) ==
    LET w == work[q]
        differs == {f \in {"currentDeviceId"} : current[w.courier] # w.pointer}
    IN /\ \/ w.entity.status = "PAIRED" /\ step[q] = "saved"
          \/ step[q] = "chosen"
       /\ \E other \in SUBSET {"status"} :
             Continue(q, step[q], "courierLoaded", [w EXCEPT !.columns = differs \cup other])
       /\ Quiet

\* ...and updates the columns that differ: the row is locked, whichever they are.
UpdateCourier(q) ==
    LET w == work[q]
        new == IF "currentDeviceId" \in w.columns THEN w.pointer ELSE current[w.courier]
    IN /\ \/ w.columns = {} /\ Continue(q, "courierLoaded", "ready", w)
          \/ /\ w.columns # {} /\ CourierFree(q, w.courier)
             /\ Continue(q, "courierLoaded", "ready", [w EXCEPT !.points = new, !.columns = {}])
       /\ Quiet

----------------------------------------------------------------------------
\* updateOwnStatus(): the courier's own row, and with it the device it points at.
FindOwn(q, c) ==
    /\ Mine(q, Employer[c])
    /\ Find(q, "chosen", [Idle EXCEPT !.courier = c, !.pointer = current[c]])

----------------------------------------------------------------------------
\* revoke(): the device is read, with the courier it was paired with.
FindRevoke(q, d) ==
    /\ d \in Registered
    /\ Mine(q, device[d].company)
    /\ Find(q, "revoking", [Idle EXCEPT !.device = d, !.courier = device[d].courier,
                                        !.entity = Revoked(device[d])])

\* A slip: the UPDATE names the courier only, who may have another device by now.
ClearAnyPointer(q) ==
    LET w == work[q] IN
    /\ \/ w.courier = NoCourier /\ Continue(q, "revoking", "cleared", w)
       \/ /\ w.courier # NoCourier /\ CourierFree(q, w.courier)
          /\ Continue(q, "revoking", "cleared", [w EXCEPT !.points = NoDevice])
    /\ Quiet

\* The UPDATE of couriers WHERE id and currentDeviceId: it waits only for a row that matches.
ClearCourier(q) ==
    LET w == work[q]
        matches == w.courier # NoCourier /\ current[w.courier] = w.device
    IN /\ \/ ~matches /\ Continue(q, "revoking", "cleared", w)
          \/ /\ matches /\ CourierFree(q, w.courier)
             /\ Continue(q, "revoking", "cleared", [w EXCEPT !.points = NoDevice])
       /\ Quiet

----------------------------------------------------------------------------
Finish(q) ==
    /\ Release(q)
    /\ UNCHANGED queue
    /\ step' = [step EXCEPT ![q] = "start"]
    /\ work' = [work EXCEPT ![q] = Idle]

\* The audit row, the broadcast and the COMMIT.
Commit(q) ==
    LET w == work[q]
        others == {b \in bond : b[1] # w.device /\ (w.entity.status = "PAIRED" => b[2] # w.courier)}
    IN /\ at[q] = "open"
       /\ \/ step[q] = "ready"
          \/ step[q] = "saved" /\ w.entity.status = "REVOKED"
       /\ device' = IF w.row = NoRow THEN device ELSE [device EXCEPT ![w.device] = w.row]
       /\ current' = IF w.points = Kept THEN current ELSE [current EXCEPT ![w.courier] = w.points]
       /\ bond' = others \cup {b \in {<<w.device, w.courier>>} :
                               w.entity.status = "PAIRED" /\ raced \cap {b[1], b[2]} = {}}
       /\ UNCHANGED raced
       /\ Finish(q)

\* The handler throws: not the actor's device or courier, a hardware id in use, a super admin, a
\* lost connection or a failed statement.
Rollback(q) == at[q] = "open" /\ Finish(q) /\ UNCHANGED <<rows, aux>>

\* Of two transactions that wait for each other, either is aborted.
WaitsFor(q, p) ==
    \/ step[q] = "loaded" /\ work[q].columns # {} /\ Holds(p, work[q].device)
    \/ step[q] = "courierLoaded" /\ work[q].columns # {} /\ Keeps(p, work[q].courier)
    \/ step[q] = "revoking" /\ Keeps(p, work[q].courier)

Abort(q) ==
    /\ \E p \in Requests \ {q} : WaitsFor(q, p) /\ WaitsFor(p, q)
    /\ Rollback(q)

\* What a handler does that finds nothing to work on.
Refuse(q) ==
    /\ at[q] = "open"
    /\ \/ step[q] = "start"
       \/ step[q] = "inserting" /\ work[q].device \in Registered
    /\ Rollback(q)

Handler(q) ==
    \/ Insert(q) \/ LoadDevice(q) \/ UpdateDevice(q) \/ LoadCourier(q) \/ UpdateCourier(q)
    \/ ClearCourier(q) \/ Commit(q) \/ Abort(q) \/ Refuse(q)

Start(q) ==
    /\ at[q] = "open"
    /\ \/ \E d \in Devices : FindNone(q, d) \/ FindRevoke(q, d)
       \/ \E d \in Devices, c \in Couriers : FindPair(q, d, c)
       \/ \E c \in Couriers : FindOwn(q, c)

Scope(q) ==
    /\ Ask(q) \/ Serve(q) \/ (AskProfile(q) /\ step[q] = "start")
    /\ UNCHANGED <<rows, step, work, aux>>

Next == \E q \in Requests : Scope(q) \/ Start(q) \/ Handler(q) \/ Rollback(q)

Spec == Init /\ [][Next]_vars

----------------------------------------------------------------------------
(* Properties *)

DeviceRows == [company : Companies \cup {NoCompany},
               status : {"none", "UNPAIRED", "PAIRED", "REVOKED"}, token : BOOLEAN,
               courier : Couriers \cup {NoCourier}]
Work == [device : Devices \cup {NoDevice}, courier : Couriers \cup {NoCourier},
         entity : DeviceRows, pointer : Devices \cup {NoDevice},
         columns : SUBSET (DOMAIN NoRow \cup {"currentDeviceId"}),
         row : DeviceRows, points : Devices \cup {NoDevice, Kept}]
Steps == {"start", "inserting", "found", "chosen", "revoking", "cleared", "loaded", "saved",
          "courierLoaded", "ready"}

\* The type of every row, setting and local variable.
TypeOK ==
    /\ TenancyTypeOK
    /\ device \in [Devices -> DeviceRows]
    /\ current \in [Couriers -> Devices \cup {NoDevice}]
    /\ step \in [Requests -> Steps]
    /\ work \in [Requests -> Work]
    /\ bond \subseteq Devices \X Couriers
    /\ raced \subseteq Devices \cup Couriers

\* However requests of several companies race for a hardware id, of which none sees what another has
\* registered, a device and a courier that point at each other, either way, are of one company.
PairingStaysInCompany ==
    /\ \A d \in Registered :
          device[d].courier # NoCourier => Employer[device[d].courier] = device[d].company
    /\ \A c \in Couriers : current[c] # NoDevice =>
          current[c] \in Registered /\ Employer[c] = device[current[c]].company

\* devices.service.ts:50-56: unless requests have raced for it, a device has a pairing token and
\* a courier exactly while it is paired: a revoked device cannot be used with its old token.
TokenWhilePaired ==
    \A d \in Devices \ raced :
        /\ device[d].token <=> device[d].status = "PAIRED"
        /\ device[d].courier # NoCourier <=> device[d].status = "PAIRED"

\* devices.service.ts:70-77, 102-109: unless requests have raced for either, a courier's own status
\* among them, a pairing that nothing has undone shows on both sides.
PairingIsMutual ==
    \A b \in bond : device[b[1]].courier = b[2] /\ current[b[2]] = b[1]

=============================================================================
