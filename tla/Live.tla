-------------------------------- MODULE Live --------------------------------
(***************************************************************************)
(* What the dashboard shows while it is open. On the backend: the reports  *)
(* of a courier's position (LocationsService, its cache in Redis and the   *)
(* throttle in front of location_points), the changes of a courier's       *)
(* status, the events that both emit before their transaction commits, and *)
(* the gateway that sends an event to the sockets of the company. In the   *)
(* browser: the page that the server has rendered, the one socket, the map *)
(* that applies positions in place, and the refresher of the other pages.  *)
(*                                                                         *)
(* One backend process. A tab is loaded anew, never navigated within. Time *)
(* passes in windows: the ten seconds in which a courier's reports add no  *)
(* second row. Positions are the numbers of the reports.                   *)
(***************************************************************************)
EXTENDS Naturals, Sequences

CONSTANTS
    Companies,
    Couriers,
    Employer,       \* [Couriers -> Companies]
    Tabs,
    Statuses,       \* those a courier may choose
    Requests,       \* slots of handlers on the backend
    MaxRequests,    \* how many requests couriers send: a bound
    NoCourier, NoStatus

ASSUME Employment == Employer \in [Couriers -> Companies]
ASSUME NullsAreNotIds == NoCourier \notin Couriers /\ NoStatus \notin Statuses
ASSUME BoundIsNatural == MaxRequests \in Nat

VARIABLES
    status,     \* [Couriers -> Statuses]: couriers.status, committed
    cache,      \* [Couriers -> report]: Redis, where 0 is no entry
    recent,     \* the couriers whose lastPersistedAt is less than ten seconds ago
    sent,       \* how many requests the couriers have sent, which numbers the reports
    pc,         \* how far each handler has come
    work,       \* its local variables
    kind,       \* [Tabs -> "map" or "list"]
    company,    \* [Tabs -> Companies]: of its user
    page,       \* [Tabs -> "none", "arriving" or "mounted"]
    marks,      \* [Tabs -> [Couriers -> report]]: locations of MapView
    listed,     \* [Tabs -> [Couriers -> Statuses]]: what a list page shows
    token,      \* [Tabs -> "none", "good" or "old"]: what the socket was created with
    sock,       \* [Tabs -> the state of the socket]
    inbox,      \* [Tabs -> the events on their way to it]
    timer,      \* the tabs whose refresher is pending
    refresh,    \* [Tabs -> "none", "asked" or "answered"]: router.refresh()
    answer,     \* [Tabs -> what the server has answered]
    points,     \* auxiliary: [Couriers -> rows of location_points of this window]
    latest,     \* auxiliary: [Couriers -> the report last broadcast]
    uncached,   \* auxiliary: couriers whose last report Redis has lost, or never got
    raced,      \* auxiliary: couriers whose reports have overlapped or failed
    behind      \* auxiliary: <<tab, courier>>: the tab could not know of the last change

backend == <<status, cache, recent, sent, pc, work>>
user    == <<kind, company>>
tab     == <<user, page, marks, listed, token, sock, inbox, timer, refresh, answer>>
aux     == <<points, latest, uncached, raced, behind>>
vars    == <<status, cache, recent, sent, pc, work, kind, company, page, marks, listed, token, sock,
             inbox, timer, refresh, answer, points, latest, uncached, raced, behind>>

Idle == [courier |-> NoCourier, report |-> 0, status |-> NoStatus, inserted |-> FALSE]
Mine(t) == {c \in Couriers : Employer[c] = company[t]}
Blank   == [c \in Couriers |-> NoStatus]
List(t) == [c \in Couriers |-> IF c \in Mine(t) THEN status[c] ELSE NoStatus]

Init ==
    /\ status \in [Couriers -> Statuses]
    /\ cache = [c \in Couriers |-> 0]
    /\ recent = {}
    /\ sent = 0
    /\ pc = [r \in Requests |-> "idle"]
    /\ work = [r \in Requests |-> Idle]
    /\ kind \in [Tabs -> {"map", "list"}]
    /\ company \in [Tabs -> Companies]
    /\ page = [t \in Tabs |-> "none"]
    /\ marks = [t \in Tabs |-> [c \in Couriers |-> 0]]
    /\ listed = [t \in Tabs |-> Blank]
    /\ token = [t \in Tabs |-> "none"]
    /\ sock = [t \in Tabs |-> "none"]
    /\ inbox = [t \in Tabs |-> <<>>]
    /\ timer = {}
    /\ refresh = [t \in Tabs |-> "none"]
    /\ answer = [t \in Tabs |-> Blank]
    /\ points = [c \in Couriers |-> 0]
    /\ latest = [c \in Couriers |-> 0]
    /\ uncached = {}
    /\ raced = {}
    /\ behind = {}

Step(r, from, to, w) ==
    /\ pc[r] = from
    /\ pc' = [pc EXCEPT ![r] = to]
    /\ work' = [work EXCEPT ![r] = w]

Reporting(c) == {r \in Requests : work[r].courier = c /\ work[r].report # 0}
Changing(c)  == {r \in Requests : work[r].courier = c /\ work[r].status # NoStatus}

----------------------------------------------------------------------------
(* The backend *)

\* record(), from the socket of the courier or POST /couriers/me/location: the courier is looked
\* up, and the time is taken.
Report(r, c) ==
    /\ sent < MaxRequests
    /\ sent' = sent + 1
    /\ Step(r, "idle", "caching", [Idle EXCEPT !.courier = c, !.report = sent + 1])
    /\ raced' = IF Reporting(c) = {} THEN raced ELSE raced \cup {c}
    /\ UNCHANGED <<status, cache, recent, tab, points, latest, uncached, behind>>

\* The position goes to Redis. set() swallows every failure.
CacheLocation(r) ==
    LET c == work[r].courier IN
    /\ Step(r, "caching", "checking", work[r])
    /\ \/ cache' = [cache EXCEPT ![c] = work[r].report] /\ uncached' = uncached \ {c}
       \/ UNCHANGED cache /\ uncached' = uncached \cup {c}
    /\ UNCHANGED <<status, recent, sent, tab, points, latest, raced, behind>>

\* A slip: a report that adds no row is dropped.
CheckAndDrop(r) ==
    /\ IF work[r].courier \in recent THEN Step(r, "checking", "idle", Idle)
                                     ELSE Step(r, "checking", "inserting", work[r])
    /\ UNCHANGED <<status, cache, recent, sent, tab, aux>>

CheckInterval(r) ==
    /\ Step(r, "checking", IF work[r].courier \in recent THEN "emitting" ELSE "inserting", work[r])
    /\ UNCHANGED <<status, cache, recent, sent, tab, aux>>

\* A slip: the time of the row is not kept.
InsertOnly(r) ==
    /\ Step(r, "inserting", "emitting", [work[r] EXCEPT !.inserted = TRUE])
    /\ UNCHANGED <<status, cache, recent, sent, tab, aux>>

\* The row is in, and lastPersistedAt is now.
InsertPoint(r) ==
    /\ Step(r, "inserting", "emitting", [work[r] EXCEPT !.inserted = TRUE])
    /\ recent' = recent \cup {work[r].courier}
    /\ UNCHANGED <<status, cache, sent, tab, aux>>

\* updateOwnStatus(): save() writes nothing when the status is what it was, or waits for the row.
SetStatus(r, c, s) ==
    /\ sent < MaxRequests
    /\ sent' = sent + 1
    /\ \/ s = status[c] /\ Step(r, "idle", "emitting", [Idle EXCEPT !.courier = c])
       \/ /\ Changing(c) = {}
          /\ Step(r, "idle", "emitting", [Idle EXCEPT !.courier = c, !.status = s])
    /\ UNCHANGED <<status, cache, recent, tab, aux>>

\* A slip: the two ids of the payload change places.
EventSwapped(w) == [courier |-> Employer[w.courier], report |-> w.report]

Event(w) == [courier |-> w.courier, report |-> w.report]

\* A slip: the gateway sends to every socket.
Everyone(c) == {t \in Tabs : sock[t] = "joined"}

\* The room of the courier's company.
Room(c) == {t \in Tabs : sock[t] = "joined" /\ company[t] = Employer[c]}

\* The event is emitted, and handed to the sockets in the room.
Emit(r) ==
    LET w == work[r]
        c == w.courier
    IN /\ Step(r, "emitting", "committing", w)
       /\ inbox' = [t \in Tabs |-> IF t \in Room(c) THEN Append(inbox[t], Event(w)) ELSE inbox[t]]
       /\ latest' = IF w.report = 0 THEN latest ELSE [latest EXCEPT ![c] = w.report]
       /\ behind' = behind \cup {<<t, c>> : t \in {u \in Tabs \ Room(c) : c \in Mine(u)}}
       /\ UNCHANGED <<status, cache, recent, sent, user, page, marks, listed, token, sock, timer,
                      refresh, answer, points, uncached, raced>>

\* A refresh of the tab that has yet to read will see what is committed now.
WillRead(t, c) ==
    \/ t \in timer \/ refresh[t] = "asked"
    \/ \E i \in DOMAIN inbox[t] : inbox[t][i].courier = c

\* The lists of the courier's company that show its status and will not read it again.
Overtaken(c) == {t \in Tabs : kind[t] = "list" /\ c \in Mine(t) /\ ~WillRead(t, c)}

Commit(r) ==
    LET w == work[r]
        c == w.courier
        late == {t \in Overtaken(c) : w.status # NoStatus}
    IN /\ Step(r, "committing", "idle", Idle)
       /\ status' = IF w.status = NoStatus THEN status ELSE [status EXCEPT ![c] = w.status]
       /\ points' = IF w.inserted THEN [points EXCEPT ![c] = @ + 1] ELSE points
       /\ behind' = behind \cup {<<t, c>> : t \in late}
       /\ UNCHANGED <<cache, recent, sent, tab, latest, uncached, raced>>

\* pair() of Devices saves the courier it has read, and with it an old status: of that no event tells.
PutBack(c, s) ==
    /\ sent < MaxRequests
    /\ sent' = sent + 1
    /\ s # status[c] /\ Changing(c) = {}
    /\ status' = [status EXCEPT ![c] = s]
    /\ behind' = behind \cup {<<t, c>> : t \in Overtaken(c)}
    /\ UNCHANGED <<cache, recent, pc, work, tab, points, latest, uncached, raced>>

\* The handler fails, at any statement of it, and its transaction is rolled back.
Fail(r) ==
    /\ pc[r] # "idle"
    /\ Step(r, pc[r], "idle", Idle)
    /\ raced' = IF work[r].report = 0 THEN raced ELSE raced \cup {work[r].courier}
    /\ UNCHANGED <<status, cache, recent, sent, tab, points, latest, uncached, behind>>

\* Ten seconds have passed since lastPersistedAt; no transaction takes that long.
WindowPasses(c) ==
    /\ c \in recent
    /\ \A r \in Reporting(c) : ~work[r].inserted
    /\ recent' = recent \ {c}
    /\ points' = [points EXCEPT ![c] = 0]
    /\ UNCHANGED <<status, cache, sent, pc, work, tab, latest, uncached, raced, behind>>

\* Ninety seconds without a report: the entry in Redis expires.
CacheExpires(c) ==
    /\ cache[c] # 0
    /\ Reporting(c) = {} /\ c \notin recent
    /\ cache' = [cache EXCEPT ![c] = 0]
    /\ uncached' = uncached \cup {c}
    /\ UNCHANGED <<status, recent, sent, pc, work, tab, points, latest, raced, behind>>

\* What a dropped connection takes with it.
Lost(T) == {b \in T \X Couriers : \E i \in DOMAIN inbox[b[1]] : inbox[b[1]][i].courier = b[2]}

\* The process is restarted: its handlers, its memory and its sockets are gone.
Restart ==
    LET cut == {t \in Tabs : sock[t] \in {"connecting", "joined"}} IN
    /\ pc' = [r \in Requests |-> "idle"]
    /\ work' = [r \in Requests |-> Idle]
    /\ recent' = {}
    /\ raced' = raced \cup recent \cup {c \in Couriers : Reporting(c) # {}}
    /\ sock' = [t \in Tabs |-> IF t \in cut THEN "down" ELSE sock[t]]
    /\ inbox' = [t \in Tabs |-> <<>>]
    /\ behind' = behind \cup Lost(Tabs)
    /\ UNCHANGED <<status, cache, sent, user, page, marks, listed, token, timer, refresh, answer, points,
                   latest, uncached>>

----------------------------------------------------------------------------
(* The browser *)

\* The tab is loaded: the server renders the page from couriers and, for the map, the cache, where
\* get() takes a failure for no entry.
Load(t) ==
    \E unread \in SUBSET {c \in Mine(t) : kind[t] = "map" /\ cache[c] # 0} :
        /\ page' = [page EXCEPT ![t] = "arriving"]
        /\ marks' = [marks EXCEPT ![t] = [c \in Couriers |->
                        IF kind[t] = "map" /\ c \in Mine(t) \ unread THEN cache[c] ELSE 0]]
        /\ listed' = [listed EXCEPT ![t] = IF kind[t] = "list" THEN List(t) ELSE Blank]
        /\ token' = [token EXCEPT ![t] = "none"]
        /\ sock' = [sock EXCEPT ![t] = "none"]
        /\ inbox' = [inbox EXCEPT ![t] = <<>>]
        /\ timer' = timer \ {t}
        /\ refresh' = [refresh EXCEPT ![t] = "none"]
        /\ answer' = [answer EXCEPT ![t] = Blank]
        /\ behind' = {b \in behind : b[1] # t}
                        \cup {<<t, c>> : c \in {d \in unread \cup uncached : kind[t] = "map"}}
        /\ UNCHANGED <<backend, user, points, latest, uncached, raced>>

Mount(t) ==
    /\ page[t] = "arriving"
    /\ page' = [page EXCEPT ![t] = "mounted"]
    /\ UNCHANGED <<backend, user, marks, listed, token, sock, inbox, timer, refresh, answer, aux>>

\* RealtimeProvider asks once for a token, and makes the socket with it.
FetchToken(t) ==
    /\ page[t] = "mounted" /\ token[t] = "none"
    /\ token' = [token EXCEPT ![t] = "good"]
    /\ UNCHANGED <<backend, user, page, marks, listed, sock, inbox, timer, refresh, answer, aux>>

TokenExpires(t) ==
    /\ token[t] = "good"
    /\ token' = [token EXCEPT ![t] = "old"]
    /\ UNCHANGED <<backend, user, page, marks, listed, sock, inbox, timer, refresh, answer, aux>>

\* The socket connects, at first and again after it was cut: from now on the tab says "connected".
Connect(t) ==
    /\ token[t] # "none" /\ sock[t] \in {"none", "down"}
    /\ sock' = [sock EXCEPT ![t] = "connecting"]
    /\ UNCHANGED <<backend, user, page, marks, listed, token, inbox, timer, refresh, answer, aux>>

\* handleConnection(): the socket joins the room, or is disconnected, and then it does not
\* reconnect by itself.
HandleConnection(t) ==
    /\ sock[t] = "connecting"
    /\ sock' = [sock EXCEPT ![t] = IF token[t] = "good" THEN "joined" ELSE "refused"]
    /\ UNCHANGED <<backend, user, page, marks, listed, token, inbox, timer, refresh, answer, aux>>

\* The network cuts the socket.
Drop(t) ==
    /\ sock[t] \in {"connecting", "joined"}
    /\ sock' = [sock EXCEPT ![t] = "down"]
    /\ inbox' = [inbox EXCEPT ![t] = <<>>]
    /\ behind' = behind \cup Lost({t})
    /\ UNCHANGED <<backend, user, page, marks, listed, token, timer, refresh, answer, points, latest,
                   uncached, raced>>

\* A slip: the refresher drops what comes before the answer of the refresh in progress.
ReceiveWhenDone(t) ==
    /\ inbox[t] # <<>>
    /\ inbox' = [inbox EXCEPT ![t] = Tail(@)]
    /\ timer' = IF kind[t] = "list" /\ refresh[t] = "none" THEN timer \cup {t} ELSE timer
    /\ UNCHANGED <<backend, user, page, marks, listed, token, sock, refresh, answer, aux>>

\* An event arrives. The map puts a position in place; the refresher sets its timer, unless it is
\* pending.
Receive(t) ==
    /\ inbox[t] # <<>>
    /\ inbox' = [inbox EXCEPT ![t] = Tail(@)]
    /\ LET e == Head(inbox[t]) IN
       \/ /\ kind[t] = "map"
          /\ marks' = IF e.report = 0 THEN marks ELSE [marks EXCEPT ![t][e.courier] = e.report]
          /\ behind' = IF e.report = 0 THEN behind ELSE behind \ {<<t, e.courier>>}
          /\ UNCHANGED timer
       \/ /\ kind[t] = "list"
          /\ timer' = timer \cup {t}
          /\ UNCHANGED <<marks, behind>>
    /\ UNCHANGED <<backend, user, page, listed, token, sock, refresh, answer, points, latest, uncached, raced>>

\* 800 ms later: router.refresh(). The router does one after the other, as if the timer of the
\* second took longer.
StartRefresh(t) ==
    /\ t \in timer /\ refresh[t] = "none"
    /\ timer' = timer \ {t}
    /\ refresh' = [refresh EXCEPT ![t] = "asked"]
    /\ UNCHANGED <<backend, user, page, marks, listed, token, sock, inbox, answer, aux>>

\* The server renders the page again...
Render(t) ==
    /\ refresh[t] = "asked"
    /\ refresh' = [refresh EXCEPT ![t] = "answered"]
    /\ answer' = [answer EXCEPT ![t] = List(t)]
    /\ behind' = {b \in behind : b[1] # t}
    /\ UNCHANGED <<backend, user, page, marks, listed, token, sock, inbox, timer, points, latest,
                   uncached, raced>>

\* ...and the browser shows it.
ShowRefreshed(t) ==
    /\ refresh[t] = "answered"
    /\ listed' = [listed EXCEPT ![t] = answer[t]]
    /\ refresh' = [refresh EXCEPT ![t] = "none"]
    /\ answer' = [answer EXCEPT ![t] = Blank]
    /\ UNCHANGED <<backend, user, page, marks, token, sock, inbox, timer, aux>>

Handler(r) ==
    \/ \E c \in Couriers : Report(r, c) \/ \E s \in Statuses : SetStatus(r, c, s)
    \/ CacheLocation(r) \/ CheckInterval(r) \/ InsertPoint(r) \/ Emit(r) \/ Commit(r) \/ Fail(r)

Tab(t) ==
    \/ Load(t) \/ Mount(t) \/ FetchToken(t) \/ TokenExpires(t) \/ Connect(t) \/ HandleConnection(t)
    \/ Drop(t) \/ Receive(t) \/ StartRefresh(t) \/ Render(t) \/ ShowRefreshed(t)

Next ==
    \/ \E r \in Requests : Handler(r)
    \/ \E t \in Tabs : Tab(t)
    \/ \E c \in Couriers :
          WindowPasses(c) \/ CacheExpires(c) \/ \E s \in Statuses : PutBack(c, s)
    \/ Restart

Spec == Init /\ [][Next]_vars

----------------------------------------------------------------------------
(* Properties *)

Reports == 0 .. MaxRequests
Work    == [courier : Couriers \cup {NoCourier}, report : Reports,
            status : Statuses \cup {NoStatus}, inserted : BOOLEAN]
Events  == [courier : Couriers, report : Reports]
Lists   == [Couriers -> Statuses \cup {NoStatus}]

\* The type of everything stored, on its way and on show.
TypeOK ==
    /\ status \in [Couriers -> Statuses]
    /\ cache \in [Couriers -> Reports]
    /\ recent \subseteq Couriers /\ uncached \subseteq Couriers /\ raced \subseteq Couriers
    /\ sent \in Reports
    /\ pc \in [Requests -> {"idle", "caching", "checking", "inserting", "emitting", "committing"}]
    /\ work \in [Requests -> Work]
    /\ kind \in [Tabs -> {"map", "list"}]
    /\ company \in [Tabs -> Companies]
    /\ page \in [Tabs -> {"none", "arriving", "mounted"}]
    /\ marks \in [Tabs -> [Couriers -> Reports]]
    /\ listed \in [Tabs -> Lists]
    /\ token \in [Tabs -> {"none", "good", "old"}]
    /\ sock \in [Tabs -> {"none", "connecting", "joined", "down", "refused"}]
    /\ inbox \in [Tabs -> Seq(Events)]
    /\ timer \subseteq Tabs
    /\ refresh \in [Tabs -> {"none", "asked", "answered"}]
    /\ answer \in [Tabs -> Lists]
    /\ points \in [Couriers -> Nat]
    /\ latest \in [Couriers -> Reports]
    /\ behind \subseteq Tabs \X Couriers

\* realtime.gateway.ts:33-39: whatever is on its way to a tab, and whatever it shows, is of the
\* couriers of its own company.
RoomsStaySeparate ==
    \A t \in Tabs :
        /\ \A i \in DOMAIN inbox[t] : inbox[t][i].courier \in Mine(t)
        /\ \A c \in Couriers \ Mine(t) : marks[t][c] = 0 /\ listed[t][c] = NoStatus

\* locations.service.ts:10-23: unless reports of a courier have overlapped or failed, a window has
\* one row of the courier at most, and has it if the throttle holds further rows back.
TrailIsSampled ==
    \A c \in Couriers \ raced :
        /\ points[c] <= 1
        /\ c \in recent /\ Reporting(c) = {} => points[c] = 1

\* MapView.tsx:28-34: a map at rest shows for every courier the report broadcast last, unless that
\* was sent while the tab was not in the room, had overtaken another, or was not to be had from
\* Redis when the tab was loaded: then the next report to arrive puts it right.
MapShowsLatest ==
    \A t \in Tabs : kind[t] = "map" /\ page[t] # "none" /\ inbox[t] = <<>> =>
        \A c \in Mine(t) \ raced :
            Reporting(c) = {} /\ <<t, c>> \notin behind => marks[t][c] = latest[c]

\* RealtimeRefresher.tsx:7-16: a list at rest shows what is committed, however the events came,
\* unless one was sent while the tab was not in the room, its commit came after the refresh, or a
\* pairing put an old status back.
ListShowsCommitted ==
    \A t \in Tabs :
        /\ kind[t] = "list" /\ page[t] # "none"
        /\ inbox[t] = <<>> /\ t \notin timer /\ refresh[t] = "none"
        => \A c \in Mine(t) : <<t, c>> \notin behind => listed[t][c] = status[c]

=============================================================================
