---------------------------- MODULE Live_proofs ----------------------------
(***************************************************************************)
(* What holds of Live for any number of companies, couriers, tabs and      *)
(* handlers, wherever a handler fails, a socket is cut or the process is   *)
(* restarted.                                                              *)
(***************************************************************************)
EXTENDS Live, TLAPS

\* A handler works for a courier, and has inserted a row only for a report.
RequestOK(r) ==
    /\ pc[r] = "idle" => work[r] = Idle
    /\ pc[r] # "idle" => work[r].courier \in Couriers
    /\ pc[r] \in {"caching", "checking", "inserting"} => work[r].report # 0 /\ ~work[r].inserted
    /\ work[r].inserted => work[r].report # 0

WorkOK == \A r \in Requests : RequestOK(r)

\* Events are on their way only to a socket that is in its room.
SocketsOK == \A t \in Tabs : inbox[t] # << >> => sock[t] = "joined"

\* Only a list refreshes.
RefreshesOK == \A t \in Tabs : t \in timer \/ refresh[t] # "none" => kind[t] = "list"

\* What the server has answered is of the company, too.
AnswersOK == \A t \in Tabs : \A c \in Couriers \ Mine(t) : answer[t][c] = NoStatus

\* Of a courier whose reports have neither overlapped nor failed one report is handled at a time,
\* and there is a row in the window unless the report that has inserted it is yet to commit.
Inserted(c) == \E r \in Reporting(c) : work[r].inserted
SampleOK == \A c \in Couriers \ raced :
    /\ \A q, r \in Reporting(c) : q = r
    /\ points[c] = IF c \in recent /\ ~Inserted(c) THEN 1 ELSE 0
    /\ \A r \in Reporting(c) :
          /\ work[r].inserted => c \in recent
          /\ pc[r] = "inserting" => c \notin recent

\* Redis has the report broadcast last, or the one that is about to be.
Cached == {"checking", "inserting", "emitting"}
CacheOK == \A c \in Couriers \ (raced \cup uncached) :
    /\ \A r \in Reporting(c) : pc[r] \in Cached => cache[c] = work[r].report
    /\ (\A r \in Reporting(c) : pc[r] \notin Cached) => cache[c] = latest[c]

\* The last report on its way to a tab is the one broadcast last; if none is, the map shows it,
\* unless the next is about to come.
Positions(t, c) == {i \in DOMAIN inbox[t] : inbox[t][i].courier = c /\ inbox[t][i].report # 0}
Coming(c) == \E r \in Reporting(c) : pc[r] # "committing"
InboxOK == \A t \in Tabs : \A c \in Couriers \ raced : \A i \in Positions(t, c) :
    (\A j \in Positions(t, c) : j <= i) => inbox[t][i].report = latest[c]
MarksOK == \A t \in Tabs : \A c \in Mine(t) \ raced :
    kind[t] = "map" /\ page[t] # "none" /\ Positions(t, c) = {} /\ <<t, c>> \notin behind =>
        Coming(c) \/ marks[t][c] = latest[c]

\* A list will read what is committed, has read it, or shows it.
ListOK == \A t \in Tabs : \A c \in Mine(t) :
    kind[t] = "list" /\ page[t] # "none" /\ <<t, c>> \notin behind =>
        \/ WillRead(t, c)
        \/ refresh[t] = "answered" /\ answer[t][c] = status[c]
        \/ refresh[t] = "none" /\ listed[t][c] = status[c]

IInv ==
    /\ TypeOK /\ WorkOK /\ SocketsOK /\ RefreshesOK /\ RoomsStaySeparate /\ AnswersOK
    /\ SampleOK /\ CacheOK /\ InboxOK /\ MarksOK /\ ListOK

----------------------------------------------------------------------------
LEMMA IdleIsWork == Idle \in Work /\ Idle.report = 0 /\ ~Idle.inserted
  BY BoundIsNatural DEF Idle, Work, Reports

\* A step of one handler moves no other.
LEMMA StepMoves ==
    ASSUME TypeOK, NEW r \in Requests, NEW from, NEW to, NEW w \in Work, Step(r, from, to, w),
           to \in {"idle", "caching", "checking", "inserting", "emitting", "committing"}
    PROVE  /\ pc[r] = from /\ pc'[r] = to /\ work'[r] = w
           /\ \A q \in Requests \ {r} : pc'[q] = pc[q] /\ work'[q] = work[q]
           /\ pc' \in [Requests -> {"idle", "caching", "checking", "inserting", "emitting",
                                    "committing"}]
           /\ work' \in [Requests -> Work]
  BY DEF TypeOK, Step

\* What each part of the invariant is about.
LEMMA Untouched ==
    ASSUME IInv
    PROVE  /\ UNCHANGED <<pc, work>> => WorkOK'
           /\ UNCHANGED <<sock, inbox>> => SocketsOK'
           /\ UNCHANGED <<timer, refresh, kind>> => RefreshesOK'
           /\ UNCHANGED <<company, inbox, marks, listed>> => RoomsStaySeparate'
           /\ UNCHANGED <<company, answer>> => AnswersOK'
           /\ UNCHANGED <<pc, work, recent, points, raced>> => SampleOK'
           /\ UNCHANGED <<pc, work, cache, latest, raced, uncached>> => CacheOK'
           /\ UNCHANGED <<inbox, latest, raced>> => InboxOK'
           /\ UNCHANGED <<pc, work, kind, company, page, inbox, marks, latest, raced, behind>> =>
                  MarksOK'
           /\ UNCHANGED <<kind, company, page, inbox, timer, refresh, answer, listed, status,
                          behind>> => ListOK'
<1>1. UNCHANGED <<pc, work>> => WorkOK'
  BY DEF IInv, WorkOK, RequestOK
<1>2. UNCHANGED <<sock, inbox>> => SocketsOK'
  BY DEF IInv, SocketsOK
<1>3. UNCHANGED <<company, inbox, marks, listed>> => RoomsStaySeparate'
  BY DEF IInv, RoomsStaySeparate, Mine
<1>4. UNCHANGED <<company, answer>> => AnswersOK'
  BY DEF IInv, AnswersOK, Mine
<1>5. UNCHANGED <<pc, work, recent, points, raced>> => SampleOK'
  BY DEF IInv, SampleOK, Inserted, Reporting
<1>6. UNCHANGED <<pc, work, cache, latest, raced, uncached>> => CacheOK'
  BY DEF IInv, CacheOK, Reporting
<1>7. UNCHANGED <<inbox, latest, raced>> => InboxOK'
  BY DEF IInv, InboxOK, Positions
<1>8. UNCHANGED <<pc, work, kind, company, page, inbox, marks, latest, raced, behind>> => MarksOK'
  BY DEF IInv, MarksOK, Mine, Positions, Coming, Reporting
<1>9. UNCHANGED <<kind, company, page, inbox, timer, refresh, answer, listed, status, behind>> => ListOK'
  BY DEF IInv, ListOK, Mine, WillRead
<1>10. UNCHANGED <<timer, refresh, kind>> => RefreshesOK'
  BY DEF IInv, RefreshesOK
<1>11. QED
  BY <1>1, <1>2, <1>3, <1>4, <1>5, <1>6, <1>7, <1>8, <1>9, <1>10

----------------------------------------------------------------------------
\* The page comes to life, and its socket comes and goes without a loss.
LEMMA SocketStepsOK ==
    ASSUME IInv, NEW t \in Tabs,
           Mount(t) \/ FetchToken(t) \/ TokenExpires(t) \/ Connect(t) \/ HandleConnection(t)
    PROVE  IInv'
<1>1. /\ UNCHANGED <<status, cache, recent, sent, pc, work, kind, company, marks, listed, inbox,
                     timer, refresh, answer, points, latest, uncached, raced, behind>>
      /\ page' \in [Tabs -> {"none", "arriving", "mounted"}]
      /\ token' \in [Tabs -> {"none", "good", "old"}]
      /\ sock' \in [Tabs -> {"none", "connecting", "joined", "down", "refused"}]
      /\ \A u \in Tabs : page'[u] = "none" <=> page[u] = "none"
      /\ \A u \in Tabs : sock[u] = "joined" => sock'[u] = "joined"
  <2>1. /\ page \in [Tabs -> {"none", "arriving", "mounted"}]
        /\ token \in [Tabs -> {"none", "good", "old"}]
        /\ sock \in [Tabs -> {"none", "connecting", "joined", "down", "refused"}]
    BY DEF IInv, TypeOK
  <2>2. CASE Mount(t)
    BY <2>1, <2>2 DEF Mount, backend, user, aux
  <2>3. CASE FetchToken(t)
    BY <2>1, <2>3 DEF FetchToken, backend, user, aux
  <2>4. CASE TokenExpires(t)
    BY <2>1, <2>4 DEF TokenExpires, backend, user, aux
  <2>5. CASE Connect(t)
    BY <2>1, <2>5 DEF Connect, backend, user, aux
  <2>6. CASE HandleConnection(t)
    BY <2>1, <2>6 DEF HandleConnection, backend, user, aux
  <2>7. QED
    BY <2>2, <2>3, <2>4, <2>5, <2>6
<1>2. TypeOK'
  BY <1>1 DEF IInv, TypeOK
<1>3. SocketsOK'
  BY <1>1 DEF IInv, SocketsOK
<1>4. MarksOK'
  BY <1>1 DEF IInv, MarksOK, Mine, Positions, Coming, Reporting
<1>5. ListOK'
  BY <1>1 DEF IInv, ListOK, Mine, WillRead
<1>6. QED
  BY <1>1, <1>2, <1>3, <1>4, <1>5, Untouched DEF IInv

\* A refresh of a list: asked for, answered, shown.
LEMMA StartRefreshOK ==
    ASSUME IInv, NEW t \in Tabs, StartRefresh(t)
    PROVE  IInv'
<1>1. /\ UNCHANGED <<status, cache, recent, sent, pc, work, kind, company, page, marks, listed,
                     token, sock, inbox, answer, points, latest, uncached, raced, behind>>
      /\ timer' = timer \ {t}
      /\ refresh' = [refresh EXCEPT ![t] = "asked"]
  BY DEF StartRefresh, backend, user, aux
<1>2. TypeOK'
  BY <1>1 DEF IInv, TypeOK
<1>3. ListOK'
  <2>1. refresh'[t] = "asked" /\ \A u \in Tabs \ {t} : refresh'[u] = refresh[u]
    BY <1>1 DEF IInv, TypeOK
  <2>2. QED
    BY <1>1, <2>1 DEF IInv, ListOK, Mine, WillRead
<1>4. RefreshesOK'
  BY <1>1 DEF IInv, TypeOK, RefreshesOK, StartRefresh
<1>5. QED
  BY <1>1, <1>2, <1>3, <1>4, Untouched DEF IInv

LEMMA ListIsTyped ==
    ASSUME TypeOK, NEW t \in Tabs
    PROVE  /\ List(t) \in Lists
           /\ \A c \in Couriers : List(t)[c] = IF c \in Mine(t) THEN status[c] ELSE NoStatus
  BY DEF TypeOK, List, Lists

LEMMA BlankIsTyped == Blank \in Lists /\ \A c \in Couriers : Blank[c] = NoStatus
  BY DEF Blank, Lists

LEMMA RenderOK ==
    ASSUME IInv, NEW t \in Tabs, Render(t)
    PROVE  IInv'
<1>1. /\ UNCHANGED <<status, cache, recent, sent, pc, work, kind, company, page, marks, listed,
                     token, sock, inbox, timer, points, latest, uncached, raced>>
      /\ refresh[t] = "asked"
      /\ refresh' = [refresh EXCEPT ![t] = "answered"]
      /\ answer' = [answer EXCEPT ![t] = List(t)]
      /\ behind' = {b \in behind : b[1] # t}
  BY DEF Render, backend, user
<1>2. TypeOK /\ List(t) \in Lists
  BY ListIsTyped DEF IInv
<1>3. /\ answer'[t] = List(t) /\ \A u \in Tabs \ {t} : answer'[u] = answer[u]
      /\ refresh'[t] = "answered" /\ \A u \in Tabs \ {t} : refresh'[u] = refresh[u]
      /\ \A u \in Tabs \ {t} : \A c \in Couriers : <<u, c>> \in behind' <=> <<u, c>> \in behind
  BY <1>1, <1>2 DEF TypeOK
<1>4. TypeOK'
  BY <1>1, <1>2 DEF TypeOK
<1>5. AnswersOK'
  BY <1>1, <1>2, <1>3, ListIsTyped DEF IInv, AnswersOK, Mine
<1>6. ListOK'
  <2>1. ASSUME NEW u \in Tabs \ {t}, NEW c \in Mine(u),
               kind[u] = "list", page[u] # "none", <<u, c>> \notin behind'
        PROVE  \/ WillRead(u, c)'
               \/ refresh'[u] = "answered" /\ answer'[u][c] = status'[c]
               \/ refresh'[u] = "none" /\ listed'[u][c] = status'[c]
    BY <1>1, <1>3, <2>1 DEF IInv, ListOK, Mine, WillRead
  <2>2. ASSUME NEW c \in Mine(t)
        PROVE  refresh'[t] = "answered" /\ answer'[t][c] = status'[c]
    BY <1>1, <1>2, <1>3, ListIsTyped DEF Mine
  <2>3. QED
    BY <1>1, <2>1, <2>2 DEF ListOK, Mine
<1>7. kind[t] = "list"
  BY <1>1 DEF IInv, RefreshesOK
<1>8. RefreshesOK'
  BY <1>1, <1>3, <1>7 DEF IInv, RefreshesOK
<1>9. MarksOK'
  BY <1>1, <1>3, <1>7 DEF IInv, MarksOK, Mine, Positions, Coming, Reporting
<1>10. QED
  BY <1>1, <1>4, <1>5, <1>6, <1>8, <1>9, Untouched DEF IInv

LEMMA ShowRefreshedOK ==
    ASSUME IInv, NEW t \in Tabs, ShowRefreshed(t)
    PROVE  IInv'
<1>1. /\ UNCHANGED <<status, cache, recent, sent, pc, work, kind, company, page, marks, token,
                     sock, inbox, timer, points, latest, uncached, raced, behind>>
      /\ refresh[t] = "answered"
      /\ listed' = [listed EXCEPT ![t] = answer[t]]
      /\ refresh' = [refresh EXCEPT ![t] = "none"]
      /\ answer' = [answer EXCEPT ![t] = Blank]
  BY DEF ShowRefreshed, backend, user, aux
<1>2. TypeOK /\ Blank \in Lists
  BY BlankIsTyped DEF IInv
<1>3. /\ answer'[t] = Blank /\ \A u \in Tabs \ {t} : answer'[u] = answer[u]
      /\ refresh'[t] = "none" /\ \A u \in Tabs \ {t} : refresh'[u] = refresh[u]
      /\ listed'[t] = answer[t] /\ \A u \in Tabs \ {t} : listed'[u] = listed[u]
  BY <1>1, <1>2 DEF TypeOK
<1>4. TypeOK'
  BY <1>1, <1>2 DEF TypeOK
<1>5. AnswersOK'
  BY <1>1, <1>3, BlankIsTyped DEF IInv, AnswersOK, Mine
<1>6. RoomsStaySeparate'
  BY <1>1, <1>3 DEF IInv, AnswersOK, RoomsStaySeparate, Mine
<1>7. RefreshesOK'
  BY <1>1, <1>3 DEF IInv, RefreshesOK
<1>8. ListOK'
  <2>1. ASSUME NEW u \in Tabs \ {t}, NEW c \in Mine(u),
               kind[u] = "list", page[u] # "none", <<u, c>> \notin behind
        PROVE  \/ WillRead(u, c)'
               \/ refresh'[u] = "answered" /\ answer'[u][c] = status'[c]
               \/ refresh'[u] = "none" /\ listed'[u][c] = status'[c]
    BY <1>1, <1>3, <2>1 DEF IInv, ListOK, Mine, WillRead
  <2>2. ASSUME NEW c \in Mine(t), kind[t] = "list", page[t] # "none", <<t, c>> \notin behind
        PROVE  \/ WillRead(t, c)'
               \/ refresh'[t] = "none" /\ listed'[t][c] = status'[c]
    BY <1>1, <1>3, <2>2 DEF IInv, ListOK, Mine, WillRead
  <2>3. QED
    BY <1>1, <2>1, <2>2 DEF ListOK, Mine
<1>9. QED
  BY <1>1, <1>4, <1>5, <1>6, <1>7, <1>8, Untouched DEF IInv

\* A page that is loaded starts from the rows and from Redis, and is behind with what Redis has
\* lost or does not tell.
LEMMA LoadOK ==
    ASSUME IInv, NEW t \in Tabs, Load(t)
    PROVE  IInv'
<1>0. PICK unread \in SUBSET {c \in Mine(t) : kind[t] = "map" /\ cache[c] # 0} :
        /\ UNCHANGED <<backend, user, points, latest, uncached, raced>>
        /\ page' = [page EXCEPT ![t] = "arriving"]
        /\ marks' = [marks EXCEPT ![t] = [c \in Couriers |->
                        IF kind[t] = "map" /\ c \in Mine(t) \ unread THEN cache[c] ELSE 0]]
        /\ listed' = [listed EXCEPT ![t] = IF kind[t] = "list" THEN List(t) ELSE Blank]
        /\ token' = [token EXCEPT ![t] = "none"]
        /\ sock' = [sock EXCEPT ![t] = "none"]
        /\ inbox' = [inbox EXCEPT ![t] = << >>]
        /\ timer' = timer \ {t}
        /\ refresh' = [refresh EXCEPT ![t] = "none"]
        /\ answer' = [answer EXCEPT ![t] = Blank]
        /\ behind' = {b \in behind : b[1] # t}
                        \cup {<<t, c>> : c \in {d \in unread \cup uncached : kind[t] = "map"}}
  BY DEF Load
<1> DEFINE m == [c \in Couriers |->
                    IF kind[t] = "map" /\ c \in Mine(t) \ unread THEN cache[c] ELSE 0]
           l == IF kind[t] = "list" THEN List(t) ELSE Blank
<1>1. /\ UNCHANGED <<status, cache, recent, sent, pc, work, kind, company, points, latest,
                     uncached, raced>>
      /\ page' = [page EXCEPT ![t] = "arriving"]
      /\ marks' = [marks EXCEPT ![t] = m]
      /\ listed' = [listed EXCEPT ![t] = l]
      /\ token' = [token EXCEPT ![t] = "none"]
      /\ sock' = [sock EXCEPT ![t] = "none"]
      /\ inbox' = [inbox EXCEPT ![t] = << >>]
      /\ timer' = timer \ {t}
      /\ refresh' = [refresh EXCEPT ![t] = "none"]
      /\ answer' = [answer EXCEPT ![t] = Blank]
      /\ behind' = {b \in behind : b[1] # t}
                      \cup {<<t, c>> : c \in {d \in unread \cup uncached : kind[t] = "map"}}
  BY <1>0 DEF backend, user
<1>2. TypeOK
  BY DEF IInv
<1>3. /\ m \in [Couriers -> Reports]
      /\ \A c \in Couriers : m[c] =
             IF kind[t] = "map" /\ c \in Mine(t) \ unread THEN cache[c] ELSE 0
  <2>1. 0 \in Reports
    BY BoundIsNatural DEF Reports
  <2>2. QED
    BY <1>2, <2>1 DEF TypeOK
<1>4. /\ l \in Lists
      /\ \A c \in Couriers : l[c] = IF kind[t] = "list" /\ c \in Mine(t) THEN status[c] ELSE NoStatus
  BY <1>2, ListIsTyped, BlankIsTyped
<1> HIDE DEF m, l
<1>5. /\ page'[t] = "arriving" /\ marks'[t] = m /\ listed'[t] = l /\ sock'[t] = "none"
      /\ inbox'[t] = << >> /\ refresh'[t] = "none" /\ answer'[t] = Blank
  BY <1>1, <1>2 DEF TypeOK
<1>6. \A u \in Tabs \ {t} :
         /\ page'[u] = page[u] /\ marks'[u] = marks[u] /\ listed'[u] = listed[u]
         /\ sock'[u] = sock[u] /\ inbox'[u] = inbox[u] /\ refresh'[u] = refresh[u]
         /\ answer'[u] = answer[u] /\ (u \in timer' <=> u \in timer)
  BY <1>1, <1>2 DEF TypeOK
<1>7. \A u \in Tabs \ {t} : \A c \in Couriers : <<u, c>> \in behind' <=> <<u, c>> \in behind
  BY <1>1
<1>8. \A c \in unread \cup uncached : kind[t] = "map" => <<t, c>> \in behind'
  BY <1>1
<1>9. DOMAIN inbox'[t] = {}
  BY <1>5
<1>10. TypeOK'
  <2>1. /\ marks' \in [Tabs -> [Couriers -> Reports]]
        /\ listed' \in [Tabs -> Lists]
        /\ answer' \in [Tabs -> Lists]
    BY <1>1, <1>2, <1>3, <1>4, BlankIsTyped DEF TypeOK
  <2>2. /\ page' \in [Tabs -> {"none", "arriving", "mounted"}]
        /\ token' \in [Tabs -> {"none", "good", "old"}]
        /\ sock' \in [Tabs -> {"none", "connecting", "joined", "down", "refused"}]
        /\ refresh' \in [Tabs -> {"none", "asked", "answered"}]
        /\ timer' \subseteq Tabs
    BY <1>1, <1>2 DEF TypeOK
  <2>3. inbox' \in [Tabs -> Seq(Events)]
    BY <1>1, <1>2 DEF TypeOK
  <2>4. behind' \subseteq Tabs \X Couriers
    BY <1>1, <1>2 DEF TypeOK, Mine
  <2>5. QED
    BY <1>1, <1>2, <2>1, <2>2, <2>3, <2>4 DEF TypeOK
<1>11. SocketsOK' /\ RefreshesOK' /\ AnswersOK'
  <2>1. SocketsOK'
    BY <1>5, <1>6 DEF IInv, SocketsOK
  <2>2. RefreshesOK'
    BY <1>1, <1>5, <1>6 DEF IInv, RefreshesOK
  <2>3. AnswersOK'
    BY <1>1, <1>5, <1>6, BlankIsTyped DEF IInv, AnswersOK, Mine
  <2>4. QED
    BY <2>1, <2>2, <2>3
<1>12. RoomsStaySeparate'
  BY <1>1, <1>3, <1>4, <1>5, <1>6, <1>9 DEF IInv, RoomsStaySeparate, Mine
<1>13. InboxOK'
  <2>1. ASSUME NEW u \in Tabs, NEW c \in Couriers \ raced, NEW i \in Positions(u, c)',
               \A j \in Positions(u, c)' : j <= i
        PROVE  inbox'[u][i].report = latest[c]
    <3>1. u # t
      BY <1>9, <2>1 DEF Positions
    <3>2. inbox'[u] = inbox[u]
      BY <1>6, <3>1
    <3>3. QED
      BY <2>1, <3>2 DEF IInv, InboxOK, Positions
  <2>2. QED
    BY <1>1, <2>1 DEF InboxOK
<1>14. MarksOK'
  <2>1. ASSUME NEW u \in Tabs, NEW c \in Mine(u) \ raced,
               kind[u] = "map", page'[u] # "none", Positions(u, c)' = {}, <<u, c>> \notin behind'
        PROVE  Coming(c) \/ marks'[u][c] = latest[c]
    <3>1. CASE u # t
      BY <1>6, <1>7, <2>1, <3>1 DEF IInv, MarksOK, Mine, Positions
    <3>2. CASE u = t
      <4>1. c \notin unread \cup uncached
        BY <1>8, <2>1, <3>2
      <4>2. marks'[u][c] = cache[c]
        BY <1>3, <1>5, <2>1, <3>2, <4>1 DEF Mine
      <4>3. QED
        BY <2>1, <4>1, <4>2 DEF IInv, CacheOK, Coming, Cached, Mine
    <3>3. QED
      BY <3>1, <3>2
  <2>2. QED
    BY <1>1, <2>1 DEF MarksOK, Mine, Coming, Reporting
<1>15. ListOK'
  <2>1. ASSUME NEW u \in Tabs, NEW c \in Mine(u),
               kind[u] = "list", page'[u] # "none", <<u, c>> \notin behind'
        PROVE  \/ WillRead(u, c)'
               \/ refresh'[u] = "answered" /\ answer'[u][c] = status[c]
               \/ refresh'[u] = "none" /\ listed'[u][c] = status[c]
    <3>1. CASE u # t
      BY <1>6, <1>7, <2>1, <3>1 DEF IInv, ListOK, Mine, WillRead
    <3>2. CASE u = t
      BY <1>4, <1>5, <2>1, <3>2 DEF Mine
    <3>3. QED
      BY <3>1, <3>2
  <2>2. QED
    BY <1>1, <2>1 DEF ListOK, Mine
<1>16. QED
  BY <1>1, <1>10, <1>11, <1>12, <1>13, <1>14, <1>15, Untouched DEF IInv

\* What is lost with a connection, the tab is behind with.
LEMMA LossOK ==
    ASSUME IInv, NEW T \in SUBSET Tabs,
           inbox' = [u \in Tabs |-> IF u \in T THEN << >> ELSE inbox[u]],
           behind' = behind \cup Lost(T),
           UNCHANGED <<status, kind, company, page, marks, listed, timer, refresh, answer, latest>>,
           raced \subseteq raced',
           \A c \in Couriers \ raced' : Coming(c) => Coming(c)'
    PROVE  /\ inbox' \in [Tabs -> Seq(Events)] /\ behind' \subseteq Tabs \X Couriers
           /\ RoomsStaySeparate' /\ InboxOK' /\ MarksOK' /\ ListOK'
<1>1. /\ \A u \in T : inbox'[u] = << >> /\ DOMAIN inbox'[u] = {}
      /\ \A u \in Tabs \ T : inbox'[u] = inbox[u]
  OBVIOUS
<1>2. ASSUME NEW u \in T, NEW c \in Couriers, <<u, c>> \notin behind'
      PROVE  \A i \in DOMAIN inbox[u] : inbox[u][i].courier # c
  BY <1>2 DEF Lost
<1>3. inbox' \in [Tabs -> Seq(Events)]
  BY <1>1 DEF IInv, TypeOK
<1>4. behind' \subseteq Tabs \X Couriers
  BY DEF IInv, TypeOK, Lost
<1>5. RoomsStaySeparate'
  <2>1. ASSUME NEW u \in Tabs, NEW i \in DOMAIN inbox'[u]
        PROVE  inbox'[u][i].courier \in Mine(u)
    BY <1>1, <2>1 DEF IInv, RoomsStaySeparate
  <2>2. QED
    BY <2>1 DEF IInv, RoomsStaySeparate, Mine
<1>6. InboxOK'
  <2>1. ASSUME NEW u \in Tabs, NEW c \in Couriers \ raced, NEW i \in Positions(u, c)',
               \A j \in Positions(u, c)' : j <= i
        PROVE  inbox'[u][i].report = latest[c]
    <3>1. u \notin T
      BY <1>1, <2>1 DEF Positions
    <3>2. inbox'[u] = inbox[u]
      BY <1>1, <3>1
    <3>3. QED
      BY <2>1, <3>2 DEF IInv, InboxOK, Positions
  <2>2. QED
    BY <2>1 DEF InboxOK
<1>7. MarksOK'
  <2>1. ASSUME NEW u \in Tabs, NEW c \in Mine(u) \ raced',
               kind[u] = "map", page[u] # "none", Positions(u, c)' = {}, <<u, c>> \notin behind'
        PROVE  Coming(c)' \/ marks[u][c] = latest[c]
    <3>1. Positions(u, c) = {}
      <4>1. CASE u \in T
        BY <1>2, <2>1, <4>1 DEF Positions, Mine
      <4>2. CASE u \notin T
        BY <1>1, <2>1, <4>2 DEF Positions
      <4>3. QED
        BY <4>1, <4>2
    <3>2. QED
      BY <2>1, <3>1 DEF IInv, MarksOK, Mine
  <2>2. QED
    BY <2>1 DEF MarksOK, Mine
<1>8. ListOK'
  <2>1. ASSUME NEW u \in Tabs, NEW c \in Mine(u), <<u, c>> \notin behind', WillRead(u, c)
        PROVE  WillRead(u, c)'
    <3>1. CASE u \in T
      BY <1>2, <2>1, <3>1 DEF WillRead, Mine
    <3>2. CASE u \notin T
      BY <1>1, <2>1, <3>2 DEF WillRead
    <3>3. QED
      BY <3>1, <3>2
  <2>2. QED
    BY <2>1 DEF IInv, ListOK, Mine
<1>9. QED
  BY <1>3, <1>4, <1>5, <1>6, <1>7, <1>8

LEMMA DropOK ==
    ASSUME IInv, NEW t \in Tabs, Drop(t)
    PROVE  IInv'
<1>1. /\ UNCHANGED <<status, cache, recent, sent, pc, work, kind, company, page, marks, listed,
                     token, timer, refresh, answer, points, latest, uncached, raced>>
      /\ sock' = [sock EXCEPT ![t] = "down"]
      /\ inbox' = [inbox EXCEPT ![t] = << >>]
      /\ behind' = behind \cup Lost({t})
  BY DEF Drop, backend, user
<1>2. inbox' = [u \in Tabs |-> IF u \in {t} THEN << >> ELSE inbox[u]]
  BY <1>1 DEF IInv, TypeOK
<1>3. \A c \in Couriers : Coming(c)' = Coming(c)
  BY <1>1 DEF Coming, Reporting
<1>4. /\ inbox' \in [Tabs -> Seq(Events)] /\ behind' \subseteq Tabs \X Couriers
      /\ RoomsStaySeparate' /\ InboxOK' /\ MarksOK' /\ ListOK'
  BY <1>1, <1>2, <1>3, LossOK
<1>5. TypeOK'
  BY <1>1, <1>4 DEF IInv, TypeOK
<1>6. SocketsOK'
  BY <1>1, <1>2 DEF IInv, TypeOK, SocketsOK
<1>7. QED
  BY <1>1, <1>4, <1>5, <1>6, Untouched DEF IInv

LEMMA RestartOK ==
    ASSUME IInv, Restart
    PROVE  IInv'
<1>1. /\ UNCHANGED <<status, cache, sent, kind, company, page, marks, listed, token, timer,
                     refresh, answer, points, latest, uncached>>
      /\ pc' = [r \in Requests |-> "idle"]
      /\ work' = [r \in Requests |-> Idle]
      /\ recent' = {}
      /\ raced' = raced \cup recent \cup {c \in Couriers : Reporting(c) # {}}
      /\ inbox' = [t \in Tabs |-> << >>]
      /\ behind' = behind \cup Lost(Tabs)
  BY DEF Restart, user
<1>2. sock' \in [Tabs -> {"none", "connecting", "joined", "down", "refused"}]
  BY DEF Restart, IInv, TypeOK
<1>3. \A c \in Couriers : Reporting(c)' = {}
  BY <1>1, IdleIsWork DEF Reporting
<1>4. \A c \in Couriers \ raced' : c \notin raced /\ c \notin recent /\ Reporting(c) = {}
  BY <1>1
<1>5. /\ inbox' \in [Tabs -> Seq(Events)] /\ behind' \subseteq Tabs \X Couriers
      /\ RoomsStaySeparate' /\ InboxOK' /\ MarksOK' /\ ListOK'
  <2>1. inbox' = [u \in Tabs |-> IF u \in Tabs THEN << >> ELSE inbox[u]]
    BY <1>1
  <2>2. \A c \in Couriers \ raced' : ~Coming(c)
    BY <1>4 DEF Coming
  <2>3. QED
    BY <1>1, <2>1, <2>2, LossOK
<1>6. TypeOK'
  BY <1>1, <1>2, <1>5, IdleIsWork DEF IInv, TypeOK
<1>7. WorkOK'
  BY <1>1, IdleIsWork DEF WorkOK, RequestOK
<1>8. SocketsOK'
  BY <1>1 DEF SocketsOK
<1>9. SampleOK'
  BY <1>1, <1>3, <1>4 DEF IInv, SampleOK, Inserted
<1>10. CacheOK'
  BY <1>1, <1>3, <1>4 DEF IInv, CacheOK
<1>11. QED
  BY <1>1, <1>5, <1>6, <1>7, <1>8, <1>9, <1>10, Untouched DEF IInv

LEMMA TailFacts ==
    ASSUME NEW E, NEW s \in Seq(E), s # << >>
    PROVE  /\ Tail(s) \in Seq(E)
           /\ Head(s) = s[1] /\ Head(s) \in E /\ 1 \in DOMAIN s
           /\ \A i \in DOMAIN Tail(s) : i \in Nat /\ i + 1 \in DOMAIN s /\ Tail(s)[i] = s[i + 1]
           /\ \A i \in DOMAIN s : i \in Nat /\ (i = 1 \/ i - 1 \in DOMAIN Tail(s))
  OBVIOUS

\* An event is taken from the inbox: the map shows it, the list will read.
LEMMA ReceiveOK ==
    ASSUME IInv, NEW t \in Tabs, Receive(t)
    PROVE  IInv'
<1> DEFINE s == inbox[t]
           e == Head(s)
<1>1. /\ UNCHANGED <<status, cache, recent, sent, pc, work, kind, company, page, listed, token, sock,
                     refresh, answer, points, latest, uncached, raced>>
      /\ s # << >>
      /\ inbox' = [inbox EXCEPT ![t] = Tail(s)]
      /\ \/ /\ kind[t] = "map"
            /\ marks' = IF e.report = 0 THEN marks ELSE [marks EXCEPT ![t][e.courier] = e.report]
            /\ behind' = IF e.report = 0 THEN behind ELSE behind \ {<<t, e.courier>>}
            /\ timer' = timer
         \/ /\ kind[t] = "list"
            /\ timer' = timer \cup {t}
            /\ marks' = marks /\ behind' = behind
  BY DEF Receive, backend, user
<1>2. TypeOK /\ s \in Seq(Events)
  BY DEF IInv, TypeOK
<1>3. /\ Tail(s) \in Seq(Events)
      /\ e = s[1] /\ e \in Events /\ 1 \in DOMAIN s
      /\ \A i \in DOMAIN Tail(s) : i \in Nat /\ i + 1 \in DOMAIN s /\ Tail(s)[i] = s[i + 1]
      /\ \A i \in DOMAIN s : i \in Nat /\ (i = 1 \/ i - 1 \in DOMAIN Tail(s))
  BY <1>1, <1>2, TailFacts
<1>4. /\ inbox' \in [Tabs -> Seq(Events)]
      /\ inbox'[t] = Tail(s) /\ \A u \in Tabs \ {t} : inbox'[u] = inbox[u]
  BY <1>1, <1>2, <1>3 DEF TypeOK
<1>5. e.courier \in Couriers /\ e.report \in Reports
  BY <1>3 DEF Events
<1> HIDE DEF e
<1>6. /\ marks' \in [Tabs -> [Couriers -> Reports]]
      /\ \A u \in Tabs \ {t} : marks'[u] = marks[u]
      /\ \A c \in Couriers : marks'[t][c] =
             IF kind[t] = "map" /\ e.report # 0 /\ c = e.courier THEN e.report ELSE marks[t][c]
  <2>1. CASE marks' = marks /\ (e.report = 0 \/ kind[t] # "map")
    BY <1>2, <2>1 DEF TypeOK
  <2>2. CASE /\ kind[t] = "map" /\ e.report # 0
             /\ marks' = [marks EXCEPT ![t][e.courier] = e.report]
    BY <1>2, <1>5, <2>2 DEF TypeOK
  <2>3. QED
    BY <1>1, <2>1, <2>2
<1>7. /\ behind' \subseteq behind
      /\ \A u \in Tabs \ {t} : \A c \in Couriers : <<u, c>> \in behind' <=> <<u, c>> \in behind
      /\ \A c \in Couriers : c # e.courier \/ e.report = 0 \/ kind[t] # "map" =>
             (<<t, c>> \in behind' <=> <<t, c>> \in behind)
  BY <1>1
<1>8. /\ timer' \subseteq Tabs /\ timer \subseteq timer'
      /\ \A u \in Tabs \ {t} : u \in timer' <=> u \in timer
      /\ t \in timer' => t \in timer \/ kind[t] = "list"
      /\ kind[t] = "list" => t \in timer'
  BY <1>1, <1>2 DEF TypeOK
<1>9. ASSUME NEW c \in Couriers
      PROVE  /\ \A i \in Positions(t, c)' : i \in Nat /\ i + 1 \in Positions(t, c)
             /\ \A i \in Positions(t, c) :
                    i \in Nat /\ (i = 1 \/ i - 1 \in Positions(t, c)')
             /\ 1 \in Positions(t, c) <=> e.courier = c /\ e.report # 0
             /\ \A u \in Tabs \ {t} : Positions(u, c)' = Positions(u, c)
  <2>1. \A i \in DOMAIN Tail(s) : inbox'[t][i] = s[i + 1]
    BY <1>3, <1>4
  <2>2. ASSUME NEW i \in Positions(t, c)'
        PROVE  i \in Nat /\ i + 1 \in Positions(t, c)
    BY <1>3, <1>4, <2>1, <2>2 DEF Positions
  <2>3. ASSUME NEW i \in Positions(t, c)
        PROVE  i \in Nat /\ (i = 1 \/ i - 1 \in Positions(t, c)')
    <3>1. i \in DOMAIN s /\ s[i].courier = c /\ s[i].report # 0
      BY <2>3 DEF Positions
    <3>2. CASE i - 1 \in DOMAIN Tail(s)
      <4>1. inbox'[t][i - 1] = s[(i - 1) + 1] /\ i \in Nat
        BY <1>3, <2>1, <3>1, <3>2
      <4>2. (i - 1) + 1 = i
        BY <4>1
      <4>3. QED
        BY <1>4, <3>1, <3>2, <4>1, <4>2 DEF Positions
    <3>3. QED
      BY <1>3, <3>1, <3>2
  <2>4. 1 \in Positions(t, c) <=> e.courier = c /\ e.report # 0
    BY <1>3 DEF Positions
  <2>5. \A u \in Tabs \ {t} : Positions(u, c)' = Positions(u, c)
    BY <1>4 DEF Positions
  <2>6. QED
    BY <2>2, <2>3, <2>4, <2>5
<1>10. TypeOK'
  BY <1>1, <1>2, <1>4, <1>6, <1>7, <1>8 DEF TypeOK
<1>11. SocketsOK'
  BY <1>1, <1>4 DEF IInv, SocketsOK
<1>12. RefreshesOK'
  BY <1>1, <1>8 DEF IInv, RefreshesOK
<1>13. RoomsStaySeparate'
  <2>1. ASSUME NEW i \in DOMAIN Tail(s)
        PROVE  Tail(s)[i].courier \in Mine(t)
    <3>1. i + 1 \in DOMAIN inbox[t] /\ Tail(s)[i] = inbox[t][i + 1]
      BY <1>3
    <3>2. QED
      BY <3>1 DEF IInv, RoomsStaySeparate
  <2>2. e.courier \in Mine(t)
    BY <1>3 DEF IInv, RoomsStaySeparate
  <2>3. \A u \in Tabs : \A i \in DOMAIN inbox'[u] : inbox'[u][i].courier \in Mine(u)
    BY <1>4, <2>1 DEF IInv, RoomsStaySeparate
  <2>4. \A u \in Tabs : \A c \in Couriers \ Mine(u) : marks'[u][c] = 0
    BY <1>6, <2>2 DEF IInv, RoomsStaySeparate
  <2>5. QED
    BY <1>1, <2>3, <2>4 DEF IInv, RoomsStaySeparate, Mine
<1>14. InboxOK'
  <2>1. ASSUME NEW u \in Tabs, NEW c \in Couriers \ raced, NEW i \in Positions(u, c)',
               \A j \in Positions(u, c)' : j <= i
        PROVE  inbox'[u][i].report = latest'[c]
    <3>0. latest' = latest
      BY <1>1
    <3>1. CASE u # t
      BY <1>4, <1>9, <2>1, <3>0, <3>1 DEF IInv, InboxOK
    <3>2. CASE u = t
      <4>1. i \in Nat /\ i + 1 \in Positions(t, c)
        BY <1>9, <2>1, <3>2
      <4>2. ASSUME NEW j \in Positions(t, c)
            PROVE  j <= i + 1
        <5>1. j \in Nat /\ (j = 1 \/ j - 1 <= i)
          BY <1>9, <2>1, <3>2
        <5>2. QED
          BY <4>1, <5>1
      <4>3. inbox[t][i + 1].report = latest[c]
        BY <4>1, <4>2 DEF IInv, InboxOK
      <4>4. i \in DOMAIN Tail(s)
        BY <1>4, <2>1, <3>2 DEF Positions
      <4>5. QED
        BY <1>3, <1>4, <3>0, <3>2, <4>3, <4>4
    <3>3. QED
      BY <3>1, <3>2
  <2>2. raced' = raced
    BY <1>1
  <2>3. QED
    BY <2>1, <2>2 DEF InboxOK
<1>15. MarksOK'
  <2>1. ASSUME NEW u \in Tabs, NEW c \in Mine(u) \ raced,
               kind[u] = "map", page[u] # "none", Positions(u, c)' = {}, <<u, c>> \notin behind'
        PROVE  Coming(c) \/ marks'[u][c] = latest[c]
    <3>0. c \in Couriers
      BY DEF Mine
    <3>1. CASE u # t
      BY <1>6, <1>7, <1>9, <2>1, <3>0, <3>1 DEF IInv, MarksOK
    <3>2. CASE u = t /\ e.courier = c /\ e.report # 0
      <4>1. 1 \in Positions(t, c) /\ \A j \in Positions(t, c) : j <= 1
        BY <1>9, <2>1, <3>0, <3>2
      <4>2. e.report = latest[c]
        BY <1>3, <3>0, <4>1 DEF IInv, InboxOK
      <4>3. QED
        BY <1>6, <2>1, <3>0, <3>2, <4>2
    <3>3. CASE u = t /\ ~(e.courier = c /\ e.report # 0)
      <4>1. Positions(t, c) = {}
        BY <1>9, <2>1, <3>0, <3>3
      <4>2. <<t, c>> \notin behind /\ marks'[t][c] = marks[t][c]
        BY <1>6, <1>7, <2>1, <3>0, <3>3
      <4>3. QED
        BY <2>1, <3>3, <4>1, <4>2 DEF IInv, MarksOK
    <3>4. QED
      BY <3>1, <3>2, <3>3
  <2>2. QED
    BY <1>1, <2>1 DEF MarksOK, Mine, Coming, Reporting
<1>16. ListOK'
  <2>1. ASSUME NEW u \in Tabs, NEW c \in Mine(u),
               kind[u] = "list", page[u] # "none", <<u, c>> \notin behind'
        PROVE  \/ WillRead(u, c)'
               \/ refresh[u] = "answered" /\ answer[u][c] = status[c]
               \/ refresh[u] = "none" /\ listed[u][c] = status[c]
    <3>1. CASE u # t
      BY <1>1, <1>4, <1>7, <1>8, <2>1, <3>1 DEF IInv, ListOK, Mine, WillRead
    <3>2. CASE u = t
      BY <1>8, <2>1, <3>2 DEF WillRead
    <3>3. QED
      BY <3>1, <3>2
  <2>2. QED
    BY <1>1, <2>1 DEF ListOK, Mine
<1>17. QED
  BY <1>1, <1>10, <1>11, <1>12, <1>13, <1>14, <1>15, <1>16, Untouched DEF IInv

----------------------------------------------------------------------------
\* A handler that goes on with the same report, or with none.
LEMMA ReportingStays ==
    ASSUME NEW r \in Requests, \A q \in Requests \ {r} : work'[q] = work[q],
           \/ work'[r].courier = work[r].courier /\ work'[r].report = work[r].report
           \/ work'[r].report = 0 /\ work[r].report = 0
    PROVE  \A c \in Couriers : Reporting(c)' = Reporting(c) /\ Reporting(c) \subseteq Requests
  BY DEF Reporting

\* A handler that ends.
LEMMA ReportingEnds ==
    ASSUME NEW r \in Requests, \A q \in Requests \ {r} : work'[q] = work[q], work'[r] = Idle
    PROVE  \A c \in Couriers : Reporting(c)' = Reporting(c) \ {r} /\ Reporting(c) \subseteq Requests
  BY IdleIsWork DEF Reporting

LEMMA MarksStay ==
    ASSUME IInv, UNCHANGED <<kind, company, page, inbox, marks, latest>>,
           raced \subseteq raced', behind \subseteq behind',
           \A c \in Couriers \ raced' : Coming(c) => Coming(c)'
    PROVE  InboxOK' /\ MarksOK'
<1>1. InboxOK'
  BY DEF IInv, InboxOK, Positions
<1>2. MarksOK'
  BY DEF IInv, MarksOK, Mine, Positions
<1>3. QED
  BY <1>1, <1>2

LEMMA ReportOK ==
    ASSUME IInv, NEW r \in Requests, NEW c \in Couriers, Report(r, c)
    PROVE  IInv'
<1> DEFINE w == [Idle EXCEPT !.courier = c, !.report = sent + 1]
<1>1. /\ sent < MaxRequests /\ sent' = sent + 1
      /\ Step(r, "idle", "caching", w)
      /\ raced' = IF Reporting(c) = {} THEN raced ELSE raced \cup {c}
      /\ UNCHANGED <<status, cache, recent, kind, company, page, marks, listed, token, sock, inbox,
                     timer, refresh, answer, points, latest, uncached, behind>>
  BY DEF Report, tab, user
<1>2. TypeOK /\ sent' \in Reports /\ sent' # 0
  <2>1. TypeOK
    BY DEF IInv
  <2>2. sent \in Reports
    BY <2>1 DEF TypeOK
  <2>3. QED
    BY <1>1, <2>1, <2>2, BoundIsNatural DEF Reports
<1>3. /\ w \in Work /\ w.courier = c /\ w.report # 0 /\ ~w.inserted
  BY <1>1, <1>2 DEF Idle, Work, Reports
<1> HIDE DEF w
<1>4. /\ pc[r] = "idle" /\ pc'[r] = "caching" /\ work'[r] = w
      /\ \A q \in Requests \ {r} : pc'[q] = pc[q] /\ work'[q] = work[q]
      /\ pc' \in [Requests -> {"idle", "caching", "checking", "inserting", "emitting", "committing"}]
      /\ work' \in [Requests -> Work]
  BY <1>1, <1>2, <1>3, StepMoves
<1>5. TypeOK'
  BY <1>1, <1>2, <1>4 DEF TypeOK
<1>6. WorkOK'
  BY <1>3, <1>4 DEF IInv, WorkOK, RequestOK
<1>7. work[r].report = 0
  BY <1>4, IdleIsWork DEF IInv, WorkOK, RequestOK
<1>8. Reporting(c)' = Reporting(c) \cup {r} /\ \A x \in Couriers \ {c} : Reporting(x)' = Reporting(x)
  BY <1>3, <1>4, <1>7 DEF Reporting
<1>9. c \notin raced' => Reporting(c) = {} /\ c \notin raced
  BY <1>1
<1>10. \A x \in Couriers : \A q \in Reporting(x) : pc'[q] = pc[q] /\ work'[q] = work[q]
  BY <1>4, <1>7 DEF Reporting
<1>11. InboxOK' /\ MarksOK'
  <2>1. \A x \in Couriers : Coming(x) => Coming(x)'
    BY <1>8, <1>10 DEF Coming
  <2>2. QED
    BY <1>1, <2>1, MarksStay
<1>12. SampleOK'
  <2>1. ASSUME NEW x \in Couriers \ raced', x # c
        PROVE  x \notin raced /\ Reporting(x)' = Reporting(x) /\ Inserted(x)' = Inserted(x)
    BY <1>1, <1>8, <1>10, <2>1 DEF Inserted
  <2>2. ASSUME c \notin raced'
        PROVE  Reporting(c)' = {r} /\ ~Inserted(c)' /\ ~Inserted(c)
    BY <1>3, <1>4, <1>8, <1>9, <2>2 DEF Inserted
  <2>3. QED
    BY <1>1, <1>3, <1>4, <1>9, <1>10, <2>1, <2>2 DEF IInv, SampleOK
<1>13. CacheOK'
  <2>1. "caching" \notin Cached
    BY DEF Cached
  <2>2. ASSUME NEW x \in Couriers \ (raced' \cup uncached)
        PROVE  /\ \A q \in Reporting(x)' : pc'[q] \in Cached => cache[x] = work'[q].report
               /\ (\A q \in Reporting(x)' : pc'[q] \notin Cached) => cache[x] = latest[x]
    <3>1. CASE x = c
      BY <1>4, <1>8, <1>9, <2>1, <2>2, <3>1 DEF IInv, CacheOK
    <3>2. CASE x # c
      BY <1>1, <1>8, <1>10, <2>2, <3>2 DEF IInv, CacheOK
    <3>3. QED
      BY <3>1, <3>2
  <2>3. QED
    BY <1>1, <2>2 DEF CacheOK, Cached
<1>14. QED
  BY <1>1, <1>5, <1>6, <1>11, <1>12, <1>13, Untouched DEF IInv

\* The report that r is about.
LEMMA Handled ==
    ASSUME IInv, NEW r \in Requests, pc[r] # "idle"
    PROVE  /\ work[r] \in Work /\ work[r].courier \in Couriers
           /\ work[r].report # 0 => r \in Reporting(work[r].courier)
           /\ \A c \in Couriers : r \in Reporting(c) => c = work[r].courier /\ work[r].report # 0
  BY DEF IInv, TypeOK, WorkOK, RequestOK, Reporting

LEMMA CacheLocationOK ==
    ASSUME IInv, NEW r \in Requests, CacheLocation(r)
    PROVE  IInv'
<1> DEFINE c == work[r].courier
<1>1. /\ Step(r, "caching", "checking", work[r])
      /\ \/ cache' = [cache EXCEPT ![c] = work[r].report] /\ uncached' = uncached \ {c}
         \/ cache' = cache /\ uncached' = uncached \cup {c}
      /\ UNCHANGED <<status, recent, sent, kind, company, page, marks, listed, token, sock, inbox,
                     timer, refresh, answer, points, latest, raced, behind>>
  BY DEF CacheLocation, tab, user
<1>2. TypeOK /\ pc[r] = "caching"
  BY <1>1 DEF IInv, Step
<1>3. /\ work[r] \in Work /\ c \in Couriers /\ work[r].report \in Reports
      /\ work[r].report # 0 /\ ~work[r].inserted /\ r \in Reporting(c)
      /\ \A x \in Couriers : r \in Reporting(x) => x = c
  BY <1>2, Handled DEF IInv, WorkOK, RequestOK, Work
<1> HIDE DEF c
<1>4. /\ pc'[r] = "checking" /\ work'[r] = work[r]
      /\ \A q \in Requests \ {r} : pc'[q] = pc[q] /\ work'[q] = work[q]
      /\ pc' \in [Requests -> {"idle", "caching", "checking", "inserting", "emitting", "committing"}]
      /\ work' \in [Requests -> Work]
  BY <1>1, <1>2, <1>3, StepMoves
<1>5. \A x \in Couriers : Reporting(x)' = Reporting(x) /\ Reporting(x) \subseteq Requests
  BY <1>4, ReportingStays
<1>6. /\ cache' \in [Couriers -> Reports] /\ uncached' \subseteq Couriers
      /\ \A x \in Couriers \ {c} : cache'[x] = cache[x] /\ (x \in uncached' <=> x \in uncached)
      /\ c \notin uncached' => cache'[c] = work[r].report
  BY <1>1, <1>2, <1>3 DEF TypeOK
<1>7. TypeOK'
  BY <1>1, <1>2, <1>4, <1>6 DEF TypeOK
<1>8. WorkOK'
  BY <1>2, <1>3, <1>4 DEF IInv, WorkOK, RequestOK
<1>9. \A q \in Requests : work'[q] = work[q] /\ (pc'[q] = pc[q] \/ q = r)
  BY <1>4
<1>10. InboxOK' /\ MarksOK'
  <2>1. \A x \in Couriers : Coming(x) => Coming(x)'
    BY <1>4, <1>5 DEF Coming
  <2>2. QED
    BY <1>1, <2>1, MarksStay
<1>11. SampleOK'
  <2>1. \A x \in Couriers : Inserted(x)' = Inserted(x)
    BY <1>5, <1>9 DEF Inserted
  <2>2. QED
    BY <1>1, <1>4, <1>5, <1>9, <2>1 DEF IInv, SampleOK
<1>12. CacheOK'
  <2>1. "checking" \in Cached
    BY DEF Cached
  <2>2. ASSUME NEW x \in Couriers \ (raced \cup uncached')
        PROVE  /\ \A q \in Reporting(x) : pc'[q] \in Cached => cache'[x] = work[q].report
               /\ (\A q \in Reporting(x) : pc'[q] \notin Cached) => cache'[x] = latest[x]
    <3>1. CASE x = c
      <4>1. \A q \in Reporting(c) : q = r
        BY <1>3, <2>2, <3>1 DEF IInv, SampleOK
      <4>2. QED
        BY <1>3, <1>4, <1>6, <2>1, <2>2, <3>1, <4>1
    <3>2. CASE x # c
      <4>1. x \notin uncached /\ cache'[x] = cache[x] /\ r \notin Reporting(x)
        BY <1>3, <1>6, <2>2, <3>2
      <4>2. \A q \in Reporting(x) : pc'[q] = pc[q]
        BY <1>4, <4>1 DEF Reporting
      <4>3. QED
        BY <2>2, <4>1, <4>2 DEF IInv, CacheOK
    <3>3. QED
      BY <3>1, <3>2
  <2>3. QED
    BY <1>1, <1>5, <1>9, <2>2 DEF CacheOK, Cached
<1>13. QED
  BY <1>1, <1>7, <1>8, <1>10, <1>11, <1>12, Untouched DEF IInv

\* Between Redis and the broadcast: the report and its place in Redis are what they were.
LEMMA SampleStepOK ==
    ASSUME IInv, NEW r \in Requests, NEW from \in {"checking", "inserting"},
           NEW to \in {"inserting", "emitting"}, NEW w \in Work, Step(r, from, to, w),
           w.courier = work[r].courier, w.report = work[r].report, RequestOK(r)',
           recent' \subseteq Couriers, SampleOK',
           UNCHANGED <<status, cache, sent, kind, company, page, marks, listed, token, sock, inbox,
                       timer, refresh, answer, points, latest, uncached, raced, behind>>
    PROVE  IInv'
<1>1. TypeOK
  BY DEF IInv
<1>2. /\ pc[r] = from /\ pc'[r] = to /\ work'[r] = w
      /\ \A q \in Requests \ {r} : pc'[q] = pc[q] /\ work'[q] = work[q]
      /\ pc' \in [Requests -> {"idle", "caching", "checking", "inserting", "emitting", "committing"}]
      /\ work' \in [Requests -> Work]
  BY <1>1, StepMoves
<1>3. \A x \in Couriers : Reporting(x)' = Reporting(x) /\ Reporting(x) \subseteq Requests
  BY <1>2, ReportingStays
<1>4. TypeOK'
  BY <1>1, <1>2 DEF TypeOK
<1>5. WorkOK'
  BY <1>2 DEF IInv, WorkOK, RequestOK
<1>6. InboxOK' /\ MarksOK'
  <2>1. \A x \in Couriers : Coming(x) => Coming(x)'
    BY <1>2, <1>3 DEF Coming
  <2>2. QED
    BY <2>1, MarksStay
<1>7. CacheOK'
  <2>1. \A q \in Requests : (pc'[q] \in Cached <=> pc[q] \in Cached) /\ work'[q].report = work[q].report
    BY <1>2 DEF Cached
  <2>2. QED
    BY <1>3, <2>1 DEF IInv, CacheOK, Cached
<1>8. QED
  BY <1>4, <1>5, <1>6, <1>7, Untouched DEF IInv

LEMMA CheckIntervalOK ==
    ASSUME IInv, NEW r \in Requests, CheckInterval(r)
    PROVE  IInv'
<1> DEFINE to == IF work[r].courier \in recent THEN "emitting" ELSE "inserting"
<1>1. /\ Step(r, "checking", to, work[r])
      /\ UNCHANGED <<status, cache, recent, sent, kind, company, page, marks, listed, token, sock,
                     inbox, timer, refresh, answer, points, latest, uncached, raced, behind>>
  BY DEF CheckInterval, tab, user, aux
<1>2. TypeOK /\ pc[r] = "checking"
  BY <1>1 DEF IInv, Step
<1>3. /\ work[r] \in Work /\ work[r].report # 0 /\ ~work[r].inserted /\ work[r].courier \in Couriers
      /\ \A x \in Couriers : r \in Reporting(x) => x = work[r].courier
  BY <1>2, Handled DEF IInv, WorkOK, RequestOK
<1>4. to \in {"inserting", "emitting"} /\ (to = "inserting" => work[r].courier \notin recent)
  OBVIOUS
<1> HIDE DEF to
<1>5. /\ pc'[r] = to /\ work'[r] = work[r]
      /\ \A q \in Requests \ {r} : pc'[q] = pc[q] /\ work'[q] = work[q]
  BY <1>1, <1>2, <1>3, <1>4, StepMoves
<1>6. \A x \in Couriers : Reporting(x)' = Reporting(x) /\ Reporting(x) \subseteq Requests
  BY <1>5, ReportingStays
<1>7. RequestOK(r)'
  BY <1>3, <1>4, <1>5 DEF RequestOK
<1>8. SampleOK'
  <2>1. \A x \in Couriers : Inserted(x)' = Inserted(x)
    BY <1>5, <1>6 DEF Inserted
  <2>2. \A x \in Couriers : \A q \in Reporting(x) : pc'[q] = "inserting" =>
            pc[q] = "inserting" \/ x \notin recent
    BY <1>3, <1>4, <1>5, <1>6
  <2>3. QED
    BY <1>1, <1>5, <1>6, <2>1, <2>2 DEF IInv, SampleOK
<1>9. QED
  BY <1>1, <1>2, <1>3, <1>4, <1>7, <1>8, SampleStepOK DEF TypeOK

\* The row is there once the handler commits; until then the throttle knows of it.
LEMMA InsertPointOK ==
    ASSUME IInv, NEW r \in Requests, InsertPoint(r)
    PROVE  IInv'
<1> PICK c : c = work[r].courier
  OBVIOUS
<1> DEFINE w == [work[r] EXCEPT !.inserted = TRUE]
<1>1. /\ Step(r, "inserting", "emitting", w)
      /\ recent' = recent \cup {c}
      /\ UNCHANGED <<status, cache, sent, kind, company, page, marks, listed, token, sock, inbox,
                     timer, refresh, answer, points, latest, uncached, raced, behind>>
  BY DEF InsertPoint, tab, user, aux
<1>2. TypeOK /\ pc[r] = "inserting"
  BY <1>1 DEF IInv, Step
<1>3. /\ work[r] \in Work /\ work[r].report # 0 /\ c \in Couriers /\ r \in Reporting(c)
      /\ \A x \in Couriers : r \in Reporting(x) => x = c
  BY <1>2, Handled DEF IInv, WorkOK, RequestOK
<1>4. w \in Work /\ w.courier = c /\ w.report = work[r].report /\ w.inserted
  BY <1>3 DEF Work
<1> HIDE DEF w
<1>5. /\ pc'[r] = "emitting" /\ work'[r] = w
      /\ \A q \in Requests \ {r} : pc'[q] = pc[q] /\ work'[q] = work[q]
  BY <1>1, <1>2, <1>4, StepMoves
<1>6. \A x \in Couriers : Reporting(x)' = Reporting(x) /\ Reporting(x) \subseteq Requests
  BY <1>4, <1>5, ReportingStays
<1>7. RequestOK(r)'
  BY <1>3, <1>4, <1>5 DEF RequestOK
<1>8. SampleOK'
  <2>1. ASSUME NEW x \in Couriers \ raced, x # c
        PROVE  /\ \A q, z \in Reporting(x) : q = z
               /\ points[x] = IF x \in recent /\ ~Inserted(x)' THEN 1 ELSE 0
               /\ \A q \in Reporting(x) : /\ work'[q].inserted => x \in recent
                                          /\ pc'[q] = "inserting" => x \notin recent
    <3>1. \A q \in Reporting(x) : pc'[q] = pc[q] /\ work'[q] = work[q]
      BY <1>3, <1>5, <1>6, <2>1
    <3>2. Inserted(x)' = Inserted(x)
      BY <1>6, <3>1 DEF Inserted
    <3>3. QED
      BY <2>1, <3>1, <3>2 DEF IInv, SampleOK
  <2>2. ASSUME c \notin raced
        PROVE  /\ \A q \in Reporting(c) : q = r
               /\ points[c] = 0 /\ Inserted(c)'
    <3>1. \A q \in Reporting(c) : q = r
      BY <1>3, <2>2 DEF IInv, SampleOK
    <3>2. points[c] = 0
      <4>1. c \notin recent
        BY <1>2, <1>3, <2>2 DEF IInv, SampleOK
      <4>2. QED
        BY <1>3, <2>2, <4>1 DEF IInv, SampleOK
    <3>3. Inserted(c)'
      BY <1>3, <1>4, <1>5, <1>6 DEF Inserted
    <3>4. QED
      BY <3>1, <3>2, <3>3
  <2>3. ASSUME NEW x \in Couriers \ raced
        PROVE  /\ \A q, z \in Reporting(x) : q = z
               /\ points[x] = IF x \in recent' /\ ~Inserted(x)' THEN 1 ELSE 0
               /\ \A q \in Reporting(x) : /\ work'[q].inserted => x \in recent'
                                          /\ pc'[q] = "inserting" => x \notin recent'
    <3>1. CASE x = c
      BY <1>1, <1>5, <2>2, <3>1
    <3>2. CASE x # c
      <4>1. x \in recent' <=> x \in recent
        BY <1>1, <3>2
      <4>2. QED
        BY <2>1, <3>2, <4>1
    <3>3. QED
      BY <3>1, <3>2
  <2>4. QED
    BY <1>1, <1>6, <2>3 DEF SampleOK
<1>9. QED
  BY <1>1, <1>2, <1>3, <1>4, <1>7, <1>8, SampleStepOK DEF TypeOK

\* A change of status: it is not about a report.
LEMMA SetStatusOK ==
    ASSUME IInv, NEW r \in Requests, NEW c \in Couriers, NEW s \in Statuses, SetStatus(r, c, s)
    PROVE  IInv'
<1>1. PICK w : /\ Step(r, "idle", "emitting", w)
               /\ \/ w = [Idle EXCEPT !.courier = c]
                  \/ w = [Idle EXCEPT !.courier = c, !.status = s]
  BY DEF SetStatus
<1>2. /\ sent < MaxRequests /\ sent' = sent + 1
      /\ UNCHANGED <<status, cache, recent, kind, company, page, marks, listed, token, sock, inbox,
                     timer, refresh, answer, points, latest, uncached, raced, behind>>
  BY DEF SetStatus, tab, user, aux
<1>3. TypeOK /\ sent' \in Reports
  <2>1. TypeOK
    BY DEF IInv
  <2>2. sent \in Reports
    BY <2>1 DEF TypeOK
  <2>3. QED
    BY <1>2, <2>1, <2>2, BoundIsNatural DEF Reports
<1>4. w \in Work /\ w.courier = c /\ w.report = 0 /\ ~w.inserted
  <2>1. LET v == [Idle EXCEPT !.courier = c] IN
        v \in Work /\ v.courier = c /\ v.report = 0 /\ ~v.inserted
    BY IdleIsWork DEF Work
  <2>2. LET v == [Idle EXCEPT !.courier = c, !.status = s] IN
        v \in Work /\ v.courier = c /\ v.report = 0 /\ ~v.inserted
    BY IdleIsWork DEF Work
  <2>3. QED
    BY <1>1, <2>1, <2>2
<1>5. /\ pc[r] = "idle" /\ pc'[r] = "emitting" /\ work'[r] = w
      /\ \A q \in Requests \ {r} : pc'[q] = pc[q] /\ work'[q] = work[q]
      /\ pc' \in [Requests -> {"idle", "caching", "checking", "inserting", "emitting", "committing"}]
      /\ work' \in [Requests -> Work]
  BY <1>1, <1>3, <1>4, StepMoves
<1>6. work[r].report = 0
  BY <1>5, IdleIsWork DEF IInv, WorkOK, RequestOK
<1>7. \A x \in Couriers : Reporting(x)' = Reporting(x) /\ Reporting(x) \subseteq Requests
  BY <1>4, <1>5, <1>6, ReportingStays
<1>8. \A x \in Couriers : \A q \in Reporting(x) : pc'[q] = pc[q] /\ work'[q] = work[q]
  BY <1>5, <1>6 DEF Reporting
<1>9. TypeOK'
  BY <1>2, <1>3, <1>5 DEF TypeOK
<1>10. WorkOK'
  BY <1>4, <1>5 DEF IInv, WorkOK, RequestOK
<1>11. InboxOK' /\ MarksOK'
  <2>1. \A x \in Couriers : Coming(x) => Coming(x)'
    BY <1>7, <1>8 DEF Coming
  <2>2. QED
    BY <1>2, <2>1, MarksStay
<1>12. SampleOK'
  <2>1. \A x \in Couriers : Inserted(x)' = Inserted(x)
    BY <1>7, <1>8 DEF Inserted
  <2>2. QED
    BY <1>2, <1>7, <1>8, <2>1 DEF IInv, SampleOK
<1>13. CacheOK'
  BY <1>2, <1>7, <1>8 DEF IInv, CacheOK, Cached
<1>14. QED
  BY <1>2, <1>9, <1>10, <1>11, <1>12, <1>13, Untouched DEF IInv

LEMMA AppendFacts ==
    ASSUME NEW E, NEW s \in Seq(E), NEW e \in E
    PROVE  /\ Append(s, e) \in Seq(E)
           /\ Len(s) + 1 \in DOMAIN Append(s, e) /\ Append(s, e)[Len(s) + 1] = e
           /\ \A i \in DOMAIN s : i \in DOMAIN Append(s, e) /\ Append(s, e)[i] = s[i]
           /\ \A i \in DOMAIN Append(s, e) : i = Len(s) + 1 \/ i \in DOMAIN s
           /\ \A i \in DOMAIN Append(s, e) : i \in Nat /\ i <= Len(s) + 1
           /\ Len(s) \in Nat
  OBVIOUS

\* A broadcast reaches the tabs in the room, and the others of the company are behind.
LEMMA EmitOK ==
    ASSUME IInv, NEW r \in Requests, Emit(r)
    PROVE  IInv'
<1> PICK w : w = work[r]
  OBVIOUS
<1> PICK c : c = w.courier
  OBVIOUS
<1> PICK e : e = Event(w)
  OBVIOUS
<1>1. /\ Step(r, "emitting", "committing", w)
      /\ inbox' = [t \in Tabs |-> IF t \in Room(c) THEN Append(inbox[t], e) ELSE inbox[t]]
      /\ latest' = IF w.report = 0 THEN latest ELSE [latest EXCEPT ![c] = w.report]
      /\ behind' = behind \cup {<<t, c>> : t \in {u \in Tabs \ Room(c) : c \in Mine(u)}}
      /\ UNCHANGED <<status, cache, recent, sent, kind, company, page, marks, listed, token, sock,
                     timer, refresh, answer, points, uncached, raced>>
  BY DEF Emit, user
<1>2. TypeOK /\ pc[r] = "emitting"
  BY <1>1 DEF IInv, Step
<1>3. /\ w \in Work /\ c \in Couriers /\ w.report \in Reports
      /\ w.report # 0 => r \in Reporting(c)
      /\ \A x \in Couriers : r \in Reporting(x) => x = c /\ w.report # 0
  BY <1>2, Handled DEF Work
<1>4. /\ pc'[r] = "committing" /\ work'[r] = w
      /\ \A q \in Requests \ {r} : pc'[q] = pc[q] /\ work'[q] = work[q]
      /\ pc' \in [Requests -> {"idle", "caching", "checking", "inserting", "emitting", "committing"}]
      /\ work' \in [Requests -> Work]
  BY <1>1, <1>2, <1>3, StepMoves
<1>5. \A x \in Couriers : Reporting(x)' = Reporting(x) /\ Reporting(x) \subseteq Requests
  BY <1>4, ReportingStays
<1>6. e \in Events /\ e.courier = c /\ e.report = w.report
  BY <1>3 DEF Event, Events
<1>7. ASSUME NEW t \in Room(c)
      PROVE  /\ t \in Tabs /\ sock[t] = "joined" /\ c \in Mine(t)
             /\ inbox'[t] \in Seq(Events)
             /\ Len(inbox[t]) + 1 \in DOMAIN inbox'[t] /\ inbox'[t][Len(inbox[t]) + 1] = e
             /\ \A i \in DOMAIN inbox[t] : i \in DOMAIN inbox'[t] /\ inbox'[t][i] = inbox[t][i]
             /\ \A i \in DOMAIN inbox'[t] : i = Len(inbox[t]) + 1 \/ i \in DOMAIN inbox[t]
             /\ \A i \in DOMAIN inbox'[t] : i \in Nat /\ i <= Len(inbox[t]) + 1
             /\ Len(inbox[t]) \in Nat
  <2>1. t \in Tabs /\ sock[t] = "joined" /\ c \in Mine(t)
    BY <1>3 DEF Room, Mine
  <2>2. inbox'[t] = Append(inbox[t], e) /\ inbox[t] \in Seq(Events)
    BY <1>1, <1>2, <2>1 DEF TypeOK
  <2>3. QED
    BY <1>6, <2>1, <2>2, AppendFacts
<1>8. ASSUME NEW t \in Tabs \ Room(c)
      PROVE  /\ inbox'[t] = inbox[t]
             /\ c \in Mine(t) => <<t, c>> \in behind' /\ inbox[t] = << >>
  <2>1. inbox'[t] = inbox[t]
    BY <1>1
  <2>2. ASSUME c \in Mine(t)
        PROVE  <<t, c>> \in behind' /\ inbox[t] = << >>
    <3>1. <<t, c>> \in behind'
      BY <1>1, <2>2
    <3>2. sock[t] # "joined"
      BY <2>2 DEF Room, Mine
    <3>3. QED
      BY <3>1, <3>2 DEF IInv, SocketsOK
  <2>3. QED
    BY <2>1, <2>2
<1>9. behind \subseteq behind'
  BY <1>1
<1>10. /\ latest' \in [Couriers -> Reports]
       /\ \A x \in Couriers : x # c \/ w.report = 0 => latest'[x] = latest[x]
       /\ w.report # 0 => latest'[c] = w.report
  BY <1>1, <1>2, <1>3 DEF TypeOK
<1>11. TypeOK'
  <2>1. inbox' \in [Tabs -> Seq(Events)]
    <3>1. \A t \in Tabs : inbox'[t] \in Seq(Events)
      BY <1>2, <1>7, <1>8 DEF TypeOK
    <3>2. QED
      BY <1>1, <3>1
  <2>2. behind' \subseteq Tabs \X Couriers
    BY <1>1, <1>2, <1>3 DEF TypeOK
  <2>3. QED
    BY <1>1, <1>2, <1>4, <1>10, <2>1, <2>2 DEF TypeOK
<1>12. WorkOK'
  BY <1>2, <1>4 DEF IInv, WorkOK, RequestOK
<1>13. SocketsOK'
  BY <1>1, <1>7, <1>8 DEF IInv, SocketsOK
<1>14. RoomsStaySeparate'
  <2>1. ASSUME NEW t \in Tabs, NEW i \in DOMAIN inbox'[t]
        PROVE  inbox'[t][i].courier \in Mine(t)
    <3>1. CASE t \in Room(c)
      BY <1>6, <1>7, <2>1, <3>1 DEF IInv, RoomsStaySeparate
    <3>2. CASE t \notin Room(c)
      BY <1>8, <2>1, <3>2 DEF IInv, RoomsStaySeparate
    <3>3. QED
      BY <3>1, <3>2
  <2>2. QED
    BY <1>1, <2>1 DEF IInv, RoomsStaySeparate, Mine
<1>15. ASSUME NEW t \in Tabs, NEW x \in Couriers, x # c \/ w.report = 0
       PROVE  Positions(t, x)' = Positions(t, x)
  <2>1. CASE t \in Room(c)
    BY <1>6, <1>7, <1>15, <2>1 DEF Positions
  <2>2. CASE t \notin Room(c)
    BY <1>8, <2>2 DEF Positions
  <2>3. QED
    BY <2>1, <2>2
<1>16. ASSUME NEW t \in Room(c), w.report # 0
       PROVE  Len(inbox[t]) + 1 \in Positions(t, c)'
  BY <1>6, <1>7, <1>16 DEF Positions
<1>17. InboxOK'
  <2>1. ASSUME NEW t \in Tabs, NEW x \in Couriers \ raced, NEW i \in Positions(t, x)',
               \A j \in Positions(t, x)' : j <= i
        PROVE  inbox'[t][i].report = latest'[x]
    <3>0. i \in DOMAIN inbox'[t] /\ inbox'[t][i].courier = x
      BY <2>1 DEF Positions
    <3>1. CASE x # c \/ w.report = 0
      <4>1. i \in Positions(t, x) /\ \A j \in Positions(t, x) : j <= i
        BY <1>15, <2>1, <3>1
      <4>2. inbox[t][i].report = latest[x] /\ i \in DOMAIN inbox[t]
        BY <4>1 DEF IInv, InboxOK, Positions
      <4>3. inbox'[t][i] = inbox[t][i]
        BY <1>7, <1>8, <4>2
      <4>4. QED
        BY <1>10, <3>1, <4>2, <4>3
    <3>2. CASE x = c /\ w.report # 0 /\ t \in Room(c)
      <4>1. Len(inbox[t]) + 1 <= i
        BY <1>16, <2>1, <3>2
      <4>2. i \in Nat /\ i <= Len(inbox[t]) + 1 /\ Len(inbox[t]) \in Nat
        BY <1>7, <3>0, <3>2
      <4>3. i = Len(inbox[t]) + 1
        BY <4>1, <4>2
      <4>4. QED
        BY <1>6, <1>7, <1>10, <3>2, <4>3
    <3>3. CASE x = c /\ w.report # 0 /\ t \notin Room(c)
      <4>1. inbox'[t] = inbox[t] /\ i \in DOMAIN inbox[t] /\ inbox[t][i].courier = c
        BY <1>8, <3>0, <3>3
      <4>2. c \in Mine(t)
        BY <4>1 DEF IInv, RoomsStaySeparate
      <4>3. inbox[t] = << >>
        BY <1>8, <3>3, <4>2
      <4>4. QED
        BY <4>1, <4>3
    <3>4. QED
      BY <3>1, <3>2, <3>3
  <2>2. QED
    BY <1>1, <2>1 DEF InboxOK
<1>18. MarksOK'
  <2>1. ASSUME NEW t \in Tabs, NEW x \in Mine(t) \ raced,
               kind[t] = "map", page[t] # "none", Positions(t, x)' = {}, <<t, x>> \notin behind'
        PROVE  Coming(x)' \/ marks[t][x] = latest'[x]
    <3>0. x \in Couriers
      BY DEF Mine
    <3>1. x # c \/ w.report = 0
      BY <1>8, <1>16, <2>1
    <3>2. Positions(t, x) = {} /\ <<t, x>> \notin behind /\ latest'[x] = latest[x]
      BY <1>9, <1>10, <1>15, <2>1, <3>0, <3>1
    <3>3. Coming(x) => Coming(x)'
      BY <1>3, <1>4, <1>5, <3>0, <3>1 DEF Coming
    <3>4. QED
      BY <2>1, <3>2, <3>3 DEF IInv, MarksOK
  <2>2. QED
    BY <1>1, <2>1 DEF MarksOK, Mine
<1>19. ListOK'
  <2>1. ASSUME NEW t \in Tabs, NEW x \in Mine(t), WillRead(t, x)
        PROVE  WillRead(t, x)'
    <3>1. \A i \in DOMAIN inbox[t] : i \in DOMAIN inbox'[t] /\ inbox'[t][i] = inbox[t][i]
      BY <1>7, <1>8
    <3>2. QED
      BY <1>1, <2>1, <3>1 DEF WillRead
  <2>2. QED
    BY <1>1, <1>9, <2>1 DEF IInv, ListOK, Mine
<1>20. SampleOK'
  <2>1. \A x \in Couriers : Inserted(x)' = Inserted(x)
    BY <1>4, <1>5 DEF Inserted
  <2>2. QED
    BY <1>1, <1>4, <1>5, <2>1 DEF IInv, SampleOK
<1>21. CacheOK'
  <2>1. pc[r] \in Cached /\ pc'[r] \notin Cached
    BY <1>2, <1>4 DEF Cached
  <2>2. ASSUME NEW x \in Couriers \ (raced \cup uncached)
        PROVE  /\ \A q \in Reporting(x) : pc'[q] \in Cached => cache[x] = work'[q].report
               /\ (\A q \in Reporting(x) : pc'[q] \notin Cached) => cache[x] = latest'[x]
    <3>1. CASE x = c /\ w.report # 0
      <4>1. \A q \in Reporting(c) : q = r
        BY <1>3, <2>2, <3>1 DEF IInv, SampleOK
      <4>2. cache[c] = w.report
        BY <1>3, <2>1, <2>2, <3>1 DEF IInv, CacheOK
      <4>3. QED
        BY <1>10, <2>1, <3>1, <4>1, <4>2
    <3>2. CASE x # c \/ w.report = 0
      <4>1. \A q \in Reporting(x) : pc'[q] = pc[q] /\ work'[q] = work[q]
        BY <1>3, <1>4, <1>5, <3>2
      <4>2. QED
        BY <1>10, <2>2, <3>2, <4>1 DEF IInv, CacheOK
    <3>3. QED
      BY <3>1, <3>2
  <2>3. QED
    BY <1>1, <1>5, <2>2 DEF CacheOK, Cached
<1>22. QED
  BY <1>1, <1>11, <1>12, <1>13, <1>14, <1>17, <1>18, <1>19, <1>20, <1>21, Untouched DEF IInv

\* A handler commits its row or its status.
LEMMA CommitOK ==
    ASSUME IInv, NEW r \in Requests, Commit(r)
    PROVE  IInv'
<1> PICK w : w = work[r]
  OBVIOUS
<1> PICK c : c = w.courier
  OBVIOUS
<1>1. /\ Step(r, "committing", "idle", Idle)
      /\ status' = IF w.status = NoStatus THEN status ELSE [status EXCEPT ![c] = w.status]
      /\ points' = IF w.inserted THEN [points EXCEPT ![c] = @ + 1] ELSE points
      /\ behind \subseteq behind' /\ behind' \subseteq behind \cup (Tabs \X Couriers)
      /\ \A t \in Tabs : kind[t] = "list" /\ w.status # NoStatus /\ ~WillRead(t, c) /\ c \in Mine(t) =>
             <<t, c>> \in behind'
      /\ UNCHANGED <<cache, recent, sent, kind, company, page, marks, listed, token, sock, inbox,
                     timer, refresh, answer, latest, uncached, raced>>
  BY DEF Commit, Overtaken, tab, user, Mine
<1>2. TypeOK /\ pc[r] = "committing"
  BY <1>1 DEF IInv, Step
<1>3. /\ w \in Work /\ c \in Couriers /\ w.inserted \in BOOLEAN
      /\ w.report # 0 => r \in Reporting(c)
      /\ w.inserted => w.report # 0
      /\ \A x \in Couriers : r \in Reporting(x) => x = c
  BY <1>2, Handled DEF Work, IInv, WorkOK, RequestOK
<1>4. /\ pc'[r] = "idle" /\ work'[r] = Idle
      /\ \A q \in Requests \ {r} : pc'[q] = pc[q] /\ work'[q] = work[q]
      /\ pc' \in [Requests -> {"idle", "caching", "checking", "inserting", "emitting", "committing"}]
      /\ work' \in [Requests -> Work]
  BY <1>1, <1>2, IdleIsWork, StepMoves
<1>5. \A x \in Couriers : Reporting(x)' = Reporting(x) \ {r} /\ Reporting(x) \subseteq Requests
  BY <1>4, ReportingEnds
<1>6. \A x \in Couriers : \A q \in Reporting(x)' :
          q # r /\ q \in Reporting(x) /\ pc'[q] = pc[q] /\ work'[q] = work[q]
  BY <1>4, <1>5
<1>7. /\ status' \in [Couriers -> Statuses]
      /\ \A x \in Couriers : x # c \/ w.status = NoStatus => status'[x] = status[x]
  BY <1>1, <1>2, <1>3 DEF TypeOK, Work
<1>8. /\ points' \in [Couriers -> Nat]
      /\ \A x \in Couriers : points'[x] = IF w.inserted /\ x = c THEN points[x] + 1 ELSE points[x]
  BY <1>1, <1>2, <1>3 DEF TypeOK
<1>9. TypeOK'
  BY <1>1, <1>2, <1>4, <1>7, <1>8 DEF TypeOK
<1>10. WorkOK'
  BY <1>4, IdleIsWork DEF IInv, WorkOK, RequestOK
<1>11. InboxOK' /\ MarksOK'
  <2>1. \A x \in Couriers : Coming(x) => Coming(x)'
    BY <1>2, <1>4, <1>5 DEF Coming
  <2>2. QED
    BY <1>1, <2>1, MarksStay
<1>12. ListOK'
  <2>1. ASSUME NEW t \in Tabs, NEW x \in Mine(t), kind[t] = "list", page[t] # "none",
               <<t, x>> \notin behind'
        PROVE  \/ WillRead(t, x)'
               \/ refresh[t] = "answered" /\ answer[t][x] = status'[x]
               \/ refresh[t] = "none" /\ listed[t][x] = status'[x]
    <3>1. WillRead(t, x)' <=> WillRead(t, x)
      BY <1>1 DEF WillRead
    <3>2. CASE x = c /\ w.status # NoStatus
      BY <1>1, <2>1, <3>1, <3>2
    <3>3. CASE x # c \/ w.status = NoStatus
      <4>1. status'[x] = status[x] /\ <<t, x>> \notin behind
        BY <1>1, <1>7, <2>1, <3>3 DEF Mine
      <4>2. QED
        BY <2>1, <3>1, <4>1 DEF IInv, ListOK
    <3>4. QED
      BY <3>2, <3>3
  <2>2. QED
    BY <1>1, <2>1 DEF ListOK, Mine
<1>13. SampleOK'
  <2>1. ASSUME NEW x \in Couriers \ raced
        PROVE  points'[x] = IF x \in recent /\ ~Inserted(x)' THEN 1 ELSE 0
    <3>1. points[x] = IF x \in recent /\ ~Inserted(x) THEN 1 ELSE 0
      BY DEF IInv, SampleOK
    <3>2. CASE w.inserted /\ x = c
      <4>1. \A q \in Reporting(c) : q = r
        BY <1>3, <3>2 DEF IInv, SampleOK
      <4>2. Inserted(c) /\ c \in recent
        <5>1. r \in Reporting(c) /\ work[r].inserted
          BY <1>3, <3>2
        <5>2. Inserted(c)
          BY <5>1 DEF Inserted
        <5>3. c \in recent
          BY <2>1, <3>2, <5>1 DEF IInv, SampleOK
        <5>4. QED
          BY <5>2, <5>3
      <4>3. ~Inserted(x)'
        <5>1. Reporting(x)' = {}
          BY <1>5, <3>2, <4>1
        <5>2. QED
          BY <5>1 DEF Inserted
      <4>4. QED
        BY <1>8, <3>1, <3>2, <4>2, <4>3
    <3>3. CASE ~(w.inserted /\ x = c)
      <4>1. Inserted(x)' <=> Inserted(x)
        BY <1>3, <1>5, <1>6, <3>3 DEF Inserted
      <4>2. QED
        BY <1>8, <3>1, <3>3, <4>1
    <3>4. QED
      BY <3>2, <3>3
  <2>2. QED
    BY <1>1, <1>6, <2>1 DEF IInv, SampleOK
<1>14. CacheOK'
  <2>1. pc[r] \notin Cached
    BY <1>2 DEF Cached
  <2>2. ASSUME NEW x \in Couriers \ (raced \cup uncached)
        PROVE  /\ \A q \in Reporting(x)' : pc'[q] \in Cached => cache[x] = work'[q].report
               /\ (\A q \in Reporting(x)' : pc'[q] \notin Cached) => cache[x] = latest[x]
    BY <1>5, <1>6, <2>1, <2>2 DEF IInv, CacheOK
  <2>3. QED
    BY <1>1, <2>2 DEF CacheOK, Cached
<1>15. QED
  BY <1>1, <1>9, <1>10, <1>11, <1>12, <1>13, <1>14, Untouched DEF IInv

\* A status is put back: the lists are behind with it, or will read it.
LEMMA PutBackOK ==
    ASSUME IInv, NEW c \in Couriers, NEW s \in Statuses, PutBack(c, s)
    PROVE  IInv'
<1>1. /\ status' = [status EXCEPT ![c] = s]
      /\ sent < MaxRequests /\ sent' = sent + 1
      /\ behind' = behind \cup {<<t, c>> : t \in Overtaken(c)}
      /\ UNCHANGED <<cache, recent, pc, work, kind, company, page, marks, listed, token, sock, inbox,
                     timer, refresh, answer, points, latest, uncached, raced>>
  BY DEF PutBack, tab, user
<1>2. TypeOK /\ Overtaken(c) \subseteq Tabs
  BY DEF IInv, Overtaken
<1>3. status' \in [Couriers -> Statuses] /\ \A x \in Couriers \ {c} : status'[x] = status[x]
  BY <1>1, <1>2 DEF TypeOK
<1>4. TypeOK'
  <2>1. sent' \in Reports
    BY <1>1, <1>2, BoundIsNatural DEF TypeOK, Reports
  <2>2. QED
    BY <1>1, <1>2, <1>3, <2>1 DEF TypeOK
<1>5. InboxOK' /\ MarksOK'
  <2>1. \A x \in Couriers : Coming(x) => Coming(x)'
    BY <1>1 DEF Coming, Reporting
  <2>2. behind \subseteq behind'
    BY <1>1
  <2>3. QED
    BY <1>1, <2>1, <2>2, MarksStay
<1>6. ListOK'
  <2>1. ASSUME NEW t \in Tabs, NEW x \in Mine(t), kind[t] = "list", page[t] # "none",
               <<t, x>> \notin behind'
        PROVE  \/ WillRead(t, x)'
               \/ refresh[t] = "answered" /\ answer[t][x] = status'[x]
               \/ refresh[t] = "none" /\ listed[t][x] = status'[x]
    <3>1. (WillRead(t, x)' <=> WillRead(t, x)) /\ <<t, x>> \notin behind
      BY <1>1, <2>1 DEF WillRead
    <3>2. CASE x = c
      BY <1>1, <2>1, <3>1, <3>2 DEF Overtaken
    <3>3. CASE x # c
      BY <1>3, <2>1, <3>1, <3>3 DEF IInv, ListOK, Mine
    <3>4. QED
      BY <3>2, <3>3
  <2>2. QED
    BY <1>1, <2>1 DEF ListOK, Mine
<1>7. QED
  BY <1>1, <1>4, <1>5, <1>6, Untouched DEF IInv

\* A handler fails: its report, if it has one, counts as raced.
LEMMA FailOK ==
    ASSUME IInv, NEW r \in Requests, Fail(r)
    PROVE  IInv'
<1> PICK c : c = work[r].courier
  OBVIOUS
<1>1. /\ pc[r] # "idle" /\ Step(r, pc[r], "idle", Idle)
      /\ raced' = IF work[r].report = 0 THEN raced ELSE raced \cup {c}
      /\ UNCHANGED <<status, cache, recent, sent, kind, company, page, marks, listed, token, sock,
                     inbox, timer, refresh, answer, points, latest, uncached, behind>>
  BY DEF Fail, tab, user
<1>2. TypeOK
  BY DEF IInv
<1>3. c \in Couriers /\ \A x \in Couriers : r \in Reporting(x) => x = c /\ work[r].report # 0
  BY <1>1, Handled
<1>4. /\ pc'[r] = "idle" /\ work'[r] = Idle
      /\ \A q \in Requests \ {r} : pc'[q] = pc[q] /\ work'[q] = work[q]
      /\ pc' \in [Requests -> {"idle", "caching", "checking", "inserting", "emitting", "committing"}]
      /\ work' \in [Requests -> Work]
  BY <1>1, <1>2, IdleIsWork, StepMoves
<1>5. ASSUME NEW x \in Couriers \ raced'
      PROVE  /\ x \notin raced
             /\ Reporting(x)' = Reporting(x)
             /\ \A q \in Reporting(x) : pc'[q] = pc[q] /\ work'[q] = work[q]
  <2>1. x \notin raced /\ r \notin Reporting(x)
    BY <1>1, <1>3, <1>5
  <2>2. Reporting(x)' = Reporting(x) \ {r} /\ Reporting(x) \subseteq Requests
    BY <1>4, ReportingEnds
  <2>3. QED
    BY <1>4, <2>1, <2>2
<1>6. TypeOK'
  BY <1>1, <1>2, <1>3, <1>4 DEF TypeOK
<1>7. WorkOK'
  BY <1>4, IdleIsWork DEF IInv, WorkOK, RequestOK
<1>8. InboxOK' /\ MarksOK'
  <2>1. \A x \in Couriers \ raced' : Coming(x) => Coming(x)'
    BY <1>5 DEF Coming
  <2>2. QED
    BY <1>1, <2>1, MarksStay
<1>9. SampleOK'
  <2>1. \A x \in Couriers \ raced' : Inserted(x)' <=> Inserted(x)
    BY <1>5 DEF Inserted
  <2>2. QED
    BY <1>1, <1>5, <2>1 DEF IInv, SampleOK
<1>10. CacheOK'
  BY <1>1, <1>5 DEF IInv, CacheOK, Cached
<1>11. QED
  BY <1>1, <1>6, <1>7, <1>8, <1>9, <1>10, Untouched DEF IInv

LEMMA WindowPassesOK ==
    ASSUME IInv, NEW c \in Couriers, WindowPasses(c)
    PROVE  IInv'
<1>1. /\ \A r \in Reporting(c) : ~work[r].inserted
      /\ recent' = recent \ {c}
      /\ points' = [points EXCEPT ![c] = 0]
      /\ UNCHANGED <<status, cache, sent, pc, work, kind, company, page, marks, listed, token, sock,
                     inbox, timer, refresh, answer, latest, uncached, raced, behind>>
  BY DEF WindowPasses, tab, user
<1>2. TypeOK'
  BY <1>1 DEF IInv, TypeOK
<1>3. SampleOK'
  <2>1. \A x \in Couriers : Inserted(x)' = Inserted(x) /\ Reporting(x)' = Reporting(x)
    BY <1>1 DEF Inserted, Reporting
  <2>2. ~Inserted(c)
    BY <1>1 DEF Inserted
  <2>3. points'[c] = 0 /\ \A x \in Couriers \ {c} : points'[x] = points[x]
    BY <1>1 DEF IInv, TypeOK
  <2>4. QED
    BY <1>1, <2>1, <2>2, <2>3 DEF IInv, SampleOK
<1>4. QED
  BY <1>1, <1>2, <1>3, Untouched DEF IInv

LEMMA CacheExpiresOK ==
    ASSUME IInv, NEW c \in Couriers, CacheExpires(c)
    PROVE  IInv'
<1>1. /\ cache' = [cache EXCEPT ![c] = 0]
      /\ uncached' = uncached \cup {c}
      /\ UNCHANGED <<status, recent, sent, pc, work, kind, company, page, marks, listed, token, sock,
                     inbox, timer, refresh, answer, points, latest, raced, behind>>
  BY DEF CacheExpires, tab, user
<1>2. TypeOK'
  <2>1. TypeOK
    BY DEF IInv
  <2>2. cache' \in [Couriers -> Reports] /\ uncached' \subseteq Couriers
    <3>1. 0 \in Reports
      BY BoundIsNatural DEF Reports
    <3>2. cache \in [Couriers -> Reports] /\ uncached \subseteq Couriers
      BY <2>1 DEF TypeOK
    <3>3. QED
      BY <1>1, <3>1, <3>2
  <2>3. QED
    BY <1>1, <2>1, <2>2 DEF TypeOK
<1>3. CacheOK'
  BY <1>1 DEF IInv, TypeOK, CacheOK, Reporting
<1>4. QED
  BY <1>1, <1>2, <1>3, Untouched DEF IInv

----------------------------------------------------------------------------
\* Whatever fails, is cut off or overtaken, what the properties need stays true.
THEOREM LiveInvariant == Spec => []IInv
<1>1. Init => IInv
  <2> SUFFICES ASSUME Init PROVE IInv
    OBVIOUS
  <2>1. TypeOK
    BY IdleIsWork, BlankIsTyped, BoundIsNatural DEF Init, TypeOK, Reports
  <2>2. WorkOK /\ \A c \in Couriers : Reporting(c) = {}
    BY IdleIsWork DEF Init, WorkOK, RequestOK, Reporting
  <2>3. \A t \in Tabs : inbox[t] = << >> /\ DOMAIN inbox[t] = {}
    <3>1. inbox = [t \in Tabs |-> << >>]
      BY DEF Init
    <3>2. QED
      BY <3>1
  <2>4. SocketsOK /\ RefreshesOK
    BY <2>3 DEF Init, SocketsOK, RefreshesOK
  <2>5. RoomsStaySeparate /\ AnswersOK
    BY <2>3, BlankIsTyped DEF Init, RoomsStaySeparate, AnswersOK, Mine
  <2>6. SampleOK /\ CacheOK
    BY <2>2 DEF Init, SampleOK, CacheOK, Inserted
  <2>7. InboxOK /\ MarksOK /\ ListOK
    BY <2>3 DEF Init, InboxOK, MarksOK, ListOK, Positions
  <2>8. QED
    BY <2>1, <2>2, <2>4, <2>5, <2>6, <2>7 DEF IInv
<1>2. IInv /\ [Next]_vars => IInv'
  <2> SUFFICES ASSUME IInv, [Next]_vars PROVE IInv'
    OBVIOUS
  <2>1. ASSUME NEW r \in Requests, Handler(r)
        PROVE  IInv'
    BY <2>1, ReportOK, SetStatusOK, CacheLocationOK, CheckIntervalOK, InsertPointOK, EmitOK,
       CommitOK, FailOK DEF Handler
  <2>2. ASSUME NEW t \in Tabs, Tab(t)
        PROVE  IInv'
    BY <2>2, LoadOK, SocketStepsOK, DropOK, ReceiveOK, StartRefreshOK, RenderOK, ShowRefreshedOK
       DEF Tab
  <2>3. CASE UNCHANGED vars
    BY <2>3, Untouched DEF IInv, TypeOK, vars
  <2>4. QED
    BY <2>1, <2>2, <2>3, WindowPassesOK, CacheExpiresOK, PutBackOK, RestartOK DEF Next
<1>3. QED
  BY <1>1, <1>2, PTL DEF Spec

\* The type of everything stored, on its way and on show.
THEOREM TypeCorrect == Spec => []TypeOK
  BY LiveInvariant, PTL DEF IInv

\* realtime.gateway.ts:33-39: a tab is sent and shows nothing of another company's couriers.
THEOREM RoomsSeparate == Spec => []RoomsStaySeparate
  BY LiveInvariant, PTL DEF IInv

\* locations.service.ts:10-23: one row of a courier in a window, unless reports overlap or fail.
THEOREM TrailSampled == Spec => []TrailIsSampled
<1>1. IInv => TrailIsSampled
  <2> SUFFICES ASSUME IInv, NEW c \in Couriers \ raced
               PROVE  /\ points[c] <= 1
                      /\ c \in recent /\ Reporting(c) = {} => points[c] = 1
    BY DEF TrailIsSampled
  <2>1. points[c] = IF c \in recent /\ ~Inserted(c) THEN 1 ELSE 0
    BY DEF IInv, SampleOK
  <2>2. Reporting(c) = {} => ~Inserted(c)
    BY DEF Inserted
  <2>3. QED
    BY <2>1, <2>2
<1>2. QED
  BY <1>1, LiveInvariant, PTL

\* MapView.tsx:28-34: a map at rest shows the report broadcast last.
THEOREM MapIsLatest == Spec => []MapShowsLatest
<1>1. IInv => MapShowsLatest
  <2> SUFFICES ASSUME IInv, NEW t \in Tabs, kind[t] = "map", page[t] # "none", inbox[t] = << >>,
                      NEW c \in Mine(t) \ raced, Reporting(c) = {}, <<t, c>> \notin behind
               PROVE  marks[t][c] = latest[c]
    BY DEF MapShowsLatest
  <2>1. Positions(t, c) = {} /\ ~Coming(c)
    BY DEF Positions, Coming
  <2>2. QED
    BY <2>1 DEF IInv, MarksOK
<1>2. QED
  BY <1>1, LiveInvariant, PTL

\* RealtimeRefresher.tsx:7-16: a list at rest shows what is committed.
THEOREM ListIsCommitted == Spec => []ListShowsCommitted
<1>1. IInv => ListShowsCommitted
  BY DEF IInv, ListOK, ListShowsCommitted, WillRead
<1>2. QED
  BY <1>1, LiveInvariant, PTL

=============================================================================
