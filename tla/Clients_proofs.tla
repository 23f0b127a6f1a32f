--------------------------- MODULE Clients_proofs ---------------------------
(***************************************************************************)
(* What holds of Clients for any number of clients, pairs of tokens and    *)
(* tasks: a client whose tasks have neither overlapped, nor been cut off,  *)
(* nor met an error of the backend keeps its session until its user logs   *)
(* out or resets the password, or thirty days pass, and keeps nothing      *)
(* after a logout. The tasks of other clients, disturbed or not, may       *)
(* interleave with its own in any way.                                     *)
(***************************************************************************)
EXTENDS ClientRefinement, TLAPS

AllScreens == {"login", "page", "loading", "signedOut", "mounting", "signedIn"}

\* A pair a client has, in its store or in a task, was issued to it.
Owned(p, k) == p = NoPair \/ (p \in Issued /\ row[p].user = k)
StoresOK == \A k \in Clients : Owned(access[k], k) /\ Owned(refresh[k], k)

\* A family has one user. No access token outlives its refresh token.
RowsOK ==
    /\ \A p \in Issued : /\ row[p].user \in Clients
                         /\ row[p].family \in Issued
                         /\ row[row[p].family].user = row[p].user
    /\ fresh \cap lapsed = {}

\* What a task does is what it was started for, on a client of the right kind.
Reads == {"page", "me", "home"}
TaskTyped(r) ==
    LET w == work[r] IN
    /\ Owned(w.refresh, w.client) /\ Owned(w.next, w.client)
    /\ pc[r] = "idle" => w = Idle
    /\ pc[r] # "idle" =>
        /\ w.client \in Clients /\ w.for # "none"
        /\ w.for = "page" => kind[w.client] = "browser"
        /\ w.for \in {"me", "home"} => kind[w.client] = "app"
        /\ pc[r] \in {"refreshing", "rotating", "refused"} => w.for \in Reads
        /\ pc[r] \in {"refreshing", "rotating", "loggingOut"} => w.refresh # NoPair
        /\ pc[r] \in {"answered", "saving"} => w.for # "logout" /\ w.next # NoPair
        /\ pc[r] \in {"loggingOut", "clearing"} => w.for = "logout"
        /\ pc[r] = "loggingIn" => w.for = "login"
        /\ w.for = "reset" <=> pc[r] = "resetting"
        /\ w.for = "reset" => kind[w.client] = "app"
        /\ pc[r] = "fetching" => w.for \in {"me", "home"}
        /\ pc[r] = "cleared" => w.for \in {"me", "home", "logout"}
        /\ pc[r] \in {"fetching", "saving", "cleared", "done"} => kind[w.client] = "app"
TasksOK == \A r \in Tasks : TaskTyped(r)

\* One task at a time, unless the client was disturbed.
Alone(k) == \A q, r \in Tasks : work[q].client = k /\ work[r].client = k => q = r

\* What is left is not live, or is about to be revoked.
Leaving(f)  == \E r \in Tasks : pc[r] = "loggingOut" /\ row[work[r].refresh].family = f
LeftDead(k) == \A p \in Issued : row[p].user = k /\ row[p].family \in left =>
                  ~Live(p) \/ Leaving(row[p].family)

\* Between two tasks a client has what its session needs; and what each task has of it so far.
Equipped(k) == Live(refresh[k]) /\ (IsApp(k) => access[k] # NoPair)
Empty(k)    == access[k] = NoPair /\ refresh[k] = NoPair
ScreenOK(k) == /\ session[k] = "in" => screen[k] # "signedOut"
               /\ screen[k] = "mounting" => session[k] # "out"
RestOK(k)   == ~Busy(k) => /\ session[k] = "in" => Equipped(k)
                           /\ session[k] = "out" => Empty(k)
TaskOK(r, k) ==
    LET w == work[r] IN
    /\ w.for \in Reads => session[k] # "out"
    /\ w.for = "logout" => session[k] = "out" /\ pc[r] \in {"loggingOut", "clearing", "cleared", "done"}
    /\ w.for = "reset" /\ session[k] = "out" => Empty(k)
    /\ pc[r] \in {"fetching", "resetting"} /\ session[k] = "in" => Equipped(k)
    /\ pc[r] = "refreshing" => w.refresh = refresh[k] /\ (session[k] = "in" => Live(refresh[k]))
    /\ pc[r] = "rotating" => Live(w.refresh)
    /\ pc[r] \in {"answered", "saving"} => Live(w.next)
    /\ pc[r] = "saving" => access[k] = w.next
    /\ pc[r] \in {"refused", "failed"} => session[k] = "lapsed"
    /\ pc[r] = "cleared" => access[k] = NoPair /\ session[k] # "in"
    /\ pc[r] = "done" => CASE w.for = "logout" -> Empty(k)
                           [] w.for = "login"  -> refresh[k] = w.next /\ Equipped(k)
                           [] OTHER            -> session[k] = "in" => Equipped(k)

ClientOK(k) == /\ Alone(k) /\ LeftDead(k) /\ ScreenOK(k) /\ RestOK(k)
               /\ \A r \in Tasks : work[r].client = k => TaskOK(r, k)

GlobalOK == /\ TypeOK /\ screen \in [Clients -> AllScreens]
            /\ StoresOK /\ RowsOK /\ TasksOK
IInv == GlobalOK /\ \A k \in Clients \ disturbed : ClientOK(k)

----------------------------------------------------------------------------
(* What a step of one client leaves alone *)

\* A client whose store, screen, session, tasks and pairs a step leaves alone.
Untouched(j) ==
    /\ access'[j] = access[j] /\ refresh'[j] = refresh[j]
    /\ screen'[j] = screen[j] /\ session'[j] = session[j] /\ kind'[j] = kind[j]
    /\ \A q \in Tasks : work[q].client = j \/ work'[q].client = j =>
          pc'[q] = pc[q] /\ work'[q] = work[q]
    /\ \A p \in Pairs : row[p].user = j \/ row'[p].user = j =>
          /\ row'[p] = row[p]
          /\ p \in revoked' <=> p \in revoked
          /\ p \in lapsed' <=> p \in lapsed
          /\ row[p].family \in left' => row[p].family \in left

LEMMA OthersKept ==
    ASSUME GlobalOK, NEW j \in Clients, ClientOK(j), Untouched(j)
    PROVE  ClientOK(j)'
<1> USE DEF Untouched
<1>1. \A p \in Pairs : row[p].user = j => (Live(p)' <=> Live(p))
  BY DEF Live, Issued
<1>2. Live(refresh[j])' <=> Live(refresh[j])
  BY <1>1, NullsAreNotIds DEF GlobalOK, StoresOK, Owned, Live, Issued, TypeOK
<1>3. \A q \in Tasks : work'[q].client = j =>
          /\ Live(work[q].refresh)' <=> Live(work[q].refresh)
          /\ Live(work[q].next)' <=> Live(work[q].next)
  BY <1>1, NullsAreNotIds DEF GlobalOK, TasksOK, TaskTyped, Owned, Live, Issued, TypeOK
<1>4. Alone(j)'
  BY DEF ClientOK, Alone
<1>5. LeftDead(j)'
  <2>1. ASSUME NEW p \in Issued', row'[p].user = j, row'[p].family \in left'
        PROVE  (~Live(p) \/ Leaving(row[p].family))'
    <3>1. p \in Issued /\ row[p] = row'[p] /\ row[p].family \in left
      BY <2>1 DEF Issued
    <3>2. CASE ~Live(p)
      BY <1>1, <2>1, <3>1, <3>2 DEF Issued
    <3>3. CASE Leaving(row[p].family)
      <4>1. PICK q \in Tasks : pc[q] = "loggingOut" /\ row[work[q].refresh].family = row[p].family
        BY <3>3 DEF Leaving
      <4>2. work[q].refresh \in Issued /\ row[work[q].refresh].user = work[q].client
        BY <4>1 DEF GlobalOK, TasksOK, TaskTyped, Owned
      <4>3. row[work[q].refresh].user = row[p].user
        BY <3>1, <4>1, <4>2 DEF GlobalOK, RowsOK
      <4>4. pc'[q] = pc[q] /\ work'[q] = work[q] /\ row'[work[q].refresh] = row[work[q].refresh]
        BY <2>1, <3>1, <4>2, <4>3 DEF Issued
      <4>5. QED
        BY <3>1, <4>1, <4>4 DEF Leaving
    <3>4. QED
      BY <2>1, <3>1, <3>2, <3>3 DEF ClientOK, LeftDead
  <2>2. QED
    BY <2>1 DEF LeftDead
<1>6. ScreenOK(j)'
  BY DEF ClientOK, ScreenOK
<1>7. Equipped(j)' <=> Equipped(j)
  BY <1>2 DEF Equipped, IsApp
<1>8. RestOK(j)'
  BY <1>7 DEF ClientOK, RestOK, Busy, Empty
<1>9. ASSUME NEW q \in Tasks, work'[q].client = j
      PROVE  TaskOK(q, j)'
  BY <1>2, <1>3, <1>7, <1>9 DEF ClientOK, TaskOK, Empty
<1>10. QED
  BY <1>4, <1>5, <1>6, <1>8, <1>9 DEF ClientOK

\* A step of a task r of client k: nothing of other clients or tasks changes, and what is issued,
\* revoked or left is k's.
StepOf(r, k) ==
    /\ kind' = kind /\ lapsed' = lapsed
    /\ pc' \in [Tasks -> Steps] /\ work' \in [Tasks -> Work]
    /\ \A q \in Tasks \ {r} : pc'[q] = pc[q] /\ work'[q] = work[q]
    /\ work[r].client \in {k, NoClient} /\ work'[r].client \in {k, NoClient}
    /\ access' \in [Clients -> Pairs \cup {NoPair}] /\ refresh' \in [Clients -> Pairs \cup {NoPair}]
    /\ screen' \in [Clients -> AllScreens] /\ session' \in [Clients -> {"out", "in", "lapsed"}]
    /\ \A j \in Clients \ {k} : /\ access'[j] = access[j] /\ refresh'[j] = refresh[j]
                                /\ screen'[j] = screen[j] /\ session'[j] = session[j]
    /\ disturbed \subseteq disturbed' /\ disturbed' \subseteq Clients
    /\ \A f \in left' : f \in left \/ (f \in Issued /\ row[f].user = k)
    /\ row' \in [Pairs -> Rows]
    /\ \A p \in Issued : row'[p] = row[p]
    /\ \A p \in Issued' \ Issued : row'[p].user = k /\ row'[p].family \in Issued'
                                  /\ row'[row'[p].family].user = k
    /\ revoked' \subseteq Issued'
    /\ \A p \in Issued : row[p].user # k => (p \in revoked' <=> p \in revoked)
    /\ \A p \in fresh' : p \in fresh \/ p \in Issued' \ Issued

\* What it has to leave of k, besides the types.
Own(r, k) ==
    /\ \A q \in Tasks \ {r} : work[q].client # k
    /\ LeftDead(k) /\ ScreenOK(k) /\ RestOK(k)
    /\ work[r].client = k => TaskOK(r, k)

LEMMA TaskStep ==
    ASSUME IInv, NEW r \in Tasks, NEW k \in Clients, StepOf(r, k),
           Owned(access[k], k)', Owned(refresh[k], k)', TaskTyped(r)',
           screen'[k] \in Screens[kind[k]],
           k \notin disturbed' => Own(r, k)'
    PROVE  IInv'
<1> USE DEF StepOf
<1>1. Issued \subseteq Issued'
  BY DEF Issued
<1>2. \A p \in Pairs, j \in Clients : Owned(p, j) => Owned(p, j)'
  BY <1>1 DEF Owned
<1>3. TypeOK'
  <2>1. fresh' \subseteq Issued' /\ lapsed' \subseteq Issued' /\ left' \subseteq Issued'
    BY <1>1 DEF IInv, GlobalOK, TypeOK
  <2>2. \A j \in Clients : screen'[j] \in Screens[kind'[j]]
    BY DEF IInv, GlobalOK, TypeOK
  <2>3. QED
    BY <2>1, <2>2 DEF IInv, GlobalOK, TypeOK
<1>4. StoresOK'
  <2>1. ASSUME NEW j \in Clients, j # k
        PROVE  Owned(access[j], j)' /\ Owned(refresh[j], j)'
    BY <1>1, <2>1 DEF IInv, GlobalOK, StoresOK, Owned
  <2>2. QED
    BY <2>1 DEF StoresOK
<1>5. RowsOK'
  <2>1. ASSUME NEW p \in Issued'
        PROVE  /\ row'[p].user \in Clients
               /\ row'[p].family \in Issued'
               /\ row'[row'[p].family].user = row'[p].user
    BY <1>1, <2>1 DEF IInv, GlobalOK, RowsOK
  <2>2. fresh' \cap lapsed' = {}
    BY DEF IInv, GlobalOK, RowsOK, TypeOK
  <2>3. QED
    BY <2>1, <2>2 DEF RowsOK
<1>6. TasksOK'
  <2>1. ASSUME NEW q \in Tasks, q # r
        PROVE  TaskTyped(q)'
    <3>1. TaskTyped(q) /\ pc'[q] = pc[q] /\ work'[q] = work[q] /\ kind' = kind
      BY <2>1 DEF IInv, GlobalOK, TasksOK
    <3>2. Owned(work[q].refresh, work[q].client)' /\ Owned(work[q].next, work[q].client)'
      BY <1>1, <3>1 DEF TaskTyped, Owned
    <3>3. QED
      BY <3>1, <3>2 DEF TaskTyped
  <2>2. QED
    BY <2>1 DEF TasksOK
<1>7. ASSUME NEW j \in Clients \ disturbed', j # k
      PROVE  ClientOK(j)'
  <2>1. GlobalOK /\ ClientOK(j) /\ j # NoClient
    BY <1>7, NullsAreNotIds DEF IInv
  <2>2. \A p \in Pairs : row[p].user = j \/ row'[p].user = j => p \in Issued /\ row'[p] = row[p]
    <3>1. NoRow.user = NoClient
      BY DEF NoRow
    <3>2. QED
      BY <1>7, <2>1, <3>1 DEF Issued
  <2>3. ASSUME NEW p \in Pairs, row[p].user = j, row[p].family \in left'
        PROVE  row[p].family \in left
    BY <1>7, <2>1, <2>2, <2>3 DEF GlobalOK, RowsOK
  <2>4. \A q \in Tasks : work[q].client = j \/ work'[q].client = j =>
            pc'[q] = pc[q] /\ work'[q] = work[q]
    BY <1>7, <2>1
  <2>5. Untouched(j)
    BY <1>7, <2>2, <2>3, <2>4 DEF Untouched
  <2>6. QED
    BY <2>1, <2>5, OthersKept
<1>8. ASSUME k \notin disturbed'
      PROVE  ClientOK(k)'
  BY <1>8 DEF Own, ClientOK, Alone
<1>9. QED
  BY <1>3, <1>4, <1>5, <1>6, <1>7, <1>8 DEF IInv, GlobalOK

----------------------------------------------------------------------------
(* Tasks that start, go on and end *)

Moves(r, k) ==
    /\ pc' \in [Tasks -> Steps] /\ work' \in [Tasks -> Work]
    /\ \A q \in Tasks \ {r} : pc'[q] = pc[q] /\ work'[q] = work[q]
    /\ work[r].client \in {k, NoClient} /\ work'[r].client \in {k, NoClient}

LEMMA IdleIsWork == Idle \in Work /\ Idle.client = NoClient /\ Idle.refresh = NoPair /\ Idle.next = NoPair
BY DEF Idle, Work

Purposes == {"page", "login", "logout", "me", "home", "reset"}

Started(r, k, for, step) ==
    /\ Moves(r, k) /\ pc[r] = "idle" /\ pc'[r] = step
    /\ work'[r] = [client |-> k, for |-> for, access |-> access[k], refresh |-> refresh[k],
                   next |-> NoPair]
    /\ disturbed \subseteq disturbed' /\ disturbed' \subseteq Clients
    /\ k \notin disturbed' =>
          k \notin disturbed /\ ~Busy(k) /\ \A q \in Tasks \ {r} : work'[q].client # k

LEMMA StartStep ==
    ASSUME IInv, NEW r \in Tasks, NEW k \in Clients,
           NEW for \in Purposes, NEW step \in Steps, Start(r, k, for, step)
    PROVE  Started(r, k, for, step)
<1> DEFINE w == [client |-> k, for |-> for, access |-> access[k], refresh |-> refresh[k],
                 next |-> NoPair]
<1>1. TypeOK /\ TaskTyped(r)
  BY DEF IInv, GlobalOK, TasksOK
<1>2. w \in Work /\ w.client = k
  BY <1>1 DEF TypeOK, Work, Purposes
<1>3. /\ pc[r] = "idle" /\ pc' = [pc EXCEPT ![r] = step] /\ work' = [work EXCEPT ![r] = w]
      /\ disturbed' = disturbed \cup {c \in {k} : Busy(c)}
  BY DEF Start
<1>4. work[r].client = NoClient
  BY <1>1, <1>3, IdleIsWork DEF TaskTyped
<1> HIDE DEF w
<1>5. Moves(r, k) /\ pc'[r] = step /\ work'[r] = w
  BY <1>1, <1>2, <1>3, <1>4 DEF Moves, TypeOK
<1>6. disturbed \subseteq disturbed' /\ disturbed' \subseteq Clients
  BY <1>1, <1>3 DEF TypeOK
<1>7. k \notin disturbed' =>
          k \notin disturbed /\ ~Busy(k) /\ \A q \in Tasks \ {r} : work'[q].client # k
  BY <1>3, <1>5 DEF Busy, Moves
<1>8. QED
  BY <1>3, <1>5, <1>6, <1>7 DEF w, Started

Continued(r, from, to, w) ==
    /\ work[r].client \in Clients /\ Moves(r, work[r].client)
    /\ pc[r] = from /\ pc'[r] = to /\ work'[r] = w

LEMMA ContinueStep ==
    ASSUME IInv, NEW r \in Tasks, NEW from \in Steps, NEW to \in Steps, NEW w \in Work,
           Continue(r, from, to, w), from # "idle", w.client = work[r].client
    PROVE  Continued(r, from, to, w)
<1>1. TypeOK /\ TaskTyped(r) /\ pc[r] = from
  BY DEF IInv, GlobalOK, TasksOK, Continue
<1>2. QED
  BY <1>1 DEF Continue, TypeOK, TaskTyped, Moves, Continued

LEMMA FinishStep ==
    ASSUME IInv, NEW r \in Tasks, Finish(r), pc[r] # "idle"
    PROVE  Continued(r, pc[r], "idle", Idle)
<1>1. TypeOK /\ TaskTyped(r)
  BY DEF IInv, GlobalOK, TasksOK
<1>2. /\ pc' \in [Tasks -> Steps] /\ work' \in [Tasks -> Work]
      /\ pc'[r] = "idle" /\ work'[r] = Idle
      /\ \A q \in Tasks \ {r} : pc'[q] = pc[q] /\ work'[q] = work[q]
  BY <1>1, IdleIsWork DEF Finish, TypeOK, Steps
<1>3. QED
  BY <1>1, <1>2, IdleIsWork DEF TaskTyped, Moves, Continued

\* On a client that was not disturbed, a task is the only one.
LEMMA OnlyTask ==
    ASSUME IInv, NEW r \in Tasks, NEW k \in Clients \ disturbed, work[r].client = k, Moves(r, k)
    PROVE  /\ ClientOK(k) /\ TaskOK(r, k)
           /\ \A q \in Tasks \ {r} : work[q].client # k /\ work'[q].client # k
BY DEF IInv, ClientOK, Alone, Moves

\* An ended task has nothing; an unfinished one keeps the client from resting.
LEMMA RestOrTask ==
    ASSUME NEW r \in Tasks, NEW k \in Clients, \A q \in Tasks \ {r} : work'[q].client # k
    PROVE  /\ work'[r].client = k => RestOK(k)'
           /\ work'[r].client # k => ~Busy(k)'
BY DEF RestOK, Busy

\* The families that were left stay dead, if none is being left.
LEMMA LeftKept ==
    ASSUME IInv, NEW r \in Tasks, NEW k \in Clients \ disturbed, Moves(r, k),
           pc[r] # "loggingOut", row' = row, left' = left, lapsed' = lapsed, revoked \subseteq revoked'
    PROVE  LeftDead(k)'
<1>1. LeftDead(k) /\ Issued' = Issued
  BY DEF IInv, ClientOK, Issued
<1>2. \A p \in Issued : Live(p)' => Live(p)
  BY <1>1 DEF Live
<1>3. \A f \in Pairs : Leaving(f) => Leaving(f)'
  BY DEF Leaving, Moves
<1>4. \A p \in Issued : row[p].family \in Pairs
  BY DEF IInv, GlobalOK, RowsOK, Issued
<1>5. QED
  BY <1>1, <1>2, <1>3, <1>4 DEF LeftDead

\* What a task of the client sees of its pairs.
LEMMA LiveSame ==
    ASSUME row' = row, revoked' = revoked, lapsed' = lapsed
    PROVE  Issued' = Issued /\ \A p : Live(p)' <=> Live(p)
BY DEF Live, Issued

----------------------------------------------------------------------------
(* Tasks that start *)

LEMMA StartOK ==
    ASSUME IInv, NEW r \in Tasks, NEW k \in Clients,
           NEW for \in Purposes, NEW step \in Steps,
           Start(r, k, for, step),
           UNCHANGED <<kind, stored, server, clock, session, left>>,
           screen' \in [Clients -> AllScreens], screen'[k] \in Screens[kind[k]],
           \A j \in Clients \ {k} : screen'[j] = screen[j],
           TaskTyped(r)',
           k \notin disturbed /\ ~Busy(k) => ScreenOK(k)' /\ TaskOK(r, k)'
    PROVE  IInv'
<1>1. /\ Moves(r, k) /\ pc[r] = "idle" /\ pc'[r] = step /\ work'[r].client = k
      /\ disturbed \subseteq disturbed' /\ disturbed' \subseteq Clients
      /\ k \notin disturbed' =>
            k \notin disturbed /\ ~Busy(k) /\ \A q \in Tasks \ {r} : work'[q].client # k
  <2>1. Started(r, k, for, step)
    BY StartStep
  <2>2. QED
    BY <2>1 DEF Started
<1>2. /\ UNCHANGED <<kind, access, refresh, row, revoked, fresh, lapsed, session, left>>
      /\ Issued' = Issued
  BY DEF stored, server, clock, Issued
<1>3. StepOf(r, k)
  BY <1>1, <1>2 DEF IInv, GlobalOK, TypeOK, StepOf, Moves
<1>4. Owned(access[k], k)' /\ Owned(refresh[k], k)'
  BY <1>2 DEF IInv, GlobalOK, StoresOK, Owned
<1>5. ASSUME k \notin disturbed'
      PROVE  Own(r, k)'
  <2>1. LeftDead(k)'
    BY <1>1, <1>2, <1>5, LeftKept
  <2>2. RestOK(k)'
    BY <1>1, <1>5, RestOrTask
  <2>3. QED
    BY <1>1, <1>5, <2>1, <2>2 DEF Own
<1>6. QED
  BY <1>3, <1>4, <1>5, TaskStep

LEMMA NavigateOK ==
    ASSUME IInv, NEW r \in Tasks, NEW k \in Clients, Navigate(r, k)
    PROVE  IInv'
<1>1. /\ kind[k] = "browser" /\ refresh[k] # NoPair /\ Start(r, k, "page", "refreshing")
      /\ UNCHANGED <<kind, stored, screen, server, clock, session, left>>
      /\ UNCHANGED <<kind, access, refresh, row, revoked, lapsed>>
      /\ TypeOK
  BY DEF Navigate, IsApp, IInv, GlobalOK, TypeOK, stored, server, clock
<1>2. pc'[r] = "refreshing" /\ work'[r] = [client |-> k, for |-> "page", access |-> access[k],
                                           refresh |-> refresh[k], next |-> NoPair]
  <2>1. Started(r, k, "page", "refreshing")
    BY <1>1, StartStep DEF Steps, Purposes
  <2>2. QED
    BY <2>1 DEF Started
<1>3. TaskTyped(r)'
  BY <1>1, <1>2 DEF TaskTyped, IInv, GlobalOK, StoresOK, Owned, Issued, Reads
<1>4. k \notin disturbed /\ ~Busy(k) => ScreenOK(k)' /\ TaskOK(r, k)'
  <2>1. ASSUME k \notin disturbed, ~Busy(k)
        PROVE  ScreenOK(k) /\ session[k] # "out" /\ (session[k] = "in" => Live(refresh[k]))
    BY <1>1, <2>1 DEF IInv, ClientOK, RestOK, Equipped, Empty
  <2>2. QED
    BY <1>1, <1>2, <2>1, LiveSame DEF ScreenOK, TaskOK
<1>5. QED
  BY <1>1, <1>3, <1>4, StartOK DEF IInv, GlobalOK, TypeOK, Steps, Purposes

LEMMA LogInOK ==
    ASSUME IInv, NEW r \in Tasks, NEW k \in Clients, LogIn(r, k)
    PROVE  IInv'
<1>1. /\ Start(r, k, "login", "loggingIn")
      /\ UNCHANGED <<kind, stored, screen, server, clock, session, left>>
      /\ UNCHANGED <<kind, access, refresh, row, revoked, lapsed>>
      /\ TypeOK
  BY DEF LogIn, IInv, GlobalOK, TypeOK, stored, server, clock
<1>2. pc'[r] = "loggingIn" /\ work'[r] = [client |-> k, for |-> "login", access |-> access[k],
                                          refresh |-> refresh[k], next |-> NoPair]
  <2>1. Started(r, k, "login", "loggingIn")
    BY <1>1, StartStep DEF Steps, Purposes
  <2>2. QED
    BY <2>1 DEF Started
<1>3. TaskTyped(r)'
  BY <1>1, <1>2 DEF TaskTyped, IInv, GlobalOK, StoresOK, Owned, Issued, Reads
<1>4. k \notin disturbed => ScreenOK(k)' /\ TaskOK(r, k)'
  BY <1>1, <1>2 DEF IInv, ClientOK, ScreenOK, TaskOK, Reads
<1>5. QED
  BY <1>1, <1>3, <1>4, StartOK DEF IInv, GlobalOK, TypeOK, Steps, Purposes

LEMMA FetchMeOK ==
    ASSUME IInv, NEW r \in Tasks, NEW k \in Clients, FetchMe(r, k)
    PROVE  IInv'
<1>1. /\ kind[k] = "app" /\ access[k] # NoPair /\ Start(r, k, "me", "fetching")
      /\ UNCHANGED <<kind, stored, screen, server, clock, session, left>>
      /\ UNCHANGED <<kind, access, refresh, row, revoked, lapsed>>
      /\ TypeOK
  BY DEF FetchMe, IsApp, IInv, GlobalOK, TypeOK, stored, server, clock
<1>2. pc'[r] = "fetching" /\ work'[r] = [client |-> k, for |-> "me", access |-> access[k],
                                         refresh |-> refresh[k], next |-> NoPair]
  <2>1. Started(r, k, "me", "fetching")
    BY <1>1, StartStep DEF Steps, Purposes
  <2>2. QED
    BY <2>1 DEF Started
<1>3. TaskTyped(r)'
  BY <1>1, <1>2 DEF TaskTyped, IInv, GlobalOK, StoresOK, Owned, Issued, Reads
<1>4. k \notin disturbed /\ ~Busy(k) => ScreenOK(k)' /\ TaskOK(r, k)'
  <2>1. ASSUME k \notin disturbed, ~Busy(k)
        PROVE  ScreenOK(k) /\ session[k] # "out" /\ (session[k] = "in" => Equipped(k))
    BY <1>1, <2>1 DEF IInv, ClientOK, RestOK, Empty
  <2>2. QED
    BY <1>1, <1>2, <2>1, LiveSame DEF ScreenOK, TaskOK, Equipped, IsApp
<1>5. QED
  BY <1>1, <1>3, <1>4, StartOK DEF IInv, GlobalOK, TypeOK, Steps, Purposes

LEMMA FetchHomeOK ==
    ASSUME IInv, NEW r \in Tasks, NEW k \in Clients, FetchHome(r, k)
    PROVE  IInv'
<1>1. /\ kind[k] = "app" /\ screen[k] = "mounting" /\ Start(r, k, "home", "fetching")
      /\ screen' = [screen EXCEPT ![k] = "signedIn"]
      /\ UNCHANGED <<kind, stored, server, clock, session, left>>
      /\ UNCHANGED <<kind, access, refresh, row, revoked, lapsed>>
      /\ TypeOK
  BY DEF FetchHome, IsApp, IInv, GlobalOK, TypeOK, stored, server, clock
<1>2. pc'[r] = "fetching" /\ work'[r] = [client |-> k, for |-> "home", access |-> access[k],
                                         refresh |-> refresh[k], next |-> NoPair]
  <2>1. Started(r, k, "home", "fetching")
    BY <1>1, StartStep DEF Steps, Purposes
  <2>2. QED
    BY <2>1 DEF Started
<1>3. TaskTyped(r)'
  BY <1>1, <1>2 DEF TaskTyped, IInv, GlobalOK, StoresOK, Owned, Issued, Reads
<1>4. /\ screen' \in [Clients -> AllScreens] /\ screen'[k] \in Screens[kind[k]]
      /\ screen'[k] = "signedIn" /\ \A j \in Clients \ {k} : screen'[j] = screen[j]
  BY <1>1 DEF IInv, GlobalOK, AllScreens, Screens
<1>5. k \notin disturbed /\ ~Busy(k) => ScreenOK(k)' /\ TaskOK(r, k)'
  <2>1. ASSUME k \notin disturbed, ~Busy(k)
        PROVE  session[k] # "out" /\ (session[k] = "in" => Equipped(k))
    BY <1>1, <2>1 DEF IInv, ClientOK, RestOK, ScreenOK
  <2>2. QED
    BY <1>1, <1>2, <1>4, <2>1, LiveSame DEF ScreenOK, TaskOK, Equipped, IsApp
<1>6. QED
  BY <1>1, <1>3, <1>4, <1>5, StartOK DEF Steps, Purposes

LEMMA ResetPasswordOK ==
    ASSUME IInv, NEW r \in Tasks, NEW k \in Clients, ResetPassword(r, k)
    PROVE  IInv'
<1>1. /\ kind[k] = "app" /\ Start(r, k, "reset", "resetting")
      /\ UNCHANGED <<kind, stored, screen, server, clock, session, left>>
      /\ UNCHANGED <<kind, access, refresh, screen, row, revoked, lapsed, session>>
      /\ TypeOK
  BY DEF ResetPassword, IsApp, IInv, GlobalOK, TypeOK, stored, server, clock
<1>2. pc'[r] = "resetting" /\ work'[r] = [client |-> k, for |-> "reset", access |-> access[k],
                                          refresh |-> refresh[k], next |-> NoPair]
  <2>1. Started(r, k, "reset", "resetting")
    BY <1>1, StartStep DEF Steps, Purposes
  <2>2. QED
    BY <2>1 DEF Started
<1>3. TaskTyped(r)'
  BY <1>1, <1>2 DEF TaskTyped, IInv, GlobalOK, StoresOK, Owned, Issued, Reads
<1>4. k \notin disturbed /\ ~Busy(k) => ScreenOK(k)' /\ TaskOK(r, k)'
  <2>1. ASSUME k \notin disturbed, ~Busy(k)
        PROVE  /\ ScreenOK(k) /\ (session[k] = "in" => Equipped(k))
               /\ session[k] = "out" => Empty(k)
    BY <1>1, <2>1 DEF IInv, ClientOK, RestOK
  <2>2. QED
    BY <1>1, <1>2, <2>1, LiveSame DEF ScreenOK, TaskOK, Equipped, Empty, IsApp, Reads
<1>5. QED
  BY <1>1, <1>3, <1>4, StartOK DEF IInv, GlobalOK, TypeOK, Steps, Purposes

\* The family of the refresh token is left, and about to be revoked if it is live.
LEMMA LogOutOK ==
    ASSUME IInv, NEW r \in Tasks, NEW k \in Clients, LogOut(r, k)
    PROVE  IInv'
<1> DEFINE step == IF refresh[k] = NoPair THEN "clearing" ELSE "loggingOut"
<1>1. /\ screen[k] \in {"page", "signedIn"} /\ Start(r, k, "logout", step)
      /\ session' = [session EXCEPT ![k] = "out"]
      /\ left' = left \cup {row[p].family : p \in {refresh[k]} \ {NoPair}}
      /\ UNCHANGED <<kind, access, refresh, screen, row, revoked, fresh, lapsed>>
      /\ TypeOK /\ Issued' = Issued
  BY DEF LogOut, IInv, GlobalOK, stored, server, clock, Issued
<1>2. /\ Moves(r, k) /\ pc[r] = "idle" /\ pc'[r] = step
      /\ work'[r] = [client |-> k, for |-> "logout", access |-> access[k],
                     refresh |-> refresh[k], next |-> NoPair]
      /\ disturbed \subseteq disturbed' /\ disturbed' \subseteq Clients
      /\ k \notin disturbed' =>
            k \notin disturbed /\ ~Busy(k) /\ \A q \in Tasks \ {r} : work'[q].client # k
  <2>1. step \in Steps /\ "logout" \in Purposes
    BY DEF Steps, Purposes
  <2>2. Start(r, k, "logout", step)
    BY <1>1
  <2> HIDE DEF step
  <2>3. Started(r, k, "logout", step)
    BY <2>1, <2>2, StartStep
  <2>4. QED
    BY <2>3 DEF Started
<1>3. /\ Owned(refresh[k], k) /\ Owned(refresh[k], k)' /\ Owned(access[k], k)'
  BY <1>1 DEF IInv, GlobalOK, StoresOK, Owned
<1>4. \A f \in left' : f \in left \/ (f \in Issued /\ row[f].user = k /\ f = row[refresh[k]].family)
  BY <1>1, <1>3 DEF IInv, GlobalOK, RowsOK, Owned
<1>5. /\ session' \in [Clients -> {"out", "in", "lapsed"}] /\ session'[k] = "out"
      /\ \A j \in Clients \ {k} : session'[j] = session[j]
  BY <1>1 DEF TypeOK
<1>6. StepOf(r, k)
  BY <1>1, <1>2, <1>4, <1>5 DEF IInv, GlobalOK, TypeOK, StepOf, Moves
<1>7. TaskTyped(r)'
  BY <1>1, <1>2, <1>3 DEF TaskTyped, Owned
<1>8. ASSUME k \notin disturbed'
      PROVE  Own(r, k)'
  <2>1. LeftDead(k)'
    <3>1. ASSUME NEW p \in Issued, row[p].user = k, row[p].family \in left'
          PROVE  (~Live(p) \/ Leaving(row[p].family))'
      <4>1. CASE row[p].family \in left
        <5>1. ~Live(p) \/ Leaving(row[p].family)
          BY <1>2, <1>8, <3>1, <4>1 DEF IInv, ClientOK, LeftDead
        <5>2. Leaving(row[p].family) => Leaving(row[p].family)'
          BY <1>1, <1>2 DEF Leaving, Moves
        <5>3. QED
          BY <1>1, <5>1, <5>2, LiveSame
      <4>2. CASE row[p].family \notin left
        <5>1. refresh[k] # NoPair /\ row[p].family = row[refresh[k]].family
          BY <1>1, <3>1, <4>2
        <5>2. pc'[r] = "loggingOut" /\ row'[work'[r].refresh].family = row'[p].family
          BY <1>1, <1>2, <5>1
        <5>3. QED
          BY <5>2 DEF Leaving
      <4>3. QED
        BY <4>1, <4>2
    <3>2. QED
      BY <1>1, <3>1 DEF LeftDead
  <2>2. RestOK(k)'
    BY <1>2, <1>8, RestOrTask
  <2>3. ScreenOK(k)' /\ TaskOK(r, k)'
    BY <1>1, <1>2, <1>5 DEF ScreenOK, TaskOK, Reads
  <2>4. QED
    BY <1>2, <1>8, <2>1, <2>2, <2>3 DEF Own
<1>9. QED
  BY <1>1, <1>3, <1>6, <1>7, <1>8, TaskStep DEF TypeOK

----------------------------------------------------------------------------
(* Tasks that go on and end, on the client's side *)

StoresMove(k) ==
    /\ access' \in [Clients -> Pairs \cup {NoPair}] /\ refresh' \in [Clients -> Pairs \cup {NoPair}]
    /\ screen' \in [Clients -> AllScreens] /\ session' \in [Clients -> {"out", "in", "lapsed"}]
    /\ \A j \in Clients \ {k} : /\ access'[j] = access[j] /\ refresh'[j] = refresh[j]
                                /\ screen'[j] = screen[j] /\ session'[j] = session[j]
    /\ screen'[k] \in Screens[kind[k]]
    /\ disturbed \subseteq disturbed' /\ disturbed' \subseteq Clients

LEMMA ClientStep ==
    ASSUME IInv, NEW r \in Tasks, NEW k \in Clients, work[r].client = k, Moves(r, k),
           StoresMove(k), pc[r] # "loggingOut",
           UNCHANGED <<kind, row, revoked, fresh, lapsed, left>>,
           Owned(access[k], k)', Owned(refresh[k], k)', TaskTyped(r)',
           k \notin disturbed' => /\ ScreenOK(k)'
                                  /\ work'[r].client = k => TaskOK(r, k)'
                                  /\ work'[r].client # k => RestOK(k)'
    PROVE  IInv'
<1>1. Issued' = Issued
  BY DEF Issued
<1>2. StepOf(r, k)
  BY <1>1 DEF IInv, GlobalOK, TypeOK, StepOf, Moves, StoresMove
<1>3. ASSUME k \notin disturbed'
      PROVE  Own(r, k)'
  <2>1. k \notin disturbed
    BY <1>3 DEF StoresMove
  <2>2. LeftDead(k)'
    BY <2>1, LeftKept
  <2>3. \A q \in Tasks \ {r} : work'[q].client # k
    BY <2>1, OnlyTask
  <2>4. RestOK(k)'
    BY <1>3, <2>3, RestOrTask
  <2>5. QED
    BY <1>3, <2>2, <2>3, <2>4 DEF Own
<1>4. QED
  BY <1>2, <1>3, TaskStep DEF StoresMove

\* What a task that goes on can rely on.
LEMMA Facts ==
    ASSUME IInv, NEW r \in Tasks, pc[r] # "idle", work[r].client \in Clients,
           Moves(r, work[r].client)
    PROVE  /\ TypeOK /\ TaskTyped(r) /\ work[r] \in Work
           /\ work[r].client # NoClient
           /\ Owned(access[work[r].client], work[r].client)
           /\ Owned(refresh[work[r].client], work[r].client)
           /\ screen \in [Clients -> AllScreens]
           /\ work[r].client \notin disturbed =>
                 TaskOK(r, work[r].client) /\ ScreenOK(work[r].client)
<1>1. work[r].client \notin disturbed => TaskOK(r, work[r].client) /\ ScreenOK(work[r].client)
  BY OnlyTask DEF IInv, ClientOK
<1>2. QED
  BY <1>1, NullsAreNotIds DEF IInv, GlobalOK, TypeOK, TasksOK, StoresOK

LEMMA FetchOK ==
    ASSUME IInv, NEW r \in Tasks, Fetch(r)
    PROVE  IInv'
<1> PICK k : k = work[r].client
  OBVIOUS
<1>1. /\ UNCHANGED <<kind, access, refresh, screen, row, revoked, fresh, lapsed, session, left, disturbed>>
      /\ TypeOK /\ work[r] \in Work
      /\ \/ Continue(r, "fetching", "done", work[r])
         \/ /\ refresh[k] = NoPair
            /\ Continue(r, "fetching", "refused", [work[r] EXCEPT !.refresh = refresh[k]])
         \/ /\ refresh[k] # NoPair
            /\ Continue(r, "fetching", "refreshing", [work[r] EXCEPT !.refresh = refresh[k]])
  BY DEF Fetch, stored, server, clock, aux, IInv, GlobalOK, TypeOK
<1>2. k \in Clients /\ pc[r] = "fetching"
  BY <1>1 DEF Continue, IInv, GlobalOK, TasksOK, TaskTyped
<1> DEFINE w == [work[r] EXCEPT !.refresh = refresh[k]]
<1>3. /\ w \in Work /\ w.client = k /\ w.for = work[r].for /\ w.next = work[r].next
      /\ w.refresh = refresh[k]
  BY <1>1, <1>2 DEF TypeOK, Work
<1> HIDE DEF w
<1>4. \/ Continued(r, "fetching", "done", work[r])
      \/ refresh[k] = NoPair /\ Continued(r, "fetching", "refused", w)
      \/ refresh[k] # NoPair /\ Continued(r, "fetching", "refreshing", w)
  <2>1. {"fetching", "done", "refused", "refreshing"} \subseteq Steps
    BY DEF Steps
  <2>2. CASE Continue(r, "fetching", "done", work[r])
    BY <1>1, <2>1, <2>2, ContinueStep
  <2>3. CASE refresh[k] = NoPair /\ Continue(r, "fetching", "refused", w)
    BY <1>3, <2>1, <2>3, ContinueStep
  <2>4. CASE refresh[k] # NoPair /\ Continue(r, "fetching", "refreshing", w)
    BY <1>3, <2>1, <2>4, ContinueStep
  <2>5. QED
    BY <1>1, <2>2, <2>3, <2>4 DEF w
<1>5. /\ Moves(r, k) /\ work'[r] \in {work[r], w} /\ work'[r].client = k
      /\ pc'[r] \in {"done", "refused", "refreshing"}
  BY <1>3, <1>4 DEF Continued
<1>6. StoresMove(k)
  BY <1>1, <1>2 DEF StoresMove, TypeOK, IInv, GlobalOK
<1>7. Owned(access[k], k)' /\ Owned(refresh[k], k)'
  BY <1>1, <1>2 DEF Owned, Issued, IInv, GlobalOK, StoresOK
<1>8. TaskTyped(r)'
  <2>1. TaskTyped(r)
    BY DEF IInv, GlobalOK, TasksOK
  <2>2. /\ work[r].for \in {"me", "home"} /\ kind'[k] = "app"
        /\ Owned(work[r].refresh, k) /\ Owned(work[r].next, k) /\ Owned(refresh[k], k)
    BY <1>1, <1>2, <2>1 DEF TaskTyped, IInv, GlobalOK, StoresOK
  <2>3. /\ work'[r].next = work[r].next /\ work'[r].refresh \in {work[r].refresh, refresh[k]}
        /\ pc'[r] = "refreshing" => work'[r].refresh # NoPair
    BY <1>1, <1>3, <1>4 DEF Continued
  <2>4. Owned(work[r].refresh, k)' /\ Owned(work[r].next, k)'
    BY <1>1, <2>2, <2>3 DEF Owned, Issued
  <2>5. QED
    BY <1>2, <1>3, <1>5, <2>2, <2>3, <2>4 DEF TaskTyped, Reads
<1>9. ASSUME k \notin disturbed
      PROVE  ScreenOK(k)' /\ TaskOK(r, k)'
  <2>1. ScreenOK(k) /\ TaskOK(r, k)
    BY <1>2, <1>5, <1>9, Facts
  <2>2. Equipped(k)' <=> Equipped(k)
    BY <1>1, LiveSame DEF Equipped, IsApp
  <2>3. work[r].for \in {"me", "home"} /\ work[r].for \in Reads
    BY <1>2, <1>5, Facts DEF TaskTyped, Reads
  <2>4. Live(refresh[k]) => refresh[k] # NoPair
    BY NullsAreNotIds DEF Live, Issued
  <2>5. ScreenOK(k)'
    BY <1>1, <2>1 DEF ScreenOK
  <2>6. QED
    BY <1>1, <1>2, <1>3, <1>4, <2>1, <2>2, <2>3, <2>4, <2>5, LiveSame
       DEF TaskOK, Continued, Equipped, TypeOK
<1>10. QED
  BY <1>1, <1>2, <1>5, <1>6, <1>7, <1>8, <1>9, ClientStep

LEMMA SaveAccessOK ==
    ASSUME IInv, NEW r \in Tasks, SaveAccess(r)
    PROVE  IInv'
<1> PICK k : k = work[r].client
  OBVIOUS
<1>1. /\ UNCHANGED <<kind, refresh, screen, row, revoked, fresh, lapsed, session, left, disturbed>>
      /\ access' = [access EXCEPT ![k] = work[r].next]
      /\ TypeOK /\ work[r] \in Work
      /\ Continue(r, "answered", "saving", work[r]) /\ kind[k] = "app"
  BY DEF SaveAccess, server, clock, aux, IInv, GlobalOK, TypeOK, IsApp
<1>2. Continued(r, "answered", "saving", work[r])
  BY <1>1, ContinueStep DEF Steps
<1>3. /\ k \in Clients /\ Moves(r, k) /\ pc[r] = "answered" /\ pc'[r] = "saving"
      /\ work'[r] = work[r]
  BY <1>2 DEF Continued
<1>4. work[r].next \in Pairs /\ Owned(work[r].next, k) /\ work[r].for \in Reads \cup {"login"}
  BY <1>1, <1>3, Facts DEF TaskTyped, Work, Reads
<1>5. access'[k] = work[r].next /\ \A j \in Clients \ {k} : access'[j] = access[j]
  BY <1>1, <1>3 DEF TypeOK
<1>6. StoresMove(k)
  BY <1>1, <1>3, <1>4, <1>5, Facts DEF StoresMove, TypeOK
<1>7. Owned(access[k], k)' /\ Owned(refresh[k], k)'
  BY <1>1, <1>3, <1>4, <1>5, Facts DEF Owned, Issued
<1>8. TaskTyped(r)'
  BY <1>1, <1>3, Facts DEF TaskTyped, Reads, Owned, Issued
<1>9. ASSUME k \notin disturbed
      PROVE  ScreenOK(k)' /\ TaskOK(r, k)'
  <2>1. ScreenOK(k) /\ TaskOK(r, k)
    BY <1>3, <1>9, Facts
  <2>2. ScreenOK(k)'
    BY <1>1, <2>1 DEF ScreenOK
  <2>3. QED
    BY <1>1, <1>3, <1>4, <1>5, <2>1, <2>2, LiveSame DEF TaskOK, Reads
<1>10. QED
  BY <1>1, <1>3, <1>6, <1>7, <1>8, <1>9, ClientStep

LEMMA SaveRefreshOK ==
    ASSUME IInv, NEW r \in Tasks, SaveRefresh(r)
    PROVE  IInv'
<1> PICK k : k = work[r].client
  OBVIOUS
<1>1. /\ UNCHANGED <<kind, access, screen, row, revoked, fresh, lapsed, session, left, disturbed>>
      /\ refresh' = [refresh EXCEPT ![k] = work[r].next]
      /\ TypeOK /\ work[r] \in Work
      /\ Continue(r, "saving", "done", work[r])
  BY DEF SaveRefresh, server, clock, aux, IInv, GlobalOK, TypeOK
<1>2. Continued(r, "saving", "done", work[r])
  BY <1>1, ContinueStep DEF Steps
<1>3. /\ k \in Clients /\ Moves(r, k) /\ pc[r] = "saving" /\ pc'[r] = "done"
      /\ work'[r] = work[r]
  BY <1>2 DEF Continued
<1>4. work[r].next \in Pairs /\ Owned(work[r].next, k) /\ work[r].for \in Reads \cup {"login"}
  BY <1>1, <1>3, Facts DEF TaskTyped, Work, Reads
<1>5. refresh'[k] = work[r].next /\ \A j \in Clients \ {k} : refresh'[j] = refresh[j]
  BY <1>1, <1>3 DEF TypeOK
<1>6. StoresMove(k)
  BY <1>1, <1>3, <1>4, <1>5, Facts DEF StoresMove, TypeOK
<1>7. Owned(access[k], k)' /\ Owned(refresh[k], k)'
  BY <1>1, <1>3, <1>4, <1>5, Facts DEF Owned, Issued
<1>8. TaskTyped(r)'
  BY <1>1, <1>3, Facts DEF TaskTyped, Reads, Owned, Issued
<1>9. ASSUME k \notin disturbed
      PROVE  ScreenOK(k)' /\ TaskOK(r, k)'
  <2>1. ScreenOK(k) /\ TaskOK(r, k)
    BY <1>3, <1>9, Facts
  <2>2. ScreenOK(k)'
    BY <1>1, <2>1 DEF ScreenOK
  <2>3. Equipped(k)'
    BY <1>1, <1>3, <1>4, <1>5, <2>1, NullsAreNotIds, LiveSame DEF TaskOK, Equipped
  <2>4. QED
    BY <1>1, <1>3, <1>4, <1>5, <2>1, <2>2, <2>3, LiveSame DEF TaskOK, Reads
<1>10. QED
  BY <1>1, <1>3, <1>6, <1>7, <1>8, <1>9, ClientStep

LEMMA ClearAccessOK ==
    ASSUME IInv, NEW r \in Tasks, ClearAccess(r)
    PROVE  IInv'
<1> PICK k : k = work[r].client
  OBVIOUS
<1>1. /\ UNCHANGED <<kind, refresh, screen, row, revoked, fresh, lapsed, session, left, disturbed>>
      /\ access' = [access EXCEPT ![k] = NoPair]
      /\ TypeOK /\ work[r] \in Work
      /\ kind[k] = "app"
      /\ \/ Continue(r, "clearing", "cleared", work[r])
         \/ Continue(r, "refused", "cleared", work[r])
  BY DEF ClearAccess, server, clock, aux, IInv, GlobalOK, TypeOK, IsApp
<1>2. \/ Continued(r, "clearing", "cleared", work[r])
      \/ Continued(r, "refused", "cleared", work[r])
  BY <1>1, ContinueStep DEF Steps
<1>3. /\ k \in Clients /\ Moves(r, k) /\ pc[r] \in {"clearing", "refused"} /\ pc'[r] = "cleared"
      /\ work'[r] = work[r]
  BY <1>2 DEF Continued
<1>4. work[r].for \in {"me", "home", "logout"}
  BY <1>1, <1>3, Facts DEF TaskTyped, Reads
<1>5. access'[k] = NoPair /\ \A j \in Clients \ {k} : access'[j] = access[j]
  BY <1>1, <1>3 DEF TypeOK
<1>6. StoresMove(k)
  BY <1>1, <1>3, <1>5, Facts DEF StoresMove, TypeOK
<1>7. Owned(access[k], k)' /\ Owned(refresh[k], k)'
  BY <1>1, <1>3, <1>5, Facts DEF Owned, Issued
<1>8. TaskTyped(r)'
  BY <1>1, <1>3, <1>4, Facts DEF TaskTyped, Reads, Owned, Issued
<1>9. ASSUME k \notin disturbed
      PROVE  ScreenOK(k)' /\ TaskOK(r, k)'
  <2>1. ScreenOK(k) /\ TaskOK(r, k)
    BY <1>3, <1>9, Facts
  <2>2. ScreenOK(k)'
    BY <1>1, <2>1 DEF ScreenOK
  <2>3. session[k] # "in"
    BY <1>3, <2>1, Facts DEF TaskOK, TaskTyped
  <2>4. QED
    BY <1>1, <1>3, <1>4, <1>5, <2>1, <2>2, <2>3, LiveSame DEF TaskOK, Reads
<1>10. QED
  BY <1>1, <1>3, <1>6, <1>7, <1>8, <1>9, ClientStep

LEMMA ClearRefreshOK ==
    ASSUME IInv, NEW r \in Tasks, ClearRefresh(r)
    PROVE  IInv'
<1> PICK k : k = work[r].client
  OBVIOUS
<1>1. /\ UNCHANGED <<kind, access, screen, row, revoked, fresh, lapsed, session, left, disturbed>>
      /\ refresh' = [refresh EXCEPT ![k] = NoPair]
      /\ TypeOK /\ work[r] \in Work
      /\ Continue(r, "cleared", IF work[r].for = "logout" THEN "done" ELSE "failed", work[r])
  BY DEF ClearRefresh, server, clock, aux, IInv, GlobalOK, TypeOK
<1> PICK to : to = IF work[r].for = "logout" THEN "done" ELSE "failed"
  OBVIOUS
<1>2. Continued(r, "cleared", to, work[r])
  <2>1. Continue(r, "cleared", to, work[r]) /\ to \in Steps /\ "cleared" \in Steps
    BY <1>1 DEF Steps
  <2>2. QED
    BY <1>1, <2>1, ContinueStep
<1>3. /\ k \in Clients /\ Moves(r, k) /\ pc[r] = "cleared" /\ pc'[r] = to
      /\ work'[r] = work[r]
  BY <1>2 DEF Continued
<1>4. work[r].for \in {"me", "home", "logout"} /\ kind[k] = "app"
  BY <1>1, <1>3, Facts DEF TaskTyped, Reads
<1>5. refresh'[k] = NoPair /\ \A j \in Clients \ {k} : refresh'[j] = refresh[j]
  BY <1>1, <1>3 DEF TypeOK
<1>6. StoresMove(k)
  BY <1>1, <1>3, <1>5, Facts DEF StoresMove, TypeOK
<1>7. Owned(access[k], k)' /\ Owned(refresh[k], k)'
  BY <1>1, <1>3, <1>5, Facts DEF Owned, Issued
<1>8. TaskTyped(r)'
  BY <1>1, <1>3, <1>4, Facts DEF TaskTyped, Reads, Owned, Issued
<1>9. ASSUME k \notin disturbed
      PROVE  ScreenOK(k)' /\ TaskOK(r, k)'
  <2>1. ScreenOK(k) /\ TaskOK(r, k)
    BY <1>3, <1>9, Facts
  <2>2. ScreenOK(k)'
    BY <1>1, <2>1 DEF ScreenOK
  <2>3. work[r].for = "logout" => Empty(k)'
    BY <1>1, <1>3, <1>5, <2>1 DEF TaskOK, Empty
  <2>4. work[r].for # "logout" => session[k] = "lapsed"
    BY <1>1, <1>3, <1>4, <2>1 DEF TaskOK, TypeOK, Reads
  <2>5. QED
    BY <1>1, <1>3, <1>4, <2>1, <2>2, <2>3, <2>4, LiveSame DEF TaskOK, Reads
<1>10. QED
  BY <1>1, <1>3, <1>6, <1>7, <1>8, <1>9, ClientStep

\* A task that ends has no type to keep, and its client is at rest.
LEMMA EndedTyped ==
    ASSUME NEW r \in Tasks, work'[r] = Idle, pc'[r] = "idle"
    PROVE  TaskTyped(r)' /\ work'[r].client = NoClient
BY IdleIsWork DEF TaskTyped, Owned

LEMMA AnswerBrowserOK ==
    ASSUME IInv, NEW r \in Tasks, AnswerBrowser(r)
    PROVE  IInv'
<1> PICK k : k = work[r].client
  OBVIOUS
<1>1. /\ UNCHANGED <<kind, row, revoked, fresh, lapsed, left, disturbed>>
      /\ access' = [access EXCEPT ![k] = work[r].next]
      /\ refresh' = [refresh EXCEPT ![k] = work[r].next]
      /\ screen' = [screen EXCEPT ![k] = "page"]
      /\ session' = IF work[r].for = "login" THEN [session EXCEPT ![k] = "in"] ELSE session
      /\ TypeOK /\ work[r] \in Work /\ pc[r] = "answered" /\ Finish(r) /\ kind[k] # "app"
  BY DEF AnswerBrowser, Show, IsApp, server, clock, IInv, GlobalOK, TypeOK
<1>2. Continued(r, "answered", "idle", Idle)
  BY <1>1, FinishStep
<1>3. k \in Clients /\ Moves(r, k) /\ pc'[r] = "idle" /\ work'[r] = Idle
  BY <1>2 DEF Continued
<1>4. kind[k] = "browser"
  BY <1>1, <1>3 DEF TypeOK
<1>5. /\ work[r].next \in Pairs /\ Owned(work[r].next, k) /\ work[r].for \in {"page", "login"}
      /\ work[r].client = k /\ k # NoClient
  <2>1. work[r].for \in Reads \cup {"login"} /\ (work[r].for \in {"me", "home"} => kind[k] = "app")
    BY <1>1, <1>3, Facts DEF TaskTyped, Work, Reads
  <2>2. work[r].next \in Pairs /\ Owned(work[r].next, k) /\ k # NoClient
    BY <1>1, <1>3, Facts DEF TaskTyped, Work
  <2>3. QED
    BY <1>1, <2>1, <2>2 DEF Reads
<1>6. /\ access'[k] = work[r].next /\ refresh'[k] = work[r].next /\ screen'[k] = "page"
      /\ session'[k] = IF work[r].for = "login" THEN "in" ELSE session[k]
      /\ session' \in [Clients -> {"out", "in", "lapsed"}]
      /\ screen' \in [Clients -> AllScreens]
      /\ \A j \in Clients \ {k} : access'[j] = access[j] /\ refresh'[j] = refresh[j]
                                  /\ screen'[j] = screen[j] /\ session'[j] = session[j]
  BY <1>1, <1>3, Facts DEF TypeOK, AllScreens
<1>7. screen'[k] \in Screens[kind[k]]
  BY <1>4, <1>6 DEF Screens
<1>8. StoresMove(k)
  BY <1>1, <1>3, <1>5, <1>6, <1>7 DEF StoresMove, TypeOK
<1>9. Owned(access[k], k)' /\ Owned(refresh[k], k)'
  BY <1>1, <1>3, <1>5, <1>6 DEF Owned, Issued
<1>10. TaskTyped(r)' /\ work'[r].client # k
  BY <1>3, <1>5, EndedTyped
<1>11. ASSUME k \notin disturbed
       PROVE  ScreenOK(k)' /\ RestOK(k)'
  <2>1. TaskOK(r, k)
    BY <1>1, <1>3, <1>11, Facts
  <2>2. Equipped(k)' /\ session'[k] # "out"
    BY <1>1, <1>4, <1>5, <1>6, <2>1, LiveSame DEF TaskOK, Equipped, IsApp, Reads
  <2>3. QED
    BY <1>6, <2>2 DEF ScreenOK, RestOK
<1>12. QED
  BY <1>1, <1>3, <1>5, <1>8, <1>9, <1>10, <1>11, ClientStep

LEMMA RedirectToLoginOK ==
    ASSUME IInv, NEW r \in Tasks, RedirectToLogin(r)
    PROVE  IInv'
<1> PICK k : k = work[r].client
  OBVIOUS
<1>1. /\ UNCHANGED <<kind, row, revoked, fresh, lapsed, left, disturbed>>
      /\ access' = [access EXCEPT ![k] = NoPair]
      /\ refresh' = [refresh EXCEPT ![k] = NoPair]
      /\ screen' = [screen EXCEPT ![k] = "login"]
      /\ session' = IF pc[r] = "clearing" THEN [session EXCEPT ![k] = "out"] ELSE session
      /\ TypeOK /\ pc[r] \in {"refused", "clearing"} /\ Finish(r) /\ kind[k] # "app"
  BY DEF RedirectToLogin, Show, IsApp, server, clock, IInv, GlobalOK
<1>2. Continued(r, pc[r], "idle", Idle)
  BY <1>1, FinishStep
<1>3. k \in Clients /\ Moves(r, k) /\ pc'[r] = "idle" /\ work'[r] = Idle
  BY <1>2 DEF Continued
<1>4. kind[k] = "browser" /\ k # NoClient
  BY <1>1, <1>3, NullsAreNotIds DEF TypeOK
<1>5. /\ access'[k] = NoPair /\ refresh'[k] = NoPair /\ screen'[k] = "login"
      /\ session'[k] = IF pc[r] = "clearing" THEN "out" ELSE session[k]
      /\ session' \in [Clients -> {"out", "in", "lapsed"}]
      /\ screen' \in [Clients -> AllScreens]
      /\ \A j \in Clients \ {k} : access'[j] = access[j] /\ refresh'[j] = refresh[j]
                                  /\ screen'[j] = screen[j] /\ session'[j] = session[j]
  BY <1>1, <1>3, Facts DEF TypeOK, AllScreens
<1>6. screen'[k] \in Screens[kind[k]]
  BY <1>4, <1>5 DEF Screens
<1>7. StoresMove(k)
  BY <1>1, <1>3, <1>5, <1>6 DEF StoresMove, TypeOK
<1>8. Owned(access[k], k)' /\ Owned(refresh[k], k)'
  BY <1>5 DEF Owned
<1>9. TaskTyped(r)' /\ work'[r].client # k
  BY <1>3, <1>4, EndedTyped
<1>10. ASSUME k \notin disturbed
       PROVE  ScreenOK(k)' /\ RestOK(k)'
  <2>1. TaskOK(r, k)
    BY <1>1, <1>3, <1>10, Facts
  <2>2. Empty(k)' /\ session'[k] # "in"
    BY <1>1, <1>5, <2>1 DEF TaskOK, Empty
  <2>3. QED
    BY <1>5, <2>2 DEF ScreenOK, RestOK
<1>11. QED
  BY <1>1, <1>3, <1>7, <1>8, <1>9, <1>10, ClientStep

LEMMA DoneOK ==
    ASSUME IInv, NEW r \in Tasks, Done(r)
    PROVE  IInv'
<1> PICK k : k = work[r].client
  OBVIOUS
<1>1. /\ UNCHANGED <<kind, access, refresh, row, revoked, fresh, lapsed, left, disturbed>>
      /\ screen' = [screen EXCEPT ![k] = CASE work[r].for \in {"login", "me"} -> "mounting"
                                           [] work[r].for = "logout"         -> "signedOut"
                                           [] OTHER                          -> screen[k]]
      /\ session' = IF work[r].for = "login" THEN [session EXCEPT ![k] = "in"] ELSE session
      /\ TypeOK /\ work[r] \in Work /\ pc[r] = "done" /\ Finish(r)
  BY DEF Done, Show, stored, server, clock, IInv, GlobalOK, TypeOK
<1>2. Continued(r, "done", "idle", Idle)
  BY <1>1, FinishStep
<1>3. k \in Clients /\ Moves(r, k) /\ pc'[r] = "idle" /\ work'[r] = Idle
  BY <1>2 DEF Continued
<1>4. kind[k] = "app" /\ work[r].for \in {"page", "me", "home", "login", "logout"} /\ k # NoClient
  BY <1>1, <1>3, Facts DEF TaskTyped, Work
<1>5. /\ session'[k] = IF work[r].for = "login" THEN "in" ELSE session[k]
      /\ session' \in [Clients -> {"out", "in", "lapsed"}]
      /\ \A j \in Clients \ {k} : session'[j] = session[j]
  BY <1>1, <1>3 DEF TypeOK
<1>6. /\ work[r].for \in {"login", "me"} => screen'[k] = "mounting"
      /\ work[r].for = "logout" => screen'[k] = "signedOut"
      /\ work[r].for \in {"page", "home"} => screen'[k] = screen[k]
      /\ DOMAIN screen' = Clients
      /\ \A j \in Clients \ {k} : screen'[j] = screen[j]
  BY <1>1, <1>3, Facts
<1>7. screen'[k] \in Screens[kind[k]] /\ screen'[k] \in AllScreens
  BY <1>1, <1>3, <1>4, <1>6, Facts DEF Screens, TypeOK, AllScreens
<1>8. screen' \in [Clients -> AllScreens]
  BY <1>1, <1>3, <1>6, <1>7, Facts
<1>9. StoresMove(k)
  BY <1>1, <1>3, <1>5, <1>6, <1>7, <1>8 DEF StoresMove, TypeOK
<1>10. Owned(access[k], k)' /\ Owned(refresh[k], k)'
  BY <1>1, <1>3, Facts DEF Owned, Issued
<1>11. TaskTyped(r)' /\ work'[r].client # k
  BY <1>3, <1>4, EndedTyped
<1>12. ASSUME k \notin disturbed
       PROVE  ScreenOK(k)' /\ RestOK(k)'
  <2>1. TaskOK(r, k) /\ ScreenOK(k)
    BY <1>1, <1>3, <1>12, Facts
  <2>2. Equipped(k)' <=> Equipped(k)
    BY <1>1, LiveSame DEF Equipped, IsApp
  <2>3. Empty(k)' <=> Empty(k)
    BY <1>1 DEF Empty
  <2>4. CASE work[r].for = "logout"
    BY <1>1, <1>5, <1>6, <2>1, <2>3, <2>4 DEF TaskOK, ScreenOK, RestOK
  <2>5. CASE work[r].for = "login"
    BY <1>1, <1>5, <1>6, <2>1, <2>2, <2>5 DEF TaskOK, ScreenOK, RestOK
  <2>6. CASE work[r].for \in Reads
    <3>1. session[k] # "out" /\ (session[k] = "in" => Equipped(k))
      BY <1>1, <2>1, <2>6 DEF TaskOK, Reads
    <3>2. QED
      BY <1>5, <1>6, <2>1, <2>2, <2>6, <3>1 DEF ScreenOK, RestOK, Reads
  <2>7. QED
    BY <1>4, <2>4, <2>5, <2>6 DEF Reads
<1>13. QED
  BY <1>1, <1>3, <1>9, <1>10, <1>11, <1>12, ClientStep

LEMMA FailedOK ==
    ASSUME IInv, NEW r \in Tasks, Failed(r)
    PROVE  IInv'
<1> PICK k : k = work[r].client
  OBVIOUS
<1>1. /\ UNCHANGED <<kind, access, refresh, row, revoked, fresh, lapsed, session, left, disturbed>>
      /\ IF work[r].for = "me" THEN screen' = [screen EXCEPT ![k] = "signedOut"]
                               ELSE screen' = screen
      /\ TypeOK /\ pc[r] = "failed" /\ Finish(r)
  BY DEF Failed, Show, stored, server, clock, aux, IInv, GlobalOK
<1>2. Continued(r, "failed", "idle", Idle)
  BY <1>1, FinishStep
<1>3. k \in Clients /\ Moves(r, k) /\ pc'[r] = "idle" /\ work'[r] = Idle /\ k # NoClient
  BY <1>2, NullsAreNotIds DEF Continued
<1>4. /\ work[r].for = "me" => screen'[k] = "signedOut" /\ kind[k] = "app"
      /\ work[r].for # "me" => screen'[k] = screen[k]
      /\ screen' \in [Clients -> AllScreens]
      /\ \A j \in Clients \ {k} : screen'[j] = screen[j]
  BY <1>1, <1>3, Facts DEF AllScreens, TaskTyped
<1>5. screen'[k] \in Screens[kind[k]]
  BY <1>1, <1>3, <1>4 DEF Screens, TypeOK
<1>6. StoresMove(k)
  BY <1>1, <1>3, <1>4, <1>5 DEF StoresMove, TypeOK
<1>7. Owned(access[k], k)' /\ Owned(refresh[k], k)'
  BY <1>1, <1>3, Facts DEF Owned, Issued
<1>8. TaskTyped(r)' /\ work'[r].client # k
  BY <1>3, EndedTyped
<1>9. ASSUME k \notin disturbed
      PROVE  ScreenOK(k)' /\ RestOK(k)'
  <2>1. session[k] = "lapsed"
    BY <1>1, <1>3, <1>9, Facts DEF TaskOK
  <2>2. QED
    BY <1>1, <2>1 DEF ScreenOK, RestOK
<1>10. QED
  BY <1>1, <1>3, <1>6, <1>7, <1>8, <1>9, ClientStep

----------------------------------------------------------------------------
(* Tasks that go on, on the backend's side *)

\* What the backend may do for a client: issue it pairs, and revoke pairs of its own.
Served(k) ==
    /\ row' \in [Pairs -> Rows]
    /\ \A p \in Issued : row'[p] = row[p]
    /\ \A p \in Issued' \ Issued : /\ row'[p].user = k /\ row'[p].family \in Issued'
                                   /\ row'[row'[p].family].user = k
                                   /\ row'[p].family \notin left
    /\ revoked \subseteq revoked' /\ revoked' \subseteq Issued'
    /\ \A p \in Issued : row[p].user # k => (p \in revoked' <=> p \in revoked)
    /\ \A p \in fresh' : p \in fresh \/ p \in Issued' \ Issued

\* A logged-out family has one task that may still use it: the one that is ending it.
LEMMA LeftOnlyBy ==
    ASSUME IInv, NEW r \in Tasks, NEW k \in Clients \ disturbed, work[r].client = k,
           NEW p \in Issued, row[p].user = k, row[p].family \in left, Live(p)
    PROVE  pc[r] = "loggingOut" /\ p \in Family(work[r].refresh)
<1>1. Leaving(row[p].family) /\ Alone(k)
  BY DEF IInv, ClientOK, LeftDead
<1>2. PICK q \in Tasks : pc[q] = "loggingOut" /\ row[work[q].refresh].family = row[p].family
  BY <1>1 DEF Leaving
<1>3. work[q].refresh \in Issued /\ row[work[q].refresh].user = work[q].client
  BY <1>2 DEF IInv, GlobalOK, TasksOK, TaskTyped, Owned
<1>4. work[q].client = k
  BY <1>2, <1>3 DEF IInv, GlobalOK, RowsOK
<1>5. q = r
  BY <1>1, <1>4 DEF Alone
<1>6. QED
  BY <1>2, <1>5 DEF Family

LEMMA BackendStep ==
    ASSUME IInv, NEW r \in Tasks, NEW k \in Clients, work[r].client = k, Moves(r, k),
           work'[r].client = k, Served(k),
           UNCHANGED <<kind, access, refresh, screen, lapsed, session, left, disturbed>>,
           pc[r] = "loggingOut" => Family(work[r].refresh) \subseteq revoked',
           TaskTyped(r)',
           k \notin disturbed => TaskOK(r, k)'
    PROVE  IInv'
<1>1. Issued \subseteq Issued'
  BY DEF Issued, Served
<1>2. StepOf(r, k)
  BY DEF IInv, GlobalOK, TypeOK, StepOf, Moves, Served
<1>3. Owned(access[k], k)' /\ Owned(refresh[k], k)'
  BY <1>1 DEF IInv, GlobalOK, StoresOK, Owned, Served
<1>4. ASSUME k \notin disturbed'
      PROVE  Own(r, k)'
  <2>1. k \in Clients \ disturbed
    BY <1>4
  <2>2. ASSUME NEW p \in Issued', row'[p].user = k, row'[p].family \in left'
        PROVE  ~Live(p)'
    <3>1. p \in Issued /\ row'[p] = row[p]
      BY <2>2 DEF Served
    <3>2. CASE Live(p)
      <4>1. p \in revoked'
        BY <2>1, <2>2, <3>1, <3>2, LeftOnlyBy
      <4>2. QED
        BY <4>1 DEF Live
    <3>3. CASE ~Live(p)
      BY <3>1, <3>3 DEF Live, Served
    <3>4. QED
      BY <3>2, <3>3
  <2>3. LeftDead(k)'
    BY <2>2 DEF LeftDead
  <2>4. \A q \in Tasks \ {r} : work'[q].client # k
    BY <2>1, OnlyTask
  <2>5. RestOK(k)' /\ ScreenOK(k)'
    BY <2>1, <2>4, RestOrTask DEF IInv, ClientOK, ScreenOK
  <2>6. QED
    BY <1>4, <2>3, <2>4, <2>5 DEF Own
<1>5. QED
  BY <1>2, <1>3, <1>4, TaskStep DEF IInv, GlobalOK, TypeOK

\* Issuing a pair: what becomes of the rows.
LEMMA NewRow ==
    ASSUME IInv, NEW p \in Pairs \ Issued, NEW w \in Rows, w.user \in Clients,
           row' = [row EXCEPT ![p] = w]
    PROVE  /\ row' \in [Pairs -> Rows] /\ row'[p] = w
           /\ Issued' = Issued \cup {p} /\ \A s \in Issued : row'[s] = row[s]
<1>1. TypeOK /\ w # NoRow
  BY NullsAreNotIds DEF IInv, GlobalOK, NoRow
<1>2. QED
  BY <1>1 DEF TypeOK, Issued

LEMMA IssueFirstOK ==
    ASSUME IInv, NEW r \in Tasks, NEW p \in Pairs, IssueFirst(r, p)
    PROVE  IInv'
<1> PICK k : k = work[r].client
  OBVIOUS
<1> DEFINE w == [work[r] EXCEPT !.next = p]
           n == [family |-> p, user |-> k]
<1>1. /\ UNCHANGED <<kind, access, refresh, screen, revoked, lapsed, session, left, disturbed>>
      /\ Continue(r, "loggingIn", "answered", w) /\ p \in Pairs \ Issued
      /\ row' = [row EXCEPT ![p] = n] /\ fresh' = fresh \cup {p}
      /\ TypeOK /\ work[r] \in Work /\ k \in Clients
  BY DEF IssueFirst, stored, aux, IInv, GlobalOK, TypeOK, TasksOK, TaskTyped, Continue
<1>2. /\ w \in Work /\ w.client = k /\ w.for = work[r].for /\ w.next = p /\ w.refresh = work[r].refresh
      /\ n \in Rows /\ n.user = k /\ n.family = p
  BY <1>1 DEF Work, Rows
<1> HIDE DEF w, n
<1>3. /\ Moves(r, k) /\ pc[r] = "loggingIn" /\ pc'[r] = "answered" /\ work'[r] = w
  <2>1. Continued(r, "loggingIn", "answered", w)
    BY <1>1, <1>2, ContinueStep DEF Steps
  <2>2. QED
    BY <2>1 DEF Continued
<1>4. /\ row' \in [Pairs -> Rows] /\ row'[p] = n
      /\ Issued' = Issued \cup {p} /\ \A s \in Issued : row'[s] = row[s]
  BY <1>1, <1>2, NewRow
<1>5. Served(k)
  BY <1>1, <1>2, <1>4 DEF Served, TypeOK
<1>6. work[r].for = "login" /\ Owned(work[r].refresh, k)
  BY <1>1, <1>3, Facts DEF TaskTyped
<1>7. TaskTyped(r)'
  BY <1>1, <1>2, <1>3, <1>4, <1>6, NullsAreNotIds DEF TaskTyped, Owned
<1>8. Live(p)'
  BY <1>1, <1>4 DEF Live, TypeOK
<1>9. TaskOK(r, k)'
  BY <1>2, <1>3, <1>6, <1>8 DEF TaskOK, Reads
<1>10. QED
  BY <1>1, <1>2, <1>3, <1>5, <1>7, <1>9, BackendStep

LEMMA ReadRefreshOK ==
    ASSUME IInv, NEW r \in Tasks, ReadRefresh(r)
    PROVE  IInv'
<1> PICK k : k = work[r].client
  OBVIOUS
<1> PICK p : p = work[r].refresh
  OBVIOUS
<1> PICK to : to = IF p \in revoked \cup lapsed THEN "refused" ELSE "rotating"
  OBVIOUS
<1>1. /\ UNCHANGED <<kind, access, refresh, screen, row, fresh, lapsed, session, left, disturbed>>
      /\ Continue(r, "refreshing", to, work[r])
      /\ revoked' = IF p \in revoked THEN revoked \cup Family(p) ELSE revoked
      /\ TypeOK /\ work[r] \in Work /\ to \in Steps
  BY DEF ReadRefresh, stored, clock, aux, IInv, GlobalOK, TypeOK, Steps
<1>2. /\ k \in Clients /\ Moves(r, k) /\ pc[r] = "refreshing" /\ pc'[r] = to /\ work'[r] = work[r]
  <2>1. Continued(r, "refreshing", to, work[r])
    BY <1>1, ContinueStep DEF Steps
  <2>2. QED
    BY <2>1 DEF Continued
<1>3. p \in Issued /\ row[p].user = k /\ work[r].for \in Reads
  BY <1>1, <1>2, Facts DEF TaskTyped, Owned
<1>4. Issued' = Issued /\ row' = row
  BY <1>1 DEF Issued
<1>5. \A s \in Family(p) : s \in Issued /\ row[s].user = k
  BY <1>3 DEF IInv, GlobalOK, RowsOK, Family
<1>6. Served(k)
  BY <1>1, <1>4, <1>5 DEF Served, TypeOK
<1>7. TaskTyped(r)'
  BY <1>1, <1>2, <1>4, Facts DEF TaskTyped, Owned, Reads
<1>8. ASSUME k \notin disturbed
      PROVE  TaskOK(r, k)'
  <2>1. TaskOK(r, k)
    BY <1>2, <1>8, Facts
  <2>2. CASE p \in revoked \cup lapsed
    <3>1. session[k] = "lapsed"
      BY <1>1, <1>2, <1>3, <2>1, <2>2 DEF TaskOK, Live, TypeOK
    <3>2. QED
      BY <1>1, <1>2, <1>3, <2>2, <3>1 DEF TaskOK, Reads
  <2>3. CASE p \notin revoked \cup lapsed
    <3>1. Live(p)'
      BY <1>1, <1>3, <1>4, <2>3 DEF Live
    <3>2. QED
      BY <1>1, <1>2, <1>3, <2>1, <2>3, <3>1 DEF TaskOK, Reads
  <2>4. QED
    BY <2>2, <2>3
<1>9. QED
  BY <1>1, <1>2, <1>6, <1>7, <1>8, BackendStep

\* The token it replaces is live, so its family has not been logged out of.
LEMMA RotateOK ==
    ASSUME IInv, NEW r \in Tasks, NEW p \in Pairs, Rotate(r, p)
    PROVE  IInv'
<1> PICK k : k = work[r].client
  OBVIOUS
<1> PICK old : old = work[r].refresh
  OBVIOUS
<1> DEFINE w == [work[r] EXCEPT !.next = p]
<1>1. /\ UNCHANGED <<kind, access, refresh, screen, lapsed, session, left, disturbed>>
      /\ Continue(r, "rotating", "answered", w) /\ p \in Pairs \ Issued
      /\ row' = [row EXCEPT ![p] = row[old]] /\ fresh' = fresh \cup {p}
      /\ revoked' = revoked \cup {old}
      /\ TypeOK /\ work[r] \in Work
  BY DEF Rotate, stored, aux, IInv, GlobalOK, TypeOK
<1>2. /\ w \in Work /\ w.client = k /\ w.for = work[r].for /\ w.next = p /\ w.refresh = old
  BY <1>1 DEF Work
<1> HIDE DEF w
<1>3. /\ k \in Clients /\ Moves(r, k) /\ pc[r] = "rotating" /\ pc'[r] = "answered" /\ work'[r] = w
  <2>1. Continued(r, "rotating", "answered", w)
    BY <1>1, <1>2, ContinueStep DEF Steps
  <2>2. QED
    BY <2>1 DEF Continued
<1>4. /\ TaskTyped(r) /\ kind[k] \in {"browser", "app"}
      /\ old \in Issued /\ row[old].user = k /\ work[r].for \in Reads
  BY <1>1, <1>3, Facts DEF TaskTyped, Owned, TypeOK
<1>5. row[old] \in Rows /\ row[old].family \in Issued /\ row[row[old].family].user = k
  BY <1>1, <1>4 DEF TypeOK, Issued, IInv, GlobalOK, RowsOK
<1>6. /\ row' \in [Pairs -> Rows] /\ row'[p] = row[old]
      /\ Issued' = Issued \cup {p} /\ \A s \in Issued : row'[s] = row[s]
  BY <1>1, <1>3, <1>4, <1>5, NewRow
<1>7. TaskTyped(r)'
  <2>1. Owned(old, k)' /\ Owned(p, k)' /\ p # NoPair /\ old # NoPair
    BY <1>1, <1>4, <1>6, NullsAreNotIds DEF Owned, Issued
  <2>2. /\ work[r].for = "page" => kind[k] = "browser"
        /\ work[r].for \in {"me", "home"} => kind[k] = "app"
    BY <1>3, <1>4 DEF TaskTyped
  <2>3. QED
    BY <1>1, <1>2, <1>3, <1>4, <2>1, <2>2 DEF TaskTyped, Reads
<1>8. Live(p)'
  BY <1>1, <1>4, <1>6 DEF Live, TypeOK
<1>9. CASE k \in disturbed
  <2>1. StepOf(r, k)
    <3>1. /\ screen' \in [Clients -> AllScreens] /\ session' \in [Clients -> {"out", "in", "lapsed"}]
          /\ access' \in [Clients -> Pairs \cup {NoPair}]
          /\ refresh' \in [Clients -> Pairs \cup {NoPair}]
          /\ disturbed' \subseteq Clients /\ revoked' \subseteq Issued'
      BY <1>1, <1>4, <1>6 DEF IInv, GlobalOK, TypeOK
    <3>2. /\ \A s \in Issued : row[s].user # k => (s \in revoked' <=> s \in revoked)
          /\ \A s \in Issued' \ Issued : row'[s].user = k /\ row'[s].family \in Issued'
                                         /\ row'[row'[s].family].user = k
          /\ \A s \in fresh' : s \in fresh \/ s \in Issued' \ Issued
      BY <1>1, <1>4, <1>5, <1>6
    <3>3. QED
      BY <1>1, <1>3, <1>6, <3>1, <3>2 DEF StepOf, Moves
  <2>2. Owned(access[k], k)' /\ Owned(refresh[k], k)'
    BY <1>1, <1>3, <1>6 DEF IInv, GlobalOK, StoresOK, Owned
  <2>3. QED
    BY <1>1, <1>3, <1>7, <1>9, <2>1, <2>2, TaskStep DEF TypeOK
<1>10. CASE k \notin disturbed
  <2>1. TaskOK(r, k)
    BY <1>3, <1>10, Facts
  <2>2. Live(old)
    BY <1>3, <2>1 DEF TaskOK
  <2>3. row[old].family \notin left
    BY <1>3, <1>4, <1>10, <2>2, LeftOnlyBy
  <2>4. Served(k)
    <3>1. revoked \subseteq revoked' /\ revoked' \subseteq Issued'
      BY <1>1, <1>4, <1>6 DEF TypeOK
    <3>2. /\ \A s \in Issued : row[s].user # k => (s \in revoked' <=> s \in revoked)
          /\ \A s \in fresh' : s \in fresh \/ s \in Issued' \ Issued
      BY <1>1, <1>4, <1>6
    <3>3. \A s \in Issued' \ Issued : /\ row'[s].user = k /\ row'[s].family \in Issued'
                                      /\ row'[row'[s].family].user = k /\ row'[s].family \notin left
      BY <1>4, <1>5, <1>6, <2>3
    <3>4. QED
      BY <1>6, <3>1, <3>2, <3>3 DEF Served
  <2>5. TaskOK(r, k)'
    BY <1>1, <1>2, <1>3, <1>4, <1>8, <2>1 DEF TaskOK, Reads
  <2>6. QED
    BY <1>1, <1>2, <1>3, <1>7, <2>4, <2>5, BackendStep
<1>11. QED
  BY <1>9, <1>10

LEMMA EndFamilyOK ==
    ASSUME IInv, NEW r \in Tasks, EndFamily(r)
    PROVE  IInv'
<1> PICK k : k = work[r].client
  OBVIOUS
<1> PICK p : p = work[r].refresh
  OBVIOUS
<1>1. /\ UNCHANGED <<kind, access, refresh, screen, row, fresh, lapsed, session, left, disturbed>>
      /\ Continue(r, "loggingOut", "clearing", work[r])
      /\ revoked' = revoked \cup Family(p)
      /\ TypeOK /\ work[r] \in Work
  BY DEF EndFamily, stored, clock, aux, IInv, GlobalOK, TypeOK
<1>2. /\ k \in Clients /\ Moves(r, k) /\ pc[r] = "loggingOut" /\ pc'[r] = "clearing"
      /\ work'[r] = work[r]
  <2>1. Continued(r, "loggingOut", "clearing", work[r])
    BY <1>1, ContinueStep DEF Steps
  <2>2. QED
    BY <2>1 DEF Continued
<1>3. p \in Issued /\ row[p].user = k /\ work[r].for = "logout"
  BY <1>1, <1>2, Facts DEF TaskTyped, Owned
<1>4. Issued' = Issued /\ row' = row
  BY <1>1 DEF Issued
<1>5. \A s \in Family(p) : s \in Issued /\ row[s].user = k
  BY <1>3 DEF IInv, GlobalOK, RowsOK, Family
<1>6. Served(k)
  BY <1>1, <1>4, <1>5 DEF Served, TypeOK
<1>7. TaskTyped(r)'
  BY <1>1, <1>2, <1>3, <1>4, Facts DEF TaskTyped, Owned
<1>8. ASSUME k \notin disturbed
      PROVE  TaskOK(r, k)'
  <2>1. TaskOK(r, k)
    BY <1>2, <1>8, Facts
  <2>2. QED
    BY <1>1, <1>2, <1>3, <2>1 DEF TaskOK, Reads
<1>9. QED
  BY <1>1, <1>2, <1>6, <1>7, <1>8, BackendStep

\* A reset revokes what the client has, which lapses with it; what was left is dead all the more.
LEMMA RevokeAllOK ==
    ASSUME IInv, NEW r \in Tasks, RevokeAll(r)
    PROVE  IInv'
<1> PICK k : k = work[r].client
  OBVIOUS
<1>1. /\ UNCHANGED <<kind, access, refresh, screen, row, fresh, lapsed, left, disturbed>>
      /\ pc[r] = "resetting" /\ Finish(r)
      /\ revoked' = revoked \cup {p \in Issued : row[p].user = k}
      /\ session' = [session EXCEPT ![k] = IF @ = "in" THEN "lapsed" ELSE @]
      /\ TypeOK
  BY DEF RevokeAll, stored, clock, IInv, GlobalOK
<1>2. Continued(r, "resetting", "idle", Idle)
  BY <1>1, FinishStep
<1>3. k \in Clients /\ Moves(r, k) /\ pc'[r] = "idle" /\ work'[r] = Idle /\ k # NoClient
  BY <1>2, NullsAreNotIds DEF Continued
<1>4. /\ session' \in [Clients -> {"out", "in", "lapsed"}]
      /\ session'[k] = IF session[k] = "in" THEN "lapsed" ELSE session[k]
      /\ \A j \in Clients \ {k} : session'[j] = session[j]
  BY <1>1, <1>3 DEF TypeOK
<1>5. Issued' = Issued /\ row' = row
  BY <1>1 DEF Issued
<1>6. StepOf(r, k)
  BY <1>1, <1>3, <1>4, <1>5 DEF StepOf, Moves, IInv, GlobalOK, TypeOK
<1>7. Owned(access[k], k)' /\ Owned(refresh[k], k)' /\ screen'[k] \in Screens[kind[k]]
  BY <1>1, <1>3, <1>5 DEF IInv, GlobalOK, StoresOK, Owned, TypeOK
<1>8. TaskTyped(r)' /\ work'[r].client # k
  BY <1>3, EndedTyped
<1>9. ASSUME k \notin disturbed'
      PROVE  Own(r, k)'
  <2>1. TaskOK(r, k) /\ ScreenOK(k) /\ \A q \in Tasks \ {r} : work'[q].client # k
    BY <1>1, <1>3, <1>9, OnlyTask, Facts
  <2>2. LeftDead(k)'
    <3>1. \A p \in Issued' : row'[p].user = k => ~Live(p)'
      BY <1>1, <1>5 DEF Live
    <3>2. QED
      BY <3>1 DEF LeftDead
  <2>3. work[r].for = "reset"
    BY <1>1, <1>3, Facts DEF TaskTyped
  <2>4. RestOK(k)' /\ ScreenOK(k)'
    BY <1>1, <1>4, <2>1, <2>3 DEF TaskOK, ScreenOK, RestOK, Empty
  <2>5. QED
    BY <1>8, <2>1, <2>2, <2>4 DEF Own
<1>10. QED
  BY <1>3, <1>6, <1>7, <1>8, <1>9, TaskStep

----------------------------------------------------------------------------
(* Faults *)

\* A task that is cut off disturbs its client, and owes nothing any more.
LEMMA CutOff ==
    ASSUME IInv, NEW r \in Tasks, work[r].client \in Clients, Moves(r, work[r].client),
           disturbed' = disturbed \cup {work[r].client},
           UNCHANGED <<kind, access, refresh, screen, row, revoked, fresh, lapsed, session, left>>,
           TaskTyped(r)'
    PROVE  IInv'
<1> PICK k : k = work[r].client
  OBVIOUS
<1>1. Issued' = Issued /\ k \in disturbed'
  BY DEF Issued
<1>2. StepOf(r, k)
  BY <1>1 DEF StepOf, Moves, IInv, GlobalOK, TypeOK
<1>3. Owned(access[k], k)' /\ Owned(refresh[k], k)' /\ screen'[k] \in Screens[kind[k]]
  BY <1>1 DEF IInv, GlobalOK, StoresOK, Owned, TypeOK
<1>4. QED
  BY <1>1, <1>2, <1>3, TaskStep

LEMMA ThrowOK ==
    ASSUME IInv, NEW r \in Tasks, Throw(r)
    PROVE  IInv'
<1> PICK k : k = work[r].client
  OBVIOUS
<1> PICK to : to = CASE work[r].for = "logout" -> "clearing"
                     [] work[r].for = "page"   -> "refused"
                     [] OTHER                  -> "failed"
  OBVIOUS
<1>1. /\ UNCHANGED <<kind, access, refresh, screen, row, revoked, fresh, lapsed, session, left>>
      /\ disturbed' = disturbed \cup {k}
      /\ work[r] \in Work /\ to \in Steps
      /\ to = "clearing" => work[r].for = "logout"
      /\ to = "refused" => work[r].for = "page"
      /\ to \in {"clearing", "refused", "failed"}
  BY DEF Throw, stored, server, clock, IInv, GlobalOK, TypeOK, Steps
<1>2. PICK from \in {"fetching", "loggingIn", "refreshing", "rotating", "loggingOut", "answered", "done"} :
         Continue(r, from, to, work[r])
  BY DEF Throw
<1>3. /\ k \in Clients /\ Moves(r, k) /\ pc[r] = from /\ pc'[r] = to /\ work'[r] = work[r]
  <2>1. from \in Steps /\ from # "idle"
    BY DEF Steps
  <2>2. Continued(r, from, to, work[r])
    BY <1>1, <1>2, <2>1, ContinueStep
  <2>3. QED
    BY <2>2 DEF Continued
<1>4. TaskTyped(r)'
  BY <1>1, <1>3, Facts DEF TaskTyped, Owned, Reads, Issued
<1>5. QED
  BY <1>1, <1>3, <1>4, CutOff

LEMMA AnswerErrorOK ==
    ASSUME IInv, NEW r \in Tasks, AnswerError(r)
    PROVE  IInv'
<1> PICK k : k = work[r].client
  OBVIOUS
<1>1. /\ UNCHANGED <<kind, access, refresh, screen, row, revoked, fresh, lapsed, session, left>>
      /\ disturbed' = disturbed \cup {k}
      /\ work[r] \in Work /\ work[r].for \in Reads
  BY DEF AnswerError, stored, server, clock, IInv, GlobalOK, TypeOK, Reads
<1>2. PICK from \in {"refreshing", "rotating", "answered"} : Continue(r, from, "refused", work[r])
  BY DEF AnswerError
<1>3. /\ k \in Clients /\ Moves(r, k) /\ pc[r] = from /\ pc'[r] = "refused" /\ work'[r] = work[r]
  <2>1. from \in Steps /\ from # "idle" /\ "refused" \in Steps
    BY DEF Steps
  <2>2. Continued(r, from, "refused", work[r])
    BY <1>1, <1>2, <2>1, ContinueStep
  <2>3. QED
    BY <2>2 DEF Continued
<1>4. TaskTyped(r)'
  BY <1>1, <1>3, Facts DEF TaskTyped, Owned, Reads, Issued
<1>5. QED
  BY <1>1, <1>3, <1>4, CutOff

LEMMA LeaveOK ==
    ASSUME IInv, NEW r \in Tasks, Leave(r)
    PROVE  IInv'
<1>1. /\ UNCHANGED <<kind, access, refresh, screen, row, revoked, fresh, lapsed, session, left>>
      /\ disturbed' = disturbed \cup {work[r].client} /\ pc[r] # "idle" /\ Finish(r)
  BY DEF Leave, stored, server, clock
<1>2. Continued(r, pc[r], "idle", Idle)
  BY <1>1, FinishStep
<1>3. TaskTyped(r)'
  BY <1>2, EndedTyped DEF Continued
<1>4. QED
  BY <1>1, <1>2, <1>3, CutOff DEF Continued

----------------------------------------------------------------------------
(* Steps that are no task's *)

\* A step of one client's own, on which the backend and the clock have no part.
LEMMA OwnStep ==
    ASSUME IInv, NEW k \in Clients,
           UNCHANGED <<kind, row, revoked, lapsed, session, left>>,
           fresh' \subseteq fresh, disturbed \subseteq disturbed', disturbed' \subseteq Clients,
           access' \in [Clients -> Pairs \cup {NoPair}],
           refresh' \in [Clients -> Pairs \cup {NoPair}],
           screen' \in [Clients -> AllScreens], screen'[k] \in Screens[kind[k]],
           \A j \in Clients \ {k} : access'[j] = access[j] /\ refresh'[j] = refresh[j]
                                    /\ screen'[j] = screen[j],
           access'[k] \in {access[k], NoPair}, refresh'[k] \in {refresh[k], NoPair},
           pc' \in [Tasks -> Steps], work' \in [Tasks -> Work],
           \A q \in Tasks : \/ pc'[q] = pc[q] /\ work'[q] = work[q]
                            \/ pc'[q] = "idle" /\ work'[q] = Idle /\ work[q].client = k,
           k \notin disturbed' => ClientOK(k)'
    PROVE  IInv'
<1>1. Issued' = Issued
  BY DEF Issued
<1>2. TypeOK'
  BY <1>1 DEF IInv, GlobalOK, TypeOK
<1>3. StoresOK' /\ RowsOK'
  BY <1>1 DEF IInv, GlobalOK, StoresOK, RowsOK, Owned
<1>4. ASSUME NEW q \in Tasks
      PROVE  TaskTyped(q)'
  <2>1. TaskTyped(q)
    BY DEF IInv, GlobalOK, TasksOK
  <2>2. CASE pc'[q] = pc[q] /\ work'[q] = work[q]
    BY <1>1, <2>1, <2>2 DEF TaskTyped, Owned
  <2>3. CASE pc'[q] = "idle" /\ work'[q] = Idle
    BY <2>3, EndedTyped
  <2>4. QED
    BY <2>2, <2>3
<1>5. ASSUME NEW j \in Clients \ disturbed', j # k
      PROVE  ClientOK(j)'
  <2>1. GlobalOK /\ ClientOK(j) /\ j # NoClient
    BY <1>5, NullsAreNotIds DEF IInv
  <2>2. Untouched(j)
    BY <1>5, <2>1, IdleIsWork DEF Untouched
  <2>3. QED
    BY <2>1, <2>2, OthersKept
<1>6. QED
  BY <1>2, <1>3, <1>4, <1>5 DEF IInv, GlobalOK, TasksOK

LEMMA LeftSame ==
    ASSUME NEW k, UNCHANGED <<pc, work, row, revoked, lapsed, left>>
    PROVE  LeftDead(k)' <=> LeftDead(k)
BY DEF LeftDead, Leaving, Live, Issued

LEMMA NavigateAtOnceOK ==
    ASSUME IInv, NEW k \in Clients, NavigateAtOnce(k)
    PROVE  IInv'
<1> PICK s : s = IF access[k] \in fresh THEN "page" ELSE "login"
  OBVIOUS
<1>1. /\ kind[k] # "app" /\ screen' = [screen EXCEPT ![k] = s]
      /\ UNCHANGED <<kind, access, refresh, row, revoked, fresh, lapsed, pc, work, session, left, disturbed>>
      /\ TypeOK /\ screen \in [Clients -> AllScreens]
  BY DEF NavigateAtOnce, IsApp, stored, server, clock, aux, IInv, GlobalOK
<1>2. /\ screen'[k] \in Screens[kind[k]] /\ screen' \in [Clients -> AllScreens]
      /\ screen'[k] \in {"page", "login"}
      /\ \A j \in Clients \ {k} : screen'[j] = screen[j]
  BY <1>1 DEF TypeOK, Screens, AllScreens
<1>3. ASSUME k \notin disturbed
      PROVE  ClientOK(k)'
  <2>1. ClientOK(k)
    BY <1>3 DEF IInv
  <2>2. \A p : Live(p)' <=> Live(p)
    BY <1>1, LiveSame
  <2>3. ScreenOK(k)'
    BY <1>2 DEF ScreenOK
  <2>4. RestOK(k)' <=> RestOK(k)
    BY <1>1, <2>2 DEF RestOK, Busy, Equipped, IsApp, Empty
  <2>5. \A r \in Tasks : TaskOK(r, k)' <=> TaskOK(r, k)
    BY <1>1, <2>2 DEF TaskOK, Equipped, IsApp, Empty
  <2>6. QED
    BY <1>1, <2>1, <2>3, <2>4, <2>5, LeftSame DEF ClientOK, Alone
<1>4. QED
  BY <1>1, <1>2, <1>3, OwnStep DEF TypeOK

LEMMA LaunchOK ==
    ASSUME IInv, NEW k \in Clients, Launch(k)
    PROVE  IInv'
<1>1. /\ kind[k] = "app" /\ access[k] = NoPair /\ ~Busy(k)
      /\ screen' = [screen EXCEPT ![k] = "signedOut"]
      /\ UNCHANGED <<kind, access, refresh, row, revoked, fresh, lapsed, pc, work, session, left, disturbed>>
      /\ TypeOK /\ screen \in [Clients -> AllScreens]
  BY DEF Launch, IsApp, stored, server, clock, aux, IInv, GlobalOK
<1>2. /\ screen'[k] \in Screens[kind[k]] /\ screen' \in [Clients -> AllScreens]
      /\ screen'[k] = "signedOut"
      /\ \A j \in Clients \ {k} : screen'[j] = screen[j]
  BY <1>1 DEF TypeOK, Screens, AllScreens
<1>3. ASSUME k \notin disturbed
      PROVE  ClientOK(k)'
  <2>1. ClientOK(k)
    BY <1>3 DEF IInv
  <2>2. \A p : Live(p)' <=> Live(p)
    BY <1>1, LiveSame
  <2>3. session[k] # "in"
    BY <1>1, <2>1 DEF ClientOK, RestOK, Equipped, IsApp
  <2>4. ScreenOK(k)'
    BY <1>1, <1>2, <2>3 DEF ScreenOK
  <2>5. RestOK(k)' <=> RestOK(k)
    BY <1>1, <2>2 DEF RestOK, Busy, Equipped, IsApp, Empty
  <2>6. \A r \in Tasks : TaskOK(r, k)' <=> TaskOK(r, k)
    BY <1>1, <2>2 DEF TaskOK, Equipped, IsApp, Empty
  <2>7. QED
    BY <1>1, <2>1, <2>4, <2>5, <2>6, LeftSame DEF ClientOK, Alone
<1>4. QED
  BY <1>1, <1>2, <1>3, OwnStep DEF TypeOK

\* Killing an app that has nothing on its way leaves it as it was, on its first screen.
LEMMA KillOK ==
    ASSUME IInv, NEW k \in Clients, Kill(k)
    PROVE  IInv'
<1>1. /\ kind[k] = "app" /\ screen' = [screen EXCEPT ![k] = "loading"]
      /\ pc' = [r \in Tasks |-> IF work[r].client = k THEN "idle" ELSE pc[r]]
      /\ work' = [r \in Tasks |-> IF work[r].client = k THEN Idle ELSE work[r]]
      /\ disturbed' = disturbed \cup {c \in {k} : Busy(c)}
      /\ UNCHANGED <<kind, access, refresh, row, revoked, fresh, lapsed, session, left>>
      /\ TypeOK /\ screen \in [Clients -> AllScreens]
  BY DEF Kill, IsApp, stored, server, clock, IInv, GlobalOK
<1>2. /\ screen'[k] \in Screens[kind[k]] /\ screen' \in [Clients -> AllScreens]
      /\ screen'[k] = "loading"
      /\ \A j \in Clients \ {k} : screen'[j] = screen[j]
  BY <1>1 DEF TypeOK, Screens, AllScreens
<1>3. /\ pc' \in [Tasks -> Steps] /\ work' \in [Tasks -> Work]
      /\ \A q \in Tasks : \/ pc'[q] = pc[q] /\ work'[q] = work[q]
                          \/ pc'[q] = "idle" /\ work'[q] = Idle /\ work[q].client = k
  BY <1>1, IdleIsWork DEF TypeOK, Steps
<1>4. ASSUME k \notin disturbed'
      PROVE  ClientOK(k)'
  <2>1. ClientOK(k) /\ ~Busy(k)
    BY <1>1, <1>4 DEF IInv
  <2>2. pc' = pc /\ work' = work
    BY <1>1, <2>1 DEF Busy, TypeOK
  <2>3. \A p : Live(p)' <=> Live(p)
    BY <1>1, LiveSame
  <2>4. ScreenOK(k)' /\ \A r \in Tasks : work'[r].client # k
    <3>1. screen'[k] # "signedOut" /\ screen'[k] # "mounting"
      BY <1>2
    <3>2. QED
      BY <2>1, <2>2, <3>1 DEF ScreenOK, Busy
  <2>5. RestOK(k)' <=> RestOK(k)
    BY <1>1, <2>2, <2>3 DEF RestOK, Busy, Equipped, IsApp, Empty
  <2>6. QED
    BY <1>1, <2>1, <2>2, <2>4, <2>5, LeftSame DEF ClientOK, Alone
<1>5. QED
  BY <1>1, <1>2, <1>3, <1>4, OwnStep DEF TypeOK

\* A browser needs no access cookie.
LEMMA DropCookieOK ==
    ASSUME IInv, NEW k \in Clients, DropCookie(k)
    PROVE  IInv'
<1>1. /\ kind[k] = "browser" /\ access[k] # NoPair /\ access' = [access EXCEPT ![k] = NoPair]
      /\ UNCHANGED <<kind, refresh, screen, row, revoked, fresh, lapsed, pc, work, session, left, disturbed>>
      /\ TypeOK /\ screen \in [Clients -> AllScreens]
  BY DEF DropCookie, IsApp, server, clock, aux, IInv, GlobalOK, TypeOK
<1>2. /\ access' \in [Clients -> Pairs \cup {NoPair}] /\ access'[k] = NoPair
      /\ \A j \in Clients \ {k} : access'[j] = access[j]
  BY <1>1 DEF TypeOK
<1>3. ASSUME k \notin disturbed
      PROVE  ClientOK(k)'
  <2>1. ClientOK(k)
    BY <1>3 DEF IInv
  <2>2. \A p : Live(p)' <=> Live(p)
    BY <1>1, LiveSame
  <2>3. ScreenOK(k)'
    BY <1>1, <2>1 DEF ClientOK, ScreenOK
  <2>4. Equipped(k)' <=> Equipped(k)
    BY <1>1, <2>2 DEF Equipped, IsApp
  <2>5. RestOK(k)'
    BY <1>1, <1>2, <2>1, <2>4 DEF ClientOK, RestOK, Busy, Empty
  <2>6. ASSUME NEW r \in Tasks, work[r].client = k
        PROVE  TaskOK(r, k)'
    <3>1. TaskOK(r, k) /\ TaskTyped(r)
      BY <2>1, <2>6 DEF ClientOK, IInv, GlobalOK, TasksOK
    <3>2. pc[r] \notin {"saving", "cleared", "done"} /\ work[r].for # "reset"
      BY <1>1, <2>6, <3>1, NullsAreNotIds DEF TaskTyped, Idle
    <3>3. QED
      BY <1>1, <2>2, <2>4, <3>1, <3>2 DEF TaskOK
  <2>7. QED
    BY <1>1, <2>1, <2>3, <2>5, <2>6, LeftSame DEF ClientOK, Alone
<1>4. QED
  BY <1>1, <1>2, <1>3, OwnStep DEF TypeOK

\* Nothing depends on whether an access token has expired.
LEMMA ExpireAccessOK ==
    ASSUME IInv, NEW p \in Pairs, ExpireAccess(p)
    PROVE  IInv'
<1>1. /\ fresh' = fresh \ {p}
      /\ UNCHANGED <<kind, access, refresh, screen, row, revoked, lapsed, pc, work, session, left, disturbed>>
  BY DEF ExpireAccess, stored, server, aux
<1>2. GlobalOK'
  BY <1>1 DEF IInv, GlobalOK, TypeOK, StoresOK, RowsOK, TasksOK, TaskTyped, Owned, Issued
<1>3. ASSUME NEW j \in Clients \ disturbed'
      PROVE  ClientOK(j)'
  <2>1. Untouched(j)
    BY <1>1 DEF Untouched
  <2>2. QED
    BY <1>1, <1>3, <2>1, OthersKept DEF IInv
<1>4. QED
  BY <1>2, <1>3 DEF IInv

\* No task holds the token that lapses, and a client that stores it has had its thirty days.
LEMMA LapseOK ==
    ASSUME IInv, NEW p \in Pairs, Lapse(p)
    PROVE  IInv'
<1>1. /\ p \in Issued \ fresh /\ \A r \in Tasks : p \notin {work[r].refresh, work[r].next}
      /\ lapsed' = lapsed \cup {p}
      /\ session' = [k \in Clients |-> IF refresh[k] = p /\ session[k] = "in" THEN "lapsed"
                                       ELSE session[k]]
      /\ UNCHANGED <<kind, access, refresh, screen, row, revoked, fresh, pc, work, left, disturbed>>
      /\ TypeOK
  BY DEF Lapse, stored, server, IInv, GlobalOK
<1>2. Issued' = Issued
  BY <1>1 DEF Issued
<1>3. /\ session' \in [Clients -> {"out", "in", "lapsed"}]
      /\ \A k \in Clients : /\ session'[k] = "in" => session[k] = "in" /\ refresh[k] # p
                            /\ session'[k] = "out" <=> session[k] = "out"
                            /\ session[k] = "lapsed" => session'[k] = "lapsed"
  BY <1>1 DEF TypeOK
<1>4. GlobalOK'
  <2>1. TypeOK' /\ screen' \in [Clients -> AllScreens]
    BY <1>1, <1>2, <1>3 DEF TypeOK, IInv, GlobalOK
  <2>2. StoresOK' /\ RowsOK'
    BY <1>1, <1>2 DEF IInv, GlobalOK, StoresOK, RowsOK, Owned
  <2>3. TasksOK'
    BY <1>1, <1>2 DEF IInv, GlobalOK, TasksOK, TaskTyped, Owned
  <2>4. QED
    BY <2>1, <2>2, <2>3 DEF GlobalOK
<1>5. \A s \in Pairs : /\ Live(s)' => Live(s)
                       /\ s # p => (Live(s)' <=> Live(s))
  BY <1>1, <1>2 DEF Live
<1>6. ASSUME NEW k \in Clients \ disturbed'
      PROVE  ClientOK(k)'
  <2>1. ClientOK(k)
    BY <1>1, <1>6 DEF IInv
  <2>2. LeftDead(k)'
    BY <1>1, <1>2, <1>5, <2>1 DEF ClientOK, LeftDead, Leaving, Issued
  <2>3. ScreenOK(k)'
    BY <1>1, <1>3, <2>1 DEF ClientOK, ScreenOK
  <2>4. refresh[k] # p => (Equipped(k)' <=> Equipped(k))
    <3>1. refresh[k] # p => (Live(refresh[k])' <=> Live(refresh[k]))
      BY <1>1, <1>2 DEF Live
    <3>2. QED
      BY <1>1, <3>1 DEF Equipped, IsApp
  <2>5. RestOK(k)'
    BY <1>1, <1>3, <2>1, <2>4 DEF ClientOK, RestOK, Busy, Empty
  <2>6. ASSUME NEW r \in Tasks, work[r].client = k
        PROVE  TaskOK(r, k)'
    <3>1. TaskOK(r, k) /\ TaskTyped(r)
      BY <2>1, <2>6 DEF ClientOK, IInv, GlobalOK, TasksOK
    <3>2. /\ Live(work[r].refresh)' <=> Live(work[r].refresh)
          /\ Live(work[r].next)' <=> Live(work[r].next)
      BY <1>1, <1>2 DEF Live
    <3>3. refresh[k] # p => (Live(refresh[k])' <=> Live(refresh[k]))
      BY <1>1, <1>2 DEF Live
    <3>4. /\ work[r].for \in Reads => session'[k] # "out"
          /\ work[r].for = "logout" => session'[k] = "out" /\ pc[r] \in {"loggingOut", "clearing", "cleared", "done"}
          /\ pc[r] \in {"refused", "failed"} => session'[k] = "lapsed"
          /\ pc[r] = "cleared" => access[k] = NoPair /\ session'[k] # "in"
          /\ work[r].for = "reset" /\ session'[k] = "out" => Empty(k)
      BY <1>3, <3>1 DEF TaskOK
    <3>5. /\ pc[r] \in {"fetching", "resetting"} /\ session'[k] = "in" => Equipped(k)'
          /\ pc[r] = "refreshing" => work[r].refresh = refresh[k] /\ (session'[k] = "in" => Live(refresh[k])')
          /\ pc[r] = "rotating" => Live(work[r].refresh)'
          /\ pc[r] \in {"answered", "saving"} => Live(work[r].next)'
          /\ pc[r] = "saving" => access[k] = work[r].next
      BY <1>3, <2>4, <3>1, <3>2, <3>3 DEF TaskOK
    <3>6. pc[r] = "done" =>
            CASE work[r].for = "logout" -> Empty(k)
              [] work[r].for = "login"  -> refresh[k] = work[r].next /\ Equipped(k)'
              [] OTHER                  -> session'[k] = "in" => Equipped(k)'
      BY <1>1, <1>3, <2>4, <3>1 DEF TaskOK
    <3>7. QED
      BY <1>1, <3>4, <3>5, <3>6 DEF TaskOK, Empty
  <2>7. QED
    BY <1>1, <2>1, <2>2, <2>3, <2>5, <2>6 DEF ClientOK, Alone
<1>7. QED
  BY <1>4, <1>6 DEF IInv

----------------------------------------------------------------------------
(* The invariant, and what follows from it *)

LEMMA InitOK == Init => IInv
<1> SUFFICES ASSUME Init PROVE IInv
  OBVIOUS
<1> USE DEF Init
<1>1. Issued = {} /\ NoRow \in Rows
  BY DEF Issued, NoRow, Rows
<1>2. TypeOK
  BY <1>1, IdleIsWork DEF TypeOK, Screens, IsApp, Steps
<1>3. screen \in [Clients -> AllScreens]
  BY DEF AllScreens
<1>4. StoresOK /\ RowsOK
  BY <1>1 DEF StoresOK, RowsOK, Owned
<1>5. TasksOK
  BY IdleIsWork DEF TasksOK, TaskTyped, Owned
<1>6. ASSUME NEW k \in Clients
      PROVE  ClientOK(k)
  <2>1. \A r \in Tasks : work[r].client # k
    BY IdleIsWork, NullsAreNotIds
  <2>2. screen[k] \in {"loading", "login"} /\ session[k] = "out" /\ Empty(k)
    BY DEF Empty
  <2>3. QED
    BY <1>1, <2>1, <2>2 DEF ClientOK, Alone, LeftDead, ScreenOK, RestOK
<1>7. QED
  BY <1>2, <1>3, <1>4, <1>5, <1>6 DEF IInv, GlobalOK

LEMMA StutterOK ==
    ASSUME IInv, UNCHANGED vars
    PROVE  IInv'
<1>1. UNCHANGED <<kind, access, refresh, screen, fresh, row, revoked, lapsed, pc, work, session,
                  left, disturbed>>
  BY DEF vars
<1>2. GlobalOK'
  BY <1>1 DEF IInv, GlobalOK, TypeOK, StoresOK, RowsOK, TasksOK, TaskTyped, Owned, Issued
<1>3. ASSUME NEW j \in Clients \ disturbed'
      PROVE  ClientOK(j)'
  BY <1>1, <1>3, OthersKept DEF IInv, Untouched
<1>4. QED
  BY <1>2, <1>3 DEF IInv

LEMMA TasksKeepIt ==
    ASSUME IInv, NEW r \in Tasks, Backend(r) \/ Client(r) \/ Throw(r) \/ AnswerError(r) \/ Leave(r)
    PROVE  IInv'
<1>1. CASE Backend(r)
  BY <1>1, IssueFirstOK, RotateOK, ReadRefreshOK, EndFamilyOK, RevokeAllOK DEF Backend
<1>2. CASE \E k \in Clients : Navigate(r, k) \/ LogIn(r, k) \/ LogOut(r, k)
  BY <1>2, NavigateOK, LogInOK, LogOutOK
<1>3. CASE \E k \in Clients : FetchMe(r, k) \/ FetchHome(r, k) \/ ResetPassword(r, k)
  BY <1>3, FetchMeOK, FetchHomeOK, ResetPasswordOK
<1>4. CASE AnswerBrowser(r) \/ RedirectToLogin(r)
  BY <1>4, AnswerBrowserOK, RedirectToLoginOK
<1>5. CASE Fetch(r) \/ SaveAccess(r) \/ SaveRefresh(r)
  BY <1>5, FetchOK, SaveAccessOK, SaveRefreshOK
<1>6. CASE ClearAccess(r) \/ ClearRefresh(r)
  BY <1>6, ClearAccessOK, ClearRefreshOK
<1>7. CASE Done(r) \/ Failed(r)
  BY <1>7, DoneOK, FailedOK
<1>8. CASE Throw(r) \/ AnswerError(r) \/ Leave(r)
  BY <1>8, ThrowOK, AnswerErrorOK, LeaveOK
<1>9. QED
  BY <1>1, <1>2, <1>3, <1>4, <1>5, <1>6, <1>7, <1>8 DEF Client

LEMMA Inductive == IInv /\ [Next]_vars => IInv'
<1> SUFFICES ASSUME IInv, [Next]_vars PROVE IInv'
  OBVIOUS
<1>1. CASE UNCHANGED vars
  BY <1>1, StutterOK
<1>2. CASE \E r \in Tasks : Backend(r) \/ Client(r) \/ Throw(r) \/ AnswerError(r) \/ Leave(r)
  BY <1>2, TasksKeepIt
<1>3. CASE \E k \in Clients : NavigateAtOnce(k) \/ Launch(k)
  BY <1>3, NavigateAtOnceOK, LaunchOK
<1>4. CASE \E k \in Clients : Kill(k) \/ DropCookie(k)
  BY <1>4, KillOK, DropCookieOK
<1>5. CASE \E p \in Pairs : ExpireAccess(p) \/ Lapse(p)
  BY <1>5, ExpireAccessOK, LapseOK
<1>6. QED
  BY <1>1, <1>2, <1>3, <1>4, <1>5 DEF Next

THEOREM ClientsInvariant == Spec => []IInv
BY InitOK, Inductive, PTL DEF Spec

\* Every cookie, key, row and local variable keeps its type; no client shows the other's screens.
THEOREM TypeCorrect == Spec => []TypeOK
<1>1. IInv => TypeOK
  BY DEF IInv, GlobalOK
<1>2. QED
  BY <1>1, ClientsInvariant, PTL

\* middleware.ts:10-15, AuthContext.tsx:16-22: a client whose requests neither overlapped, nor were
\* cut off, nor met an error of the backend keeps a refresh token that works, and an app its screen,
\* until a logout, a reset of the password or thirty idle days, whatever the tasks of any number of
\* other clients do.
THEOREM TheSessionLasts == Spec => []SessionLasts
<1>1. IInv => SessionLasts
  BY DEF IInv, ClientOK, RestOK, ScreenOK, Equipped, SessionLasts
<1>2. QED
  BY <1>1, ClientsInvariant, PTL

\* A client that has logged out, and whose requests neither overlapped, nor were cut off, nor met an
\* error, has no token stored, and none of the pairs of the sessions it left can be refreshed.
THEOREM LogoutIsComplete == Spec => []LogoutLeavesNothing
<1>1. ASSUME IInv, NEW k \in Clients \ disturbed, session[k] = "out", ~Busy(k)
      PROVE  /\ Empty(k)
             /\ \A p \in Issued : row[p].user = k /\ row[p].family \in left => ~Live(p)
  <2>1. ClientOK(k)
    BY <1>1 DEF IInv
  <2>2. Empty(k)
    BY <1>1, <2>1 DEF ClientOK, RestOK
  <2>3. ASSUME NEW p \in Issued, row[p].user = k, Leaving(row[p].family)
        PROVE  FALSE
    <3>1. PICK q \in Tasks : pc[q] = "loggingOut" /\ row[work[q].refresh].family = row[p].family
      BY <2>3 DEF Leaving
    <3>2. work[q].refresh \in Issued /\ row[work[q].refresh].user = work[q].client
      BY <1>1, <3>1 DEF IInv, GlobalOK, TasksOK, TaskTyped, Owned
    <3>3. work[q].client = k
      BY <1>1, <2>3, <3>1, <3>2 DEF IInv, GlobalOK, RowsOK
    <3>4. QED
      BY <1>1, <3>3 DEF Busy
  <2>4. QED
    BY <2>1, <2>2, <2>3 DEF ClientOK, LeftDead
<1>2. IInv => LogoutLeavesNothing
  BY <1>1 DEF LogoutLeavesNothing, Empty
<1>3. QED
  BY <1>2, ClientsInvariant, PTL

----------------------------------------------------------------------------
(* The sessions of SessionLifecycle *)

\* A family goes by the name of one of its own pairs.
RootsOK == \A p \in Issued : row[row[p].family].family = row[p].family

\* What is issued belongs to a session.
LEMMA IssuedFacts ==
    ASSUME IInv, RootsOK, NEW p \in Issued
    PROVE  /\ p \in Pairs /\ p # NoPair
           /\ row[p].family \in Issued /\ row[p].family \in Pairs /\ row[p].family # NoPair
           /\ row[p].user \in Clients
           /\ OwnerOf[row[p].family] = row[p].user
           /\ SessionOf[p] = row[p].family
<1>1. p \in Pairs /\ row[p].family \in Issued /\ row[p].family \in Pairs
  BY DEF IInv, GlobalOK, RowsOK, Issued
<1>2. QED
  BY <1>1, NullsAreNotIds DEF IInv, GlobalOK, RowsOK, RootsOK, OwnerOf, SessionOf

\* A pair that was not issued is no session, and nobody's.
LEMMA UnissuedIsNew ==
    ASSUME NEW p \in Pairs \ Issued
    PROVE  Lifecycle!New(p) /\ row[p].family = NoPair
<1>1. row[p] = NoRow
  BY DEF Issued
<1>2. QED
  BY <1>1, NullsAreNotIds DEF Lifecycle!New, OwnerOf, SessionOf, NoRow

\* What a rotation issues, and for whom; an undisturbed client's token is still live.
LEMMA RotationIssues ==
    ASSUME IInv, NEW r \in Tasks, NEW p \in Pairs, Rotate(r, p)
    PROVE  /\ work[r].refresh \in Issued
           /\ work[r].client \in Clients /\ row[work[r].refresh].user = work[r].client
           /\ row' = [row EXCEPT ![p] = row[work[r].refresh]]
           /\ row[work[r].refresh] \in Rows
           /\ work[r].client \notin disturbed => work[r].refresh \notin revoked
<1>1. pc[r] = "rotating" /\ row' = [row EXCEPT ![p] = row[work[r].refresh]]
  BY DEF Rotate, Continue
<1>2. TaskTyped(r) /\ TypeOK
  BY DEF IInv, GlobalOK, TasksOK
<1>3. /\ work[r].refresh \in Issued /\ work[r].client \in Clients
      /\ row[work[r].refresh].user = work[r].client
  BY <1>1, <1>2 DEF TaskTyped, Owned
<1>4. work[r].client \notin disturbed => TaskOK(r, work[r].client)
  BY <1>3 DEF IInv, ClientOK
<1>5. work[r].client \notin disturbed => work[r].refresh \notin revoked
  BY <1>1, <1>4 DEF TaskOK, Live
<1>6. QED
  BY <1>1, <1>2, <1>3, <1>5 DEF TypeOK, Issued

\* Only the backend issues and revokes; whatever else happens disturbs one client at most.
Disturbs == disturbed' = disturbed \/ \E k \in Clients : disturbed' = disturbed \cup {k}

LEMMA OtherSteps ==
    ASSUME IInv, [Next]_vars
    PROVE  \/ UNCHANGED <<row, revoked>> /\ Disturbs
           \/ \E r \in Tasks : Backend(r)
<1>1. ASSUME NEW r \in Tasks, NEW k \in Clients, NEW for, NEW step, Start(r, k, for, step)
      PROVE  Disturbs
  <2>1. disturbed' = disturbed \cup {c \in {k} : Busy(c)}
    BY <1>1 DEF Start
  <2>2. CASE Busy(k)
    BY <2>1, <2>2 DEF Disturbs
  <2>3. CASE ~Busy(k)
    BY <2>1, <2>3 DEF Disturbs
  <2>4. QED
    BY <2>2, <2>3
<1>2. ASSUME NEW r \in Tasks, NEW k \in Clients,
             Navigate(r, k) \/ LogIn(r, k) \/ LogOut(r, k) \/ FetchMe(r, k) \/ FetchHome(r, k)
             \/ ResetPassword(r, k)
      PROVE  UNCHANGED <<row, revoked>> /\ Disturbs
  BY <1>1, <1>2 DEF Navigate, LogIn, LogOut, FetchMe, FetchHome, ResetPassword, server
<1>3. ASSUME NEW r \in Tasks, AnswerBrowser(r) \/ RedirectToLogin(r) \/ Fetch(r) \/ SaveAccess(r)
      PROVE  UNCHANGED <<row, revoked, disturbed>>
  BY <1>3 DEF AnswerBrowser, RedirectToLogin, Fetch, SaveAccess, server, aux
<1>4. ASSUME NEW r \in Tasks,
             SaveRefresh(r) \/ ClearAccess(r) \/ ClearRefresh(r) \/ Done(r) \/ Failed(r)
      PROVE  UNCHANGED <<row, revoked, disturbed>>
  BY <1>4 DEF SaveRefresh, ClearAccess, ClearRefresh, Done, Failed, server, aux
<1>5. ASSUME NEW r \in Tasks, Throw(r) \/ AnswerError(r) \/ Leave(r)
      PROVE  UNCHANGED <<row, revoked>> /\ Disturbs
  <2>1. /\ UNCHANGED <<row, revoked>> /\ disturbed' = disturbed \cup {work[r].client}
        /\ pc[r] # "idle"
    BY <1>5 DEF Throw, AnswerError, Leave, Continue, server
  <2>2. work[r].client \in Clients
    BY <2>1 DEF IInv, GlobalOK, TasksOK, TaskTyped
  <2>3. QED
    BY <2>1, <2>2 DEF Disturbs
<1>6. ASSUME NEW k \in Clients, Kill(k)
      PROVE  UNCHANGED <<row, revoked>> /\ Disturbs
  <2>1. UNCHANGED <<row, revoked>> /\ disturbed' = disturbed \cup {c \in {k} : Busy(c)}
    BY <1>6 DEF Kill, server
  <2>2. CASE Busy(k)
    BY <2>1, <2>2 DEF Disturbs
  <2>3. CASE ~Busy(k)
    BY <2>1, <2>3 DEF Disturbs
  <2>4. QED
    BY <2>1, <2>2, <2>3
<1>7. ASSUME NEW k \in Clients, NavigateAtOnce(k) \/ Launch(k) \/ DropCookie(k)
      PROVE  UNCHANGED <<row, revoked, disturbed>>
  BY <1>7 DEF NavigateAtOnce, Launch, DropCookie, server, aux
<1>8. ASSUME NEW p \in Pairs, ExpireAccess(p) \/ Lapse(p)
      PROVE  UNCHANGED <<row, revoked, disturbed>>
  BY <1>8 DEF ExpireAccess, Lapse, server, aux
<1>9. CASE UNCHANGED vars
  BY <1>9 DEF vars, Disturbs
<1>10. ASSUME NEW r \in Tasks, Client(r)
       PROVE  UNCHANGED <<row, revoked>> /\ Disturbs
  BY <1>2, <1>3, <1>4, <1>10 DEF Client, Disturbs
<1>11. QED
  BY <1>5, <1>6, <1>7, <1>8, <1>9, <1>10 DEF Next, Disturbs

LEMMA RootsPreserved == IInv /\ RootsOK /\ [Next]_vars => RootsOK'
<1> SUFFICES ASSUME IInv, RootsOK, [Next]_vars PROVE RootsOK'
  OBVIOUS
<1>1. CASE row' = row
  BY <1>1 DEF RootsOK, Issued
<1>2. ASSUME NEW p \in Pairs \ Issued, NEW w \in Rows, w.user \in Clients,
             row' = [row EXCEPT ![p] = w],
             w.family = p \/ \E s \in Issued : w.family = row[s].family
      PROVE  RootsOK'
  <2>1. /\ row'[p] = w /\ Issued' = Issued \cup {p}
        /\ \A s \in Issued : row'[s] = row[s]
    BY <1>2, NewRow
  <2>2. \A s \in Issued : row'[row'[s].family].family = row'[s].family
    BY <2>1, IssuedFacts DEF RootsOK
  <2>3. row'[w.family].family = w.family
    BY <1>2, <2>1, <2>2
  <2>4. QED
    BY <2>1, <2>2, <2>3 DEF RootsOK
<1>3. ASSUME NEW r \in Tasks, NEW p \in Pairs, IssueFirst(r, p)
      PROVE  RootsOK'
  <2> DEFINE w == [family |-> p, user |-> work[r].client]
  <2>1. /\ p \in Pairs \ Issued /\ row' = [row EXCEPT ![p] = w]
        /\ work[r].client \in Clients
    BY <1>3 DEF IssueFirst, Continue, IInv, GlobalOK, TasksOK, TaskTyped
  <2>2. w \in Rows /\ w.user \in Clients /\ w.family = p
    BY <2>1 DEF Rows
  <2> HIDE DEF w
  <2>3. QED
    BY <1>2, <2>1, <2>2
<1>4. ASSUME NEW r \in Tasks, NEW p \in Pairs, Rotate(r, p)
      PROVE  RootsOK'
  <2>1. p \in Pairs \ Issued
    BY <1>4 DEF Rotate
  <2>2. QED
    BY <1>2, <1>4, <2>1, RotationIssues
<1>5. ASSUME NEW r \in Tasks, ReadRefresh(r) \/ EndFamily(r) \/ RevokeAll(r)
      PROVE  row' = row
  BY <1>5 DEF ReadRefresh, EndFamily, RevokeAll
<1>6. QED
  BY <1>1, <1>3, <1>4, <1>5, OtherSteps DEF Backend

\* What a step that does not issue or revoke shows: at most that a client is disturbed.
LEMMA QuietSteps ==
    ASSUME UNCHANGED <<row, revoked>>, Disturbs
    PROVE  Lifecycle!Next \/ UNCHANGED Lifecycle!sessionVars
<1>1. UNCHANGED <<OwnerOf, OpenOf, SessionOf, WorkingOf>>
  BY DEF OwnerOf, OpenOf, SessionOf, WorkingOf, Issued
<1>2. CASE disturbed' = disturbed
  BY <1>1, <1>2 DEF Lifecycle!sessionVars
<1>3. ASSUME NEW k \in Clients, disturbed' = disturbed \cup {k}
      PROVE  Lifecycle!Next
  <2>1. Lifecycle!Overlap(k)
    BY <1>1, <1>3 DEF Lifecycle!Overlap
  <2>2. QED
    BY <2>1 DEF Lifecycle!Next
<1>4. QED
  BY <1>2, <1>3 DEF Disturbs

\* A login opens a session.
LEMMA LoginOpens ==
    ASSUME IInv, NEW r \in Tasks, NEW p \in Pairs, IssueFirst(r, p)
    PROVE  Lifecycle!Next
<1> DEFINE k == work[r].client
           w == [family |-> p, user |-> k]
<1>1. /\ p \in Pairs \ Issued /\ row' = [row EXCEPT ![p] = w]
      /\ k \in Clients /\ UNCHANGED <<revoked, disturbed>>
  BY DEF IssueFirst, Continue, aux, IInv, GlobalOK, TasksOK, TaskTyped
<1>2. w \in Rows
  BY <1>1 DEF Rows
<1>3. /\ row'[p] = w /\ Issued' = Issued \cup {p}
      /\ \A s \in Issued : row'[s] = row[s]
  <2> HIDE DEF w
  <2>1. w.user \in Clients
    BY <1>1 DEF w
  <2>2. QED
    BY <1>1, <1>2, <2>1, NewRow
<1>4. Issued \subseteq Pairs /\ revoked \subseteq Issued /\ row \in [Pairs -> Rows]
  BY DEF Issued, IInv, GlobalOK, TypeOK
<1>5. OwnerOf' = [OwnerOf EXCEPT ![p] = k] /\ SessionOf' = [SessionOf EXCEPT ![p] = p]
  BY <1>1, <1>4 DEF OwnerOf, SessionOf
<1>6. WorkingOf' = WorkingOf \cup {p}
  BY <1>1, <1>3, <1>4 DEF WorkingOf
<1>7. OpenOf' = OpenOf \cup {p}
  <2>1. \A s \in WorkingOf : row'[s] = row[s]
    BY <1>3 DEF WorkingOf
  <2>2. row'[p].family = p
    BY <1>3
  <2>3. QED
    BY <1>6, <2>1, <2>2 DEF OpenOf
<1>8. Lifecycle!Open(k, p)
  BY <1>1, <1>5, <1>6, <1>7, UnissuedIsNew DEF Lifecycle!Open
<1>9. QED
  BY <1>1, <1>8 DEF Lifecycle!Next

\* A rotation takes the old key and sends the new one; only for a client that was disturbed may
\* the old one have been taken, or closed, meanwhile.
LEMMA RotationRenews ==
    ASSUME IInv, RootsOK, NEW r \in Tasks, NEW p \in Pairs, Rotate(r, p)
    PROVE  Lifecycle!Next
<1> DEFINE old == work[r].refresh
           f == row[old].family
<1>1. /\ old \in Issued /\ row' = [row EXCEPT ![p] = row[old]] /\ row[old] \in Rows
      /\ row[old].user \in Clients
      /\ old \in revoked => row[old].user \in disturbed
  BY RotationIssues
<1>2. /\ p \in Pairs \ Issued /\ revoked' = revoked \cup {old} /\ UNCHANGED disturbed
  BY DEF Rotate, aux
<1>3. /\ row'[p] = row[old] /\ Issued' = Issued \cup {p}
      /\ \A s \in Issued : row'[s] = row[s]
  BY <1>1, <1>2, NewRow
<1>4. /\ old \in Pairs /\ f \in Issued /\ f # p /\ f # NoPair
      /\ OwnerOf[f] = row[old].user /\ SessionOf[old] = f
  BY <1>1, <1>2, IssuedFacts
<1>5. Issued \subseteq Pairs /\ revoked \subseteq Issued /\ row \in [Pairs -> Rows]
  BY DEF Issued, IInv, GlobalOK, TypeOK
<1>6. Lifecycle!New(p) /\ row[p].family = NoPair
  BY <1>2, UnissuedIsNew
<1> HIDE DEF old
<1>7. SessionOf' = [SessionOf EXCEPT ![p] = f]
  BY <1>1, <1>2, <1>5 DEF SessionOf
<1>8. OwnerOf' = OwnerOf
  <2>1. \A s \in Pairs : s # p => row'[s] = row[s]
    BY <1>1, <1>5
  <2>2. row[p].family # p /\ row'[p].family # p
    BY <1>2, <1>3, <1>4, <1>6, NullsAreNotIds
  <2>3. QED
    BY <2>1, <2>2 DEF OwnerOf
<1>9. WorkingOf' = (WorkingOf \ {old}) \cup {p}
  BY <1>1, <1>2, <1>3, <1>5 DEF WorkingOf
<1>10. OpenOf' = OpenOf \cup {f}
  <2>1. \A s \in WorkingOf : row'[s] = row[s]
    BY <1>3 DEF WorkingOf
  <2>2. row'[p].family = f
    BY <1>3
  <2>3. old \in WorkingOf => f \in OpenOf
    BY DEF OpenOf
  <2>4. ASSUME NEW g \in OpenOf PROVE g \in OpenOf'
    <3>1. PICK s \in WorkingOf : g = row[s].family
      BY <2>4 DEF OpenOf
    <3>2. CASE s = old
      BY <1>9, <2>2, <3>1, <3>2 DEF OpenOf
    <3>3. CASE s # old
      BY <1>9, <2>1, <3>1, <3>3 DEF OpenOf
    <3>4. QED
      BY <3>2, <3>3
  <2>5. ASSUME NEW g \in OpenOf' PROVE g \in OpenOf \cup {f}
    <3>1. PICK s \in WorkingOf' : g = row'[s].family
      BY <2>5 DEF OpenOf
    <3>2. QED
      BY <1>9, <2>1, <2>2, <3>1 DEF OpenOf
  <2>6. f \in OpenOf'
    BY <1>9, <2>2 DEF OpenOf
  <2>7. QED
    BY <2>4, <2>5, <2>6
<1>11. CASE old \notin revoked
  <2>1. old \in WorkingOf
    BY <1>1, <1>11 DEF WorkingOf
  <2>2. OpenOf' = OpenOf
    BY <1>10, <2>1 DEF OpenOf
  <2>3. Lifecycle!Renew(old, p)
    BY <1>2, <1>4, <1>6, <1>7, <1>8, <1>9, <2>1, <2>2 DEF Lifecycle!Renew
  <2>4. QED
    BY <1>2, <1>4, <2>3 DEF Lifecycle!Next
<1>12. CASE old \in revoked
  <2>1. old \notin WorkingOf /\ OwnerOf[SessionOf[old]] \in disturbed
    BY <1>1, <1>4, <1>12 DEF WorkingOf
  <2>2. WorkingOf' = WorkingOf \cup {p}
    BY <1>9, <2>1
  <2>3. Lifecycle!Branch(old, p)
    BY <1>2, <1>4, <1>6, <1>7, <1>8, <1>10, <2>1, <2>2 DEF Lifecycle!Branch
  <2>4. QED
    BY <1>2, <1>4, <2>3 DEF Lifecycle!Next
<1>13. QED
  BY <1>11, <1>12

\* Revoking a family, at a reuse or a logout, closes the session or finds it closed.
LEMMA RevokeCloses ==
    ASSUME IInv, RootsOK, NEW p \in Issued, revoked' = revoked \cup Family(p),
           UNCHANGED <<row, disturbed>>
    PROVE  Lifecycle!Next \/ UNCHANGED Lifecycle!sessionVars
<1> DEFINE f == row[p].family
<1>1. p \in Pairs /\ SessionOf[p] = f
  BY IssuedFacts
<1>2. Issued' = Issued /\ OwnerOf' = OwnerOf /\ SessionOf' = SessionOf
  BY DEF Issued, OwnerOf, SessionOf
<1>3. \A s \in Issued : SessionOf[s] = row[s].family /\ (s \in Family(p) <=> row[s].family = f)
  BY DEF SessionOf, Issued, Family
<1> HIDE DEF f
<1>4. WorkingOf' = {s \in WorkingOf : SessionOf[s] \notin {f}}
  BY <1>2, <1>3 DEF WorkingOf
<1>5. OpenOf' = OpenOf \ {f}
  BY <1>3, <1>4 DEF OpenOf, WorkingOf
<1>6. Lifecycle!Close({f})
  BY <1>2, <1>4, <1>5 DEF Lifecycle!Close
<1>7. CASE f \in OpenOf
  <2>1. Lifecycle!CloseWith(p)
    BY <1>1, <1>6, <1>7 DEF Lifecycle!CloseWith
  <2>2. QED
    BY <1>1, <2>1 DEF Lifecycle!Next
<1>8. CASE f \notin OpenOf
  <2>1. \A s \in WorkingOf : SessionOf[s] # f
    BY <1>3, <1>8 DEF OpenOf, WorkingOf
  <2>2. OpenOf' = OpenOf /\ WorkingOf' = WorkingOf
    BY <1>4, <1>5, <1>8, <2>1
  <2>3. QED
    BY <1>2, <2>2 DEF Lifecycle!sessionVars
<1>9. QED
  BY <1>7, <1>8

LEMMA RevocationCloses ==
    ASSUME IInv, RootsOK, NEW r \in Tasks, ReadRefresh(r) \/ EndFamily(r)
    PROVE  Lifecycle!Next \/ UNCHANGED Lifecycle!sessionVars
<1> DEFINE p == work[r].refresh
<1>1. /\ UNCHANGED <<row, disturbed>>
      /\ pc[r] \in {"refreshing", "loggingOut"}
      /\ revoked' \in {revoked, revoked \cup Family(p)}
  BY DEF ReadRefresh, EndFamily, Continue, aux
<1>2. p \in Issued
  BY <1>1 DEF IInv, GlobalOK, TasksOK, TaskTyped, Owned
<1> HIDE DEF p
<1>3. CASE revoked' = revoked
  BY <1>1, <1>3, QuietSteps DEF Disturbs
<1>4. CASE revoked' = revoked \cup Family(p)
  BY <1>1, <1>2, <1>4, RevokeCloses
<1>5. QED
  BY <1>1, <1>3, <1>4

\* A reset of the password closes the sessions of the user.
LEMMA ResetCloses ==
    ASSUME IInv, RootsOK, NEW r \in Tasks, RevokeAll(r)
    PROVE  Lifecycle!Next
<1> DEFINE k == work[r].client
<1>1. /\ UNCHANGED <<row, disturbed>> /\ pc[r] = "resetting"
      /\ revoked' = revoked \cup {p \in Issued : row[p].user = k}
  BY DEF RevokeAll
<1>2. k \in Clients
  BY <1>1 DEF IInv, GlobalOK, TasksOK, TaskTyped
<1> DEFINE own == {f \in Pairs : OwnerOf[f] = k}
<1> HIDE DEF k
<1>3. Issued' = Issued /\ OwnerOf' = OwnerOf /\ SessionOf' = SessionOf
  BY <1>1 DEF Issued, OwnerOf, SessionOf
<1>4. \A p \in Issued : /\ SessionOf[p] = row[p].family
                        /\ row[p].user = k <=> row[p].family \in own
  BY IssuedFacts
<1> HIDE DEF own
<1>5. WorkingOf' = {s \in WorkingOf : SessionOf[s] \notin own}
  BY <1>1, <1>3, <1>4 DEF WorkingOf
<1>6. OpenOf' = OpenOf \ own
  BY <1>1, <1>4, <1>5 DEF OpenOf, WorkingOf
<1>7. Lifecycle!CloseAll(k)
  BY <1>1, <1>3, <1>5, <1>6 DEF Lifecycle!CloseAll, Lifecycle!Close, own
<1>8. QED
  BY <1>2, <1>7 DEF Lifecycle!Next

LEMMA FirstSessions == Init => RootsOK /\ Lifecycle!Init
<1> SUFFICES ASSUME Init PROVE RootsOK /\ Lifecycle!Init
  OBVIOUS
<1>1. /\ \A p \in Pairs : row[p] = NoRow /\ row[p].family = NoPair
      /\ disturbed = {} /\ Issued = {}
  BY DEF Init, Issued, NoRow
<1>2. RootsOK
  BY <1>1 DEF RootsOK
<1>3. /\ OwnerOf = [p \in Pairs |-> NoClient] /\ SessionOf = [p \in Pairs |-> NoPair]
      /\ WorkingOf = {}
  BY <1>1, NullsAreNotIds DEF OwnerOf, SessionOf, WorkingOf
<1>4. OpenOf = {}
  BY <1>3 DEF OpenOf
<1>5. QED
  BY <1>1, <1>2, <1>3, <1>4 DEF Lifecycle!Init

\* Whatever clients send and wherever they are cut off, their sessions follow the lifecycle; only
\* for a client whose requests have overlapped, been cut off or met an error may a session branch
\* or open again.
THEOREM SessionsFollow == Spec => FollowsLifecycle
<1>1. ASSUME IInv, RootsOK, [Next]_vars
      PROVE  Lifecycle!Next \/ UNCHANGED Lifecycle!sessionVars
  <2>1. ASSUME NEW r \in Tasks, Backend(r)
        PROVE  Lifecycle!Next \/ UNCHANGED Lifecycle!sessionVars
    BY <1>1, <2>1, LoginOpens, RotationRenews, RevocationCloses, ResetCloses DEF Backend
  <2>2. QED
    BY <1>1, <2>1, OtherSteps, QuietSteps
<1>2. IInv /\ RootsOK /\ [Next]_vars => [Lifecycle!Next]_(Lifecycle!sessionVars)
  BY <1>1
<1>3. QED
  BY <1>2, FirstSessions, InitOK, Inductive, RootsPreserved, PTL
     DEF Spec, FollowsLifecycle, Lifecycle!Spec

\* Both together, as the run checks them.
THEOREM SessionAsExpected == Spec => []SessionIsAsExpected
<1>1. SessionLasts /\ LogoutLeavesNothing => SessionIsAsExpected
  BY DEF SessionIsAsExpected
<1>2. QED
  BY <1>1, TheSessionLasts, LogoutIsComplete, PTL

=============================================================================
