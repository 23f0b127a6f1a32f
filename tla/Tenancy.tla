------------------------------ MODULE Tenancy ------------------------------
(***************************************************************************)
(* How a request gets its database connection and what it can see there:   *)
(* the guards' actor, TenantScopeInterceptor and TenantContextService      *)
(* (common/tenant), the row-level security policies of the tenant tables,  *)
(* and the pool of connections, which lends them first come, first served  *)
(* and lets requests wait for ever.                                        *)
(*                                                                         *)
(* A tenant request (an authenticated HTTP request, a message on a socket, *)
(* the account of an invite) holds one connection from runForActor() to    *)
(* its end, unless its transaction fails to start: the connection is then  *)
(* never given back. The settings that the policies read are local to the  *)
(* transaction. GET /auth/me, besides, reads the profile through a         *)
(* repository, which takes another connection for its one statement, as    *)
(* does every statement of a public request.                               *)
(***************************************************************************)
EXTENDS Sequences

CONSTANTS
    Companies,
    Conns,      \* the connections of the pool
    Requests,   \* slots of requests in flight on the backend
    NoCompany, NoConn

ASSUME NullsAreNotIds == NoCompany \notin Companies /\ NoConn \notin Conns

VARIABLES
    setting,    \* [Conns -> [company, super]]: app.current_company_id and app.is_super_admin
    conn,       \* [Requests -> Conns]: the connection of its runForActor()
    leaked,     \* the connections that nobody will give back
    queue,      \* the requests that wait for a connection, in order
    at,         \* how far each request has come
    actor       \* [Requests -> [company, super]]: request.user

pool  == <<setting, conn, leaked, queue>>
tvars == <<setting, conn, leaked, queue, at, actor>>

Unset      == [company |-> NoCompany, super |-> FALSE]
SuperAdmin == [company |-> NoCompany, super |-> TRUE]
Member(k)  == [company |-> k, super |-> FALSE]
Actors     == {SuperAdmin} \cup {Member(k) : k \in Companies}

\* The policy of every tenant table: whose rows a statement on the connection sees.
Visible(c) == {k \in Companies : setting[c].super \/ setting[c].company = k}

Free == {c \in Conns \ leaked : \A q \in Requests : conn[q] # c}

TInit ==
    /\ setting = [c \in Conns |-> Unset]
    /\ conn = [q \in Requests |-> NoConn]
    /\ leaked = {}
    /\ queue = <<>>
    /\ at = [q \in Requests |-> "idle"]
    /\ actor = [q \in Requests |-> Unset]

Wait(q, from, to) ==
    /\ at[q] = from
    /\ at' = [at EXCEPT ![q] = to]
    /\ queue' = Append(queue, q)
    /\ UNCHANGED <<setting, conn, leaked>>

\* It is the request's turn, and a connection is there.
Served(q, from, c) ==
    /\ at[q] = from
    /\ queue # <<>> /\ q = Head(queue) /\ c \in Free
    /\ queue' = Tail(queue)

----------------------------------------------------------------------------
\* The guards have passed: runForActor() asks for a connection.
Arrive(q, a) ==
    /\ Wait(q, "idle", "waiting")
    /\ actor' = [actor EXCEPT ![q] = a]

\* connect(): the pool hands out a connection...
Connect(q, c) ==
    /\ Served(q, "waiting", c)
    /\ at' = [at EXCEPT ![q] = "starting"]
    /\ conn' = [conn EXCEPT ![q] = c]
    /\ UNCHANGED <<setting, leaked, actor>>

\* ...or fails to open one.
ConnectFails(q, c) ==
    /\ Served(q, "waiting", c)
    /\ at' = [at EXCEPT ![q] = "idle"]
    /\ actor' = [actor EXCEPT ![q] = Unset]
    /\ UNCHANGED <<setting, conn, leaked>>

\* START TRANSACTION and the two set_config().
Begin(q) ==
    /\ at[q] = "starting"
    /\ at' = [at EXCEPT ![q] = "open"]
    /\ setting' = [setting EXCEPT ![conn[q]] = actor[q]]
    /\ UNCHANGED <<conn, leaked, queue, actor>>

\* START TRANSACTION fails, outside of the try: nobody releases the connection, and only one that
\* is broken does the pool notice itself.
StartFails(q) ==
    /\ at[q] = "starting"
    /\ at' = [at EXCEPT ![q] = "idle"]
    /\ conn' = [conn EXCEPT ![q] = NoConn]
    /\ actor' = [actor EXCEPT ![q] = Unset]
    /\ leaked' \in {leaked, leaked \cup {conn[q]}}
    /\ UNCHANGED <<setting, queue>>

\* A slip: set_config() without is_local, whose settings survive a COMMIT.
ReleaseUnreset(q) ==
    /\ at' = [at EXCEPT ![q] = "idle"]
    /\ conn' = [conn EXCEPT ![q] = NoConn]
    /\ actor' = [actor EXCEPT ![q] = Unset]
    /\ UNCHANGED <<setting, leaked>>

\* COMMIT or ROLLBACK, which ends the local settings, and release().
Release(q) ==
    /\ at' = [at EXCEPT ![q] = "idle"]
    /\ conn' = [conn EXCEPT ![q] = NoConn]
    /\ actor' = [actor EXCEPT ![q] = Unset]
    /\ setting' = [setting EXCEPT ![conn[q]] = Unset]
    /\ UNCHANGED leaked

\* A statement of a public request, which waits for a connection like everybody.
AskPublic(q) == Wait(q, "idle", "public") /\ UNCHANGED actor

ServePublic(q, c) ==
    /\ Served(q, "public", c)
    /\ at' = [at EXCEPT ![q] = "idle"]
    /\ UNCHANGED <<setting, conn, leaked, actor>>

\* getProfile(), inside of the scope that the interceptor has opened; then the request ends.
AskProfile(q) == Wait(q, "open", "reading") /\ UNCHANGED actor

ServeProfile(q, c) == Served(q, "reading", c) /\ Release(q)

Ask(q)   == AskPublic(q) \/ \E a \in Actors : Arrive(q, a)
Serve(q) ==
    \/ \E c \in Conns :
          Connect(q, c) \/ ConnectFails(q, c) \/ ServePublic(q, c) \/ ServeProfile(q, c)
    \/ Begin(q) \/ StartFails(q)

----------------------------------------------------------------------------
(* Properties *)

Settings == [company : Companies \cup {NoCompany}, super : BOOLEAN]

TenancyTypeOK ==
    /\ setting \in [Conns -> Settings]
    /\ conn \in [Requests -> Conns \cup {NoConn}]
    /\ leaked \subseteq Conns
    /\ queue \in Seq(Requests)
    /\ at \in [Requests -> {"idle", "waiting", "public", "starting", "open", "reading"}]
    /\ actor \in [Requests -> Settings]

\* rls.e2e-spec.ts: whatever connection a request is given, and whoever has had it before, nobody
\* has it besides, and its statements see the rows of its actor's company only; those of a public
\* request see none.
TenantIsolation ==
    /\ \A p, q \in Requests : conn[p] # NoConn /\ conn[p] = conn[q] => p = q
    /\ \A q \in Requests : conn[q] # NoConn /\ ~actor[q].super =>
          Visible(conn[q]) \subseteq {actor[q].company}
    /\ \A c \in Free : Visible(c) = {}

=============================================================================
