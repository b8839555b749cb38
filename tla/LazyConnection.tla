---------------------------- MODULE LazyConnection ----------------------------
(***************************************************************************)
(* How a store with a database connection opens and closes: open() makes   *)
(* the sync connection, the first async call makes the async one, and      *)
(* close()/aclose() release both.  The users of one store object are OS    *)
(* threads, or the tasks of one event loop and the thread that runs the    *)
(* loop.                                                                   *)
(*                                                                         *)
(* Tasks switch at their awaits only; the worker thread of aopen(), and OS *)
(* threads, between any two statements.  Connecting and creating the table *)
(* may fail.  "sqlite" is a database file, "memory" is ":memory:", where   *)
(* each connection has a database of its own.                              *)
(***************************************************************************)
EXTENDS Integers, FiniteSets

CONSTANTS Users, Nobody,
          Sites,     \* the deployments: [backend, calls, via]
          MaxConns   \* bound: the connections known or open at a time

ASSUME NobodyAssumption   == Nobody \notin Users
ASSUME MaxConnsAssumption == MaxConns \in Nat

VARIABLES site,
          closed, conn, aconn,  \* _closed, _conn, _aconn
          aready,               \* _aschema_ready
          alock,                \* who holds _aconn_lock
          live,                 \* the connections that are open
          tabled,               \* those that find the table in their database
          pc, op, answer,
          got,                  \* got[t]: the async connection t was given
          met,                  \* met[t]: what overlapped t's call
          raced,                \* two open() or two close() calls have overlapped
          mishap                \* a CREATE TABLE has failed, or a Redis client was
                                \* used after its close

store == <<closed, conn, aconn, aready, alock>>
database == <<live, tabled>>
progress == <<pc, op, answer, met, got>>
vars == <<site, store, database, progress, raced, mishap>>

NoConn == 0

Backends == {"sqlite", "memory", "postgres", "redis", "duckdb"}

\* DuckDB has no async connection: the call of a task runs in a worker thread.
ASSUME SitesAssumption ==
    \A s \in Sites :
        /\ s.backend \in Backends /\ s.via \in [Users -> {"thread", "task"}]
        /\ \A t \in Users : s.calls[t] \subseteq {"open", "use", "close", "aclose"}
        /\ s.backend = "duckdb" => \A t \in Users : s.via[t] = "thread"

Sqlite == site.backend \in {"sqlite", "memory"}

Task(t) == site.via[t] = "task"

Init ==
    /\ site \in Sites
    /\ closed = TRUE /\ conn = NoConn /\ aconn = NoConn
    /\ aready = FALSE /\ alock = Nobody
    /\ live = {} /\ tabled = {}
    /\ pc = [t \in Users |-> "idle"]
    /\ op = [t \in Users |-> "none"]
    /\ answer = [t \in Users |-> "ok"]
    /\ got = [t \in Users |-> NoConn]
    /\ met = [t \in Users |-> {}]
    /\ raced = FALSE /\ mishap = FALSE

-----------------------------------------------------------------------------
Busy(t) == pc[t] # "idle"

Kind(call) == IF call = "aclose" THEN "close" ELSE call

\* The thread of a deployment with tasks is the one that runs their loop.
MayBegin(t) == \A u \in Users : Busy(u) => (Task(u) <=> Task(t))

\* The answers of the calls that are over are forgotten here.
Begin(t) ==
    /\ ~Busy(t) /\ MayBegin(t)
    /\ pc' = [pc EXCEPT ![t] = "start"]
    /\ answer' = [u \in Users |-> IF u = t \/ Busy(u) THEN "none" ELSE "ok"]
    /\ \E call \in site.calls[t] :
        /\ op' = [op EXCEPT ![t] = call]
        /\ met' = [u \in Users |->
            CASE u = t   -> {Kind(op[v]) : v \in {w \in Users : Busy(w)}}
              [] Busy(u) -> met[u] \cup {Kind(call)}
              [] OTHER   -> met[u]]
        /\ raced' = (raced \/ (call # "use" /\ \E u \in Users : Busy(u) /\ Kind(op[u]) = Kind(call)))
    /\ UNCHANGED <<site, store, database, mishap, got>>

\* Mutant of End: the caller is left without an answer.
EndSilent(t, a) == pc' = [pc EXCEPT ![t] = "idle"] /\ UNCHANGED <<op, answer, met>>

\* "closed" is the RuntimeError of a store that is not open, "failed" an error
\* of the database, "broken" the use of a connection that is not there.
End(t, a) ==
    /\ pc' = [pc EXCEPT ![t] = "idle"]
    /\ answer' = [answer EXCEPT ![t] = a]
    /\ op' = [op EXCEPT ![t] = "none"]
    /\ met' = [met EXCEPT ![t] = {}]

GoTo(t, phase) == pc' = [pc EXCEPT ![t] = phase] /\ UNCHANGED <<op, answer, met>>

At(t, phase, calls) == pc[t] = phase /\ op[t] \in calls

\* A new connection c; a new ":memory:" database is empty.
Connected(c) ==
    LET used == live \cup {conn, aconn} \cup {got[u] : u \in Users} IN
    /\ c \notin used /\ \A i \in 1..(c - 1) : i \in used
    /\ live' = live \cup {c}
    /\ tabled' = IF site.backend = "memory" THEN tabled \ {c} ELSE tabled

\* CREATE TABLE IF NOT EXISTS on connection c.
Create(c) ==
    /\ c \in live
    /\ tabled' = IF site.backend = "memory" THEN tabled \cup {c} ELSE 1..MaxConns

-----------------------------------------------------------------------------
\* open(); aopen() makes the same test before and in its worker thread.
OpenTest(t) ==
    /\ At(t, "start", {"open"})
    /\ IF closed THEN GoTo(t, "connect") ELSE End(t, "ok")
    /\ UNCHANGED <<store, database, mishap>>

\* self._conn = connect(...).  Making the connection and assigning it are one
\* step: until it is assigned only this call has it, and nothing that others
\* do reads or changes it.
OpenConnect(t) ==
    /\ pc[t] = "connect"
    /\ \E c \in 1..MaxConns : Connected(c) /\ conn' = c
    /\ GoTo(t, IF site.backend \in {"redis", "duckdb"} THEN "flag" ELSE "create")
    /\ UNCHANGED <<closed, aconn, aready, alock, mishap>>

\* The database cannot be reached.
ConnectFails(t) ==
    /\ pc[t] = "connect"
    /\ End(t, "failed")
    /\ UNCHANGED <<store, database, mishap>>

\* self._connection.execute(create table), on whatever self._conn is by now.
OpenCreate(t) ==
    /\ pc[t] = "create" /\ Create(conn)
    /\ IF site.backend = "duckdb" THEN End(t, "ok") ELSE GoTo(t, "flag")
    /\ UNCHANGED <<store, live, mishap>>

\* SQLite closes the connection it has just made.
SQLiteCreateFails(t) ==
    /\ pc[t] = "create" /\ Sqlite
    /\ live' = live \ {conn} /\ conn' = NoConn
    /\ mishap' = TRUE
    /\ End(t, "failed")
    /\ UNCHANGED <<closed, aconn, aready, alock, tabled>>

\* PostgreSQL and DuckDB leave it open, DuckDB with the store open as well.
CreateFails(t) ==
    /\ pc[t] = "create" /\ ~Sqlite
    /\ mishap' = TRUE
    /\ End(t, "failed")
    /\ UNCHANGED <<store, database>>

\* Mutant of SQLiteOpened: the async table is taken to be there still.
SQLiteOpenedStale(t) ==
    /\ pc[t] = "flag" /\ Sqlite
    /\ closed' = FALSE
    /\ End(t, "ok")
    /\ UNCHANGED <<conn, aconn, aready, alock, database, mishap>>

SQLiteOpened(t) ==
    /\ pc[t] = "flag" /\ Sqlite
    /\ closed' = FALSE /\ aready' = FALSE
    /\ End(t, "ok")
    /\ UNCHANGED <<conn, aconn, alock, database, mishap>>

Opened(t) ==
    /\ pc[t] = "flag" /\ site.backend \in {"postgres", "redis"}
    /\ closed' = FALSE
    /\ End(t, "ok")
    /\ UNCHANGED <<conn, aconn, aready, alock, database, mishap>>

\* DuckDB says it is open before it has the table.
DuckOpened(t) ==
    /\ pc[t] = "flag" /\ site.backend = "duckdb"
    /\ closed' = FALSE
    /\ GoTo(t, "create")
    /\ UNCHANGED <<conn, aconn, aready, alock, database, mishap>>

-----------------------------------------------------------------------------
\* Mutant of CloseAsync: the test of _closed comes first.
CloseAsyncIfOpen(t) ==
    /\ At(t, "start", {"close"}) /\ ~Task(t)
    /\ live' = (IF closed THEN live ELSE live \ {aconn})
    /\ aconn' = (IF closed THEN aconn ELSE NoConn)
    /\ GoTo(t, "close")
    /\ UNCHANGED <<closed, conn, aready, alock, tabled, mishap>>

\* close_async_connection_from_sync; asyncio.run only outside a loop.
CloseAsync(t) ==
    /\ At(t, "start", {"close"}) /\ ~Task(t)
    /\ live' = live \ {aconn} /\ aconn' = NoConn
    /\ GoTo(t, "close")
    /\ UNCHANGED <<closed, conn, aready, alock, tabled, mishap>>

CloseTest(t) ==
    /\ pc[t] = "close"
    /\ IF closed THEN End(t, "ok") ELSE GoTo(t, "closing")
    /\ UNCHANGED <<store, database, mishap>>

\* self._connection.close(), then self._closed = True
CloseConn(t) ==
    /\ pc[t] = "closing"
    /\ live' = live \ {conn}
    /\ IF conn = NoConn THEN End(t, "closed") ELSE GoTo(t, "closed")
    /\ UNCHANGED <<store, tabled, mishap>>

CloseFlag(t) ==
    /\ pc[t] = "closed"
    /\ closed' = TRUE
    /\ End(t, "ok")
    /\ UNCHANGED <<conn, aconn, aready, alock, database, mishap>>

\* The sync part of a close in the loop: no await, no switch.
Release(t, open) ==
    /\ live' = open \ (IF closed THEN {} ELSE {conn})
    /\ closed' = (closed \/ conn # NoConn)
    /\ End(t, IF ~closed /\ conn = NoConn THEN "closed" ELSE "ok")
    /\ UNCHANGED <<conn, aready, alock, tabled, mishap>>

\* close() in a running loop refuses when there is an async connection.
CloseInLoop(t) ==
    /\ At(t, "start", {"close"}) /\ Task(t)
    /\ \/ /\ aconn # NoConn
          /\ End(t, "failed")
          /\ UNCHANGED <<store, database, mishap>>
       \/ aconn = NoConn /\ Release(t, live) /\ UNCHANGED aconn

\* await self._aconn.close()
ACloseConn(t) ==
    /\ At(t, "start", {"aclose"}) /\ aconn # NoConn
    /\ live' = live \ {aconn}
    /\ GoTo(t, "aclosing")
    /\ UNCHANGED <<store, tabled, mishap>>

\* self._aconn = None, whatever it is by now, and the sync connection.
ACloseRest(t) ==
    /\ \/ pc[t] = "aclosing"
       \/ At(t, "start", {"aclose"}) /\ aconn = NoConn
    /\ aconn' = NoConn
    /\ Release(t, live)

-----------------------------------------------------------------------------
\* A Redis client that has been closed connects again when it is used.
Serves(c) ==
    \/ c \in live /\ c \in tabled
    \/ site.backend = "redis" /\ c # NoConn

Revives(c) == site.backend = "redis" /\ c \notin live \cup {NoConn}

\* A statement or command on connection c, which ends t's call.
UseConn(t, c) ==
    /\ live' = (IF Revives(c) THEN live \cup {c} ELSE live)
    /\ mishap' = (mishap \/ Revives(c))
    /\ End(t, IF Serves(c) THEN "ok" ELSE "broken")
    /\ UNCHANGED <<store, tabled>>

\* _check_open(); the thread then uses self._connection.
UseTest(t) ==
    /\ At(t, "start", {"use"}) /\ ~Task(t)
    /\ IF closed THEN End(t, "closed") ELSE GoTo(t, "use")
    /\ UNCHANGED <<store, database, mishap>>

Use(t) ==
    /\ pc[t] = "use" /\ ~Task(t)
    /\ UseConn(t, conn)

\* return self._aconn, out of the lock
Given(t) ==
    /\ alock' = Nobody
    /\ got' = [got EXCEPT ![t] = aconn']
    /\ GoTo(t, "use")

\* What a task does with _aconn_lock in hand, up to its first await.
SQLiteInside(t) ==
    /\ UNCHANGED <<aconn, database>>
    /\ CASE aconn = NoConn -> GoTo(t, "aconnect") /\ alock' = t /\ UNCHANGED got
         [] aconn # NoConn /\ ~aready -> GoTo(t, "acreate") /\ alock' = t /\ UNCHANGED got
         [] OTHER -> Given(t)

PostgresInside(t) ==
    /\ UNCHANGED <<aconn, database>>
    /\ IF aconn = NoConn THEN GoTo(t, "aconnect") /\ alock' = t /\ UNCHANGED got ELSE Given(t)

\* from_url() does not connect, and so does not wait.
RedisInside(t) ==
    /\ \/ aconn # NoConn /\ UNCHANGED <<aconn, database>>
       \/ /\ aconn = NoConn
          /\ \E c \in 1..MaxConns : Connected(c) /\ aconn' = c
    /\ Given(t)

Inside(t) ==
    /\ CASE Sqlite -> SQLiteInside(t)
         [] site.backend = "postgres" -> PostgresInside(t)
         [] site.backend = "redis"    -> RedisInside(t)
    /\ UNCHANGED <<closed, conn, aready, mishap>>

\* Mutant of Ensure: no lock around the lazy connection.
EnsureUnlocked(t) ==
    /\ At(t, "start", {"use"}) /\ Task(t)
    /\ ~closed /\ Inside(t)

\* _ensure_aconn: a free asyncio.Lock is taken without a switch.
Ensure(t) ==
    /\ At(t, "start", {"use"}) /\ Task(t)
    /\ \/ closed /\ End(t, "closed") /\ UNCHANGED <<store, database, mishap, got>>
       \/ ~closed /\ alock = Nobody /\ Inside(t)
       \/ ~closed /\ alock # Nobody /\ GoTo(t, "alock") /\ UNCHANGED <<store, database, mishap, got>>

Enter(t) == pc[t] = "alock" /\ alock = Nobody /\ Inside(t)

\* self._aconn = await connect(...), one step for the same reason.
AConnect(t) ==
    /\ pc[t] = "aconnect"
    /\ \E c \in 1..MaxConns : Connected(c) /\ aconn' = c
    /\ IF Sqlite /\ aready THEN Given(t)
       ELSE GoTo(t, "acreate") /\ UNCHANGED <<alock, got>>
    /\ UNCHANGED <<closed, conn, aready, mishap>>

\* await self._aconn.execute(create table)
ACreate(t) ==
    /\ pc[t] = "acreate" /\ Create(aconn)
    /\ aready' = (aready \/ Sqlite)
    /\ UNCHANGED aconn
    /\ Given(t)
    /\ UNCHANGED <<closed, conn, live, mishap>>

\* Mutant of EnsureFails: the error leaves the lock behind.
EnsureFailsLocked(t) ==
    /\ pc[t] \in {"aconnect", "acreate"}
    /\ mishap' = (mishap \/ pc[t] = "acreate")
    /\ End(t, "failed")
    /\ UNCHANGED <<store, database, got>>

EnsureFails(t) ==
    /\ pc[t] \in {"aconnect", "acreate"}
    /\ mishap' = (mishap \/ pc[t] = "acreate")
    /\ alock' = Nobody
    /\ End(t, "failed")
    /\ UNCHANGED <<closed, conn, aconn, aready, database, got>>

AUse(t) ==
    /\ pc[t] = "use" /\ Task(t)
    /\ UseConn(t, got[t])
    /\ got' = [got EXCEPT ![t] = NoConn]

-----------------------------------------------------------------------------
SyncStep(t) ==
    /\ \/ OpenTest(t) \/ OpenConnect(t) \/ ConnectFails(t)
       \/ OpenCreate(t) \/ SQLiteCreateFails(t) \/ CreateFails(t)
       \/ SQLiteOpened(t) \/ Opened(t) \/ DuckOpened(t)
       \/ CloseAsync(t) \/ CloseTest(t) \/ CloseConn(t) \/ CloseFlag(t)
       \/ CloseInLoop(t) \/ ACloseConn(t) \/ ACloseRest(t)
       \/ UseTest(t) \/ Use(t)
    /\ UNCHANGED got

AsyncStep(t) ==
    Ensure(t) \/ Enter(t) \/ AConnect(t) \/ ACreate(t) \/ EnsureFails(t) \/ AUse(t)

Step(t) == (SyncStep(t) \/ AsyncStep(t)) /\ UNCHANGED <<site, raced>>

Next == \E t \in Users : Begin(t) \/ Step(t)

Spec == Init /\ [][Next]_vars

\* A call that can go on does, and connecting ends in one way or the other.
FairSpec == Spec /\ \A t \in Users : WF_vars(Step(t))

-----------------------------------------------------------------------------
Phases == {"idle", "start", "connect", "create", "flag", "close", "closing", "closed",
           "aclosing", "alock", "aconnect", "acreate", "use"}

TypeOK ==
    /\ site \in Sites
    /\ closed \in BOOLEAN /\ aready \in BOOLEAN
    /\ {conn, aconn} \subseteq 0..MaxConns
    /\ live \subseteq 1..MaxConns /\ tabled \subseteq 1..MaxConns
    /\ alock \in Users \cup {Nobody}
    /\ pc \in [Users -> Phases]
    /\ op \in [Users -> {"none", "open", "use", "close", "aclose"}]
    /\ \A t \in Users : answer[t] = "none" <=> Busy(t)
    /\ got \in [Users -> 0..MaxConns]
    /\ met \in [Users -> SUBSET {"open", "use", "close"}]

\* A PostgreSQL store whose CREATE TABLE failed has lost track of the
\* connection, and so has a Redis store of a client that a call used again
\* after a close met it.
Strayed == raced \/ (site.backend \in {"postgres", "redis"} /\ mishap)

\* However the first async calls of several tasks race with each other, with
\* errors, and with one closing task, every open connection is one the store
\* still knows and can close.  Two overlapping opens, or closes, can leave one
\* behind, and so can what Strayed names.
NothingOrphaned == ~Strayed => live \subseteq {conn, aconn}

\* A close() or aclose() that nothing overlaps leaves no connection open, also
\* in a store that an earlier close has left half open because a task was
\* connecting.
CloseReleases ==
    [][\A t \in Users :
        /\ ~Strayed
        /\ Busy(t) /\ Kind(op[t]) = "close" /\ met[t] = {}
        /\ answer'[t] = "ok"
        => live' = {} /\ closed']_vars

\* A call on an open store finds an open connection and the table, unless the
\* store is closed under it, or DuckDB has not created the table yet.  The
\* store may have been closed and opened again before.  On PostgreSQL, too: the
\* user guide says that such a store is not reopened (store.md:253), but open()
\* connects whenever the store is closed (postgres.py:131).
UsesFindTheTable ==
    [][\A t \in Users :
        Busy(t) /\ answer'[t] = "broken" =>
            \/ "close" \in met[t] \/ raced
            \/ site.backend = "duckdb" /\ ("open" \in met[t] \/ mishap)]_vars

\* _aconn_lock gets free again, whatever the attempt to connect ends with: the
\* other tasks are not kept out for ever.
LockFreed == alock # Nobody ~> alock = Nobody
=============================================================================
