------------------------------ MODULE SQLiteStore ------------------------------
(***************************************************************************)
(* persista.store.BaseSQLiteStore (SQLiteStore, TypedSQLiteStore,          *)
(* PickleSQLiteStore) on a database file, with aiosqlite installed.  A     *)
(* store has two connections: the sync methods use one, under a re-entrant *)
(* lock; the async methods share the other, whose thread runs one          *)
(* statement at a time, but they await between a statement and its commit. *)
(*                                                                         *)
(* A caller is an OS thread, a task, or a sync call made by a task, which  *)
(* keeps the event loop from running until it returns (via "loop").        *)
(*                                                                         *)
(* SQLite and the sqlite3 module are external: a rollback journal, one     *)
(* writer, a commit that waits until nobody else reads, a wait of at most  *)
(* "timeout" seconds for either, and an implicit BEGIN before a write that *)
(* only a commit ends, whatever becomes of the write.                      *)
(***************************************************************************)
EXTENDS LocalStore

VARIABLES work,   \* work[c]: the rows written and not committed on c
          txn,    \* txn[c]: the transaction of c, and the lock it has
          awrite, \* the task in _awrite_lock
          failed  \* failed[c]: has a write failed on c since its last commit?

connections == <<work, txn, awrite, failed>>
vars        == <<local, connections>>

Conns == {"sync", "async"}

Conn(t) == IF site.via[t] = "task" THEN "async" ELSE "sync"
Other(c) == IF c = "sync" THEN "async" ELSE "sync"

\* BEGIN alone takes no lock; a read in it keeps a shared one; a write the
\* reserved one; a commit that had to wait, the pending one.
TxnStates == {"none", "open", "read", "write", "pending"}

SQLiteInit ==
    /\ Init
    /\ work = [c \in Conns |-> Nothing]
    /\ txn = [c \in Conns |-> "none"]
    /\ awrite = NoThread
    /\ failed = [c \in Conns |-> FALSE]

-----------------------------------------------------------------------------
\* The rows connection c sees.
View(c) == Stored(data, work[c])

\* A SELECT of connection c that has rows left to fetch.
LiveCursor(c) == \E t \in Threads : Conn(t) = c /\ pc[t] \in {"fetch", "cursor"}

\* c already has a shared lock, or more.
Shares(c) == txn[c] \in {"read", "write", "pending"} \/ LiveCursor(c)

\* A pending lock keeps new readers out, not those that are in.
CanRead(c)  == txn[Other(c)] # "pending" \/ Shares(c)
CanWrite(c) == txn[Other(c)] \notin {"write", "pending"}
CanCommit(c) ==
    txn[c] \in {"write", "pending"} =>
        txn[Other(c)] # "read" /\ ~LiveCursor(Other(c))

\* A sync call made by a task holds the event loop.
LoopBusy == \E t \in Threads : site.via[t] = "loop" /\ pc[t] \notin {"idle", "page"}

\* t can go on after an await.
Runs(t) == site.via[t] = "task" => ~LoopBusy

SQLiteBegin(t) ==
    /\ site.via[t] # "thread" => ~LoopBusy
    /\ Begin(t)
    /\ UNCHANGED connections

\* The call ends and leaves the locks.
Return(t, a) ==
    /\ Leave(t, a)
    /\ awrite' = IF awrite = t THEN NoThread ELSE awrite

Raise(t, a) ==
    /\ Return(t, a)
    /\ failed' = [failed EXCEPT ![Conn(t)] = TRUE]

Reading(c) == txn' = [txn EXCEPT ![c] = IF @ = "open" THEN "read" ELSE @]

-----------------------------------------------------------------------------
Phase(r) ==
    CASE r.op \in KV!ReadOps \ {"iter_batches"} -> "select"
      [] r.op = "iter_batches" -> "page"
      [] Conditional(r) -> "check"
      [] OTHER -> "insert"

\* A sync call takes the lock; a task only for a conditional batch.
Enter(t) ==
    LET r == call[t] IN
    /\ Starts(t, KV!ReadOps \cup KV!WriteOps) /\ Runs(t) /\ r.op # "iter_batches"
    /\ Conn(t) = "sync" => lock = NoThread
    /\ Conn(t) = "async" /\ Conditional(r) => awrite = NoThread
    /\ lock' = IF Conn(t) = "sync" THEN t ELSE lock
    /\ awrite' = IF Conn(t) = "async" /\ Conditional(r) THEN t ELSE awrite
    /\ GoTo(t, Phase(r))
    /\ UNCHANGED <<data, reads, scan, work, txn, failed>>

\* The rows a SELECT of the call r finds.
Rows(r, d) ==
    {k \in Present(d) : (r.keys # {} => k \in r.keys) /\ Matches(d[k], r.filters)}

\* The rows a SELECT of the call r on the rows d may have stepped to when
\* execute() returns: any one of those it finds or, for a count, all of them.
First(r, d) == IF r.op = "count" THEN {Present(d)} ELSE {{k} : k \in Rows(r, d)}

\* A sync SELECT is fetched at once; a task awaits fetchone or fetchall.
Select(t) ==
    LET r == call[t]
        c == Conn(t)
        first == First(r, View(c))
    IN
    /\ pc[t] = "select" /\ CanRead(c)
    /\ \/ /\ c = "sync" \/ first = {}
          /\ Return(t, KV!Returns(KV!Seen(r, View(c))))
       \/ /\ c = "async"
          /\ \E K \in first : got' = [got EXCEPT ![t] = [k \in K |-> View(c)[k]]]
          /\ GoTo(t, "fetch")
          /\ UNCHANGED <<lock, awrite, found, todo, want>>
    /\ Reading(c)
    /\ UNCHANGED <<data, scan, work, failed>>

\* The rows that were not read yet are read as they are by now; a count is
\* what it was.
Fetch(t) ==
    LET rest == IF call[t].op = "count" THEN EmptyStore ELSE View("async") IN
    /\ pc[t] = "fetch" /\ Runs(t)
    /\ Return(t, KV!Returns(KV!Seen(call[t], Stored(rest, got[t]))))
    /\ UNCHANGED <<data, scan, work, txn, failed>>

-----------------------------------------------------------------------------
\* iter_batches: a generator of pages, one SELECT each.
StartPages(t) ==
    /\ Starts(t, {"iter_batches"}) /\ Conn(t) = "sync"
    /\ GoTo(t, "page")
    /\ Scanned(t, View("sync"))
    /\ UNCHANGED <<data, lock, reads, connections>>

NextPage(t) ==
    /\ pc[t] = "page" /\ lock = NoThread /\ CanRead("sync")
    /\ Page(t, View("sync"))
    /\ Reading("sync")
    /\ UNCHANGED <<data, lock, work, awrite, failed>>

\* aiter_batches: one SELECT, whose cursor stays open between the batches.
OpenCursor(t) ==
    LET rows == Present(View("async")) IN
    /\ Starts(t, {"iter_batches"}) /\ Conn(t) = "async" /\ Runs(t) /\ CanRead("async")
    /\ IF rows = {} THEN End(t, KV!Ok)
       ELSE Visit(t, "cursor", rows) /\ UNCHANGED <<found, got, want>>
    /\ Scanned(t, View("async"))
    /\ Reading("async")
    /\ UNCHANGED <<data, lock, work, awrite, failed>>

\* The cursor passes over rows that are gone, and is closed with the last one.
NextRow(t) ==
    LET rows == todo[t] \cap Present(View("async")) IN
    /\ pc[t] = "cursor" /\ Runs(t)
    /\ \/ rows = {} /\ End(t, KV!Ok) /\ UNCHANGED scan
       \/ \E k \in rows :
            /\ Yields(t, {k})
            /\ IF rows = {k} THEN End(t, KV!Ok)
               ELSE Visited(t, k) /\ UNCHANGED <<task, found, got, want>>
    /\ UNCHANGED <<data, lock, connections>>

\* What the scans see of the writes w, which become visible on c.
Noticed(c, w) ==
    scan' = [t \in Threads |->
        IF pc[t] \in ScanPhases /\ Conn(t) = c THEN Noted(scan[t], View(c), w) ELSE scan[t]]

-----------------------------------------------------------------------------
\* resolve_conflicts: contains_many.  The reads of a batch run to their end in
\* one step each.
Check(t) ==
    LET r   == call[t]
        hit == Conflicts(r.items, Present(View(Conn(t))))
    IN
    /\ pc[t] = "check" /\ Runs(t) /\ CanRead(Conn(t))
    /\ IF Refuses(r.items, r.on_conflict, hit)
       THEN Return(t, KV!KeyError)
       ELSE /\ found' = [found EXCEPT ![t] = hit]
            /\ GoTo(t, IF r.on_conflict = "merge" /\ hit # {} THEN "get" ELSE "insert")
            /\ UNCHANGED <<lock, awrite, got, todo, want>>
    /\ Reading(Conn(t))
    /\ UNCHANGED <<data, scan, work, failed>>

\* resolve_conflicts: get, key by key.
Get(t) ==
    /\ pc[t] = "get" /\ Runs(t) /\ CanRead(Conn(t))
    /\ \E k \in found[t] \ DOMAIN got[t] :
        /\ got' = [got EXCEPT ![t] =
            [i \in DOMAIN @ \cup {k} |-> IF i = k THEN View(Conn(t))[k] ELSE @[i]]]
        /\ GoTo(t, IF found[t] = DOMAIN got[t] \cup {k} THEN "insert" ELSE "get")
    /\ Reading(Conn(t))
    /\ UNCHANGED <<data, lock, found, todo, want, scan, work, awrite, failed>>

\* The rows the call writes.
Writing(t) == IF call[t].op = "set_many" THEN Planned(t) ELSE KV!Effect(call[t], data)

Written(c, w) ==
    /\ work' = [work EXCEPT ![c] =
            [k \in DOMAIN @ \cup DOMAIN w |-> IF k \in DOMAIN w THEN w[k] ELSE @[k]]]
    /\ txn' = [txn EXCEPT ![c] = IF @ = "pending" THEN @ ELSE "write"]
    /\ Noticed(c, w)

\* A row written anew lies ahead of every open cursor of its connection.
Ahead(c, w) ==
    todo' = [t \in Threads |->
        IF pc[t] = "cursor" /\ Conn(t) = c
        THEN todo[t] \cup {k \in DOMAIN w : w[k] # Absent} ELSE todo[t]]

\* A "skip" batch whose keys are all there.
Skip(t) ==
    /\ pc[t] = "insert" /\ DOMAIN Writing(t) = {}
    /\ Return(t, KV!Ok)
    /\ UNCHANGED <<data, scan, work, txn, failed>>

\* The statements of the write, all but the commit.
Insert(t) ==
    LET c == Conn(t) IN
    /\ pc[t] = "insert" /\ CanWrite(c) /\ ~Spoiled(Writing(t)) /\ DOMAIN Writing(t) # {}
    /\ Written(c, Writing(t))
    /\ Ahead(c, Writing(t))
    /\ GoTo(t, IF c = "sync" THEN "commit" ELSE "written")
    /\ UNCHANGED <<data, lock, found, got, want, awrite, failed>>

\* json.dumps or pickle.dumps fails before anything is written.
RefuseBatch(t) ==
    /\ pc[t] = "insert" /\ Spoiled(Writing(t))
    /\ Return(t, Failed)
    /\ UNCHANGED <<data, scan, work, txn, failed>>

\* TypedSQLiteStore: executemany stops at the row whose column value SQLite
\* cannot bind; there is no rollback.
RefuseRow(t) ==
    LET c == Conn(t)
        good == {k \in DOMAIN Writing(t) : Writing(t)[k] \notin Unstorable}
    IN
    /\ pc[t] = "insert" /\ Spoiled(Writing(t))
    /\ \E K \in SUBSET good :
        \/ /\ K # {} /\ CanWrite(c)
           /\ Written(c, [k \in K |-> Writing(t)[k]])
        \/ /\ K = {}
           /\ txn' = [txn EXCEPT ![c] = IF @ = "none" THEN "open" ELSE @]
           /\ UNCHANGED <<work, scan>>
    /\ Raise(t, Failed)
    /\ UNCHANGED data

\* A task goes on with its commit when the loop gets to it.
Resume(t) ==
    /\ pc[t] = "written" /\ Runs(t)
    /\ GoTo(t, "commit")
    /\ UNCHANGED <<data, lock, reads, scan, connections>>

\* Mutant of Commit: the transaction is never committed.
CommitForgotten(t) ==
    /\ pc[t] = "commit"
    /\ Return(t, KV!Ok)
    /\ UNCHANGED <<data, scan, work, txn, failed>>

\* A commit takes along whatever was written on the connection.
Commit(t) ==
    LET c == Conn(t) IN
    /\ pc[t] = "commit" /\ CanCommit(c)
    /\ data' = View(c)
    /\ Noticed(Other(c), work[c])
    /\ work' = [work EXCEPT ![c] = Nothing]
    /\ txn' = [txn EXCEPT ![c] = "none"]
    /\ failed' = [failed EXCEPT ![c] = FALSE]
    /\ Return(t, KV!Ok)

\* It waits for the readers, and lets no new ones in.
WaitForReaders(t) ==
    LET c == Conn(t) IN
    /\ pc[t] = "commit" /\ ~CanCommit(c) /\ txn[c] = "write"
    /\ txn' = [txn EXCEPT ![c] = "pending"]
    /\ UNCHANGED <<data, lock, task, reads, scan, work, awrite, failed>>

\* Mutant of WriteTimesOut: SQLite waits for as long as it takes.
WaitForever(t) == FALSE /\ UNCHANGED vars

\* "database is locked", after the busy timeout.
ReadTimesOut(t) ==
    /\ \/ pc[t] \in {"select", "check", "get", "page"}
       \/ Starts(t, {"iter_batches"}) /\ Conn(t) = "async" /\ Runs(t)
    /\ ~CanRead(Conn(t))
    /\ Return(t, Failed)
    /\ UNCHANGED <<data, scan, work, txn, failed>>

\* The implicit BEGIN, or the rows written so far, stay.
WriteTimesOut(t) ==
    LET c == Conn(t) IN
    /\ \/ pc[t] = "commit" /\ ~CanCommit(c) /\ txn[c] = "pending" /\ UNCHANGED txn
       \/ /\ pc[t] = "insert" /\ ~CanWrite(c) /\ DOMAIN Writing(t) # {}
          /\ txn' = [txn EXCEPT ![c] = IF @ = "none" THEN "open" ELSE @]
    /\ Raise(t, Failed)
    /\ UNCHANGED <<data, scan, work>>

-----------------------------------------------------------------------------
SQLiteNothingToDo(t) == NothingToDo(t) /\ UNCHANGED connections

Step(t) ==
    /\ \/ SQLiteNothingToDo(t) \/ Enter(t) \/ Select(t) \/ Fetch(t)
       \/ StartPages(t) \/ NextPage(t) \/ OpenCursor(t) \/ NextRow(t)
       \/ Check(t) \/ Get(t) \/ Skip(t) \/ Insert(t) \/ RefuseBatch(t) \/ RefuseRow(t)
       \/ Resume(t) \/ Commit(t) \/ WaitForReaders(t) \/ ReadTimesOut(t) \/ WriteTimesOut(t)
    /\ UNCHANGED <<site, crashes>>

SQLiteCrash ==
    /\ Crash
    /\ work' = [c \in Conns |-> Nothing]
    /\ txn' = [c \in Conns |-> "none"]
    /\ awrite' = NoThread
    /\ failed' = [c \in Conns |-> FALSE]

Next == SQLiteCrash \/ \E t \in Threads : SQLiteBegin(t) \/ Step(t)

Spec == SQLiteInit /\ [][Next]_vars

-----------------------------------------------------------------------------
\* A connection is in a transaction only while a call is between its write and
\* its commit, or after a write has failed on it: otherwise both connections see
\* the same rows, and neither keeps the other waiting.
ConnectionsAgree ==
    \A c \in Conns :
        \/ failed[c]
        \/ \E t \in Threads : Conn(t) = c /\ pc[t] \in {"written", "commit"}
        \/ work[c] = Nothing /\ txn[c] = "none"

\* Sync and async calls on one store may be mixed freely (docs/uguide/store.md):
\* when no call runs, a write on one of the connections could be committed.
SomeConnectionCanWrite ==
    (\A t \in Threads : ~Busy(t)) =>
        \E c \in Conns : CanWrite(c) /\ txn[Other(c)] # "read"
=============================================================================
