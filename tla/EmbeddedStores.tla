---------------------------- MODULE EmbeddedStores ----------------------------
(***************************************************************************)
(* The backends that run in their caller's process, side by side: a        *)
(* deployment picks one of them, and the properties say what each of them  *)
(* promises to which callers.                                              *)
(***************************************************************************)
EXTENDS SQLiteStore

File == INSTANCE FileStore
Lmdb == INSTANCE LmdbStore
Duck == INSTANCE DuckDBStore

OtherStep(t) ==
    /\ \/ site.backend = "file" /\ File!Step(t)
       \/ site.backend = "lmdb" /\ Lmdb!Step(t)
       \/ site.backend = "duckdb" /\ Duck!Step(t)
    /\ UNCHANGED connections

StoreStep(t) ==
    \/ OtherStep(t)
    \/ site.backend = "sqlite" /\ Step(t)

StoreNext ==
    \/ site.backend # "sqlite" /\ Crash /\ UNCHANGED connections
    \/ site.backend = "sqlite" /\ SQLiteCrash
    \/ \E t \in Threads : SQLiteBegin(t) \/ StoreStep(t)

StoreSpec == SQLiteInit /\ [][StoreNext]_vars

\* A thread in the middle of a call goes on with it.  SQLite's waits end by
\* themselves; nothing is assumed about who gets a lock next.
FairStoreSpec == StoreSpec /\ \A t \in Threads : WF_vars(StoreStep(t))

-----------------------------------------------------------------------------
Calls == UNION {site.calls[t] : t \in Threads}

Writers == {r \in Calls : r.op \in KV!WriteOps}

TypeOK ==
    /\ site \in Deployments
    /\ data \in [Keys -> Slot \ Unstorable]
    /\ lock \in Threads \cup {NoThread} /\ awrite \in Threads \cup {NoThread}
    /\ DOMAIN pc = Threads
    /\ call \in [Threads -> KV!Request]
    /\ \A t \in Threads : answer[t] = KV!NoAnswer <=> Busy(t)
    /\ found \in [Threads -> SUBSET Keys] /\ todo \in [Threads -> SUBSET Keys]
    /\ got \in [Threads -> Writes]
    /\ want \in [Threads -> Keys \cup {NoKey}]
    /\ \A t \in Threads : scan[t].offset \in 0..(Cardinality(Keys) + BatchSize)
    /\ work \in [Conns -> Writes] /\ txn \in [Conns -> TxnStates]
    /\ failed \in [Conns -> BOOLEAN]
    /\ crashes \in 0..MaxCrashes

\* DuckDB has decided what a batch writes before it writes the first row, and
\* nobody sees the store until the last one.
Deciding(t) == site.backend = "duckdb" /\ pc[t] = "rows"

AbsData ==
    [k \in Keys |->
        IF \E t \in Threads : Deciding(t) /\ k \in todo[t]
        THEN Planned(CHOOSE t \in Threads : Deciding(t) /\ k \in todo[t])[k]
        ELSE data[k]]

AbsAnswer == [t \in Threads |-> IF Deciding(t) THEN KV!Ok ELSE answer[t]]

Promise == INSTANCE DurableStore
    WITH data <- AbsData, answer <- AbsAnswer, closed <- FALSE, Durable <- TRUE,
         Requests <- AllRequests

\* The deployments whose calls are all one transaction or one hold of the lock,
\* until a crash or a refused row cuts an executemany in two.
Transactional ==
    \/ site.backend = "lmdb" /\ \A r \in Calls : r.op \notin {"filter", "iter_batches"}
    \/ /\ site.backend \in {"duckdb", "sqlite"}
       /\ \A r \in Calls : r.op # "iter_batches" /\ ~Promise!Spoiled(r)
       /\ \A t \in Threads : Conn(t) = "sync"

\* Threads that share an LMDB store, a DuckDB store that does not crash, or a
\* SQLite store they only call synchronously, see a store in which every call
\* takes effect at once, whole batches included, and nothing answered is lost
\* in a crash.
Contract ==
    /\ Promise!Init
    /\ [][Transactional /\ (site.backend = "duckdb" => crashes' = 0)
            => Promise!DurableNext]_(Promise!vars)

-----------------------------------------------------------------------------
\* The callers among whom a batch decides and writes in one go: LMDB's and
\* DuckDB's always; those of a file store when every writer takes the lock;
\* those of a SQLite store on one connection, the sync one or, when every
\* writer takes _awrite_lock, the async one.
Serialized ==
    LET batchesOnly == \A r \in Writers : Conditional(r) IN
    CASE site.backend = "file" -> batchesOnly
      [] site.backend = "sqlite" ->
            \/ \A t \in Threads : Conn(t) = "sync"
            \/ batchesOnly /\ (\A t \in Threads : Conn(t) = "async")
      [] OTHER -> TRUE

\* What t decided about the keys it has still to write is so in d.
DecidedOn(t, d) ==
    \A k \in DOMAIN Planned(t) :
        (pc[t] \in {"save", "rows"} => k \in todo[t]) =>
            /\ k \in found[t] <=> d[k] # Absent
            /\ call[t].on_conflict = "merge" /\ k \in DOMAIN got[t] => got[t][k] = d[k]

\* A "raise", "skip" or "merge" batch writes what the strategy asks for on the
\* pairs as they are when it writes: nobody has written one of its keys since
\* it looked.
DecisionsHold ==
    Serialized =>
        \A t \in Threads :
            Conditional(call[t]) /\ pc[t] \in {"save", "txn", "rows", "insert"} =>
                DecidedOn(t, IF site.backend = "sqlite" THEN View(Conn(t)) ELSE data)

\* What an iter_batches that has ended owes its caller, whatever was written
\* meanwhile.  Where the keys are listed first, every key that was there all
\* the time comes once.  OFFSET pages skip such a key only if a smaller one was
\* deleted, and repeat a key only if a smaller one was added.  An open cursor
\* never skips one, and repeats what was written again.
ScansComplete ==
    \A t \in Threads :
        LET s == scan[t] IN
        call[t].op = "iter_batches" /\ answer[t] = KV!Ok =>
            \A k \in Keys :
                CASE site.backend \in {"file", "lmdb"} ->
                        s.yields[k] = IF k \in s.stable THEN 1 ELSE s.yields[k] % 2
                  [] site.backend \in {"duckdb", "sqlite"} /\ Conn(t) = "sync" ->
                        /\ s.yields[k] = 0 /\ k \in s.stable => \E i \in s.gone : i < k
                        /\ s.yields[k] = 2 => \E i \in s.added : i < k
                  [] OTHER ->
                        /\ s.yields[k] = 0 => k \notin s.stable
                        /\ s.yields[k] = 2 => k \in s.added \cup s.rewritten

\* The thread in the lock leaves it, whatever its call ends with, also when it
\* waits for a database that the other connection keeps locked.
LockReleased == \A t \in Threads : lock = t ~> lock # t
=============================================================================
