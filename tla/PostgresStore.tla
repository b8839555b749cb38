----------------------------- MODULE PostgresStore -----------------------------
(***************************************************************************)
(* persista.store.BasePostgresStore: several processes, each with its own  *)
(* store object and so its own connection (session), on one table.  The    *)
(* sync methods and their async twins send the same statements.            *)
(*                                                                         *)
(* A "raise", "skip" or "merge" batch opens a transaction, takes one       *)
(* advisory lock per key, in key order, reads, and upserts; an             *)
(* "overwrite" batch and a DELETE are a single statement, which takes no   *)
(* advisory lock.  The server is external and modelled from what the code  *)
(* asks of it: READ COMMITTED, row locks held until the transaction ends,  *)
(* and a deadlock detector that aborts one transaction of a cycle.         *)
(*                                                                         *)
(* Keys are integers, for their order only; distinct keys are taken to     *)
(* have distinct hashtextextended() values.  Stores are open throughout.   *)
(***************************************************************************)
EXTENDS StoreData, Integers

CONSTANTS Threads, Requests,
          NoThread,  \* the owner of a free advisory lock
          NoKey      \* what a statement that has no key left to take wants

VARIABLES data,      \* the committed rows
          advisory,  \* advisory[k]: the session that holds the lock of k
          work,      \* work[t]: the rows t's transaction has written; it holds
                     \* their row locks
          pc, call, answer,
          found,     \* found[t]: the keys t was told are in the table
          got,       \* got[t]: the values t has read of them
          todo,      \* todo[t]: the keys t's statement has still to take
          want       \* want[t]: the one it takes next

locks  == <<advisory, work>>
reads  == <<found, got>>
stmt   == <<todo, want>>
vars   == <<data, locks, pc, call, answer, reads, stmt>>

KV == INSTANCE KVStore WITH closed <- FALSE, Durable <- TRUE

Nothing == [k \in {} |-> Absent]
DeadlockDetected == [kind |-> "DeadlockDetected"]

Init ==
    /\ data = EmptyStore
    /\ advisory = [k \in Keys |-> NoThread]
    /\ work = [t \in Threads |-> Nothing]
    /\ pc = [t \in Threads |-> "idle"]
    /\ call = [t \in Threads |-> KV!NoCall]
    /\ answer = [t \in Threads |-> KV!Ok]
    /\ found = [t \in Threads |-> {}]
    /\ got = [t \in Threads |-> Nothing]
    /\ todo = [t \in Threads |-> {}]
    /\ want = [t \in Threads |-> NoKey]

-----------------------------------------------------------------------------
Busy(t) == pc[t] # "idle"

Begin(t) ==
    /\ ~Busy(t)
    /\ \E r \in Requests : call' = [call EXCEPT ![t] = r]
    /\ pc' = [pc EXCEPT ![t] = "start"]
    /\ answer' = [answer EXCEPT ![t] = KV!NoAnswer]
    /\ found' = [found EXCEPT ![t] = {}]
    /\ got' = [got EXCEPT ![t] = Nothing]
    /\ UNCHANGED <<data, locks, stmt>>

\* Mutant of End: the caller is left without an answer.
EndSilent(t, a) == pc' = [pc EXCEPT ![t] = "idle"] /\ UNCHANGED <<call, answer, reads>>

End(t, a) ==
    /\ pc' = [pc EXCEPT ![t] = "idle"]
    /\ answer' = [answer EXCEPT ![t] = a]
    /\ UNCHANGED <<call, reads>>

GoTo(t, phase) == pc' = [pc EXCEPT ![t] = phase] /\ UNCHANGED <<call, answer>>

Starts(t, ops) == pc[t] = "start" /\ call[t].op \in ops

\* Mutant of Release: pg_advisory_lock, which outlives the transaction.
ReleaseRows(t) ==
    /\ work' = [work EXCEPT ![t] = Nothing]
    /\ want' = [want EXCEPT ![t] = NoKey]
    /\ UNCHANGED advisory

\* The end of t's transaction: its locks are free.
Release(t) ==
    /\ advisory' = [k \in Keys |-> IF advisory[k] = t THEN NoThread ELSE advisory[k]]
    /\ work' = [work EXCEPT ![t] = Nothing]
    /\ want' = [want EXCEPT ![t] = NoKey]

Rollback(t, a) ==
    /\ Release(t)
    /\ todo' = [todo EXCEPT ![t] = {}]
    /\ End(t, a)
    /\ UNCHANGED data

\* A row deleted by t is no longer a target of the other sessions' DELETEs.
Commit(t, a) ==
    /\ Release(t)
    /\ data' = Stored(data, work[t])
    /\ todo' = [u \in Threads |->
        IF pc[u] = "delete"
        THEN {k \in todo[u] : k \in DOMAIN work[t] => work[t][k] # Absent}
        ELSE todo[u]]
    /\ End(t, a)

-----------------------------------------------------------------------------
\* Mutant of First: the locks are taken in the order of the dict too.
FirstUnsorted(phase, S) == IF S = {} THEN {NoKey} ELSE S

\* A statement takes its keys one at a time.  Advisory locks are taken in
\* sorted order, rows in the order of the dict or of the table.
First(phase, S) ==
    CASE S = {} -> {NoKey}
      [] S # {} /\ phase = "lock" -> {k \in S : \A i \in S : k <= i}
      [] OTHER -> S

Execute(t, phase, S) ==
    /\ GoTo(t, phase)
    /\ todo' = [todo EXCEPT ![t] = S]
    /\ \E k \in First(phase, S) : want' = [want EXCEPT ![t] = k]

Advance(t) ==
    LET rest == todo[t] \ {want[t]} IN
    /\ todo' = [todo EXCEPT ![t] = rest]
    /\ \E k \in First(pc[t], rest) : want' = [want EXCEPT ![t] = k]
    /\ UNCHANGED <<data, pc, call, answer, reads>>

\* The values t's set_many has decided to write.
Planned(t) ==
    LET r == call[t] IN
    IF r.on_conflict = "overwrite" THEN r.items
    ELSE ToWrite(r.items, r.on_conflict, found[t], got[t])

TakeLock(t) ==
    /\ pc[t] = "lock" /\ todo[t] # {}
    /\ advisory[want[t]] = NoThread
    /\ advisory' = [advisory EXCEPT ![want[t]] = t]
    /\ Advance(t)
    /\ UNCHANGED work

TakeRow(t) ==
    LET k == want[t] IN
    /\ pc[t] \in {"write", "delete"} /\ k \in todo[t]
    /\ \A u \in Threads \ {t} : k \notin DOMAIN work[u]
    /\ work' = [work EXCEPT ![t] =
        [i \in DOMAIN work[t] \cup {k} |->
            IF i # k THEN work[t][i]
            ELSE IF pc[t] = "write" THEN Planned(t)[k] ELSE Absent]]
    /\ Advance(t)
    /\ UNCHANGED advisory

SkipDeadRow(t) ==
    /\ pc[t] = "delete" /\ want[t] # NoKey /\ want[t] \notin todo[t]
    /\ Advance(t)
    /\ UNCHANGED locks

-----------------------------------------------------------------------------
\* One SELECT: a snapshot of the committed rows.
Read(t) ==
    /\ Starts(t, KV!ReadOps \ {"iter_batches"})
    /\ End(t, KV!Returns(KV!Seen(call[t], data)))
    /\ UNCHANGED <<data, locks, stmt>>

\* iter_batches: a server-side cursor in a transaction of its own; every batch
\* is of the snapshot the cursor was opened on, and no row is locked.
Iterate(t) ==
    /\ Starts(t, {"iter_batches"})
    /\ End(t, KV!Returns(KV!Seen(call[t], data)))
    /\ UNCHANGED <<data, locks, stmt>>

SetNothing(t) ==
    /\ Starts(t, {"set_many"}) /\ DOMAIN call[t].items = {}
    /\ End(t, KV!Ok)
    /\ UNCHANGED <<data, locks, stmt>>

\* executemany on an autocommit connection: one implicit transaction.
Overwrite(t) ==
    /\ Starts(t, {"set_many"}) /\ DOMAIN call[t].items # {}
    /\ call[t].on_conflict = "overwrite"
    /\ Execute(t, "write", DOMAIN call[t].items)
    /\ UNCHANGED <<data, locks, reads>>

\* DELETE of the rows it finds when it starts.
Delete(t) ==
    LET targets == IF call[t].op = "clear" THEN Keys ELSE call[t].keys IN
    /\ Starts(t, {"delete", "delete_many", "clear"})
    /\ Execute(t, "delete", targets \cap Present(data))
    /\ UNCHANGED <<data, locks, reads>>

\* BEGIN; SELECT pg_advisory_xact_lock(...) ... ORDER BY k
Enter(t) ==
    /\ Starts(t, {"set_many"}) /\ DOMAIN call[t].items # {}
    /\ call[t].on_conflict # "overwrite"
    /\ Execute(t, "lock", DOMAIN call[t].items)
    /\ UNCHANGED <<data, locks, reads>>

Locked(t) ==
    /\ pc[t] = "lock" /\ todo[t] = {}
    /\ GoTo(t, "check")
    /\ UNCHANGED <<data, locks, reads, stmt>>

\* resolve_conflicts: contains_many.  KeyError rolls the transaction back.
Check(t) ==
    LET r == call[t]
        present == Present(data)
    IN
    /\ pc[t] = "check"
    /\ \/ /\ Refuses(r.items, r.on_conflict, present)
          /\ Rollback(t, KV!KeyError)
       \/ /\ ~Refuses(r.items, r.on_conflict, present)
          /\ found' = [found EXCEPT ![t] = Conflicts(r.items, present)]
          /\ IF r.on_conflict = "merge"
             THEN GoTo(t, "read") /\ UNCHANGED stmt
             ELSE Execute(t, "write", DOMAIN ToWrite(r.items, r.on_conflict, present, data))
          /\ UNCHANGED <<data, locks, got>>

\* resolve_conflicts: get, one SELECT per conflicting key.
ReadNext(t) ==
    /\ pc[t] = "read"
    /\ \E k \in found[t] \ DOMAIN got[t] :
        got' = [got EXCEPT ![t] =
            [i \in DOMAIN got[t] \cup {k} |-> IF i = k THEN data[k] ELSE got[t][i]]]
    /\ UNCHANGED <<data, locks, pc, call, answer, found, stmt>>

ReadDone(t) ==
    /\ pc[t] = "read" /\ DOMAIN got[t] = found[t]
    /\ Execute(t, "write", DOMAIN Planned(t))
    /\ UNCHANGED <<data, locks, reads>>

\* The statement, and with it the transaction, is done.
Finish(t) ==
    /\ pc[t] \in {"write", "delete"} /\ want[t] = NoKey
    /\ Commit(t, KV!Ok)

-----------------------------------------------------------------------------
\* t waits for a lock u holds.
WaitsFor(t, u) ==
    /\ t # u /\ want[t] \in todo[t]
    /\ \/ pc[t] = "lock" /\ advisory[want[t]] = u
       \/ pc[t] \in {"write", "delete"} /\ want[t] \in DOMAIN work[u]

\* The sessions of C wait for each other in a ring.
Cycle(C) ==
    /\ C # {}
    /\ \A t \in C : (\E u \in C : WaitsFor(t, u)) /\ (\E u \in C : WaitsFor(u, t))

\* The server's deadlock detector.
Abort(t) ==
    /\ \E C \in SUBSET Threads : t \in C /\ Cycle(C)
    /\ Rollback(t, DeadlockDetected)

Step(t) ==
    \/ Read(t) \/ Iterate(t) \/ SetNothing(t) \/ Overwrite(t) \/ Delete(t)
    \/ Enter(t) \/ TakeLock(t) \/ Locked(t)
    \/ Check(t) \/ ReadNext(t) \/ ReadDone(t)
    \/ TakeRow(t) \/ SkipDeadRow(t) \/ Finish(t)
    \/ Abort(t)

Next == \E t \in Threads : Begin(t) \/ Step(t)

Spec == Init /\ [][Next]_vars

-----------------------------------------------------------------------------
\* The batches that take advisory locks.
Guarded(r) == r.op = "set_many" /\ r.on_conflict # "overwrite"

Conditional(t) == Guarded(call[t])

TypeOK ==
    /\ data \in Contents
    /\ advisory \in [Keys -> Threads \cup {NoThread}]
    /\ work \in [Threads -> Writes]
    /\ pc \in [Threads -> {"idle", "start", "lock", "check", "read", "write", "delete"}]
    /\ call \in [Threads -> KV!Request]
    /\ found \in [Threads -> SUBSET Keys]
    /\ got \in [Threads -> Writes]
    /\ todo \in [Threads -> SUBSET Keys]
    /\ want \in [Threads -> Keys \cup {NoKey}]
    /\ DOMAIN answer = Threads
    /\ \A t \in Threads : answer[t] = KV!NoAnswer <=> Busy(t)

\* Batches that take advisory locks do not deadlock with each other, whatever
\* the order of their dicts: only the row locks of a writer that takes no
\* advisory lock can close a ring.
DeadlocksNeedUnlockedWriter ==
    \A C \in SUBSET Threads : Cycle(C) => \E t \in C : ~Conditional(t)

\* What a "raise", "skip" or "merge" batch is about to write was decided on the
\* rows as they are now: no other set or set_many has written a key of it
\* since.
DecidedRowsAreCurrent ==
    \A t \in Threads :
        pc[t] = "write" /\ Conditional(t) =>
            Planned(t) = ToWrite(call[t].items, call[t].on_conflict, Present(data), data)
=============================================================================
