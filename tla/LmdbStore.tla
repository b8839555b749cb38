------------------------------- MODULE LmdbStore -------------------------------
(***************************************************************************)
(* persista.store.BaseLmdbStore (LmdbStore, PickleLmdbStore).  A method is *)
(* one LMDB transaction.  LMDB is external: a read transaction sees one    *)
(* snapshot, write transactions wait for each other, and what a write      *)
(* transaction does is on disk when it commits or not at all.              *)
(* LocalStore's lock stands for LMDB's writer mutex: the store has no lock *)
(* of its own.                                                             *)
(***************************************************************************)
EXTENDS LocalStore

Read(t) ==
    /\ Starts(t, {"get", "get_many", "contains_many", "count"})
    /\ End(t, KV!Returns(KV!Seen(call[t], data)))
    /\ UNCHANGED <<data, lock, scan>>

\* iter_batches, and filter through values(): the keys are read at once.
StartScan(t) ==
    /\ Starts(t, {"filter", "iter_batches"})
    /\ Visit(t, "list", Present(data))
    /\ Scanned(t, data)
    /\ UNCHANGED <<data, lock, found, got, want>>

\* The values of a batch of keys, in a transaction of their own; keys deleted
\* since are left out.
Batch(t) ==
    LET batch == Slice(todo[t], 0)
        there == batch \cap Present(data)
    IN
    /\ pc[t] = "list" /\ todo[t] # {}
    /\ todo' = [todo EXCEPT ![t] = @ \ batch]
    /\ got' = [got EXCEPT ![t] =
            [k \in DOMAIN @ \cup there |-> IF k \in there THEN data[k] ELSE @[k]]]
    /\ Yields(t, there)
    /\ UNCHANGED <<data, lock, task, found, want>>

Listed(t) ==
    LET values == {k \in DOMAIN got[t] : Matches(got[t][k], call[t].filters)} IN
    /\ pc[t] = "list" /\ todo[t] = {}
    /\ End(t, IF call[t].op = "filter" THEN KV!Returns([k \in values |-> got[t][k]])
              ELSE KV!Ok)
    /\ UNCHANGED <<data, lock, scan>>

\* Mutant of EnterWrite: the conflicts are looked up in a read transaction.
EnterWriteUnlocked(t) ==
    /\ Starts(t, KV!WriteOps)
    /\ found' = [found EXCEPT ![t] = Conflicts(call[t].items, Present(data))]
    /\ GoTo(t, "txn")
    /\ UNCHANGED <<data, lock, got, todo, want, scan>>

\* begin(write=True), and the conflicts of a batch
EnterWrite(t) ==
    /\ Starts(t, KV!WriteOps) /\ lock = NoThread
    /\ lock' = t
    /\ found' = [found EXCEPT ![t] = Conflicts(call[t].items, Present(data))]
    /\ GoTo(t, "txn")
    /\ UNCHANGED <<data, got, todo, want, scan>>

\* What the transaction puts and deletes.
Puts(t) ==
    LET r == call[t] IN
    IF Conditional(r) THEN ToWrite(r.items, r.on_conflict, found[t], data)
    ELSE KV!Effect(r, data)

\* An exception aborts the transaction.
Abort(t) ==
    LET r == call[t] IN
    /\ pc[t] = "txn"
    /\ \/ Refuses(r.items, r.on_conflict, found[t]) /\ Leave(t, KV!KeyError)
       \/ /\ ~Refuses(r.items, r.on_conflict, found[t]) /\ Spoiled(Puts(t))
          /\ Leave(t, Failed)
    /\ UNCHANGED <<data, scan>>

Commit(t) ==
    LET r == call[t] IN
    /\ pc[t] = "txn"
    /\ ~Refuses(r.items, r.on_conflict, found[t]) /\ ~Spoiled(Puts(t))
    /\ Apply(Puts(t))
    /\ Leave(t, KV!Ok)

Step(t) ==
    /\ \/ NothingToDo(t) \/ Read(t) \/ StartScan(t) \/ Batch(t) \/ Listed(t)
       \/ EnterWrite(t) \/ Abort(t) \/ Commit(t)
    /\ UNCHANGED <<site, crashes>>

Next == Crash \/ \E t \in Threads : Begin(t) \/ Step(t)
=============================================================================
