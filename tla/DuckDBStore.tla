------------------------------ MODULE DuckDBStore ------------------------------
(***************************************************************************)
(* persista.store.BaseDuckDBStore (DuckDBStore, TypedDuckDBStore).  Every  *)
(* statement on the one connection is made under the store's re-entrant    *)
(* lock, a conditional batch holding it from the check to the write.       *)
(*                                                                         *)
(* DuckDB is external: the connection commits by itself, so a statement is *)
(* on disk when it ends, and executemany is one statement per row.         *)
(***************************************************************************)
EXTENDS LocalStore

\* One SELECT; the fetch is under the lock too.
Read(t) ==
    /\ Starts(t, {"get", "get_many", "contains_many", "count", "filter"})
    /\ lock = NoThread
    /\ End(t, KV!Returns(KV!Seen(call[t], data)))
    /\ UNCHANGED <<data, lock, scan>>

StartScan(t) ==
    /\ Starts(t, {"iter_batches"})
    /\ GoTo(t, "page")
    /\ Scanned(t, data)
    /\ UNCHANGED <<data, lock, reads>>

NextPage(t) ==
    /\ pc[t] = "page" /\ lock = NoThread
    /\ Page(t, data)
    /\ UNCHANGED <<data, lock>>

\* One DELETE.
Delete(t) ==
    /\ Starts(t, {"delete", "delete_many", "clear"}) /\ lock = NoThread
    /\ Apply(KV!Effect(call[t], data))
    /\ End(t, KV!Ok)
    /\ UNCHANGED lock

Overwrite(t) ==
    /\ Starts(t, {"set_many"}) /\ ~Conditional(call[t])
    /\ lock = NoThread
    /\ lock' = t
    /\ Visit(t, "rows", DOMAIN call[t].items)
    /\ UNCHANGED <<data, found, got, want, scan>>

EnterBatch(t) ==
    /\ Starts(t, {"set_many"}) /\ Conditional(call[t])
    /\ lock = NoThread
    /\ lock' = t
    /\ GoTo(t, "check")
    /\ UNCHANGED <<data, reads, scan>>

\* resolve_conflicts: contains_many and the gets, all under the lock.
Resolve(t) ==
    LET r   == call[t]
        hit == Conflicts(r.items, Present(data))
    IN
    /\ pc[t] = "check"
    /\ IF Refuses(r.items, r.on_conflict, hit)
       THEN Leave(t, KV!KeyError)
       ELSE /\ found' = [found EXCEPT ![t] = hit]
            /\ got' = [got EXCEPT ![t] = [k \in hit |-> data[k]]]
            /\ Visit(t, "rows", DOMAIN ToWrite(r.items, r.on_conflict, hit, data))
            /\ UNCHANGED <<lock, want>>
    /\ UNCHANGED <<data, scan>>

\* DuckDBStore serializes the whole batch before it writes a row of it.
RefuseBatch(t) ==
    /\ pc[t] = "rows" /\ todo[t] = DOMAIN Planned(t) /\ Spoiled(Planned(t))
    /\ Leave(t, Failed)
    /\ UNCHANGED <<data, scan>>

\* The next row of executemany.  A column of TypedDuckDBStore may refuse its
\* value; the rows before it stay.
WriteRow(t) ==
    /\ pc[t] = "rows"
    /\ \E k \in todo[t] :
        IF Planned(t)[k] \in Unstorable
        THEN Leave(t, Failed) /\ UNCHANGED <<data, scan>>
        ELSE /\ Apply([i \in {k} |-> Planned(t)[k]])
             /\ Visited(t, k)
             /\ UNCHANGED <<lock, task, found, got, want>>

Written(t) ==
    /\ pc[t] = "rows" /\ todo[t] = {}
    /\ Leave(t, KV!Ok)
    /\ UNCHANGED <<data, scan>>

Step(t) ==
    /\ \/ NothingToDo(t) \/ Read(t) \/ StartScan(t) \/ NextPage(t) \/ Delete(t)
       \/ Overwrite(t) \/ EnterBatch(t) \/ Resolve(t) \/ RefuseBatch(t) \/ WriteRow(t)
       \/ Written(t)
    /\ UNCHANGED <<site, crashes>>

Next == Crash \/ \E t \in Threads : Begin(t) \/ Step(t)
=============================================================================
