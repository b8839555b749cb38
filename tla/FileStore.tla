------------------------------- MODULE FileStore -------------------------------
(***************************************************************************)
(* persista.store.BaseFileStore (JsonFileStore, PickleFileStore): one file *)
(* per key in a directory.  Only the "raise", "skip" and "merge" batches   *)
(* take the lock; everything else is a loop of file operations that        *)
(* interleaves with whatever other threads do.                             *)
(*                                                                         *)
(* coola's save_json and save_pickle are external and taken to write a     *)
(* temporary file and to rename it: a file is there whole or not at all.   *)
(***************************************************************************)
EXTENDS LocalStore

\* One of the methods ops starts a loop over the keys K.
Loop(t, K, phase, ops) ==
    /\ Starts(t, ops)
    /\ Visit(t, phase, K)
    /\ UNCHANGED <<data, lock, found, got, want, scan>>

\* get, get_many, contains_many, count; _iter_files lists the directory once.
StartLookup(t) ==
    \/ Loop(t, call[t].keys, "get", {"get", "get_many"})
    \/ Loop(t, call[t].keys, "exists", {"contains_many"})
    \/ Loop(t, Present(data), "exists", {"count"})

StartDelete(t) ==
    \/ Loop(t, call[t].keys, "unlink", {"delete", "delete_many"})
    \/ Loop(t, Present(data), "unlink", {"clear"})

StartOverwrite(t) ==
    /\ ~Conditional(call[t])
    /\ Loop(t, DOMAIN call[t].items, "save", {"set_many"})

\* Mutant of StartBatch: the conflict check does not wait for the lock.
StartBatchUnlocked(t) ==
    /\ Conditional(call[t])
    /\ Loop(t, DOMAIN call[t].items, "check", {"set_many"})

StartBatch(t) ==
    /\ Starts(t, {"set_many"}) /\ Conditional(call[t])
    /\ lock = NoThread
    /\ lock' = t
    /\ Visit(t, "check", DOMAIN call[t].items)
    /\ UNCHANGED <<data, found, got, want, scan>>

\* filter goes through values(), and so through iter_batches.
StartScan(t) ==
    /\ Starts(t, {"filter", "iter_batches"})
    /\ Visit(t, "list", Present(data))
    /\ Scanned(t, data)
    /\ UNCHANGED <<data, lock, found, got, want>>

-----------------------------------------------------------------------------
\* contains: is_file
Exists(t) ==
    /\ pc[t] \in {"check", "exists"}
    /\ \E k \in todo[t] :
        /\ found' = [found EXCEPT ![t] = @ \cup ({k} \cap Present(data))]
        /\ Visited(t, k)
    /\ UNCHANGED <<data, lock, task, got, want, scan>>

Counted(t) ==
    /\ pc[t] = "exists" /\ todo[t] = {}
    /\ End(t, KV!Returns(IF call[t].op = "count" THEN Cardinality(found[t]) ELSE found[t]))
    /\ UNCHANGED <<data, lock, scan>>

\* resolve_conflicts after contains_many
Resolve(t) ==
    LET r == call[t] IN
    /\ pc[t] = "check" /\ todo[t] = {}
    /\ IF Refuses(r.items, r.on_conflict, found[t])
       THEN Leave(t, KV!KeyError)
       ELSE /\ IF r.on_conflict = "merge" THEN Visit(t, "get", found[t])
               ELSE Visit(t, "save", DOMAIN Planned(t))
            /\ UNCHANGED <<lock, found, got, want>>
    /\ UNCHANGED <<data, scan>>

\* get and _iter_files: the file is looked for, and loaded if it is there.
IsFile(t) ==
    /\ pc[t] \in {"get", "list"} /\ want[t] = NoKey
    /\ \E k \in todo[t] :
        /\ Visited(t, k)
        /\ want' = [want EXCEPT ![t] = IF data[k] # Absent THEN k ELSE NoKey]
    /\ UNCHANGED <<data, lock, task, found, got, scan>>

\* _load raises when the file has been deleted meanwhile.
Load(t) ==
    LET k == want[t] IN
    /\ pc[t] \in {"get", "list"} /\ k # NoKey
    /\ IF data[k] = Absent
       THEN Leave(t, FileNotFound) /\ UNCHANGED scan
       ELSE /\ got' = [got EXCEPT ![t] =
                    [i \in DOMAIN @ \cup {k} |-> IF i = k THEN data[k] ELSE @[i]]]
            /\ want' = [want EXCEPT ![t] = NoKey]
            /\ IF pc[t] = "list" THEN Yields(t, {k}) ELSE UNCHANGED scan
            /\ UNCHANGED <<lock, task, found, todo>>
    /\ UNCHANGED data

\* A key that has no file is None in the answer of get_many.
Loaded(t) ==
    LET r == call[t] IN
    /\ pc[t] = "get" /\ todo[t] = {} /\ want[t] = NoKey
    /\ IF r.op = "set_many"
       THEN Visit(t, "save", DOMAIN r.items) /\ UNCHANGED <<found, got, want>>
       ELSE End(t, KV!Returns([k \in r.keys |->
                                IF k \in DOMAIN got[t] THEN got[t][k] ELSE Absent]))
    /\ UNCHANGED <<data, lock, scan>>

Listed(t) ==
    LET values == {k \in DOMAIN got[t] : Matches(got[t][k], call[t].filters)} IN
    /\ pc[t] = "list" /\ todo[t] = {} /\ want[t] = NoKey
    /\ End(t, IF call[t].op = "filter" THEN KV!Returns([k \in values |-> got[t][k]])
              ELSE KV!Ok)
    /\ UNCHANGED <<data, lock, scan>>

\* _save, file by file: a value that cannot be serialized ends the batch in
\* the middle.
Save(t) ==
    /\ pc[t] = "save"
    /\ \E k \in todo[t] :
        IF Planned(t)[k] \in Unstorable
        THEN Leave(t, Failed) /\ UNCHANGED <<data, scan>>
        ELSE /\ Apply([i \in {k} |-> Planned(t)[k]])
             /\ Visited(t, k)
             /\ UNCHANGED <<lock, task, found, got, want>>

\* unlink(missing_ok=True)
Unlink(t) ==
    /\ pc[t] = "unlink"
    /\ \E k \in todo[t] : Apply([i \in {k} |-> Absent]) /\ Visited(t, k)
    /\ UNCHANGED <<lock, task, found, got, want>>

Written(t) ==
    /\ pc[t] \in {"save", "unlink"} /\ todo[t] = {}
    /\ Leave(t, KV!Ok)
    /\ UNCHANGED <<data, scan>>

Step(t) ==
    /\ \/ NothingToDo(t) \/ StartLookup(t) \/ StartDelete(t) \/ StartOverwrite(t)
       \/ StartBatch(t) \/ StartScan(t)
       \/ Exists(t) \/ Counted(t) \/ Resolve(t) \/ IsFile(t) \/ Load(t) \/ Loaded(t)
       \/ Listed(t) \/ Save(t) \/ Unlink(t) \/ Written(t)
    /\ UNCHANGED <<site, crashes>>

Next == Crash \/ \E t \in Threads : Begin(t) \/ Step(t)
=============================================================================
