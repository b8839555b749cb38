------------------------------ MODULE RedisStore ------------------------------
(***************************************************************************)
(* persista.store.BaseRedisStore: several clients (threads, tasks or       *)
(* processes, each with its own connections) on one Redis server.  The     *)
(* sync methods and their async twins send the same commands in the same   *)
(* order, so one action stands for both.                                   *)
(*                                                                         *)
(* The server keeps the values and, in __keys__, the set of keys in use.   *)
(* A plain pipeline is one MULTI/EXEC transaction.  A "raise", "skip" or   *)
(* "merge" batch takes no lock: it WATCHes its keys, reads through other   *)
(* connections, and retries from the start when EXEC finds that a watched  *)
(* key was touched.  The server is external: its actions are modelled from *)
(* the commands the code sends.  Stores are open throughout.               *)
(*                                                                         *)
(* iter_batches, and filter through it, reads __keys__ once and then the   *)
(* values one MGET per batch, while other clients go on writing.           *)
(***************************************************************************)
EXTENDS StoreData, Naturals

CONSTANTS Threads, Requests,
          BatchSize  \* the batch_size of every scan

VARIABLES data,     \* the server's values
          keySet,   \* the server's __keys__
          dirty,    \* dirty[t]: a key t watches has been touched
          pc, call, answer,
          found,    \* found[t]: the keys t was told are in __keys__
          got,      \* got[t]: the values t has read of them
          todo,     \* todo[t]: the keys t's scan has still to fetch
          steady    \* steady[t]: the keys that held a value all through t's scan

server == <<data, keySet, steady>>
vars == <<data, keySet, dirty, pc, call, answer, found, got, todo, steady>>

ScanOps == {"filter", "iter_batches"}

\* clear() is keys() followed by delete_many() of what it listed, no more:
\* the contract sees these two calls.  The key listing is contains_many of
\* every key.  Of a scan the contract sees the listing; what the batches then
\* hold is the matter of ScansComplete.
ListCall == [op |-> "contains_many", keys |-> Keys, items |-> [k \in {} |-> Absent],
             on_conflict |-> "overwrite", filters |-> [f \in {} |-> f]]
DropCall(K) == [ListCall EXCEPT !.op = "delete_many", !.keys = K]

AbsCall ==
    [t \in Threads |->
        CASE call[t].op \in ScanOps -> ListCall
          [] call[t].op = "clear" /\ pc[t] \in {"start", "listed"} -> ListCall
          [] call[t].op = "clear" /\ pc[t] \in {"drop", "idle"} -> DropCall(found[t])
          [] OTHER -> call[t]]

AbsAnswer ==
    [t \in Threads |->
        IF pc[t] = "listed" \/ (call[t].op \in ScanOps /\ pc[t] # "start")
        THEN [kind |-> "returns", value |-> found[t]]
        ELSE answer[t]]

KV == INSTANCE KVStore WITH
        call <- AbsCall, answer <- AbsAnswer, closed <- FALSE, Durable <- TRUE,
        Requests <- Requests \cup {ListCall} \cup {DropCall(K) : K \in SUBSET Keys}

Nothing == [k \in {} |-> Absent]

Init ==
    /\ data = EmptyStore
    /\ keySet = {}
    /\ dirty = [t \in Threads |-> FALSE]
    /\ pc = [t \in Threads |-> "idle"]
    /\ call = [t \in Threads |-> KV!NoCall]
    /\ answer = [t \in Threads |-> KV!Ok]
    /\ found = [t \in Threads |-> {}]
    /\ got = [t \in Threads |-> Nothing]
    /\ todo = [t \in Threads |-> {}]
    /\ steady = [t \in Threads |-> {}]

-----------------------------------------------------------------------------
Busy(t) == pc[t] # "idle"

Begin(t) ==
    /\ ~Busy(t)
    /\ \E r \in Requests : call' = [call EXCEPT ![t] = r]
    /\ pc' = [pc EXCEPT ![t] = "start"]
    /\ answer' = [answer EXCEPT ![t] = KV!NoAnswer]
    /\ found' = [found EXCEPT ![t] = {}]
    /\ got' = [got EXCEPT ![t] = Nothing]
    /\ UNCHANGED <<server, dirty, todo>>

End(t, a) ==
    /\ pc' = [pc EXCEPT ![t] = "idle"]
    /\ answer' = [answer EXCEPT ![t] = a]
    /\ UNCHANGED <<call, found, got>>

GoTo(t, phase) == pc' = [pc EXCEPT ![t] = phase] /\ UNCHANGED <<call, answer>>

Starts(t, ops) == pc[t] = "start" /\ call[t].op \in ops

\* The keys a client watches: those of its batch, from WATCH until EXEC.
Watched(t) == IF pc[t] \in {"check", "read", "exec"} THEN DOMAIN call[t].items ELSE {}

\* The server has touched keys on behalf of t, whose own transaction is over:
\* the other clients that watch one of them will see their EXEC refused.
Touch(t, keys) ==
    dirty' = [u \in Threads |->
        u # t /\ (dirty[u] \/ Watched(u) \cap keys # {})]

\* MULTI; SET ...; SADD __keys__; EXEC
PutAll(t, w) ==
    /\ data' = Stored(data, w)
    /\ keySet' = keySet \cup DOMAIN w
    /\ Touch(t, DOMAIN w)
    /\ UNCHANGED steady

\* Mutant of DropAll: the keys stay registered.
DropAllValues(t, keys) ==
    /\ data' = Stored(data, [k \in keys |-> Absent])
    /\ steady' = [u \in Threads |-> steady[u] \ keys]
    /\ Touch(t, keys \cap Present(data))
    /\ UNCHANGED keySet

\* MULTI; DEL ...; SREM __keys__; EXEC.  DEL touches keys that exist.
DropAll(t, keys) ==
    /\ data' = Stored(data, [k \in keys |-> Absent])
    /\ keySet' = keySet \ keys
    /\ steady' = [u \in Threads |-> steady[u] \ keys]
    /\ Touch(t, keys \cap Present(data))

-----------------------------------------------------------------------------
\* GET, MGET, SMISMEMBER, SCARD: one command; contains and count ask __keys__.
SeenBy(r) ==
    CASE r.op \in {"get", "get_many"} -> [k \in r.keys |-> data[k]]
      [] r.op = "contains_many" -> r.keys \cap keySet
      [] r.op = "count" -> Cardinality(keySet)

Read(t) ==
    /\ Starts(t, {"get", "get_many", "contains_many", "count"})
    /\ End(t, KV!Returns(SeenBy(call[t])))
    /\ UNCHANGED <<server, dirty>>

Overwrite(t) ==
    /\ Starts(t, {"set_many"}) /\ call[t].on_conflict = "overwrite"
    /\ PutAll(t, call[t].items)
    /\ End(t, KV!Ok)

Delete(t) ==
    /\ Starts(t, {"delete", "delete_many"})
    /\ DropAll(t, call[t].keys)
    /\ End(t, KV!Ok)

\* clear(): self.delete_many(list(self.keys()))
ClearList(t) ==
    /\ Starts(t, {"clear"})
    /\ found' = [found EXCEPT ![t] = keySet]
    /\ GoTo(t, "listed")
    /\ UNCHANGED <<server, dirty, got>>

ClearCall(t) ==
    /\ pc[t] = "listed"
    /\ GoTo(t, "drop")
    /\ UNCHANGED <<server, dirty, found, got>>

ClearDrop(t) ==
    /\ pc[t] = "drop"
    /\ DropAll(t, found[t])
    /\ End(t, KV!Ok)

-----------------------------------------------------------------------------
\* SMEMBERS __keys__
StartScan(t) ==
    /\ Starts(t, ScanOps)
    /\ found' = [found EXCEPT ![t] = keySet]
    /\ todo' = [todo EXCEPT ![t] = keySet]
    /\ steady' = [steady EXCEPT ![t] = Present(data)]
    /\ GoTo(t, "list")
    /\ UNCHANGED <<data, keySet, dirty, got>>

\* A batch of the listed keys, in the set's order, which is any.
Batches(S) ==
    {B \in SUBSET S \ {{}} : IF Cardinality(S) > BatchSize THEN Cardinality(B) = BatchSize
                            ELSE B = S}

Fetch(t, batch) ==
    LET there == batch \cap Present(data) IN
    got' = [got EXCEPT ![t] =
        [k \in DOMAIN @ \cup there |-> IF k \in there THEN data[k] ELSE @[k]]]

\* Mutant of Batch: a batch whose keys are all gone ends the scan.
BatchOrStop(t) ==
    /\ pc[t] = "list"
    /\ \E batch \in Batches(todo[t]) :
        /\ Fetch(t, batch)
        /\ todo' = [todo EXCEPT ![t] = IF batch \cap Present(data) = {} THEN {} ELSE @ \ batch]
    /\ UNCHANGED <<server, dirty, pc, call, answer, found>>

\* MGET: the keys deleted since the listing are left out.
Batch(t) ==
    /\ pc[t] = "list"
    /\ \E batch \in Batches(todo[t]) :
        /\ Fetch(t, batch)
        /\ todo' = [todo EXCEPT ![t] = @ \ batch]
    /\ UNCHANGED <<server, dirty, pc, call, answer, found>>

Scanned(t) == pc[t] = "list" /\ todo[t] = {}

ScanDone(t) ==
    LET matching == {k \in DOMAIN got[t] : Matches(got[t][k], call[t].filters)} IN
    /\ Scanned(t)
    /\ End(t, KV!Returns([k \in matching |-> got[t][k]]))
    /\ steady' = [steady EXCEPT ![t] = {}]
    /\ UNCHANGED <<data, keySet, dirty, todo>>

-----------------------------------------------------------------------------
\* An empty batch returns before any command is sent.
SetNothing(t) ==
    /\ Starts(t, {"set_many"})
    /\ call[t].on_conflict # "overwrite" /\ DOMAIN call[t].items = {}
    /\ End(t, KV!Ok)
    /\ UNCHANGED <<server, dirty>>

\* Mutant of Watch: the client marks its keys at the server as well.
WatchAndMark(t) ==
    /\ Starts(t, {"set_many"})
    /\ call[t].on_conflict # "overwrite" /\ DOMAIN call[t].items # {}
    /\ Touch(t, DOMAIN call[t].items)
    /\ found' = [found EXCEPT ![t] = {}]
    /\ got' = [got EXCEPT ![t] = Nothing]
    /\ GoTo(t, "check")
    /\ UNCHANGED server

Watch(t) ==
    /\ Starts(t, {"set_many"})
    /\ call[t].on_conflict # "overwrite" /\ DOMAIN call[t].items # {}
    /\ dirty' = [dirty EXCEPT ![t] = FALSE]
    /\ found' = [found EXCEPT ![t] = {}]
    /\ got' = [got EXCEPT ![t] = Nothing]
    /\ GoTo(t, "check")
    /\ UNCHANGED server

\* resolve_conflicts: contains_many.  KeyError leaves the pipeline, which
\* unwatches.
Check(t) ==
    LET r == call[t]
        conflicts == Conflicts(r.items, keySet)
    IN
    /\ pc[t] = "check"
    /\ \/ /\ Refuses(r.items, r.on_conflict, keySet)
          /\ End(t, KV!KeyError)
       \/ /\ ~Refuses(r.items, r.on_conflict, keySet)
          /\ found' = [found EXCEPT ![t] = conflicts]
          /\ GoTo(t, IF r.on_conflict = "merge" THEN "read" ELSE "exec")
          /\ UNCHANGED got
    /\ UNCHANGED <<server, dirty>>

\* resolve_conflicts: get, one GET per conflicting key.
ReadNext(t) ==
    /\ pc[t] = "read"
    /\ \E k \in found[t] \ DOMAIN got[t] :
        got' = [got EXCEPT ![t] =
            [i \in DOMAIN got[t] \cup {k} |-> IF i = k THEN data[k] ELSE got[t][i]]]
    /\ UNCHANGED <<server, dirty, pc, call, answer, found>>

ReadDone(t) ==
    /\ pc[t] = "read" /\ DOMAIN got[t] = found[t]
    /\ GoTo(t, "exec")
    /\ UNCHANGED <<server, dirty, found, got>>

\* Mutant of Exec: a pipeline that watches nothing.
ExecUnwatched(t) ==
    /\ pc[t] = "exec"
    /\ PutAll(t, ToWrite(call[t].items, call[t].on_conflict, found[t], got[t]))
    /\ End(t, KV!Ok)

\* MULTI; SET ...; SADD __keys__; EXEC, refused when a watched key was touched.
Exec(t) ==
    /\ pc[t] = "exec" /\ ~dirty[t]
    /\ PutAll(t, ToWrite(call[t].items, call[t].on_conflict, found[t], got[t]))
    /\ End(t, KV!Ok)

\* redis.WatchError: go round the loop again.
Retry(t) ==
    /\ pc[t] = "exec" /\ dirty[t]
    /\ GoTo(t, "start")
    /\ UNCHANGED <<server, dirty, found, got>>

-----------------------------------------------------------------------------
Step(t) ==
    \/ StartScan(t) \/ Batch(t) \/ ScanDone(t)
    \/ /\ \/ Read(t) \/ Overwrite(t) \/ Delete(t)
          \/ ClearList(t) \/ ClearCall(t) \/ ClearDrop(t)
          \/ SetNothing(t) \/ Watch(t) \/ Check(t) \/ ReadNext(t) \/ ReadDone(t)
          \/ Exec(t) \/ Retry(t)
       /\ UNCHANGED todo

Next == \E t \in Threads : Begin(t) \/ Step(t)

Spec == Init /\ [][Next]_vars

-----------------------------------------------------------------------------
TypeOK ==
    /\ data \in Contents
    /\ keySet \in SUBSET Keys
    /\ dirty \in [Threads -> BOOLEAN]
    /\ pc \in [Threads -> {"idle", "start", "check", "read", "exec", "listed", "drop",
                        "list"}]
    /\ call \in [Threads -> KV!Request]
    /\ found \in [Threads -> SUBSET Keys]
    /\ got \in [Threads -> Writes]
    /\ todo \in [Threads -> SUBSET Keys]
    /\ steady \in [Threads -> SUBSET Keys]
    /\ DOMAIN answer = Threads
    /\ \A t \in Threads : answer[t] = KV!NoAnswer <=> Busy(t)

\* Between two commands __keys__ is exactly the set of keys that hold a value:
\* contains, count and keys(), which ask the set, agree with get.
KeySetMatchesData == keySet = Present(data)

\* A scan that has read its last batch has yielded every key that held a value
\* from its listing on, however the other clients wrote in between, and no key
\* that was not in __keys__ then.
ScansComplete ==
    \A t \in Threads : Scanned(t) =>
        steady[t] \subseteq DOMAIN got[t] /\ DOMAIN got[t] \subseteq found[t]

\* The optimistic loop gives every batch the meaning BaseStore documents, at the
\* instant its EXEC succeeds; clear() removes what it listed.
Contract == KV!Spec
=============================================================================
