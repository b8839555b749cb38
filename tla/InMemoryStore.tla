---------------------------- MODULE InMemoryStore ----------------------------
(***************************************************************************)
(* persista.store.InMemoryStore as its callers' threads run it: a dict and *)
(* a closed flag guarded by one re-entrant lock.  The sync methods run in  *)
(* the caller's thread and the async ones, by ThreadedAsyncStoreMixin, in  *)
(* a worker thread, so both are Threads here.                              *)
(*                                                                         *)
(* Steps are split where another thread can interfere: most methods check  *)
(* that the store is open before they take the lock, set_many writes and   *)
(* delete_many deletes key by key, and open() takes no lock at all.        *)
(* A nested acquisition of the lock by its holder is no step of its own.   *)
(***************************************************************************)
EXTENDS StoreData

CONSTANTS Threads, Requests,
          NoThread,  \* the owner of a free lock
          Scopes     \* how callers may behave, see scoped

Durable == FALSE

VARIABLES data, closed, lock, pc, call, answer,
          todo,   \* todo[t]: the writes t has still to do
          got,    \* got[t]: what get_many has read so far, or what the get that
                  \* resolve_conflicts was given will read
          found,  \* found[t]: what contains_many has answered so far
          scoped  \* TRUE: callers follow the context manager discipline,
                  \* no call overlaps an open() or a close()

vars == <<data, closed, lock, pc, call, answer, todo, got, found, scoped>>
locals == <<todo, got, found>>

\* The contract this store implements, seen through the mapping below.
Committed(t) ==
    pc[t] = "write" \/ (pc[t] = "delete" /\ ~closed)

AbsData ==
    IF lock # NoThread /\ Committed(lock) THEN Stored(data, todo[lock]) ELSE data

AbsAnswer == [t \in Threads |-> IF Committed(t) THEN [kind |-> "ok"] ELSE answer[t]]

KV == INSTANCE KVStore WITH data <- AbsData, answer <- AbsAnswer

ASSUME ThreadAssumption   == NoThread \notin Threads
ASSUME ScopesAssumption   == Scopes \subseteq BOOLEAN
ASSUME RequestsAssumption == Requests \subseteq KV!Request

Nothing == [k \in {} |-> Absent]

Init ==
    /\ data = EmptyStore
    /\ closed = TRUE
    /\ lock = NoThread
    /\ pc = [t \in Threads |-> "idle"]
    /\ call = [t \in Threads |-> KV!NoCall]
    /\ answer = [t \in Threads |-> KV!Ok]
    /\ todo = [t \in Threads |-> Nothing]
    /\ got = [t \in Threads |-> Nothing]
    /\ found = [t \in Threads |-> Nothing]
    /\ scoped \in Scopes

-----------------------------------------------------------------------------
Busy(t) == pc[t] # "idle"
InLifecycle(t) == Busy(t) /\ call[t].op \in KV!LifecycleOps

Allowed(r) ==
    scoped => \A u \in Threads :
        IF r.op \in KV!LifecycleOps THEN ~Busy(u) ELSE ~InLifecycle(u)

\* Where each method starts: open() reads the flag without the lock, and
\* get_many, delete_many and close() take the lock before anything else.
Entry(r) ==
    CASE r.op = "open" -> "opening"
      [] r.op \in {"get_many", "delete_many", "close"} -> "acquire"
      [] OTHER -> "check"

Begin(t) ==
    /\ pc[t] = "idle"
    /\ \E r \in Requests :
        /\ Allowed(r)
        /\ call' = [call EXCEPT ![t] = r]
        /\ pc' = [pc EXCEPT ![t] = Entry(r)]
    /\ answer' = [answer EXCEPT ![t] = KV!NoAnswer]
    /\ UNCHANGED <<data, closed, lock, locals, scoped>>

\* t is done with what it has read.
Forget(t) ==
    /\ got' = [got EXCEPT ![t] = Nothing]
    /\ found' = [found EXCEPT ![t] = Nothing]

\* Mutant of End: the caller is left without an answer.
EndSilent(t, a) ==
    /\ pc' = [pc EXCEPT ![t] = "idle"]
    /\ todo' = [todo EXCEPT ![t] = Nothing]
    /\ Forget(t)
    /\ UNCHANGED <<call, answer>>

\* The call returns or raises; its locals are gone.
End(t, a) ==
    /\ pc' = [pc EXCEPT ![t] = "idle"]
    /\ answer' = [answer EXCEPT ![t] = a]
    /\ todo' = [todo EXCEPT ![t] = Nothing]
    /\ Forget(t)
    /\ UNCHANGED call

\* Mutant of Leave: acquire() and release() without a finally.
LeaveOnReturn(t, a) ==
    /\ End(t, a)
    /\ lock' = IF a \in {KV!KeyError, KV!RuntimeError} THEN lock ELSE NoThread

\* Leaving "with self._lock", by return or by exception.
Leave(t, a) == End(t, a) /\ lock' = NoThread

CheckOpen(t) ==
    /\ pc[t] = "check"
    /\ IF closed
       THEN End(t, KV!RuntimeError)
       ELSE /\ pc' = [pc EXCEPT ![t] = "acquire"]
            /\ UNCHANGED <<call, answer, locals>>
    /\ UNCHANGED <<data, closed, lock>>

\* Mutant of Acquire: no lock.
AcquireBusy(t) ==
    /\ pc[t] = "acquire"
    /\ lock' = t
    /\ pc' = [pc EXCEPT ![t] = "locked"]
    /\ UNCHANGED <<data, closed, call, answer, locals>>

Acquire(t) ==
    /\ pc[t] = "acquire"
    /\ lock = NoThread
    /\ lock' = t
    /\ pc' = [pc EXCEPT ![t] = "locked"]
    /\ UNCHANGED <<data, closed, call, answer, locals>>

Locked(t, ops) == pc[t] = "locked" /\ call[t].op \in ops

-----------------------------------------------------------------------------
\* get, contains(_many), count, filter, and the snapshots of keys() and
\* iter_batches(): one read of the dict.
Read(t) ==
    /\ Locked(t, KV!ReadOps \ {"get_many"})
    /\ Leave(t, KV!Returns(KV!Seen(call[t], data)))
    /\ UNCHANGED <<data, closed>>

\* f, and that k maps to v.
With(f, k, v) == [i \in DOMAIN f \cup {k} |-> IF i = k THEN v ELSE f[i]]

\* get_many calls get for each key, and each get checks that the store is open.
GetNext(t) ==
    /\ Locked(t, {"get_many"})
    /\ \E k \in call[t].keys \ DOMAIN got[t] :
        IF closed
        THEN Leave(t, KV!RuntimeError)
        ELSE /\ got' = [got EXCEPT ![t] = With(got[t], k, data[k])]
             /\ UNCHANGED <<lock, pc, call, answer, todo, found>>
    /\ UNCHANGED <<data, closed>>

GetDone(t) ==
    /\ Locked(t, {"get_many"})
    /\ DOMAIN got[t] = call[t].keys
    /\ Leave(t, KV!Returns(got[t]))
    /\ UNCHANGED <<data, closed>>

-----------------------------------------------------------------------------
Enter(t, phase, writes) ==
    /\ pc' = [pc EXCEPT ![t] = phase]
    /\ todo' = [todo EXCEPT ![t] = writes]
    /\ Forget(t)
    /\ UNCHANGED <<data, closed, lock, call, answer>>

Overwrite(t) ==
    /\ Locked(t, {"set_many"}) /\ call[t].on_conflict = "overwrite"
    /\ Enter(t, "write", call[t].items)

Conditional(t) == Locked(t, {"set_many"}) /\ call[t].on_conflict # "overwrite"

\* self._data.get is bound to the dict there is now, for the keys of the batch.
Bind(t) ==
    /\ pc' = [pc EXCEPT ![t] = "contains"]
    /\ got' = [got EXCEPT ![t] = [k \in DOMAIN call[t].items |-> data[k]]]
    /\ UNCHANGED <<data, closed, lock, call, answer, todo, found>>

\* Mutant of StartResolve: the open check of set_many is not repeated under
\* the lock.
StartResolveUnchecked(t) == Conditional(t) /\ Bind(t)

\* resolve_conflicts begins with contains_many, which checks that the store is
\* open.  Binding and checking are one step: an open() between them would
\* leave an empty dict, and what is not found is not read.
StartResolve(t) ==
    /\ Conditional(t)
    /\ IF closed
       THEN Leave(t, KV!RuntimeError) /\ UNCHANGED <<data, closed>>
       ELSE Bind(t)

\* [key in self._data for key in keys], in whatever dict there is by then: an
\* open() may put an empty one in its place between two keys.
ContainsNext(t) ==
    /\ pc[t] = "contains"
    /\ \E k \in DOMAIN call[t].items \ DOMAIN found[t] :
        found' = [found EXCEPT ![t] = With(found[t], k, data[k] # Absent)]
    /\ UNCHANGED <<data, closed, lock, pc, call, answer, todo, got>>

\* The rest of resolve_conflicts.  It gets the values from the dict its get was
\* bound to, which only a holder of the lock changes: open() puts another in
\* its place.
Resolve(t) ==
    LET r == call[t]
        seen == {k \in DOMAIN found[t] : found[t][k]}
    IN
    /\ pc[t] = "contains" /\ DOMAIN found[t] = DOMAIN r.items
    /\ \/ /\ Refuses(r.items, r.on_conflict, seen)
          /\ Leave(t, KV!KeyError)
          /\ UNCHANGED <<data, closed>>
       \/ /\ ~Refuses(r.items, r.on_conflict, seen)
          /\ Enter(t, "write", ToWrite(r.items, r.on_conflict, seen, got[t]))

DoNext(t, k) ==
    /\ data' = [data EXCEPT ![k] = todo[t][k]]
    /\ todo' = [todo EXCEPT ![t] = [i \in DOMAIN todo[t] \ {k} |-> todo[t][i]]]
    /\ UNCHANGED <<closed, lock, pc, call, answer, got, found>>

WriteNext(t) ==
    /\ pc[t] = "write"
    /\ \E k \in DOMAIN todo[t] : DoNext(t, k)

DeleteMany(t) ==
    /\ Locked(t, {"delete_many"})
    /\ Enter(t, "delete", [k \in call[t].keys |-> Absent])

\* delete_many calls delete for each key, and each checks that the store is
\* open.
DeleteNext(t) ==
    /\ pc[t] = "delete"
    /\ \E k \in DOMAIN todo[t] :
        IF closed
        THEN Leave(t, KV!RuntimeError) /\ UNCHANGED <<data, closed>>
        ELSE DoNext(t, k)

Done(t) ==
    /\ pc[t] \in {"write", "delete"}
    /\ DOMAIN todo[t] = {}
    /\ Leave(t, KV!Ok)
    /\ UNCHANGED <<data, closed>>

\* delete and clear change the dict in one step.
Remove(t) ==
    /\ Locked(t, {"delete", "clear"})
    /\ data' = Stored(data, KV!Effect(call[t], data))
    /\ Leave(t, KV!Ok)
    /\ UNCHANGED closed

-----------------------------------------------------------------------------
Close(t) ==
    /\ Locked(t, {"close"})
    /\ data' = EmptyStore
    /\ closed' = TRUE
    /\ Leave(t, KV!Ok)

\* open(): "if not self._closed: return", then two assignments, unlocked.
OpenCheck(t) ==
    /\ pc[t] = "opening"
    /\ IF closed
       THEN /\ pc' = [pc EXCEPT ![t] = "reset"]
            /\ UNCHANGED <<call, answer, locals>>
       ELSE End(t, KV!Ok)
    /\ UNCHANGED <<data, closed, lock>>

OpenReset(t) ==
    /\ pc[t] = "reset"
    /\ data' = EmptyStore
    /\ pc' = [pc EXCEPT ![t] = "unclose"]
    /\ UNCHANGED <<closed, lock, call, answer, locals>>

OpenDone(t) ==
    /\ pc[t] = "unclose"
    /\ closed' = FALSE
    /\ End(t, KV!Ok)
    /\ UNCHANGED <<data, lock>>

-----------------------------------------------------------------------------
Step(t) ==
    /\ \/ CheckOpen(t) \/ Acquire(t)
       \/ Read(t) \/ GetNext(t) \/ GetDone(t)
       \/ Overwrite(t) \/ StartResolve(t) \/ ContainsNext(t) \/ Resolve(t) \/ WriteNext(t)
       \/ DeleteMany(t) \/ DeleteNext(t) \/ Done(t) \/ Remove(t)
       \/ Close(t) \/ OpenCheck(t) \/ OpenReset(t) \/ OpenDone(t)
    /\ UNCHANGED scoped

Next == \E t \in Threads : Begin(t) \/ Step(t)

Spec == Init /\ [][Next]_vars

\* A thread in the middle of a call is eventually scheduled.
FairSpec == Spec /\ \A t \in Threads : WF_vars(Step(t))
-----------------------------------------------------------------------------
Phases == {"idle", "check", "acquire", "locked", "contains", "write", "delete",
           "opening", "reset", "unclose"}
Holding == {"locked", "contains", "write", "delete"}

Tests == UNION {[K -> BOOLEAN] : K \in SUBSET Keys}

\* The state has its types: a thread has an answer exactly when it is not in
\* a call.
TypeOK ==
    /\ scoped \in Scopes
    /\ data \in Contents
    /\ closed \in BOOLEAN
    /\ lock \in Threads \cup {NoThread}
    /\ pc \in [Threads -> Phases]
    /\ call \in [Threads -> KV!Request]
    /\ todo \in [Threads -> Writes]
    /\ got \in [Threads -> Writes]
    /\ found \in [Threads -> Tests]
    /\ DOMAIN answer = Threads
    /\ \A t \in Threads : answer[t] = KV!NoAnswer <=> Busy(t)

\* Every call takes effect at once, between its start and its return, with
\* the result BaseStore documents: batches and conflict strategies included
\* (set_many, in_memory.py:113), when none overlaps an open() or a close().
Contract == KV!Init /\ [][scoped => KV!Next]_(KV!vars)

\* What a "raise", "skip" or "merge" batch has still to write was decided on
\* the contents it will be written over, however the other threads are
\* scheduled: no key of it has appeared since, and a merged value holds every
\* field the key has now.  The store is still open, too: the flag may change
\* between set_many's own check and the lock, but close() needs the lock and
\* contains_many checks the flag again under it.
PlannedWritesAreCurrent ==
    \A t \in Threads :
        LET r == call[t] IN
        pc[t] = "write" /\ r.on_conflict # "overwrite" =>
            /\ ~closed
            /\ \A k \in DOMAIN todo[t] :
                data[k] # Absent =>
                    /\ r.on_conflict = "merge"
                    /\ todo[t][k] = Merged(data[k], r.items[k])

\* open() on a store that is already open changes nothing.
OpenKeepsOpenStore ==
    [][~closed /\ (\E t \in Threads : pc[t] = "reset" /\ pc'[t] # "reset")
        => data' = data]_vars

\* The lock is always given back, whichever way a call leaves it.
LockReleased == \A t \in Threads : lock = t ~> lock # t
=============================================================================
