------------------------------- MODULE KVStore -------------------------------
(***************************************************************************)
(* What BaseStore promises, whatever the backend: several threads (OS      *)
(* threads, or the worker threads behind the async methods) call one       *)
(* store, and each call takes effect atomically at some instant between    *)
(* its start and its return.  A backend keeps the promise when it          *)
(* implements Spec.                                                        *)
(*                                                                         *)
(* Durable says whether close() keeps the pairs (a database) or discards   *)
(* them (a process-local store).                                           *)
(***************************************************************************)
EXTENDS StoreData

CONSTANTS Threads,   \* the callers
          Requests,  \* the calls they may make
          Durable    \* do the pairs survive close()?

LifecycleOps == {"open", "close"}
WriteOps     == {"set_many", "delete", "delete_many", "clear"}
ReadOps      == {"get", "get_many", "contains_many", "count", "filter",
                 "iter_batches"}

\* A call and its arguments; an argument the method does not have is empty.
Request == [op : LifecycleOps \cup WriteOps \cup ReadOps, keys : SUBSET Keys,
            items : Items, on_conflict : OnConflict, filters : Value]

\* A thread that has made no call yet.
NoCall == [op |-> "open", keys |-> {}, items |-> [k \in {} |-> Absent],
           on_conflict |-> "overwrite", filters |-> [f \in {} |-> f]]

\* What a call ends with: None or a value, or one of the two exceptions.
Returns(v)   == [kind |-> "returns", value |-> v]
Ok           == [kind |-> "ok"]
KeyError     == [kind |-> "KeyError"]
RuntimeError == [kind |-> "RuntimeError"]
NoAnswer     == [kind |-> "none"]

Refused(r, d) ==
    r.op = "set_many" /\ Refuses(r.items, r.on_conflict, Present(d))

\* The keys a call writes, and what it writes to them.
Effect(r, d) ==
    CASE r.op = "set_many" /\ r.on_conflict = "overwrite" -> r.items
      [] r.op = "set_many" /\ r.on_conflict # "overwrite" ->
            ToWrite(r.items, r.on_conflict, Present(d), d)
      [] r.op \in {"delete", "delete_many"} -> [k \in r.keys |-> Absent]
      [] r.op = "clear" -> EmptyStore
      [] OTHER -> [k \in {} |-> Absent]

\* What a read of the contents d answers.
Seen(r, d) ==
    CASE r.op \in {"get", "get_many"} -> [k \in r.keys |-> d[k]]
      [] r.op = "contains_many" -> r.keys \cap Present(d)
      [] r.op = "count" -> Cardinality(Present(d))
      [] OTHER -> [k \in {i \in Present(d) : Matches(d[i], r.filters)} |-> d[k]]

Answer(r, d) ==
    CASE Refused(r, d)      -> KeyError
      [] r.op \in ReadOps   -> Returns(Seen(r, d))
      [] OTHER              -> Ok

VARIABLES data,    \* the pairs
          closed,  \* the store's closed flag
          call,    \* call[t]: the last call of t
          answer   \* answer[t]: what it ended with, NoAnswer while it runs

vars == <<data, closed, call, answer>>

Idle(t) == answer[t] # NoAnswer

\* A store starts closed; a backend may also be described from the moment it
\* has been opened.
Init ==
    /\ data = EmptyStore
    /\ closed \in BOOLEAN
    /\ answer = [t \in Threads |-> Ok]
    /\ call = [t \in Threads |-> NoCall]

Invoke(t) ==
    /\ Idle(t)
    /\ \E r \in Requests : call' = [call EXCEPT ![t] = r]
    /\ answer' = [answer EXCEPT ![t] = NoAnswer]
    /\ UNCHANGED <<data, closed>>

Ends(t, a) ==
    /\ ~Idle(t)
    /\ answer' = [answer EXCEPT ![t] = a]
    /\ UNCHANGED call

\* Only the first open() starts a session; open() on an open store changes
\* nothing.
Open(t) ==
    /\ call[t].op = "open"
    /\ Ends(t, Ok)
    /\ closed' = FALSE
    /\ UNCHANGED data

Close(t) ==
    /\ call[t].op = "close"
    /\ Ends(t, Ok)
    /\ closed' = TRUE
    /\ data' = IF Durable THEN data ELSE EmptyStore

\* A data operation of an open store.
Execute(t) ==
    /\ ~closed
    /\ call[t].op \notin LifecycleOps
    /\ Ends(t, Answer(call[t], data))
    /\ data' = IF Refused(call[t], data) THEN data
               ELSE Stored(data, Effect(call[t], data))
    /\ UNCHANGED closed

Raise(t) ==
    /\ closed
    /\ call[t].op \notin LifecycleOps
    /\ Ends(t, RuntimeError)
    /\ UNCHANGED <<data, closed>>

\* get_many([]) and delete_many([]) may answer without looking at the store.
Vacuous(t) ==
    /\ closed
    /\ call[t].op \in {"get_many", "delete_many"} /\ call[t].keys = {}
    /\ Ends(t, Answer(call[t], EmptyStore))
    /\ UNCHANGED <<data, closed>>

Next ==
    \E t \in Threads :
        Invoke(t) \/ Open(t) \/ Close(t) \/ Execute(t) \/ Raise(t) \/ Vacuous(t)

Spec == Init /\ [][Next]_vars
=============================================================================
