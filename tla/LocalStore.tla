------------------------------ MODULE LocalStore ------------------------------
(***************************************************************************)
(* What the file, LMDB, DuckDB and SQLite stores have in common: they run  *)
(* inside their caller's process.  Their async methods run the sync ones   *)
(* in worker threads (SQLite has an async connection too), so a caller is  *)
(* a thread; the process may die at any moment, and what the backend had   *)
(* committed by then is on disk.  Stores are open throughout, and start    *)
(* empty.                                                                  *)
(*                                                                         *)
(* A deployment is one way to use one backend: which calls a thread makes, *)
(* and how.  Keys are integers, for ORDER BY.  A lookup of several keys is *)
(* one statement (the code's chunks of 900 keys are not modelled).         *)
(***************************************************************************)
EXTENDS StoreData, Integers

CONSTANTS Threads, Deployments,
          Unstorable,  \* the values a serializer refuses
          BatchSize,   \* the batch_size of iter_batches
          MaxCrashes,  \* bound: how often the process dies
          NoThread, NoKey

VARIABLES site,     \* the deployment
          data,     \* the pairs on disk
          lock,     \* the thread in the store's lock
          pc, call, answer,
          found,    \* found[t]: the keys t was told are in the store
          got,      \* got[t]: the values t has read
          todo,     \* todo[t]: the keys t's loop has still to visit
          want,     \* want[t]: the file t is about to load
          scan,     \* scan[t]: the iter_batches of t
          crashes   \* how often the process has died

task  == <<pc, call, answer>>
reads == <<found, got, todo, want>>
local == <<site, data, lock, task, reads, scan, crashes>>

AllRequests == UNION {UNION {d.calls[t] : t \in Threads} : d \in Deployments}

KV == INSTANCE KVStore WITH closed <- FALSE, Durable <- TRUE, Requests <- AllRequests

Failed       == [kind |-> "failed"]
FileNotFound == [kind |-> "FileNotFoundError"]
Lost         == [kind |-> "lost"]

ASSUME ThreadAssumption == NoThread \notin Threads
ASSUME KeyAssumption    == Keys \subseteq Int /\ IsFiniteSet(Keys) /\ NoKey \notin Keys
\* A serializer refuses a dict for one of its fields: merging brings in no new.
ASSUME UnstorableAssumption ==
    /\ Unstorable \subseteq Value
    /\ \A v, w \in Value \ Unstorable : Merged(v, w) \notin Unstorable
ASSUME BoundAssumption  == BatchSize \in Nat \ {0} /\ MaxCrashes \in Nat
ASSUME DeploymentAssumption ==
    \A d \in Deployments :
        /\ d.backend \in {"file", "lmdb", "duckdb", "sqlite"}
        /\ d.calls \in [Threads -> SUBSET KV!Request]
        /\ \A t \in Threads : \A r \in d.calls[t] :
               r.op # "set_many" => DOMAIN r.items = {}
        /\ d.via \in [Threads -> {"thread", "loop", "task"}]
        /\ d.backend # "sqlite" => \A t \in Threads : d.via[t] = "thread"

Nothing == [k \in {} |-> Absent]

\* A scan: the pages it has read, how often it yielded each key, and what
\* has happened to the store since it began.
NoScan == [offset |-> 0, yields |-> [k \in Keys |-> 0],
           stable |-> {},     \* keys that were there all the time
           gone |-> {}, added |-> {}, rewritten |-> {}]

ScanPhases == {"list", "page", "cursor"}

Init ==
    /\ site \in Deployments
    /\ data = EmptyStore
    /\ lock = NoThread
    /\ pc = [t \in Threads |-> "idle"]
    /\ call = [t \in Threads |-> KV!NoCall]
    /\ answer = [t \in Threads |-> KV!Ok]
    /\ found = [t \in Threads |-> {}]
    /\ got = [t \in Threads |-> Nothing]
    /\ todo = [t \in Threads |-> {}]
    /\ want = [t \in Threads |-> NoKey]
    /\ scan = [t \in Threads |-> NoScan]
    /\ crashes = 0

-----------------------------------------------------------------------------
Busy(t) == pc[t] # "idle"

Begin(t) ==
    /\ ~Busy(t)
    /\ \E r \in site.calls[t] : call' = [call EXCEPT ![t] = r]
    /\ pc' = [pc EXCEPT ![t] = "start"]
    /\ answer' = [answer EXCEPT ![t] = KV!NoAnswer]
    /\ scan' = [scan EXCEPT ![t] = NoScan]
    /\ UNCHANGED <<site, data, lock, reads, crashes>>

\* Mutant of End: the caller is left without an answer.
EndSilent(t, a) ==
    /\ pc' = [pc EXCEPT ![t] = "idle"]
    /\ UNCHANGED <<call, answer, reads>>

\* The call ends and its local variables are gone.
End(t, a) ==
    /\ pc' = [pc EXCEPT ![t] = "idle"]
    /\ answer' = [answer EXCEPT ![t] = a]
    /\ found' = [found EXCEPT ![t] = {}]
    /\ got' = [got EXCEPT ![t] = Nothing]
    /\ todo' = [todo EXCEPT ![t] = {}]
    /\ want' = [want EXCEPT ![t] = NoKey]
    /\ UNCHANGED call

\* "with self._lock" is left with the call, by return or by exception.
Leave(t, a) ==
    /\ End(t, a)
    /\ lock' = IF lock = t THEN NoThread ELSE lock

GoTo(t, phase) == pc' = [pc EXCEPT ![t] = phase] /\ UNCHANGED <<call, answer>>

\* Go to a loop over the keys K.
Visit(t, phase, K) == GoTo(t, phase) /\ todo' = [todo EXCEPT ![t] = K]

Visited(t, k) == todo' = [todo EXCEPT ![t] = @ \ {k}]

\* set_many({}), get_many([]), delete_many([])
Empty(r) ==
    \/ r.op = "set_many" /\ DOMAIN r.items = {}
    \/ r.op \in {"get_many", "delete_many"} /\ r.keys = {}

\* They return at once.
NothingToDo(t) ==
    /\ pc[t] = "start" /\ Empty(call[t])
    /\ End(t, KV!Answer(call[t], EmptyStore))
    /\ UNCHANGED <<data, lock, scan>>

Starts(t, ops) == pc[t] = "start" /\ call[t].op \in ops /\ ~Empty(call[t])

Conditional(r) == r.op = "set_many" /\ r.on_conflict # "overwrite"

\* The values t's set_many writes: resolve_conflicts.  get may have answered
\* None for a key that contains_many had found.
Planned(t) ==
    LET r   == call[t]
        old == [k \in found[t] |-> IF k \in DOMAIN got[t] THEN got[t][k] ELSE Absent]
    IN
    IF Conditional(r) THEN ToWrite(r.items, r.on_conflict, found[t], old) ELSE r.items

Spoiled(w) == \E k \in DOMAIN w : w[k] \in Unstorable

-----------------------------------------------------------------------------
\* What a scan notices of the writes w to the pairs d.
Noted(s, d, w) ==
    LET dropped == {k \in DOMAIN w : w[k] = Absent /\ d[k] # Absent} IN
    [s EXCEPT !.stable = @ \ dropped,
              !.gone = @ \cup dropped,
              !.added = @ \cup {k \in DOMAIN w : w[k] # Absent /\ d[k] = Absent},
              !.rewritten = @ \cup {k \in DOMAIN w : w[k] # Absent /\ d[k] # Absent}]

\* The pairs on disk change.
Apply(w) ==
    /\ data' = Stored(data, w)
    /\ scan' = [t \in Threads |->
                    IF pc[t] \in ScanPhases THEN Noted(scan[t], data, w) ELSE scan[t]]

Scanned(t, d) == scan' = [scan EXCEPT ![t].stable = Present(d)]

\* Two yields of a key are already one too many.
Yielding(s, K) ==
    [s EXCEPT !.yields = [k \in Keys |-> IF k \in K /\ @[k] < 2 THEN @[k] + 1 ELSE @[k]]]

Yields(t, K) == scan' = [scan EXCEPT ![t] = Yielding(@, K)]

\* The keys of K at positions from + 1 .. from + BatchSize.
Slice(K, from) ==
    {k \in K : Cardinality({i \in K : i <= k}) \in (from + 1)..(from + BatchSize)}

\* Mutant of Page: the next page starts after the keys seen so far.
PageOverlapping(t, d) ==
    LET rows == Slice(Present(d), scan[t].offset) IN
    /\ scan' = [scan EXCEPT ![t] =
                    [Yielding(scan[t], rows) EXCEPT !.offset = @ + BatchSize - 1]]
    /\ IF Cardinality(rows) < BatchSize THEN End(t, KV!Ok)
       ELSE UNCHANGED <<task, reads>>

\* SELECT ... ORDER BY key LIMIT batch_size OFFSET offset, on the rows d.
Page(t, d) ==
    LET rows == Slice(Present(d), scan[t].offset) IN
    /\ scan' = [scan EXCEPT ![t] = [Yielding(scan[t], rows) EXCEPT !.offset = @ + BatchSize]]
    /\ IF Cardinality(rows) < BatchSize THEN End(t, KV!Ok)
       ELSE UNCHANGED <<task, reads>>

-----------------------------------------------------------------------------
\* The process dies: the locks and the calls die with it, the disk does not.
Crash ==
    /\ crashes < MaxCrashes
    /\ crashes' = crashes + 1
    /\ lock' = NoThread
    /\ pc' = [t \in Threads |-> "idle"]
    /\ answer' = [t \in Threads |-> IF Busy(t) THEN Lost ELSE answer[t]]
    /\ found' = [t \in Threads |-> {}]
    /\ got' = [t \in Threads |-> Nothing]
    /\ todo' = [t \in Threads |-> {}]
    /\ want' = [t \in Threads |-> NoKey]
    /\ scan' = [t \in Threads |-> NoScan]
    /\ UNCHANGED <<site, data, call>>
=============================================================================
