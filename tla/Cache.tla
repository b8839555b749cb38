--------------------------------- MODULE Cache ---------------------------------
(***************************************************************************)
(* persista.cache.Cache: a time-to-live cache over an open store, used by  *)
(* several threads.  It has no lock of its own: each method is a sequence  *)
(* of store calls, every one atomic (KVStore), with readings of the wall   *)
(* clock in between, and other threads run between any two of them.  The   *)
(* async twins make the same calls in the same order.                      *)
(*                                                                         *)
(* The one-key methods (get, try_get, contains, set, delete) take the same *)
(* steps as the batched ones on a batch of one key; memoize is             *)
(* get_or_compute under a key made from the arguments.  The clock is taken *)
(* to be monotonic.                                                        *)
(***************************************************************************)
EXTENDS CacheData

VARIABLES store,   \* the entries of the backing store
          now,     \* time.time()
          pc, call, answer,
          looked,  \* looked[t]: the entries t's lookup has read
          values,  \* values[t]: the values t is about to return or to store
          writes   \* writes[t]: the entries t is about to store

locals == <<looked, values, writes>>
vars == <<store, now, pc, call, answer, locals>>

Phases == {"idle", "look", "judge", "evict", "compute", "resolve", "drop", "write"}

\* What the contract sees: the entries that are alive, what a lookup saw until
\* it has decided, and its answer as soon as it has.
Missed(t) == call[t].op = "get_or_compute" /\ pc[t] \in {"evict", "compute", "resolve", "drop"}

AbsSeen == [t \in Threads |->
    IF pc[t] = "judge" \/ Missed(t) THEN Alive(looked[t], now) ELSE Nothing]

AbsAnswer == [t \in Threads |->
    IF pc[t] = "evict" /\ ~Missed(t) THEN Hits(values[t]) ELSE answer[t]]

TM == INSTANCE TTLMap WITH
        live <- Alive(store, now), seen <- AbsSeen, answer <- AbsAnswer, pending <- writes

UsesKey(r, k) == k \in r.keys \cup DOMAIN r.items

ASSUME RequestsAssumption ==
    /\ \A t \in Threads : Requests[t] \subseteq Request
    /\ \A t \in Threads : \A r \in Requests[t] :
        /\ r.op # "set_many" => r.items = Nothing
        /\ r.op \in {"set_many", "clear"} => r.keys = {}
        /\ r.op = "get_or_compute" => \E k \in Keys : r.keys = {k}
    /\ \A t, u \in Threads, k \in Keys \ Shared :
        /\ \E r \in Requests[t] : UsesKey(r, k)
        /\ \E r \in Requests[u] : UsesKey(r, k)
        => t = u
ASSUME DefaultAssumption == DefaultTtl \in Nat \cup {Never}
ASSUME MaxNowAssumption == MaxNow \in Nat

Init ==
    /\ store = [k \in Keys |-> Absent]
    /\ now = 0
    /\ pc = [t \in Threads |-> "idle"]
    /\ call = [t \in Threads |-> NoCall]
    /\ answer = [t \in Threads |-> Ok]
    /\ looked = [t \in Threads |-> Nothing]
    /\ values = [t \in Threads |-> Nothing]
    /\ writes = [t \in Threads |-> Nothing]

-----------------------------------------------------------------------------
Entry(r) ==
    CASE r.op \in {"try_get_many", "get_or_compute"} -> "look"
      [] r.op = "set_many" -> "resolve"
      [] OTHER -> "drop"

Begin(t) ==
    /\ pc[t] = "idle"
    /\ \E r \in Requests[t] :
        /\ call' = [call EXCEPT ![t] = r]
        /\ pc' = [pc EXCEPT ![t] = Entry(r)]
        /\ values' = [values EXCEPT ![t] = r.items]
    /\ answer' = [answer EXCEPT ![t] = NoAnswer]
    /\ UNCHANGED <<store, now, looked, writes>>

\* Mutant of End: the caller is left without an answer.
EndSilent(t, a) == pc' = [pc EXCEPT ![t] = "idle"] /\ UNCHANGED <<now, call, answer, locals>>

End(t, a) ==
    /\ pc' = [pc EXCEPT ![t] = "idle"]
    /\ answer' = [answer EXCEPT ![t] = a]
    /\ looked' = [looked EXCEPT ![t] = Nothing]
    /\ values' = [values EXCEPT ![t] = Nothing]
    /\ writes' = [writes EXCEPT ![t] = Nothing]
    /\ UNCHANGED <<now, call>>

GoTo(t, phase) == pc' = [pc EXCEPT ![t] = phase] /\ UNCHANGED <<now, call, answer>>

\* What a write answers, once it is done: get_or_compute returns the value.
Written(t) == IF call[t].op = "get_or_compute" THEN Hits(values[t]) ELSE Ok

Delete(K) == store' = [k \in Keys |-> IF k \in K THEN Absent ELSE store[k]]

-----------------------------------------------------------------------------
\* self._store.get_many(keys)
Look(t) ==
    /\ pc[t] = "look"
    /\ looked' = [looked EXCEPT ![t] = [k \in call[t].keys |-> store[k]]]
    /\ GoTo(t, "judge")
    /\ UNCHANGED <<store, values, writes>>

\* Mutant of Expired: every entry that was read is evicted.
ExpiredOrNot(t) == {k \in DOMAIN looked[t] : looked[t][k] # Absent}

\* _split_many: one reading of the clock sorts the entries.
Expired(t) == {k \in DOMAIN looked[t] : Dead(looked[t][k], now)}
Found(t) == Values(Alive(looked[t], now))

\* A miss of get_or_compute has still to evict and to compute.
Judge(t) ==
    /\ pc[t] = "judge"
    /\ \/ /\ Expired(t) = {}
          /\ call[t].op = "get_or_compute" => Found(t) # Nothing
          /\ End(t, Hits(Found(t)))
       \/ /\ Expired(t) = {}
          /\ call[t].op = "get_or_compute" /\ Found(t) = Nothing
          /\ GoTo(t, "compute")
          /\ UNCHANGED locals
       \/ /\ Expired(t) # {}
          /\ looked' = [looked EXCEPT ![t] = [k \in Expired(t) |-> looked[t][k]]]
          /\ values' = [values EXCEPT ![t] = Found(t)]
          /\ GoTo(t, "evict")
          /\ UNCHANGED writes
    /\ UNCHANGED store

\* self._store.delete_many(expired_keys)
Evict(t) ==
    /\ pc[t] = "evict"
    /\ Delete(DOMAIN looked[t])
    /\ IF call[t].op = "get_or_compute"
       THEN GoTo(t, "compute") /\ UNCHANGED locals
       ELSE End(t, Hits(values[t]))

\* fn(*args, **kwargs)
Compute(t) ==
    /\ pc[t] = "compute"
    /\ \/ /\ \E v \in Vals : values' = [values EXCEPT ![t] = [k \in call[t].keys |-> v]]
          /\ GoTo(t, "resolve")
          /\ UNCHANGED <<looked, writes>>
       \/ End(t, Raised)
    /\ UNCHANGED store

-----------------------------------------------------------------------------
\* The head of set_many: an empty batch returns, a negative time-to-live
\* raises, 0 deletes, and otherwise the clock is read.
Resolve(t) ==
    LET r == call[t] IN
    /\ pc[t] = "resolve"
    /\ \/ /\ values[t] = Nothing
          /\ End(t, Ok)
       \/ /\ values[t] # Nothing /\ Invalid(r)
          /\ End(t, ValueError)
       \/ /\ values[t] # Nothing /\ Ttl(r) = 0
          /\ GoTo(t, "drop")
          /\ UNCHANGED locals
       \/ /\ values[t] # Nothing /\ ~Invalid(r) /\ Ttl(r) # 0
          /\ writes' = [writes EXCEPT ![t] = Stamped(values[t], r, now)]
          /\ GoTo(t, "write")
          /\ UNCHANGED <<looked, values>>
    /\ UNCHANGED store

\* self._store.set_many(...)
Write(t) ==
    /\ pc[t] = "write"
    /\ store' = Overwritten(store, writes[t])
    /\ End(t, Written(t))

\* delete, delete_many, clear, and writes with a time-to-live of 0.
Drop(t) ==
    /\ pc[t] = "drop"
    /\ Delete(IF call[t].op = "clear" THEN Keys ELSE call[t].keys \cup DOMAIN values[t])
    /\ End(t, Written(t))

Tick ==
    /\ now < MaxNow
    /\ now' = now + 1
    /\ UNCHANGED <<store, pc, call, answer, locals>>

Step(t) ==
    \/ Look(t) \/ Judge(t) \/ Evict(t) \/ Compute(t)
    \/ Resolve(t) \/ Write(t) \/ Drop(t)

Next == Tick \/ \E t \in Threads : Begin(t) \/ Step(t)

Spec == Init /\ [][Next]_vars

-----------------------------------------------------------------------------
\* The state has its types.
TypeOK ==
    /\ DOMAIN store = Keys
    /\ \A k \in Keys : store[k] = Absent \/ store[k].value \in Vals
    /\ now \in 0..MaxNow
    /\ pc \in [Threads -> Phases]
    /\ \A t \in Threads : call[t] = NoCall \/ call[t] \in Requests[t]
    /\ \A t \in Threads : answer[t] = NoAnswer <=> pc[t] # "idle"

\* A lookup never answers with an entry that was overwritten or deleted before
\* the lookup began, or whose time had passed; an entry stays until then, or
\* until it is overwritten or deleted, unless its key is used by other threads
\* as well (Cache.get, Cache.get_many, Cache.get_or_compute).
Contract == TM!Spec

\* What a lookup evicts has expired (cache.py:248).
EvictsOnlyExpired ==
    [][\A t \in Threads, k \in Keys :
        pc[t] = "evict" /\ pc'[t] # "evict" /\ k \in DOMAIN looked[t] /\ store[k] # Absent
        => Dead(store[k], now)]_vars
=============================================================================
