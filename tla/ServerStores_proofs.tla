-------------------------- MODULE ServerStores_proofs --------------------------
(***************************************************************************)
(* Theorems about ServerStores for every set of clients, keys, calls and   *)
(* deployments.                                                            *)
(*                                                                         *)
(* On PostgreSQL the argument is about who holds the advisory locks: a     *)
(* batch that takes them holds those of the keys before the one it waits   *)
(* for (LocksOf), and from its check to its commit those of all its keys,  *)
(* so that the rows it has read stay as they are (CurrentOf) and the rows  *)
(* it writes are nobody else's.  In a ring of such batches everybody would *)
(* wait for a key smaller than its holder waits for.                       *)
(*                                                                         *)
(* On Redis it is about what a batch has read under WATCH: while it is not *)
(* dirty that is still so (RedisCurrentInv).  A scan returns every key     *)
(* that is there throughout (RedisScanInv), and a call takes effect where  *)
(* the server executes it.  The theorems are first proved of a Redis       *)
(* server by itself, then of the sites, each of which has one of the two.  *)
(***************************************************************************)
EXTENDS ServerStores, StoreData_proofs, FiniteSetTheorems

-----------------------------------------------------------------------------
(* What the phase of a session says of its call and its reads.             *)
SessionOf(t) ==
    LET r == call[t] IN
    /\ pc[t] \in {"lock", "check", "read"} => Pg!Guarded(r)
    /\ pc[t] = "read" => r.on_conflict = "merge"
    /\ pc[t] = "write" => r.op = "set_many"
    /\ pc[t] = "delete" => r.op \in {"delete", "delete_many", "clear"}
    /\ pc[t] \in {"start", "lock", "check"} => DOMAIN got[t] = {}
    /\ pc[t] \in {"read", "write"} => ~Refuses(r.items, r.on_conflict, found[t])
    /\ pc[t] = "write" /\ r.on_conflict = "merge" => found[t] \subseteq DOMAIN got[t]

(* The key its statement takes next is one it has still to take.  Only     *)
(* those of a DELETE may be gone meanwhile.                                *)
StatementOf(t) ==
    /\ pc[t] \notin {"lock", "write", "delete"} => todo[t] = {} /\ want[t] = NoKey
    /\ pc[t] \in {"lock", "write"} => want[t] \in Pg!First(pc[t], todo[t])
    /\ want[t] = NoKey => todo[t] = {}

(* The advisory locks it holds are of its batch, in order while it takes   *)
(* them and all of them from then on.                                      *)
LocksOf(t) ==
    LET K == DOMAIN call[t].items IN
    /\ \A k \in Keys : advisory[k] = t =>
        pc[t] \in {"lock", "check", "read", "write"} /\ Pg!Guarded(call[t]) /\ k \in K
    /\ pc[t] = "lock" =>
        /\ todo[t] \subseteq K
        /\ \A k \in K : k \in todo[t] \/ advisory[k] = t
        /\ \A k \in todo[t], i \in Keys : advisory[i] = t => i < k
    /\ pc[t] \in {"check", "read", "write"} /\ Pg!Guarded(call[t]) =>
        \A k \in K : advisory[k] = t

(* The rows it has written are those it has planned, less what is left.    *)
RowsOf(t) ==
    /\ DOMAIN work[t] # {} => pc[t] \in {"write", "delete"}
    /\ pc[t] = "write" =>
        /\ DOMAIN work[t] \cup todo[t] = DOMAIN Pg!Planned(t)
        /\ \A k \in DOMAIN work[t] : work[t][k] = Pg!Planned(t)[k]

SessionInv   == \A t \in Threads : SessionOf(t)
StatementInv == \A t \in Threads : StatementOf(t)
LocksInv     == \A t \in Threads : LocksOf(t)
RowsInv      == \A t \in Threads : RowsOf(t)

PgBase == Pg!TypeOK /\ SessionInv /\ StatementInv /\ LocksInv /\ RowsInv

(* What a batch has read of its keys is still so.                          *)
CurrentOf(t) ==
    pc[t] \in {"read", "write"} /\ Pg!Guarded(call[t]) =>
        /\ found[t] = Conflicts(call[t].items, Present(data))
        /\ \A k \in DOMAIN got[t] : k \in found[t] /\ got[t][k] = data[k]

(* Every client of a site makes that site's calls.                         *)
CallsOf(t) == pc[t] # "idle" => call[t] \in site.calls

PgInv ==
    /\ PgBase
    /\ \A t \in Threads : CallsOf(t)
    /\ Batches => \A t \in Threads : CurrentOf(t)

-----------------------------------------------------------------------------
\* A finite set of numbers that is not empty has a greatest one.
LEMMA FiniteMaximum ==
    ASSUME NEW S, IsFiniteSet(S), S \subseteq Int, S # {}
    PROVE  \E m \in S : \A i \in S : i <= m
  <1> DEFINE HasMax(A) == \E m \in A : \A i \in A : i <= m
             Sizes == {n \in Nat : \E A \in SUBSET S : A # {} /\ ~HasMax(A) /\ Cardinality(A) = n}
  <1>1. Sizes \subseteq Nat
    OBVIOUS
  <1>2. SUFFICES ASSUME ~HasMax(S) PROVE FALSE
    OBVIOUS
  <1>3. Cardinality(S) \in Sizes
    BY <1>2, FS_CardinalityType
  <1>4. PICK n \in Sizes : \A i \in Sizes : ~(<<i, n>> \in OpToRel(<, Nat))
    <2> HIDE DEF Sizes
    <2>1. Sizes # {}
      BY <1>3
    <2>2. QED
      BY <1>1, <2>1, NatLessThanWellFounded, WFMin
  <1>5. \A i \in Sizes : ~(i < n)
    BY <1>1, <1>4 DEF OpToRel
  <1>6. PICK A \in SUBSET S : A # {} /\ ~HasMax(A) /\ Cardinality(A) = n
    OBVIOUS
  <1>7. PICK x \in A : TRUE
    BY <1>6
  <1>8. IsFiniteSet(A)
    BY FS_Subset
  <1>9. Cardinality(A \ {x}) = n - 1 /\ IsFiniteSet(A \ {x})
    BY <1>6, <1>7, <1>8, FS_RemoveElement
  <1>10. A \ {x} # {}
    <2>1. CASE A = {x}
      BY <1>6, <2>1
    <2>2. QED
      BY <1>7, <2>1
  <1>11. n - 1 \in Nat /\ n \in Nat
    BY <1>9, FS_CardinalityType
  <1>12. HasMax(A \ {x})
    <2>1. n - 1 \notin Sizes
      BY <1>5, <1>11
    <2>2. QED
      BY <1>9, <1>10, <1>11, <2>1
  <1>13. PICK m \in A \ {x} : \A i \in A \ {x} : i <= m
    BY <1>12
  <1>14. CASE x <= m
    <2>1. \A i \in A : i <= m
      BY <1>13, <1>14
    <2>2. QED
      BY <1>6, <2>1
  <1>15. CASE ~(x <= m)
    <2>1. \A i \in A : i <= x
      BY <1>13, <1>15
    <2>2. QED
      BY <1>6, <1>7, <2>1
  <1>16. QED
    BY <1>14, <1>15

\* The order of the advisory locks keeps the batches that take them out of every
\* ring.
LEMMA NoRing ==
    ASSUME PgBase, IsFiniteSet(Threads), NEW C \in SUBSET Threads, Pg!Cycle(C),
           \A t \in C : Pg!Conditional(t)
    PROVE  FALSE
  <1> USE DEF PgBase
  <1>1. \A t \in C : Pg!Guarded(call[t]) /\ pc[t] # "delete"
    BY DEF Pg!Conditional, SessionInv, SessionOf, Pg!Guarded
  <1>2. ASSUME NEW t \in C, NEW u \in C, Pg!WaitsFor(t, u)
        PROVE  pc[t] = "lock" /\ advisory[want[t]] = u /\ want[t] \in todo[t]
    <2>1. CASE pc[t] = "write" /\ want[t] \in DOMAIN work[u]
      <3>1. want[t] \in todo[t] /\ t # u
        BY <1>2 DEF Pg!WaitsFor
      <3>2. pc[u] = "write"
        BY <1>1, <2>1 DEF RowsInv, RowsOf
      <3>3. /\ want[t] \in DOMAIN Pg!Planned(t) /\ want[t] \in DOMAIN Pg!Planned(u)
        BY <2>1, <3>1, <3>2 DEF RowsInv, RowsOf
      <3>4. \A v \in C : DOMAIN Pg!Planned(v) \subseteq DOMAIN call[v].items
        BY <1>1 DEF Pg!Planned, Pg!Guarded, Pg!ToWrite
      <3>5. advisory[want[t]] = t /\ advisory[want[t]] = u
        BY <1>1, <2>1, <3>2, <3>3, <3>4 DEF LocksInv, LocksOf
      <3>6. QED
        BY <3>1, <3>5
    <2>2. QED
      BY <1>1, <1>2, <2>1 DEF Pg!WaitsFor
  <1>3. \A t \in C : \E u \in C : want[t] < want[u]
    <2> TAKE t \in C
    <2>1. PICK u \in C : Pg!WaitsFor(t, u)
      BY DEF Pg!Cycle
    <2>2. PICK v \in C : Pg!WaitsFor(u, v)
      BY DEF Pg!Cycle
    <2>3. /\ pc[u] = "lock" /\ want[u] \in todo[u]
          /\ advisory[want[t]] = u /\ want[t] \in Keys
      BY <1>2, <2>1, <2>2 DEF Pg!TypeOK
    <2>4. want[t] < want[u]
      BY <2>3 DEF LocksInv, LocksOf
    <2>5. QED
      BY <2>4
  <1> DEFINE Wanted == {want[t] : t \in C}
  <1>4. Wanted # {} /\ Wanted \subseteq Int
    <2>1. \A t \in C : want[t] \in Keys
      BY <1>2 DEF Pg!Cycle, Pg!TypeOK
    <2>2. QED
      BY <2>1, KeyAssumption DEF Pg!Cycle
  <1>5. IsFiniteSet(Wanted)
    <2>1. IsFiniteSet(C)
      BY FS_Subset
    <2> DEFINE f == [t \in C |-> want[t]]
    <2>2. f \in Surjection(C, Wanted)
      BY DEF Surjection
    <2>3. QED
      BY <2>1, <2>2, FS_Surjection
  <1>6. PICK m \in Wanted : \A i \in Wanted : i <= m
    <2> HIDE DEF Wanted
    <2>1. QED
      BY <1>4, <1>5, FiniteMaximum
  <1>7. PICK t \in C, u \in C : want[t] = m /\ want[t] < want[u]
    BY <1>3
  <1>8. want[u] <= want[t] /\ want[u] \in Int /\ want[t] \in Int
    BY <1>4, <1>6, <1>7
  <1>9. QED
    BY <1>7, <1>8

-----------------------------------------------------------------------------
\* PostgresStore's copies of the data operators are the ones used here.
LEMMA SameData ==
    /\ Pg!Value = Value /\ Pg!Slot = Slot /\ Pg!Items = Items /\ Pg!Writes = Writes
    /\ Pg!Contents = Contents /\ Pg!EmptyStore = EmptyStore
    /\ \A d : Pg!Present(d) = Present(d)
    /\ \A i, f : Pg!Conflicts(i, f) = Conflicts(i, f)
    /\ \A i, oc, f : Pg!Refuses(i, oc, f) = Refuses(i, oc, f)
    /\ \A i, oc, f, d : Pg!ToWrite(i, oc, f, d) = ToWrite(i, oc, f, d)
    /\ \A d, w : Pg!Stored(d, w) = Stored(d, w)
    /\ Absent \notin Pg!Value
  <1>1. Pg!Value = Value
    BY DEF Pg!Value, Value
  <1>2. Pg!Slot = Slot /\ Pg!Items = Items
    BY <1>1 DEF Pg!Slot, Slot, Pg!Items, Items
  <1>3. Pg!Writes = Writes /\ Pg!Contents = Contents
    BY <1>2 DEF Pg!Writes, Writes, Pg!Contents, Contents
  <1>4. Pg!EmptyStore = EmptyStore /\ \A d : Pg!Present(d) = Present(d)
    BY DEF Pg!EmptyStore, EmptyStore, Pg!Present, Present
  <1>5. /\ \A i, f : Pg!Conflicts(i, f) = Conflicts(i, f)
        /\ \A i, oc, f : Pg!Refuses(i, oc, f) = Refuses(i, oc, f)
    BY DEF Pg!Conflicts, Conflicts, Pg!Refuses, Refuses
  <1>6. \A i, oc, f, d : Pg!ToWrite(i, oc, f, d) = ToWrite(i, oc, f, d)
    BY DEF Pg!ToWrite, ToWrite, Pg!Merged, Merged, Pg!OrEmpty, OrEmpty
  <1>7. \A d, w : Pg!Stored(d, w) = Stored(d, w)
    BY DEF Pg!Stored, Stored
  <1>8. QED
    BY <1>1, <1>2, <1>3, <1>4, <1>5, <1>6, <1>7, AbsentAssumption

\* So are the ones of its contract.
LEMMA SameContract ==
    /\ Pg!KV!Value = Value /\ Pg!KV!Items = Items /\ Pg!KV!OnConflict = OnConflict
    /\ Pg!KV!EmptyStore = EmptyStore
    /\ \A d : Pg!KV!Present(d) = Present(d)
    /\ \A i, oc, f : Pg!KV!Refuses(i, oc, f) = Refuses(i, oc, f)
    /\ \A i, oc, f, d : Pg!KV!ToWrite(i, oc, f, d) = ToWrite(i, oc, f, d)
    /\ \A d, w : Pg!KV!Stored(d, w) = Stored(d, w)
  <1>1. Pg!KV!Value = Value
    BY DEF Pg!KV!Value, Value
  <1>2. Pg!KV!Items = Items
    BY <1>1 DEF Pg!KV!Items, Items
  <1>3. \A d : Pg!KV!Present(d) = Present(d)
    BY DEF Pg!KV!Present, Present
  <1>4. Pg!KV!OnConflict = OnConflict /\ Pg!KV!EmptyStore = EmptyStore
    BY DEF Pg!KV!OnConflict, OnConflict, Pg!KV!EmptyStore, EmptyStore
  <1>5. \A i, oc, f : Pg!KV!Refuses(i, oc, f) = Refuses(i, oc, f)
    BY DEF Pg!KV!Refuses, Refuses, Pg!KV!Conflicts, Conflicts
  <1>6. \A i, oc, f, d : Pg!KV!ToWrite(i, oc, f, d) = ToWrite(i, oc, f, d)
    BY DEF Pg!KV!ToWrite, ToWrite, Pg!KV!Merged, Merged, Pg!KV!OrEmpty, OrEmpty
  <1>7. \A d, w : Pg!KV!Stored(d, w) = Stored(d, w)
    BY DEF Pg!KV!Stored, Stored
  <1>8. QED
    BY <1>1, <1>2, <1>3, <1>4, <1>5, <1>6, <1>7

\* None of the ways a call may end is "no answer yet".
LEMMA PgOutcomes ==
    /\ Pg!KV!Ok # Pg!KV!NoAnswer
    /\ Pg!KV!KeyError # Pg!KV!NoAnswer
    /\ Pg!DeadlockDetected # Pg!KV!NoAnswer
    /\ \A v : Pg!KV!Returns(v) # Pg!KV!NoAnswer
  <1>1. /\ Pg!KV!NoAnswer.kind = "none" /\ Pg!KV!Ok.kind = "ok"
        /\ Pg!KV!KeyError.kind = "KeyError" /\ Pg!DeadlockDetected.kind = "DeadlockDetected"
        /\ \A v : Pg!KV!Returns(v).kind = "returns"
    BY DEF Pg!KV!NoAnswer, Pg!KV!Ok, Pg!KV!KeyError, Pg!DeadlockDetected, Pg!KV!Returns
  <1>2. QED
    BY <1>1

LEMMA PgNothing == Pg!Nothing \in Writes /\ DOMAIN Pg!Nothing = {}
  <1>1. Pg!Nothing \in [{} -> Slot] /\ DOMAIN Pg!Nothing = {}
    BY DEF Pg!Nothing
  <1>2. QED
    BY <1>1, ItemsDef

LEMMA PgRequest ==
    ASSUME NEW r \in Pg!KV!Request
    PROVE  /\ r.op \in Pg!KV!LifecycleOps \cup Pg!KV!WriteOps \cup Pg!KV!ReadOps
           /\ r.keys \in SUBSET Keys
           /\ r.items \in Items /\ DOMAIN r.items \in SUBSET Keys
           /\ r.on_conflict \in OnConflict
  BY SameContract, ItemsDef DEF Pg!KV!Request

\* Every call a site's clients make is well formed.
LEMMA PgCalls == Requests \subseteq Pg!KV!Request
  BY SitesAssumption DEF Requests

LEMMA PgNoCall == Pg!KV!NoCall \in Pg!KV!Request
  <1>1. [k \in {} |-> Absent] \in [{} -> Value] /\ [f \in {} |-> f] \in [{} -> Vals]
    OBVIOUS
  <1>2. [k \in {} |-> Absent] \in Items /\ [f \in {} |-> f] \in Value
    BY <1>1, ItemsDef, ValueDef
  <1>3. QED
    BY <1>2, SameContract DEF Pg!KV!NoCall, Pg!KV!Request, Pg!KV!LifecycleOps, OnConflict

\* PostgresStore's state, with the data's own names.
LEMMA PgTypes ==
    Pg!TypeOK <=>
        /\ data \in Contents
        /\ advisory \in [Keys -> Threads \cup {NoThread}]
        /\ work \in [Threads -> Writes]
        /\ pc \in [Threads -> {"idle", "start", "lock", "check", "read", "write", "delete"}]
        /\ call \in [Threads -> Pg!KV!Request]
        /\ found \in [Threads -> SUBSET Keys]
        /\ got \in [Threads -> Writes]
        /\ todo \in [Threads -> SUBSET Keys]
        /\ want \in [Threads -> Keys \cup {NoKey}]
        /\ DOMAIN answer = Threads
        /\ \A t \in Threads : answer[t] = Pg!KV!NoAnswer <=> pc[t] # "idle"
  BY SameData DEF Pg!TypeOK, Pg!Busy

LEMMA PgTypesPrime ==
    (Pg!TypeOK)' <=>
        /\ data' \in Contents
        /\ advisory' \in [Keys -> Threads \cup {NoThread}]
        /\ work' \in [Threads -> Writes]
        /\ pc' \in [Threads -> {"idle", "start", "lock", "check", "read", "write", "delete"}]
        /\ call' \in [Threads -> Pg!KV!Request]
        /\ found' \in [Threads -> SUBSET Keys]
        /\ got' \in [Threads -> Writes]
        /\ todo' \in [Threads -> SUBSET Keys]
        /\ want' \in [Threads -> Keys \cup {NoKey}]
        /\ DOMAIN answer' = Threads
        /\ \A t \in Threads : answer'[t] = Pg!KV!NoAnswer <=> pc'[t] # "idle"
  BY SameData DEF Pg!TypeOK, Pg!Busy

\* A step of a session leaves the calls, the reads and the locks of the others
\* alone, but it may delete rows another DELETE was going to take.
OtherKept(u) ==
    /\ pc'[u] = pc[u] /\ call'[u] = call[u] /\ answer'[u] = answer[u]
    /\ found'[u] = found[u] /\ got'[u] = got[u]
    /\ work'[u] = work[u] /\ want'[u] = want[u]
    /\ todo'[u] \subseteq todo[u] /\ (pc[u] # "delete" => todo'[u] = todo[u])
    /\ \A k \in Keys : advisory'[k] = u <=> advisory[k] = u

LEMMA PgOthersKeep ==
    ASSUME Pg!TypeOK, NEW t \in Threads, Pg!Begin(t) \/ Pg!Step(t), NEW u \in Threads \ {t}
    PROVE  OtherKept(u)
  <1> USE PgTypes DEF OtherKept, Pg!End, Pg!GoTo, Pg!locks, Pg!reads, Pg!stmt
  <1>1. CASE Pg!Begin(t)
    BY <1>1 DEF Pg!Begin
  <1>2. CASE Pg!Read(t) \/ Pg!Iterate(t) \/ Pg!SetNothing(t)
    BY <1>2 DEF Pg!Read, Pg!Iterate, Pg!SetNothing
  <1>3. ASSUME NEW phase, NEW S, Pg!Execute(t, phase, S),
               UNCHANGED <<advisory, work, got>>, found'[u] = found[u]
        PROVE  OtherKept(u)
    BY <1>3 DEF Pg!Execute
  <1>4. CASE Pg!Overwrite(t) \/ Pg!Delete(t) \/ Pg!Enter(t) \/ Pg!ReadDone(t)
    BY <1>3, <1>4 DEF Pg!Overwrite, Pg!Delete, Pg!Enter, Pg!ReadDone
  <1>5. CASE Pg!TakeLock(t)
    <2>1. OtherKept(u) \/ ~\A k \in Keys : advisory'[k] = u <=> advisory[k] = u
      BY <1>5 DEF Pg!TakeLock, Pg!Advance
    <2>2. \A k \in Keys : advisory'[k] = IF k = want[t] THEN t ELSE advisory[k]
      BY <1>5 DEF Pg!TakeLock
    <2>3. \A k \in Keys : advisory'[k] = u <=> advisory[k] = u
      BY <1>5, <2>2, ThreadAssumption DEF Pg!TakeLock
    <2>4. QED
      BY <2>1, <2>3
  <1>6. CASE Pg!TakeRow(t) \/ Pg!SkipDeadRow(t)
    BY <1>6 DEF Pg!TakeRow, Pg!SkipDeadRow, Pg!Advance
  <1>7. CASE Pg!Locked(t) \/ Pg!ReadNext(t)
    BY <1>7 DEF Pg!Locked, Pg!ReadNext
  <1>8. ASSUME Pg!Release(t)
        PROVE  /\ work'[u] = work[u] /\ want'[u] = want[u]
               /\ \A k \in Keys : advisory'[k] = u <=> advisory[k] = u
    BY <1>8, ThreadAssumption DEF Pg!Release
  <1>9. ASSUME NEW a, Pg!Rollback(t, a) PROVE OtherKept(u)
    BY <1>8, <1>9 DEF Pg!Rollback
  <1>10. CASE Pg!Check(t)
    <2>1. CASE Pg!Rollback(t, Pg!KV!KeyError)
      BY <1>9, <2>1
    <2>2. CASE /\ found' = [found EXCEPT ![t] = Pg!Conflicts(call[t].items, Pg!Present(data))]
               /\ UNCHANGED <<advisory, work, got>>
               /\ Pg!GoTo(t, "read") /\ UNCHANGED <<todo, want>>
      BY <2>2
    <2>3. CASE /\ found' = [found EXCEPT ![t] = Pg!Conflicts(call[t].items, Pg!Present(data))]
               /\ UNCHANGED <<advisory, work, got>>
               /\ \E S : Pg!Execute(t, "write", S)
      BY <1>3, <2>3
    <2>4. QED
      BY <1>10, <2>1, <2>2, <2>3 DEF Pg!Check
  <1>11. CASE Pg!Finish(t)
    BY <1>8, <1>11 DEF Pg!Finish, Pg!Commit
  <1>12. CASE Pg!Abort(t)
    BY <1>9, <1>12 DEF Pg!Abort
  <1>13. QED
    BY <1>1, <1>2, <1>4, <1>5, <1>6, <1>7, <1>10, <1>11, <1>12 DEF Pg!Step

-----------------------------------------------------------------------------
\* What a batch plans to write is a batch.
LEMMA PlanType ==
    ASSUME NEW r \in Pg!KV!Request, NEW f \in SUBSET Keys, NEW g \in Writes,
           r.on_conflict # "overwrite", ~Refuses(r.items, r.on_conflict, f),
           r.on_conflict = "merge" => f \subseteq DOMAIN g
    PROVE  ToWrite(r.items, r.on_conflict, f, g) \in Items
  <1> DEFINE K == {i \in DOMAIN r.items : r.on_conflict = "skip" => i \notin f}
             w == ToWrite(r.items, r.on_conflict, f, g)
  <1>1. r.items \in Items /\ r.on_conflict \in OnConflict
    BY PgRequest
  <1>2. K \in SUBSET Keys /\ \A k \in K : k \in DOMAIN r.items /\ r.items[k] \in Value
    BY <1>1, ItemsDef DEF Items
  <1>3. ASSUME NEW k \in K PROVE w[k] \in Value
    <2>1. CASE k \notin f
      BY <1>2, <2>1 DEF ToWrite
    <2>2. CASE k \in f
      <3>1. r.on_conflict = "merge"
        BY <1>1, <2>2 DEF Refuses, Conflicts, OnConflict
      <3>2. g[k] \in Slot
        BY <2>2, <3>1, ItemsDef
      <3>3. Merged(OrEmpty(g[k]), r.items[k]) \in Value
        BY <1>2, <3>2, OrEmptyType, MergedType
      <3>4. QED
        BY <2>2, <3>3 DEF ToWrite
    <2>3. QED
      BY <2>1, <2>2
  <1>4. w \in [K -> Value]
    BY <1>3 DEF ToWrite
  <1>5. QED
    BY <1>2, <1>4, ItemsDef

LEMMA PlannedType ==
    ASSUME Pg!TypeOK, NEW t \in Threads, SessionOf(t), pc[t] = "write"
    PROVE  Pg!Planned(t) \in Items /\ DOMAIN Pg!Planned(t) \in SUBSET Keys
  <1>1. call[t] \in Pg!KV!Request /\ found[t] \in SUBSET Keys /\ got[t] \in Writes
    BY PgTypes
  <1>2. CASE call[t].on_conflict = "overwrite"
    BY <1>1, <1>2, PgRequest DEF Pg!Planned
  <1>3. CASE call[t].on_conflict # "overwrite"
    <2>1. Pg!Planned(t) = ToWrite(call[t].items, call[t].on_conflict, found[t], got[t])
      BY <1>3, SameData DEF Pg!Planned
    <2>2. Pg!Planned(t) \in Items
      BY <1>1, <1>3, <2>1, PlanType DEF SessionOf
    <2>3. QED
      BY <2>2, ItemsDef
  <1>4. QED
    BY <1>2, <1>3

LEMMA ContentsSlot ==
    ASSUME NEW d \in Contents, NEW k \in Keys
    PROVE  d[k] \in Slot
  BY DEF Contents

\* The values read or written so far, and one more.
LEMMA OneMore ==
    ASSUME NEW g \in Writes, NEW k \in Keys, NEW v \in Slot
    PROVE  [i \in DOMAIN g \cup {k} |-> IF i # k THEN g[i] ELSE v] \in Writes
  <1>1. DOMAIN g \cup {k} \in SUBSET Keys /\ \A i \in DOMAIN g : g[i] \in Slot
    BY ItemsDef
  <1>2. [i \in DOMAIN g \cup {k} |-> IF i # k THEN g[i] ELSE v] \in [DOMAIN g \cup {k} -> Slot]
    BY <1>1
  <1>3. QED
    BY <1>1, <1>2, ItemsDef

-----------------------------------------------------------------------------
\* A statement asks for one of its keys, or for none when it has none.
LEMMA FirstKey ==
    ASSUME NEW phase, NEW S \in SUBSET Keys, NEW k \in Pg!First(phase, S)
    PROVE  /\ k \in Keys \cup {NoKey}
           /\ k = NoKey <=> S = {}
           /\ k # NoKey => k \in S
           /\ phase = "lock" /\ S # {} => \A i \in S : k <= i
  <1>1. CASE S = {}
    BY <1>1 DEF Pg!First
  <1>2. CASE S # {} /\ phase = "lock"
    BY <1>2, KeyAssumption DEF Pg!First
  <1>3. CASE S # {} /\ phase # "lock"
    BY <1>3, KeyAssumption DEF Pg!First
  <1>4. QED
    BY <1>1, <1>2, <1>3

\* What the parts of an action do to the locals of t and to the types.
LEMMA EndTypes ==
    ASSUME Pg!TypeOK, NEW t \in Threads, NEW a, a # Pg!KV!NoAnswer, Pg!End(t, a)
    PROVE  /\ pc' = [pc EXCEPT ![t] = "idle"] /\ call' = call /\ found' = found /\ got' = got
           /\ DOMAIN answer' = Threads
           /\ \A u \in Threads : answer'[u] = Pg!KV!NoAnswer <=> pc'[u] # "idle"
  BY PgTypes DEF Pg!End, Pg!reads

LEMMA ReleaseTypes ==
    ASSUME Pg!TypeOK, NEW t \in Threads, Pg!Release(t)
    PROVE  /\ advisory' \in [Keys -> Threads \cup {NoThread}]
           /\ \A k \in Keys : advisory'[k] # t
           /\ work' \in [Threads -> Writes] /\ DOMAIN work'[t] = {}
           /\ want' \in [Threads -> Keys \cup {NoKey}] /\ want'[t] = NoKey
  BY PgTypes, PgNothing, ThreadAssumption DEF Pg!Release

LEMMA RollbackTypes ==
    ASSUME Pg!TypeOK, NEW t \in Threads, NEW a, a # Pg!KV!NoAnswer, Pg!Rollback(t, a)
    PROVE  (Pg!TypeOK)'
  <1>1. todo' \in [Threads -> SUBSET Keys] /\ data' = data
    BY PgTypes DEF Pg!Rollback
  <1>2. QED
    BY <1>1, PgTypes, PgTypesPrime, EndTypes, ReleaseTypes DEF Pg!Rollback

LEMMA CommitTypes ==
    ASSUME Pg!TypeOK, NEW t \in Threads, Pg!Commit(t, Pg!KV!Ok)
    PROVE  (Pg!TypeOK)'
  <1>1. data' = Stored(data, work[t])
    BY SameData DEF Pg!Commit
  <1>2. data' \in Contents
    BY <1>1, PgTypes, StoredType
  <1>3. todo' \in [Threads -> SUBSET Keys]
    BY PgTypes DEF Pg!Commit
  <1>4. QED
    BY <1>2, <1>3, PgTypes, PgTypesPrime, EndTypes, ReleaseTypes, PgOutcomes DEF Pg!Commit

LEMMA GoToTypes ==
    ASSUME Pg!TypeOK, NEW t \in Threads, pc[t] # "idle", NEW phase, phase # "idle",
           Pg!GoTo(t, phase)
    PROVE  /\ pc' = [pc EXCEPT ![t] = phase] /\ call' = call
           /\ DOMAIN answer' = Threads
           /\ \A u \in Threads : answer'[u] = Pg!KV!NoAnswer <=> pc'[u] # "idle"
  BY PgTypes DEF Pg!GoTo

LEMMA ExecuteTypes ==
    ASSUME Pg!TypeOK, NEW t \in Threads, NEW phase, NEW S \in SUBSET Keys,
           Pg!Execute(t, phase, S)
    PROVE  /\ Pg!GoTo(t, phase)
           /\ todo' \in [Threads -> SUBSET Keys] /\ todo'[t] = S
           /\ want' \in [Threads -> Keys \cup {NoKey}] /\ want'[t] \in Pg!First(phase, S)
  <1>1. PICK k \in Pg!First(phase, S) : want' = [want EXCEPT ![t] = k]
    BY DEF Pg!Execute
  <1>2. k \in Keys \cup {NoKey}
    BY FirstKey
  <1>3. QED
    BY <1>1, <1>2, PgTypes DEF Pg!Execute

LEMMA AdvanceTypes ==
    ASSUME Pg!TypeOK, NEW t \in Threads, Pg!Advance(t)
    PROVE  /\ todo' \in [Threads -> SUBSET Keys] /\ todo'[t] = todo[t] \ {want[t]}
           /\ want' \in [Threads -> Keys \cup {NoKey}]
           /\ want'[t] \in Pg!First(pc[t], todo'[t])
           /\ UNCHANGED <<data, pc, call, answer, found, got>>
  <1> DEFINE rest == todo[t] \ {want[t]}
  <1>0. rest \in SUBSET Keys
    BY PgTypes
  <1>1. PICK k \in Pg!First(pc[t], rest) : want' = [want EXCEPT ![t] = k]
    BY DEF Pg!Advance
  <1>2. k \in Keys \cup {NoKey}
    BY <1>0, FirstKey
  <1>3. todo' = [todo EXCEPT ![t] = rest]
    BY DEF Pg!Advance
  <1>4. todo' \in [Threads -> SUBSET Keys] /\ todo'[t] = rest
    BY <1>0, <1>3, PgTypes
  <1>5. want' \in [Threads -> Keys \cup {NoKey}] /\ want'[t] = k
    BY <1>1, <1>2, PgTypes
  <1>6. QED
    BY <1>1, <1>4, <1>5 DEF Pg!Advance, Pg!reads

\* The keys a DELETE takes are keys.
LEMMA TargetsType ==
    ASSUME Pg!TypeOK, NEW t \in Threads, NEW T, T \in {Keys, call[t].keys}
    PROVE  T \cap Pg!Present(data) \in SUBSET Keys
  BY SameData DEF Present

LEMMA PgTypeCorrect ==
    ASSUME PgBase, NEW t \in Threads, Pg!Begin(t) \/ Pg!Step(t)
    PROVE  (Pg!TypeOK)'
  <1>0. Pg!TypeOK /\ SessionOf(t)
    BY DEF PgBase, SessionInv
  <1>a. /\ call[t] \in Pg!KV!Request /\ DOMAIN call[t].items \in SUBSET Keys
        /\ found[t] \in SUBSET Keys /\ got[t] \in Writes
    BY <1>0, PgTypes, PgRequest
  <1> USE <1>0, PgTypes, PgTypesPrime DEF Pg!locks, Pg!reads, Pg!stmt, Pg!Starts
  <1>1. CASE Pg!Begin(t)
    BY <1>1, PgCalls, PgNothing DEF Pg!Begin
  <1>2. CASE Pg!Read(t)
    BY <1>2, EndTypes, PgOutcomes DEF Pg!Read
  <1>3. CASE Pg!Iterate(t)
    BY <1>3, EndTypes, PgOutcomes DEF Pg!Iterate
  <1>4. CASE Pg!SetNothing(t)
    BY <1>4, EndTypes, PgOutcomes DEF Pg!SetNothing
  <1>5. ASSUME pc[t] # "idle", NEW phase \in {"lock", "write", "delete"},
               NEW S \in SUBSET Keys, Pg!Execute(t, phase, S),
               UNCHANGED <<data, advisory, work, got>>, found' \in [Threads -> SUBSET Keys]
        PROVE  (Pg!TypeOK)'
    <2>1. phase # "idle"
      OBVIOUS
    <2>2. QED
      BY <1>5, <2>1, ExecuteTypes, GoToTypes
  <1>6. CASE Pg!Overwrite(t)
    BY <1>5, <1>6, <1>a DEF Pg!Overwrite
  <1>7. CASE Pg!Delete(t)
    <2> DEFINE targets == IF call[t].op = "clear" THEN Keys ELSE call[t].keys
    <2>1. targets \cap Pg!Present(data) \in SUBSET Keys
      BY TargetsType
    <2>2. Pg!Execute(t, "delete", targets \cap Pg!Present(data))
      BY <1>7 DEF Pg!Delete
    <2>3. QED
      BY <1>5, <1>7, <2>1, <2>2 DEF Pg!Delete
  <1>8. CASE Pg!Enter(t)
    BY <1>5, <1>8, <1>a DEF Pg!Enter
  <1>9. CASE Pg!TakeLock(t)
    <2>1. advisory' \in [Keys -> Threads \cup {NoThread}]
      BY <1>9 DEF Pg!TakeLock
    <2>2. QED
      BY <1>9, <2>1, AdvanceTypes DEF Pg!TakeLock
  <1>10. CASE Pg!Locked(t)
    BY <1>10, GoToTypes DEF Pg!Locked
  <1>11. CASE Pg!Check(t)
    <2> DEFINE r == call[t]
               present == Pg!Present(data)
    <2>1. CASE Pg!Rollback(t, Pg!KV!KeyError)
      BY <2>1, RollbackTypes, PgOutcomes
    <2>2. CASE /\ found' = [found EXCEPT ![t] = Pg!Conflicts(r.items, present)]
               /\ UNCHANGED <<data, advisory, work, got>>
               /\ \/ Pg!GoTo(t, "read") /\ UNCHANGED <<todo, want>>
                  \/ Pg!Execute(t, "write",
                                 DOMAIN Pg!ToWrite(r.items, r.on_conflict, present, data))
      <3>1. Pg!Conflicts(r.items, present) \in SUBSET Keys
        BY <1>a, SameData DEF Conflicts
      <3>2. found' \in [Threads -> SUBSET Keys]
        BY <2>2, <3>1
      <3>3. DOMAIN Pg!ToWrite(r.items, r.on_conflict, present, data) \in SUBSET Keys
        BY <1>a DEF Pg!ToWrite
      <3>4. CASE Pg!GoTo(t, "read") /\ UNCHANGED <<todo, want>>
        BY <1>11, <2>2, <3>2, <3>4, GoToTypes DEF Pg!Check
      <3>5. CASE Pg!Execute(t, "write", DOMAIN Pg!ToWrite(r.items, r.on_conflict, present, data))
        BY <1>5, <1>11, <2>2, <3>2, <3>3, <3>5 DEF Pg!Check
      <3>6. QED
        BY <2>2, <3>4, <3>5
    <2>3. QED
      BY <1>11, <2>1, <2>2 DEF Pg!Check
  <1>12. CASE Pg!ReadNext(t)
    <2>1. PICK k \in found[t] \ DOMAIN got[t] : got' = [got EXCEPT ![t] =
                [i \in DOMAIN got[t] \cup {k} |-> IF i = k THEN data[k] ELSE got[t][i]]]
      BY <1>12 DEF Pg!ReadNext
    <2> DEFINE v == data[k]
    <2>2. k \in Keys /\ v \in Slot
      <3>1. k \in Keys /\ data \in Contents
        BY <1>a
      <3>2. QED
        BY <3>1, ContentsSlot
    <2>3. got' = [got EXCEPT ![t] =
                [i \in DOMAIN got[t] \cup {k} |-> IF i # k THEN got[t][i] ELSE v]]
      BY <2>1
    <2>a. got[t] \in Writes
      BY <1>a
    <2> HIDE DEF v
    <2>4. [i \in DOMAIN got[t] \cup {k} |-> IF i # k THEN got[t][i] ELSE v] \in Writes
      BY <2>2, <2>a, OneMore, Zenon
    <2>5. got' \in [Threads -> Writes]
      BY <2>3, <2>4
    <2>6. QED
      BY <1>12, <2>5 DEF Pg!ReadNext
  <1>13. CASE Pg!ReadDone(t)
    <2>1. DOMAIN Pg!Planned(t) \in SUBSET Keys
      BY <1>a DEF Pg!Planned, Pg!ToWrite
    <2>2. QED
      BY <1>5, <1>13, <2>1 DEF Pg!ReadDone
  <1>14. CASE Pg!TakeRow(t)
    <2> DEFINE k == want[t]
               v == IF pc[t] = "write" THEN Pg!Planned(t)[k] ELSE Absent
    <2>1. k \in todo[t] /\ k \in Keys /\ pc[t] \in {"write", "delete"}
      BY <1>14 DEF Pg!TakeRow
    <2>2. v \in Slot
      <3>1. CASE pc[t] = "write"
        <4>1. k \in DOMAIN Pg!Planned(t)
          BY <2>1, <3>1 DEF PgBase, RowsInv, RowsOf
        <4>2. Pg!Planned(t) \in Writes
          BY <3>1, PlannedType, ItemsDef
        <4>3. QED
          BY <3>1, <4>1, <4>2, ItemsDef
      <3>2. CASE pc[t] = "delete"
        BY <3>2 DEF Slot
      <3>3. QED
        BY <2>1, <3>1, <3>2
    <2>3. work[t] \in Writes
      OBVIOUS
    <2> HIDE DEF v
    <2>4. [i \in DOMAIN work[t] \cup {k} |-> IF i # k THEN work[t][i] ELSE v] \in Writes
      BY <2>1, <2>2, <2>3, OneMore
    <2>5. work' = [work EXCEPT ![t] =
                [i \in DOMAIN work[t] \cup {k} |-> IF i # k THEN work[t][i] ELSE v]]
      BY <1>14 DEF Pg!TakeRow, v
    <2>6. work' \in [Threads -> Writes]
      BY <2>4, <2>5
    <2>7. QED
      BY <1>14, <2>6, AdvanceTypes DEF Pg!TakeRow
  <1>15. CASE Pg!SkipDeadRow(t)
    BY <1>15, AdvanceTypes DEF Pg!SkipDeadRow
  <1>16. CASE Pg!Finish(t)
    BY <1>16, CommitTypes DEF Pg!Finish
  <1>17. CASE Pg!Abort(t)
    BY <1>17, RollbackTypes, PgOutcomes DEF Pg!Abort
  <1>18. QED
    BY <1>1, <1>2, <1>3, <1>4, <1>6, <1>7, <1>8, <1>9, <1>10, <1>11, <1>12, <1>13, <1>14,
       <1>15, <1>16, <1>17 DEF Pg!Step

-----------------------------------------------------------------------------
\* Whatever a step does to the locks and rows of others, it keeps what they
\* know of themselves.
LEMMA OthersCorrect ==
    ASSUME PgBase, NEW u \in Threads, OtherKept(u)
    PROVE  SessionOf(u)' /\ StatementOf(u)' /\ LocksOf(u)' /\ RowsOf(u)'
  <1>0. SessionOf(u) /\ StatementOf(u) /\ LocksOf(u) /\ RowsOf(u)
    BY DEF PgBase, SessionInv, StatementInv, LocksInv, RowsInv
  <1> USE <1>0 DEF OtherKept
  <1>1. SessionOf(u)'
    BY DEF SessionOf
  <1>2. StatementOf(u)'
    BY DEF StatementOf
  <1>3. LocksOf(u)'
    <2>1. DOMAIN call[u].items \subseteq Keys
      BY PgTypes, PgRequest DEF PgBase
    <2>2. QED
      BY <2>1 DEF LocksOf
  <1>4. Pg!Planned(u)' = Pg!Planned(u)
    BY DEF Pg!Planned
  <1>5. RowsOf(u)'
    BY <1>4 DEF RowsOf
  <1>6. QED
    BY <1>1, <1>2, <1>3, <1>5

\* A session whose call has ended knows nothing and holds nothing.
LEMMA IdleCorrect ==
    ASSUME NEW t \in Threads, pc'[t] = "idle", todo'[t] = {}, want'[t] = NoKey,
           \A k \in Keys : advisory'[k] # t, DOMAIN work'[t] = {}
    PROVE  SessionOf(t)' /\ StatementOf(t)' /\ LocksOf(t)' /\ RowsOf(t)'
  BY DEF SessionOf, StatementOf, LocksOf, RowsOf

LEMMA RollbackCorrect ==
    ASSUME Pg!TypeOK, NEW t \in Threads, NEW a, Pg!Rollback(t, a)
    PROVE  SessionOf(t)' /\ StatementOf(t)' /\ LocksOf(t)' /\ RowsOf(t)'
  <1>1. pc'[t] = "idle" /\ todo'[t] = {}
    BY PgTypes DEF Pg!Rollback, Pg!End
  <1>2. QED
    BY <1>1, IdleCorrect, ReleaseTypes DEF Pg!Rollback

\* Reads and empty batches: a call that ends without having held anything.
LEMMA PlainEndCorrect ==
    ASSUME PgBase, NEW t \in Threads, NEW a, Pg!End(t, a), pc[t] = "start",
           UNCHANGED <<advisory, work, todo, want>>
    PROVE  SessionOf(t)' /\ StatementOf(t)' /\ LocksOf(t)' /\ RowsOf(t)'
  <1>1. pc'[t] = "idle"
    BY PgTypes DEF Pg!End, PgBase
  <1>2. todo[t] = {} /\ want[t] = NoKey /\ DOMAIN work[t] = {} /\ \A k \in Keys : advisory[k] # t
    BY DEF PgBase, StatementInv, StatementOf, LocksInv, LocksOf, RowsInv, RowsOf
  <1>3. QED
    BY <1>1, <1>2, IdleCorrect

\* What an action does to the locals of its own session.
LEMMA GoToLocal ==
    ASSUME Pg!TypeOK, NEW t \in Threads, NEW phase, Pg!GoTo(t, phase)
    PROVE  pc'[t] = phase /\ call'[t] = call[t]
  BY PgTypes DEF Pg!GoTo

\* A statement that starts on keys none of which is locked or written yet.
LEMMA StartWrite ==
    ASSUME PgBase, NEW t \in Threads, NEW S \in SUBSET Keys, Pg!Execute(t, "write", S),
           UNCHANGED <<advisory, work, got>>, pc[t] \in {"start", "check", "read"},
           call[t].op = "set_many",
           S = DOMAIN Pg!Planned(t)',
           ~Refuses(call[t].items, call[t].on_conflict, found'[t]),
           call[t].on_conflict = "merge" => found'[t] \subseteq DOMAIN got[t],
           Pg!Guarded(call[t]) => pc[t] # "start"
    PROVE  SessionOf(t)' /\ StatementOf(t)' /\ LocksOf(t)' /\ RowsOf(t)'
  <1>1. /\ pc'[t] = "write" /\ call'[t] = call[t] /\ todo'[t] = S
        /\ want'[t] \in Pg!First("write", S)
    BY ExecuteTypes, GoToLocal DEF PgBase
  <1>2. want'[t] = NoKey => todo'[t] = {}
    BY <1>1, FirstKey
  <1>3. DOMAIN work[t] = {}
    BY DEF PgBase, RowsInv, RowsOf
  <1>4. SessionOf(t)'
    BY <1>1 DEF SessionOf
  <1>5. StatementOf(t)'
    BY <1>1, <1>2 DEF StatementOf
  <1>6. LocksOf(t)'
    BY <1>1 DEF PgBase, LocksInv, LocksOf
  <1>7. RowsOf(t)'
    BY <1>1, <1>3 DEF RowsOf
  <1>8. QED
    BY <1>4, <1>5, <1>6, <1>7

LEMMA OwnCorrect ==
    ASSUME PgBase, NEW t \in Threads, Pg!Begin(t) \/ Pg!Step(t)
    PROVE  SessionOf(t)' /\ StatementOf(t)' /\ LocksOf(t)' /\ RowsOf(t)'
  <1> DEFINE Kept == SessionOf(t)' /\ StatementOf(t)' /\ LocksOf(t)' /\ RowsOf(t)'
  <1>0. Pg!TypeOK /\ SessionOf(t) /\ StatementOf(t) /\ LocksOf(t) /\ RowsOf(t)
    BY DEF PgBase, SessionInv, StatementInv, LocksInv, RowsInv
  <1>a. /\ call[t] \in Pg!KV!Request /\ DOMAIN call[t].items \in SUBSET Keys
        /\ todo[t] \in SUBSET Keys
    BY <1>0, PgTypes, PgRequest
  <1> USE DEF Pg!locks, Pg!reads, Pg!stmt, Pg!Starts
  <1>1. CASE Pg!Begin(t)
    <2>1. /\ pc[t] = "idle" /\ pc'[t] = "start" /\ got'[t] = Pg!Nothing
          /\ todo'[t] = todo[t] /\ want'[t] = want[t] /\ advisory' = advisory /\ work' = work
      BY <1>0, <1>1, PgTypes DEF Pg!Begin, Pg!Busy
    <2>2. DOMAIN Pg!Nothing = {}
      BY PgNothing
    <2>3. QED
      BY <1>0, <2>1, <2>2 DEF SessionOf, StatementOf, LocksOf, RowsOf
  <1>2. CASE Pg!Read(t) \/ Pg!Iterate(t) \/ Pg!SetNothing(t)
    BY <1>2, PlainEndCorrect DEF Pg!Read, Pg!Iterate, Pg!SetNothing
  <1>3. CASE Pg!Overwrite(t)
    <2>1. /\ pc[t] = "start" /\ call[t].op = "set_many" /\ call[t].on_conflict = "overwrite"
          /\ Pg!Execute(t, "write", DOMAIN call[t].items)
          /\ UNCHANGED <<advisory, work, found, got>>
      BY <1>3 DEF Pg!Overwrite
    <2>2. call'[t] = call[t]
      BY <1>0, <2>1, GoToLocal DEF Pg!Execute
    <2>3. Pg!Planned(t)' = call[t].items
      BY <2>1, <2>2 DEF Pg!Planned
    <2>4. QED
      BY <1>a, <2>1, <2>3, StartWrite DEF Refuses, Pg!Guarded
  <1>4. CASE Pg!Delete(t)
    <2> DEFINE targets == IF call[t].op = "clear" THEN Keys ELSE call[t].keys
    <2>1. targets \cap Pg!Present(data) \in SUBSET Keys
      BY <1>0, TargetsType
    <2>2. /\ pc[t] = "start" /\ Pg!Execute(t, "delete", targets \cap Pg!Present(data))
          /\ UNCHANGED <<advisory, work>> /\ call[t].op \in {"delete", "delete_many", "clear"}
      BY <1>4 DEF Pg!Delete
    <2> HIDE DEF targets
    <2>3. /\ pc'[t] = "delete" /\ call'[t] = call[t]
          /\ want'[t] = NoKey => todo'[t] = {}
      BY <1>0, <2>1, <2>2, ExecuteTypes, GoToLocal, FirstKey
    <2>4. QED
      BY <1>0, <2>2, <2>3 DEF SessionOf, StatementOf, LocksOf, RowsOf
  <1>5. CASE Pg!Enter(t)
    <2>1. /\ pc[t] = "start" /\ Pg!Execute(t, "lock", DOMAIN call[t].items)
          /\ UNCHANGED <<advisory, work, got>> /\ Pg!Guarded(call[t])
      BY <1>5 DEF Pg!Enter, Pg!Guarded
    <2>2. /\ pc'[t] = "lock" /\ call'[t] = call[t] /\ todo'[t] = DOMAIN call[t].items
          /\ want'[t] \in Pg!First("lock", todo'[t])
      BY <1>0, <1>a, <2>1, ExecuteTypes, GoToLocal
    <2>3. want'[t] = NoKey => todo'[t] = {}
      BY <1>a, <2>2, FirstKey
    <2>4. QED
      BY <1>0, <2>1, <2>2, <2>3 DEF SessionOf, StatementOf, LocksOf, RowsOf
  <1>6. CASE Pg!TakeLock(t)
    <2> DEFINE k == want[t]
    <2>1. /\ pc[t] = "lock" /\ todo[t] # {} /\ Pg!Advance(t) /\ work' = work
          /\ advisory' = [advisory EXCEPT ![k] = t]
      BY <1>6 DEF Pg!TakeLock
    <2>2. k \in Pg!First("lock", todo[t])
      BY <1>0, <2>1 DEF StatementOf
    <2>3. k \in todo[t] /\ k \in Keys /\ \A i \in todo[t] : k <= i
      BY <1>a, <2>1, <2>2, FirstKey
    <2>4. /\ todo'[t] = todo[t] \ {k} /\ want'[t] \in Pg!First("lock", todo'[t])
          /\ UNCHANGED <<data, pc, call, answer, found, got>>
      BY <1>0, <2>1, AdvanceTypes
    <2>5. want'[t] = NoKey => todo'[t] = {}
      BY <1>a, <2>4, FirstKey
    <2>6. \A i \in Keys : advisory'[i] = IF i = k THEN t ELSE advisory[i]
      BY <1>0, <2>1, PgTypes
    <2>7. Pg!Guarded(call[t])
      BY <1>0, <2>1 DEF SessionOf
    <2>8. ASSUME NEW j \in todo'[t], NEW i \in Keys, advisory'[i] = t PROVE i < j
      <3>1. j \in todo[t] /\ j # k /\ k <= j /\ j \in Int /\ i \in Int /\ k \in Int
        BY <1>a, <2>3, <2>4, KeyAssumption
      <3>2. CASE i = k
        BY <3>1, <3>2
      <3>3. CASE i # k
        BY <1>0, <2>1, <2>6, <2>8, <3>1, <3>3 DEF LocksOf
      <3>4. QED
        BY <3>2, <3>3
    <2>9. SessionOf(t)'
      BY <1>0, <2>1, <2>4 DEF SessionOf
    <2>10. StatementOf(t)'
      BY <2>1, <2>4, <2>5 DEF StatementOf
    <2>11. LocksOf(t)'
      BY <1>0, <1>a, <2>1, <2>3, <2>4, <2>6, <2>7, <2>8 DEF LocksOf
    <2>12. RowsOf(t)'
      BY <1>0, <2>1, <2>4 DEF RowsOf
    <2>13. QED
      BY <2>9, <2>10, <2>11, <2>12
  <1>7. CASE Pg!Locked(t)
    <2>1. /\ pc[t] = "lock" /\ todo[t] = {} /\ pc'[t] = "check" /\ call'[t] = call[t]
          /\ UNCHANGED <<data, advisory, work, found, got, todo, want>>
      BY <1>0, <1>7, GoToLocal DEF Pg!Locked
    <2>2. want[t] = NoKey
      BY <1>0, <2>1 DEF StatementOf, Pg!First
    <2>3. QED
      BY <1>0, <2>1, <2>2 DEF SessionOf, StatementOf, LocksOf, RowsOf
  <1>8. CASE Pg!Check(t)
    <2> DEFINE r == call[t]
               present == Pg!Present(data)
    <2>1. CASE Pg!Rollback(t, Pg!KV!KeyError)
      BY <1>0, <2>1, RollbackCorrect
    <2>2. CASE /\ ~Pg!Refuses(r.items, r.on_conflict, present)
               /\ found' = [found EXCEPT ![t] = Pg!Conflicts(r.items, present)]
               /\ UNCHANGED <<data, advisory, work, got>>
      <3>1. pc[t] = "check" /\ found'[t] = Conflicts(r.items, Present(data))
        BY <1>0, <1>8, <2>2, PgTypes, SameData DEF Pg!Check
      <3>2. ~Refuses(r.items, r.on_conflict, found'[t]) /\ Pg!Guarded(r)
        BY <1>0, <2>2, <3>1, SameData DEF Refuses, Conflicts, SessionOf
      <3>3. CASE r.on_conflict = "merge" /\ Pg!GoTo(t, "read") /\ UNCHANGED <<todo, want>>
        <4>1. pc'[t] = "read" /\ call'[t] = call[t]
          BY <1>0, <3>3, GoToLocal
        <4>2. QED
          BY <1>0, <2>2, <3>1, <3>2, <3>3, <4>1 DEF SessionOf, StatementOf, LocksOf, RowsOf
      <3>4. CASE /\ r.on_conflict # "merge"
                 /\ Pg!Execute(t, "write", DOMAIN Pg!ToWrite(r.items, r.on_conflict, present, data))
        <4>1. call'[t] = r
          BY <1>0, <3>4, GoToLocal DEF Pg!Execute
        <4>2. Pg!Planned(t)' = ToWrite(r.items, r.on_conflict, found'[t], got'[t])
          BY <3>2, <4>1, SameData DEF Pg!Planned, Pg!Guarded
        <4>3. DOMAIN ToWrite(r.items, r.on_conflict, found'[t], got'[t])
                = DOMAIN Pg!ToWrite(r.items, r.on_conflict, present, data)
          BY <3>1, SameData DEF ToWrite, Conflicts
        <4>4. DOMAIN Pg!ToWrite(r.items, r.on_conflict, present, data) \in SUBSET Keys
          BY <1>a DEF Pg!ToWrite
        <4>5. QED
          BY <2>2, <3>1, <3>2, <3>4, <4>2, <4>3, <4>4, StartWrite DEF Pg!Guarded
      <3>5. QED
        BY <1>8, <2>1, <2>2, <3>1, <3>3, <3>4 DEF Pg!Check
    <2>3. QED
      BY <1>8, <2>1, <2>2 DEF Pg!Check
  <1>9. CASE Pg!ReadNext(t)
    <2>1. pc[t] = "read" /\ UNCHANGED <<data, advisory, work, pc, call, found, todo, want>>
      BY <1>9 DEF Pg!ReadNext
    <2>2. QED
      BY <1>0, <2>1 DEF SessionOf, StatementOf, LocksOf, RowsOf
  <1>10. CASE Pg!ReadDone(t)
    <2>1. /\ pc[t] = "read" /\ DOMAIN got[t] = found[t]
          /\ Pg!Execute(t, "write", DOMAIN Pg!Planned(t))
          /\ UNCHANGED <<data, advisory, work, found, got>>
      BY <1>10 DEF Pg!ReadDone
    <2>2. call'[t] = call[t]
      BY <1>0, <2>1, GoToLocal DEF Pg!Execute
    <2>3. Pg!Planned(t)' = Pg!Planned(t)
      BY <2>1, <2>2 DEF Pg!Planned
    <2>4. DOMAIN Pg!Planned(t) \in SUBSET Keys
      BY <1>a DEF Pg!Planned, Pg!ToWrite
    <2>5. /\ Pg!Guarded(call[t]) /\ call[t].op = "set_many"
          /\ ~Refuses(call[t].items, call[t].on_conflict, found'[t])
      BY <1>0, <2>1 DEF SessionOf, Pg!Guarded
    <2>6. QED
      BY <2>1, <2>3, <2>4, <2>5, StartWrite
  <1>11. CASE Pg!TakeRow(t)
    <2> DEFINE k == want[t]
               v == IF pc[t] = "write" THEN Pg!Planned(t)[k] ELSE Absent
    <2>1. /\ pc[t] \in {"write", "delete"} /\ k \in todo[t] /\ Pg!Advance(t)
          /\ advisory' = advisory
      BY <1>11 DEF Pg!TakeRow
    <2>2. work' = [work EXCEPT ![t] =
            [i \in DOMAIN work[t] \cup {k} |-> IF i # k THEN work[t][i] ELSE v]]
      BY <1>11 DEF Pg!TakeRow
    <2>3. work'[t] = [i \in DOMAIN work[t] \cup {k} |-> IF i # k THEN work[t][i] ELSE v]
      BY <1>0, <2>2, PgTypes
    <2>4. /\ todo'[t] = todo[t] \ {k} /\ want'[t] \in Pg!First(pc[t], todo'[t])
          /\ UNCHANGED <<data, pc, call, answer, found, got>>
      BY <1>0, <2>1, AdvanceTypes
    <2>5. want'[t] = NoKey => todo'[t] = {}
      BY <1>a, <2>4, FirstKey
    <2>6. Pg!Planned(t)' = Pg!Planned(t)
      BY <2>4 DEF Pg!Planned
    <2>7. SessionOf(t)' /\ LocksOf(t)'
      BY <1>0, <2>1, <2>4 DEF SessionOf, LocksOf
    <2>8. StatementOf(t)'
      BY <2>1, <2>4, <2>5 DEF StatementOf
    <2>9. RowsOf(t)'
      BY <1>0, <2>1, <2>3, <2>4, <2>6 DEF RowsOf
    <2>10. QED
      BY <2>7, <2>8, <2>9
  <1>12. CASE Pg!SkipDeadRow(t)
    <2>1. pc[t] = "delete" /\ Pg!Advance(t) /\ UNCHANGED <<advisory, work>>
      BY <1>12 DEF Pg!SkipDeadRow
    <2>2. /\ todo'[t] = todo[t] \ {want[t]} /\ want'[t] \in Pg!First(pc[t], todo'[t])
          /\ UNCHANGED <<data, pc, call, answer, found, got>>
      BY <1>0, <2>1, AdvanceTypes
    <2>3. want'[t] = NoKey => todo'[t] = {}
      BY <1>a, <2>2, FirstKey
    <2>4. QED
      BY <1>0, <2>1, <2>2, <2>3 DEF SessionOf, StatementOf, LocksOf, RowsOf
  <1>13. CASE Pg!Finish(t)
    <2>1. /\ want[t] = NoKey /\ Pg!Release(t) /\ Pg!End(t, Pg!KV!Ok)
          /\ todo' = [u \in Threads |->
                IF pc[u] = "delete"
                THEN {k \in todo[u] : k \in DOMAIN work[t] => work[t][k] # Absent}
                ELSE todo[u]]
      BY <1>13 DEF Pg!Finish, Pg!Commit
    <2>2. todo'[t] = {} /\ pc'[t] = "idle"
      BY <1>0, <2>1, PgTypes DEF StatementOf, Pg!End
    <2>3. QED
      BY <1>0, <2>1, <2>2, ReleaseTypes, IdleCorrect
  <1>14. CASE Pg!Abort(t)
    BY <1>0, <1>14, RollbackCorrect DEF Pg!Abort
  <1>15. QED
    BY <1>1, <1>2, <1>3, <1>4, <1>5, <1>6, <1>7, <1>8, <1>9, <1>10, <1>11, <1>12, <1>13, <1>14
       DEF Pg!Step

LEMMA PgBaseCorrect ==
    ASSUME PgBase, NEW t \in Threads, Pg!Begin(t) \/ Pg!Step(t)
    PROVE  PgBase'
  <1>1. (Pg!TypeOK)'
    BY PgTypeCorrect
  <1>2. ASSUME NEW u \in Threads
        PROVE  SessionOf(u)' /\ StatementOf(u)' /\ LocksOf(u)' /\ RowsOf(u)'
    <2>1. CASE u = t
      BY <2>1, OwnCorrect
    <2>2. CASE u # t
      BY <2>2, PgOthersKeep, OthersCorrect DEF PgBase
    <2>3. QED
      BY <2>1, <2>2
  <1>3. QED
    BY <1>1, <1>2 DEF PgBase, SessionInv, StatementInv, LocksInv, RowsInv

-----------------------------------------------------------------------------
\* Who writes on a site of batches: nobody but the holders of advisory locks.
LEMMA BatchWriters ==
    ASSUME PgInv, Batches, NEW t \in Threads, pc[t] # "idle"
    PROVE  /\ call[t].op \in Pg!KV!ReadOps \/ Pg!Guarded(call[t])
           /\ pc[t] # "delete"
           /\ pc[t] \in {"lock", "check", "read", "write"} => Pg!Guarded(call[t])
           /\ \A k \in DOMAIN work[t] : k \in DOMAIN call[t].items /\ advisory[k] = t
  <1>1. call[t].op \in Pg!KV!ReadOps \/ Pg!Guarded(call[t])
    BY DEF PgInv, CallsOf, Batches
  <1>2. SessionOf(t) /\ LocksOf(t) /\ RowsOf(t)
    BY DEF PgInv, PgBase, SessionInv, LocksInv, RowsInv
  <1>3. pc[t] # "delete" /\ (pc[t] \in {"lock", "check", "read", "write"} => Pg!Guarded(call[t]))
    BY <1>1, <1>2 DEF SessionOf, Pg!Guarded, Pg!KV!ReadOps
  <1>4. ASSUME NEW k \in DOMAIN work[t]
        PROVE  k \in DOMAIN call[t].items /\ advisory[k] = t
    <2>1. pc[t] = "write" /\ Pg!Guarded(call[t])
      BY <1>2, <1>3 DEF RowsOf
    <2>2. k \in DOMAIN Pg!Planned(t)
      BY <1>2, <2>1 DEF RowsOf
    <2>3. k \in DOMAIN call[t].items
      BY <2>2 DEF Pg!Planned, Pg!ToWrite
    <2>4. QED
      BY <1>2, <2>1, <2>3 DEF LocksOf
  <1>5. QED
    BY <1>1, <1>3, <1>4

\* No commit touches the keys of a batch that has been checked and is not done.
LEMMA RowsStay ==
    ASSUME PgInv, Batches, NEW t \in Threads, Pg!Begin(t) \/ Pg!Step(t),
           NEW u \in Threads \ {t}, pc[u] \in {"read", "write"}, Pg!Guarded(call[u])
    PROVE  \A k \in DOMAIN call[u].items : data'[k] = data[k]
  <1>1. CASE UNCHANGED data
    BY <1>1
  <1>2. CASE Pg!Finish(t)
    <2>1. data' = Stored(data, work[t]) /\ pc[t] # "idle"
      BY <1>2, SameData DEF Pg!Finish, Pg!Commit
    <2>2. \A k \in DOMAIN call[u].items : k \in Keys /\ advisory[k] = u
      <3>1. DOMAIN call[u].items \subseteq Keys
        BY PgTypes, PgRequest DEF PgInv, PgBase
      <3>2. LocksOf(u)
        BY DEF PgInv, PgBase, LocksInv
      <3>3. QED
        BY <3>1, <3>2 DEF LocksOf
    <2>3. \A k \in DOMAIN call[u].items : k \notin DOMAIN work[t]
      BY <2>1, <2>2, BatchWriters
    <2>4. QED
      BY <2>1, <2>2, <2>3 DEF Stored
  <1>3. QED
    BY <1>1, <1>2 DEF Pg!Begin, Pg!Step, Pg!Read, Pg!Iterate, Pg!SetNothing, Pg!Overwrite,
          Pg!Delete, Pg!Enter, Pg!TakeLock, Pg!Locked, Pg!Check, Pg!ReadNext, Pg!ReadDone,
          Pg!TakeRow, Pg!SkipDeadRow, Pg!Abort, Pg!Rollback, Pg!Advance

LEMMA CurrentCorrect ==
    ASSUME PgInv, Batches, NEW t \in Threads, Pg!Begin(t) \/ Pg!Step(t), NEW u \in Threads
    PROVE  CurrentOf(u)'
  <1>0. Pg!TypeOK /\ CurrentOf(u) /\ SessionOf(t) /\ DOMAIN call[u].items \subseteq Keys
    BY PgTypes, PgRequest DEF PgInv, PgBase, SessionInv
  <1>1. CASE u # t
    <2>1. OtherKept(u)
      BY <1>0, <1>1, PgOthersKeep
    <2>2. SUFFICES ASSUME pc[u] \in {"read", "write"}, Pg!Guarded(call[u])
                   PROVE  /\ found[u] = Conflicts(call[u].items, Present(data'))
                          /\ \A k \in DOMAIN got[u] : k \in found[u] /\ got[u][k] = data'[k]
      BY <2>1 DEF CurrentOf, OtherKept, Present
    <2>3. /\ found[u] = Conflicts(call[u].items, Present(data))
          /\ \A k \in DOMAIN got[u] : k \in found[u] /\ got[u][k] = data[k]
      BY <1>0, <2>2 DEF CurrentOf
    <2>4. \A k \in DOMAIN call[u].items : data'[k] = data[k]
      BY <1>1, <2>2, RowsStay
    <2>5. QED
      BY <1>0, <2>3, <2>4 DEF Conflicts, Present
  <1>2. CASE u = t
    <2> USE <1>2
    <2>1. CASE pc'[t] \notin {"read", "write"}
      BY <2>1 DEF CurrentOf
    <2>2. CASE Pg!Overwrite(t)
      <3>1. call'[t] = call[t] /\ ~Pg!Guarded(call[t])
        BY <1>0, <2>2, GoToLocal DEF Pg!Overwrite, Pg!Execute, Pg!Guarded
      <3>2. QED
        BY <3>1 DEF CurrentOf
    <2>3. CASE Pg!Check(t)
      <3>1. CASE Pg!Rollback(t, Pg!KV!KeyError)
        <4>1. pc'[t] = "idle"
          BY <1>0, <3>1, PgTypes DEF Pg!Rollback, Pg!End
        <4>2. QED
          BY <2>1, <4>1
      <3>2. CASE /\ found' = [found EXCEPT ![t] = Pg!Conflicts(call[t].items, Pg!Present(data))]
                 /\ UNCHANGED <<data, got>>
                 /\ \E phase : Pg!GoTo(t, phase)
        <4>1. call'[t] = call[t] /\ found'[t] = Conflicts(call[t].items, Present(data))
          BY <1>0, <3>2, GoToLocal, PgTypes, SameData
        <4>2. DOMAIN got'[t] = {}
          BY <1>0, <2>3, <3>2 DEF Pg!Check, SessionOf
        <4>3. QED
          BY <3>2, <4>1, <4>2 DEF CurrentOf, Present
      <3>3. QED
        BY <2>3, <3>1, <3>2 DEF Pg!Check, Pg!Execute, Pg!locks
    <2>4. CASE Pg!ReadNext(t)
      <3>1. PICK k \in found[t] \ DOMAIN got[t] : got' = [got EXCEPT ![t] =
                [i \in DOMAIN got[t] \cup {k} |-> IF i = k THEN data[k] ELSE got[t][i]]]
        BY <2>4 DEF Pg!ReadNext
      <3>2. got'[t] = [i \in DOMAIN got[t] \cup {k} |-> IF i = k THEN data[k] ELSE got[t][i]]
        BY <1>0, <3>1, PgTypes
      <3>3. pc[t] = "read" /\ UNCHANGED <<data, pc, call, found>>
        BY <2>4 DEF Pg!ReadNext
      <3>4. QED
        BY <1>0, <3>2, <3>3 DEF CurrentOf, Present
    <2>5. CASE Pg!ReadDone(t)
      <3>1. pc[t] = "read" /\ call'[t] = call[t] /\ UNCHANGED <<data, found, got>>
        BY <1>0, <2>5, GoToLocal DEF Pg!ReadDone, Pg!Execute, Pg!reads
      <3>2. QED
        BY <1>0, <3>1 DEF CurrentOf, Present
    <2>6. CASE Pg!TakeRow(t) \/ Pg!SkipDeadRow(t) \/ Pg!TakeLock(t)
      <3>1. UNCHANGED <<data, pc, call, found, got>>
        BY <2>6 DEF Pg!TakeRow, Pg!SkipDeadRow, Pg!TakeLock, Pg!Advance, Pg!reads
      <3>2. QED
        BY <1>0, <3>1 DEF CurrentOf, Present
    <2>7. CASE \/ Pg!Begin(t) \/ Pg!Read(t) \/ Pg!Iterate(t) \/ Pg!SetNothing(t)
               \/ Pg!Finish(t) \/ Pg!Abort(t) \/ Pg!Locked(t)
      <3>1. pc'[t] \in {"start", "idle", "check"}
        BY <1>0, <2>7, PgTypes DEF Pg!Begin, Pg!Read, Pg!Iterate, Pg!SetNothing, Pg!Finish,
              Pg!Abort, Pg!Locked, Pg!Commit, Pg!Rollback, Pg!End, Pg!GoTo
      <3>2. QED
        BY <2>1, <3>1
    <2>8. CASE Pg!Delete(t) \/ Pg!Enter(t)
      <3>1. pc'[t] \in {"delete", "lock"}
        BY <1>0, <2>8, PgTypes DEF Pg!Delete, Pg!Enter, Pg!Execute, Pg!GoTo
      <3>2. QED
        BY <2>1, <3>1
    <2>9. QED
      BY <2>2, <2>3, <2>4, <2>5, <2>6, <2>7, <2>8 DEF Pg!Step
  <1>3. QED
    BY <1>1, <1>2

-----------------------------------------------------------------------------
\* What a batch has planned, when it comes to commit it, is what resolve_conflicts
\* would decide at that instant.
LEMMA PlanIsCurrent ==
    ASSUME PgInv, Batches, NEW t \in Threads, pc[t] = "write"
    PROVE  LET r == call[t] IN
           /\ ~Refuses(r.items, r.on_conflict, Present(data))
           /\ Pg!Planned(t) = ToWrite(r.items, r.on_conflict, Present(data), data)
  <1> DEFINE r == call[t]
  <1>0. Pg!Guarded(r) /\ SessionOf(t) /\ CurrentOf(t) /\ r \in Pg!KV!Request
    BY BatchWriters, PgTypes DEF PgInv, PgBase, SessionInv
  <1>1. /\ found[t] = DOMAIN r.items \cap Present(data)
        /\ \A k \in DOMAIN got[t] : got[t][k] = data[k]
    BY <1>0 DEF CurrentOf, Conflicts
  <1>2. /\ r.on_conflict \in OnConflict \ {"overwrite"}
        /\ ~Refuses(r.items, r.on_conflict, found[t])
        /\ r.on_conflict = "merge" => found[t] \subseteq DOMAIN got[t]
    BY <1>0, PgRequest DEF SessionOf, Pg!Guarded
  <1>3. ~Refuses(r.items, r.on_conflict, Present(data))
    BY <1>1, <1>2 DEF Refuses, Conflicts
  <1> DEFINE K == {i \in DOMAIN r.items : r.on_conflict = "skip" => i \notin found[t]}
  <1>4. K = {i \in DOMAIN r.items : r.on_conflict = "skip" => i \notin Present(data)}
    BY <1>1
  <1>5. ASSUME NEW k \in K
        PROVE  (IF k \in found[t] THEN Merged(OrEmpty(got[t][k]), r.items[k]) ELSE r.items[k])
             = (IF k \in Present(data) THEN Merged(OrEmpty(data[k]), r.items[k])
                ELSE r.items[k])
    <2>1. CASE k \notin found[t]
      BY <1>1, <2>1
    <2>2. CASE k \in found[t]
      <3>1. r.on_conflict = "merge"
        BY <1>1, <1>2, <2>2 DEF Refuses, Conflicts, OnConflict
      <3>2. got[t][k] = data[k]
        BY <1>1, <1>2, <2>2, <3>1
      <3>3. QED
        BY <1>1, <2>2, <3>2
    <2>3. QED
      BY <2>1, <2>2
  <1>6. ToWrite(r.items, r.on_conflict, found[t], got[t])
          = ToWrite(r.items, r.on_conflict, Present(data), data)
    BY <1>4, <1>5 DEF ToWrite
  <1>7. Pg!Planned(t) = ToWrite(r.items, r.on_conflict, found[t], got[t])
    BY <1>2, SameData DEF Pg!Planned
  <1>8. QED
    BY <1>3, <1>6, <1>7

\* What the contract says of reads and batches.
LEMMA PgPromises ==
    /\ \A r, d : r.op # "set_many" => ~Pg!KV!Refused(r, d)
    /\ \A r, d : r.op \in Pg!KV!ReadOps =>
            /\ Pg!KV!Answer(r, d) = Pg!KV!Returns(Pg!KV!Seen(r, d))
            /\ DOMAIN Pg!KV!Effect(r, d) = {}
    /\ \A r, d : Pg!Guarded(r) =>
            /\ Pg!KV!Refused(r, d) <=> Refuses(r.items, r.on_conflict, Present(d))
            /\ Pg!KV!Answer(r, d) = IF Pg!KV!Refused(r, d) THEN Pg!KV!KeyError ELSE Pg!KV!Ok
            /\ Pg!KV!Effect(r, d) = ToWrite(r.items, r.on_conflict, Present(d), d)
  <1>1. \A r, d : r.op # "set_many" => ~Pg!KV!Refused(r, d)
    BY DEF Pg!KV!Refused
  <1>2. ASSUME NEW r, NEW d, r.op \in Pg!KV!ReadOps
        PROVE  /\ Pg!KV!Answer(r, d) = Pg!KV!Returns(Pg!KV!Seen(r, d))
               /\ DOMAIN Pg!KV!Effect(r, d) = {}
    <2>1. ~Pg!KV!Refused(r, d)
      BY <1>1, <1>2 DEF Pg!KV!ReadOps
    <2>2. Pg!KV!Effect(r, d) = [k \in {} |-> Absent]
      BY <1>2 DEF Pg!KV!Effect, Pg!KV!ReadOps
    <2>3. Pg!KV!Answer(r, d) = Pg!KV!Returns(Pg!KV!Seen(r, d))
      BY <1>2, <2>1 DEF Pg!KV!Answer
    <2>4. QED
      BY <2>2, <2>3
  <1>3. ASSUME NEW r, NEW d, Pg!Guarded(r)
        PROVE  /\ Pg!KV!Refused(r, d) <=> Refuses(r.items, r.on_conflict, Present(d))
               /\ Pg!KV!Answer(r, d) = IF Pg!KV!Refused(r, d) THEN Pg!KV!KeyError ELSE Pg!KV!Ok
               /\ Pg!KV!Effect(r, d) = ToWrite(r.items, r.on_conflict, Present(d), d)
    <2>1. r.op = "set_many" /\ r.on_conflict # "overwrite"
      BY <1>3 DEF Pg!Guarded
    <2>2. Pg!KV!Refused(r, d) <=> Refuses(r.items, r.on_conflict, Present(d))
      BY <2>1, SameContract DEF Pg!KV!Refused
    <2>3. Pg!KV!Answer(r, d) = IF Pg!KV!Refused(r, d) THEN Pg!KV!KeyError ELSE Pg!KV!Ok
      BY <2>1 DEF Pg!KV!Answer, Pg!KV!ReadOps
    <2>4. Pg!KV!Effect(r, d) = Pg!KV!ToWrite(r.items, r.on_conflict, Pg!KV!Present(d), d)
      BY <2>1 DEF Pg!KV!Effect
    <2>5. QED
      BY <2>2, <2>3, <2>4, SameContract
  <1>4. QED
    BY <1>1, <1>2, <1>3

\* A call ends with its answer, and the contents change accordingly.
LEMMA PgExecutes ==
    ASSUME PgInv, site \in Sites, NEW t \in Threads, pc[t] # "idle",
           Pg!End(t, Pg!KV!Answer(call[t], data)),
           Pg!KV!Refused(call[t], data) => data' = data,
           ~Pg!KV!Refused(call[t], data) => data' = Stored(data, Pg!KV!Effect(call[t], data))
    PROVE  Pg!KV!Next
  <1>1. call[t].op \notin Pg!KV!LifecycleOps
    BY SitesAssumption DEF PgInv, CallsOf
  <1>2. Pg!KV!Ends(t, Pg!KV!Answer(call[t], data))
    <2>1. answer[t] = Pg!KV!NoAnswer
      BY PgTypes DEF PgInv, PgBase
    <2>2. QED
      BY <2>1 DEF Pg!End, Pg!KV!Ends, Pg!KV!Idle
  <1>3. data' = IF Pg!KV!Refused(call[t], data) THEN data
                ELSE Pg!KV!Stored(data, Pg!KV!Effect(call[t], data))
    BY SameContract
  <1>4. Pg!KV!Execute(t)
    BY <1>1, <1>2, <1>3 DEF Pg!KV!Execute
  <1>5. QED
    BY <1>4 DEF Pg!KV!Next

\* Among clients that only read and write batches nobody is ever the victim of
\* the deadlock detector.
LEMMA NoVictims ==
    ASSUME PgInv, Batches, IsFiniteSet(Threads), NEW t \in Threads, Pg!Abort(t)
    PROVE  FALSE
  <1>1. PICK C \in SUBSET Threads : Pg!Cycle(C)
    BY DEF Pg!Abort
  <1>2. ASSUME NEW u \in C PROVE Pg!Conditional(u)
    <2>1. pc[u] \in {"lock", "write", "delete"}
      BY <1>1 DEF Pg!Cycle, Pg!WaitsFor
    <2>2. QED
      BY <2>1, BatchWriters DEF Pg!Conditional
  <1>3. QED
    BY <1>1, <1>2, NoRing DEF PgInv

LEMMA PgStepRefines ==
    ASSUME PgInv, site \in Sites, Batches, IsFiniteSet(Threads),
           NEW t \in Threads, Pg!Begin(t) \/ Pg!Step(t)
    PROVE  Pg!KV!Next \/ UNCHANGED Pg!KV!vars
  <1>0. Pg!TypeOK
    BY DEF PgInv, PgBase
  <1>1. ASSUME UNCHANGED <<data, call, answer>> PROVE UNCHANGED Pg!KV!vars
    BY <1>1 DEF Pg!KV!vars
  <1>2. CASE Pg!Begin(t)
    <2>1. answer[t] # Pg!KV!NoAnswer
      BY <1>0, <1>2, PgTypes DEF Pg!Begin, Pg!Busy
    <2>2. Pg!KV!Invoke(t)
      BY <1>2, <2>1 DEF Pg!Begin, Pg!KV!Invoke, Pg!KV!Idle
    <2>3. QED
      BY <2>2 DEF Pg!KV!Next
  <1>3. CASE Pg!Read(t) \/ Pg!Iterate(t)
    <2>1. /\ pc[t] # "idle" /\ call[t].op \in Pg!KV!ReadOps /\ UNCHANGED data
          /\ Pg!End(t, Pg!KV!Returns(Pg!KV!Seen(call[t], data)))
      BY <1>3 DEF Pg!Read, Pg!Iterate, Pg!Starts, Pg!KV!ReadOps
    <2>2. Stored(data, Pg!KV!Effect(call[t], data)) = data
      BY <1>0, <2>1, PgTypes, PgPromises, StoredNothing
    <2>3. QED
      BY <2>1, <2>2, PgPromises, PgExecutes
  <1>4. CASE Pg!SetNothing(t)
    <2>1. /\ pc[t] # "idle" /\ Pg!Guarded(call[t]) /\ DOMAIN call[t].items = {}
          /\ UNCHANGED data /\ Pg!End(t, Pg!KV!Ok)
      BY <1>4, BatchWriters DEF Pg!SetNothing, Pg!Starts, Pg!KV!ReadOps
    <2>2. ~Pg!KV!Refused(call[t], data)
      BY <2>1, PgPromises DEF Refuses, Conflicts
    <2>3. DOMAIN Pg!KV!Effect(call[t], data) = {}
      BY <2>1, PgPromises DEF ToWrite
    <2>4. Stored(data, Pg!KV!Effect(call[t], data)) = data
      BY <1>0, <2>3, PgTypes, StoredNothing
    <2>5. QED
      BY <2>1, <2>2, <2>4, PgPromises, PgExecutes
  <1>5. CASE Pg!Check(t)
    <2>1. CASE /\ Pg!Refuses(call[t].items, call[t].on_conflict, Pg!Present(data))
               /\ Pg!Rollback(t, Pg!KV!KeyError)
      <3>1. pc[t] = "check" /\ UNCHANGED data /\ Pg!End(t, Pg!KV!KeyError)
        BY <1>5, <2>1 DEF Pg!Check, Pg!Rollback
      <3>2. Pg!Guarded(call[t])
        BY <3>1, BatchWriters
      <3>3. Pg!KV!Refused(call[t], data)
        BY <2>1, <3>2, PgPromises, SameData
      <3>4. QED
        BY <3>1, <3>2, <3>3, PgPromises, PgExecutes
    <2>2. CASE UNCHANGED data /\ \E phase : Pg!GoTo(t, phase)
      BY <1>1, <2>2 DEF Pg!GoTo
    <2>3. QED
      BY <1>5, <2>1, <2>2 DEF Pg!Check, Pg!Execute
  <1>6. CASE Pg!Finish(t)
    <2>1. /\ pc[t] \in {"write", "delete"} /\ want[t] = NoKey
          /\ Pg!End(t, Pg!KV!Ok) /\ data' = Stored(data, work[t])
      BY <1>6, SameData DEF Pg!Finish, Pg!Commit
    <2>2. pc[t] = "write" /\ Pg!Guarded(call[t])
      BY <2>1, BatchWriters
    <2>3. /\ DOMAIN work[t] = DOMAIN Pg!Planned(t)
          /\ \A k \in DOMAIN work[t] : work[t][k] = Pg!Planned(t)[k]
      BY <2>1, <2>2 DEF PgInv, PgBase, StatementInv, StatementOf, RowsInv, RowsOf
    <2>4. data' = Stored(data, Pg!Planned(t))
      BY <2>1, <2>3 DEF Stored
    <2>5. ~Pg!KV!Refused(call[t], data) /\ Pg!Planned(t) = Pg!KV!Effect(call[t], data)
      BY <2>2, PlanIsCurrent, PgPromises
    <2>6. QED
      BY <2>1, <2>2, <2>4, <2>5, PgPromises, PgExecutes
  <1>7. CASE Pg!Abort(t)
    BY <1>7, NoVictims
  <1>8. CASE \/ Pg!Overwrite(t) \/ Pg!Delete(t) \/ Pg!Enter(t) \/ Pg!Locked(t)
             \/ Pg!ReadNext(t) \/ Pg!ReadDone(t)
    BY <1>1, <1>8 DEF Pg!Overwrite, Pg!Delete, Pg!Enter, Pg!Locked, Pg!ReadNext, Pg!ReadDone,
       Pg!Execute, Pg!GoTo
  <1>9. CASE Pg!TakeLock(t) \/ Pg!TakeRow(t) \/ Pg!SkipDeadRow(t)
    BY <1>1, <1>9 DEF Pg!TakeLock, Pg!TakeRow, Pg!SkipDeadRow, Pg!Advance
  <1>10. QED
    BY <1>2, <1>3, <1>4, <1>5, <1>6, <1>7, <1>8, <1>9 DEF Pg!Step

-----------------------------------------------------------------------------
(* Redis: the argument is about what the clients know of the server.       *)
(* __keys__ and the values change together in one MULTI/EXEC               *)
(* (KeySetMatchesData).  What a client has read of its watched keys stays  *)
(* true until somebody touches one of them, and then it is marked          *)
(* (RedisCurrentInv), so that an EXEC that succeeds writes what resolve_   *)
(* conflicts would decide at that instant.  A key that no DEL has named    *)
(* since a scan began is in a batch already yielded or in one to come      *)
(* (RedisScanInv).                                                         *)

\* The facts of StoreData_proofs, about RedisStore's copies of the operators.
LEMMA RedisValueDef ==
    /\ Redis!Value = Value
    /\ \A v : v \in Redis!Value <=> \E F \in SUBSET Fields : v \in [F -> Vals]
  BY DEF Redis!Value, Value

LEMMA RedisAbsent == Absent \notin Redis!Value
  BY RedisValueDef, AbsentAssumption

LEMMA RedisItemsDef ==
    ASSUME NEW w
    PROVE  /\ w \in Redis!Items <=> \E K \in SUBSET Keys : w \in [K -> Redis!Value]
           /\ w \in Redis!Writes <=> \E K \in SUBSET Keys : w \in [K -> Redis!Slot]
           /\ w \in Redis!Items => w \in Redis!Writes /\ DOMAIN w \in SUBSET Keys
           /\ w \in Redis!Writes => DOMAIN w \in SUBSET Keys
                               /\ \A k \in DOMAIN w : w[k] \in Redis!Slot
  BY DEF Redis!Items, Redis!Writes, Redis!Slot

LEMMA RedisMergedType ==
    ASSUME NEW old \in Redis!Value, NEW new \in Redis!Value
    PROVE  Redis!Merged(old, new) \in Redis!Value
  <1>1. Redis!Merged(old, new) = Merged(old, new)
    BY DEF Redis!Merged, Merged
  <1>2. QED
    BY <1>1, RedisValueDef, MergedType

LEMMA RedisOrEmptyType ==
    ASSUME NEW v \in Redis!Slot
    PROVE  Redis!OrEmpty(v) \in Redis!Value
  <1>1. Redis!OrEmpty(v) = OrEmpty(v) /\ v \in Slot
    BY RedisValueDef DEF Redis!OrEmpty, OrEmpty, Redis!Slot, Slot
  <1>2. QED
    BY <1>1, RedisValueDef, OrEmptyType

LEMMA RedisStoredType ==
    ASSUME NEW d \in Redis!Contents, NEW w \in Redis!Writes
    PROVE  Redis!Stored(d, w) \in Redis!Contents
  BY RedisItemsDef DEF Redis!Stored, Redis!Contents

LEMMA RedisStoredNothing ==
    ASSUME NEW d \in Redis!Contents, NEW w, DOMAIN w = {}
    PROVE  Redis!Stored(d, w) = d
  BY DEF Redis!Stored, Redis!Contents

\* The calls of every site are well formed.
LEMMA RedisCalls == Requests \subseteq Redis!KV!Request
  <1>1. Redis!KV!Request = Pg!KV!Request
    BY DEF Redis!KV!Request, Pg!KV!Request, Redis!KV!Items, Pg!KV!Items, Redis!KV!Value,
       Pg!KV!Value, Redis!KV!OnConflict, Pg!KV!OnConflict, Redis!KV!LifecycleOps,
       Pg!KV!LifecycleOps, Redis!KV!WriteOps, Pg!KV!WriteOps, Redis!KV!ReadOps, Pg!KV!ReadOps
  <1>2. QED
    BY <1>1, PgCalls

(* What the phase of a client says about its call and its locals.          *)
RedisPhaseOf(t) ==
    LET r == call[t] IN
    /\ pc[t] \in {"check", "read", "exec"} => r.op = "set_many" /\ r.on_conflict # "overwrite"
    /\ pc[t] \in {"listed", "drop"} => r.op = "clear"
    /\ pc[t] = "list" => r.op \in Redis!ScanOps
    /\ pc[t] = "start" /\ r.op # "set_many" => DOMAIN got[t] = {}
    /\ pc[t] = "check" => DOMAIN got[t] = {}
    /\ pc[t] = "read" => r.on_conflict = "merge"
    /\ pc[t] \in {"read", "exec"} => ~Redis!Refuses(r.items, r.on_conflict, found[t])
    /\ pc[t] = "exec" /\ r.on_conflict = "merge" => found[t] \subseteq DOMAIN got[t]

RedisPhaseInv == \A t \in Threads : RedisPhaseOf(t)

(* What a client that is not marked has read is still so.                  *)
RedisCurrentOf(t) ==
    pc[t] \in {"read", "exec"} /\ ~dirty[t] =>
        /\ found[t] = Redis!Conflicts(call[t].items, Redis!Present(data))
        /\ \A k \in DOMAIN got[t] : k \in found[t] /\ got[t][k] = data[k]

RedisCurrentInv == \A t \in Threads : RedisCurrentOf(t)

(* A scan has its steady keys behind it or before it.                      *)
RedisScanOf(t) ==
    pc[t] = "list" =>
        /\ todo[t] \cup DOMAIN got[t] \subseteq found[t]
        /\ steady[t] \subseteq Redis!Present(data)
        /\ steady[t] \subseteq todo[t] \cup DOMAIN got[t]

RedisScanInv == \A t \in Threads : RedisScanOf(t)

RedisBase == Redis!TypeOK /\ RedisPhaseInv /\ Redis!KeySetMatchesData

-----------------------------------------------------------------------------
\* The contract's copies of the data operators are the store's own.
LEMMA RedisSameData ==
    /\ Redis!KV!Value = Redis!Value
    /\ Redis!KV!Items = Redis!Items
    /\ Redis!KV!OnConflict = Redis!OnConflict
    /\ Redis!KV!EmptyStore = Redis!EmptyStore
    /\ \A d : Redis!KV!Present(d) = Redis!Present(d)
    /\ \A i, oc, f : Redis!KV!Refuses(i, oc, f) = Redis!Refuses(i, oc, f)
    /\ \A i, oc, f, d : Redis!KV!ToWrite(i, oc, f, d) = Redis!ToWrite(i, oc, f, d)
    /\ \A d, w : Redis!KV!Stored(d, w) = Redis!Stored(d, w)
  <1>1. Redis!KV!Value = Redis!Value
    BY DEF Redis!KV!Value, Redis!Value
  <1>2. Redis!KV!Items = Redis!Items
    BY <1>1 DEF Redis!KV!Items, Redis!Items
  <1>3. \A i, oc, f, d : Redis!KV!ToWrite(i, oc, f, d) = Redis!ToWrite(i, oc, f, d)
    BY DEF Redis!KV!ToWrite, Redis!ToWrite, Redis!KV!Merged, Redis!Merged,
       Redis!KV!OrEmpty, Redis!OrEmpty
  <1>4. \A d : Redis!KV!Present(d) = Redis!Present(d)
    BY DEF Redis!KV!Present, Redis!Present
  <1>5. \A d, w : Redis!KV!Stored(d, w) = Redis!Stored(d, w)
    BY DEF Redis!KV!Stored, Redis!Stored
  <1>6. Redis!KV!OnConflict = Redis!OnConflict /\ Redis!KV!EmptyStore = Redis!EmptyStore
    BY DEF Redis!KV!OnConflict, Redis!OnConflict, Redis!KV!EmptyStore, Redis!EmptyStore
  <1>7. \A i, oc, f : Redis!KV!Refuses(i, oc, f) = Redis!Refuses(i, oc, f)
    BY DEF Redis!KV!Refuses, Redis!Refuses, Redis!KV!Conflicts, Redis!Conflicts
  <1>8. QED
    BY <1>1, <1>2, <1>3, <1>4, <1>5, <1>6, <1>7

\* So is its way of counting.
LEMMA RedisSameCount == \A S : Redis!KV!Cardinality(S) = Redis!Cardinality(S)
  BY DEF Redis!KV!Cardinality, Redis!Cardinality

\* None of the ways a call may end is "no answer yet".
LEMMA RedisOutcomes ==
    /\ Redis!KV!Ok # Redis!KV!NoAnswer
    /\ Redis!KV!KeyError # Redis!KV!NoAnswer
    /\ \A v : Redis!KV!Returns(v) # Redis!KV!NoAnswer
  <1>1. Redis!KV!Ok # Redis!KV!NoAnswer /\ Redis!KV!KeyError # Redis!KV!NoAnswer
    BY DEF Redis!KV!Ok, Redis!KV!KeyError, Redis!KV!NoAnswer
  <1>2. ASSUME NEW v PROVE Redis!KV!Returns(v) # Redis!KV!NoAnswer
    <2>1. Redis!KV!Returns(v).kind # Redis!KV!NoAnswer.kind
      BY DEF Redis!KV!Returns, Redis!KV!NoAnswer
    <2>2. QED
      BY <2>1
  <1>3. QED
    BY <1>1, <1>2

LEMMA RedisNothingType == Redis!Nothing \in Redis!Writes /\ DOMAIN Redis!Nothing = {}
  <1>1. Redis!Nothing \in [{} -> Redis!Slot] /\ DOMAIN Redis!Nothing = {}
    BY DEF Redis!Nothing
  <1>2. QED
    BY <1>1, RedisItemsDef

\* The fields of a call.
LEMMA RedisRequestType ==
    ASSUME NEW r \in Redis!KV!Request
    PROVE  /\ r.op \in Redis!KV!LifecycleOps \cup Redis!KV!WriteOps \cup Redis!KV!ReadOps
           /\ r.keys \in SUBSET Keys
           /\ r.items \in Redis!Items
           /\ r.on_conflict \in Redis!OnConflict
  BY RedisSameData DEF Redis!KV!Request

LEMMA RedisNoCallType == Redis!KV!NoCall \in Redis!KV!Request
  <1>1. [k \in {} |-> Absent] \in [{} -> Redis!Value] /\ [f \in {} |-> f] \in [{} -> Vals]
    OBVIOUS
  <1>2. [k \in {} |-> Absent] \in Redis!Items
    BY <1>1, RedisItemsDef
  <1>3. [f \in {} |-> f] \in Redis!Value
    BY <1>1, RedisValueDef
  <1>4. QED
    BY <1>2, <1>3, RedisSameData DEF Redis!KV!NoCall, Redis!KV!Request,
       Redis!KV!LifecycleOps, Redis!OnConflict

\* The values read of some keys and of one more are values read of some keys.
LEMMA RedisExtended ==
    ASSUME NEW g \in Redis!Writes, NEW K \in SUBSET Keys, NEW d \in Redis!Contents
    PROVE  [i \in DOMAIN g \cup K |-> IF i \in K THEN d[i] ELSE g[i]] \in Redis!Writes
  <1>1. DOMAIN g \cup K \in SUBSET Keys /\ \A i \in DOMAIN g : g[i] \in Redis!Slot
    BY RedisItemsDef
  <1>2. \A i \in K : d[i] \in Redis!Slot
    BY DEF Redis!Contents
  <1>3. [i \in DOMAIN g \cup K |-> IF i \in K THEN d[i] ELSE g[i]]
            \in [DOMAIN g \cup K -> Redis!Slot]
    BY <1>1, <1>2
  <1>4. QED
    BY <1>1, <1>3, RedisItemsDef

\* What one MULTI/EXEC of SETs does to the server: the written keys are
\* registered and hold values, and whoever watches one of them is marked.
LEMMA RedisPutFacts ==
    ASSUME Redis!TypeOK, NEW t \in Threads, NEW w \in Redis!Items, Redis!PutAll(t, w)
    PROVE  /\ data' \in Redis!Contents
           /\ Redis!Present(data') = Redis!Present(data) \cup DOMAIN w
           /\ keySet' = keySet \cup DOMAIN w
           /\ keySet' \in SUBSET Keys
           /\ dirty' \in [Threads -> BOOLEAN]
           /\ steady' = steady
           /\ \A u \in Threads \ {t} : ~dirty'[u] =>
                ~dirty[u] /\ \A k \in Redis!Watched(u) \cap Keys : data'[k] = data[k]
  <1>1. DOMAIN w \in SUBSET Keys /\ w \in Redis!Writes /\ \A k \in DOMAIN w : w[k] # Absent
    BY RedisItemsDef, RedisAbsent DEF Redis!Items
  <1>2. data' = Redis!Stored(data, w) /\ data' \in Redis!Contents
    BY <1>1, RedisStoredType DEF Redis!PutAll, Redis!TypeOK
  <1>3. Redis!Present(data') = Redis!Present(data) \cup DOMAIN w
    BY <1>1, <1>2 DEF Redis!Stored, Redis!Present
  <1>4. \A k \in Keys \ DOMAIN w : data'[k] = data[k]
    BY <1>2 DEF Redis!Stored
  <1>5. /\ keySet' = keySet \cup DOMAIN w /\ steady' = steady
        /\ dirty' = [u \in Threads |-> u # t /\ (dirty[u] \/ Redis!Watched(u) \cap DOMAIN w # {})]
    BY DEF Redis!PutAll, Redis!Touch
  <1>6. dirty' \in [Threads -> BOOLEAN] /\ keySet' \in SUBSET Keys
    BY <1>1, <1>5 DEF Redis!TypeOK
  <1>7. ASSUME NEW u \in Threads \ {t}, ~dirty'[u]
        PROVE  ~dirty[u] /\ Redis!Watched(u) \cap DOMAIN w = {}
    BY <1>5, <1>7
  <1>8. QED
    BY <1>2, <1>3, <1>4, <1>5, <1>6, <1>7

\* The same for DELs, which touch only the keys that exist.
LEMMA RedisDropFacts ==
    ASSUME Redis!TypeOK, NEW t \in Threads, NEW K \in SUBSET Keys, Redis!DropAll(t, K)
    PROVE  /\ data' \in Redis!Contents
           /\ Redis!Present(data') = Redis!Present(data) \ K
           /\ keySet' = keySet \ K
           /\ keySet' \in SUBSET Keys
           /\ dirty' \in [Threads -> BOOLEAN]
           /\ steady' = [u \in Threads |-> steady[u] \ K]
           /\ \A u \in Threads \ {t} : ~dirty'[u] =>
                ~dirty[u] /\ \A k \in Redis!Watched(u) \cap Keys : data'[k] = data[k]
  <1> DEFINE gone == [k \in K |-> Absent]
  <1>1. gone \in [K -> Redis!Slot] /\ DOMAIN gone = K
    BY DEF Redis!Slot
  <1>2. gone \in Redis!Writes
    BY <1>1, RedisItemsDef
  <1>3. data' = Redis!Stored(data, gone) /\ data' \in Redis!Contents
    BY <1>2, RedisStoredType DEF Redis!DropAll, Redis!TypeOK
  <1>4. \A k \in Keys : data'[k] = IF k \in K THEN Absent ELSE data[k]
    BY <1>3 DEF Redis!Stored
  <1>5. Redis!Present(data') = Redis!Present(data) \ K
    BY <1>4 DEF Redis!Present
  <1>6. /\ keySet' = keySet \ K /\ steady' = [u \in Threads |-> steady[u] \ K]
        /\ dirty' = [u \in Threads |->
                u # t /\ (dirty[u] \/ Redis!Watched(u) \cap (K \cap Redis!Present(data)) # {})]
    BY DEF Redis!DropAll, Redis!Touch
  <1>7. dirty' \in [Threads -> BOOLEAN] /\ keySet' \in SUBSET Keys
    BY <1>6 DEF Redis!TypeOK
  <1>8. ASSUME NEW u \in Threads \ {t}, ~dirty'[u]
        PROVE  ~dirty[u] /\ \A k \in Redis!Watched(u) \cap Keys : data'[k] = data[k]
    <2>1. ~dirty[u] /\ Redis!Watched(u) \cap (K \cap Redis!Present(data)) = {}
      BY <1>6, <1>8
    <2>2. ASSUME NEW k \in Redis!Watched(u) \cap Keys PROVE data'[k] = data[k]
      <3>1. k \notin K \/ data[k] = Absent
        BY <2>1 DEF Redis!Present
      <3>2. QED
        BY <1>4, <3>1
    <2>3. QED
      BY <2>1, <2>2
  <1>9. QED
    BY <1>3, <1>5, <1>6, <1>7, <1>8

\* What a watching client is about to write is a batch, whatever it has read.
LEMMA RedisPlanType ==
    ASSUME Redis!TypeOK, RedisPhaseInv, NEW t \in Threads, pc[t] = "exec"
    PROVE  Redis!ToWrite(call[t].items, call[t].on_conflict, found[t], got[t]) \in Redis!Items
  <1> DEFINE r == call[t]
             K == {i \in DOMAIN r.items : r.on_conflict = "skip" => i \notin found[t]}
             w == Redis!ToWrite(r.items, r.on_conflict, found[t], got[t])
  <1>1. /\ r.items \in Redis!Items /\ r.on_conflict \in Redis!OnConflict /\ got[t] \in Redis!Writes
        /\ r.on_conflict # "overwrite"
        /\ ~Redis!Refuses(r.items, r.on_conflict, found[t])
        /\ r.on_conflict = "merge" => found[t] \subseteq DOMAIN got[t]
    BY RedisRequestType DEF Redis!TypeOK, RedisPhaseInv, RedisPhaseOf
  <1>2. K \in SUBSET Keys /\ \A k \in K : k \in DOMAIN r.items /\ r.items[k] \in Redis!Value
    BY <1>1, RedisItemsDef DEF Redis!Items
  <1>3. ASSUME NEW k \in K PROVE w[k] \in Redis!Value
    <2>1. CASE k \notin found[t]
      BY <1>2, <2>1 DEF Redis!ToWrite
    <2>2. CASE k \in found[t]
      <3>1. r.on_conflict = "merge"
        BY <1>1, <2>2 DEF Redis!Refuses, Redis!Conflicts, Redis!OnConflict
      <3>2. got[t][k] \in Redis!Slot
        BY <1>1, <2>2, <3>1, RedisItemsDef
      <3>3. Redis!Merged(Redis!OrEmpty(got[t][k]), r.items[k]) \in Redis!Value
        BY <1>2, <3>2, RedisOrEmptyType, RedisMergedType
      <3>4. QED
        BY <2>2, <3>3 DEF Redis!ToWrite
    <2>3. QED
      BY <2>1, <2>2
  <1>4. w \in [K -> Redis!Value]
    BY <1>3 DEF Redis!ToWrite
  <1>5. QED
    BY <1>2, <1>4, RedisItemsDef
-----------------------------------------------------------------------------
\* The state keeps its types.
LEMMA RedisTypeCorrect ==
    ASSUME Redis!TypeOK, RedisPhaseInv, [Redis!Next]_(Redis!vars)
    PROVE  Redis!TypeOK'
  <1> USE DEF Redis!Busy
  <1>1. CASE UNCHANGED Redis!vars
    BY <1>1 DEF Redis!TypeOK, Redis!vars
  <1>2. ASSUME NEW t \in Threads, Redis!Begin(t) PROVE Redis!TypeOK'
    BY <1>2, RedisNothingType, RedisCalls DEF Redis!TypeOK, Redis!Begin, Redis!server
  <1>3. ASSUME NEW t \in Threads, Redis!Step(t) PROVE Redis!TypeOK'
    <2> USE <1>3
    <2>a. /\ call[t] \in Redis!KV!Request /\ found[t] \in SUBSET Keys
          /\ call[t].items \in Redis!Items /\ call[t].keys \in SUBSET Keys
      BY RedisRequestType DEF Redis!TypeOK
    \* A SET or DEL transaction ends the call.
    <2>b. ASSUME data' \in Redis!Contents, keySet' \in SUBSET Keys,
                 dirty' \in [Threads -> BOOLEAN], steady' \in [Threads -> SUBSET Keys],
                 Redis!End(t, Redis!KV!Ok), UNCHANGED todo
          PROVE  Redis!TypeOK'
      BY <2>b, RedisOutcomes DEF Redis!TypeOK, Redis!End
    <2>1. CASE Redis!StartScan(t)
      BY <2>1 DEF Redis!TypeOK, Redis!StartScan, Redis!Starts, Redis!GoTo, Redis!Present
    <2>2. CASE Redis!Batch(t)
      <3>1. PICK batch \in SUBSET todo[t] : Redis!Fetch(t, batch)
            /\ todo' = [todo EXCEPT ![t] = @ \ batch]
        BY <2>2 DEF Redis!Batch, Redis!Batches
      <3> DEFINE there == batch \cap Redis!Present(data)
      <3>2. there \in SUBSET Keys /\ got[t] \in Redis!Writes /\ data \in Redis!Contents
        BY DEF Redis!TypeOK, Redis!Present
      <3>3. got' = [got EXCEPT ![t] =
                [k \in DOMAIN got[t] \cup there |-> IF k \in there THEN data[k] ELSE got[t][k]]]
        BY <3>1 DEF Redis!Fetch, Redis!TypeOK
      <3>4. [k \in DOMAIN got[t] \cup there |->
                IF k \in there THEN data[k] ELSE got[t][k]] \in Redis!Writes
        BY <3>2, RedisExtended
      <3>5. got' \in [Threads -> Redis!Writes]
        BY <3>3, <3>4 DEF Redis!TypeOK
      <3>6. QED
        BY <2>2, <3>1, <3>5 DEF Redis!TypeOK, Redis!Batch, Redis!server
    <2>3. CASE Redis!ScanDone(t)
      BY <2>3, RedisOutcomes DEF Redis!TypeOK, Redis!ScanDone, Redis!Scanned, Redis!End
    <2>4. CASE Redis!Read(t) /\ UNCHANGED todo
      BY <2>4, RedisOutcomes DEF Redis!TypeOK, Redis!Read, Redis!Starts, Redis!End,
         Redis!server
    <2>5. CASE Redis!Overwrite(t) /\ UNCHANGED todo
      BY <2>5, <2>a, <2>b, RedisPutFacts DEF Redis!Overwrite, Redis!TypeOK
    <2>6. CASE Redis!Delete(t) /\ UNCHANGED todo
      BY <2>6, <2>a, <2>b, RedisDropFacts DEF Redis!Delete, Redis!TypeOK
    <2>7. CASE Redis!ClearList(t) /\ UNCHANGED todo
      BY <2>7 DEF Redis!TypeOK, Redis!ClearList, Redis!Starts, Redis!GoTo, Redis!server
    <2>8. CASE Redis!ClearCall(t) /\ UNCHANGED todo
      BY <2>8 DEF Redis!TypeOK, Redis!ClearCall, Redis!GoTo, Redis!server
    <2>9. CASE Redis!ClearDrop(t) /\ UNCHANGED todo
      BY <2>9, <2>a, <2>b, RedisDropFacts DEF Redis!ClearDrop, Redis!TypeOK
    <2>10. CASE Redis!SetNothing(t) /\ UNCHANGED todo
      BY <2>10, RedisOutcomes DEF Redis!TypeOK, Redis!SetNothing, Redis!Starts, Redis!End,
         Redis!server
    <2>11. CASE Redis!Watch(t) /\ UNCHANGED todo
      BY <2>11, RedisNothingType DEF Redis!TypeOK, Redis!Watch, Redis!Starts, Redis!GoTo,
         Redis!server
    <2>12. CASE Redis!Check(t) /\ UNCHANGED todo
      BY <2>12, <2>a, RedisOutcomes DEF Redis!TypeOK, Redis!Check, Redis!Conflicts,
         Redis!End, Redis!GoTo, Redis!server
    <2>13. CASE Redis!ReadNext(t) /\ UNCHANGED todo
      <3>1. PICK k \in found[t] \ DOMAIN got[t] : got' = [got EXCEPT ![t] =
                [i \in DOMAIN got[t] \cup {k} |-> IF i = k THEN data[k] ELSE got[t][i]]]
        BY <2>13 DEF Redis!ReadNext
      <3>2. {k} \in SUBSET Keys /\ got[t] \in Redis!Writes /\ data \in Redis!Contents
        BY <2>a DEF Redis!TypeOK
      <3>3. [i \in DOMAIN got[t] \cup {k} |-> IF i \in {k} THEN data[i] ELSE got[t][i]]
              \in Redis!Writes
        BY <3>2, RedisExtended
      <3>4. [i \in DOMAIN got[t] \cup {k} |-> IF i = k THEN data[k] ELSE got[t][i]] \in Redis!Writes
        BY <3>3
      <3>5. got' \in [Threads -> Redis!Writes]
        BY <3>1, <3>4 DEF Redis!TypeOK
      <3>6. QED
        BY <2>13, <3>5 DEF Redis!TypeOK, Redis!ReadNext, Redis!server
    <2>14. CASE Redis!ReadDone(t) /\ UNCHANGED todo
      BY <2>14 DEF Redis!TypeOK, Redis!ReadDone, Redis!GoTo, Redis!server
    <2>15. CASE Redis!Exec(t) /\ UNCHANGED todo
      BY <2>15, <2>b, RedisPlanType, RedisPutFacts DEF Redis!Exec, Redis!TypeOK
    <2>16. CASE Redis!Retry(t) /\ UNCHANGED todo
      BY <2>16 DEF Redis!TypeOK, Redis!Retry, Redis!GoTo, Redis!server
    <2>17. QED
      BY <2>1, <2>2, <2>3, <2>4, <2>5, <2>6, <2>7, <2>8, <2>9, <2>10, <2>11, <2>12,
         <2>13, <2>14, <2>15, <2>16 DEF Redis!Step
  <1>4. QED
    BY <1>1, <1>2, <1>3 DEF Redis!Next
\* A client's step leaves the other clients' calls and locals alone.
LEMMA RedisOthersKeep ==
    ASSUME Redis!TypeOK, NEW t \in Threads, Redis!Begin(t) \/ Redis!Step(t),
           NEW u \in Threads \ {t}
    PROVE  /\ pc'[u] = pc[u] /\ call'[u] = call[u] /\ answer'[u] = answer[u]
           /\ found'[u] = found[u] /\ got'[u] = got[u] /\ todo'[u] = todo[u]
  <1> USE DEF Redis!End, Redis!GoTo
  <1>1. CASE Redis!Begin(t)
    BY <1>1 DEF Redis!Begin, Redis!TypeOK
  <1>2. CASE Redis!StartScan(t) \/ Redis!Batch(t) \/ Redis!ScanDone(t)
    BY <1>2 DEF Redis!StartScan, Redis!Batch, Redis!Fetch, Redis!ScanDone, Redis!TypeOK
  <1>3. ASSUME UNCHANGED todo,
               Redis!Read(t) \/ Redis!Overwrite(t) \/ Redis!Delete(t) \/ Redis!ClearList(t)
               \/ Redis!ClearCall(t)
                   \/ Redis!ClearDrop(t)
        PROVE  /\ pc'[u] = pc[u] /\ call'[u] = call[u] /\ answer'[u] = answer[u]
               /\ found'[u] = found[u] /\ got'[u] = got[u] /\ todo'[u] = todo[u]
    BY <1>3 DEF Redis!Read, Redis!Overwrite, Redis!Delete, Redis!ClearList,
       Redis!ClearCall, Redis!ClearDrop, Redis!TypeOK
  <1>4. ASSUME UNCHANGED todo,
               Redis!SetNothing(t) \/ Redis!Watch(t) \/ Redis!Check(t) \/ Redis!ReadNext(t)
               \/ Redis!ReadDone(t)
                   \/ Redis!Exec(t) \/ Redis!Retry(t)
        PROVE  /\ pc'[u] = pc[u] /\ call'[u] = call[u] /\ answer'[u] = answer[u]
               /\ found'[u] = found[u] /\ got'[u] = got[u] /\ todo'[u] = todo[u]
    BY <1>4 DEF Redis!SetNothing, Redis!Watch, Redis!Check, Redis!ReadNext, Redis!ReadDone,
       Redis!Exec, Redis!Retry, Redis!TypeOK
  <1>5. QED
    BY <1>1, <1>2, <1>3, <1>4 DEF Redis!Step
\* The phases follow the program.
LEMMA RedisPhaseCorrect ==
    ASSUME Redis!TypeOK, RedisPhaseInv, [Redis!Next]_(Redis!vars)
    PROVE  RedisPhaseInv'
  <1>1. CASE UNCHANGED Redis!vars
    BY <1>1 DEF RedisPhaseInv, RedisPhaseOf, Redis!vars
  <1>2. SUFFICES ASSUME NEW t \in Threads, Redis!Begin(t) \/ Redis!Step(t)
                 PROVE  RedisPhaseOf(t)'
    <2>1. ASSUME NEW t \in Threads, Redis!Begin(t) \/ Redis!Step(t), NEW u \in Threads \ {t}
          PROVE  RedisPhaseOf(u)'
      BY <2>1, RedisOthersKeep DEF RedisPhaseInv, RedisPhaseOf
    <2>2. QED
      BY <1>1, <1>2, <2>1 DEF Redis!Next, RedisPhaseInv
  <1>3. RedisPhaseOf(t)
    BY DEF RedisPhaseInv
  <1> USE DEF RedisPhaseOf, Redis!End, Redis!GoTo, Redis!Starts
  <1>4. CASE Redis!Begin(t)
    BY <1>4, RedisNothingType DEF Redis!Begin, Redis!TypeOK
  <1>5. CASE pc'[t] = "idle"
    BY <1>5
  <1>6. CASE Redis!StartScan(t)
    BY <1>6 DEF Redis!StartScan, Redis!TypeOK
  <1>7. CASE Redis!Batch(t)
    BY <1>3, <1>7 DEF Redis!Batch
  <1>8. CASE Redis!ScanDone(t)
    BY <1>5, <1>8 DEF Redis!ScanDone, Redis!TypeOK
  <1>9. CASE Redis!Read(t) \/ Redis!Overwrite(t) \/ Redis!Delete(t) \/ Redis!ClearDrop(t)
             \/ Redis!SetNothing(t) \/ Redis!Exec(t)
    BY <1>5, <1>9 DEF Redis!Read, Redis!Overwrite, Redis!Delete, Redis!ClearDrop,
       Redis!SetNothing, Redis!Exec, Redis!TypeOK
  <1>10. CASE Redis!ClearList(t)
    BY <1>10 DEF Redis!ClearList, Redis!TypeOK
  <1>11. CASE Redis!ClearCall(t)
    BY <1>3, <1>11 DEF Redis!ClearCall, Redis!TypeOK
  <1>12. CASE Redis!Watch(t)
    BY <1>12, RedisNothingType DEF Redis!Watch, Redis!TypeOK
  <1>13. CASE Redis!Check(t)
    <2>1. CASE Redis!End(t, Redis!KV!KeyError)
      BY <1>5, <2>1 DEF Redis!TypeOK
    <2>2. CASE /\ ~Redis!Refuses(call[t].items, call[t].on_conflict, keySet)
               /\ found' = [found EXCEPT ![t] = Redis!Conflicts(call[t].items, keySet)]
               /\ Redis!GoTo(t, IF call[t].on_conflict = "merge" THEN "read" ELSE "exec")
               /\ UNCHANGED got
      <3>1. ~Redis!Refuses(call[t].items, call[t].on_conflict,
                               Redis!Conflicts(call[t].items, keySet))
        BY <2>2 DEF Redis!Refuses, Redis!Conflicts
      <3>2. QED
        BY <1>3, <1>13, <2>2, <3>1 DEF Redis!Check, Redis!TypeOK
    <2>3. QED
      BY <1>13, <2>1, <2>2 DEF Redis!Check
  <1>14. CASE Redis!ReadNext(t)
    BY <1>3, <1>14 DEF Redis!ReadNext
  <1>15. CASE Redis!ReadDone(t)
    BY <1>3, <1>15 DEF Redis!ReadDone, Redis!TypeOK
  <1>16. CASE Redis!Retry(t)
    BY <1>3, <1>16 DEF Redis!Retry, Redis!TypeOK
  <1>17. QED
    BY <1>2, <1>4, <1>6, <1>7, <1>8, <1>9, <1>10, <1>11, <1>12, <1>13, <1>14, <1>15, <1>16
       DEF Redis!Step

\* Values and __keys__ change together.
LEMMA RedisKeySetCorrect ==
    ASSUME Redis!TypeOK, RedisPhaseInv, Redis!KeySetMatchesData, [Redis!Next]_(Redis!vars)
    PROVE  Redis!KeySetMatchesData'
  <1>1. CASE UNCHANGED <<data, keySet>>
    BY <1>1 DEF Redis!KeySetMatchesData, Redis!Present
  <1>2. ASSUME NEW t \in Threads, NEW w \in Redis!Items, Redis!PutAll(t, w)
        PROVE  Redis!KeySetMatchesData'
    BY <1>2, RedisPutFacts DEF Redis!KeySetMatchesData
  <1>3. ASSUME NEW t \in Threads, NEW K \in SUBSET Keys, Redis!DropAll(t, K)
        PROVE  Redis!KeySetMatchesData'
    BY <1>3, RedisDropFacts DEF Redis!KeySetMatchesData
  <1>4. ASSUME NEW t \in Threads, Redis!Step(t) PROVE Redis!KeySetMatchesData'
    <2>1. CASE Redis!Overwrite(t)
      BY <1>2, <2>1, RedisRequestType DEF Redis!Overwrite, Redis!TypeOK
    <2>2. CASE Redis!Delete(t)
      BY <1>3, <2>2, RedisRequestType DEF Redis!Delete, Redis!TypeOK
    <2>3. CASE Redis!ClearDrop(t)
      BY <1>3, <2>3 DEF Redis!ClearDrop, Redis!TypeOK
    <2>4. CASE Redis!Exec(t)
      BY <1>2, <2>4, RedisPlanType DEF Redis!Exec
    <2>5. QED
      BY <1>1, <1>4, <2>1, <2>2, <2>3, <2>4
         DEF Redis!Step, Redis!StartScan, Redis!Batch, Redis!ScanDone, Redis!Read,
             Redis!ClearList, Redis!ClearCall, Redis!SetNothing, Redis!Watch,
             Redis!Check, Redis!ReadNext, Redis!ReadDone, Redis!Retry, Redis!server
  <1>5. QED
    BY <1>1, <1>4 DEF Redis!Next, Redis!Begin, Redis!server, Redis!vars
\* What another client's step may do to the keys u watches, and to the keys its
\* scan must yield.
LEMMA RedisWatchersKeep ==
    ASSUME Redis!TypeOK, RedisPhaseInv, NEW t \in Threads, Redis!Begin(t) \/ Redis!Step(t),
           NEW u \in Threads \ {t}
    PROVE  /\ ~dirty'[u] => ~dirty[u] /\ \A k \in Redis!Watched(u) \cap Keys : data'[k] = data[k]
           /\ steady'[u] \subseteq steady[u]
           /\ steady[u] \subseteq Redis!Present(data) => steady'[u] \subseteq Redis!Present(data')
  <1> DEFINE Kept ==
        /\ ~dirty'[u] => ~dirty[u] /\ \A k \in Redis!Watched(u) \cap Keys : data'[k] = data[k]
        /\ steady'[u] \subseteq steady[u]
        /\ steady[u] \subseteq Redis!Present(data) => steady'[u] \subseteq Redis!Present(data')
  <1>1. ASSUME UNCHANGED data, dirty'[u] = dirty[u], steady'[u] = steady[u] PROVE Kept
    BY <1>1 DEF Redis!Present
  <1>2. ASSUME NEW w \in Redis!Items, Redis!PutAll(t, w) PROVE Kept
    BY <1>2, RedisPutFacts
  <1>3. ASSUME NEW K \in SUBSET Keys, Redis!DropAll(t, K) PROVE Kept
    BY <1>3, RedisDropFacts
  <1>4. CASE Redis!Overwrite(t)
    BY <1>2, <1>4, RedisRequestType DEF Redis!Overwrite, Redis!TypeOK
  <1>5. CASE Redis!Delete(t)
    BY <1>3, <1>5, RedisRequestType DEF Redis!Delete, Redis!TypeOK
  <1>6. CASE Redis!ClearDrop(t)
    BY <1>3, <1>6 DEF Redis!ClearDrop, Redis!TypeOK
  <1>7. CASE Redis!Exec(t)
    BY <1>2, <1>7, RedisPlanType DEF Redis!Exec
  <1>8. CASE Redis!StartScan(t) \/ Redis!ScanDone(t) \/ Redis!Watch(t)
    BY <1>1, <1>8 DEF Redis!StartScan, Redis!ScanDone, Redis!Watch, Redis!server,
       Redis!TypeOK
  <1>9. QED
    <2>1. CASE UNCHANGED <<Redis!server, dirty>>
      BY <1>1, <2>1 DEF Redis!server
    <2>2. QED
      BY <1>4, <1>5, <1>6, <1>7, <1>8, <2>1
         DEF Redis!Begin, Redis!Step, Redis!Batch, Redis!Read, Redis!ClearList, Redis!ClearCall,
             Redis!SetNothing, Redis!Check, Redis!ReadNext,
             Redis!ReadDone, Redis!Retry

\* What an unmarked client has read stays so.
LEMMA RedisCurrentCorrect ==
    ASSUME RedisBase, RedisCurrentInv, RedisBase', [Redis!Next]_(Redis!vars)
    PROVE  RedisCurrentInv'
  <1> USE DEF RedisBase
  <1>1. CASE UNCHANGED Redis!vars
    BY <1>1 DEF RedisCurrentInv, RedisCurrentOf, Redis!Conflicts, Redis!Present, Redis!vars
  <1>2. ASSUME NEW t \in Threads, Redis!Begin(t) \/ Redis!Step(t), NEW u \in Threads \ {t}
        PROVE  RedisCurrentOf(u)'
    <2>1. SUFFICES ASSUME pc[u] \in {"read", "exec"}, ~dirty'[u]
                   PROVE  /\ found[u] = Redis!Conflicts(call[u].items, Redis!Present(data'))
                          /\ \A k \in DOMAIN got[u] : k \in found[u] /\ got[u][k] = data'[k]
      BY <1>2, RedisOthersKeep DEF RedisCurrentOf
    <2>2. /\ Redis!Watched(u) = DOMAIN call[u].items /\ Redis!Watched(u) \in SUBSET Keys
          /\ ~dirty[u] /\ \A k \in Redis!Watched(u) : data'[k] = data[k]
      <3>1. Redis!Watched(u) = DOMAIN call[u].items /\ DOMAIN call[u].items \in SUBSET Keys
        BY <2>1, RedisRequestType, RedisItemsDef DEF Redis!Watched, Redis!TypeOK
      <3>2. QED
        BY <1>2, <2>1, <3>1, RedisWatchersKeep
    <2>3. /\ found[u] = Redis!Conflicts(call[u].items, Redis!Present(data))
          /\ \A k \in DOMAIN got[u] : k \in found[u] /\ got[u][k] = data[k]
      BY <2>1, <2>2 DEF RedisCurrentInv, RedisCurrentOf
    <2>4. Redis!Conflicts(call[u].items, Redis!Present(data'))
          = Redis!Conflicts(call[u].items, Redis!Present(data))
      BY <2>2 DEF Redis!Conflicts, Redis!Present
    <2>5. QED
      BY <2>2, <2>3, <2>4 DEF Redis!Conflicts
  <1>3. ASSUME NEW t \in Threads, Redis!Begin(t) \/ Redis!Step(t) PROVE RedisCurrentOf(t)'
    <2> USE DEF RedisCurrentOf, Redis!End, Redis!GoTo
    <2>1. CASE pc'[t] \notin {"read", "exec"}
      BY <2>1
    <2>2. CASE Redis!Begin(t) \/ Redis!StartScan(t) \/ Redis!Batch(t) \/ Redis!ScanDone(t)
               \/ Redis!Read(t) \/ Redis!Overwrite(t)
               \/ Redis!Delete(t) \/ Redis!ClearList(t) \/ Redis!ClearCall(t)
               \/ Redis!ClearDrop(t) \/ Redis!SetNothing(t)
               \/ Redis!Watch(t) \/ Redis!Exec(t) \/ Redis!Retry(t)
      BY <2>1, <2>2
         DEF Redis!TypeOK, Redis!Begin, Redis!StartScan, Redis!Batch, Redis!ScanDone,
             Redis!Read, Redis!Overwrite, Redis!Delete, Redis!ClearList,
             Redis!ClearCall, Redis!ClearDrop, Redis!SetNothing, Redis!Watch, Redis!Exec,
                Redis!Retry
    <2>3. CASE Redis!Check(t)
      <3>1. /\ pc[t] = "check" /\ DOMAIN got[t] = {} /\ keySet = Redis!Present(data)
            /\ UNCHANGED data
        BY <2>3 DEF Redis!Check, RedisPhaseInv, RedisPhaseOf, Redis!KeySetMatchesData,
           Redis!server
      <3>2. CASE Redis!End(t, Redis!KV!KeyError)
        BY <2>1, <3>2 DEF Redis!TypeOK
      <3>3. CASE /\ found' = [found EXCEPT ![t] = Redis!Conflicts(call[t].items, keySet)]
                 /\ UNCHANGED <<got, call>>
        <4>1. found'[t] = Redis!Conflicts(call'[t].items, Redis!Present(data'))
          BY <3>1, <3>3 DEF Redis!TypeOK, Redis!Present
        <4>2. DOMAIN got'[t] = {}
          BY <3>1, <3>3
        <4>3. QED
          BY <4>1, <4>2
      <3>4. QED
        BY <2>3, <3>2, <3>3 DEF Redis!Check
    <2>4. CASE Redis!ReadNext(t)
      <3>1. PICK k \in found[t] \ DOMAIN got[t] : got' = [got EXCEPT ![t] =
                [i \in DOMAIN got[t] \cup {k} |-> IF i = k THEN data[k] ELSE got[t][i]]]
        BY <2>4 DEF Redis!ReadNext
      <3>2. UNCHANGED <<data, dirty, pc, call, found>> /\ pc[t] = "read"
        BY <2>4 DEF Redis!ReadNext, Redis!server
      <3>3. got'[t] = [i \in DOMAIN got[t] \cup {k} |-> IF i = k THEN data[k] ELSE got[t][i]]
        BY <3>1 DEF Redis!TypeOK
      <3>4. CASE dirty[t]
        BY <3>2, <3>4
      <3>5. CASE ~dirty[t]
        BY <3>2, <3>3, <3>5 DEF RedisCurrentInv, Redis!Present
      <3>6. QED
        BY <3>4, <3>5
    <2>5. CASE Redis!ReadDone(t)
      BY <2>5 DEF Redis!ReadDone, Redis!server, RedisCurrentInv, Redis!Present
    <2>6. QED
      BY <1>3, <2>2, <2>3, <2>4, <2>5 DEF Redis!Step
  <1>4. QED
    BY <1>1, <1>2, <1>3 DEF Redis!Next, RedisCurrentInv

\* A scan loses no key but to a DEL.
LEMMA RedisScanCorrect ==
    ASSUME RedisBase, RedisScanInv, [Redis!Next]_(Redis!vars)
    PROVE  RedisScanInv'
  <1> USE DEF RedisBase
  <1>1. CASE UNCHANGED Redis!vars
    BY <1>1 DEF RedisScanInv, RedisScanOf, Redis!Present, Redis!vars
  <1>2. ASSUME NEW t \in Threads, Redis!Begin(t) \/ Redis!Step(t), NEW u \in Threads \ {t}
        PROVE  RedisScanOf(u)'
    <2>1. SUFFICES ASSUME pc[u] = "list"
                   PROVE  /\ todo[u] \cup DOMAIN got[u] \subseteq found[u]
                          /\ steady'[u] \subseteq Redis!Present(data')
                          /\ steady'[u] \subseteq todo[u] \cup DOMAIN got[u]
      BY <1>2, RedisOthersKeep DEF RedisScanOf
    <2>2. QED
      BY <1>2, <2>1, RedisWatchersKeep DEF RedisScanInv, RedisScanOf
  <1>3. ASSUME NEW t \in Threads, Redis!Begin(t) \/ Redis!Step(t) PROVE RedisScanOf(t)'
    <2> USE DEF RedisScanOf, Redis!End, Redis!GoTo
    <2>1. CASE pc'[t] # "list"
      BY <2>1
    <2>2. CASE Redis!Begin(t) \/ Redis!ScanDone(t) \/ Redis!Read(t) \/ Redis!Overwrite(t)
               \/ Redis!Delete(t) \/ Redis!ClearList(t) \/ Redis!ClearCall(t)
               \/ Redis!ClearDrop(t) \/ Redis!SetNothing(t)
               \/ Redis!Watch(t) \/ Redis!Exec(t) \/ Redis!Retry(t) \/ Redis!ReadNext(t)
               \/ Redis!ReadDone(t)
      BY <2>1, <2>2
         DEF Redis!TypeOK, Redis!Begin, Redis!ScanDone, Redis!Read, Redis!Overwrite,
             Redis!Delete, Redis!ClearList, Redis!ClearCall,
             Redis!ClearDrop, Redis!SetNothing, Redis!Watch, Redis!Exec, Redis!Retry,
                Redis!ReadNext, Redis!ReadDone
    <2>3. CASE Redis!Check(t)
      BY <2>1, <2>3 DEF Redis!Check, Redis!TypeOK
    <2>4. CASE Redis!StartScan(t)
      <3>1. /\ pc[t] = "start" /\ call[t].op \in Redis!ScanOps /\ DOMAIN got[t] = {}
        BY <2>4 DEF Redis!StartScan, Redis!Starts, RedisPhaseInv, RedisPhaseOf,
           Redis!ScanOps
      <3>2. /\ found'[t] = keySet /\ todo'[t] = keySet /\ steady'[t] = Redis!Present(data)
            /\ data' = data /\ got' = got
        BY <2>4 DEF Redis!StartScan, Redis!TypeOK
      <3>3. QED
        BY <3>1, <3>2 DEF Redis!KeySetMatchesData, Redis!Present
    <2>5. CASE Redis!Batch(t)
      <3>1. PICK batch \in SUBSET todo[t] :
                Redis!Fetch(t, batch) /\ todo' = [todo EXCEPT ![t] = @ \ batch]
        BY <2>5 DEF Redis!Batch, Redis!Batches
      <3>2. /\ todo'[t] = todo[t] \ batch
            /\ DOMAIN got'[t] = DOMAIN got[t] \cup (batch \cap Redis!Present(data))
        BY <3>1 DEF Redis!Fetch, Redis!TypeOK
      <3>3. UNCHANGED <<data, steady, pc, found>> /\ pc[t] = "list"
        BY <2>5 DEF Redis!Batch, Redis!server
      <3>4. QED
        BY <3>2, <3>3 DEF RedisScanInv, Redis!Present
    <2>6. QED
      BY <1>3, <2>2, <2>3, <2>4, <2>5 DEF Redis!Step
  <1>4. QED
    BY <1>1, <1>2, <1>3 DEF Redis!Next, RedisScanInv
-----------------------------------------------------------------------------
\* What the contract sees of the other clients does not change.
LEMMA RedisOthersShown ==
    ASSUME Redis!TypeOK, NEW t \in Threads, Redis!Begin(t) \/ Redis!Step(t),
           NEW u \in Threads \ {t}
    PROVE  Redis!AbsCall'[u] = Redis!AbsCall[u] /\ Redis!AbsAnswer'[u] = Redis!AbsAnswer[u]
  <1>1. /\ pc'[u] = pc[u] /\ call'[u] = call[u] /\ answer'[u] = answer[u]
        /\ found'[u] = found[u]
    BY RedisOthersKeep
  <1>2. QED
    BY <1>1 DEF Redis!AbsCall, Redis!AbsAnswer

\* A step that shows the same of its own client, and leaves the values alone,
\* is a stutter.
LEMMA RedisStutters ==
    ASSUME Redis!TypeOK, NEW t \in Threads, Redis!Begin(t) \/ Redis!Step(t), UNCHANGED data,
           Redis!AbsCall'[t] = Redis!AbsCall[t], Redis!AbsAnswer'[t] = Redis!AbsAnswer[t]
    PROVE  UNCHANGED Redis!KV!vars
  <1>1. \A u \in Threads : Redis!AbsCall'[u] = Redis!AbsCall[u]
        /\ Redis!AbsAnswer'[u] = Redis!AbsAnswer[u]
    BY RedisOthersShown
  <1>2. Redis!AbsCall' = Redis!AbsCall
    BY <1>1 DEF Redis!AbsCall
  <1>3. Redis!AbsAnswer' = Redis!AbsAnswer
    BY <1>1 DEF Redis!AbsAnswer
  <1>4. QED
    BY <1>2, <1>3 DEF Redis!KV!vars

\* A step that ends a call the contract has seen begin.
LEMMA RedisEnding ==
    ASSUME Redis!TypeOK, NEW t \in Threads, Redis!Begin(t) \/ Redis!Step(t), NEW a,
           Redis!AbsAnswer[t] = Redis!KV!NoAnswer, Redis!AbsCall'[t] = Redis!AbsCall[t],
              Redis!AbsAnswer'[t] = a
    PROVE  Redis!KV!Ends(t, a)
  <1>1. \A u \in Threads \ {t} : Redis!AbsCall'[u] = Redis!AbsCall[u]
        /\ Redis!AbsAnswer'[u] = Redis!AbsAnswer[u]
    BY RedisOthersShown
  <1>2. Redis!AbsCall' = Redis!AbsCall
    BY <1>1 DEF Redis!AbsCall
  <1>3. Redis!AbsAnswer' = [Redis!AbsAnswer EXCEPT ![t] = a]
    <2>1. /\ Redis!AbsAnswer = [u \in Threads |-> Redis!AbsAnswer[u]]
          /\ Redis!AbsAnswer' = [u \in Threads |-> Redis!AbsAnswer'[u]]
      BY DEF Redis!AbsAnswer
    <2>2. QED
      BY <1>1, <2>1
  <1>4. QED
    BY <1>2, <1>3 DEF Redis!KV!Ends, Redis!KV!Idle

\* A step that shows a new call of its client.
LEMMA RedisInvoking ==
    ASSUME Redis!TypeOK, NEW t \in Threads, Redis!Begin(t) \/ Redis!Step(t), UNCHANGED data,
           NEW r \in Requests \cup {Redis!ListCall} \cup {Redis!DropCall(K) : K \in SUBSET Keys},
           Redis!AbsAnswer[t] # Redis!KV!NoAnswer, Redis!AbsCall'[t] = r,
              Redis!AbsAnswer'[t] = Redis!KV!NoAnswer
    PROVE  Redis!KV!Invoke(t)
  <1>1. \A u \in Threads \ {t} : Redis!AbsCall'[u] = Redis!AbsCall[u]
        /\ Redis!AbsAnswer'[u] = Redis!AbsAnswer[u]
    BY RedisOthersShown
  <1>2. Redis!AbsCall' = [Redis!AbsCall EXCEPT ![t] = r]
    <2>1. /\ Redis!AbsCall = [u \in Threads |-> Redis!AbsCall[u]]
          /\ Redis!AbsCall' = [u \in Threads |-> Redis!AbsCall'[u]]
      BY DEF Redis!AbsCall
    <2>2. QED
      BY <1>1, <2>1
  <1>3. Redis!AbsAnswer' = [Redis!AbsAnswer EXCEPT ![t] = Redis!KV!NoAnswer]
    <2>1. /\ Redis!AbsAnswer = [u \in Threads |-> Redis!AbsAnswer[u]]
          /\ Redis!AbsAnswer' = [u \in Threads |-> Redis!AbsAnswer'[u]]
      BY DEF Redis!AbsAnswer
    <2>2. QED
      BY <1>1, <2>1
  <1>4. QED
    BY <1>2, <1>3 DEF Redis!KV!Invoke, Redis!KV!Idle

\* What the contract says of reads, listings and deletions.
LEMMA RedisPromises ==
    /\ \A K, d : Redis!KV!Answer(Redis!DropCall(K), d) = Redis!KV!Ok
    /\ \A d : Redis!KV!Answer(Redis!ListCall, d) = Redis!KV!Returns(Keys \cap Redis!Present(d))
    /\ \A r, d : r.op # "set_many" => ~Redis!KV!Refused(r, d)
    /\ \A r, d : r.op \in Redis!KV!WriteOps /\ ~Redis!KV!Refused(r, d)
         => Redis!KV!Answer(r, d) = Redis!KV!Ok
    /\ \A r, d : r.op \in {"delete", "delete_many"} =>
            Redis!KV!Effect(r, d) = [k \in r.keys |-> Absent]
    /\ \A r, d : r.op \in Redis!KV!ReadOps => DOMAIN Redis!KV!Effect(r, d) = {}
  <1>1. \A r, d : r.op # "set_many" => ~Redis!KV!Refused(r, d)
    BY DEF Redis!KV!Refused
  <1>2. \A r, d : r.op \in Redis!KV!WriteOps /\ ~Redis!KV!Refused(r, d)
        => Redis!KV!Answer(r, d) = Redis!KV!Ok
    BY DEF Redis!KV!Answer, Redis!KV!WriteOps, Redis!KV!ReadOps
  <1>3. \A K : Redis!DropCall(K).op = "delete_many"
    BY DEF Redis!DropCall, Redis!ListCall
  <1>4. \A K, d : Redis!KV!Answer(Redis!DropCall(K), d) = Redis!KV!Ok
    BY <1>1, <1>2, <1>3 DEF Redis!KV!WriteOps
  <1>5. Redis!ListCall.op = "contains_many" /\ Redis!ListCall.keys = Keys
    BY DEF Redis!ListCall
  <1>6. ASSUME NEW d
        PROVE  Redis!KV!Answer(Redis!ListCall, d) = Redis!KV!Returns(Keys \cap Redis!Present(d))
    <2>1. ~Redis!KV!Refused(Redis!ListCall, d)
      BY <1>1, <1>5
    <2>2. Redis!KV!Answer(Redis!ListCall, d) = Redis!KV!Returns(Redis!KV!Seen(Redis!ListCall, d))
      BY <1>5, <2>1 DEF Redis!KV!Answer, Redis!KV!ReadOps
    <2>3. Redis!KV!Seen(Redis!ListCall, d) = Keys \cap Redis!KV!Present(d)
      BY <1>5 DEF Redis!KV!Seen
    <2>4. QED
      BY <2>2, <2>3, RedisSameData
  <1>7. \A r, d : r.op \in {"delete", "delete_many"} =>
            Redis!KV!Effect(r, d) = [k \in r.keys |-> Absent]
    BY DEF Redis!KV!Effect
  <1>8. \A r, d : r.op \in Redis!KV!ReadOps => DOMAIN Redis!KV!Effect(r, d) = {}
    BY DEF Redis!KV!Effect, Redis!KV!ReadOps
  <1>9. QED
    BY <1>1, <1>2, <1>4, <1>6, <1>7, <1>8
\* The calls that the contract sees as they are.
LEMMA RedisPlain ==
    ASSUME NEW t \in Threads, call[t].op \notin Redis!ScanOps \cup {"clear"}, call'[t] = call[t],
           pc[t] # "listed", pc'[t] # "listed"
    PROVE  /\ Redis!AbsCall[t] = call[t] /\ Redis!AbsCall'[t] = call[t]
           /\ Redis!AbsAnswer[t] = answer[t] /\ Redis!AbsAnswer'[t] = answer'[t]
  BY DEF Redis!AbsCall, Redis!AbsAnswer

\* A scan, and the listing of clear(), are a contains_many of every key.
LEMMA RedisScanShown ==
    ASSUME NEW t \in Threads, call[t].op \in Redis!ScanOps, call'[t] = call[t]
    PROVE  /\ Redis!AbsCall[t] = Redis!ListCall /\ Redis!AbsCall'[t] = Redis!ListCall
           /\ Redis!AbsAnswer[t] = IF pc[t] = "start" THEN answer[t]
                             ELSE [kind |-> "returns", value |-> found[t]]
           /\ Redis!AbsAnswer'[t] = IF pc'[t] = "start" THEN answer'[t]
                              ELSE [kind |-> "returns", value |-> found'[t]]
  <1>1. call[t].op # "clear"
    BY DEF Redis!ScanOps
  <1>2. QED
    BY <1>1 DEF Redis!AbsCall, Redis!AbsAnswer

LEMMA RedisClearShown ==
    ASSUME NEW t \in Threads, call[t].op = "clear", call'[t] = call[t]
    PROVE  /\ pc[t] \in {"start", "listed"} => Redis!AbsCall[t] = Redis!ListCall
           /\ pc'[t] \in {"start", "listed"} => Redis!AbsCall'[t] = Redis!ListCall
           /\ pc[t] \in {"drop", "idle"} => Redis!AbsCall[t] = Redis!DropCall(found[t])
           /\ pc'[t] \in {"drop", "idle"} => Redis!AbsCall'[t] = Redis!DropCall(found'[t])
           /\ Redis!AbsAnswer[t] = IF pc[t] = "listed" THEN [kind |-> "returns", value |-> found[t]]
                             ELSE answer[t]
           /\ Redis!AbsAnswer'[t] = IF pc'[t] = "listed"
                              THEN [kind |-> "returns", value |-> found'[t]] ELSE answer'[t]
  <1>1. call[t].op \notin Redis!ScanOps
    BY DEF Redis!ScanOps
  <1>2. QED
    BY <1>1 DEF Redis!AbsCall, Redis!AbsAnswer

\* The contract's step for a read, and for a write that is not refused.
LEMMA RedisReads ==
    ASSUME NEW t \in Threads, data \in Redis!Contents, UNCHANGED data,
           Redis!AbsCall[t].op \in Redis!KV!ReadOps,
           Redis!KV!Ends(t, Redis!KV!Answer(Redis!AbsCall[t], data))
    PROVE  Redis!KV!Next
  <1>1. ~Redis!KV!Refused(Redis!AbsCall[t], data)
        /\ DOMAIN Redis!KV!Effect(Redis!AbsCall[t], data) = {}
    BY RedisPromises DEF Redis!KV!ReadOps
  <1>2. Redis!KV!Stored(data, Redis!KV!Effect(Redis!AbsCall[t], data)) = data
    BY <1>1, RedisStoredNothing, RedisSameData
  <1>3. QED
    BY <1>1, <1>2 DEF Redis!KV!Execute, Redis!KV!Next, Redis!KV!ReadOps,
       Redis!KV!LifecycleOps

LEMMA RedisWritesDone ==
    ASSUME NEW t \in Threads, Redis!AbsCall[t].op \in Redis!KV!WriteOps,
           ~Redis!KV!Refused(Redis!AbsCall[t], data),
           data' = Redis!Stored(data, Redis!KV!Effect(Redis!AbsCall[t], data)),
           Redis!KV!Ends(t, Redis!KV!Ok)
    PROVE  Redis!KV!Next
  <1>1. Redis!KV!Answer(Redis!AbsCall[t], data) = Redis!KV!Ok
    BY RedisPromises
  <1>2. data' = Redis!KV!Stored(data, Redis!KV!Effect(Redis!AbsCall[t], data))
    BY RedisSameData
  <1>3. QED
    BY <1>1, <1>2 DEF Redis!KV!Execute, Redis!KV!Next, Redis!KV!WriteOps,
       Redis!KV!LifecycleOps

\* An EXEC that is let through writes what resolve_conflicts decides on the
\* values of that instant.
LEMMA RedisPlanIsCurrent ==
    ASSUME RedisBase, RedisCurrentInv, NEW t \in Threads, pc[t] = "exec", ~dirty[t]
    PROVE  LET r == call[t] IN
           /\ ~Redis!Refuses(r.items, r.on_conflict, Redis!Present(data))
           /\ Redis!ToWrite(r.items, r.on_conflict, found[t], got[t])
                = Redis!ToWrite(r.items, r.on_conflict, Redis!Present(data), data)
  <1> DEFINE r == call[t]
  <1>1. /\ found[t] = DOMAIN r.items \cap Redis!Present(data)
        /\ \A k \in DOMAIN got[t] : got[t][k] = data[k]
    BY DEF RedisCurrentInv, RedisCurrentOf, Redis!Conflicts
  <1>2. /\ r.on_conflict \in Redis!OnConflict \ {"overwrite"}
        /\ ~Redis!Refuses(r.items, r.on_conflict, found[t])
        /\ r.on_conflict = "merge" => found[t] \subseteq DOMAIN got[t]
    BY RedisRequestType DEF RedisBase, Redis!TypeOK, RedisPhaseInv, RedisPhaseOf
  <1>3. ~Redis!Refuses(r.items, r.on_conflict, Redis!Present(data))
    BY <1>1, <1>2 DEF Redis!Refuses, Redis!Conflicts
  <1> DEFINE K == {i \in DOMAIN r.items : r.on_conflict = "skip" => i \notin found[t]}
  <1>4. K = {i \in DOMAIN r.items : r.on_conflict = "skip" => i \notin Redis!Present(data)}
    BY <1>1
  <1>5. ASSUME NEW k \in K
        PROVE  (IF k \in found[t] THEN Redis!Merged(Redis!OrEmpty(got[t][k]), r.items[k])
                ELSE r.items[k])
             = (IF k \in Redis!Present(data) THEN Redis!Merged(Redis!OrEmpty(data[k]), r.items[k])
                ELSE r.items[k])
    <2>1. CASE k \notin found[t]
      BY <1>1, <2>1
    <2>2. CASE k \in found[t]
      <3>1. r.on_conflict = "merge"
        BY <1>2, <2>2, <1>1 DEF Redis!Refuses, Redis!Conflicts, Redis!OnConflict
      <3>2. got[t][k] = data[k]
        BY <1>1, <1>2, <2>2, <3>1
      <3>3. QED
        BY <1>1, <2>2, <3>2
    <2>3. QED
      BY <2>1, <2>2
  <1>6. Redis!ToWrite(r.items, r.on_conflict, found[t], got[t])
          = Redis!ToWrite(r.items, r.on_conflict, Redis!Present(data), data)
    BY <1>4, <1>5 DEF Redis!ToWrite
  <1>7. QED
    BY <1>3, <1>6
\* Every step of the store is a step of the contract or changes nothing the
\* contract shows.
LEMMA RedisStepRefines ==
    ASSUME RedisBase, RedisCurrentInv, [Redis!Next]_(Redis!vars)
    PROVE  [Redis!KV!Next]_(Redis!KV!vars)
  <1>a. SUFFICES ASSUME NEW t \in Threads, Redis!Begin(t) \/ Redis!Step(t)
                 PROVE  Redis!KV!Next \/ UNCHANGED Redis!KV!vars
    <2>1. CASE UNCHANGED Redis!vars
      <3>1. UNCHANGED <<data, Redis!AbsCall, Redis!AbsAnswer>>
        BY <2>1 DEF Redis!vars, Redis!AbsCall, Redis!AbsAnswer
      <3>2. QED
        BY <3>1 DEF Redis!KV!vars
    <2>2. CASE Redis!Next
      BY <2>2, <1>a DEF Redis!Next
    <2>3. QED
      BY <2>1, <2>2
  <1>b. /\ Redis!TypeOK /\ data \in Redis!Contents /\ Redis!KeySetMatchesData /\ RedisPhaseOf(t)
        /\ call[t] \in Redis!KV!Request /\ found[t] \in SUBSET Keys
        /\ answer[t] = Redis!KV!NoAnswer <=> pc[t] # "idle"
        /\ DOMAIN pc = Threads /\ DOMAIN call = Threads /\ DOMAIN answer = Threads
        /\ DOMAIN found = Threads
    BY DEF RedisBase, Redis!TypeOK, RedisPhaseInv, Redis!Busy
  <1>ops. /\ Redis!ListCall.op \in Redis!KV!ReadOps /\ \A K : Redis!DropCall(K).op = "delete_many"
          /\ \A K : Redis!DropCall(K).keys = K
    BY DEF Redis!ListCall, Redis!DropCall, Redis!KV!ReadOps
  <1>seen. Redis!KV!Answer(Redis!ListCall, data) = [kind |-> "returns", value |-> keySet]
    BY <1>b, RedisPromises DEF Redis!KeySetMatchesData, Redis!Present, Redis!KV!Returns
  \* The end of a call the contract sees as it is.
  <1>c. ASSUME call[t].op \notin Redis!ScanOps \cup {"clear"}, pc[t] \notin {"idle", "listed"},
               NEW a, Redis!End(t, a)
        PROVE  Redis!AbsCall[t] = call[t] /\ Redis!KV!Ends(t, a)
    <2>1. call'[t] = call[t] /\ pc'[t] = "idle" /\ answer'[t] = a
      BY <1>b, <1>c DEF Redis!End
    <2>2. Redis!AbsCall[t] = call[t] /\ Redis!AbsCall'[t] = call[t]
          /\ Redis!AbsAnswer[t] = Redis!KV!NoAnswer
          /\ Redis!AbsAnswer'[t] = a
      BY <1>b, <1>c, <2>1, RedisPlain
    <2>3. QED
      BY <1>a, <1>b, <2>2, RedisEnding
  \* A step inside such a call.
  <1>d. ASSUME call[t].op = "set_many", pc[t] # "listed", pc'[t] # "listed",
               UNCHANGED <<data, call, answer>>
        PROVE  UNCHANGED Redis!KV!vars
    <2>1. call[t].op \notin Redis!ScanOps \cup {"clear"} /\ call'[t] = call[t]
          /\ answer'[t] = answer[t]
      BY <1>d DEF Redis!ScanOps
    <2>2. QED
      BY <1>a, <1>b, <1>d, <2>1, RedisPlain, RedisStutters
  <1>1. CASE Redis!Begin(t)
    <2>1. PICK r \in Requests : call' = [call EXCEPT ![t] = r]
      BY <1>1 DEF Redis!Begin
    <2>2. /\ pc[t] = "idle" /\ pc'[t] = "start" /\ answer'[t] = Redis!KV!NoAnswer /\ call'[t] = r
          /\ UNCHANGED data
      BY <1>1, <1>b, <2>1 DEF Redis!Begin, Redis!Busy, Redis!server
    <2>3. Redis!AbsAnswer[t] # Redis!KV!NoAnswer
      BY <1>b, <2>2 DEF Redis!AbsAnswer, Redis!KV!NoAnswer
    <2>4. Redis!AbsAnswer'[t] = Redis!KV!NoAnswer
      BY <2>2 DEF Redis!AbsAnswer
    <2>5. Redis!AbsCall'[t] \in {r, Redis!ListCall}
      BY <2>2 DEF Redis!AbsCall
    <2>6. Redis!KV!Invoke(t)
      BY <1>a, <1>b, <2>2, <2>3, <2>4, <2>5, RedisInvoking
    <2>7. QED
      BY <2>6 DEF Redis!KV!Next
  <1>2. CASE Redis!StartScan(t)
    <2>1. /\ call[t].op \in Redis!ScanOps /\ call'[t] = call[t] /\ pc[t] = "start"
          /\ pc'[t] = "list" /\ found'[t] = keySet /\ UNCHANGED data
      BY <1>2, <1>b DEF Redis!StartScan, Redis!Starts, Redis!GoTo
    <2>2. Redis!AbsCall[t] = Redis!ListCall /\ Redis!AbsCall'[t] = Redis!ListCall
          /\ Redis!AbsAnswer[t] = Redis!KV!NoAnswer
          /\ Redis!AbsAnswer'[t] = [kind |-> "returns", value |-> keySet]
      BY <1>b, <2>1, RedisScanShown
    <2>3. Redis!KV!Ends(t, Redis!KV!Answer(Redis!AbsCall[t], data))
      BY <1>a, <1>b, <1>seen, <2>2, RedisEnding
    <2>4. QED
      BY <1>b, <1>ops, <2>1, <2>2, <2>3, RedisReads
  <1>3. CASE Redis!Batch(t)
    <2>1. UNCHANGED <<data, pc, call, answer, found>>
      BY <1>3 DEF Redis!Batch, Redis!server
    <2>2. UNCHANGED <<Redis!AbsCall, Redis!AbsAnswer>>
      BY <2>1 DEF Redis!AbsCall, Redis!AbsAnswer
    <2>3. QED
      BY <2>1, <2>2 DEF Redis!KV!vars
  <1>4. CASE Redis!ScanDone(t)
    <2>1. /\ pc[t] = "list" /\ pc'[t] = "idle" /\ call'[t] = call[t] /\ found'[t] = found[t]
          /\ UNCHANGED data /\ call[t].op \in Redis!ScanOps
      BY <1>4, <1>b DEF Redis!ScanDone, Redis!Scanned, Redis!End, RedisPhaseOf
    <2>2. QED
      BY <1>a, <1>b, <2>1, RedisScanShown, RedisStutters
  <1>5. CASE Redis!Read(t)
    <2>1. /\ pc[t] = "start" /\ call[t].op \in {"get", "get_many", "contains_many", "count"}
          /\ Redis!End(t, Redis!KV!Returns(Redis!SeenBy(call[t]))) /\ UNCHANGED data
      BY <1>5 DEF Redis!Read, Redis!Starts, Redis!server
    <2>2. Redis!AbsCall[t] = call[t] /\ Redis!KV!Ends(t, Redis!KV!Returns(Redis!SeenBy(call[t])))
      BY <1>c, <2>1 DEF Redis!ScanOps
    <2>3. Redis!SeenBy(call[t]) = Redis!KV!Seen(call[t], data)
      BY <1>b, <2>1, RedisSameData, RedisSameCount DEF Redis!SeenBy, Redis!KV!Seen,
         Redis!KeySetMatchesData
    <2>4. Redis!KV!Answer(call[t], data) = Redis!KV!Returns(Redis!KV!Seen(call[t], data))
      <3>1. ~Redis!KV!Refused(call[t], data) /\ call[t].op \in Redis!KV!ReadOps
        BY <2>1, RedisPromises DEF Redis!KV!ReadOps
      <3>2. QED
        BY <3>1 DEF Redis!KV!Answer
    <2>5. QED
      BY <1>b, <2>1, <2>2, <2>3, <2>4, RedisReads DEF Redis!KV!ReadOps
  <1>6. CASE Redis!Overwrite(t)
    <2>1. /\ pc[t] = "start" /\ call[t].op = "set_many" /\ call[t].on_conflict = "overwrite"
          /\ Redis!End(t, Redis!KV!Ok) /\ data' = Redis!Stored(data, call[t].items)
      BY <1>6 DEF Redis!Overwrite, Redis!Starts, Redis!PutAll
    <2>2. ~Redis!KV!Refused(call[t], data) /\ Redis!KV!Effect(call[t], data) = call[t].items
      BY <2>1 DEF Redis!KV!Refused, Redis!KV!Refuses, Redis!KV!Effect
    <2>3. Redis!AbsCall[t] = call[t] /\ Redis!KV!Ends(t, Redis!KV!Ok)
      BY <1>c, <2>1 DEF Redis!ScanOps
    <2>4. QED
      BY <2>1, <2>2, <2>3, RedisWritesDone DEF Redis!KV!WriteOps
  <1>7. CASE Redis!Delete(t)
    <2>1. /\ pc[t] = "start" /\ call[t].op \in {"delete", "delete_many"}
          /\ Redis!End(t, Redis!KV!Ok)
          /\ data' = Redis!Stored(data, [k \in call[t].keys |-> Absent])
      BY <1>7 DEF Redis!Delete, Redis!Starts, Redis!DropAll
    <2>2. Redis!AbsCall[t] = call[t] /\ Redis!KV!Ends(t, Redis!KV!Ok)
      BY <1>c, <2>1 DEF Redis!ScanOps
    <2>3. /\ ~Redis!KV!Refused(call[t], data)
          /\ Redis!KV!Effect(call[t], data) = [k \in call[t].keys |-> Absent]
      BY <2>1, RedisPromises
    <2>4. QED
      BY <2>1, <2>2, <2>3, RedisWritesDone DEF Redis!KV!WriteOps
  <1>8. CASE Redis!ClearList(t)
    <2>1. /\ call[t].op = "clear" /\ call'[t] = call[t] /\ pc[t] = "start"
          /\ pc'[t] = "listed" /\ found'[t] = keySet /\ UNCHANGED data
      BY <1>8, <1>b DEF Redis!ClearList, Redis!Starts, Redis!GoTo, Redis!server
    <2>2. Redis!AbsCall[t] = Redis!ListCall /\ Redis!AbsCall'[t] = Redis!ListCall
          /\ Redis!AbsAnswer[t] = Redis!KV!NoAnswer
          /\ Redis!AbsAnswer'[t] = [kind |-> "returns", value |-> keySet]
      BY <1>b, <2>1, RedisClearShown
    <2>3. Redis!KV!Ends(t, Redis!KV!Answer(Redis!AbsCall[t], data))
      BY <1>a, <1>b, <1>seen, <2>2, RedisEnding
    <2>4. QED
      BY <1>b, <1>ops, <2>1, <2>2, <2>3, RedisReads
  <1>9. CASE Redis!ClearCall(t)
    <2>1. /\ call[t].op = "clear" /\ call'[t] = call[t] /\ pc[t] = "listed" /\ pc'[t] = "drop"
          /\ found'[t] = found[t] /\ answer'[t] = Redis!KV!NoAnswer /\ UNCHANGED data
      BY <1>9, <1>b DEF Redis!ClearCall, Redis!GoTo, Redis!server, RedisPhaseOf
    <2>2. /\ Redis!AbsAnswer[t] = [kind |-> "returns", value |-> found[t]]
          /\ Redis!AbsCall'[t] = Redis!DropCall(found[t]) /\ Redis!AbsAnswer'[t] = Redis!KV!NoAnswer
      BY <2>1, RedisClearShown
    <2>3. Redis!AbsAnswer[t] # Redis!KV!NoAnswer
      BY <2>2, RedisOutcomes DEF Redis!KV!Returns
    <2>4. Redis!KV!Invoke(t)
      BY <1>a, <1>b, <2>1, <2>2, <2>3, RedisInvoking
    <2>5. QED
      BY <2>4 DEF Redis!KV!Next
  <1>10. CASE Redis!ClearDrop(t)
    <2>1. /\ call[t].op = "clear" /\ call'[t] = call[t] /\ pc[t] = "drop" /\ pc'[t] = "idle"
          /\ found'[t] = found[t] /\ answer'[t] = Redis!KV!Ok
          /\ data' = Redis!Stored(data, [k \in found[t] |-> Absent])
      BY <1>10, <1>b DEF Redis!ClearDrop, Redis!End, Redis!DropAll, RedisPhaseOf
    <2>2. /\ Redis!AbsCall[t] = Redis!DropCall(found[t])
          /\ Redis!AbsCall'[t] = Redis!DropCall(found[t])
          /\ Redis!AbsAnswer[t] = Redis!KV!NoAnswer /\ Redis!AbsAnswer'[t] = Redis!KV!Ok
      BY <1>b, <2>1, RedisClearShown
    <2>3. Redis!KV!Ends(t, Redis!KV!Ok)
      BY <1>a, <1>b, <2>2, RedisEnding
    <2>4. /\ ~Redis!KV!Refused(Redis!AbsCall[t], data)
          /\ Redis!KV!Effect(Redis!AbsCall[t], data) = [k \in found[t] |-> Absent]
      BY <1>ops, <2>2, RedisPromises
    <2>5. QED
      BY <1>ops, <2>1, <2>2, <2>3, <2>4, RedisWritesDone DEF Redis!KV!WriteOps
  <1>11. CASE Redis!SetNothing(t)
    <2>1. /\ pc[t] = "start" /\ call[t].op = "set_many" /\ call[t].on_conflict # "overwrite"
          /\ DOMAIN call[t].items = {} /\ Redis!End(t, Redis!KV!Ok) /\ UNCHANGED data
      BY <1>11 DEF Redis!SetNothing, Redis!Starts, Redis!server
    <2>2. Redis!AbsCall[t] = call[t] /\ Redis!KV!Ends(t, Redis!KV!Ok)
      BY <1>c, <2>1 DEF Redis!ScanOps
    <2>3. ~Redis!KV!Refused(call[t], data)
      BY <2>1 DEF Redis!KV!Refused, Redis!KV!Refuses, Redis!KV!Conflicts
    <2>4. Redis!KV!Effect(call[t], data)
            = Redis!ToWrite(call[t].items, call[t].on_conflict, Redis!Present(data), data)
      BY <2>1, RedisSameData DEF Redis!KV!Effect
    <2>5. DOMAIN Redis!KV!Effect(call[t], data) = {}
      BY <2>1, <2>4 DEF Redis!ToWrite
    <2>6. QED
      BY <1>b, <2>1, <2>2, <2>3, <2>5, RedisStoredNothing,
         RedisWritesDone DEF Redis!KV!WriteOps
  <1>12. CASE Redis!Watch(t)
    BY <1>12, <1>b, <1>d DEF Redis!Watch, Redis!Starts, Redis!GoTo, Redis!server
  <1>13. CASE Redis!Check(t)
    <2>1. /\ pc[t] = "check" /\ call[t].op = "set_many" /\ call[t].on_conflict # "overwrite"
          /\ UNCHANGED data
      BY <1>13, <1>b DEF Redis!Check, RedisPhaseOf, Redis!server
    <2>2. CASE Redis!Refuses(call[t].items, call[t].on_conflict, keySet)
               /\ Redis!End(t, Redis!KV!KeyError)
      <3>1. Redis!KV!Refused(call[t], data)
        BY <1>b, <2>1, <2>2, RedisSameData DEF Redis!KV!Refused, Redis!KeySetMatchesData
      <3>2. Redis!AbsCall[t] = call[t] /\ Redis!KV!Ends(t, Redis!KV!KeyError)
        BY <1>c, <2>1, <2>2 DEF Redis!ScanOps
      <3>3. Redis!KV!Answer(call[t], data) = Redis!KV!KeyError
        BY <3>1 DEF Redis!KV!Answer, Redis!KV!Refused, Redis!KV!ReadOps
      <3>4. QED
        BY <2>1, <3>1, <3>2, <3>3 DEF Redis!KV!Execute, Redis!KV!Next, Redis!KV!LifecycleOps
    <2>3. CASE Redis!GoTo(t, IF call[t].on_conflict = "merge" THEN "read" ELSE "exec")
      BY <1>b, <1>d, <2>1, <2>3 DEF Redis!GoTo
    <2>4. QED
      BY <1>13, <2>2, <2>3 DEF Redis!Check
  <1>14. CASE Redis!ReadNext(t)
    BY <1>14, <1>b, <1>d DEF Redis!ReadNext, RedisPhaseOf, Redis!server
  <1>15. CASE Redis!ReadDone(t)
    BY <1>15, <1>b, <1>d DEF Redis!ReadDone, RedisPhaseOf, Redis!GoTo, Redis!server
  <1>16. CASE Redis!Exec(t)
    <2> DEFINE r == call[t]
               w == Redis!ToWrite(r.items, r.on_conflict, Redis!Present(data), data)
    <2>1. /\ pc[t] = "exec" /\ ~dirty[t] /\ r.op = "set_many" /\ r.on_conflict # "overwrite"
          /\ Redis!End(t, Redis!KV!Ok)
          /\ data' = Redis!Stored(data, Redis!ToWrite(r.items, r.on_conflict, found[t], got[t]))
      BY <1>16, <1>b DEF Redis!Exec, Redis!PutAll, RedisPhaseOf
    <2>2. ~Redis!Refuses(r.items, r.on_conflict, Redis!Present(data))
          /\ data' = Redis!Stored(data, w)
      BY <2>1, RedisPlanIsCurrent
    <2>3. ~Redis!KV!Refused(r, data)
      BY <2>2, RedisSameData DEF Redis!KV!Refused
    <2>4. Redis!KV!Effect(r, data) = w
      BY <2>1, RedisSameData DEF Redis!KV!Effect
    <2>5. Redis!AbsCall[t] = call[t] /\ Redis!KV!Ends(t, Redis!KV!Ok)
      BY <1>c, <2>1 DEF Redis!ScanOps
    <2>6. QED
      BY <2>1, <2>2, <2>3, <2>4, <2>5, RedisWritesDone DEF Redis!KV!WriteOps
  <1>17. CASE Redis!Retry(t)
    BY <1>17, <1>b, <1>d DEF Redis!Retry, RedisPhaseOf, Redis!GoTo, Redis!server
  <1>18. QED
    BY <1>a, <1>1, <1>2, <1>3, <1>4, <1>5, <1>6, <1>7, <1>8, <1>9, <1>10, <1>11, <1>12,
       <1>13, <1>14, <1>15, <1>16, <1>17 DEF Redis!Step
-----------------------------------------------------------------------------
\* The initial state satisfies every part of the invariant, and shows the
\* contract's initial state.
LEMMA RedisInitCorrect ==
    ASSUME Redis!Init
    PROVE  RedisBase /\ RedisCurrentInv /\ RedisScanInv /\ Redis!KV!Init
  <1>1. Redis!EmptyStore \in Redis!Contents /\ Redis!Present(Redis!EmptyStore) = {}
    BY DEF Redis!EmptyStore, Redis!Contents, Redis!Slot, Redis!Present
  <1>2. Redis!TypeOK
    BY <1>1, RedisNothingType, RedisNoCallType, RedisOutcomes DEF Redis!Init, Redis!TypeOK,
       Redis!Busy
  <1>3. RedisPhaseInv /\ RedisCurrentInv /\ RedisScanInv
    BY DEF Redis!Init, RedisPhaseInv, RedisPhaseOf, RedisCurrentInv, RedisCurrentOf,
       RedisScanInv, RedisScanOf
  <1>4. Redis!KeySetMatchesData
    BY <1>1 DEF Redis!Init, Redis!KeySetMatchesData
  <1>5. Redis!AbsCall = call
    <2>1. Redis!KV!NoCall.op = "open" /\ \A t \in Threads : call[t] = Redis!KV!NoCall
      BY DEF Redis!Init, Redis!KV!NoCall
    <2>2. Redis!AbsCall = [t \in Threads |-> call[t]]
      BY <2>1 DEF Redis!AbsCall, Redis!ScanOps
    <2>3. call = [t \in Threads |-> call[t]]
      BY DEF Redis!Init
    <2>4. QED
      BY <2>2, <2>3
  <1>6. Redis!AbsAnswer = answer
    <2>1. Redis!KV!NoCall.op = "open" /\ \A t \in Threads : call[t] = Redis!KV!NoCall
          /\ pc[t] = "idle"
      BY DEF Redis!Init, Redis!KV!NoCall
    <2>2. Redis!AbsAnswer = [t \in Threads |-> answer[t]]
      BY <2>1 DEF Redis!AbsAnswer, Redis!ScanOps
    <2>3. answer = [t \in Threads |-> answer[t]]
      BY DEF Redis!Init
    <2>4. QED
      BY <2>2, <2>3
  <1>7. Redis!KV!Init
    BY <1>5, <1>6, RedisSameData DEF Redis!Init, Redis!KV!Init
  <1>8. QED
    BY <1>2, <1>3, <1>4, <1>7 DEF RedisBase

\* The part of the invariant that every step keeps by itself.
LEMMA RedisBaseCorrect ==
    ASSUME RedisBase, [Redis!Next]_(Redis!vars)
    PROVE  RedisBase'
  BY RedisTypeCorrect, RedisPhaseCorrect, RedisKeySetCorrect DEF RedisBase

\* contains, count and keys(), which ask __keys__, agree with get in every
\* reachable state: every command that writes values or deletes them updates
\* the set in the same transaction.
THEOREM RedisKeySetAgrees == Redis!Spec => []Redis!KeySetMatchesData
  <1>1. Redis!Init => RedisBase
    BY RedisInitCorrect
  <1>2. RedisBase /\ [Redis!Next]_(Redis!vars) => RedisBase'
    BY RedisBaseCorrect
  <1>3. RedisBase => Redis!KeySetMatchesData
    BY DEF RedisBase
  <1>4. QED
    BY <1>1, <1>2, <1>3, PTL DEF Redis!Spec

\* A scan yields every key that holds a value from its listing to its last
\* batch, and none that was not listed, for every batch_size and whatever the
\* other clients do.
THEOREM RedisScansAreComplete == Redis!Spec => []Redis!ScansComplete
  <1>1. Redis!Init => RedisBase /\ RedisScanInv
    BY RedisInitCorrect
  <1>2. RedisBase /\ RedisScanInv /\ [Redis!Next]_(Redis!vars) => (RedisBase /\ RedisScanInv)'
    BY RedisBaseCorrect, RedisScanCorrect
  <1>3. RedisScanInv => Redis!ScansComplete
    BY DEF RedisScanInv, RedisScanOf, Redis!ScansComplete, Redis!Scanned
  <1>4. QED
    BY <1>1, <1>2, <1>3, PTL DEF Redis!Spec

\* WATCH and the retry loop make every batch atomic, with no lock and any
\* number of clients: the store implements the contract of BaseStore, clear()
\* being a listing followed by a delete_many.
THEOREM RedisImplementsContract == Redis!Spec => Redis!Contract
  <1>1. Redis!Init => RedisBase /\ RedisCurrentInv /\ Redis!KV!Init
    BY RedisInitCorrect
  <1>2. RedisBase /\ RedisCurrentInv /\ [Redis!Next]_(Redis!vars) => (RedisBase /\ RedisCurrentInv)'
    BY RedisBaseCorrect, RedisCurrentCorrect
  <1>3. RedisBase /\ RedisCurrentInv /\ [Redis!Next]_(Redis!vars) => [Redis!KV!Next]_(Redis!KV!vars)
    BY RedisStepRefines
  <1>4. QED
    BY <1>1, <1>2, <1>3, PTL DEF Redis!Spec, Redis!Contract, Redis!KV!Spec

-----------------------------------------------------------------------------
RedisInv == RedisBase /\ RedisCurrentInv /\ RedisScanInv

Inv ==
    /\ site \in Sites
    /\ OnRedis => RedisInv
    /\ OnPostgres => PgInv

\* A step of the clients of one site is one of its server.
LEMMA OnRedisStep ==
    ASSUME OnRedis, [Next]_vars
    PROVE  [Redis!Next]_(Redis!vars) /\ UNCHANGED site
  <1>1. CASE UNCHANGED vars
    BY <1>1 DEF vars, redisVars, Redis!vars, Redis!server
  <1>2. CASE Next
    <2>1. site' = site /\ \E t \in Threads : Begin(t) \/ Step(t)
      BY <1>2 DEF Next
    <2>2. PICK t \in Threads : Begin(t) \/ Step(t)
      BY <2>1
    <2>3. site.server # "postgres"
      BY DEF OnRedis
    <2>4. Redis!Begin(t) \/ Redis!Step(t)
      BY <2>2, <2>3 DEF Begin, Step, OnPostgres
    <2>5. QED
      BY <2>1, <2>4 DEF Redis!Next
  <1>3. QED
    BY <1>1, <1>2

LEMMA OnPostgresStep ==
    ASSUME OnPostgres, Next
    PROVE  /\ UNCHANGED site
           /\ \E t \in Threads :
                \/ Pg!Begin(t) /\ call'[t] \in site.calls
                \/ Pg!Step(t)
  <1>1. site' = site /\ \E t \in Threads : Begin(t) \/ Step(t)
    BY DEF Next
  <1>2. site.server # "redis"
    BY DEF OnPostgres
  <1>3. QED
    BY <1>1, <1>2 DEF Begin, Step, OnRedis

\* The invariant holds of the initial states.
LEMMA InitCorrect ==
    ASSUME Init
    PROVE  Inv /\ Redis!KV!Init /\ Pg!KV!Init
  <1>1. RedisBase /\ RedisCurrentInv /\ RedisScanInv /\ Redis!KV!Init
    BY RedisInitCorrect DEF Init
  <1>2. EmptyStore \in Contents
    BY DEF EmptyStore, Contents, Slot
  <1>3. Pg!TypeOK
    BY <1>2, PgTypes, PgNothing, PgNoCall, PgOutcomes, SameData DEF Init, Pg!Init
  <1>4. /\ \A t \in Threads : pc[t] = "idle" /\ todo[t] = {} /\ want[t] = NoKey
        /\ \A t \in Threads : DOMAIN work[t] = {}
        /\ \A k \in Keys : advisory[k] = NoThread
    BY PgNothing DEF Init, Pg!Init
  <1>5. SessionInv /\ StatementInv
    BY <1>4 DEF SessionInv, SessionOf, StatementInv, StatementOf
  <1>6. LocksInv /\ RowsInv
    BY <1>4, ThreadAssumption DEF LocksInv, LocksOf, RowsInv, RowsOf
  <1>7. \A t \in Threads : CallsOf(t) /\ CurrentOf(t)
    BY <1>4 DEF CallsOf, CurrentOf
  <1>8. PgInv
    BY <1>3, <1>5, <1>6, <1>7 DEF PgInv, PgBase
  <1>9. Pg!KV!Init
    BY SameContract, SameData DEF Init, Pg!Init, Pg!KV!Init
  <1>10. site \in Sites
    BY DEF Init
  <1>11. QED
    BY <1>1, <1>8, <1>9, <1>10 DEF Inv, RedisInv

\* Only a client in a call takes a step, and it stays in that call.
LEMMA StepInCall ==
    ASSUME NEW t \in Threads, Pg!Step(t)
    PROVE  pc[t] # "idle" /\ call' = call
  <1> USE DEF Pg!End, Pg!GoTo, Pg!Execute, Pg!Advance, Pg!Rollback, Pg!Commit, Pg!Starts
  <1>1. CASE Pg!Abort(t)
    BY <1>1 DEF Pg!Abort, Pg!Cycle, Pg!WaitsFor
  <1>2. CASE Pg!SkipDeadRow(t) \/ Pg!TakeRow(t) \/ Pg!TakeLock(t)
    BY <1>2 DEF Pg!SkipDeadRow, Pg!TakeRow, Pg!TakeLock
  <1>3. CASE Pg!Read(t) \/ Pg!Iterate(t) \/ Pg!SetNothing(t) \/ Pg!Finish(t)
    BY <1>3 DEF Pg!Read, Pg!Iterate, Pg!SetNothing, Pg!Finish
  <1>4. CASE Pg!Overwrite(t) \/ Pg!Delete(t) \/ Pg!Enter(t) \/ Pg!Locked(t)
    BY <1>4 DEF Pg!Overwrite, Pg!Delete, Pg!Enter, Pg!Locked
  <1>5. CASE Pg!Check(t) \/ Pg!ReadNext(t) \/ Pg!ReadDone(t)
    BY <1>5 DEF Pg!Check, Pg!ReadNext, Pg!ReadDone
  <1>6. QED
    BY <1>1, <1>2, <1>3, <1>4, <1>5 DEF Pg!Step

LEMMA PgInvCorrect ==
    ASSUME PgInv, Next, OnPostgres, site \in Sites
    PROVE  PgInv'
  <1>1. site' = site
    BY OnPostgresStep
  <1>2. PICK t \in Threads : (Pg!Begin(t) /\ call'[t] \in site.calls) \/ Pg!Step(t)
    BY OnPostgresStep
  <1>3. PgBase'
    BY <1>2, PgBaseCorrect DEF PgInv
  <1>4. ASSUME NEW u \in Threads PROVE CallsOf(u)'
    <2>1. CASE u # t
      BY <1>1, <1>2, <2>1, PgOthersKeep DEF PgInv, PgBase, CallsOf, OtherKept
    <2>2. CASE u = t /\ Pg!Begin(t) /\ call'[t] \in site.calls
      BY <1>1, <2>2 DEF CallsOf
    <2>3. CASE u = t /\ Pg!Step(t)
      BY <1>1, <2>3, StepInCall DEF PgInv, CallsOf
    <2>4. QED
      BY <1>2, <2>1, <2>2, <2>3
  <1>5. ASSUME Batches' PROVE \A u \in Threads : CurrentOf(u)'
    BY <1>1, <1>2, <1>5, CurrentCorrect DEF PgInv, Batches
  <1>6. QED
    BY <1>3, <1>4, <1>5 DEF PgInv

LEMMA PgStutter ==
    ASSUME PgInv, UNCHANGED vars
    PROVE  PgInv'
  <1> USE DEF vars, postgresVars
  <1>1. (Pg!TypeOK)'
    BY DEF PgInv, PgBase, Pg!TypeOK, Pg!Busy
  <1>2. SessionInv' /\ StatementInv'
    BY DEF PgInv, PgBase, SessionInv, SessionOf, StatementInv, StatementOf
  <1>3. LocksInv' /\ RowsInv'
    BY DEF PgInv, PgBase, LocksInv, LocksOf, RowsInv, RowsOf, Pg!Planned
  <1>4. /\ \A t \in Threads : CallsOf(t)'
        /\ Batches' => \A t \in Threads : CurrentOf(t)'
    BY DEF PgInv, CallsOf, Batches, CurrentOf, Present
  <1>5. QED
    BY <1>1, <1>2, <1>3, <1>4 DEF PgInv, PgBase

\* Every step keeps it.
LEMMA InvCorrect ==
    ASSUME Inv, [Next]_vars
    PROVE  Inv'
  <1>1. site' = site
    BY DEF Next, vars
  <1>2. ASSUME OnRedis PROVE RedisInv'
    BY <1>2, OnRedisStep, RedisBaseCorrect, RedisCurrentCorrect, RedisScanCorrect
       DEF Inv, RedisInv
  <1>3. ASSUME OnPostgres PROVE PgInv'
    <2>1. CASE Next
      BY <1>3, <2>1, PgInvCorrect DEF Inv
    <2>2. CASE UNCHANGED vars
      BY <1>3, <2>2, PgStutter DEF Inv
    <2>3. QED
      BY <2>1, <2>2
  <1>4. QED
    BY <1>1, <1>2, <1>3 DEF Inv, OnRedis, OnPostgres

-----------------------------------------------------------------------------
\* The clients of either server keep the types of its state.
THEOREM TypeSafety == FairSpec => []TypeOK
  <1>1. Inv => TypeOK
    BY DEF Inv, RedisInv, RedisBase, PgInv, PgBase, TypeOK
  <1>2. QED
    BY <1>1, InitCorrect, InvCorrect, PTL DEF FairSpec

(* Two sessions past their locks, and before their commit, have no key in  *)
(* common.                                                                 *)
KeysApart ==
    \A t, u \in Threads :
        LET Decides(v) == pc[v] \in {"check", "read", "write"} /\ Pg!Guarded(call[v]) IN
        t # u /\ Decides(t) /\ Decides(u) =>
            DOMAIN call[t].items \cap DOMAIN call[u].items = {}

\* Who holds an advisory lock, and when (postgres.py:44, 297): a session has one
\* only for a key of the conditional batch it is in, takes them in the order of
\* the keys, has those of all its keys from its check to its commit, and none
\* when its call is over, however it ends.  No two sessions decide on one key at
\* a time.
THEOREM LocksFollowPhases == FairSpec => [](OnPostgres => LocksInv /\ KeysApart)
  <1>1. Inv => (OnPostgres => LocksInv /\ KeysApart)
    <2> SUFFICES ASSUME Inv, OnPostgres PROVE LocksInv /\ KeysApart
      OBVIOUS
    <2>1. LocksInv /\ Pg!TypeOK
      BY DEF Inv, PgInv, PgBase
    <2>2. ASSUME NEW t \in Threads, NEW u \in Threads, t # u,
                 pc[t] \in {"check", "read", "write"} /\ Pg!Guarded(call[t]),
                 pc[u] \in {"check", "read", "write"} /\ Pg!Guarded(call[u]),
                 NEW k \in DOMAIN call[t].items \cap DOMAIN call[u].items
          PROVE  FALSE
      <3>1. advisory[k] = t /\ advisory[k] = u
        BY <2>1, <2>2 DEF LocksInv, LocksOf
      <3>2. QED
        BY <2>2, <3>1
    <2>3. QED
      BY <2>1, <2>2 DEF KeysApart
  <1>2. QED
    BY <1>1, InitCorrect, InvCorrect, PTL DEF FairSpec

\* contains, count and keys() of Redis, which ask __keys__, agree with get in
\* every reachable state of every Redis site.
THEOREM KeySetAgrees == FairSpec => []KeySetMatchesData
  <1>1. Inv => KeySetMatchesData
    BY DEF Inv, RedisInv, RedisBase, KeySetMatchesData
  <1>2. QED
    BY <1>1, InitCorrect, InvCorrect, PTL DEF FairSpec

\* iter_batches and filter of Redis yield every key that held a value all
\* through the scan, whatever the other clients delete and add meanwhile.
THEOREM ScansAreComplete == FairSpec => []ScansComplete
  <1>1. RedisScanInv => Redis!ScansComplete
    BY DEF RedisScanInv, RedisScanOf, Redis!ScansComplete, Redis!Scanned
  <1>2. Inv => ScansComplete
    BY <1>1 DEF Inv, RedisInv, ScansComplete
  <1>3. QED
    BY <1>2, InitCorrect, InvCorrect, PTL DEF FairSpec

\* PostgreSQL: the batches that sort their advisory locks never deadlock with
\* each other, whatever the number of clients, of keys and of batches.
THEOREM GuardedBatchesDoNotDeadlock ==
    ASSUME IsFiniteSet(Threads)
    PROVE  FairSpec => []DeadlocksNeedUnlockedWriter
  <1>1. PgBase => Pg!DeadlocksNeedUnlockedWriter
    BY NoRing DEF Pg!DeadlocksNeedUnlockedWriter
  <1>2. Inv => DeadlocksNeedUnlockedWriter
    BY <1>1 DEF Inv, PgInv, DeadlocksNeedUnlockedWriter
  <1>3. QED
    BY <1>2, InitCorrect, InvCorrect, PTL DEF FairSpec

\* Each server implements the contract of BaseStore: Redis for every client,
\* PostgreSQL for the processes that read and write with "raise", "skip" and
\* "merge" only, whose batches are atomic by their advisory locks.
THEOREM ImplementsContract ==
    ASSUME IsFiniteSet(Threads)
    PROVE  FairSpec => Contract
  <1>1. Inv /\ [Next]_vars => [OnRedis => Redis!KV!Next]_(Redis!KV!vars)
    <2> SUFFICES ASSUME Inv, [Next]_vars, OnRedis
                 PROVE  Redis!KV!Next \/ UNCHANGED Redis!KV!vars
      BY DEF OnRedis
    <2>1. QED
      BY OnRedisStep, RedisStepRefines DEF Inv, RedisInv
  <1>2. Inv /\ [Next]_vars => [OnPostgres /\ Batches => Pg!KV!Next]_(Pg!KV!vars)
    <2> SUFFICES ASSUME Inv, [Next]_vars, OnPostgres, Batches
                 PROVE  Pg!KV!Next \/ UNCHANGED Pg!KV!vars
      OBVIOUS
    <2>1. CASE Next
      BY <2>1, OnPostgresStep, PgStepRefines DEF Inv
    <2>2. CASE UNCHANGED vars
      BY <2>2 DEF vars, Pg!KV!vars
    <2>3. QED
      BY <2>1, <2>2
  <1>3. QED
    BY <1>1, <1>2, InitCorrect, InvCorrect, PTL DEF FairSpec, Contract
=============================================================================
