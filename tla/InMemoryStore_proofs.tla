------------------------ MODULE InMemoryStore_proofs ------------------------
(***************************************************************************)
(* Theorems about InMemoryStore for every set of threads, keys and calls.  *)
(*                                                                         *)
(* The argument has two layers.  Whatever the callers do, the lock is held *)
(* by at most the thread that is past Acquire (LockInv), which is why what *)
(* a batch has still to write stays current (PlannedWritesAreCurrent).     *)
(* When no call overlaps an open() or a close() (scoped), a thread that is *)
(* past the open check also finds the store open (ScopeInv), and that is   *)
(* enough for the store to implement BaseStore's contract.                 *)
(***************************************************************************)
EXTENDS InMemoryStore, StoreData_proofs

-----------------------------------------------------------------------------
(* What the phase of a thread says about its call and its locals.          *)
PhaseInv ==
    \A t \in Threads :
        LET op == call[t].op IN
        /\ pc[t] = "check" =>
              op \notin {"open", "close", "get_many", "delete_many"}
        /\ pc[t] \in {"acquire", "locked"} => op # "open"
        /\ pc[t] \in {"opening", "reset", "unclose"} => op = "open"
        /\ pc[t] \in {"contains", "write"} => op = "set_many"
        /\ pc[t] = "contains" =>
              call[t].on_conflict # "overwrite" /\ DOMAIN got[t] = DOMAIN call[t].items
        /\ pc[t] = "delete" => op = "delete_many"
        /\ pc[t] \notin {"write", "delete"} => todo[t] = Nothing
        /\ \/ pc[t] = "contains" \/ (pc[t] = "locked" /\ op = "get_many")
           \/ got[t] = Nothing
        /\ pc[t] # "contains" => found[t] = Nothing

LockInv == \A t \in Threads : lock = t <=> pc[t] \in Holding

(* While a batch tests its keys, a key that is there was there when its get *)
(* was bound, with the value it has now, and when the key was tested: the  *)
(* dict can only have been replaced by an empty one.                       *)
ResolveInv ==
    \A t \in Threads :
        pc[t] = "contains" =>
            /\ ~closed
            /\ \A k \in DOMAIN call[t].items :
                data[k] # Absent =>
                    /\ got[t][k] = data[k]
                    /\ k \in DOMAIN found[t] => found[t][k]

(* With no call around an open() or a close(): whoever passed the check is *)
(* on an open store, a closed store is empty, and get_many's reads hold.   *)
ScopeInv ==
    /\ \A t, u \in Threads : t # u /\ InLifecycle(t) => ~Busy(u)
    /\ closed => data = EmptyStore
    /\ \A t \in Threads :
        LET op == call[t].op IN
        /\ pc[t] \in {"reset", "unclose"} => closed
        /\ /\ pc[t] \in {"acquire", "locked", "contains", "write"}
           /\ op \notin {"close", "get_many", "delete_many"}
           => ~closed
        /\ closed => got[t] = Nothing
        /\ closed /\ pc[t] = "delete" => todo[t] = [k \in call[t].keys |-> Absent]
        /\ \A k \in DOMAIN got[t] :
              got[t][k] = data[k] /\ (op = "get_many" => k \in call[t].keys)
        /\ \A k \in DOMAIN found[t] : found[t][k] <=> data[k] # Absent

(* Layer one: nothing is assumed about the callers.                        *)
Base == TypeOK /\ PhaseInv /\ LockInv

-----------------------------------------------------------------------------
\* The contract's copies of the data operators are the store's own.
LEMMA SameData ==
    /\ KV!Value = Value
    /\ KV!Items = Items
    /\ KV!OnConflict = OnConflict
    /\ KV!EmptyStore = EmptyStore
    /\ \A d : KV!Present(d) = Present(d)
    /\ \A i, oc, f, d : KV!ToWrite(i, oc, f, d) = ToWrite(i, oc, f, d)
    /\ \A d, w : KV!Stored(d, w) = Stored(d, w)
  <1>1. KV!Value = Value
    BY DEF KV!Value, Value
  <1>2. KV!Items = Items
    BY <1>1 DEF KV!Items, Items
  <1>3. \A i, oc, f, d : KV!ToWrite(i, oc, f, d) = ToWrite(i, oc, f, d)
    BY DEF KV!ToWrite, ToWrite, KV!Merged, Merged, KV!OrEmpty, OrEmpty
  <1>4. \A d : KV!Present(d) = Present(d)
    BY DEF KV!Present, Present
  <1>5. \A d, w : KV!Stored(d, w) = Stored(d, w)
    BY DEF KV!Stored, Stored
  <1>6. KV!OnConflict = OnConflict /\ KV!EmptyStore = EmptyStore
    BY DEF KV!OnConflict, OnConflict, KV!EmptyStore, EmptyStore
  <1>7. QED
    BY <1>1, <1>2, <1>3, <1>4, <1>5, <1>6

\* The four ways a call may end so far, and an empty set of writes.
LEMMA Outcomes ==
    /\ KV!Ok # KV!NoAnswer
    /\ KV!KeyError # KV!NoAnswer
    /\ KV!RuntimeError # KV!NoAnswer
    /\ \A v : KV!Returns(v) # KV!NoAnswer
    /\ \A r, d : KV!Answer(r, d) # KV!NoAnswer
  <1>1. /\ KV!Ok # KV!NoAnswer
        /\ KV!KeyError # KV!NoAnswer
        /\ KV!RuntimeError # KV!NoAnswer
    BY DEF KV!Ok, KV!KeyError, KV!RuntimeError, KV!NoAnswer
  <1>2. ASSUME NEW v PROVE KV!Returns(v) # KV!NoAnswer
    <2>1. KV!Returns(v).kind # KV!NoAnswer.kind
      BY DEF KV!Returns, KV!NoAnswer
    <2>2. QED
      BY <2>1
  <1>3. \A r, d : KV!Answer(r, d) # KV!NoAnswer
    BY <1>1, <1>2 DEF KV!Answer
  <1>4. QED
    BY <1>1, <1>2, <1>3

LEMMA NothingType == Nothing \in Writes /\ DOMAIN Nothing = {}
  <1>1. Nothing \in [{} -> Slot] /\ DOMAIN Nothing = {}
    BY DEF Nothing
  <1>2. QED
    BY <1>1, ItemsDef

LEMMA TestsType ==
    /\ Nothing \in Tests
    /\ \A f \in Tests : DOMAIN f \in SUBSET Keys /\ \A k \in DOMAIN f : f[k] \in BOOLEAN
    /\ \A f \in Tests, k \in Keys, b \in BOOLEAN : With(f, k, b) \in Tests
  <1>1. Nothing \in [{} -> BOOLEAN]
    BY DEF Nothing
  <1>2. ASSUME NEW f \in Tests
        PROVE  DOMAIN f \in SUBSET Keys /\ \A k \in DOMAIN f : f[k] \in BOOLEAN
    BY DEF Tests
  <1>3. ASSUME NEW f \in Tests, NEW k \in Keys, NEW b \in BOOLEAN
        PROVE  With(f, k, b) \in Tests
    <2>1. With(f, k, b) \in [DOMAIN f \cup {k} -> BOOLEAN]
      BY <1>2 DEF With
    <2>2. QED
      BY <1>2, <2>1 DEF Tests
  <1>4. QED
    BY <1>1, <1>2, <1>3 DEF Tests

LEMMA EmptyStoreType == EmptyStore \in Contents
  BY DEF EmptyStore, Contents, Slot

\* The fields of a call.
LEMMA RequestType ==
    ASSUME NEW r \in KV!Request
    PROVE  /\ r.op \in KV!LifecycleOps \cup KV!WriteOps \cup KV!ReadOps
           /\ r.keys \in SUBSET Keys
           /\ r.items \in Items
           /\ r.on_conflict \in OnConflict
           /\ r.filters \in Value
  BY SameData DEF KV!Request

LEMMA NoCallType == KV!NoCall \in KV!Request
  <1>1. [k \in {} |-> Absent] \in [{} -> Value] /\ [f \in {} |-> f] \in [{} -> Vals]
    OBVIOUS
  <1>2. [k \in {} |-> Absent] \in Items
    BY <1>1, ItemsDef
  <1>3. [f \in {} |-> f] \in Value
    BY <1>1, ValueDef
  <1>4. QED
    BY <1>2, <1>3, SameData DEF KV!NoCall, KV!Request, KV!LifecycleOps, OnConflict

\* delete, delete_many and clear write Absent to the keys they name.
LEMMA RemoveType ==
    ASSUME NEW r \in KV!Request, NEW d \in Contents,
           r.op \in {"delete", "delete_many", "clear"}
    PROVE  KV!Effect(r, d) \in Writes
  <1>1. [k \in r.keys |-> Absent] \in Writes
    BY RequestType, ItemsDef DEF Slot
  <1>2. EmptyStore \in Writes
    BY ItemsDef DEF EmptyStore, Slot
  <1>3. QED
    BY <1>1, <1>2, SameData DEF KV!Effect

-----------------------------------------------------------------------------
\* What a conditional batch writes.
LEMMA ResolvedType ==
    ASSUME Base, NEW t \in Threads, pc[t] = "contains", DOMAIN found[t] = DOMAIN call[t].items
    PROVE  LET seen == {k \in DOMAIN found[t] : found[t][k]} IN
           ToWrite(call[t].items, call[t].on_conflict, seen, got[t]) \in Writes
  <1> DEFINE seen == {k \in DOMAIN found[t] : found[t][k]}
             r == call[t]
             d == Stored(EmptyStore, got[t])
  <1>1. /\ r.items \in Items /\ r.on_conflict \in OnConflict /\ DOMAIN r.items \in SUBSET Keys
        /\ got[t] \in Writes /\ DOMAIN got[t] = DOMAIN r.items
    BY RequestType, ItemsDef DEF Base, PhaseInv, TypeOK
  <1>2. d \in Contents /\ \A k \in DOMAIN got[t] : d[k] = got[t][k]
    BY <1>1, StoredType, EmptyStoreType DEF Stored
  <1>3. ToWrite(r.items, r.on_conflict, seen, got[t]) = ToWrite(r.items, r.on_conflict, seen, d)
    BY <1>1, <1>2 DEF ToWrite
  <1>4. seen \in SUBSET Keys
    BY <1>1
  <1>5. ToWrite(r.items, r.on_conflict, seen, d) \in Items
    BY <1>1, <1>2, <1>4, ToWriteType
  <1>6. QED
    BY <1>3, <1>5, ItemsDef

\* Ending a call, and turning to its writes, keep the types.
LEMMA EndTyped ==
    ASSUME TypeOK, NEW t \in Threads, NEW a, a # KV!NoAnswer, End(t, a),
           data' \in Contents, closed' \in BOOLEAN, lock' \in Threads \cup {NoThread},
           scoped' = scoped
    PROVE  TypeOK'
  <1>1. /\ todo' \in [Threads -> Writes] /\ got' \in [Threads -> Writes]
        /\ found' \in [Threads -> Tests]
    BY NothingType, TestsType DEF TypeOK, End, Forget
  <1>2. QED
    BY <1>1 DEF TypeOK, End, Busy, Phases

LEMMA EnterTyped ==
    ASSUME TypeOK, NEW t \in Threads, Busy(t), NEW phase \in Phases \ {"idle"},
           NEW w \in Writes, Enter(t, phase, w), scoped' = scoped
    PROVE  TypeOK'
  <1>1. /\ todo' \in [Threads -> Writes] /\ got' \in [Threads -> Writes]
        /\ found' \in [Threads -> Tests]
    BY NothingType, TestsType DEF TypeOK, Enter, Forget
  <1>2. QED
    BY <1>1 DEF TypeOK, Enter, Busy, Phases

\* The state keeps its types.
LEMMA TypeCorrect ==
    ASSUME Base, [Next]_vars
    PROVE  TypeOK'
  <1> USE Outcomes, EndTyped, EnterTyped DEF Base, TypeOK, Busy, Phases
  <1>0. scoped' = scoped
    BY DEF Next, Begin, Step, vars
  <1> USE <1>0
  <1>1. CASE UNCHANGED vars
    BY <1>1 DEF vars, locals
  <1>2. ASSUME NEW t \in Threads, Begin(t) PROVE TypeOK'
    BY <1>2, RequestsAssumption DEF Begin, Entry, locals
  <1>3. ASSUME NEW t \in Threads, CheckOpen(t) PROVE TypeOK'
    BY <1>3 DEF CheckOpen, locals
  <1>4. ASSUME NEW t \in Threads, Acquire(t) PROVE TypeOK'
    BY <1>4 DEF Acquire, locals
  <1>5. ASSUME NEW t \in Threads, Read(t) PROVE TypeOK'
    BY <1>5 DEF Read, Locked, Leave
  <1>6. ASSUME NEW t \in Threads, GetNext(t) PROVE TypeOK'
    <2>1. PICK k \in call[t].keys \ DOMAIN got[t] :
            IF closed THEN Leave(t, KV!RuntimeError)
            ELSE /\ got' = [got EXCEPT ![t] = With(got[t], k, data[k])]
                 /\ UNCHANGED <<lock, pc, call, answer, todo, found>>
      BY <1>6 DEF GetNext
    <2>2. k \in Keys /\ data[k] \in Slot
      BY RequestType DEF Contents
    <2>3. With(got[t], k, data[k]) \in Writes
      <3>1. got[t] \in Writes /\ DOMAIN got[t] \in SUBSET Keys
            /\ \A i \in DOMAIN got[t] : got[t][i] \in Slot
        BY ItemsDef
      <3>2. With(got[t], k, data[k]) \in [DOMAIN got[t] \cup {k} -> Slot]
        BY <2>2, <3>1 DEF With
      <3>3. QED
        BY <2>2, <3>1, <3>2, ItemsDef
    <2>4. CASE closed
      BY <1>6, <2>1, <2>4 DEF GetNext, Locked, Leave
    <2>5. CASE ~closed
      BY <1>6, <2>1, <2>3, <2>5 DEF GetNext, Locked
    <2>6. QED
      BY <2>4, <2>5
  <1>7. ASSUME NEW t \in Threads, GetDone(t) PROVE TypeOK'
    BY <1>7 DEF GetDone, Locked, Leave
  <1>8. ASSUME NEW t \in Threads, Overwrite(t) PROVE TypeOK'
    <2>1. call[t].items \in Writes
      BY RequestType, ItemsDef
    <2>2. QED
      BY <1>8, <2>1 DEF Overwrite, Locked
  <1>91. ASSUME NEW t \in Threads, StartResolve(t) PROVE TypeOK'
    <2>1. CASE closed
      BY <1>91, <2>1 DEF StartResolve, Conditional, Locked, Leave
    <2>2. [k \in DOMAIN call[t].items |-> data[k]] \in Writes
      BY RequestType, ItemsDef DEF Contents
    <2>3. CASE ~closed
      BY <1>91, <2>2, <2>3 DEF StartResolve, Conditional, Bind, Locked
    <2>4. QED
      BY <2>1, <2>3
  <1>92. ASSUME NEW t \in Threads, ContainsNext(t) PROVE TypeOK'
    <2>1. PICK k \in DOMAIN call[t].items :
            found' = [found EXCEPT ![t] = With(found[t], k, data[k] # Absent)]
      BY <1>92 DEF ContainsNext
    <2>2. k \in Keys /\ With(found[t], k, data[k] # Absent) \in Tests
      BY <2>1, RequestType, ItemsDef, TestsType
    <2>3. QED
      BY <1>92, <2>1, <2>2 DEF ContainsNext
  <1>9. ASSUME NEW t \in Threads, Resolve(t) PROVE TypeOK'
    <2> DEFINE seen == {k \in DOMAIN found[t] : found[t][k]}
               w == ToWrite(call[t].items, call[t].on_conflict, seen, got[t])
    <2>1. w \in Writes
      BY <1>9, ResolvedType DEF Resolve
    <2>3. CASE Leave(t, KV!KeyError) /\ UNCHANGED <<data, closed>>
      BY <1>9, <2>3 DEF Resolve, Leave
    <2>4. CASE Enter(t, "write", w)
      BY <1>9, <2>1, <2>4 DEF Resolve
    <2>5. QED
      BY <1>9, <2>3, <2>4 DEF Resolve
  <1>10. ASSUME NEW t \in Threads, NEW k \in DOMAIN todo[t],
                pc[t] \in {"write", "delete"}, DoNext(t, k)
         PROVE  TypeOK'
    <2>1. /\ [i \in DOMAIN todo[t] \ {k} |-> todo[t][i]] \in Writes
          /\ [data EXCEPT ![k] = todo[t][k]] \in Contents
      <3>1. todo[t] \in Writes /\ data \in Contents
        OBVIOUS
      <3>2. QED
        BY ONLY <3>1, StoredStep, <1>10
    <2>2. data' \in Contents /\ UNCHANGED <<closed, lock, pc, call, answer, got, found>>
      BY <1>10, <2>1 DEF DoNext
    <2>3. PICK w \in Writes : todo' = [todo EXCEPT ![t] = w]
      BY <1>10, <2>1 DEF DoNext
    <2>4. todo' \in [Threads -> Writes]
      BY <2>3
    <2>5. QED
      BY <2>2, <2>4
  <1>11. ASSUME NEW t \in Threads, WriteNext(t) PROVE TypeOK'
    BY <1>10, <1>11 DEF WriteNext
  <1>12. ASSUME NEW t \in Threads, DeleteMany(t) PROVE TypeOK'
    <2>1. [k \in call[t].keys |-> Absent] \in Writes
      BY RequestType, ItemsDef DEF Slot
    <2>2. QED
      BY <1>12, <2>1 DEF DeleteMany, Locked
  <1>13. ASSUME NEW t \in Threads, DeleteNext(t) PROVE TypeOK'
    <2>1. CASE Leave(t, KV!RuntimeError) /\ UNCHANGED <<data, closed>>
      BY <1>13, <2>1 DEF DeleteNext, Leave
    <2>2. QED
      BY <1>10, <1>13, <2>1 DEF DeleteNext
  <1>14. ASSUME NEW t \in Threads, Done(t) PROVE TypeOK'
    BY <1>14 DEF Done, Leave
  <1>15. ASSUME NEW t \in Threads, Remove(t) PROVE TypeOK'
    <2>1. Stored(data, KV!Effect(call[t], data)) \in Contents
      BY <1>15, RemoveType, StoredType DEF Remove, Locked
    <2>2. QED
      BY <1>15, <2>1 DEF Remove, Locked, Leave
  <1>16. ASSUME NEW t \in Threads, Close(t) PROVE TypeOK'
    BY <1>16, EmptyStoreType DEF Close, Locked, Leave
  <1>17. ASSUME NEW t \in Threads, OpenCheck(t) PROVE TypeOK'
    BY <1>17 DEF OpenCheck, locals
  <1>18. ASSUME NEW t \in Threads, OpenReset(t) PROVE TypeOK'
    BY <1>18, EmptyStoreType DEF OpenReset, locals
  <1>19. ASSUME NEW t \in Threads, OpenDone(t) PROVE TypeOK'
    BY <1>19 DEF OpenDone
  <1>20. QED
    BY <1>1, <1>2, <1>3, <1>4, <1>5, <1>6, <1>7, <1>8, <1>9, <1>91, <1>92, <1>11, <1>12,
       <1>13, <1>14, <1>15, <1>16, <1>17, <1>18, <1>19 DEF Next, Step

\* A thread's phase tells its method and which locals it uses.
LEMMA PhaseCorrect ==
    ASSUME Base, [Next]_vars
    PROVE  PhaseInv'
  <1> USE DEF Base, TypeOK, PhaseInv, Holding, Phases, Forget, locals
  <1>1. CASE UNCHANGED vars
    BY <1>1 DEF vars
  <1>2. ASSUME NEW t \in Threads, Begin(t) PROVE PhaseInv'
    BY <1>2 DEF Begin, Entry, Busy
  <1>3. ASSUME NEW t \in Threads, CheckOpen(t) PROVE PhaseInv'
    BY <1>3 DEF CheckOpen, End, locals
  <1>4. ASSUME NEW t \in Threads, Acquire(t) PROVE PhaseInv'
    BY <1>4 DEF Acquire, locals
  <1>5. ASSUME NEW t \in Threads, Read(t) PROVE PhaseInv'
    BY <1>5 DEF Read, Locked, Leave, End
  <1>6. ASSUME NEW t \in Threads, GetNext(t) PROVE PhaseInv'
    BY <1>6 DEF GetNext, Locked, Leave, End
  <1>7. ASSUME NEW t \in Threads, GetDone(t) PROVE PhaseInv'
    BY <1>7 DEF GetDone, Locked, Leave, End
  <1>8. ASSUME NEW t \in Threads, Overwrite(t) PROVE PhaseInv'
    BY <1>8 DEF Overwrite, Locked, Enter
  <1>91. ASSUME NEW t \in Threads, StartResolve(t) PROVE PhaseInv'
    BY <1>91 DEF StartResolve, Conditional, Bind, Locked, Leave, End
  <1>92. ASSUME NEW t \in Threads, ContainsNext(t) PROVE PhaseInv'
    BY <1>92 DEF ContainsNext
  <1>9. ASSUME NEW t \in Threads, Resolve(t) PROVE PhaseInv'
    BY <1>9 DEF Resolve, Locked, Leave, Enter, End
  <1>10. ASSUME NEW t \in Threads, WriteNext(t) PROVE PhaseInv'
    BY <1>10 DEF WriteNext, DoNext
  <1>11. ASSUME NEW t \in Threads, DeleteMany(t) PROVE PhaseInv'
    BY <1>11 DEF DeleteMany, Locked, Enter
  <1>12. ASSUME NEW t \in Threads, DeleteNext(t) PROVE PhaseInv'
    BY <1>12 DEF DeleteNext, DoNext, Leave, End
  <1>13. ASSUME NEW t \in Threads, Done(t) PROVE PhaseInv'
    BY <1>13 DEF Done, Leave, End
  <1>14. ASSUME NEW t \in Threads, Remove(t) PROVE PhaseInv'
    BY <1>14 DEF Remove, Locked, Leave, End
  <1>15. ASSUME NEW t \in Threads, Close(t) PROVE PhaseInv'
    BY <1>15 DEF Close, Locked, Leave, End
  <1>16. ASSUME NEW t \in Threads, OpenCheck(t) PROVE PhaseInv'
    BY <1>16 DEF OpenCheck, End, locals
  <1>17. ASSUME NEW t \in Threads, OpenReset(t) PROVE PhaseInv'
    BY <1>17 DEF OpenReset, locals
  <1>18. ASSUME NEW t \in Threads, OpenDone(t) PROVE PhaseInv'
    BY <1>18 DEF OpenDone, End
  <1>19. QED
    BY <1>1, <1>2, <1>3, <1>4, <1>5, <1>6, <1>7, <1>8, <1>9, <1>91, <1>92, <1>10, <1>11, <1>12,
       <1>13, <1>14, <1>15, <1>16, <1>17, <1>18 DEF Next, Step

\* Only the thread between Acquire and Leave holds the lock.
LEMMA LockCorrect ==
    ASSUME Base, [Next]_vars
    PROVE  LockInv'
  <1> USE ThreadAssumption DEF Base, TypeOK, LockInv, Holding, Phases, Forget, locals
  <1>1. CASE UNCHANGED vars
    BY <1>1 DEF vars
  <1>2. ASSUME NEW t \in Threads, Begin(t) PROVE LockInv'
    BY <1>2 DEF Begin, Entry, Busy
  <1>3. ASSUME NEW t \in Threads, CheckOpen(t) PROVE LockInv'
    BY <1>3 DEF CheckOpen, End, locals
  <1>4. ASSUME NEW t \in Threads, Acquire(t) PROVE LockInv'
    BY <1>4 DEF Acquire, locals
  <1>5. ASSUME NEW t \in Threads, Read(t) PROVE LockInv'
    BY <1>5 DEF Read, Locked, Leave, End
  <1>6. ASSUME NEW t \in Threads, GetNext(t) PROVE LockInv'
    BY <1>6 DEF GetNext, Locked, Leave, End
  <1>7. ASSUME NEW t \in Threads, GetDone(t) PROVE LockInv'
    BY <1>7 DEF GetDone, Locked, Leave, End
  <1>8. ASSUME NEW t \in Threads, Overwrite(t) PROVE LockInv'
    BY <1>8 DEF Overwrite, Locked, Enter
  <1>91. ASSUME NEW t \in Threads, StartResolve(t) PROVE LockInv'
    BY <1>91 DEF StartResolve, Conditional, Bind, Locked, Leave, End
  <1>92. ASSUME NEW t \in Threads, ContainsNext(t) PROVE LockInv'
    BY <1>92 DEF ContainsNext
  <1>9. ASSUME NEW t \in Threads, Resolve(t) PROVE LockInv'
    BY <1>9 DEF Resolve, Locked, Leave, Enter, End
  <1>10. ASSUME NEW t \in Threads, WriteNext(t) PROVE LockInv'
    BY <1>10 DEF WriteNext, DoNext
  <1>11. ASSUME NEW t \in Threads, DeleteMany(t) PROVE LockInv'
    BY <1>11 DEF DeleteMany, Locked, Enter
  <1>12. ASSUME NEW t \in Threads, DeleteNext(t) PROVE LockInv'
    BY <1>12 DEF DeleteNext, DoNext, Leave, End
  <1>13. ASSUME NEW t \in Threads, Done(t) PROVE LockInv'
    BY <1>13 DEF Done, Leave, End
  <1>14. ASSUME NEW t \in Threads, Remove(t) PROVE LockInv'
    BY <1>14 DEF Remove, Locked, Leave, End
  <1>15. ASSUME NEW t \in Threads, Close(t) PROVE LockInv'
    BY <1>15 DEF Close, Locked, Leave, End
  <1>16. ASSUME NEW t \in Threads, OpenCheck(t) PROVE LockInv'
    BY <1>16 DEF OpenCheck, End, locals
  <1>17. ASSUME NEW t \in Threads, OpenReset(t) PROVE LockInv'
    BY <1>17 DEF OpenReset, locals
  <1>18. ASSUME NEW t \in Threads, OpenDone(t) PROVE LockInv'
    BY <1>18 DEF OpenDone, End
  <1>19. QED
    BY <1>1, <1>2, <1>3, <1>4, <1>5, <1>6, <1>7, <1>8, <1>9, <1>91, <1>92, <1>10, <1>11, <1>12,
       <1>13, <1>14, <1>15, <1>16, <1>17, <1>18 DEF Next, Step

\* Only the holder of the lock, which is testing its keys, could put a key
\* into the dict.
LEMMA ResolveCorrect ==
    ASSUME Base, ResolveInv, [Next]_vars
    PROVE  ResolveInv'
  <1> USE DEF Base, TypeOK, PhaseInv, LockInv, ResolveInv, Holding, Phases, Forget, locals
  <1>1. CASE UNCHANGED vars
    BY <1>1 DEF vars
  <1>2. ASSUME NEW t \in Threads, Begin(t) PROVE ResolveInv'
    BY <1>2 DEF Begin, Entry, Busy
  <1>3. ASSUME NEW t \in Threads, CheckOpen(t) PROVE ResolveInv'
    BY <1>3 DEF CheckOpen, End
  <1>4. ASSUME NEW t \in Threads, Acquire(t) PROVE ResolveInv'
    BY <1>4 DEF Acquire
  <1>5. ASSUME NEW t \in Threads, Read(t) PROVE ResolveInv'
    BY <1>5 DEF Read, Locked, Leave, End
  <1>6. ASSUME NEW t \in Threads, GetNext(t) PROVE ResolveInv'
    BY <1>6 DEF GetNext, Locked, Leave, End
  <1>7. ASSUME NEW t \in Threads, GetDone(t) PROVE ResolveInv'
    BY <1>7 DEF GetDone, Locked, Leave, End
  <1>8. ASSUME NEW t \in Threads, Overwrite(t) PROVE ResolveInv'
    BY <1>8 DEF Overwrite, Locked, Enter
  <1>9. ASSUME NEW t \in Threads, Resolve(t) PROVE ResolveInv'
    BY <1>9 DEF Resolve, Leave, Enter, End
  <1>10. ASSUME NEW t \in Threads, WriteNext(t) PROVE ResolveInv'
    BY <1>10 DEF WriteNext, DoNext
  <1>11. ASSUME NEW t \in Threads, DeleteMany(t) PROVE ResolveInv'
    BY <1>11 DEF DeleteMany, Locked, Enter
  <1>12. ASSUME NEW t \in Threads, DeleteNext(t) PROVE ResolveInv'
    BY <1>12 DEF DeleteNext, DoNext, Leave, End
  <1>13. ASSUME NEW t \in Threads, Done(t) PROVE ResolveInv'
    BY <1>13 DEF Done, Leave, End
  <1>14. ASSUME NEW t \in Threads, Remove(t) PROVE ResolveInv'
    BY <1>14 DEF Remove, Locked, Leave, End
  <1>15. ASSUME NEW t \in Threads, Close(t) PROVE ResolveInv'
    BY <1>15 DEF Close, Locked, Leave, End
  <1>16. ASSUME NEW t \in Threads, OpenCheck(t) PROVE ResolveInv'
    BY <1>16 DEF OpenCheck, End
  <1>18. ASSUME NEW t \in Threads, OpenDone(t) PROVE ResolveInv'
    BY <1>18 DEF OpenDone, End
  <1>17. ASSUME NEW t \in Threads, OpenReset(t) PROVE ResolveInv'
    <2>1. \A u \in Threads : DOMAIN call[u].items \in SUBSET Keys
      BY RequestType, ItemsDef
    <2>2. QED
      BY <1>17, <2>1 DEF OpenReset, EmptyStore
  <1>91. ASSUME NEW t \in Threads, StartResolve(t) PROVE ResolveInv'
    <2>1. CASE closed
      BY <1>91, <2>1 DEF StartResolve, Conditional, Locked, Leave, End
    <2>2. CASE ~closed
      <3>1. found[t] = Nothing
        BY <1>91 DEF StartResolve, Conditional, Locked
      <3>2. QED
        BY <1>91, <2>2, <3>1, NothingType DEF StartResolve, Conditional, Bind, Locked
    <2>3. QED
      BY <2>1, <2>2
  <1>92. ASSUME NEW t \in Threads, ContainsNext(t) PROVE ResolveInv'
    <2>1. PICK k \in DOMAIN call[t].items \ DOMAIN found[t], b \in BOOLEAN :
            /\ b <=> data[k] # Absent
            /\ found' = [found EXCEPT ![t] = With(found[t], k, b)]
      <3>1. PICK k \in DOMAIN call[t].items \ DOMAIN found[t] :
              found' = [found EXCEPT ![t] = With(found[t], k, data[k] # Absent)]
        BY <1>92 DEF ContainsNext
      <3>2. QED
        BY <3>1
    <2>2. /\ found'[t] = With(found[t], k, b)
          /\ \A u \in Threads \ {t} : found'[u] = found[u]
      BY <2>1
    <2>3. /\ found'[t][k] = b
          /\ \A i \in DOMAIN found'[t] :
                i # k => i \in DOMAIN found[t] /\ found'[t][i] = found[t][i]
      BY <2>2 DEF With
    <2>4. UNCHANGED <<data, closed, lock, pc, call, answer, todo, got>>
      BY <1>92 DEF ContainsNext
    <2>5. QED
      BY <2>1, <2>2, <2>3, <2>4
  <1>19. QED
    BY <1>1, <1>2, <1>3, <1>4, <1>5, <1>6, <1>7, <1>8, <1>9, <1>91, <1>92, <1>10, <1>11, <1>12,
       <1>13, <1>14, <1>15, <1>16, <1>17, <1>18 DEF Next, Step

\* While a batch is being written no other thread is past Acquire, so nothing
\* it planned goes stale.
LEMMA PlannedCorrect ==
    ASSUME Base, ResolveInv, PlannedWritesAreCurrent, [Next]_vars
    PROVE  PlannedWritesAreCurrent'
  <1> USE DEF Base, TypeOK, PhaseInv, LockInv, PlannedWritesAreCurrent, Holding, Phases, Forget, locals
  <1>1. CASE UNCHANGED vars
    BY <1>1 DEF vars
  <1>2. ASSUME NEW t \in Threads, Begin(t) PROVE PlannedWritesAreCurrent'
    BY <1>2 DEF Begin, Entry, Busy
  <1>3. ASSUME NEW t \in Threads, CheckOpen(t) PROVE PlannedWritesAreCurrent'
    BY <1>3 DEF CheckOpen, End, locals
  <1>4. ASSUME NEW t \in Threads, Acquire(t) PROVE PlannedWritesAreCurrent'
    BY <1>4 DEF Acquire, locals
  <1>5. ASSUME NEW t \in Threads, Read(t) PROVE PlannedWritesAreCurrent'
    BY <1>5 DEF Read, Locked, Leave, End
  <1>6. ASSUME NEW t \in Threads, GetNext(t) PROVE PlannedWritesAreCurrent'
    BY <1>6 DEF GetNext, Locked, Leave, End
  <1>7. ASSUME NEW t \in Threads, GetDone(t) PROVE PlannedWritesAreCurrent'
    BY <1>7 DEF GetDone, Locked, Leave, End
  <1>8. ASSUME NEW t \in Threads, Overwrite(t) PROVE PlannedWritesAreCurrent'
    BY <1>8 DEF Overwrite, Locked, Enter
  <1>91. ASSUME NEW t \in Threads, StartResolve(t) PROVE PlannedWritesAreCurrent'
    BY <1>91 DEF StartResolve, Conditional, Bind, Locked, Leave, End
  <1>92. ASSUME NEW t \in Threads, ContainsNext(t) PROVE PlannedWritesAreCurrent'
    BY <1>92 DEF ContainsNext
  <1>9. ASSUME NEW t \in Threads, Resolve(t) PROVE PlannedWritesAreCurrent'
    <2> DEFINE r == call[t]
               seen == {k \in DOMAIN found[t] : found[t][k]}
               w == ToWrite(r.items, r.on_conflict, seen, got[t])
    <2>1. /\ pc[t] = "contains" /\ DOMAIN found[t] = DOMAIN r.items
          /\ r.on_conflict \in OnConflict \ {"overwrite"}
      BY <1>9, RequestType DEF Resolve
    <2>2. CASE Leave(t, KV!KeyError) /\ UNCHANGED <<data, closed>>
      BY <1>9, <2>2 DEF Leave, End
    <2>3. ASSUME ~Refuses(r.items, r.on_conflict, seen), Enter(t, "write", w)
          PROVE  PlannedWritesAreCurrent'
      <3>1. ASSUME NEW k \in DOMAIN w, data[k] # Absent
            PROVE  r.on_conflict = "merge" /\ w[k] = Merged(data[k], r.items[k])
        <4>1. k \in DOMAIN r.items /\ (r.on_conflict = "skip" => k \notin seen)
          BY DEF ToWrite
        <4>2. k \in seen /\ got[t][k] = data[k]
          BY <2>1, <3>1, <4>1 DEF ResolveInv
        <4>3. r.on_conflict = "merge"
          BY <2>1, <2>3, <4>1, <4>2 DEF Refuses, Conflicts, OnConflict
        <4>4. w[k] = Merged(OrEmpty(got[t][k]), r.items[k])
          BY <3>1, <4>2 DEF ToWrite
        <4>5. QED
          BY <3>1, <4>2, <4>3, <4>4 DEF OrEmpty
      <3>2. ~closed
        BY <2>1 DEF ResolveInv
      <3>3. QED
        BY <2>1, <2>3, <3>1, <3>2 DEF Enter
    <2>4. QED
      BY <1>9, <2>2, <2>3 DEF Resolve
  <1>10. ASSUME NEW t \in Threads, WriteNext(t) PROVE PlannedWritesAreCurrent'
    BY <1>10 DEF WriteNext, DoNext, Contents
  <1>11. ASSUME NEW t \in Threads, DeleteMany(t) PROVE PlannedWritesAreCurrent'
    BY <1>11 DEF DeleteMany, Locked, Enter
  <1>12. ASSUME NEW t \in Threads, DeleteNext(t) PROVE PlannedWritesAreCurrent'
    BY <1>12 DEF DeleteNext, DoNext, Leave, End
  <1>13. ASSUME NEW t \in Threads, Done(t) PROVE PlannedWritesAreCurrent'
    BY <1>13 DEF Done, Leave, End
  <1>14. ASSUME NEW t \in Threads, Remove(t) PROVE PlannedWritesAreCurrent'
    BY <1>14 DEF Remove, Locked, Leave, End
  <1>15. ASSUME NEW t \in Threads, Close(t) PROVE PlannedWritesAreCurrent'
    BY <1>15 DEF Close, Locked, Leave, End
  <1>16. ASSUME NEW t \in Threads, OpenCheck(t) PROVE PlannedWritesAreCurrent'
    BY <1>16 DEF OpenCheck, End, locals
  <1>17. ASSUME NEW t \in Threads, OpenReset(t) PROVE PlannedWritesAreCurrent'
    BY <1>17, RequestType, ItemsDef DEF OpenReset, locals, EmptyStore
  <1>18. ASSUME NEW t \in Threads, OpenDone(t) PROVE PlannedWritesAreCurrent'
    BY <1>18 DEF OpenDone, End
  <1>19. QED
    BY <1>1, <1>2, <1>3, <1>4, <1>5, <1>6, <1>7, <1>8, <1>9, <1>91, <1>92, <1>10, <1>11, <1>12,
       <1>13, <1>14, <1>15, <1>16, <1>17, <1>18 DEF Next, Step

\* A caller that keeps open() and close() to itself never sees the store change
\* hands: the flag is constant during every call but those two.
LEMMA ScopeCorrect ==
    ASSUME Base, ScopeInv, scoped, [Next]_vars
    PROVE  ScopeInv'
  <1> USE DEF Base, TypeOK, PhaseInv, LockInv, ScopeInv, Holding, Phases, Busy, InLifecycle, Allowed, KV!LifecycleOps, KV!ReadOps, Forget, locals
  <1>1. CASE UNCHANGED vars
    BY <1>1 DEF vars
  <1>2. ASSUME NEW t \in Threads, Begin(t) PROVE ScopeInv'
    <2>1. PICK r \in Requests : Allowed(r) /\ call' = [call EXCEPT ![t] = r]
                                /\ pc' = [pc EXCEPT ![t] = Entry(r)]
      BY <1>2 DEF Begin
    <2>2. /\ pc[t] = "idle" /\ got[t] = Nothing /\ found[t] = Nothing
          /\ UNCHANGED <<data, closed, lock, todo, got, found>>
      BY <1>2 DEF Begin
    <2>3. \A u, v \in Threads : u # v /\ InLifecycle(u)' => ~Busy(v)'
      BY <2>1, <2>2
    <2>4. /\ Entry(r) \in {"opening", "acquire", "check"}
          /\ Entry(r) = "acquire" => r.op \in {"get_many", "delete_many", "close"}
      BY DEF Entry
    <2>5. QED
      BY <2>1, <2>2, <2>3, <2>4, NothingType
  <1>3. ASSUME NEW t \in Threads, CheckOpen(t) PROVE ScopeInv'
    BY <1>3 DEF CheckOpen, End, locals
  <1>4. ASSUME NEW t \in Threads, Acquire(t) PROVE ScopeInv'
    BY <1>4 DEF Acquire, locals
  <1>5. ASSUME NEW t \in Threads, Read(t) PROVE ScopeInv'
    BY <1>5 DEF Read, Locked, Leave, End
  <1>6. ASSUME NEW t \in Threads, GetNext(t) PROVE ScopeInv'
    <2>1. CASE closed
      BY <1>6, <2>1, NothingType DEF GetNext, Locked, Leave, End
    <2>2. CASE ~closed
      <3>1. PICK k \in call[t].keys : got' = [got EXCEPT ![t] = With(got[t], k, data[k])]
        BY <1>6, <2>2 DEF GetNext
      <3>2. /\ got'[t] = With(got[t], k, data[k]) /\ \A u \in Threads \ {t} : got'[u] = got[u]
            /\ UNCHANGED <<data, closed, lock, pc, call, answer, todo, found>>
            /\ call[t].op = "get_many"
        BY <1>6, <2>2, <3>1 DEF GetNext, Locked
      <3>3. /\ got'[t][k] = data[k]
            /\ \A i \in DOMAIN got'[t] : i # k => i \in DOMAIN got[t] /\ got'[t][i] = got[t][i]
        BY <3>2 DEF With
      <3>4. \A i \in DOMAIN got'[t] : got'[t][i] = data[i] /\ i \in call[t].keys
        BY <3>1, <3>2, <3>3
      <3>5. QED
        BY <2>2, <3>2, <3>4
    <2>3. QED
      BY <2>1, <2>2
  <1>7. ASSUME NEW t \in Threads, GetDone(t) PROVE ScopeInv'
    BY <1>7, NothingType DEF GetDone, Locked, Leave, End
  <1>8. ASSUME NEW t \in Threads, Overwrite(t) PROVE ScopeInv'
    BY <1>8 DEF Overwrite, Locked, Enter
  <1>91. ASSUME NEW t \in Threads, StartResolve(t) PROVE ScopeInv'
    BY <1>91 DEF StartResolve, Conditional, Bind, Locked, Leave, End
  <1>92. ASSUME NEW t \in Threads, ContainsNext(t) PROVE ScopeInv'
    <2>1. PICK k \in DOMAIN call[t].items \ DOMAIN found[t], b \in BOOLEAN :
            /\ b <=> data[k] # Absent
            /\ found' = [found EXCEPT ![t] = With(found[t], k, b)]
      <3>1. PICK k \in DOMAIN call[t].items \ DOMAIN found[t] :
              found' = [found EXCEPT ![t] = With(found[t], k, data[k] # Absent)]
        BY <1>92 DEF ContainsNext
      <3>2. QED
        BY <3>1
    <2>2. /\ found'[t] = With(found[t], k, b)
          /\ \A u \in Threads \ {t} : found'[u] = found[u]
          /\ UNCHANGED <<data, closed, lock, pc, call, answer, todo, got>>
      BY <1>92, <2>1 DEF ContainsNext
    <2>3. /\ found'[t][k] = b
          /\ \A i \in DOMAIN found'[t] :
                i # k => i \in DOMAIN found[t] /\ found'[t][i] = found[t][i]
      BY <2>2 DEF With
    <2>4. \A i \in DOMAIN found'[t] : found'[t][i] <=> data[i] # Absent
      BY <2>1, <2>3
    <2>5. \A u \in Threads : \A i \in DOMAIN found'[u] : found'[u][i] <=> data'[i] # Absent
      BY <2>2, <2>4
    <2>6. QED
      BY <2>2, <2>5
  <1>9. ASSUME NEW t \in Threads, Resolve(t) PROVE ScopeInv'
    <2>1. PICK w : (Leave(t, KV!KeyError) /\ UNCHANGED <<data, closed>>) \/ Enter(t, "write", w)
      BY <1>9 DEF Resolve
    <2>2. pc[t] = "contains"
      BY <1>9 DEF Resolve
    <2>3. CASE Leave(t, KV!KeyError) /\ UNCHANGED <<data, closed>>
      BY <2>2, <2>3, NothingType DEF Leave, End
    <2>4. CASE Enter(t, "write", w)
      BY <2>2, <2>4, NothingType DEF Enter
    <2>5. QED
      BY <2>1, <2>3, <2>4
  <1>10. ASSUME NEW t \in Threads, WriteNext(t) PROVE ScopeInv'
    <2>1. \A u \in Threads \ {t} : got[u] = Nothing /\ got'[u] = Nothing
      BY <1>10 DEF WriteNext, DoNext
    <2>2. closed' => data' = EmptyStore
      BY <1>10 DEF WriteNext, DoNext
    <2>3. QED
      BY <1>10, <2>1, <2>2, NothingType DEF WriteNext, DoNext
  <1>11. ASSUME NEW t \in Threads, DeleteMany(t) PROVE ScopeInv'
    BY <1>11 DEF DeleteMany, Locked, Enter
  <1>12. ASSUME NEW t \in Threads, DeleteNext(t) PROVE ScopeInv'
    <2>1. \A u \in Threads \ {t} : got[u] = Nothing /\ got'[u] = Nothing
      BY <1>12 DEF DeleteNext, DoNext, Leave, End
    <2>2. closed' => data' = EmptyStore
      BY <1>12 DEF DeleteNext, DoNext, Leave, End
    <2>3. QED
      BY <1>12, <2>1, <2>2, NothingType DEF DeleteNext, DoNext, Leave, End
  <1>13. ASSUME NEW t \in Threads, Done(t) PROVE ScopeInv'
    BY <1>13 DEF Done, Leave, End
  <1>14. ASSUME NEW t \in Threads, Remove(t) PROVE ScopeInv'
    <2>1. \A u \in Threads \ {t} : got[u] = Nothing /\ got'[u] = Nothing
      BY <1>14 DEF Remove, Locked, Leave, End
    <2>2. closed' => data' = EmptyStore
      BY <1>14 DEF Remove, Locked, Leave, End
    <2>3. QED
      BY <1>14, <2>1, <2>2, NothingType DEF Remove, Locked, Leave, End
  <1>15. ASSUME NEW t \in Threads, Close(t) PROVE ScopeInv'
    <2>1. \A u \in Threads \ {t} : got[u] = Nothing /\ got'[u] = Nothing
      BY <1>15 DEF Close, Locked, Leave, End
    <2>2. closed' => data' = EmptyStore
      BY <1>15 DEF Close, Locked, Leave, End
    <2>3. QED
      BY <1>15, <2>1, <2>2, NothingType DEF Close, Locked, Leave, End
  <1>16. ASSUME NEW t \in Threads, OpenCheck(t) PROVE ScopeInv'
    BY <1>16 DEF OpenCheck, End, locals
  <1>17. ASSUME NEW t \in Threads, OpenReset(t) PROVE ScopeInv'
    BY <1>17 DEF OpenReset, locals
  <1>18. ASSUME NEW t \in Threads, OpenDone(t) PROVE ScopeInv'
    BY <1>18 DEF OpenDone, End
  <1>19. QED
    BY <1>1, <1>2, <1>3, <1>4, <1>5, <1>6, <1>7, <1>8, <1>9, <1>91, <1>92, <1>10, <1>11, <1>12,
       <1>13, <1>14, <1>15, <1>16, <1>17, <1>18 DEF Next, Step

-----------------------------------------------------------------------------
(* The refinement: AbsData and AbsAnswer move as KVStore allows.           *)

\* A thread that is past no linearization point shows the store as it is.
LEMMA View ==
    ASSUME Base, NEW t \in Threads, lock = t \/ lock = NoThread
    PROVE  /\ ~Committed(t) \/ lock = NoThread => AbsData = data
           /\ Committed(t) /\ lock = t => AbsData = Stored(data, todo[t])
  BY ThreadAssumption DEF AbsData

\* Ending a call that had not taken effect yet shows in t's answer only.
LEMMA Ending ==
    ASSUME Base, NEW t \in Threads, NEW a,
           Busy(t), ~Committed(t), Committed(t)' => a = KV!Ok,
           ~Committed(t)' => answer'[t] = a,
           \A u \in Threads \ {t} :
              answer'[u] = answer[u] /\ (Committed(u)' <=> Committed(u)),
           UNCHANGED call
    PROVE  KV!Ends(t, a)
  <1>1. AbsAnswer[t] = KV!NoAnswer
    BY DEF Base, TypeOK, AbsAnswer
  <1>2. AbsAnswer' = [AbsAnswer EXCEPT ![t] = a]
    BY DEF AbsAnswer, KV!Ok
  <1>3. QED
    BY <1>1, <1>2 DEF KV!Ends, KV!Idle

\* The other threads' view of who has committed, when t moves.
LEMMA Others ==
    ASSUME NEW t \in Threads, closed' = closed,
           NEW u \in Threads \ {t}, pc'[u] = pc[u]
    PROVE  Committed(u)' <=> Committed(u)
  BY DEF Committed

\* What KVStore does for a call that is refused, that reads, or that writes.
LEMMA Executes ==
    ASSUME NEW t \in Threads, ~closed, closed' = closed,
           AbsData = data, data \in Contents, call[t] \in KV!Request,
           call[t].op \notin KV!LifecycleOps,
           KV!Ends(t, KV!Answer(call[t], data)),
           AbsData' = IF KV!Refused(call[t], data) THEN data
                      ELSE Stored(data, KV!Effect(call[t], data))
    PROVE  KV!Next
  BY SameData DEF KV!Execute, KV!Next

\* A read of an open store writes nothing.
LEMMA ReadsWriteNothing ==
    ASSUME NEW r, NEW d \in Contents, r.op \in KV!ReadOps
    PROVE  /\ Stored(d, KV!Effect(r, d)) = d
           /\ ~KV!Refused(r, d)
           /\ KV!Answer(r, d) = KV!Returns(KV!Seen(r, d))
  <1>1. KV!Effect(r, d) = [k \in {} |-> Absent]
    BY DEF KV!Effect, KV!ReadOps
  <1>2. ~KV!Refused(r, d)
    BY DEF KV!Refused, KV!ReadOps
  <1>3. QED
    BY <1>1, <1>2, StoredNothing DEF KV!Answer

\* A write of an open store that is not refused answers None.
LEMMA WritesAnswerOk ==
    ASSUME NEW r, NEW d, r.op \in KV!WriteOps, ~KV!Refused(r, d)
    PROVE  KV!Answer(r, d) = KV!Ok
  BY DEF KV!Answer, KV!WriteOps, KV!ReadOps

\* Every step of the store is a step of the contract or changes nothing the
\* contract shows.
LEMMA StepRefines ==
    ASSUME Base, ScopeInv, scoped, Base', ScopeInv', [Next]_vars
    PROVE  [KV!Next]_(KV!vars)
  <1> USE DEF Holding, Busy
  <1>a. /\ data \in Contents /\ data' \in Contents
        /\ \A t \in Threads : call[t] \in KV!Request /\ todo[t] \in Writes
        /\ \A t \in Threads : lock = t <=> pc[t] \in Holding
    BY DEF Base, TypeOK, LockInv
  <1>b. SUFFICES ASSUME NEW t \in Threads, Begin(t) \/ Step(t)
                 PROVE  KV!Next \/ UNCHANGED KV!vars
    <2>1. CASE UNCHANGED vars
      <3>1. UNCHANGED <<AbsData, AbsAnswer>>
        BY <2>1 DEF vars, AbsData, AbsAnswer, Committed
      <3>2. QED
        BY <2>1, <3>1 DEF vars, KV!vars
    <2>2. CASE Next
      BY <2>2, <1>b DEF Next
    <2>3. QED
      BY <2>1, <2>2
  <1>1. CASE Begin(t)
    <2>1. AbsAnswer[t] # KV!NoAnswer
      BY <1>1 DEF Begin, Base, TypeOK, AbsAnswer, Committed
    <2>2. /\ pc[t] = "idle" /\ answer' = [answer EXCEPT ![t] = KV!NoAnswer]
          /\ \A u \in Threads \ {t} : pc'[u] = pc[u]
          /\ pc'[t] \in {"opening", "acquire", "check"}
          /\ UNCHANGED <<data, closed, lock, todo>>
          /\ \E r \in Requests : call' = [call EXCEPT ![t] = r]
      BY <1>1 DEF Begin, Entry, locals, Base, TypeOK
    <2>3. \A u \in Threads : u # t => (Committed(u)' <=> Committed(u))
      BY <2>2, Others
    <2>4. ~Committed(t) /\ ~Committed(t)'
      BY <2>2 DEF Committed
    <2>5. AbsAnswer' = [AbsAnswer EXCEPT ![t] = KV!NoAnswer]
      BY <2>2, <2>3, <2>4 DEF AbsAnswer, Base, TypeOK
    <2>6. AbsData' = AbsData
      BY <1>a, <2>2, <2>3, <2>4 DEF AbsData, Base, TypeOK
    <2>7. QED
      BY <2>1, <2>2, <2>5, <2>6 DEF KV!Invoke, KV!Idle, KV!Next
  <1>2. CASE CheckOpen(t)
    <2>1. /\ pc[t] = "check" /\ ~Committed(t) /\ ~Committed(t)'
          /\ \A u \in Threads \ {t} : pc'[u] = pc[u]
          /\ UNCHANGED <<data, closed, lock, call>>
          /\ lock # t
          /\ \A u \in Threads \ {t} : todo'[u] = todo[u]
      BY <1>2, <1>a DEF CheckOpen, End, Committed, locals, Base, TypeOK
    <2>2. \A u \in Threads \ {t} : (Committed(u)' <=> Committed(u))
      BY <2>1, Others
    <2>3. AbsData' = AbsData
      BY <2>1, <2>2 DEF AbsData, Base, TypeOK
    <2>4. CASE closed
      <3>1. KV!Ends(t, KV!RuntimeError)
        BY <1>2, <2>1, <2>2, <2>4, Ending DEF CheckOpen, End, Base, TypeOK
      <3>2. call[t].op \notin KV!LifecycleOps
        BY <2>1 DEF Base, PhaseInv, KV!LifecycleOps
      <3>3. QED
        BY <2>1, <2>3, <2>4, <3>1, <3>2 DEF KV!Raise, KV!Next
    <2>5. CASE ~closed
      <3>1. UNCHANGED answer
        BY <1>2, <2>5 DEF CheckOpen
      <3>2. AbsAnswer' = AbsAnswer
        BY <2>1, <2>2, <3>1 DEF AbsAnswer
      <3>3. QED
        BY <2>1, <2>3, <3>2 DEF KV!vars
    <2>6. QED
      BY <2>4, <2>5
  <1>3. CASE Acquire(t)
    <2>1. /\ lock = NoThread /\ lock' = t
          /\ ~Committed(t) /\ ~Committed(t)'
          /\ \A u \in Threads \ {t} : pc'[u] = pc[u]
          /\ UNCHANGED <<data, closed, call, answer>>
      BY <1>3 DEF Acquire, Committed, Base, TypeOK
    <2>2. \A u \in Threads : (Committed(u)' <=> Committed(u))
      BY <2>1, Others
    <2>3. AbsAnswer' = AbsAnswer
      BY <2>1, <2>2 DEF AbsAnswer
    <2>4. AbsData' = AbsData
      BY <2>1 DEF AbsData
    <2>5. QED
      BY <2>1, <2>3, <2>4 DEF KV!vars
  <1> DEFINE Leaves(a) == Leave(t, a) /\ lock = t
  \* Leaving the lock to end a call that had not taken effect.
  <1>c. ASSUME NEW a, a # KV!NoAnswer, Leaves(a), ~Committed(t), closed' = closed
        PROVE  KV!Ends(t, a) /\ AbsData = data /\ AbsData' = data'
    <2>1. /\ \A u \in Threads \ {t} : pc'[u] = pc[u] /\ answer'[u] = answer[u]
          /\ pc'[t] = "idle" /\ answer'[t] = a /\ call' = call /\ lock' = NoThread
      BY <1>c DEF Leave, End, Base, TypeOK
    <2>2. \A u \in Threads \ {t} : (Committed(u)' <=> Committed(u))
      BY <1>c, <2>1, Others
    <2>3. pc[t] # "idle" /\ ~Committed(t)'
      BY <1>a, <1>c, <2>1 DEF Committed
    <2>4. KV!Ends(t, a)
      BY <1>c, <2>1, <2>2, <2>3, Ending
    <2>5. QED
      BY <1>c, <2>1, <2>4 DEF AbsData
  \* A holder of the lock that goes on without committing.
  <1>d. ASSUME lock = t, lock' = t, UNCHANGED <<data, closed, call, answer>>,
               ~Committed(t), ~Committed(t)',
               \A u \in Threads \ {t} : pc'[u] = pc[u]
        PROVE  UNCHANGED KV!vars
    <2>1. \A u \in Threads : (Committed(u)' <=> Committed(u))
      BY <1>d, Others
    <2>2. AbsAnswer' = AbsAnswer
      BY <1>d, <2>1 DEF AbsAnswer
    <2>3. AbsData' = AbsData
      BY <1>d DEF AbsData
    <2>4. QED
      BY <1>d, <2>2, <2>3 DEF KV!vars
  \* A holder of the lock that plans its writes on an open store commits them.
  <1>e. ASSUME NEW phase \in {"write", "delete"}, NEW w, Enter(t, phase, w),
               lock = t, ~closed, pc[t] \in {"locked", "contains"}
        PROVE  /\ KV!Ends(t, KV!Ok)
               /\ AbsData = data /\ AbsData' = Stored(data, w)
    <2>1. /\ \A u \in Threads \ {t} : pc'[u] = pc[u]
          /\ pc'[t] = phase /\ todo'[t] = w
          /\ UNCHANGED <<data, closed, lock, call, answer>>
      BY <1>e DEF Enter, Base, TypeOK
    <2>2. ~Committed(t) /\ Committed(t)'
      BY <1>e, <2>1 DEF Committed
    <2>3. \A u \in Threads \ {t} : (Committed(u)' <=> Committed(u))
      BY <2>1, Others
    <2>4. KV!Ends(t, KV!Ok)
      BY <1>e, <2>1, <2>2, <2>3, Ending
    <2>5. QED
      BY <1>e, <2>1, <2>2, <2>4, ThreadAssumption DEF AbsData
  \* A committed holder of the lock that does one of its writes.
  <1>f. ASSUME lock = t, Committed(t), NEW k \in DOMAIN todo[t], DoNext(t, k)
        PROVE  UNCHANGED KV!vars
    <2>1. /\ data' = [data EXCEPT ![k] = todo[t][k]]
          /\ todo'[t] = [i \in DOMAIN todo[t] \ {k} |-> todo[t][i]]
          /\ UNCHANGED <<closed, lock, pc, call, answer>>
      BY <1>f DEF DoNext, Base, TypeOK
    <2>2. \A u \in Threads : (Committed(u)' <=> Committed(u))
      BY <2>1 DEF Committed
    <2>3. Stored(data', todo'[t]) = Stored(data, todo[t])
      <3>1. Stored([data EXCEPT ![k] = todo[t][k]],
                   [i \in DOMAIN todo[t] \ {k} |-> todo[t][i]]) = Stored(data, todo[t])
        BY <1>a, StoredStep
      <3>2. QED
        BY <2>1, <3>1
    <2>4. AbsData' = AbsData
      BY <1>f, <2>1, <2>2, <2>3, ThreadAssumption DEF AbsData
    <2>5. AbsAnswer' = AbsAnswer
      BY <2>1, <2>2 DEF AbsAnswer
    <2>6. QED
      BY <2>1, <2>4, <2>5 DEF KV!vars
  <1>4. CASE Read(t)
    <2>1. /\ pc[t] = "locked" /\ call[t].op \in KV!ReadOps \ {"get_many"}
          /\ Leaves(KV!Returns(KV!Seen(call[t], data)))
          /\ UNCHANGED <<data, closed>>
      BY <1>4, <1>a DEF Read, Locked
    <2>2. ~closed /\ ~Committed(t)
      BY <2>1 DEF ScopeInv, Committed, KV!ReadOps
    <2>3. /\ KV!Ends(t, KV!Answer(call[t], data)) /\ AbsData = data /\ AbsData' = data
          /\ Stored(data, KV!Effect(call[t], data)) = data
      BY <1>a, <1>c, <2>1, <2>2, ReadsWriteNothing, Outcomes
    <2>4. QED
      BY <1>a, <2>1, <2>2, <2>3, Executes DEF KV!ReadOps, KV!LifecycleOps
  <1>5. CASE GetNext(t)
    <2>1. /\ pc[t] = "locked" /\ call[t].op = "get_many" /\ lock = t
          /\ ~Committed(t) /\ UNCHANGED <<data, closed>>
      BY <1>5, <1>a DEF GetNext, Locked, Committed
    <2>2. CASE closed
      <3>1. KV!Ends(t, KV!RuntimeError) /\ AbsData = data /\ AbsData' = data
        BY <1>5, <1>c, <2>1, <2>2, Outcomes DEF GetNext
      <3>2. QED
        BY <2>1, <2>2, <3>1 DEF KV!Raise, KV!Next, KV!LifecycleOps
    <2>3. CASE ~closed
      <3>1. UNCHANGED <<lock, pc, call, answer, todo>>
        BY <1>5, <2>3 DEF GetNext
      <3>2. QED
        BY <1>d, <2>1, <3>1 DEF Committed
    <2>4. QED
      BY <2>2, <2>3
  <1>6. CASE GetDone(t)
    <2>1. /\ pc[t] = "locked" /\ call[t].op = "get_many" /\ Leaves(KV!Returns(got[t]))
          /\ ~Committed(t) /\ UNCHANGED <<data, closed>> /\ DOMAIN got[t] = call[t].keys
      BY <1>6, <1>a DEF GetDone, Locked, Committed
    <2>2. KV!Ends(t, KV!Returns(got[t])) /\ AbsData = data /\ AbsData' = data
      BY <1>c, <2>1, Outcomes
    <2>3. got[t] = [k \in call[t].keys |-> data[k]]
      <3>1. PICK K : got[t] \in [K -> Slot]
        BY ItemsDef DEF Base, TypeOK
      <3>2. \A k \in DOMAIN got[t] : got[t][k] = data[k]
        BY DEF ScopeInv
      <3>3. QED
        BY <2>1, <3>1, <3>2
    <2>4. \A d \in Contents : ~KV!Refused(call[t], d)
                              /\ KV!Answer(call[t], d) = KV!Returns([k \in call[t].keys |-> d[k]])
      BY <2>1, ReadsWriteNothing DEF KV!Seen, KV!ReadOps
    <2>5. CASE ~closed
      <3>1. Stored(data, KV!Effect(call[t], data)) = data
        BY <1>a, <2>1, ReadsWriteNothing DEF KV!ReadOps
      <3>2. QED
        BY <1>a, <2>1, <2>2, <2>3, <2>4, <2>5, <3>1, Executes DEF KV!LifecycleOps
    <2>6. CASE closed
      <3>1. data = EmptyStore
        BY <2>6 DEF ScopeInv
      <3>2. call[t].keys = {}
        BY <2>1, <2>6, NothingType DEF ScopeInv
      <3>3. KV!Ends(t, KV!Answer(call[t], KV!EmptyStore))
        BY <2>2, <2>3, <2>4, <3>1, EmptyStoreType, SameData
      <3>4. QED
        BY <2>1, <2>2, <2>6, <3>2, <3>3 DEF KV!Vacuous, KV!Next
    <2>7. QED
      BY <2>5, <2>6
  <1>7. CASE Overwrite(t)
    <2>1. /\ pc[t] = "locked" /\ call[t].op = "set_many" /\ lock = t
          /\ call[t].on_conflict = "overwrite"
          /\ Enter(t, "write", call[t].items) /\ UNCHANGED closed
      BY <1>7, <1>a DEF Overwrite, Locked, Enter
    <2>2. ~closed
      BY <2>1 DEF ScopeInv
    <2>3. ~KV!Refused(call[t], data) /\ KV!Effect(call[t], data) = call[t].items
      BY <2>1 DEF KV!Refused, KV!Refuses, KV!Effect
    <2>4. KV!Answer(call[t], data) = KV!Ok
      BY <2>1, <2>3, WritesAnswerOk DEF KV!WriteOps
    <2>5. QED
      BY <1>a, <1>e, <2>1, <2>2, <2>3, <2>4, Executes DEF KV!LifecycleOps
  <1>81. CASE StartResolve(t)
    <2>1. /\ pc[t] = "locked" /\ call[t].op = "set_many" /\ lock = t /\ ~closed /\ ~Committed(t)
      BY <1>81, <1>a DEF StartResolve, Conditional, Locked, Committed, ScopeInv
    <2>2. /\ lock' = t /\ UNCHANGED <<data, closed, call, answer>> /\ pc'[t] = "contains"
          /\ \A u \in Threads \ {t} : pc'[u] = pc[u]
      BY <1>81, <2>1 DEF StartResolve, Bind, Base, TypeOK
    <2>3. QED
      BY <1>d, <2>1, <2>2 DEF Committed
  <1>82. CASE ContainsNext(t)
    BY <1>82, <1>a, <1>d DEF ContainsNext, Committed
  <1>8. CASE Resolve(t)
    <2> DEFINE r == call[t]
               seen == {k \in DOMAIN found[t] : found[t][k]}
               w == ToWrite(r.items, r.on_conflict, seen, got[t])
    <2>1. /\ pc[t] = "contains" /\ r.op = "set_many" /\ lock = t /\ ~closed
          /\ r.on_conflict # "overwrite" /\ ~Committed(t)
          /\ DOMAIN found[t] = DOMAIN r.items /\ DOMAIN got[t] = DOMAIN r.items
          /\ DOMAIN r.items \in SUBSET Keys
      BY <1>8, <1>a, RequestType, ItemsDef DEF Resolve, Committed, Base, PhaseInv, ScopeInv
    <2>2. \A k \in DOMAIN r.items : (k \in seen <=> k \in Present(data)) /\ got[t][k] = data[k]
      <3>1. \A k \in DOMAIN got[t] : got[t][k] = data[k]
        BY DEF ScopeInv
      <3>2. \A k \in DOMAIN found[t] : found[t][k] <=> data[k] # Absent
        BY DEF ScopeInv
      <3>3. \A k \in DOMAIN r.items : k \in seen <=> k \in Present(data)
        BY <2>1, <3>2 DEF Present
      <3>4. QED
        BY <2>1, <3>1, <3>3
    <2>3. Refuses(r.items, r.on_conflict, seen) <=> KV!Refused(r, data)
      BY <2>1, <2>2, SameData DEF Refuses, Conflicts, KV!Refused, KV!Refuses, KV!Conflicts
    <2>4. w = KV!Effect(r, data)
      BY <2>1, <2>2, SameData DEF KV!Effect, ToWrite
    <2>5. CASE KV!Refused(r, data)
      <3>1. Leaves(KV!KeyError) /\ UNCHANGED <<data, closed>>
        BY <1>8, <2>1, <2>3, <2>5 DEF Resolve
      <3>2. KV!Answer(r, data) = KV!KeyError
        BY <2>5 DEF KV!Answer, KV!Refused, KV!ReadOps
      <3>3. QED
        BY <1>a, <1>c, <2>1, <2>5, <3>1, <3>2, Executes, Outcomes DEF KV!LifecycleOps
    <2>6. CASE ~KV!Refused(r, data)
      <3>1. Enter(t, "write", w) /\ UNCHANGED closed
        BY <1>8, <2>3, <2>6 DEF Resolve, Enter
      <3>2. KV!Answer(r, data) = KV!Ok
        BY <2>1, <2>6, WritesAnswerOk DEF KV!WriteOps
      <3>3. QED
        BY <1>a, <1>e, <2>1, <2>4, <2>6, <3>1, <3>2, Executes DEF KV!LifecycleOps
    <2>7. QED
      BY <2>5, <2>6
  <1>9. CASE WriteNext(t)
    BY <1>9, <1>a, <1>f DEF WriteNext, Committed
  <1>10. CASE DeleteMany(t)
    <2>1. /\ pc[t] = "locked" /\ call[t].op = "delete_many" /\ lock = t
          /\ Enter(t, "delete", [k \in call[t].keys |-> Absent]) /\ UNCHANGED closed
      BY <1>10, <1>a DEF DeleteMany, Locked, Enter
    <2>2. CASE closed
      <3>1. ~Committed(t) /\ ~Committed(t)' /\ \A u \in Threads \ {t} : pc'[u] = pc[u]
        BY <2>1, <2>2 DEF Committed, Enter, Base, TypeOK
      <3>2. QED
        BY <1>d, <2>1, <3>1 DEF Enter
    <2>3. CASE ~closed
      <3>1. /\ ~KV!Refused(call[t], data)
            /\ KV!Effect(call[t], data) = [k \in call[t].keys |-> Absent]
        BY <2>1 DEF KV!Refused, KV!Effect
      <3>2. KV!Answer(call[t], data) = KV!Ok
        BY <2>1, <3>1, WritesAnswerOk DEF KV!WriteOps
      <3>3. QED
        BY <1>a, <1>e, <2>1, <2>3, <3>1, <3>2, Executes DEF KV!LifecycleOps
    <2>4. QED
      BY <2>2, <2>3
  <1>11. CASE DeleteNext(t)
    <2>1. pc[t] = "delete" /\ lock = t /\ call[t].op = "delete_many"
      BY <1>11, <1>a DEF DeleteNext, Base, PhaseInv
    <2>2. CASE closed
      <3>1. Leaves(KV!RuntimeError) /\ UNCHANGED <<data, closed>> /\ ~Committed(t)
        BY <1>11, <2>1, <2>2 DEF DeleteNext, Committed
      <3>2. KV!Ends(t, KV!RuntimeError) /\ AbsData = data /\ AbsData' = data
        BY <1>c, <3>1, Outcomes
      <3>3. QED
        BY <2>1, <2>2, <3>1, <3>2 DEF KV!Raise, KV!Next, KV!LifecycleOps
    <2>3. CASE ~closed
      BY <1>11, <1>f, <2>1, <2>3 DEF DeleteNext, Committed
    <2>4. QED
      BY <2>2, <2>3
  <1>12. CASE Done(t)
    <2>1. /\ pc[t] \in {"write", "delete"} /\ lock = t /\ DOMAIN todo[t] = {}
          /\ Leaves(KV!Ok) /\ UNCHANGED <<data, closed>>
      BY <1>12, <1>a DEF Done
    <2>2. CASE Committed(t)
      <3>1. /\ \A u \in Threads \ {t} : pc'[u] = pc[u] /\ answer'[u] = answer[u]
            /\ pc'[t] = "idle" /\ answer'[t] = KV!Ok /\ call' = call /\ lock' = NoThread
        BY <2>1 DEF Leave, End, Base, TypeOK
      <3>2. \A u \in Threads \ {t} : (Committed(u)' <=> Committed(u))
        BY <2>1, <3>1, Others
      <3>3. ~Committed(t)'
        BY <3>1 DEF Committed
      <3>4. AbsAnswer' = AbsAnswer
        BY <2>2, <3>1, <3>2, <3>3 DEF AbsAnswer, KV!Ok
      <3>5. AbsData = data /\ AbsData' = data
        BY <1>a, <2>1, <2>2, <3>1, StoredNothing DEF AbsData
      <3>6. QED
        BY <2>1, <3>1, <3>4, <3>5 DEF KV!vars
    <2>3. CASE ~Committed(t)
      <3>1. closed /\ pc[t] = "delete" /\ call[t].op = "delete_many"
        BY <2>1, <2>3 DEF Committed, Base, PhaseInv
      <3>2. call[t].keys = {}
        <4>1. todo[t] = [k \in call[t].keys |-> Absent]
          BY <3>1 DEF ScopeInv
        <4>2. DOMAIN todo[t] = call[t].keys
          BY <4>1
        <4>3. QED
          BY <2>1, <4>2
      <3>3. KV!Ends(t, KV!Ok) /\ AbsData = data /\ AbsData' = data
        BY <1>c, <2>1, <2>3, Outcomes
      <3>4. KV!Answer(call[t], KV!EmptyStore) = KV!Ok
        BY <3>1, WritesAnswerOk DEF KV!WriteOps, KV!Refused
      <3>5. KV!Vacuous(t)
        BY <2>1, <3>1, <3>2, <3>3, <3>4 DEF KV!Vacuous
      <3>6. QED
        BY <3>5 DEF KV!Next
    <2>4. QED
      BY <2>2, <2>3
  <1>13. CASE Remove(t)
    <2>1. /\ pc[t] = "locked" /\ call[t].op \in {"delete", "clear"} /\ lock = t
          /\ Leaves(KV!Ok) /\ UNCHANGED closed /\ ~Committed(t)
          /\ data' = Stored(data, KV!Effect(call[t], data))
      BY <1>13, <1>a DEF Remove, Locked, Committed
    <2>2. ~closed
      BY <2>1 DEF ScopeInv
    <2>3. ~KV!Refused(call[t], data) /\ KV!Answer(call[t], data) = KV!Ok
      BY <2>1, WritesAnswerOk DEF KV!Refused, KV!WriteOps
    <2>4. KV!Ends(t, KV!Ok) /\ AbsData = data /\ AbsData' = data'
      BY <1>c, <2>1, Outcomes
    <2>5. QED
      BY <1>a, <2>1, <2>2, <2>3, <2>4, Executes DEF KV!LifecycleOps
  \* open() and close() run alone, so that nobody else has committed.
  <1>g. ASSUME InLifecycle(t)
        PROVE  \A u \in Threads \ {t} : pc[u] = "idle" /\ ~Committed(u)
    BY <1>g DEF ScopeInv, Committed
  <1>14. CASE Close(t)
    <2>1. /\ pc[t] = "locked" /\ call[t].op = "close" /\ lock = t
          /\ Leave(t, KV!Ok) /\ data' = EmptyStore /\ closed' = TRUE
      BY <1>14, <1>a DEF Close, Locked
    <2>2. /\ \A u \in Threads \ {t} : pc'[u] = pc[u] /\ answer'[u] = answer[u]
          /\ pc'[t] = "idle" /\ answer'[t] = KV!Ok /\ call' = call /\ lock' = NoThread
      BY <2>1 DEF Leave, End, Base, TypeOK
    <2>3. \A u \in Threads : ~Committed(u) /\ ~Committed(u)'
      BY <1>g, <2>1, <2>2 DEF InLifecycle, KV!LifecycleOps, Committed
    <2>4. KV!Ends(t, KV!Ok)
      BY <2>1, <2>2, <2>3, Ending
    <2>5. AbsData' = EmptyStore
      BY <2>1, <2>2 DEF AbsData
    <2>6. QED
      BY <2>1, <2>4, <2>5, SameData DEF KV!Close, KV!Next, Durable
  <1>15. CASE OpenCheck(t)
    <2>1. /\ pc[t] = "opening" /\ call[t].op = "open" /\ InLifecycle(t)
          /\ UNCHANGED <<data, closed, lock>>
      BY <1>15 DEF OpenCheck, InLifecycle, Base, PhaseInv, KV!LifecycleOps
    <2>2. \A u \in Threads \ {t} : pc'[u] = pc[u] /\ answer'[u] = answer[u]
      BY <1>15 DEF OpenCheck, End, locals, Base, TypeOK
    <2>3. \A u \in Threads : ~Committed(u) /\ ~Committed(u)'
      BY <1>15, <1>g, <2>1, <2>2 DEF Committed, OpenCheck, End, Base, TypeOK
    <2>4. AbsData' = AbsData
      BY <1>a, <2>1, <2>3 DEF AbsData, Base, TypeOK
    <2>5. CASE closed
      <3>1. UNCHANGED <<call, answer>>
        BY <1>15, <2>5 DEF OpenCheck
      <3>2. AbsAnswer' = AbsAnswer
        BY <2>3, <3>1 DEF AbsAnswer
      <3>3. QED
        BY <2>1, <2>4, <3>1, <3>2 DEF KV!vars
    <2>6. CASE ~closed
      <3>1. End(t, KV!Ok) /\ answer'[t] = KV!Ok /\ call' = call
        BY <1>15, <2>6 DEF OpenCheck, End, Base, TypeOK
      <3>2. KV!Ends(t, KV!Ok)
        BY <2>1, <2>2, <2>3, <3>1, Ending
      <3>3. QED
        BY <2>1, <2>4, <2>6, <3>2 DEF KV!Open, KV!Next
    <2>7. QED
      BY <2>5, <2>6
  <1>16. CASE OpenReset(t)
    <2>1. data' = data /\ UNCHANGED <<closed, lock, call, answer>>
      BY <1>16 DEF OpenReset, ScopeInv
    <2>2. /\ \A u \in Threads \ {t} : pc'[u] = pc[u] /\ todo'[u] = todo[u]
          /\ ~Committed(t) /\ ~Committed(t)'
      BY <1>16 DEF OpenReset, locals, Committed, Base, TypeOK
    <2>3. \A u \in Threads : (Committed(u)' <=> Committed(u))
      BY <2>1, <2>2, Others
    <2>4. AbsData' = AbsData /\ AbsAnswer' = AbsAnswer
      BY <1>a, <2>1, <2>2, <2>3 DEF AbsData, AbsAnswer, Base, TypeOK
    <2>5. QED
      BY <2>1, <2>4 DEF KV!vars
  <1>17. CASE OpenDone(t)
    <2>1. /\ pc[t] = "unclose" /\ call[t].op = "open" /\ InLifecycle(t)
          /\ closed' = FALSE /\ UNCHANGED <<data, lock, call>>
      BY <1>17 DEF OpenDone, End, InLifecycle, Base, PhaseInv, KV!LifecycleOps
    <2>2. /\ \A u \in Threads \ {t} : pc'[u] = pc[u] /\ answer'[u] = answer[u]
          /\ pc'[t] = "idle" /\ answer'[t] = KV!Ok
      BY <1>17 DEF OpenDone, End, Base, TypeOK
    <2>3. \A u \in Threads : ~Committed(u) /\ ~Committed(u)'
      BY <1>g, <2>1, <2>2 DEF Committed
    <2>4. AbsData' = AbsData
      BY <1>a, <2>1, <2>3 DEF AbsData, Base, TypeOK
    <2>5. KV!Ends(t, KV!Ok)
      BY <2>1, <2>2, <2>3, Ending
    <2>6. QED
      BY <2>1, <2>4, <2>5 DEF KV!Open, KV!Next
  <1>99. QED
    BY <1>b, <1>1, <1>2, <1>3, <1>4, <1>5, <1>6, <1>7, <1>8, <1>81, <1>82, <1>9, <1>10,
       <1>11, <1>12, <1>13, <1>14, <1>15, <1>16, <1>17 DEF Step

-----------------------------------------------------------------------------
\* The initial state satisfies every part of the invariant, and shows the
\* contract's initial state.
LEMMA InitCorrect ==
    ASSUME Init
    PROVE  Base /\ ResolveInv /\ PlannedWritesAreCurrent /\ ScopeInv /\ KV!Init
  <1>1. TypeOK
    BY NothingType, TestsType, EmptyStoreType, NoCallType, Outcomes
       DEF Init, TypeOK, Busy, Phases
  <1>2. PhaseInv /\ LockInv /\ ResolveInv /\ PlannedWritesAreCurrent
    BY ThreadAssumption
       DEF Init, PhaseInv, LockInv, Holding, ResolveInv, PlannedWritesAreCurrent
  <1>3. ScopeInv
    BY NothingType DEF Init, ScopeInv, InLifecycle, Busy
  <1>4. AbsData = data /\ AbsAnswer = answer
    BY DEF Init, AbsData, AbsAnswer, Committed
  <1>5. KV!Init
    BY <1>4, SameData DEF Init, KV!Init
  <1>6. QED
    BY <1>1, <1>2, <1>3, <1>5 DEF Base

\* The lock discipline and the types hold in every reachable state, whatever
\* the callers do.
THEOREM TypeSafety == Spec => []TypeOK
  <1>1. Init => Base
    BY InitCorrect
  <1>2. Base /\ [Next]_vars => Base'
    BY TypeCorrect, PhaseCorrect, LockCorrect DEF Base
  <1>3. Base => TypeOK
    BY DEF Base
  <1>4. QED
    BY <1>1, <1>2, <1>3, PTL DEF Spec

\* What a "raise", "skip" or "merge" batch still has to write is current until
\* it is written, with any number of threads and however open() and close()
\* race them.
THEOREM PlansStayCurrent == Spec => []PlannedWritesAreCurrent
  <1>1. Init => Base /\ ResolveInv /\ PlannedWritesAreCurrent
    BY InitCorrect
  <1>2. Base /\ ResolveInv /\ PlannedWritesAreCurrent /\ [Next]_vars
            => (Base /\ ResolveInv /\ PlannedWritesAreCurrent)'
    BY TypeCorrect, PhaseCorrect, LockCorrect, ResolveCorrect, PlannedCorrect DEF Base
  <1>3. QED
    BY <1>1, <1>2, PTL DEF Spec

\* Used within open() and close(), InMemoryStore is linearizable: it implements
\* the contract of BaseStore.
THEOREM ImplementsContract == Spec => Contract
  <1> DEFINE I == Base /\ (scoped => ScopeInv)
  <1>1. Init => I /\ KV!Init
    BY InitCorrect
  <1>2. I /\ [Next]_vars => I'
    <2>1. [Next]_vars => scoped' = scoped
      BY DEF Next, Begin, Step, vars
    <2>2. QED
      BY <2>1, TypeCorrect, PhaseCorrect, LockCorrect, ScopeCorrect DEF Base
  <1>3. I /\ I' /\ [Next]_vars => [scoped => KV!Next]_(KV!vars)
    <2>1. [Next]_vars => scoped' = scoped
      BY DEF Next, Begin, Step, vars
    <2>2. QED
      BY <2>1, StepRefines
  <1>4. QED
    BY <1>1, <1>2, <1>3, PTL DEF Spec, Contract
=============================================================================
