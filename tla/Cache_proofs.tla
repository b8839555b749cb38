------------------------------ MODULE Cache_proofs ------------------------------
(***************************************************************************)
(* Cache implements TTLMap, for every set of keys, values, threads and     *)
(* calls, and every bound on the clock.                                    *)
(*                                                                         *)
(* The argument: what a lookup has read and not yet judged stays as it was *)
(* read in the private keys, so that an eviction there removes an entry    *)
(* that was dead already (KeptOf); after a miss everything the lookup read *)
(* is dead or absent and remains so, because the clock only goes forward   *)
(* (MissOf); and what is about to be stored carries the deadline of an     *)
(* instant of the call (PhaseOf).                                          *)
(***************************************************************************)
EXTENDS Cache, TLAPS

Slots == Entries \cup {Absent}

Maps(S) == UNION {[K -> S] : K \in SUBSET Keys}

Gone(e, n) == e = Absent \/ Dead(e, n)

-----------------------------------------------------------------------------
\* An entry that is dead stays dead.
LEMMA DeadLater ==
    ASSUME NEW e \in Slots, NEW n \in Int, NEW d \in Int, n <= d, Dead(e, n)
    PROVE  Dead(e, d)
  BY DEF Slots, Entries, Dead

\* Looking at what was alive and looking at everything come to the same.
LEMMA AliveTwice ==
    ASSUME NEW K, NEW m \in [K -> Slots], NEW n \in Int, NEW d \in Int, n <= d
    PROVE  Alive(Alive(m, n), d) = Alive(m, d)
  <1>1. \A k \in K : (IF Dead(IF Dead(m[k], n) THEN Absent ELSE m[k], d)
                      THEN Absent ELSE IF Dead(m[k], n) THEN Absent ELSE m[k])
                   = (IF Dead(m[k], d) THEN Absent ELSE m[k])
    BY DeadLater DEF Dead
  <1>2. DOMAIN m = K
    OBVIOUS
  <1>3. QED
    BY <1>1, <1>2 DEF Alive

LEMMA AliveDeleted ==
    ASSUME NEW m, DOMAIN m = Keys, NEW K, NEW n
    PROVE  Alive([k \in Keys |-> IF k \in K THEN Absent ELSE m[k]], n)
             = [k \in Keys |-> IF k \in K THEN Absent ELSE Alive(m, n)[k]]
  BY DEF Alive, Dead

LEMMA AliveOverwritten ==
    ASSUME NEW m \in [Keys -> Slots], NEW w, NEW n \in Int
    PROVE  Alive(Overwritten(m, w), n) = Alive(Overwritten(Alive(m, n), w), n)
  <1>1. \A k \in Keys : Dead(m[k], n) => ~Dead(Absent, n)
    BY DEF Dead
  <1>2. QED
    BY <1>1 DEF Alive, Overwritten

\* The values of a batch that was stamped are those of the batch.
LEMMA StampedFacts ==
    ASSUME NEW D, NEW items \in [D -> Vals], NEW r \in Request, NEW n \in Int
    PROVE  /\ Stamped(items, r, n) \in [D -> Entries]
           /\ Values(Stamped(items, r, n)) = items
  <1>1. Ttl(r) \in Int \cup {Never}
    BY DefaultAssumption DEF Ttl, Request, Ttls
  <1>2. \A k \in D : [value |-> items[k], expires_at |-> Deadline(r, n)] \in Entries
    BY <1>1 DEF Entries, Deadline
  <1>3. Stamped(items, r, n) \in [D -> Entries]
    BY <1>2 DEF Stamped
  <1>4. \A k \in D : Stamped(items, r, n)[k] # Absent /\ Stamped(items, r, n)[k].value = items[k]
    BY <1>2, AbsentAssumption DEF Stamped
  <1>5. {i \in DOMAIN Stamped(items, r, n) : Stamped(items, r, n)[i] # Absent} = D
    BY <1>3, <1>4
  <1>6. QED
    BY <1>3, <1>4, <1>5 DEF Values

LEMMA NothingForms ==
    ASSUME NEW D, NEW S, NEW f \in [D -> S]
    PROVE  f = Nothing <=> D = {}
  BY DEF Nothing

LEMMA NoValues ==
    ASSUME NEW m
    PROVE  Values(m) = Nothing <=> \A k \in DOMAIN m : m[k] = Absent
  <1> DEFINE Kept == {i \in DOMAIN m : m[i] # Absent}
  <1>1. DOMAIN Values(m) = Kept
    BY DEF Values
  <1>2. CASE Kept = {}
    BY <1>2 DEF Values, Nothing
  <1>3. CASE Kept # {}
    BY <1>1, <1>3 DEF Nothing
  <1>4. QED
    BY <1>2, <1>3

LEMMA AnswersDiffer ==
    /\ Ok # NoAnswer /\ ValueError # NoAnswer /\ Raised # NoAnswer
    /\ \A m : Hits(m) # NoAnswer
  BY DEF Ok, NoAnswer, ValueError, Raised, Hits

-----------------------------------------------------------------------------
(* A miss: all that the lookup has read is absent or dead.                  *)
MissOf(t) ==
    /\ call[t].op = "get_or_compute" /\ DOMAIN looked[t] = call[t].keys
    /\ \A k \in DOMAIN looked[t] : Gone(looked[t][k], now)

(* What a thread holds in each phase of its call.                           *)
PhaseOf(t) ==
    /\ pc[t] = "idle" => looked[t] = Nothing /\ values[t] = Nothing
    /\ pc[t] \in {"look", "judge", "evict"} => call[t].op \in {"try_get_many", "get_or_compute"}
    /\ pc[t] = "look" => looked[t] = Nothing
    /\ pc[t] = "judge" => DOMAIN looked[t] = call[t].keys
    /\ pc[t] = "evict" =>
        /\ DOMAIN looked[t] \subseteq call[t].keys
        /\ \A k \in DOMAIN looked[t] : Dead(looked[t][k], now)
        /\ MissOf(t) \/ call[t].op = "try_get_many"
    /\ pc[t] = "compute" => MissOf(t)
    /\ pc[t] \in {"resolve", "drop", "write"} =>
        \/ /\ MissOf(t) \/ (pc[t] = "write" /\ call[t].op = "get_or_compute")
           /\ \E v \in Vals : values[t] = [k \in call[t].keys |-> v]
        \/ call[t].op # "get_or_compute" /\ values[t] = call[t].items /\ looked[t] = Nothing
    /\ pc[t] \in {"resolve", "write"} => call[t].op \in {"set_many", "get_or_compute"}
    /\ pc[t] = "drop" =>
        \/ call[t].op \in {"delete_many", "clear"}
        \/ call[t].op \in {"set_many", "get_or_compute"} /\ Ttl(call[t]) = 0
    /\ pc[t] = "write" =>
        /\ values[t] # Nothing /\ ~Invalid(call[t]) /\ Ttl(call[t]) # 0
        /\ \E n \in Int : writes[t] = Stamped(values[t], call[t], n)
    /\ pc[t] # "write" => writes[t] = Nothing

(* What a lookup has read of the private keys is there as long as it has    *)
(* not decided, or has been deleted since.                                  *)
KeptOf(t) ==
    pc[t] \in {"judge", "evict"} =>
        \A k \in DOMAIN looked[t] \ Shared : store[k] \in {looked[t][k], Absent}

Typed ==
    /\ store \in [Keys -> Slots]
    /\ now \in Int
    /\ DOMAIN call = Threads /\ DOMAIN answer = Threads
    /\ looked \in [Threads -> Maps(Slots)]
    /\ values \in [Threads -> Maps(Vals)]
    /\ writes \in [Threads -> Maps(Entries)]

Inv ==
    /\ TypeOK /\ Typed
    /\ \A t \in Threads : PhaseOf(t) /\ KeptOf(t)

-----------------------------------------------------------------------------
\* What a call is made of.
LEMMA CallForms ==
    ASSUME TypeOK, NEW t \in Threads
    PROVE  /\ call[t] \in Request /\ call[t].keys \subseteq Keys /\ Nothing \in [{} -> Vals]
           /\ call[t].items \in Maps(Vals)
           /\ call[t].op # "set_many" => call[t].items = Nothing
           /\ call[t].op \in {"set_many", "clear"} => call[t].keys = {}
           /\ call[t].op = "get_or_compute" => \E k \in Keys : call[t].keys = {k}
           /\ \A k \in Keys : UsesKey(call[t], k) => call[t] \in Requests[t]
  <1>1. Nothing \in [{} -> Vals]
    BY DEF Nothing
  <1>2. NoCall \in Request
    <2>1. Nothing \in UNION {[K -> Vals] : K \in SUBSET Keys}
      BY <1>1
    <2>2. QED
      BY <2>1 DEF NoCall, Request, Ttls
  <1>3. CASE call[t] = NoCall
    <2>1. call[t].op = "clear" /\ call[t].keys = {} /\ call[t].items = Nothing /\ DOMAIN Nothing = {}
      BY <1>3 DEF NoCall, Nothing
    <2>2. \A k \in Keys : ~UsesKey(call[t], k)
      BY <2>1 DEF UsesKey
    <2>3. Nothing \in Maps(Vals)
      BY <1>1 DEF Maps
    <2>4. QED
      BY <1>1, <1>2, <1>3, <2>1, <2>2, <2>3
  <1>4. CASE call[t] \in Requests[t]
    <2>1. call[t] \in Request
      BY <1>4, RequestsAssumption
    <2>2. call[t].keys \subseteq Keys /\ call[t].items \in Maps(Vals)
      BY <2>1 DEF Request, Maps
    <2>3. QED
      BY <1>1, <1>4, <2>1, <2>2, RequestsAssumption
  <1>5. QED
    BY <1>3, <1>4 DEF TypeOK

\* Two threads share the keys that both of them use.
LEMMA SharedKeys ==
    ASSUME TypeOK, NEW t \in Threads, NEW u \in Threads \ {t}, NEW k \in Keys,
           UsesKey(call[t], k), UsesKey(call[u], k)
    PROVE  k \in Shared
  <1>1. call[t] \in Requests[t] /\ call[u] \in Requests[u]
    BY CallForms
  <1>2. QED
    BY <1>1, RequestsAssumption

\* A step of a call changes what its thread holds, and the store.
LEMMA OthersKeep ==
    ASSUME TypeOK, Typed, NEW t \in Threads, Begin(t) \/ Step(t), NEW u \in Threads \ {t}
    PROVE  /\ pc'[u] = pc[u] /\ call'[u] = call[u] /\ answer'[u] = answer[u]
           /\ looked'[u] = looked[u] /\ values'[u] = values[u] /\ writes'[u] = writes[u]
  <1>0. /\ DOMAIN pc = Threads /\ DOMAIN call = Threads /\ DOMAIN answer = Threads
        /\ DOMAIN looked = Threads /\ DOMAIN values = Threads /\ DOMAIN writes = Threads
    BY DEF TypeOK, Typed
  <1> USE <1>0 DEF End, GoTo, locals
  <1>1. CASE Begin(t) \/ Look(t) \/ Compute(t)
    BY <1>1 DEF Begin, Look, Compute
  <1>2. CASE Judge(t)
    BY <1>2 DEF Judge
  <1>3. CASE Evict(t) \/ Write(t) \/ Drop(t)
    BY <1>3 DEF Evict, Write, Drop
  <1>4. CASE Resolve(t)
    BY <1>4 DEF Resolve
  <1>5. QED
    BY <1>1, <1>2, <1>3, <1>4 DEF Step

\* Time passes between the steps only.
LEMMA StepKeeps ==
    ASSUME NEW t \in Threads, Step(t)
    PROVE  now' = now /\ call' = call /\ pc[t] # "idle"
  BY DEF Step, Look, Judge, Evict, Compute, Resolve, Write, Drop, End, GoTo

\* Of the two halves of a call's state, pc and answer, and what it holds.
LEMMA Shapes ==
    ASSUME TypeOK, Typed, NEW t \in Threads, Begin(t) \/ Step(t)
    PROVE  /\ pc' \in [Threads -> Phases]
           /\ DOMAIN call' = Threads /\ DOMAIN answer' = Threads
           /\ answer'[t] = NoAnswer <=> pc'[t] # "idle"
  <1>0. /\ pc \in [Threads -> Phases] /\ DOMAIN call = Threads /\ DOMAIN answer = Threads
        /\ answer[t] = NoAnswer <=> pc[t] # "idle"
    BY DEF TypeOK, Typed
  <1> USE <1>0, AnswersDiffer DEF End, GoTo, Phases
  <1>1. CASE Begin(t)
    BY <1>1 DEF Begin, Entry
  <1>2. CASE Look(t) \/ Compute(t)
    BY <1>2 DEF Look, Compute
  <1>3. CASE Judge(t)
    BY <1>3 DEF Judge
  <1>4. CASE Evict(t) \/ Write(t) \/ Drop(t)
    BY <1>4 DEF Evict, Write, Drop, Written
  <1>5. CASE Resolve(t)
    BY <1>5 DEF Resolve
  <1>6. QED
    BY <1>1, <1>2, <1>3, <1>4, <1>5 DEF Step

LEMMA FoundTyped ==
    ASSUME NEW m \in Maps(Slots)
    PROVE  Values(Alive(m, now)) \in Maps(Vals)
  <1>1. PICK K \in SUBSET Keys : m \in [K -> Slots]
    BY DEF Maps
  <1> DEFINE L == {i \in K : Alive(m, now)[i] # Absent}
  <1>2. DOMAIN Alive(m, now) = K /\ \A k \in L : Alive(m, now)[k] \in Entries
    BY <1>1 DEF Alive, Slots
  <1>3. \A k \in L : Alive(m, now)[k].value \in Vals
    BY <1>2 DEF Entries
  <1>4. Values(Alive(m, now)) \in [L -> Vals]
    BY <1>2, <1>3 DEF Values
  <1>5. QED
    BY <1>4 DEF Maps

LEMMA MapsFacts ==
    ASSUME NEW S
    PROVE  /\ Nothing \in Maps(S)
           /\ \A m \in Maps(S) : DOMAIN m \subseteq Keys
           /\ \A K \in SUBSET Keys : [K -> S] \subseteq Maps(S)
           /\ \A m \in Maps(S) : \A K \in SUBSET DOMAIN m : [k \in K |-> m[k]] \in Maps(S)
  <1>1. Nothing \in [{} -> S]
    BY DEF Nothing
  <1>2. QED
    BY <1>1 DEF Maps

\* What a call reads, and is about to return or to store, keeps its types.
LEMMA LocalsTyped ==
    ASSUME Inv, NEW t \in Threads, Begin(t) \/ Step(t)
    PROVE  /\ looked' \in [Threads -> Maps(Slots)]
           /\ values' \in [Threads -> Maps(Vals)]
           /\ writes' \in [Threads -> Maps(Entries)]
  <1>1. /\ TypeOK /\ Typed /\ PhaseOf(t)
        /\ looked \in [Threads -> Maps(Slots)] /\ values \in [Threads -> Maps(Vals)]
        /\ writes \in [Threads -> Maps(Entries)]
    BY DEF Inv, Typed
  <1>2. Nothing \in Maps(Slots) /\ Nothing \in Maps(Vals) /\ Nothing \in Maps(Entries)
    BY MapsFacts
  <1>3. CASE Begin(t)
    <2>1. \A r \in Requests[t] : r.items \in Maps(Vals)
      BY RequestsAssumption DEF Request, Maps
    <2>2. QED
      BY <1>1, <1>3, <2>1 DEF Begin
  <1> USE <1>1, <1>2 DEF End, GoTo, locals
  <1>4. CASE Look(t)
    <2>1. [k \in call[t].keys |-> store[k]] \in [call[t].keys -> Slots] /\ call[t].keys \subseteq Keys
      BY CallForms DEF Typed
    <2>2. [k \in call[t].keys |-> store[k]] \in Maps(Slots)
      BY <2>1, MapsFacts
    <2>3. QED
      BY <1>4, <2>2 DEF Look
  <1>5. CASE Judge(t)
    <2>1. Found(t) \in Maps(Vals)
      BY FoundTyped DEF Found
    <2>2. [k \in Expired(t) |-> looked[t][k]] \in Maps(Slots)
      <3>1. looked[t] \in Maps(Slots) /\ Expired(t) \subseteq DOMAIN looked[t]
        BY DEF Expired
      <3>2. QED
        BY <3>1, MapsFacts
    <2>3. QED
      BY <1>5, <2>1, <2>2 DEF Judge
  <1>6. CASE Evict(t) \/ Drop(t) \/ Write(t)
    BY <1>6 DEF Evict, Drop, Write
  <1>7. CASE Compute(t)
    <2>1. \A v \in Vals : [k \in call[t].keys |-> v] \in Maps(Vals)
      <3>1. call[t].keys \in SUBSET Keys
        BY CallForms
      <3>2. QED
        BY <3>1 DEF Maps
    <2>2. QED
      BY <1>7, <2>1 DEF Compute
  <1>8. CASE Resolve(t)
    <2>1. Stamped(values[t], call[t], now) \in Maps(Entries)
      <3>1. PICK K \in SUBSET Keys : values[t] \in [K -> Vals]
        BY DEF Maps
      <3>2. Stamped(values[t], call[t], now) \in [K -> Entries]
        BY <3>1, CallForms, StampedFacts DEF Typed
      <3>3. QED
        BY <3>2, MapsFacts
    <2>2. QED
      BY <1>8, <2>1 DEF Resolve
  <1>9. QED
    BY <1>3, <1>4, <1>5, <1>6, <1>7, <1>8 DEF Step

\* What a step does to the store: nothing, a deletion, or a write.
LEMMA StoreForms ==
    ASSUME NEW t \in Threads, Step(t)
    PROVE  \/ store' = store
           \/ \E K : Delete(K)
           \/ pc[t] = "write" /\ store' = Overwritten(store, writes[t])
  BY DEF Step, Look, Judge, Evict, Compute, Resolve, Write, Drop

\* The state keeps its types.
LEMMA TypeCorrect ==
    ASSUME Inv, [Next]_vars
    PROVE  TypeOK' /\ Typed'
  <1>0. TypeOK /\ Typed
    BY DEF Inv
  <1>1. CASE UNCHANGED vars
    BY <1>0, <1>1 DEF TypeOK, Typed, vars, locals
  <1>2. CASE Tick
    BY <1>0, <1>2, MaxNowAssumption DEF Tick, TypeOK, Typed, locals
  <1>3. \A s \in [Keys -> Slots] : \A k \in Keys : s[k] = Absent \/ s[k].value \in Vals
    BY DEF Slots, Entries
  <1>4. ASSUME NEW t \in Threads, Begin(t) \/ Step(t)
        PROVE  TypeOK' /\ Typed'
    <2>1. now' = now
      BY <1>4, StepKeeps DEF Begin
    <2>2. \A u \in Threads : call'[u] = NoCall \/ call'[u] \in Requests[u]
      BY <1>0, <1>4, StepKeeps DEF Begin, TypeOK, Typed
    <2>3. store' \in [Keys -> Slots]
      <3>1. CASE Begin(t)
        BY <1>0, <3>1 DEF Begin, Typed
      <3>2. CASE Step(t)
        <4>1. writes[t] \in Maps(Entries)
          BY <1>0 DEF Typed
        <4>2. PICK K \in SUBSET Keys : writes[t] \in [K -> Entries]
          BY <4>1 DEF Maps
        <4>3. Overwritten(store, writes[t]) \in [Keys -> Slots]
          BY <1>0, <4>2 DEF Overwritten, Slots, Typed
        <4>4. ASSUME NEW K2, Delete(K2)
              PROVE  store' \in [Keys -> Slots]
          BY <1>0, <4>4 DEF Delete, Slots, Typed
        <4>5. QED
          BY <1>0, <3>2, <4>3, <4>4, StoreForms DEF Typed
      <3>3. QED
        BY <1>4, <3>1, <3>2
    <2>4. \A u \in Threads : answer'[u] = NoAnswer <=> pc'[u] # "idle"
      BY <1>0, <1>4, Shapes, OthersKeep DEF TypeOK
    <2>5. TypeOK'
      BY <1>0, <1>3, <1>4, <2>1, <2>2, <2>3, <2>4, Shapes DEF TypeOK, Typed
    <2>6. Typed'
      BY <1>0, <1>4, <2>1, <2>3, Shapes, LocalsTyped DEF Typed
    <2>7. QED
      BY <2>5, <2>6
  <1>5. QED
    BY <1>1, <1>2, <1>4 DEF Next

-----------------------------------------------------------------------------
\* Each step leaves its thread with what the next phase starts from.
LEMMA OwnPhase ==
    ASSUME Inv, NEW t \in Threads, Begin(t) \/ Step(t)
    PROVE  PhaseOf(t)'
  <1>1. /\ TypeOK /\ Typed /\ PhaseOf(t) /\ pc \in [Threads -> Phases] /\ DOMAIN call = Threads
        /\ looked \in [Threads -> Maps(Slots)] /\ values \in [Threads -> Maps(Vals)]
        /\ writes \in [Threads -> Maps(Entries)]
    BY DEF Inv, TypeOK, Typed
  <1>2. CASE Begin(t)
    <2>1. PICK r \in Requests[t] :
            /\ call' = [call EXCEPT ![t] = r] /\ pc' = [pc EXCEPT ![t] = Entry(r)]
            /\ values' = [values EXCEPT ![t] = r.items]
      BY <1>2 DEF Begin
    <2>2. /\ call'[t] = r /\ pc'[t] = Entry(r) /\ values'[t] = r.items
          /\ looked'[t] = Nothing /\ writes'[t] = Nothing
      BY <1>1, <1>2, <2>1 DEF Begin, PhaseOf
    <2>3. r.op \in {"try_get_many", "set_many", "delete_many", "clear", "get_or_compute"}
      BY RequestsAssumption DEF Request
    <2>4. QED
      BY <2>2, <2>3 DEF PhaseOf, Entry
  <1>3. ASSUME pc'[t] = "idle", looked'[t] = Nothing, values'[t] = Nothing, writes'[t] = Nothing
        PROVE  PhaseOf(t)'
    BY <1>3 DEF PhaseOf
  <1>4. ASSUME NEW a, End(t, a)
        PROVE  PhaseOf(t)'
    BY <1>1, <1>3, <1>4 DEF End
  <1> USE DEF GoTo, locals
  <1>6. CASE Look(t)
    BY <1>1, <1>6 DEF Look, PhaseOf
  <1>7. CASE Judge(t)
    <2>1. CASE Expired(t) = {} /\ GoTo(t, "compute") /\ UNCHANGED locals
               /\ call[t].op = "get_or_compute" /\ Found(t) = Nothing
      <3>1. \A k \in DOMAIN looked[t] : Gone(looked[t][k], now)
        <4>1. DOMAIN Alive(looked[t], now) = DOMAIN looked[t]
          BY DEF Alive
        <4>2. \A k \in DOMAIN looked[t] : Alive(looked[t], now)[k] = Absent
          BY <2>1, <4>1, NoValues DEF Found
        <4>3. QED
          BY <4>2 DEF Alive, Gone
      <3>2. MissOf(t)'
        BY <1>1, <1>7, <2>1, <3>1 DEF Judge, MissOf, PhaseOf
      <3>3. QED
        BY <1>1, <1>7, <2>1, <3>2 DEF Judge, PhaseOf
    <2>2. CASE /\ Expired(t) # {} /\ GoTo(t, "evict") /\ UNCHANGED writes
               /\ looked' = [looked EXCEPT ![t] = [k \in Expired(t) |-> looked[t][k]]]
               /\ values' = [values EXCEPT ![t] = Found(t)]
      <3>1. /\ DOMAIN looked'[t] = Expired(t)
            /\ \A k \in Expired(t) : Dead(looked'[t][k], now)
            /\ Expired(t) \subseteq call[t].keys
        BY <1>1, <1>7, <2>2 DEF Expired, PhaseOf, Judge
      <3>2. call[t].op = "get_or_compute" => Expired(t) = call[t].keys
        BY <1>1, <1>7, <2>2, CallForms DEF PhaseOf, Judge, Expired
      <3>3. call[t].op = "get_or_compute" => MissOf(t)'
        BY <2>2, <3>1, <3>2 DEF MissOf, Gone
      <3>4. QED
        BY <1>1, <1>7, <2>2, <3>1, <3>3 DEF Judge, PhaseOf
    <2>3. QED
      BY <1>4, <1>7, <2>1, <2>2 DEF Judge
  <1>8. CASE Evict(t)
    BY <1>1, <1>4, <1>8 DEF Evict, PhaseOf, MissOf
  <1>9. CASE Compute(t)
    <2>1. ASSUME NEW v \in Vals, values' = [values EXCEPT ![t] = [k \in call[t].keys |-> v]],
                 GoTo(t, "resolve"), UNCHANGED <<looked, writes>>
          PROVE  PhaseOf(t)'
      <3>1. MissOf(t)'
        BY <1>1, <1>9, <2>1 DEF Compute, PhaseOf, MissOf
      <3>2. values'[t] = [k \in call'[t].keys |-> v] /\ pc'[t] = "resolve" /\ writes'[t] = Nothing
        BY <1>1, <1>9, <2>1 DEF Compute, PhaseOf
      <3>3. call'[t].op = "get_or_compute"
        BY <3>1 DEF MissOf
      <3>4. QED
        BY <3>1, <3>2, <3>3 DEF PhaseOf
    <2>2. QED
      BY <1>4, <1>9, <2>1 DEF Compute
  <1>10. CASE Resolve(t)
    <2>1. CASE GoTo(t, "drop") /\ UNCHANGED locals /\ Ttl(call[t]) = 0
      BY <1>1, <1>10, <2>1 DEF Resolve, PhaseOf, MissOf
    <2>2. CASE /\ values[t] # Nothing /\ ~Invalid(call[t]) /\ Ttl(call[t]) # 0
               /\ writes' = [writes EXCEPT ![t] = Stamped(values[t], call[t], now)]
               /\ GoTo(t, "write") /\ UNCHANGED <<looked, values>>
      <3>1. /\ writes'[t] = Stamped(values'[t], call'[t], now) /\ now \in Int
            /\ pc'[t] = "write" /\ values'[t] = values[t] /\ call' = call /\ looked' = looked
        BY <1>1, <2>2 DEF Typed
      <3>2. pc[t] = "resolve"
        BY <1>10 DEF Resolve
      <3>3. QED
        BY <1>1, <2>2, <3>1, <3>2 DEF PhaseOf, MissOf
    <2>3. QED
      BY <1>4, <1>10, <2>1, <2>2 DEF Resolve
  <1>11. CASE Write(t) \/ Drop(t)
    BY <1>4, <1>11 DEF Write, Drop
  <1>12. QED
    BY <1>2, <1>6, <1>7, <1>8, <1>9, <1>10, <1>11 DEF Step

\* The keys of a call are what it writes.
LEMMA WrittenKeys ==
    ASSUME Inv, NEW t \in Threads, pc[t] = "write", NEW k \in DOMAIN writes[t]
    PROVE  UsesKey(call[t], k) /\ k \in Keys
  <1>1. /\ PhaseOf(t) /\ values[t] \in Maps(Vals) /\ writes[t] \in Maps(Entries)
    BY DEF Inv, Typed
  <1>2. DOMAIN writes[t] = DOMAIN values[t]
    BY <1>1 DEF PhaseOf, Stamped
  <1>3. DOMAIN values[t] \subseteq call[t].keys \/ values[t] = call[t].items
    BY <1>1 DEF PhaseOf
  <1>4. QED
    BY <1>1, <1>2, <1>3, MapsFacts DEF UsesKey

\* No other thread writes the private keys that a call looks at.
LEMMA KeptCorrect ==
    ASSUME Inv, NEW t \in Threads, Begin(t) \/ Step(t)
    PROVE  \A u \in Threads : KeptOf(u)'
  <1>1. /\ TypeOK /\ Typed /\ PhaseOf(t) /\ KeptOf(t) /\ pc \in [Threads -> Phases]
        /\ looked \in [Threads -> Maps(Slots)] /\ store \in [Keys -> Slots]
        /\ DOMAIN call = Threads
    BY DEF Inv, TypeOK, Typed
  <1>2. ASSUME NEW u \in Threads \ {t}
        PROVE  KeptOf(u)'
    <2>1. /\ pc'[u] = pc[u] /\ looked'[u] = looked[u]
          /\ KeptOf(u) /\ PhaseOf(u) /\ DOMAIN looked[u] \subseteq Keys
      BY <1>1, OthersKeep, MapsFacts DEF Inv
    <2>2. SUFFICES ASSUME pc[u] \in {"judge", "evict"}, NEW k \in DOMAIN looked[u] \ Shared
                   PROVE  store'[k] \in {store[k], Absent}
      BY <2>1 DEF KeptOf
    <2>3. UsesKey(call[u], k)
      BY <2>1, <2>2 DEF PhaseOf, UsesKey
    <2>4. CASE Begin(t)
      BY <2>4 DEF Begin
    <2>5. ASSUME NEW K, Delete(K)
          PROVE  store'[k] \in {store[k], Absent}
      BY <2>1, <2>5 DEF Delete
    <2>6. CASE pc[t] = "write" /\ store' = Overwritten(store, writes[t])
      <3>1. k \notin DOMAIN writes[t]
        BY <1>1, <2>1, <2>2, <2>3, <2>6, WrittenKeys, SharedKeys
      <3>2. QED
        BY <2>1, <2>6, <3>1 DEF Overwritten
    <2>7. QED
      BY <2>4, <2>5, <2>6, StoreForms
  <1>3. CASE Look(t)
    <2>1. looked'[t] = [k \in call[t].keys |-> store[k]] /\ store' = store
      BY <1>1, <1>3 DEF Look
    <2>2. KeptOf(t)'
      BY <2>1 DEF KeptOf
    <2>3. QED
      BY <1>2, <2>2
  <1>4. CASE Judge(t)
    <2>1. CASE pc'[t] = "evict"
      <3>1. /\ looked'[t] = [k \in Expired(t) |-> looked[t][k]]
            /\ store' = store /\ pc[t] = "judge" /\ Expired(t) \subseteq DOMAIN looked[t]
        BY <1>1, <1>4, <2>1 DEF Judge, End, GoTo, Expired
      <3>2. QED
        BY <1>1, <1>2, <3>1 DEF KeptOf
    <2>2. CASE pc'[t] \notin {"judge", "evict"}
      BY <1>2, <2>2 DEF KeptOf
    <2>3. QED
      BY <1>1, <1>4, <2>1, <2>2 DEF Judge, End, GoTo
  <1>5. ASSUME Begin(t) \/ Evict(t) \/ Compute(t) \/ Resolve(t) \/ Write(t) \/ Drop(t)
        PROVE  pc'[t] \notin {"judge", "evict"}
    BY <1>1, <1>5 DEF Begin, Entry, Evict, Compute, Resolve, Write, Drop, End, GoTo
  <1>6. CASE pc'[t] \notin {"judge", "evict"}
    BY <1>2, <1>6 DEF KeptOf
  <1>7. QED
    BY <1>3, <1>4, <1>5, <1>6 DEF Step

\* What is dead when the clock ticks is dead after.
LEMMA TickKeeps ==
    ASSUME Inv, Tick, NEW t \in Threads
    PROVE  PhaseOf(t)' /\ KeptOf(t)'
  <1>1. /\ PhaseOf(t) /\ KeptOf(t) /\ now \in Int /\ now' \in Int /\ now <= now'
        /\ UNCHANGED <<store, pc, call, looked, values, writes>>
        /\ \A k \in DOMAIN looked[t] : looked[t][k] \in Slots
    BY DEF Inv, Typed, Tick, locals, Maps
  <1>2. \A k \in DOMAIN looked[t] :
          /\ Dead(looked[t][k], now) => Dead(looked[t][k], now')
          /\ Gone(looked[t][k], now) => Gone(looked[t][k], now')
    BY <1>1, DeadLater DEF Gone
  <1>3. MissOf(t) => MissOf(t)'
    BY <1>1, <1>2 DEF MissOf
  <1>4. PhaseOf(t)'
    BY <1>1, <1>2, <1>3 DEF PhaseOf
  <1>5. QED
    BY <1>1, <1>4 DEF KeptOf

LEMMA InitCorrect == Init => Inv
  <1> SUFFICES ASSUME Init
               PROVE  Inv
    OBVIOUS
  <1>1. \A t \in Threads : /\ pc[t] = "idle" /\ call[t] = NoCall /\ answer[t] = Ok
                           /\ looked[t] = Nothing /\ values[t] = Nothing /\ writes[t] = Nothing
    BY DEF Init
  <1>2. Typed
    BY MapsFacts DEF Init, Typed, Slots
  <1>3. TypeOK
    BY <1>1, MaxNowAssumption, AnswersDiffer DEF Init, TypeOK, Phases
  <1>4. QED
    BY <1>1, <1>2, <1>3 DEF Inv, PhaseOf, KeptOf

LEMMA InvCorrect ==
    ASSUME Inv, [Next]_vars
    PROVE  Inv'
  <1>1. TypeOK' /\ Typed'
    BY TypeCorrect
  <1>2. CASE UNCHANGED vars
    <2>1. UNCHANGED <<store, now, pc, call, looked, values, writes>>
      BY <1>2 DEF vars, locals
    <2>2. \A t \in Threads : PhaseOf(t)' /\ KeptOf(t)'
      BY <2>1 DEF Inv, PhaseOf, KeptOf, MissOf
    <2>3. QED
      BY <1>1, <2>2 DEF Inv
  <1>3. CASE Tick
    BY <1>1, <1>3, TickKeeps DEF Inv
  <1>4. ASSUME NEW t \in Threads, Begin(t) \/ Step(t)
        PROVE  Inv'
    <2>1. now' = now /\ TypeOK /\ Typed
      BY <1>4, StepKeeps DEF Begin, Inv
    <2>2. ASSUME NEW u \in Threads \ {t}
          PROVE  PhaseOf(u)'
      <3>1. PhaseOf(u)
        BY DEF Inv
      <3>2. QED
        BY <1>4, <2>1, <3>1, OthersKeep DEF PhaseOf, MissOf
    <2>3. QED
      BY <1>1, <1>4, <2>2, OwnPhase, KeptCorrect DEF Inv
  <1>5. QED
    BY <1>2, <1>3, <1>4 DEF Next

LEMMA InvHolds == Spec => []Inv
  <1>1. Init => Inv
    BY InitCorrect
  <1>2. Inv /\ [Next]_vars => Inv'
    BY InvCorrect
  <1>3. QED
    BY <1>1, <1>2, PTL DEF Spec

\* The state has its types, and a caller has an answer exactly when its call is
\* over.
THEOREM TypeSafety == Spec => []TypeOK
  <1>1. Inv => TypeOK
    BY DEF Inv
  <1>2. QED
    BY <1>1, InvHolds, PTL

-----------------------------------------------------------------------------
\* The contract and the cache speak of the same calls, entries and answers.
LEMMA SameData ==
    /\ TM!Nothing = Nothing /\ TM!NoCall = NoCall
    /\ TM!Ok = Ok /\ TM!NoAnswer = NoAnswer /\ TM!ValueError = ValueError /\ TM!Raised = Raised
    /\ \A m : TM!Hits(m) = Hits(m) /\ TM!Values(m) = Values(m)
    /\ \A r : TM!Ttl(r) = Ttl(r) /\ (TM!Invalid(r) <=> Invalid(r))
    /\ \A m, n : TM!Alive(m, n) = Alive(m, n)
    /\ \A items, r, n : TM!Stamped(items, r, n) = Stamped(items, r, n)
    /\ \A m, w : TM!Overwritten(m, w) = Overwritten(m, w)
  <1>1. TM!Nothing = Nothing
    BY DEF TM!Nothing, Nothing
  <1>2. TM!NoCall = NoCall
    BY <1>1 DEF TM!NoCall, NoCall
  <1>3. /\ TM!Ok = Ok /\ TM!NoAnswer = NoAnswer /\ TM!ValueError = ValueError /\ TM!Raised = Raised
        /\ \A m : TM!Hits(m) = Hits(m)
    BY DEF TM!Ok, Ok, TM!NoAnswer, NoAnswer, TM!ValueError, ValueError, TM!Raised, Raised,
       TM!Hits, Hits
  <1>4. \A r : TM!Ttl(r) = Ttl(r)
    BY DEF TM!Ttl, Ttl
  <1>5. \A r : TM!Invalid(r) <=> Invalid(r)
    BY <1>4 DEF TM!Invalid, Invalid
  <1>6. \A m, n : TM!Alive(m, n) = Alive(m, n)
    BY DEF TM!Alive, Alive, TM!Dead, Dead
  <1>7. \A m : TM!Values(m) = Values(m)
    BY DEF TM!Values, Values
  <1>8. \A r, n : TM!Deadline(r, n) = Deadline(r, n)
    BY <1>4 DEF TM!Deadline, Deadline
  <1>9. \A items, r, n : TM!Stamped(items, r, n) = Stamped(items, r, n)
    BY <1>8 DEF TM!Stamped, Stamped
  <1>10. \A m, w : TM!Overwritten(m, w) = Overwritten(m, w)
    BY DEF TM!Overwritten, Overwritten
  <1>11. QED
    BY <1>1, <1>2, <1>3, <1>4, <1>5, <1>6, <1>7, <1>9, <1>10

(* What the contract sees of one thread.                                    *)
SeenOf(t) ==
    IF pc[t] = "judge" \/ Missed(t) THEN Alive(looked[t], now) ELSE Nothing

AnswerOf(t) ==
    IF pc[t] = "evict" /\ ~Missed(t) THEN Hits(values[t]) ELSE answer[t]

LEMMA Seen ==
    ASSUME NEW t \in Threads
    PROVE  AbsSeen[t] = SeenOf(t) /\ AbsAnswer[t] = AnswerOf(t)
  BY DEF AbsSeen, AbsAnswer, SeenOf, AnswerOf

\* A step changes what the contract sees of its own thread only.
LEMMA Mapped ==
    ASSUME Inv, NEW t \in Threads, Begin(t) \/ Step(t)
    PROVE  /\ AbsSeen' = [AbsSeen EXCEPT ![t] = SeenOf(t)']
           /\ AbsAnswer' = [AbsAnswer EXCEPT ![t] = AnswerOf(t)']
  <1>1. now' = now /\ TypeOK /\ Typed
    BY StepKeeps DEF Begin, Inv
  <1>2. \A u \in Threads \ {t} : SeenOf(u)' = SeenOf(u) /\ AnswerOf(u)' = AnswerOf(u)
    BY <1>1, OthersKeep DEF SeenOf, AnswerOf, Missed
  <1>3. /\ AbsSeen = [u \in Threads |-> SeenOf(u)] /\ AbsSeen' = [u \in Threads |-> SeenOf(u)']
        /\ AbsAnswer = [u \in Threads |-> AnswerOf(u)] /\ AbsAnswer' = [u \in Threads |-> AnswerOf(u)']
    BY DEF AbsSeen, AbsAnswer, SeenOf, AnswerOf
  <1>4. QED
    BY <1>2, <1>3

LEMMA MappedStutter ==
    ASSUME Inv, NEW t \in Threads, Step(t), SeenOf(t)' = SeenOf(t), AnswerOf(t)' = AnswerOf(t)
    PROVE  AbsSeen' = AbsSeen /\ AbsAnswer' = AbsAnswer
  <1>1. /\ AbsSeen = [u \in Threads |-> AbsSeen[u]]
        /\ AbsAnswer = [u \in Threads |-> AbsAnswer[u]]
    BY DEF AbsSeen, AbsAnswer
  <1>2. /\ AbsSeen' = [AbsSeen EXCEPT ![t] = AbsSeen[t]]
        /\ AbsAnswer' = [AbsAnswer EXCEPT ![t] = AbsAnswer[t]]
    BY Mapped, Seen
  <1>3. QED
    BY <1>1, <1>2

\* A call without an answer runs, and the end of one is an end of the other.
LEMMA EndMapped ==
    ASSUME Inv, NEW t \in Threads, Step(t), NEW a, End(t, a), AnswerOf(t) = NoAnswer
    PROVE  TM!Ends(t, a)
  <1>1. pc'[t] = "idle" /\ answer'[t] = a
    BY DEF Inv, TypeOK, Typed, End
  <1>2. SeenOf(t)' = Nothing /\ AnswerOf(t)' = a
    BY <1>1 DEF SeenOf, AnswerOf, Missed
  <1>3. QED
    BY <1>2, Mapped, Seen, SameData DEF TM!Ends, TM!Running, End

\* After a miss the contract has seen that nothing is there.
LEMMA MissSeen ==
    ASSUME Inv, NEW t \in Threads, MissOf(t), pc[t] \in {"evict", "compute", "resolve", "drop"}
    PROVE  /\ SeenOf(t) = Alive(looked[t], now) /\ AnswerOf(t) = NoAnswer
           /\ SeenOf(t) # Nothing /\ Values(SeenOf(t)) = Nothing
  <1>1. Missed(t) /\ answer[t] = NoAnswer
    BY DEF Missed, MissOf, Inv, TypeOK
  <1>2. DOMAIN Alive(looked[t], now) = DOMAIN looked[t]
    BY DEF Alive
  <1>3. DOMAIN looked[t] # {}
    BY CallForms DEF MissOf, Inv
  <1>4. \A k \in DOMAIN looked[t] : Alive(looked[t], now)[k] = Absent
    BY DEF MissOf, Gone, Alive
  <1>5. Values(Alive(looked[t], now)) = Nothing
    BY <1>2, <1>4, NoValues
  <1>6. DOMAIN Nothing = {}
    BY DEF Nothing
  <1>7. QED
    BY <1>1, <1>2, <1>3, <1>5, <1>6 DEF SeenOf, AnswerOf

\* Deleting from the store deletes from what is alive in it.
LEMMA DeleteMapped ==
    ASSUME Typed, NEW K, Delete(K), now' = now
    PROVE  Alive(store, now)' = [k \in Keys |-> IF k \in K THEN Absent ELSE Alive(store, now)[k]]
  <1>1. store' = [k \in Keys |-> IF k \in K THEN Absent ELSE store[k]] /\ DOMAIN store = Keys
    BY DEF Delete, Typed
  <1>2. QED
    BY <1>1, AliveDeleted

LEMMA BeginMapped ==
    ASSUME Inv, NEW t \in Threads, Begin(t)
    PROVE  TM!Invoke(t)
  <1>1. /\ pc \in [Threads -> Phases] /\ answer[t] # NoAnswer
        /\ DOMAIN call = Threads /\ DOMAIN answer = Threads /\ PhaseOf(t)
        /\ pc[t] = "idle" /\ looked' = looked /\ writes' = writes /\ store' = store /\ now' = now
    BY DEF Inv, TypeOK, Typed, Begin
  <1>2. PICK r \in Requests[t] : call' = [call EXCEPT ![t] = r] /\ pc' = [pc EXCEPT ![t] = Entry(r)]
    BY DEF Begin
  <1>3. SeenOf(t)' = Nothing /\ SeenOf(t) = Nothing /\ AnswerOf(t)' = NoAnswer
    <2>1. pc'[t] = Entry(r) /\ call'[t] = r /\ answer'[t] = NoAnswer
      BY <1>1, <1>2 DEF Begin, Inv, TypeOK
    <2>2. ~Missed(t)' /\ ~Missed(t) /\ pc'[t] # "judge" /\ pc'[t] # "evict"
      BY <1>1, <2>1 DEF Missed, Entry
    <2>3. QED
      BY <1>1, <2>1, <2>2 DEF SeenOf, AnswerOf
  <1>4. AnswerOf(t) # NoAnswer
    BY <1>1 DEF AnswerOf, Inv, TypeOK
  <1>5. AbsSeen' = AbsSeen
    <2>1. AbsSeen = [u \in Threads |-> AbsSeen[u]]
      BY DEF AbsSeen
    <2>2. AbsSeen' = [AbsSeen EXCEPT ![t] = AbsSeen[t]]
      BY <1>3, Mapped, Seen
    <2>3. QED
      BY <2>1, <2>2
  <1>6. AbsAnswer' = [AbsAnswer EXCEPT ![t] = NoAnswer] /\ AbsAnswer[t] # NoAnswer
    BY <1>3, <1>4, Mapped, Seen
  <1>7. QED
    BY <1>1, <1>2, <1>5, <1>6, SameData DEF TM!Invoke, TM!Running

-----------------------------------------------------------------------------
\* A lookup sees what is alive when it reads.
LEMMA LookMapped ==
    ASSUME Inv, NEW t \in Threads, Look(t)
    PROVE  TM!Look(t)
  <1>1. /\ TypeOK /\ Typed /\ PhaseOf(t) /\ pc[t] = "look" /\ looked[t] = Nothing /\ writes[t] = Nothing
        /\ call[t].op \in {"try_get_many", "get_or_compute"} /\ call[t].keys \subseteq Keys
        /\ answer[t] = NoAnswer /\ pc'[t] = "judge" /\ UNCHANGED <<store, now, call, answer, writes>>
        /\ looked'[t] = [k \in call[t].keys |-> store[k]]
    BY CallForms DEF Inv, Look, PhaseOf, TypeOK, Typed, GoTo
  <1>2. Step(t)
    BY DEF Step
  <1>3. SeenOf(t) = Nothing /\ AnswerOf(t) = NoAnswer /\ AnswerOf(t)' = AnswerOf(t)
    BY <1>1 DEF SeenOf, AnswerOf, Missed
  <1>4. Alive(looked'[t], now) = [k \in call[t].keys |-> Alive(store, now)[k]]
    BY <1>1 DEF Alive, Typed
  <1>5. SeenOf(t)' = [k \in call[t].keys |-> Alive(store, now)[k]]
    BY <1>1, <1>4 DEF SeenOf
  <1>6. AbsAnswer' = AbsAnswer
    <2>1. AbsAnswer = [u \in Threads |-> AbsAnswer[u]]
      BY DEF AbsAnswer
    <2>2. AbsAnswer' = [AbsAnswer EXCEPT ![t] = AbsAnswer[t]]
      BY <1>2, <1>3, Mapped, Seen
    <2>3. QED
      BY <2>1, <2>2
  <1>7. AbsSeen' = [AbsSeen EXCEPT ![t] = [k \in call[t].keys |-> Alive(store, now)[k]]]
    BY <1>2, <1>5, Mapped
  <1>8. QED
    BY <1>1, <1>3, <1>6, <1>7, Seen, SameData DEF TM!Look, TM!Looks, TM!Running

\* It answers when it judges, and a miss of get_or_compute goes on.
LEMMA JudgeMapped ==
    ASSUME Inv, NEW t \in Threads, Judge(t)
    PROVE  TM!Reply(t) \/ UNCHANGED TM!vars
  <1>1. /\ TypeOK /\ Typed /\ PhaseOf(t) /\ pc[t] = "judge" /\ DOMAIN looked[t] = call[t].keys
        /\ call[t].op \in {"try_get_many", "get_or_compute"} /\ answer[t] = NoAnswer
        /\ UNCHANGED <<store, now, call>> /\ Step(t) /\ writes[t] = Nothing
    BY StepKeeps DEF Inv, Judge, PhaseOf, TypeOK, Step
  <1>2. SeenOf(t) = Alive(looked[t], now) /\ AnswerOf(t) = NoAnswer
    BY <1>1 DEF SeenOf, AnswerOf
  <1>3. DOMAIN Alive(looked[t], now) = call[t].keys
    BY <1>1 DEF Alive
  <1>4. ASSUME TM!Ends(t, Hits(Found(t))), call[t].op = "get_or_compute" => Found(t) # Nothing
        PROVE  TM!Reply(t)
    <2>1. AbsSeen[t] = Alive(looked[t], now) /\ Values(AbsSeen[t]) = Found(t) /\ AbsAnswer[t] = NoAnswer
      BY <1>2, Seen DEF Found
    <2>2. QED
      BY <1>1, <1>3, <1>4, <2>1, SameData DEF TM!Reply, TM!Looks, TM!Running
  <1>5. CASE End(t, Hits(Found(t))) /\ (call[t].op = "get_or_compute" => Found(t) # Nothing)
    BY <1>1, <1>2, <1>4, <1>5, EndMapped
  <1>6. CASE GoTo(t, "compute") /\ UNCHANGED locals /\ call[t].op = "get_or_compute"
    <2>1. pc'[t] = "compute" /\ looked' = looked /\ writes' = writes /\ answer' = answer
      BY <1>1, <1>6 DEF GoTo, locals, TypeOK
    <2>2. SeenOf(t)' = SeenOf(t) /\ AnswerOf(t)' = AnswerOf(t)
      BY <1>1, <1>2, <1>6, <2>1 DEF SeenOf, AnswerOf, Missed
    <2>3. QED
      BY <1>1, <2>1, <2>2, MappedStutter DEF TM!vars
  <1>7. CASE /\ Expired(t) # {} /\ GoTo(t, "evict") /\ UNCHANGED writes
             /\ looked' = [looked EXCEPT ![t] = [k \in Expired(t) |-> looked[t][k]]]
             /\ values' = [values EXCEPT ![t] = Found(t)]
    <2>1. /\ pc'[t] = "evict" /\ answer' = answer /\ values'[t] = Found(t)
          /\ looked'[t] = [k \in Expired(t) |-> looked[t][k]]
      BY <1>1, <1>7 DEF GoTo, TypeOK, Typed
    <2>2. CASE call[t].op = "get_or_compute"
      <3>1. Expired(t) = DOMAIN looked[t]
        BY <1>1, <1>7, <2>2, CallForms DEF Expired
      <3>2. Alive(looked'[t], now) = Alive(looked[t], now)
        BY <2>1, <3>1 DEF Alive
      <3>3. SeenOf(t)' = SeenOf(t) /\ AnswerOf(t)' = AnswerOf(t)
        BY <1>1, <1>2, <2>1, <2>2, <3>2 DEF SeenOf, AnswerOf, Missed
      <3>4. QED
        BY <1>1, <1>7, <3>3, <2>1, MappedStutter DEF TM!vars
    <2>3. CASE call[t].op # "get_or_compute"
      <3>1. SeenOf(t)' = Nothing /\ AnswerOf(t)' = Hits(Found(t))
        BY <1>1, <2>1, <2>3 DEF SeenOf, AnswerOf, Missed
      <3>2. writes' = [writes EXCEPT ![t] = Nothing]
        BY <1>1, <1>7 DEF Typed
      <3>3. TM!Ends(t, Hits(Found(t)))
        BY <1>1, <1>2, <3>1, <3>2, Mapped, Seen, SameData DEF TM!Ends, TM!Running
      <3>4. QED
        BY <1>4, <2>3, <3>3
    <2>4. QED
      BY <2>2, <2>3
  <1>8. QED
    BY <1>5, <1>6, <1>7 DEF Judge

\* An eviction deletes what is dead already, or an entry of a key that several
\* threads use.
LEMMA EvictMapped ==
    ASSUME Inv, NEW t \in Threads, Evict(t)
    PROVE  TM!Forget
  <1>1. /\ TypeOK /\ Typed /\ PhaseOf(t) /\ KeptOf(t) /\ pc[t] = "evict" /\ answer[t] = NoAnswer
        /\ UNCHANGED <<now, call>> /\ Step(t) /\ writes[t] = Nothing
        /\ Delete(DOMAIN looked[t]) /\ store \in [Keys -> Slots]
    BY StepKeeps DEF Inv, Evict, PhaseOf, TypeOK, Step, Typed
  <1> DEFINE Lost == Shared \cap DOMAIN looked[t]
  <1>2. Alive(store, now)' = [k \in Keys |-> IF k \in Lost THEN Absent ELSE Alive(store, now)[k]]
    <2>1. Alive(store, now)' = [k \in Keys |-> IF k \in DOMAIN looked[t] THEN Absent ELSE Alive(store, now)[k]]
      BY <1>1, DeleteMapped
    <2>2. \A k \in Keys \cap (DOMAIN looked[t] \ Shared) : Alive(store, now)[k] = Absent
      BY <1>1 DEF PhaseOf, KeptOf, Alive
    <2>3. QED
      BY <2>1, <2>2
  <1>3. writes' = writes /\ SeenOf(t)' = SeenOf(t) /\ AnswerOf(t)' = AnswerOf(t)
    <2>1. CASE call[t].op = "get_or_compute"
      <3>1. pc'[t] = "compute" /\ UNCHANGED <<looked, values, writes, answer>>
        BY <1>1, <2>1 DEF Evict, GoTo, locals, TypeOK
      <3>2. QED
        BY <1>1, <2>1, <3>1 DEF SeenOf, AnswerOf, Missed
    <2>2. CASE call[t].op # "get_or_compute"
      <3>1. /\ pc'[t] = "idle" /\ answer'[t] = Hits(values[t])
            /\ writes' = [writes EXCEPT ![t] = Nothing]
        BY <1>1, <2>2 DEF Evict, End, TypeOK, Typed
      <3>2. writes' = writes
        BY <1>1, <3>1 DEF Typed
      <3>3. QED
        BY <1>1, <2>2, <3>1, <3>2 DEF SeenOf, AnswerOf, Missed
    <2>3. QED
      BY <2>1, <2>2
  <1>4. AbsSeen' = AbsSeen /\ AbsAnswer' = AbsAnswer
    BY <1>1, <1>3, MappedStutter
  <1>5. Lost \in SUBSET Shared
    OBVIOUS
  <1> HIDE DEF Lost
  <1>6. QED
    BY <1>1, <1>2, <1>3, <1>4, <1>5, SameData DEF TM!Forget

-----------------------------------------------------------------------------
\* The contract sees nothing of the function but its exception.
LEMMA ComputeMapped ==
    ASSUME Inv, NEW t \in Threads, Compute(t)
    PROVE  TM!Fail(t) \/ UNCHANGED TM!vars
  <1>1. /\ TypeOK /\ Typed /\ pc[t] = "compute" /\ MissOf(t) /\ call[t].op = "get_or_compute"
        /\ UNCHANGED <<store, now, call>> /\ Step(t)
    BY StepKeeps DEF Inv, Compute, PhaseOf, MissOf, Step
  <1>2. /\ SeenOf(t) # Nothing /\ Values(SeenOf(t)) = Nothing /\ AnswerOf(t) = NoAnswer
        /\ SeenOf(t) = Alive(looked[t], now)
    BY <1>1, MissSeen
  <1>3. CASE End(t, Raised)
    <2>1. TM!Ends(t, Raised)
      BY <1>1, <1>2, <1>3, EndMapped
    <2>2. AbsSeen[t] # Nothing /\ Values(AbsSeen[t]) = Nothing
      BY <1>2, Seen
    <2>3. QED
      BY <1>1, <2>1, <2>2, SameData DEF TM!Fail
  <1>4. CASE GoTo(t, "resolve") /\ UNCHANGED <<looked, writes>>
    <2>1. pc'[t] = "resolve" /\ UNCHANGED <<looked, writes, answer>>
      BY <1>1, <1>4 DEF GoTo, TypeOK
    <2>2. SeenOf(t)' = SeenOf(t) /\ AnswerOf(t)' = AnswerOf(t)
      BY <1>1, <2>1 DEF SeenOf, AnswerOf, Missed
    <2>3. QED
      BY <1>1, <2>1, <2>2, MappedStutter DEF TM!vars
  <1>5. QED
    BY <1>3, <1>4 DEF Compute

\* A write ends for nothing, fails, or starts the lifetime of its entries.
LEMMA ResolveMapped ==
    ASSUME Inv, NEW t \in Threads, Resolve(t)
    PROVE  TM!SetNothing(t) \/ TM!Fail(t) \/ TM!Stamp(t) \/ UNCHANGED TM!vars
  <1>1. /\ TypeOK /\ Typed /\ PhaseOf(t) /\ pc[t] = "resolve" /\ answer[t] = NoAnswer
        /\ UNCHANGED <<store, now, call>> /\ Step(t) /\ writes[t] = Nothing
        /\ values[t] \in Maps(Vals) /\ call[t].items \in Maps(Vals)
        /\ writes \in [Threads -> Maps(Entries)]
    BY StepKeeps, CallForms DEF Inv, Resolve, PhaseOf, TypeOK, Step, Typed
  <1>2. AnswerOf(t) = NoAnswer
    BY <1>1 DEF AnswerOf
  <1>3. \/ /\ call[t].op = "get_or_compute"
           /\ SeenOf(t) # Nothing /\ Values(SeenOf(t)) = Nothing
           /\ values[t] # Nothing
           /\ \E v \in Vals : values[t] = [k \in call[t].keys |-> v]
        \/ call[t].op = "set_many" /\ values[t] = call[t].items /\ SeenOf(t) = Nothing
    <2>1. CASE call[t].op = "get_or_compute"
      <3>1. MissOf(t) /\ \E v \in Vals : values[t] = [k \in call[t].keys |-> v]
        BY <1>1, <2>1 DEF PhaseOf
      <3>2. DOMAIN values[t] # {}
        BY <1>1, <2>1, <3>1, CallForms
      <3>3. QED
        BY <1>1, <2>1, <3>1, <3>2, MissSeen DEF Nothing
    <2>2. CASE call[t].op # "get_or_compute"
      BY <1>1, <2>2 DEF PhaseOf, SeenOf, Missed, MissOf
    <2>3. QED
      BY <2>1, <2>2
  <1>4. \A m \in Maps(Vals) : m = Nothing <=> DOMAIN m = {}
    BY NothingForms DEF Maps
  <1>5. AbsSeen[t] = SeenOf(t) /\ AbsAnswer[t] = NoAnswer
    BY <1>2, Seen
  <1>6. CASE values[t] = Nothing /\ End(t, Ok)
    <2>1. TM!Ends(t, Ok)
      BY <1>1, <1>2, <1>6, EndMapped
    <2>2. TM!SetNothing(t)
      BY <1>1, <1>3, <1>4, <1>6, <2>1, SameData DEF TM!SetNothing
    <2>3. QED
      BY <2>2
  <1>7. CASE values[t] # Nothing /\ Invalid(call[t]) /\ End(t, ValueError)
    <2>1. TM!Ends(t, ValueError)
      BY <1>1, <1>2, <1>7, EndMapped
    <2>2. TM!Fail(t)
      BY <1>1, <1>3, <1>4, <1>5, <1>7, <2>1, SameData DEF TM!Fail
    <2>3. QED
      BY <2>2
  <1>8. CASE GoTo(t, "drop") /\ UNCHANGED locals
    <2>1. pc'[t] = "drop" /\ UNCHANGED <<looked, writes, answer>>
      BY <1>1, <1>8 DEF GoTo, locals, TypeOK
    <2>2. SeenOf(t)' = SeenOf(t) /\ AnswerOf(t)' = AnswerOf(t)
      BY <1>1, <2>1 DEF SeenOf, AnswerOf, Missed
    <2>3. QED
      BY <1>1, <2>1, <2>2, MappedStutter DEF TM!vars
  <1>9. CASE /\ ~Invalid(call[t]) /\ Ttl(call[t]) # 0
             /\ writes' = [writes EXCEPT ![t] = Stamped(values[t], call[t], now)]
             /\ GoTo(t, "write")
    <2>1. pc'[t] = "write" /\ answer' = answer
      BY <1>1, <1>9 DEF GoTo, TypeOK
    <2>2. SeenOf(t)' = Nothing /\ AnswerOf(t)' = AnswerOf(t)
      BY <1>1, <2>1 DEF SeenOf, AnswerOf, Missed
    <2>3. AbsSeen' = [AbsSeen EXCEPT ![t] = Nothing]
      BY <1>1, <2>2, Mapped
    <2>4. AbsAnswer' = AbsAnswer
      <3>1. AbsAnswer = [u \in Threads |-> AbsAnswer[u]]
        BY DEF AbsAnswer
      <3>2. AbsAnswer' = [AbsAnswer EXCEPT ![t] = AbsAnswer[t]]
        BY <1>1, <2>2, Mapped, Seen
      <3>3. QED
        BY <3>1, <3>2
    <2>5. TM!Stamp(t)
      BY <1>1, <1>3, <1>5, <1>9, <2>3, <2>4, SameData DEF TM!Stamp, TM!Running
    <2>6. QED
      BY <2>5
  <1>10. QED
    BY <1>6, <1>7, <1>8, <1>9 DEF Resolve

\* A write lands, and answers with what it has stored.
LEMMA WriteMapped ==
    ASSUME Inv, NEW t \in Threads, Write(t)
    PROVE  TM!Write(t)
  <1>1. /\ TypeOK /\ Typed /\ PhaseOf(t) /\ pc[t] = "write" /\ answer[t] = NoAnswer
        /\ UNCHANGED <<now, call>> /\ Step(t) /\ End(t, Written(t))
        /\ store' = Overwritten(store, writes[t]) /\ store \in [Keys -> Slots] /\ now \in Int
        /\ call[t].op \in {"set_many", "get_or_compute"} /\ call[t] \in Request
    BY StepKeeps, CallForms DEF Inv, Write, PhaseOf, TypeOK, Step, Typed
  <1>2. PICK K \in SUBSET Keys : values[t] \in [K -> Vals]
    <2>1. values[t] \in Maps(Vals)
      BY <1>1 DEF Typed
    <2>2. QED
      BY <2>1 DEF Maps
  <1>3. PICK n \in Int : writes[t] = Stamped(values[t], call[t], n)
    BY <1>1 DEF PhaseOf
  <1>4. writes[t] \in [K -> Entries] /\ Values(writes[t]) = values[t]
    BY <1>1, <1>2, <1>3, StampedFacts
  <1>5. K # {}
    BY <1>1, <1>2, NothingForms DEF PhaseOf
  <1>6. writes[t] # Nothing
    BY <1>4, <1>5, NothingForms
  <1>7. Alive(store', now) = Alive(Overwritten(Alive(store, now), writes[t]), now)
    BY <1>1, AliveOverwritten
  <1>8. Written(t) = IF call[t].op = "set_many" THEN Ok ELSE Hits(Values(writes[t]))
    BY <1>1, <1>4 DEF Written
  <1>9. TM!Ends(t, Written(t))
    <2>1. AnswerOf(t) = NoAnswer
      BY <1>1 DEF AnswerOf
    <2>2. QED
      BY <1>1, <2>1, EndMapped
  <1>10. Alive(store, now)' = Alive(Overwritten(Alive(store, now), writes[t]), now)
    BY <1>1, <1>7
  <1>11. TM!Ends(t, IF call[t].op = "set_many" THEN Ok ELSE Hits(Values(writes[t])))
    BY <1>8, <1>9
  <1>12. QED
    BY <1>6, <1>10, <1>11, SameData DEF TM!Write

\* Deletions, and writes with a time-to-live of 0.
LEMMA DropMapped ==
    ASSUME Inv, NEW t \in Threads, Drop(t)
    PROVE  TM!Delete(t)
  <1> DEFINE Dropped == IF call[t].op = "clear" THEN Keys ELSE call[t].keys \cup DOMAIN values[t]
  <1>1. /\ TypeOK /\ Typed /\ PhaseOf(t) /\ pc[t] = "drop" /\ answer[t] = NoAnswer
        /\ UNCHANGED <<now, call>> /\ Step(t) /\ End(t, Written(t))
        /\ Delete(Dropped)
    BY StepKeeps DEF Inv, Drop, PhaseOf, TypeOK, Step
  <1>2. AnswerOf(t) = NoAnswer
    BY <1>1 DEF AnswerOf
  <1>3. TM!Ends(t, Written(t))
    BY <1>1, <1>2, EndMapped
  <1>4. Alive(store, now)' = [k \in Keys |-> IF k \in Dropped THEN Absent ELSE Alive(store, now)[k]]
    BY <1>1, DeleteMapped
  <1>5. DOMAIN Nothing = {}
    BY DEF Nothing
  <1> HIDE DEF Dropped
  <1>6. CASE call[t].op = "delete_many"
    <2>1. Dropped = call[t].keys /\ Written(t) = Ok
      BY <1>1, <1>5, <1>6, CallForms DEF Dropped, PhaseOf, MissOf, Written
    <2>2. QED
      BY <1>3, <1>4, <1>6, <2>1, SameData DEF TM!Delete
  <1>7. CASE call[t].op = "clear"
    <2>1. Dropped = Keys /\ Written(t) = Ok
      BY <1>7 DEF Dropped, Written
    <2>2. QED
      BY <1>3, <1>4, <1>7, <2>1, SameData DEF TM!Delete
  <1>8. CASE call[t].op = "set_many"
    <2>1. Dropped = DOMAIN call[t].items /\ Written(t) = Ok /\ Ttl(call[t]) = 0
      BY <1>1, <1>8, CallForms DEF Dropped, PhaseOf, MissOf, Written
    <2>2. QED
      BY <1>3, <1>4, <1>8, <2>1, SameData DEF TM!Delete
  <1>9. CASE call[t].op = "get_or_compute"
    <2>1. MissOf(t) /\ Ttl(call[t]) = 0
      BY <1>1, <1>9 DEF PhaseOf
    <2>2. PICK v \in Vals : values[t] = [k \in call[t].keys |-> v]
      BY <1>1, <1>9 DEF PhaseOf
    <2>3. Dropped = call[t].keys /\ Written(t) = Hits([k \in call[t].keys |-> v])
      BY <1>9, <2>2 DEF Dropped, Written
    <2>4. AbsSeen[t] # Nothing /\ Values(AbsSeen[t]) = Nothing
      BY <1>1, <2>1, MissSeen, Seen
    <2>5. TM!Ends(t, Hits([k \in call[t].keys |-> v]))
      BY <1>3, <2>3
    <2>6. Alive(store, now)' = [k \in Keys |-> IF k \in call[t].keys THEN Absent ELSE Alive(store, now)[k]]
      BY <1>4, <2>3
    <2>7. QED
      BY <1>9, <2>1, <2>4, <2>5, <2>6, SameData DEF TM!Delete
  <1>10. QED
    BY <1>1, <1>6, <1>7, <1>8, <1>9 DEF PhaseOf

\* When the clock ticks, what has expired goes, from the store and from what
\* the lookups have seen.
LEMMA TickMapped ==
    ASSUME Inv, Tick
    PROVE  TM!Tick
  <1>1. /\ Typed /\ now \in Int /\ now' = now + 1 /\ now < MaxNow /\ now <= now' /\ now' \in Int
        /\ UNCHANGED <<store, pc, call, answer, looked, values, writes>>
        /\ store \in [Keys -> Slots]
    BY DEF Inv, Typed, Tick, locals
  <1>2. Alive(store, now)' = Alive(Alive(store, now), now')
    BY <1>1, AliveTwice
  <1>3. ASSUME NEW t \in Threads
        PROVE  SeenOf(t)' = Alive(SeenOf(t), now')
    <2>1. looked[t] \in Maps(Slots)
      BY <1>1 DEF Typed
    <2>2. PICK K \in SUBSET Keys : looked[t] \in [K -> Slots]
      BY <2>1 DEF Maps
    <2>3. Alive(looked[t], now') = Alive(Alive(looked[t], now), now')
      BY <1>1, <2>2, AliveTwice
    <2>4. Alive(Nothing, now') = Nothing
      BY DEF Alive, Nothing
    <2>5. QED
      BY <1>1, <2>3, <2>4 DEF SeenOf, Missed
  <1>4. AbsSeen' = [t \in Threads |-> Alive(AbsSeen[t], now')]
    <2>1. AbsSeen' = [t \in Threads |-> SeenOf(t)']
      BY DEF AbsSeen, SeenOf
    <2>2. \A t \in Threads : AbsSeen[t] = SeenOf(t)
      BY Seen
    <2>3. QED
      BY <1>3, <2>1, <2>2
  <1>5. AbsAnswer' = AbsAnswer
    BY <1>1 DEF AbsAnswer, Missed
  <1>6. QED
    BY <1>1, <1>2, <1>4, <1>5, SameData DEF TM!Tick

-----------------------------------------------------------------------------
\* The initial states are initial states of the contract, and every step is a
\* step of it or leaves it alone.
LEMMA InitMapped == Init => TM!Init
  <1> SUFFICES ASSUME Init
               PROVE  TM!Init
    OBVIOUS
  <1>1. Alive(store, now) = [k \in Keys |-> Absent]
    BY DEF Init, Alive, Dead
  <1>2. AbsSeen = [t \in Threads |-> Nothing] /\ AbsAnswer = [t \in Threads |-> Ok]
    BY DEF Init, AbsSeen, AbsAnswer, Missed
  <1>3. QED
    BY <1>1, <1>2, SameData DEF Init, TM!Init

LEMMA NextMapped ==
    ASSUME Inv, [Next]_vars
    PROVE  [TM!Next]_TM!vars
  <1>1. CASE UNCHANGED vars
    <2>1. UNCHANGED <<store, now, pc, call, answer, looked, values, writes>>
      BY <1>1 DEF vars, locals
    <2>2. AbsSeen' = AbsSeen /\ AbsAnswer' = AbsAnswer
      BY <2>1 DEF AbsSeen, AbsAnswer, Missed
    <2>3. QED
      BY <2>1, <2>2 DEF TM!vars
  <1>2. CASE Tick
    BY <1>2, TickMapped DEF TM!Next
  <1>3. ASSUME NEW t \in Threads, Begin(t)
        PROVE  TM!Next
    BY <1>3, BeginMapped DEF TM!Next
  <1>4. ASSUME NEW t \in Threads, Step(t)
        PROVE  TM!Next \/ UNCHANGED TM!vars
    <2>1. \/ TM!Forget \/ TM!Look(t) \/ TM!Reply(t) \/ TM!Fail(t) \/ TM!SetNothing(t)
          \/ TM!Stamp(t) \/ TM!Write(t) \/ TM!Delete(t) \/ UNCHANGED TM!vars
      BY <1>4, LookMapped, JudgeMapped, EvictMapped, ComputeMapped, ResolveMapped, WriteMapped,
         DropMapped DEF Step
    <2>2. QED
      BY <2>1 DEF TM!Next
  <1>5. QED
    BY <1>1, <1>2, <1>3, <1>4 DEF Next

\* However threads and the clock come between its store calls, a cache behaves
\* as a map whose entries disappear at their time: no lookup answers with what
\* was overwritten, deleted or expired before it looked, and a key that only one
\* thread uses loses nothing early.
THEOREM ImplementsContract == Spec => Contract
  <1>1. Init => TM!Init
    BY InitMapped
  <1>2. Inv /\ [Next]_vars => [TM!Next]_TM!vars
    BY NextMapped
  <1>3. QED
    BY <1>1, <1>2, InvHolds, PTL DEF Spec, Contract, TM!Spec
=============================================================================
