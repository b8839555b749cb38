------------------------ MODULE LazyConnection_proofs ------------------------
(***************************************************************************)
(* Theorems about LazyConnection for every set of users and deployments,   *)
(* and any bound on the connections.                                       *)
(*                                                                         *)
(* The argument: users in a call know of each other what they do (PairOf), *)
(* so as long as no two opens and no two closes have overlapped, one call  *)
(* at most moves each connection, and what it has done of its way is in    *)
(* its phase (ConnOf).  _aconn is set by the holder of _aconn_lock only,   *)
(* and only when it is None (LockOf), so that no connection is             *)
(* overwritten while it is open.                                           *)
(***************************************************************************)
EXTENDS LazyConnection, TLAPS

(* What the phase of a user says of its call.  The users in a call have     *)
(* met each other.                                                         *)
PhaseOf(t) ==
    /\ pc[t] \in {"connect", "create", "flag"} => op[t] = "open"
    /\ pc[t] = "create" => site.backend # "redis"
    /\ pc[t] \in {"close", "closing", "closed"} => op[t] = "close" /\ ~Task(t)
    /\ pc[t] = "aclosing" => op[t] = "aclose"
    /\ pc[t] \in {"alock", "aconnect", "acreate"} => op[t] = "use" /\ Task(t)
    /\ pc[t] = "use" => op[t] = "use"
    /\ Busy(t) => op[t] # "none"

PairOf(t, u) ==
    Busy(t) /\ Busy(u) =>
        /\ Task(t) <=> Task(u)
        /\ Kind(op[u]) \in met[t]
        /\ Kind(op[u]) = Kind(op[t]) => op[t] = "use" \/ raced

(* The lock is held by the task that connects, and only it sets _aconn.    *)
LockOf(t) ==
    /\ alock = t <=> pc[t] \in {"aconnect", "acreate"}
    /\ pc[t] \in {"aconnect", "close", "closing", "closed"} => aconn = NoConn

(* A call that was let in finds the store open, unless a close met it.     *)
AdmittedOf(t) ==
    pc[t] \in {"alock", "aconnect", "acreate", "use"} /\ closed => "close" \in met[t]

UserInv ==
    /\ DOMAIN answer = Users
    /\ \A t \in Users : PhaseOf(t) /\ LockOf(t) /\ AdmittedOf(t)
    /\ \A t, u \in Users : t # u => PairOf(t, u)
    /\ conn = aconn => conn = NoConn

(* open() has made the connection and not yet said so.                     *)
Opening(t) == pc[t] = "flag" \/ (pc[t] = "create" /\ site.backend # "duckdb")

ClosingPhases == {"close", "closing", "closed", "aclosing"}

(* Where the connections of the store stand while nothing has raced.       *)
ConnOf(t) ==
    /\ pc[t] = "connect" => closed
    /\ Opening(t) => closed /\ conn \in live
    /\ pc[t] = "closing" => ~closed
    /\ pc[t] = "closed" => ~closed /\ conn # NoConn
    /\ pc[t] = "aclosing" => aconn # NoConn

OpenConn ==
    /\ ~closed /\ (\A u \in Users : pc[u] # "closed") => conn \in live
    /\ aconn # NoConn /\ (\A u \in Users : pc[u] # "aclosing") => aconn \in live

(* The table, on the connection of the store.                              *)
HasTable ==
    CASE site.backend = "memory" -> conn \in tabled
      [] site.backend \in {"sqlite", "postgres"} -> tabled = 1..MaxConns
      [] site.backend = "redis" -> TRUE
      [] site.backend = "duckdb" ->
            tabled = 1..MaxConns \/ mishap \/ \E u \in Users : pc[u] = "create"

TableInv ==
    (~closed \/ \E u \in Users : pc[u] = "flag" /\ site.backend # "duckdb") => HasTable

(* _aschema_ready says that the async one has it.                          *)
ReadyInv ==
    Sqlite /\ aready /\ ~closed /\ (\A u \in Users : pc[u] \notin ClosingPhases) =>
        aconn \in tabled

(* The connection a task was given is the store's, and has the table.      *)
GivenOf(t) ==
    pc[t] = "use" /\ Task(t) /\ "close" \notin met[t] =>
        /\ got[t] = aconn /\ aconn \in live
        /\ site.backend = "redis" \/ aconn \in tabled

UnracedInv ==
    /\ \A t \in Users : ConnOf(t) /\ GivenOf(t)
    /\ OpenConn /\ TableInv /\ ReadyInv

StrayInv ==
    /\ live \subseteq {conn, aconn}
    /\ closed /\ (\A u \in Users : ~Opening(u)) => conn \notin live
    /\ \A t \in Users : pc[t] = "closed" => conn \notin live
    /\ \A t \in Users : pc[t] = "aclosing" => aconn \notin live

Inv ==
    /\ TypeOK /\ UserInv
    /\ ~raced => UnracedInv
    /\ ~Strayed => StrayInv

-----------------------------------------------------------------------------
(* What a task does with _aconn_lock in hand: it waits for the database, or *)
(* is given the connection there is, or one that needs no waiting.         *)
Awaits(t, phase) == GoTo(t, phase) /\ alock' = t /\ UNCHANGED <<aconn, database, got>>

NewConn == \E c \in 1..MaxConns : Connected(c) /\ aconn' = c

LEMMA InsideForms ==
    ASSUME TypeOK, NEW t \in Users, Task(t), Inside(t)
    PROVE  /\ UNCHANGED <<closed, conn, aready, mishap>>
           /\ \/ aconn = NoConn /\ site.backend # "redis" /\ Awaits(t, "aconnect")
              \/ aconn # NoConn /\ Sqlite /\ ~aready /\ Awaits(t, "acreate")
              \/ /\ aconn # NoConn /\ (Sqlite => aready)
                 /\ Given(t) /\ UNCHANGED <<aconn, database>>
              \/ aconn = NoConn /\ site.backend = "redis" /\ NewConn /\ Given(t)
  <1>1. site.backend \in Backends /\ site.backend # "duckdb"
    BY SitesAssumption DEF TypeOK, Task
  <1>2. CASE Sqlite
    BY <1>2 DEF Inside, SQLiteInside, Awaits, Sqlite
  <1>3. CASE site.backend = "postgres"
    BY <1>3 DEF Inside, PostgresInside, Awaits, Sqlite
  <1>4. CASE site.backend = "redis"
    BY <1>4 DEF Inside, RedisInside, NewConn, Sqlite
  <1>5. QED
    BY <1>1, <1>2, <1>3, <1>4 DEF Backends, Sqlite

\* A step of a call is the user's own.
LEMMA OthersKeep ==
    ASSUME TypeOK, UserInv, NEW t \in Users, Step(t), NEW u \in Users \ {t}
    PROVE  /\ pc'[u] = pc[u] /\ op'[u] = op[u] /\ answer'[u] = answer[u]
           /\ got'[u] = got[u] /\ met'[u] = met[u]
  <1> USE DEF TypeOK, UserInv, End, GoTo
  <1>1. CASE SyncStep(t)
    BY <1>1 DEF SyncStep, OpenTest, OpenConnect, ConnectFails, OpenCreate, SQLiteCreateFails,
       CreateFails, SQLiteOpened, Opened, DuckOpened, CloseAsync, CloseTest, CloseConn, CloseFlag,
       CloseInLoop, ACloseConn, ACloseRest, Release, UseTest, Use, UseConn
  <1>2. CASE Inside(t) /\ Task(t)
    BY <1>2, InsideForms DEF Awaits, Given
  <1>3. CASE Ensure(t) \/ Enter(t)
    BY <1>2, <1>3 DEF Ensure, Enter, PhaseOf
  <1>4. CASE AConnect(t) \/ ACreate(t) \/ EnsureFails(t) \/ AUse(t)
    BY <1>4 DEF AConnect, ACreate, EnsureFails, AUse, UseConn, Given
  <1>5. QED
    BY <1>1, <1>3, <1>4 DEF Step, AsyncStep

\* Making a connection, and a table, keeps the database in its bounds; a new
\* connection is nobody's.
LEMMA ConnectedFacts ==
    ASSUME TypeOK, NEW c \in 1..MaxConns, Connected(c)
    PROVE  /\ live' = live \cup {c} /\ live' \subseteq 1..MaxConns
           /\ tabled' \subseteq 1..MaxConns
           /\ \A i \in 1..MaxConns : i # c => (i \in tabled' <=> i \in tabled)
           /\ site.backend # "memory" => tabled' = tabled
           /\ c # conn /\ c # aconn /\ c \notin live /\ c # NoConn /\ c \in 0..MaxConns
           /\ \A u \in Users : c # got[u]
  <1>1. /\ live' = live \cup {c} /\ live \subseteq 1..MaxConns
        /\ tabled' = IF site.backend = "memory" THEN tabled \ {c} ELSE tabled
        /\ tabled \subseteq 1..MaxConns
    BY DEF TypeOK, Connected
  <1>2. c # conn /\ c # aconn /\ c \notin live /\ \A u \in Users : c # got[u]
    BY Zenon DEF Connected
  <1>3. c # NoConn /\ c \in 0..MaxConns
    BY MaxConnsAssumption DEF NoConn
  <1>4. QED
    BY <1>1, <1>2, <1>3

LEMMA CreateFacts ==
    ASSUME TypeOK, NEW c, Create(c)
    PROVE  /\ c \in live /\ c \in tabled' /\ tabled \subseteq tabled'
           /\ tabled' \subseteq 1..MaxConns
           /\ site.backend # "memory" => tabled' = 1..MaxConns
  BY DEF TypeOK, Create

(* The types of the calls, and those of the rest.                           *)
CallsTyped ==
    /\ pc \in [Users -> Phases]
    /\ op \in [Users -> {"none", "open", "use", "close", "aclose"}]
    /\ met \in [Users -> SUBSET {"open", "use", "close"}]
    /\ \A t \in Users : answer[t] = "none" <=> Busy(t)
    /\ DOMAIN answer = Users

StoreTyped ==
    /\ site \in Sites
    /\ closed \in BOOLEAN /\ aready \in BOOLEAN
    /\ {conn, aconn} \subseteq 0..MaxConns
    /\ live \subseteq 1..MaxConns /\ tabled \subseteq 1..MaxConns
    /\ alock \in Users \cup {Nobody}
    /\ got \in [Users -> 0..MaxConns]

LEMMA Typed == TypeOK /\ DOMAIN answer = Users <=> StoreTyped /\ CallsTyped
  BY DEF TypeOK, StoreTyped, CallsTyped

LEMMA EndTyped ==
    ASSUME CallsTyped, NEW t \in Users, NEW a, a # "none", End(t, a)
    PROVE  CallsTyped'
  BY DEF CallsTyped, End, Busy, Phases

LEMMA GoToTyped ==
    ASSUME CallsTyped, NEW t \in Users, Busy(t), NEW phase \in Phases \ {"idle"}, GoTo(t, phase)
    PROVE  CallsTyped'
  BY DEF CallsTyped, GoTo, Busy, Phases

\* A use ends the call, and changes the connections only where it makes a
\* closed Redis client connect again.
LEMMA UseForms ==
    ASSUME StoreTyped, NEW t \in Users, NEW c \in 0..MaxConns, UseConn(t, c)
    PROVE  /\ \E a \in {"ok", "broken"} : End(t, a)
           /\ UNCHANGED <<store, tabled>> /\ (mishap => mishap')
           /\ live \subseteq live' /\ live' \subseteq 1..MaxConns
           /\ live' = live \/ (site.backend = "redis" /\ mishap')
  <1>1. /\ live' = live \/ (live' = live \cup {c} /\ c # NoConn /\ site.backend = "redis" /\ mishap')
        /\ mishap => mishap'
        /\ UNCHANGED <<store, tabled>>
    BY DEF UseConn, Revives
  <1>2. c # NoConn => c \in 1..MaxConns
    BY MaxConnsAssumption DEF NoConn
  <1>3. \E a \in {"ok", "broken"} : End(t, a)
    BY DEF UseConn
  <1>4. QED
    BY <1>1, <1>2, <1>3 DEF StoreTyped

LEMMA TypeCorrect ==
    ASSUME TypeOK, UserInv, [Next]_vars
    PROVE  TypeOK' /\ DOMAIN answer' = Users
  <1> USE DEF UserInv, Busy, store, database
  <1>1. CASE UNCHANGED vars
    BY <1>1 DEF TypeOK, vars, progress
  <1>2. ASSUME NEW t \in Users, Begin(t)
        PROVE  TypeOK' /\ DOMAIN answer' = Users
    <2>1. PICK c \in site.calls[t] :
            /\ op' = [op EXCEPT ![t] = c]
            /\ met' = [u \in Users |->
                 CASE u = t   -> {Kind(op[v]) : v \in {w \in Users : Busy(w)}}
                   [] Busy(u) -> met[u] \cup {Kind(c)}
                   [] OTHER   -> met[u]]
      BY <1>2 DEF Begin
    <2>2. c \in {"open", "use", "close", "aclose"}
      BY SitesAssumption DEF TypeOK
    <2>3. op' \in [Users -> {"none", "open", "use", "close", "aclose"}]
      BY <2>1, <2>2 DEF TypeOK
    <2>4. \A v \in Users : Busy(v) => Kind(op[v]) \in {"open", "use", "close"}
      BY DEF TypeOK, PhaseOf, Kind
    <2>5. met' \in [Users -> SUBSET {"open", "use", "close"}]
      BY <2>1, <2>2, <2>4 DEF TypeOK, Kind
    <2>6. \A u \in Users : answer'[u] = "none" <=> pc'[u] # "idle"
      BY <1>2 DEF Begin, TypeOK
    <2>7. QED
      BY <1>2, <2>3, <2>5, <2>6 DEF Begin, TypeOK, Phases
  <1>3. ASSUME NEW t \in Users, Step(t), CallsTyped', StoreTyped'
        PROVE  TypeOK' /\ DOMAIN answer' = Users
    BY <1>3 DEF TypeOK, StoreTyped, CallsTyped
  <1>4. ASSUME NEW t \in Users, Step(t)
        PROVE  CallsTyped'
    <2> USE Typed, EndTyped, GoToTyped
    <2> USE DEF Phases
    <2>1. CASE OpenTest(t) \/ CloseTest(t) \/ UseTest(t)
      BY <1>4, <2>1 DEF OpenTest, CloseTest, UseTest, At
    <2>8. CASE Use(t) \/ AUse(t)
      <3>1. \E a \in {"ok", "broken"} : End(t, a)
        BY <2>8, UseForms DEF Use, AUse, StoreTyped
      <3>2. QED
        BY <2>8, <3>1 DEF Use, AUse
    <2>2. CASE \/ OpenConnect(t) \/ ConnectFails(t) \/ OpenCreate(t) \/ SQLiteCreateFails(t)
               \/ CreateFails(t) \/ SQLiteOpened(t) \/ Opened(t) \/ DuckOpened(t)
      BY <1>4, <2>2 DEF OpenConnect, ConnectFails, OpenCreate, SQLiteCreateFails, CreateFails,
         SQLiteOpened, Opened, DuckOpened
    <2>3. CASE \/ CloseAsync(t) \/ CloseConn(t) \/ CloseFlag(t) \/ CloseInLoop(t)
               \/ ACloseConn(t) \/ ACloseRest(t)
      BY <1>4, <2>3 DEF CloseAsync, CloseConn, CloseFlag, CloseInLoop, ACloseConn, ACloseRest,
         Release, At
    <2>4. CASE (Ensure(t) \/ Enter(t)) /\ Task(t) /\ Inside(t)
      BY <1>4, <2>4, InsideForms DEF Ensure, Enter, At, Awaits, Given
    <2>5. CASE Ensure(t) /\ ~Inside(t)
      BY <1>4, <2>5 DEF Ensure, At
    <2>6. CASE AConnect(t) \/ ACreate(t) \/ EnsureFails(t)
      BY <1>4, <2>6 DEF AConnect, ACreate, EnsureFails, Given
    <2>7. QED
      BY <1>4, <2>1, <2>2, <2>3, <2>4, <2>5, <2>6, <2>8
         DEF Step, SyncStep, AsyncStep, Ensure, Enter, PhaseOf
  <1>5. ASSUME NEW t \in Users, Step(t)
        PROVE  StoreTyped'
    <2> USE Typed, <1>5 DEF Step
    <2>1. NoConn \in 0..MaxConns
      BY MaxConnsAssumption DEF NoConn
    <2>2. CASE SyncStep(t)
      <3>1. got' = got
        BY <2>2 DEF SyncStep
      <3>2. CASE \/ OpenTest(t) \/ ConnectFails(t) \/ CreateFails(t) \/ CloseTest(t)
                 \/ UseTest(t)
        BY <3>1, <3>2 DEF OpenTest, ConnectFails, CreateFails, CloseTest, UseTest, StoreTyped
      <3>9. CASE Use(t)
        BY <3>1, <3>9, UseForms DEF Use, StoreTyped
      <3>3. CASE OpenConnect(t)
        BY <3>1, <3>3, ConnectedFacts DEF OpenConnect, StoreTyped
      <3>4. CASE OpenCreate(t)
        BY <3>1, <3>4, CreateFacts DEF OpenCreate, StoreTyped
      <3>5. CASE SQLiteCreateFails(t) \/ SQLiteOpened(t) \/ Opened(t) \/ DuckOpened(t)
        BY <2>1, <3>1, <3>5 DEF SQLiteCreateFails, SQLiteOpened, Opened, DuckOpened, StoreTyped
      <3>6. CASE CloseAsync(t) \/ CloseConn(t) \/ CloseFlag(t) \/ ACloseConn(t)
        BY <2>1, <3>1, <3>6 DEF CloseAsync, CloseConn, CloseFlag, ACloseConn, StoreTyped
      <3>7. CASE CloseInLoop(t) \/ ACloseRest(t)
        BY <2>1, <3>1, <3>7 DEF CloseInLoop, ACloseRest, Release, StoreTyped
      <3>8. QED
        BY <2>2, <3>2, <3>3, <3>4, <3>5, <3>6, <3>7, <3>9 DEF SyncStep
    <2>3. CASE Inside(t) /\ Task(t)
      <3>1. CASE NewConn
        <4>1. PICK c \in 1..MaxConns : Connected(c) /\ aconn' = c
          BY <3>1 DEF NewConn
        <4>2. live' \subseteq 1..MaxConns /\ tabled' \subseteq 1..MaxConns /\ c \in 0..MaxConns
          BY <4>1, ConnectedFacts
        <4>3. UNCHANGED <<closed, conn, aready>> /\ (Given(t) \/ Awaits(t, "aconnect") \/ Awaits(t, "acreate"))
          BY <2>3, InsideForms
        <4>4. QED
          BY <4>1, <4>2, <4>3 DEF Awaits, Given, StoreTyped
      <3>2. CASE ~NewConn
        BY <2>3, <3>2, InsideForms DEF Awaits, Given, StoreTyped
      <3>3. QED
        BY <3>1, <3>2
    <2>4. CASE Ensure(t) /\ ~Inside(t)
      BY <2>4 DEF Ensure, StoreTyped
    <2>5. CASE AConnect(t)
      BY <2>5, ConnectedFacts DEF AConnect, Given, StoreTyped
    <2>6. CASE ACreate(t)
      BY <2>6, CreateFacts DEF ACreate, Given, StoreTyped
    <2>7. CASE EnsureFails(t)
      BY <2>7 DEF EnsureFails, StoreTyped
    <2>9. CASE AUse(t)
      <3>1. got[t] \in 0..MaxConns /\ UseConn(t, got[t]) /\ got' = [got EXCEPT ![t] = NoConn]
        BY <2>9 DEF AUse, StoreTyped
      <3>2. QED
        BY <2>1, <3>1, UseForms DEF StoreTyped
    <2>8. QED
      BY <2>2, <2>3, <2>4, <2>5, <2>6, <2>7, <2>9 DEF AsyncStep, Ensure, Enter, PhaseOf
  <1>6. QED
    BY <1>1, <1>2, <1>3, <1>4, <1>5 DEF Next

-----------------------------------------------------------------------------
\* A user that takes a step goes on with its call or ends it.
LEMMA OwnStep ==
    ASSUME TypeOK, UserInv, NEW t \in Users, Step(t)
    PROVE  /\ Busy(t) /\ site' = site /\ raced' = raced
           /\ PhaseOf(t)'
           /\ ~Busy(t)' \/ (op'[t] = op[t] /\ met'[t] = met[t])
  <1> USE DEF Busy, End, GoTo
  <1>1. /\ pc \in [Users -> Phases] /\ op \in [Users -> {"none", "open", "use", "close", "aclose"}]
        /\ DOMAIN met = Users /\ PhaseOf(t)
    BY DEF TypeOK, UserInv
  <1>2. site' = site /\ raced' = raced
    BY DEF Step
  <1>3. CASE pc' = [pc EXCEPT ![t] = "idle"]
    <2>1. pc[t] # "idle"
      BY <1>1 DEF Step, SyncStep, AsyncStep, OpenTest, OpenConnect, ConnectFails, OpenCreate,
         SQLiteCreateFails, CreateFails, SQLiteOpened, Opened, DuckOpened, CloseAsync, CloseTest,
         CloseConn, CloseFlag, CloseInLoop, ACloseConn, ACloseRest, UseTest, Use, Ensure, Enter,
         AConnect, ACreate, EnsureFails, AUse, At
    <2>2. QED
      BY <1>1, <1>2, <1>3, <2>1 DEF PhaseOf
  <1>4. ASSUME NEW phase, GoTo(t, phase)
        PROVE  pc'[t] = phase /\ op'[t] = op[t] /\ met'[t] = met[t]
    BY <1>1, <1>4
  <1>5. CASE OpenTest(t) \/ CloseTest(t) \/ UseTest(t)
    BY <1>1, <1>2, <1>3, <1>4, <1>5 DEF OpenTest, CloseTest, UseTest, At, PhaseOf, Task
  <1>6. CASE OpenConnect(t) \/ OpenCreate(t) \/ DuckOpened(t)
    BY <1>1, <1>2, <1>3, <1>4, <1>6 DEF OpenConnect, OpenCreate, DuckOpened, PhaseOf
  <1>7. CASE CloseAsync(t) \/ CloseConn(t) \/ ACloseConn(t)
    BY <1>1, <1>2, <1>3, <1>4, <1>7 DEF CloseAsync, CloseConn, ACloseConn, At, PhaseOf, Task
  <1>8. CASE \/ ConnectFails(t) \/ SQLiteCreateFails(t) \/ CreateFails(t) \/ SQLiteOpened(t)
             \/ Opened(t) \/ CloseFlag(t) \/ CloseInLoop(t) \/ ACloseRest(t) \/ Use(t)
             \/ EnsureFails(t) \/ AUse(t) \/ (Ensure(t) /\ ~Inside(t) /\ closed)
    BY <1>3, <1>8 DEF ConnectFails, SQLiteCreateFails, CreateFails, SQLiteOpened, Opened, CloseFlag,
       CloseInLoop, ACloseRest, Release, Use, EnsureFails, AUse, UseConn, Ensure
  <1>9. CASE (Ensure(t) \/ Enter(t)) /\ Inside(t)
    <2>1. Task(t) /\ pc[t] \in {"start", "alock"} /\ op[t] = "use"
      BY <1>1, <1>9 DEF Ensure, Enter, At, PhaseOf
    <2>2. GoTo(t, "aconnect") \/ GoTo(t, "acreate") \/ GoTo(t, "use")
      BY <1>9, <2>1, InsideForms DEF Awaits, Given
    <2>3. QED
      BY <1>1, <1>2, <1>4, <2>1, <2>2 DEF PhaseOf, Task
  <1>10. CASE Ensure(t) /\ ~Inside(t) /\ ~closed
    BY <1>1, <1>2, <1>4, <1>10 DEF Ensure, At, PhaseOf, Task
  <1>11. CASE AConnect(t) \/ ACreate(t)
    <2>1. GoTo(t, "acreate") \/ GoTo(t, "use")
      BY <1>11 DEF AConnect, ACreate, Given
    <2>2. QED
      BY <1>1, <1>2, <1>4, <1>11, <2>1 DEF AConnect, ACreate, PhaseOf, Task
  <1>12. QED
    BY <1>5, <1>6, <1>7, <1>8, <1>9, <1>10, <1>11 DEF Step, SyncStep, AsyncStep, Ensure, Enter

\* Who changes _aconn and its lock, and to what.
LEMMA LockStep ==
    ASSUME TypeOK, UserInv, NEW t \in Users, Step(t)
    PROVE  /\ LockOf(t)'
           /\ alock' = alock \/ {alock, alock'} = {t, Nobody}
           /\ aconn' \in {aconn, NoConn} \/ (Task(t) /\ alock \in {t, Nobody})
           /\ (conn = aconn => conn = NoConn)'
  <1> USE DEF Busy, End, GoTo, store
  <1>1. /\ pc \in [Users -> Phases] /\ PhaseOf(t) /\ LockOf(t) /\ PhaseOf(t)'
        /\ conn = aconn => conn = NoConn
    BY OwnStep DEF TypeOK, UserInv
  <1>2. CASE SyncStep(t)
    <2>1. CASE OpenConnect(t)
      <3>1. conn' # aconn /\ UNCHANGED <<aconn, alock>>
        BY <2>1, ConnectedFacts DEF OpenConnect
      <3>2. QED
        BY <1>1, <2>1, <3>1 DEF OpenConnect, LockOf
    <2>2. CASE SQLiteCreateFails(t)
      BY <1>1, <2>2 DEF SQLiteCreateFails, LockOf
    <2>3. CASE CloseAsync(t) \/ ACloseRest(t)
      BY <1>1, <2>3 DEF CloseAsync, ACloseRest, Release, LockOf, At
    <2>4. CASE \/ OpenTest(t) \/ ConnectFails(t) \/ OpenCreate(t) \/ CreateFails(t)
               \/ SQLiteOpened(t) \/ Opened(t) \/ DuckOpened(t)
      BY <1>1, <2>4 DEF OpenTest, ConnectFails, OpenCreate, CreateFails, SQLiteOpened, Opened,
         DuckOpened, LockOf, At
    <2>5. CASE \/ CloseTest(t) \/ CloseConn(t) \/ CloseFlag(t) \/ CloseInLoop(t)
               \/ ACloseConn(t) \/ UseTest(t) \/ Use(t)
      BY <1>1, <2>5 DEF CloseTest, CloseConn, CloseFlag, CloseInLoop, ACloseConn, UseTest, Use,
         UseConn, Release, LockOf, At
    <2>6. QED
      BY <1>2, <2>1, <2>2, <2>3, <2>4, <2>5 DEF SyncStep
  <1>3. CASE (Ensure(t) \/ Enter(t)) /\ Inside(t) /\ alock = Nobody
    <2>1. Task(t) /\ alock = Nobody
      BY <1>1, <1>3 DEF Ensure, Enter, PhaseOf
    <2>2. CASE NewConn /\ Given(t)
      <3>1. aconn' # conn /\ UNCHANGED conn
        BY <1>3, <2>1, <2>2, ConnectedFacts, InsideForms DEF NewConn
      <3>2. QED
        BY <1>1, <2>1, <2>2, <3>1, NobodyAssumption DEF Given, LockOf
    <2>3. CASE ~(NewConn /\ Given(t))
      BY <1>1, <1>3, <2>1, <2>3, InsideForms, NobodyAssumption DEF Given, Awaits, LockOf
    <2>4. QED
      BY <2>2, <2>3
  <1>4. CASE Ensure(t) /\ ~(Inside(t) /\ alock = Nobody)
    BY <1>1, <1>4 DEF Ensure, LockOf, At
  <1>5. CASE AConnect(t)
    <2>1. aconn' # conn /\ UNCHANGED conn /\ Task(t) /\ alock = t
      BY <1>1, <1>5, ConnectedFacts DEF AConnect, PhaseOf, LockOf
    <2>2. QED
      BY <1>1, <1>5, <2>1, NobodyAssumption DEF AConnect, Given, LockOf
  <1>6. CASE ACreate(t) \/ EnsureFails(t) \/ AUse(t)
    BY <1>1, <1>6, NobodyAssumption DEF ACreate, EnsureFails, AUse, UseConn, Given, LockOf
  <1>7. QED
    BY <1>2, <1>3, <1>4, <1>5, <1>6 DEF Step, AsyncStep, Ensure, Enter

\* Who says that the store is closed, and who is let in.
LEMMA AdmittedStep ==
    ASSUME TypeOK, UserInv, NEW t \in Users, Step(t)
    PROVE  /\ closed' /\ ~closed => Kind(op[t]) = "close" /\ ~Busy(t)'
           /\ closed /\ ~closed' => pc[t] = "flag"
           /\ AdmittedOf(t)'
  <1> USE DEF Busy, End, GoTo, store
  <1>1. /\ pc \in [Users -> Phases] /\ DOMAIN met = Users /\ PhaseOf(t) /\ AdmittedOf(t)
        /\ ~Busy(t)' \/ met'[t] = met[t]
    BY OwnStep DEF TypeOK, UserInv
  <1>2. CASE SyncStep(t)
    <2>1. CASE CloseFlag(t) \/ CloseInLoop(t) \/ ACloseRest(t)
      <3>1. Kind(op[t]) = "close" /\ pc[t] # "idle"
        BY <1>1, <2>1 DEF CloseFlag, CloseInLoop, ACloseRest, PhaseOf, Kind, At, Phases
      <3>2. pc'[t] = "idle"
        BY <1>1, <2>1 DEF CloseFlag, CloseInLoop, ACloseRest, Release
      <3>3. closed => closed'
        BY <2>1 DEF CloseFlag, CloseInLoop, ACloseRest, Release
      <3>4. QED
        BY <3>1, <3>2, <3>3 DEF AdmittedOf
    <2>2. CASE SQLiteOpened(t) \/ Opened(t) \/ DuckOpened(t)
      BY <1>1, <2>2 DEF SQLiteOpened, Opened, DuckOpened, AdmittedOf
    <2>3. CASE \/ OpenTest(t) \/ OpenConnect(t) \/ ConnectFails(t) \/ OpenCreate(t)
               \/ SQLiteCreateFails(t) \/ CreateFails(t)
      BY <1>1, <2>3 DEF OpenTest, OpenConnect, ConnectFails, OpenCreate, SQLiteCreateFails,
         CreateFails, AdmittedOf
    <2>4. CASE CloseAsync(t) \/ CloseTest(t) \/ CloseConn(t) \/ ACloseConn(t) \/ UseTest(t) \/ Use(t)
      BY <1>1, <2>4 DEF CloseAsync, CloseTest, CloseConn, ACloseConn, UseTest, Use, UseConn,
         AdmittedOf
    <2>5. QED
      BY <1>2, <2>1, <2>2, <2>3, <2>4 DEF SyncStep
  <1>3. CASE AConnect(t) \/ ACreate(t) \/ EnsureFails(t) \/ AUse(t)
    BY <1>1, <1>3 DEF AConnect, ACreate, EnsureFails, AUse, UseConn, Given, AdmittedOf
  <1>4. CASE Ensure(t) \/ Enter(t)
    <2>1. closed' = closed
      BY <1>4 DEF Ensure, Enter, Inside
    <2>2. CASE closed /\ End(t, "closed")
      BY <1>1, <2>1, <2>2 DEF AdmittedOf
    <2>3. CASE ~closed \/ Enter(t)
      BY <1>1, <2>1, <2>3 DEF Enter, AdmittedOf
    <2>4. QED
      BY <1>4, <2>2, <2>3 DEF Ensure
  <1>5. QED
    BY <1>2, <1>3, <1>4 DEF Step, AsyncStep

\* The part of the invariant that holds whatever has raced.
LEMMA UserCorrect ==
    ASSUME TypeOK, UserInv, [Next]_vars
    PROVE  UserInv'
  <1> USE DEF Busy, store
  <1>1. CASE UNCHANGED vars
    BY <1>1 DEF UserInv, PhaseOf, PairOf, LockOf, AdmittedOf, Task, vars, progress
  <1>2. ASSUME NEW t \in Users, Begin(t)
        PROVE  UserInv'
    <2> DEFINE Met == {Kind(op[v]) : v \in {w \in Users : Busy(w)}}
    <2>1. PICK c \in site.calls[t] :
            /\ op' = [op EXCEPT ![t] = c]
            /\ met' = [u \in Users |->
                 CASE u = t   -> Met
                   [] Busy(u) -> met[u] \cup {Kind(c)}
                   [] OTHER   -> met[u]]
            /\ raced' = (raced \/ (c # "use" /\ \E u \in Users : Busy(u) /\ Kind(op[u]) = Kind(c)))
      BY <1>2 DEF Begin
    <2>2. c \in {"open", "use", "close", "aclose"}
      BY SitesAssumption DEF TypeOK
    <2>3. /\ pc[t] = "idle" /\ pc'[t] = "start" /\ op'[t] = c
          /\ \A u \in Users \ {t} : pc'[u] = pc[u] /\ op'[u] = op[u] /\ met[u] \subseteq met'[u]
          /\ UNCHANGED <<site, closed, conn, aconn, alock>>
      BY <1>2, <2>1 DEF Begin, TypeOK
    <2>4. \A u \in Users : PhaseOf(u)' /\ LockOf(u)' /\ AdmittedOf(u)'
      BY <2>2, <2>3 DEF UserInv, PhaseOf, LockOf, AdmittedOf, Task
    <2>5. ASSUME NEW u \in Users, NEW v \in Users, u # v, Busy(u)', Busy(v)'
          PROVE  PairOf(u, v)'
      <3>1. CASE u = t
        <4>1. v # t /\ Busy(v)
          BY <2>3, <2>5, <3>1
        <4>2. (Task(t) <=> Task(v)) /\ (Task(t) <=> Task(v))'
          BY <1>2, <2>3, <4>1 DEF Begin, MayBegin, Task
        <4>3. Kind(op[v]) \in met'[t]
          <5>1. met'[t] = Met
            <6> HIDE DEF Met
            <6>1. QED
              BY <2>1, <2>3
          <5>2. QED
            BY <4>1, <5>1
        <4>4. Kind(op[v]) = Kind(c) => c = "use" \/ raced'
          BY <2>1, <4>1
        <4>5. QED
          BY <2>3, <3>1, <4>1, <4>2, <4>3, <4>4 DEF PairOf
      <3>2. CASE v = t
        <4>1. u # t /\ Busy(u)
          BY <2>3, <2>5, <3>2
        <4>2. (Task(t) <=> Task(u))'
          BY <1>2, <2>3, <4>1 DEF Begin, MayBegin, Task
        <4>3. Kind(c) \in met'[u]
          BY <2>1, <4>1
        <4>4. Kind(op[u]) = Kind(c) => c = "use" \/ raced'
          BY <2>1, <4>1
        <4>5. c = "use" /\ Kind(op[u]) = Kind(c) => op[u] = "use"
          BY DEF Kind
        <4>6. QED
          BY <2>3, <3>2, <4>1, <4>2, <4>3, <4>4, <4>5 DEF PairOf
      <3>3. CASE u # t /\ v # t
        <4>1. Busy(u) /\ Busy(v) /\ PairOf(u, v)
          BY <2>3, <2>5, <3>3 DEF UserInv
        <4>2. raced => raced'
          BY <2>1
        <4>3. op'[u] = op[u] /\ op'[v] = op[v] /\ met[u] \subseteq met'[u] /\ site' = site
          BY <2>3, <3>3
        <4>4. QED
          BY <4>1, <4>2, <4>3 DEF PairOf, Task, Kind
      <3>4. QED
        BY <3>1, <3>2, <3>3
    <2>6. DOMAIN answer' = Users
      BY <1>2 DEF Begin
    <2>7. QED
      BY <2>3, <2>4, <2>5, <2>6 DEF UserInv, PairOf
  <1>3. ASSUME NEW t \in Users, Step(t)
        PROVE  UserInv'
    <2>1. DOMAIN answer' = Users
      BY <1>3, TypeCorrect DEF Next
    <2>2. ASSUME NEW u \in Users \ {t}
          PROVE  PhaseOf(u)' /\ LockOf(u)' /\ AdmittedOf(u)'
      <3>1. pc'[u] = pc[u] /\ op'[u] = op[u] /\ met'[u] = met[u] /\ site' = site
        BY <1>3, OthersKeep, OwnStep
      <3>2. PhaseOf(u)'
        BY <3>1 DEF UserInv, PhaseOf, Task
      <3>3. alock' = u <=> alock = u
        BY <1>3, LockStep, NobodyAssumption
      <3>4. pc[u] \in {"aconnect", "close", "closing", "closed"} => aconn' = NoConn
        <4>1. SUFFICES ASSUME pc[u] \in {"aconnect", "close", "closing", "closed"},
                              aconn' \notin {aconn, NoConn}
                       PROVE  FALSE
          BY DEF UserInv, LockOf
        <4>2. Task(t) /\ alock \in {t, Nobody} /\ Busy(t)
          BY <1>3, <4>1, LockStep, OwnStep
        <4>3. Task(u)
          BY <4>1, <4>2 DEF UserInv, PairOf
        <4>4. pc[u] = "aconnect" /\ alock = u
          BY <4>1, <4>3 DEF UserInv, PhaseOf, LockOf
        <4>5. QED
          BY <4>2, <4>4, NobodyAssumption
      <3>5. closed' /\ ~closed /\ Busy(u) => "close" \in met[u]
        BY <1>3, AdmittedStep, OwnStep DEF UserInv, PairOf
      <3>6. QED
        BY <3>1, <3>2, <3>3, <3>4, <3>5 DEF UserInv, LockOf, AdmittedOf
    <2>3. ASSUME NEW u \in Users, NEW v \in Users, u # v
          PROVE  PairOf(u, v)'
      <3>1. \A w \in Users : Busy(w)' => Busy(w) /\ op'[w] = op[w] /\ met'[w] = met[w]
        BY <1>3, OwnStep, OthersKeep
      <3>2. QED
        BY <1>3, <2>3, <3>1, OwnStep DEF UserInv, PairOf, Task
    <2>4. QED
      BY <1>3, <2>1, <2>2, <2>3, OwnStep, LockStep, AdmittedStep DEF UserInv
  <1>4. QED
    BY <1>1, <1>2, <1>3 DEF Next

-----------------------------------------------------------------------------
\* While nothing has raced, one user at most opens and one at most closes.
LEMMA Alone ==
    ASSUME UserInv, ~raced, NEW t \in Users, NEW u \in Users \ {t}, Busy(t)
    PROVE  /\ Kind(op[t]) = "open" => pc[u] \notin {"connect", "create", "flag"}
           /\ Kind(op[t]) = "close" => pc[u] \notin ClosingPhases
  BY DEF UserInv, PairOf, PhaseOf, Kind, Busy, ClosingPhases

\* What a task's call does to the connections: nothing, a new _aconn, the
\* table of the one there is, or a closed Redis client made to connect again.
LEMMA AsyncForms ==
    ASSUME TypeOK, UserInv, NEW t \in Users, AsyncStep(t)
    PROVE  /\ UNCHANGED <<closed, conn>> /\ (mishap => mishap')
           /\ Task(t) /\ op[t] = "use" /\ pc'[t] \in {"idle", "alock", "aconnect", "acreate", "use"}
           /\ pc'[t] = "use" => got'[t] = aconn'
           /\ \/ /\ UNCHANGED <<aconn, aready, database>>
                 /\ pc'[t] = "use" => aconn # NoConn /\ (Sqlite => aready)
              \/ /\ aconn = NoConn /\ NewConn /\ UNCHANGED aready
                 /\ pc'[t] = "use" => site.backend = "redis" \/ (Sqlite /\ aready)
              \/ /\ Create(aconn) /\ UNCHANGED <<aconn, live>>
                 /\ aready' = (aready \/ Sqlite)
              \/ /\ site.backend = "redis" /\ mishap' /\ pc'[t] = "idle"
                 /\ UNCHANGED <<aconn, aready, tabled>> /\ live \subseteq live'
  <1> USE DEF End, GoTo, store
  <1>1. pc \in [Users -> Phases] /\ got \in [Users -> 0..MaxConns] /\ PhaseOf(t) /\ LockOf(t)
    BY DEF TypeOK, UserInv
  <1>2. CASE Ensure(t) \/ Enter(t)
    <2>1. Task(t) /\ op[t] = "use"
      BY <1>1, <1>2 DEF Ensure, Enter, At, PhaseOf
    <2>2. CASE Inside(t)
      BY <1>1, <2>1, <2>2, InsideForms DEF Awaits, Given
    <2>3. CASE ~Inside(t)
      BY <1>1, <1>2, <2>1, <2>3 DEF Ensure, Enter
    <2>4. QED
      BY <2>2, <2>3
  <1>3. CASE AConnect(t)
    BY <1>1, <1>3 DEF AConnect, NewConn, Given, PhaseOf, LockOf
  <1>4. CASE ACreate(t)
    BY <1>1, <1>4 DEF ACreate, Given, PhaseOf
  <1>5. CASE EnsureFails(t)
    BY <1>1, <1>5 DEF EnsureFails, PhaseOf
  <1>6. CASE AUse(t)
    <2>1. got[t] \in 0..MaxConns /\ UseConn(t, got[t]) /\ pc[t] = "use" /\ Task(t)
      BY <1>1, <1>6 DEF AUse
    <2>2. StoreTyped
      BY DEF TypeOK, StoreTyped
    <2>3. QED
      BY <1>1, <2>1, <2>2, UseForms DEF PhaseOf, database
  <1>7. QED
    BY <1>2, <1>3, <1>4, <1>5, <1>6 DEF AsyncStep

\* Where the connections stand, after a step of t, for every user.
LEMMA ConnCorrect ==
    ASSUME TypeOK, UserInv, ~raced, UnracedInv, NEW t \in Users, Step(t)
    PROVE  \A u \in Users : ConnOf(u)'
  <1> USE DEF TypeOK, End, GoTo, store, database
  <1>1. /\ site' = site /\ PhaseOf(t) /\ PhaseOf(t)' /\ LockOf(t) /\ Busy(t)
        /\ \A u \in Users : ConnOf(u)
        /\ \A u \in Users \ {t} : pc'[u] = pc[u]
        /\ NoConn \notin live /\ (conn = aconn => conn = NoConn)
    BY OwnStep, OthersKeep DEF UserInv, UnracedInv, NoConn
  <1>2. \A u \in Users \ {t} :
          /\ Kind(op[t]) = "open" => pc[u] \notin {"connect", "create", "flag"}
          /\ Kind(op[t]) = "close" => pc[u] \notin ClosingPhases
    BY <1>1, Alone
  <1>3. CASE OpenTest(t) \/ ConnectFails(t) \/ CreateFails(t)
    BY <1>1, <1>3 DEF OpenTest, ConnectFails, CreateFails, ConnOf, Opening
  <1>4. CASE CloseTest(t) \/ UseTest(t) \/ Use(t)
    BY <1>1, <1>4 DEF CloseTest, UseTest, Use, UseConn, ConnOf, Opening
  <1>5. CASE OpenConnect(t)
    <2>1. \A u \in Users \ {t} : pc[u] \notin {"connect", "create", "flag"}
      BY <1>1, <1>2, <1>5 DEF OpenConnect, PhaseOf, Kind
    <2>2. PICK c \in 1..MaxConns : Connected(c) /\ conn' = c
      BY <1>5 DEF OpenConnect
    <2>3. UNCHANGED <<closed, aconn>> /\ live' = live \cup {c} /\ c # aconn /\ closed
      BY <1>1, <1>5, <2>2, ConnectedFacts DEF OpenConnect, ConnOf
    <2>4. ConnOf(t)'
      BY <1>1, <1>5, <2>2, <2>3 DEF OpenConnect, ConnOf, Opening
    <2>5. QED
      BY <1>1, <2>1, <2>2, <2>3, <2>4 DEF ConnOf, Opening
  <1>6. CASE OpenCreate(t)
    BY <1>1, <1>6 DEF OpenCreate, ConnOf, Opening
  <1>7. CASE SQLiteCreateFails(t)
    BY <1>1, <1>2, <1>7 DEF SQLiteCreateFails, ConnOf, Opening, PhaseOf, Kind, Sqlite
  <1>8. CASE SQLiteOpened(t) \/ Opened(t) \/ DuckOpened(t)
    BY <1>1, <1>2, <1>8 DEF SQLiteOpened, Opened, DuckOpened, ConnOf, Opening, PhaseOf, Kind
  <1>9. CASE CloseAsync(t)
    BY <1>1, <1>2, <1>9 DEF CloseAsync, ConnOf, Opening, At, Kind, ClosingPhases
  <1>10. CASE CloseConn(t)
    BY <1>1, <1>2, <1>10 DEF CloseConn, ConnOf, Opening, PhaseOf, Kind, ClosingPhases
  <1>11. CASE CloseFlag(t)
    BY <1>1, <1>2, <1>11 DEF CloseFlag, ConnOf, Opening, PhaseOf, Kind, ClosingPhases
  <1>12. CASE CloseInLoop(t) \/ ACloseRest(t)
    BY <1>1, <1>2, <1>12 DEF CloseInLoop, ACloseRest, Release, ConnOf, Opening, PhaseOf, Kind, At,
       ClosingPhases
  <1>13. CASE ACloseConn(t)
    BY <1>1, <1>2, <1>13 DEF ACloseConn, ConnOf, Opening, At, Kind, ClosingPhases
  <1>14. CASE AsyncStep(t)
    <2>1. CASE aconn = NoConn /\ NewConn
      <3>1. PICK c \in 1..MaxConns : Connected(c) /\ aconn' = c
        BY <2>1 DEF NewConn
      <3>2. live' = live \cup {c} /\ c # conn
        BY <3>1, ConnectedFacts
      <3>3. QED
        BY <1>1, <1>14, <2>1, <3>1, <3>2, AsyncForms DEF ConnOf, Opening
    <2>2. CASE ~(aconn = NoConn /\ NewConn)
      BY <1>1, <1>14, <2>2, AsyncForms DEF ConnOf, Opening
    <2>3. QED
      BY <2>1, <2>2
  <1>15. QED
    BY <1>3, <1>4, <1>5, <1>6, <1>7, <1>8, <1>9, <1>10, <1>11, <1>12, <1>13, <1>14
       DEF Step, SyncStep

\* The store's own connections are open, but while a close is at them.
LEMMA OpenConnCorrect ==
    ASSUME TypeOK, UserInv, ~raced, UnracedInv, NEW t \in Users, Step(t)
    PROVE  OpenConn'
  <1> USE DEF TypeOK, End, GoTo, store, database
  <1>1. /\ site' = site /\ PhaseOf(t) /\ PhaseOf(t)' /\ LockOf(t) /\ Busy(t)
        /\ ConnOf(t) /\ OpenConn
        /\ \A u \in Users \ {t} : pc'[u] = pc[u]
        /\ NoConn \notin live /\ (conn = aconn => conn = NoConn)
    BY OwnStep, OthersKeep DEF UserInv, UnracedInv, NoConn
  <1>2. \A u \in Users \ {t} :
          /\ Kind(op[t]) = "open" => pc[u] \notin {"connect", "create", "flag"}
          /\ Kind(op[t]) = "close" => pc[u] \notin ClosingPhases
    BY <1>1, Alone
  <1>3. CASE OpenTest(t) \/ ConnectFails(t) \/ CreateFails(t)
    BY <1>1, <1>3 DEF OpenTest, ConnectFails, CreateFails, OpenConn, At
  <1>4. CASE CloseTest(t) \/ UseTest(t) \/ Use(t)
    BY <1>1, <1>4 DEF CloseTest, UseTest, Use, UseConn, OpenConn, At
  <1>5. CASE OpenConnect(t)
    <2>1. PICK c \in 1..MaxConns : Connected(c) /\ conn' = c
      BY <1>5 DEF OpenConnect
    <2>2. UNCHANGED <<closed, aconn>> /\ live' = live \cup {c}
      BY <1>5, <2>1, ConnectedFacts DEF OpenConnect
    <2>3. QED
      BY <1>1, <1>5, <2>1, <2>2 DEF OpenConnect, OpenConn
  <1>6. CASE OpenCreate(t)
    BY <1>1, <1>6 DEF OpenCreate, OpenConn
  <1>7. CASE SQLiteCreateFails(t)
    BY <1>1, <1>7 DEF SQLiteCreateFails, OpenConn, ConnOf, Opening, Sqlite
  <1>8. CASE SQLiteOpened(t) \/ Opened(t) \/ DuckOpened(t)
    BY <1>1, <1>8 DEF SQLiteOpened, Opened, DuckOpened, OpenConn, ConnOf, Opening
  <1>9. CASE CloseAsync(t)
    BY <1>1, <1>9 DEF CloseAsync, OpenConn, At
  <1>10. CASE CloseConn(t)
    BY <1>1, <1>2, <1>10 DEF CloseConn, OpenConn, PhaseOf, Kind, ClosingPhases, LockOf
  <1>11. CASE CloseFlag(t)
    BY <1>1, <1>11 DEF CloseFlag, OpenConn
  <1>12. CASE CloseInLoop(t) \/ ACloseRest(t)
    BY <1>1, <1>2, <1>12 DEF CloseInLoop, ACloseRest, Release, OpenConn, PhaseOf, Kind, At,
       ClosingPhases
  <1>13. CASE ACloseConn(t)
    BY <1>1, <1>13 DEF ACloseConn, OpenConn, At
  <1>14. CASE AsyncStep(t)
    <2>1. pc[t] \notin ClosingPhases /\ pc'[t] \notin ClosingPhases
      BY <1>1, <1>14, AsyncForms DEF PhaseOf, ClosingPhases
    <2>2. CASE aconn = NoConn /\ NewConn
      <3>1. PICK c \in 1..MaxConns : Connected(c) /\ aconn' = c
        BY <2>2 DEF NewConn
      <3>2. live' = live \cup {c}
        BY <3>1, ConnectedFacts
      <3>3. QED
        BY <1>1, <1>14, <2>1, <3>1, <3>2, AsyncForms DEF OpenConn, ClosingPhases
    <2>3. CASE ~(aconn = NoConn /\ NewConn)
      BY <1>1, <1>14, <2>1, <2>3, AsyncForms DEF OpenConn, ClosingPhases
    <2>4. QED
      BY <2>2, <2>3
  <1>15. QED
    BY <1>3, <1>4, <1>5, <1>6, <1>7, <1>8, <1>9, <1>10, <1>11, <1>12, <1>13, <1>14
       DEF Step, SyncStep

LEMMA TableKept ==
    ASSUME HasTable, UNCHANGED <<site, conn>>, conn \in tabled => conn \in tabled',
           site.backend # "memory" /\ tabled = 1..MaxConns => tabled' = 1..MaxConns,
           site.backend \in Backends, mishap => mishap',
           (\E u \in Users : pc[u] = "create") => mishap' \/ \E u \in Users : pc'[u] = "create"
    PROVE  HasTable'
  <1>1. CASE site.backend = "memory" \/ site.backend = "redis"
    BY <1>1 DEF HasTable
  <1>2. CASE site.backend \in {"sqlite", "postgres"}
    BY <1>2 DEF HasTable
  <1>3. CASE site.backend = "duckdb"
    BY <1>3 DEF HasTable
  <1>4. QED
    BY <1>1, <1>2, <1>3 DEF Backends

\* The sync connection has the table.
LEMMA TableCorrect ==
    ASSUME TypeOK, UserInv, ~raced, UnracedInv, NEW t \in Users, Step(t)
    PROVE  TableInv'
  <1> USE DEF TypeOK, End, GoTo, store, database
  <1>1. /\ site' = site /\ PhaseOf(t) /\ PhaseOf(t)' /\ Busy(t)
        /\ ConnOf(t) /\ TableInv /\ site.backend \in Backends
        /\ \A u \in Users \ {t} : pc'[u] = pc[u]
    BY OwnStep, OthersKeep, SitesAssumption DEF UserInv, UnracedInv
  <1>2. Kind(op[t]) = "open" => \A u \in Users \ {t} : pc[u] \notin {"connect", "create", "flag"}
    BY <1>1, Alone
  <1>3. CASE OpenConnect(t)
    <2>1. closed' = closed /\ closed
      BY <1>1, <1>3 DEF OpenConnect, ConnOf
    <2>2. \A u \in Users : pc'[u] = "flag" => site.backend \in {"redis", "duckdb"}
      BY <1>1, <1>2, <1>3 DEF OpenConnect, PhaseOf, Kind
    <2>3. QED
      BY <1>1, <2>1, <2>2 DEF TableInv, HasTable
  <1>4. CASE OpenCreate(t)
    <2>1. conn' = conn /\ conn \in tabled' /\ (site.backend # "memory" => tabled' = 1..MaxConns)
      BY <1>4, CreateFacts DEF OpenCreate
    <2>2. QED
      BY <1>1, <2>1 DEF HasTable, TableInv, Backends
  <1>5. CASE SQLiteCreateFails(t)
    BY <1>1, <1>2, <1>5 DEF SQLiteCreateFails, ConnOf, Opening, PhaseOf, Kind, TableInv, Sqlite
  <1>6. CASE SQLiteOpened(t) \/ Opened(t) \/ DuckOpened(t)
    <2>1. UNCHANGED <<conn, tabled, mishap>> /\ pc[t] = "flag"
      BY <1>6 DEF SQLiteOpened, Opened, DuckOpened
    <2>2. CASE site.backend = "duckdb"
      <3>1. pc'[t] = "create"
        BY <1>1, <1>6, <2>2 DEF SQLiteOpened, Opened, DuckOpened, Sqlite
      <3>2. QED
        BY <1>1, <2>2, <3>1 DEF TableInv, HasTable
    <2>3. CASE site.backend # "duckdb"
      <3>1. HasTable
        BY <1>1, <2>1, <2>3 DEF TableInv
      <3>2. HasTable'
        BY <1>1, <2>1, <2>3, <3>1 DEF HasTable, Backends
      <3>3. QED
        BY <3>2 DEF TableInv
    <2>4. QED
      BY <2>2, <2>3
  <1>7. CASE CreateFails(t)
    <2>1. UNCHANGED <<conn, tabled, closed>> /\ mishap' /\ pc'[t] = "idle"
      BY <1>7 DEF CreateFails
    <2>2. HasTable => HasTable'
      BY <1>1, <2>1, TableKept
    <2>3. QED
      BY <1>1, <2>1, <2>2 DEF TableInv
  <1>8. ASSUME UNCHANGED conn, conn \in tabled => conn \in tabled',
               site.backend # "memory" /\ tabled = 1..MaxConns => tabled' = 1..MaxConns,
               mishap => mishap',
               closed => closed', pc[t] \notin {"create", "flag"}, pc'[t] # "flag"
        PROVE  TableInv'
    <2>1. HasTable => HasTable'
      BY <1>1, <1>8, TableKept
    <2>2. (~closed' \/ \E u \in Users : pc'[u] = "flag" /\ site.backend # "duckdb") =>
            (~closed \/ \E u \in Users : pc[u] = "flag" /\ site.backend # "duckdb")
      BY <1>1, <1>8
    <2>3. QED
      BY <1>1, <2>1, <2>2 DEF TableInv
  <1>9. CASE OpenTest(t) \/ ConnectFails(t) \/ CloseTest(t) \/ UseTest(t) \/ Use(t)
    BY <1>8, <1>9 DEF OpenTest, ConnectFails, CloseTest, UseTest, Use, UseConn, At
  <1>10. CASE CloseAsync(t) \/ CloseConn(t) \/ CloseFlag(t) \/ ACloseConn(t)
    BY <1>8, <1>10 DEF CloseAsync, CloseConn, CloseFlag, ACloseConn, At
  <1>11. CASE CloseInLoop(t) \/ ACloseRest(t)
    BY <1>8, <1>11 DEF CloseInLoop, ACloseRest, Release, At
  <1>12. CASE AsyncStep(t)
    <2>1. /\ UNCHANGED <<closed, conn>> /\ (mishap => mishap')
          /\ pc[t] \notin {"create", "flag"} /\ pc'[t] # "flag"
      BY <1>1, <1>12, AsyncForms DEF PhaseOf
    <2>2. CASE NewConn
      <3>1. PICK c \in 1..MaxConns : Connected(c)
        BY <2>2 DEF NewConn
      <3>2. /\ conn \in tabled => conn \in tabled'
            /\ site.backend # "memory" => tabled' = tabled
        BY <3>1, ConnectedFacts
      <3>3. QED
        BY <1>8, <2>1, <3>2
    <2>3. CASE Create(aconn)
      BY <1>8, <2>1, <2>3, CreateFacts
    <2>4. CASE UNCHANGED tabled
      BY <1>8, <2>1, <2>4
    <2>5. QED
      BY <1>12, <2>2, <2>3, <2>4, AsyncForms
  <1>13. QED
    BY <1>3, <1>4, <1>5, <1>6, <1>7, <1>9, <1>10, <1>11, <1>12 DEF Step, SyncStep

\* So has the async one, when _aschema_ready says so.
LEMMA ReadyCorrect ==
    ASSUME TypeOK, UserInv, ~raced, UnracedInv, NEW t \in Users, Step(t)
    PROVE  ReadyInv'
  <1> USE DEF TypeOK, End, GoTo, store, database
  <1>1. /\ site' = site /\ PhaseOf(t) /\ PhaseOf(t)' /\ LockOf(t) /\ Busy(t)
        /\ ConnOf(t) /\ OpenConn /\ ReadyInv
        /\ \A u \in Users \ {t} : pc'[u] = pc[u]
        /\ NoConn \notin live /\ NoConn \notin tabled
    BY OwnStep, OthersKeep DEF UserInv, UnracedInv, NoConn
  <1>2. Kind(op[t]) = "close" => \A u \in Users \ {t} : pc[u] \notin ClosingPhases
    BY <1>1, Alone
  <1>3. CASE SQLiteOpened(t) \/ Opened(t) \/ DuckOpened(t)
    BY <1>1, <1>3 DEF SQLiteOpened, Opened, DuckOpened, ReadyInv, Sqlite
  <1>4. CASE CloseTest(t) \/ CloseFlag(t)
    BY <1>4 DEF CloseTest, CloseFlag, ReadyInv, ClosingPhases
  <1>5. CASE CloseConn(t)
    <2>1. ~closed /\ \A u \in Users : pc[u] # "closed"
      BY <1>1, <1>2, <1>5 DEF CloseConn, ConnOf, PhaseOf, Kind, ClosingPhases
    <2>2. conn # NoConn
      BY <1>1, <2>1 DEF OpenConn
    <2>3. pc'[t] = "closed"
      BY <1>5, <2>2 DEF CloseConn
    <2>4. QED
      BY <2>3 DEF ReadyInv, ClosingPhases
  <1>6. CASE ACloseRest(t) \/ (CloseInLoop(t) /\ Release(t, live))
    <2>1. Kind(op[t]) = "close" /\ pc[t] # "closed"
      BY <1>1, <1>6 DEF ACloseRest, CloseInLoop, At, PhaseOf, Kind
    <2>2. ~closed => conn # NoConn
      BY <1>1, <1>2, <2>1 DEF OpenConn, ClosingPhases
    <2>3. closed'
      BY <1>6, <2>2 DEF ACloseRest, Release
    <2>4. QED
      BY <2>3 DEF ReadyInv
  <1>7. CASE CloseAsync(t) \/ ACloseConn(t)
    BY <1>7 DEF CloseAsync, ACloseConn, ReadyInv, ClosingPhases
  <1>8. ASSUME UNCHANGED <<closed, aready>>, pc[t] \notin ClosingPhases,
               aconn' = aconn \/ aconn = NoConn, aconn \in tabled => aconn \in tabled'
        PROVE  ReadyInv'
    BY <1>1, <1>8 DEF ReadyInv, Sqlite, ClosingPhases
  <1>9. CASE OpenTest(t) \/ ConnectFails(t) \/ CreateFails(t) \/ UseTest(t) \/ Use(t)
    BY <1>8, <1>9 DEF OpenTest, ConnectFails, CreateFails, UseTest, Use, UseConn, At, ClosingPhases
  <1>10. CASE SQLiteCreateFails(t) \/ (CloseInLoop(t) /\ UNCHANGED <<store, database>>)
    BY <1>8, <1>10 DEF SQLiteCreateFails, CloseInLoop, At, ClosingPhases
  <1>11. CASE OpenConnect(t)
    BY <1>8, <1>11, ConnectedFacts DEF OpenConnect, ClosingPhases
  <1>12. CASE OpenCreate(t)
    BY <1>8, <1>12, CreateFacts DEF OpenCreate, ClosingPhases
  <1>13. CASE AsyncStep(t)
    <2>1. UNCHANGED closed /\ pc[t] \notin ClosingPhases
      BY <1>1, <1>13, AsyncForms DEF PhaseOf, ClosingPhases
    <2>2. CASE Create(aconn) /\ UNCHANGED aconn
      BY <2>2, CreateFacts DEF ReadyInv
    <2>3. CASE aconn = NoConn /\ UNCHANGED aready
      BY <1>1, <1>8, <2>1, <2>3
    <2>4. CASE UNCHANGED <<aconn, aready, tabled>>
      BY <1>8, <2>1, <2>4
    <2>5. QED
      BY <1>13, <2>2, <2>3, <2>4, AsyncForms
  <1>14. QED
    BY <1>3, <1>4, <1>5, <1>6, <1>7, <1>9, <1>10, <1>11, <1>12, <1>13
       DEF Step, SyncStep, CloseInLoop

\* Nobody but a close takes from a task the connection it was given.
LEMMA GivenCorrect ==
    ASSUME TypeOK, UserInv, ~raced, UnracedInv, NEW t \in Users, Step(t)
    PROVE  \A u \in Users : GivenOf(u)'
  <1> USE DEF TypeOK, End, GoTo, store, database
  <1>1. /\ site' = site /\ PhaseOf(t) /\ Busy(t) /\ AdmittedOf(t)'
        /\ OpenConn /\ TableInv /\ ReadyInv /\ (\A u \in Users : GivenOf(u))
        /\ NoConn \notin live /\ NoConn \notin tabled /\ (conn = aconn => conn = NoConn)
        /\ live \subseteq 1..MaxConns /\ site.backend \in Backends
    BY OwnStep, AdmittedStep, SitesAssumption DEF UserInv, UnracedInv, NoConn
  <1>2. \A u \in Users \ {t} :
          /\ pc'[u] = pc[u] /\ got'[u] = got[u] /\ met'[u] = met[u]
          /\ Busy(u) => Kind(op[t]) \in met[u]
    BY <1>1, OthersKeep DEF UserInv, PairOf
  <1>3. ASSUME SyncStep(t)
        PROVE  /\ ~(pc'[t] = "use" /\ Task(t))
               /\ Kind(op[t]) = "close" \/
                    /\ UNCHANGED aconn
                    /\ aconn \in live => aconn \in live'
                    /\ aconn \in tabled => aconn \in tabled'
    <2>1. CASE OpenConnect(t)
      BY <1>1, <2>1, ConnectedFacts DEF OpenConnect
    <2>2. CASE OpenCreate(t)
      BY <1>1, <2>2, CreateFacts DEF OpenCreate
    <2>3. CASE SQLiteCreateFails(t)
      BY <1>1, <2>3 DEF SQLiteCreateFails
    <2>4. CASE \/ OpenTest(t) \/ ConnectFails(t) \/ CreateFails(t) \/ SQLiteOpened(t)
               \/ Opened(t) \/ DuckOpened(t) \/ UseTest(t) \/ Use(t)
      BY <1>1, <2>4 DEF OpenTest, ConnectFails, CreateFails, SQLiteOpened, Opened, DuckOpened,
         UseTest, Use, UseConn
    <2>5. CASE CloseAsync(t) \/ CloseTest(t) \/ CloseConn(t) \/ CloseFlag(t)
      BY <1>1, <2>5 DEF CloseAsync, CloseTest, CloseConn, CloseFlag, At, PhaseOf, Kind
    <2>6. CASE CloseInLoop(t) \/ ACloseConn(t) \/ ACloseRest(t)
      BY <1>1, <2>6 DEF CloseInLoop, ACloseConn, ACloseRest, Release, At, PhaseOf, Kind
    <2>7. QED
      BY <1>3, <2>1, <2>2, <2>3, <2>4, <2>5, <2>6 DEF SyncStep
  <1>4. ASSUME AsyncStep(t), aconn # NoConn
        PROVE  /\ UNCHANGED aconn /\ live \subseteq live'
               /\ aconn \in tabled => aconn \in tabled'
    BY <1>4, AsyncForms, CreateFacts
  <1>5. ASSUME NEW u \in Users \ {t}
        PROVE  GivenOf(u)'
    <2>1. SUFFICES ASSUME pc[u] = "use", Task(u), "close" \notin met[u]
                   PROVE  /\ got[u] = aconn' /\ aconn' \in live'
                          /\ site.backend = "redis" \/ aconn' \in tabled'
      BY <1>1, <1>2 DEF GivenOf, Task
    <2>2. got[u] = aconn /\ aconn \in live /\ (site.backend = "redis" \/ aconn \in tabled)
      BY <1>1, <2>1 DEF GivenOf
    <2>3. Kind(op[t]) # "close" /\ aconn # NoConn
      BY <1>1, <1>2, <2>1, <2>2 DEF Busy
    <2>4. QED
      BY <1>3, <1>4, <2>2, <2>3 DEF Step
  <1>6. ASSUME AsyncStep(t), pc'[t] = "use", "close" \notin met'[t]
        PROVE  aconn' \in live' /\ (site.backend = "redis" \/ aconn' \in tabled')
    <2>1. Task(t) /\ met'[t] = met[t] /\ UNCHANGED closed /\ ~closed
      BY <1>1, <1>6, AsyncForms, OwnStep DEF AdmittedOf, Busy
    <2>2. \A u \in Users : pc[u] \notin ClosingPhases
      <3>1. pc[t] \notin ClosingPhases
        BY <1>1, <1>6, AsyncForms DEF PhaseOf, ClosingPhases
      <3>2. ASSUME NEW u \in Users \ {t}, pc[u] \in ClosingPhases
            PROVE  FALSE
        <4>1. Kind(op[u]) = "close" /\ Busy(u)
          BY <3>2 DEF UserInv, PhaseOf, ClosingPhases, Kind, Busy
        <4>2. Kind(op[u]) \in met[t]
          BY <1>1, <4>1 DEF UserInv, PairOf
        <4>3. QED
          BY <1>6, <2>1, <4>1, <4>2
      <3>3. QED
        BY <3>1, <3>2
    <2>3. CASE UNCHANGED <<aconn, database>> /\ aconn # NoConn /\ (Sqlite => aready)
      <3>1. aconn \in live
        BY <1>1, <2>2, <2>3 DEF OpenConn, ClosingPhases
      <3>2. CASE Sqlite
        BY <1>1, <2>1, <2>2, <2>3, <3>1, <3>2 DEF ReadyInv
      <3>3. CASE site.backend = "postgres"
        BY <1>1, <2>1, <2>3, <3>1, <3>3 DEF TableInv, HasTable
      <3>4. site.backend # "duckdb"
        BY <2>1, SitesAssumption DEF Task
      <3>5. QED
        BY <1>1, <2>3, <3>1, <3>2, <3>3, <3>4 DEF Backends, Sqlite
    <2>4. CASE aconn = NoConn /\ NewConn /\ (site.backend = "redis" \/ (Sqlite /\ aready))
      <3>1. site.backend = "redis"
        BY <1>1, <2>1, <2>2, <2>4 DEF ReadyInv
      <3>2. aconn' \in live'
        BY <2>4, ConnectedFacts DEF NewConn
      <3>3. QED
        BY <3>1, <3>2
    <2>5. CASE Create(aconn) /\ UNCHANGED <<aconn, live>>
      BY <2>5, CreateFacts
    <2>6. QED
      BY <1>6, <2>3, <2>4, <2>5, AsyncForms
  <1>7. GivenOf(t)'
    BY <1>1, <1>3, <1>6, AsyncForms DEF GivenOf, Task, Step
  <1>8. QED
    BY <1>5, <1>7

\* No open connection is lost sight of, and a closed store has none of its own.
LEMMA StrayCorrect ==
    ASSUME TypeOK, UserInv, UnracedInv, ~Strayed, ~Strayed', StrayInv, NEW t \in Users, Step(t)
    PROVE  StrayInv'
  <1> USE DEF TypeOK, End, GoTo, store, database
  <1>1. /\ site' = site /\ PhaseOf(t) /\ PhaseOf(t)' /\ LockOf(t) /\ Busy(t) /\ ConnOf(t)
        /\ \A u \in Users \ {t} : pc'[u] = pc[u]
        /\ NoConn \notin live /\ ~raced
        /\ live \subseteq {conn, aconn}
        /\ closed /\ (\A u \in Users : ~Opening(u)) => conn \notin live
        /\ \A u \in Users : pc[u] = "closed" => conn \notin live /\ ~closed
        /\ \A u \in Users : pc[u] = "aclosing" => aconn \notin live /\ aconn # NoConn
    BY OwnStep, OthersKeep DEF UserInv, UnracedInv, ConnOf, Strayed, StrayInv, NoConn
  <1>2. Kind(op[t]) = "open" => \A u \in Users \ {t} : pc[u] \notin {"connect", "create", "flag"}
    BY <1>1, Alone
  <1> USE DEF StrayInv, Opening
  <1>4. CASE CreateFails(t)
    BY <1>1, <1>4, SitesAssumption DEF CreateFails, Strayed, PhaseOf, Sqlite, Backends
  <1>5. CASE OpenConnect(t)
    <2>1. PICK c \in 1..MaxConns : Connected(c) /\ conn' = c
      BY <1>5 DEF OpenConnect
    <2>2. closed /\ \A u \in Users : ~Opening(u)
      BY <1>1, <1>2, <1>5 DEF OpenConnect, ConnOf, PhaseOf, Kind
    <2>3. live' = live \cup {c} /\ aconn' = aconn /\ conn \notin live /\ c # aconn
      BY <1>1, <1>5, <2>1, <2>2, ConnectedFacts DEF OpenConnect
    <2>4. /\ pc'[t] \in {"flag", "create"}
          /\ closed' => pc'[t] = "flag" \/ (pc'[t] = "create" /\ site.backend # "duckdb")
      BY <1>1, <1>5 DEF OpenConnect
    <2>5. QED
      BY <1>1, <2>1, <2>2, <2>3, <2>4
  <1>6. CASE OpenCreate(t)
    BY <1>1, <1>6, CreateFacts DEF OpenCreate
  <1>7. CASE SQLiteCreateFails(t)
    <2>1. /\ conn' = NoConn /\ live' = live \ {conn} /\ UNCHANGED <<aconn, closed>>
          /\ pc'[t] = "idle"
      BY <1>1, <1>7 DEF SQLiteCreateFails
    <2>2. QED
      BY <1>1, <2>1
  <1>8. CASE SQLiteOpened(t) \/ Opened(t) \/ DuckOpened(t)
    BY <1>1, <1>8 DEF SQLiteOpened, Opened, DuckOpened
  <1>9. ASSUME live' \subseteq live, UNCHANGED conn, live' \subseteq {conn, aconn'},
               closed' = closed \/ conn \notin live', aconn' \in {aconn, NoConn},
               pc'[t] = "closed" => conn \notin live', pc'[t] = "aclosing" => aconn \notin live',
               pc[t] \notin {"create", "flag"}, pc'[t] \notin {"create", "flag"}
        PROVE  StrayInv'
    <2>1. closed' /\ (\A u \in Users : ~Opening(u)') => conn' \notin live'
      BY <1>1, <1>9
    <2>2. \A u \in Users : pc'[u] = "closed" => conn' \notin live'
      BY <1>1, <1>9
    <2>3. \A u \in Users : pc'[u] = "aclosing" => aconn' \notin live'
      BY <1>1, <1>9
    <2>4. QED
      BY <1>9, <2>1, <2>2, <2>3
  <1>3. CASE OpenTest(t) \/ ConnectFails(t) \/ CloseTest(t) \/ UseTest(t) \/ Use(t)
    <2>4. ASSUME Use(t)
          PROVE  UNCHANGED live
      BY <1>1, <2>4 DEF Use, UseConn, Revives, Strayed
    <2>1. UNCHANGED <<closed, conn, aconn, live>> /\ pc[t] \notin {"create", "flag"}
      BY <1>3, <2>4 DEF OpenTest, ConnectFails, CloseTest, UseTest, Use, UseConn, At
    <2>2. pc'[t] \notin {"create", "flag", "closed", "aclosing"}
      BY <1>3 DEF OpenTest, ConnectFails, CloseTest, UseTest, Use, UseConn
    <2>3. QED
      BY <1>1, <1>9, <2>1, <2>2
  <1>10. CASE CloseAsync(t) \/ ACloseConn(t)
    <2>1. UNCHANGED <<closed, conn>> /\ live' = live \ {aconn} /\ pc[t] = "start"
      BY <1>10 DEF CloseAsync, ACloseConn, At
    <2>2. /\ pc'[t] \in {"close", "aclosing"} /\ aconn' \in {aconn, NoConn}
          /\ live' \subseteq {conn, aconn'} /\ (pc'[t] = "aclosing" => aconn' = aconn)
      BY <1>1, <1>10 DEF CloseAsync, ACloseConn
    <2>3. QED
      BY <1>1, <1>9, <2>1, <2>2
  <1>11. CASE CloseConn(t) \/ CloseFlag(t)
    BY <1>1, <1>9, <1>11 DEF CloseConn, CloseFlag, ConnOf
  <1>12. CASE CloseInLoop(t)
    BY <1>1, <1>9, <1>12 DEF CloseInLoop, Release, At
  <1>13. CASE ACloseRest(t)
    <2>1. aconn \notin live
      BY <1>1, <1>13 DEF ACloseRest, ConnOf
    <2>2. /\ live' \subseteq live /\ aconn' = NoConn /\ UNCHANGED conn
          /\ closed' = closed \/ conn \notin live'
          /\ pc[t] \notin {"create", "flag"} /\ pc'[t] = "idle"
      BY <1>1, <1>13 DEF ACloseRest, Release, At
    <2>3. QED
      BY <1>1, <1>9, <2>1, <2>2
  <1>14. CASE AsyncStep(t)
    <2>1. /\ pc[t] \notin {"create", "flag"}
          /\ pc'[t] \notin {"create", "flag", "closed", "aclosing"}
          /\ UNCHANGED <<closed, conn>>
      BY <1>1, <1>14, AsyncForms DEF PhaseOf
    <2>2. CASE aconn = NoConn /\ NewConn
      <3>1. PICK c \in 1..MaxConns : Connected(c) /\ aconn' = c
        BY <2>2 DEF NewConn
      <3>2. live' = live \cup {c} /\ c # conn
        BY <3>1, ConnectedFacts
      <3>3. QED
        BY <1>1, <2>1, <2>2, <3>1, <3>2
    <2>3. CASE UNCHANGED <<aconn, live>>
      BY <1>1, <2>1, <2>3
    <2>5. ~(site.backend = "redis" /\ mishap')
      BY <1>1 DEF Strayed
    <2>4. QED
      BY <1>14, <2>2, <2>3, <2>5, AsyncForms
  <1>15. QED
    BY <1>3, <1>4, <1>5, <1>6, <1>7, <1>8, <1>10, <1>11, <1>12, <1>13, <1>14 DEF Step, SyncStep

-----------------------------------------------------------------------------
\* A call that begins, or nothing at all, changes no connection.
LEMMA BeginKeeps ==
    ASSUME TypeOK, Inv, (\E t \in Users : Begin(t)) \/ UNCHANGED vars
    PROVE  /\ ~raced' => UnracedInv'
           /\ ~Strayed' => StrayInv'
  <1>1. CASE UNCHANGED vars
    <2>1. UNCHANGED <<site, closed, conn, aconn, aready, live, tabled, pc, op, got, met, raced, mishap>>
      BY <1>1 DEF vars, store, database, progress
    <2>2. ASSUME ~raced'
          PROVE  UnracedInv'
      <3>1. UnracedInv
        BY <2>1, <2>2 DEF Inv
      <3>2. (\A u \in Users : ConnOf(u)' /\ GivenOf(u)') /\ OpenConn'
        BY <2>1, <3>1 DEF UnracedInv, ConnOf, GivenOf, OpenConn, Opening, Task
      <3>3. TableInv' /\ ReadyInv'
        BY <2>1, <3>1 DEF UnracedInv, TableInv, HasTable, ReadyInv, Sqlite
      <3>4. QED
        BY <3>2, <3>3 DEF UnracedInv
    <2>3. QED
      BY <2>1, <2>2 DEF Inv, StrayInv, Strayed, Opening
  <1>2. ASSUME NEW t \in Users, Begin(t)
        PROVE  /\ ~raced' => UnracedInv'
               /\ ~Strayed' => StrayInv'
    <2>1. /\ UNCHANGED <<site, closed, conn, aconn, aready, live, tabled, got, mishap>>
          /\ raced => raced'
          /\ pc[t] = "idle" /\ pc' = [pc EXCEPT ![t] = "start"]
          /\ \A u \in Users \ {t} : pc[u] # "idle" => met[u] \subseteq met'[u]
      BY <1>2 DEF Begin, store, database, Busy
    <2>2. \A u \in Users, phase \in Phases \ {"idle", "start"} : pc'[u] = phase <=> pc[u] = phase
      BY <2>1 DEF TypeOK
    <2>3. ASSUME ~raced'
          PROVE  UnracedInv'
      <3>1. UnracedInv
        BY <2>1, <2>3 DEF Inv
      <3>2. \A u \in Users : ConnOf(u)'
        BY <2>1, <2>2, <3>1 DEF UnracedInv, ConnOf, Opening, Phases
      <3>3. \A u \in Users : GivenOf(u)'
        <4>1. SUFFICES ASSUME NEW u \in Users, pc'[u] = "use", Task(u)', "close" \notin met'[u]
                       PROVE  /\ got'[u] = aconn' /\ aconn' \in live'
                              /\ site'.backend = "redis" \/ aconn' \in tabled'
          BY DEF GivenOf
        <4>2. pc[u] = "use" /\ u # t
          BY <2>1, <2>2, <4>1 DEF Phases
        <4>3. "close" \notin met[u] /\ Task(u)
          BY <2>1, <4>1, <4>2 DEF Task
        <4>4. QED
          BY <2>1, <3>1, <4>2, <4>3 DEF UnracedInv, GivenOf
      <3>4. OpenConn'
        BY <2>1, <2>2, <3>1 DEF UnracedInv, OpenConn, Phases
      <3>5. HasTable => HasTable'
        BY <2>1, <2>2 DEF HasTable, Phases
      <3>6. TableInv' /\ ReadyInv'
        BY <2>1, <2>2, <3>1, <3>5 DEF UnracedInv, TableInv, ReadyInv, Sqlite, ClosingPhases, Phases
      <3>7. QED
        BY <3>2, <3>3, <3>4, <3>6 DEF UnracedInv
    <2>4. ASSUME ~Strayed'
          PROVE  StrayInv'
      <3>1. StrayInv
        BY <2>1, <2>4 DEF Inv, Strayed
      <3>2. \A u \in Users : Opening(u)' <=> Opening(u)
        BY <2>1, <2>2 DEF Opening, Phases
      <3>3. QED
        BY <2>1, <3>1, <3>2 DEF StrayInv
    <2>5. QED
      BY <2>3, <2>4
  <1>3. QED
    BY <1>1, <1>2

LEMMA InitCorrect == Init => Inv
  <1> SUFFICES ASSUME Init
               PROVE  Inv
    OBVIOUS
  <1>1. \A t \in Users : pc[t] = "idle" /\ op[t] = "none" /\ answer[t] = "ok" /\ alock # t
    BY NobodyAssumption DEF Init
  <1>2. NoConn \in 0..MaxConns
    BY MaxConnsAssumption DEF NoConn
  <1>3. TypeOK
    BY <1>1, <1>2 DEF Init, TypeOK, Busy, Phases
  <1>4. UserInv
    BY <1>1 DEF Init, UserInv, PhaseOf, LockOf, AdmittedOf, PairOf, Busy
  <1>5. UnracedInv
    BY <1>1 DEF Init, UnracedInv, ConnOf, GivenOf, OpenConn, TableInv, ReadyInv, Opening
  <1>6. StrayInv
    BY <1>1 DEF Init, StrayInv
  <1>7. QED
    BY <1>3, <1>4, <1>5, <1>6 DEF Inv

LEMMA InvCorrect ==
    ASSUME Inv, [Next]_vars
    PROVE  Inv'
  <1>1. TypeOK /\ UserInv /\ TypeOK' /\ UserInv'
    BY TypeCorrect, UserCorrect DEF Inv
  <1>2. ASSUME NEW t \in Users, Step(t)
        PROVE  /\ ~raced' => UnracedInv'
               /\ ~Strayed' => StrayInv'
    <2>1. raced' = raced /\ site' = site /\ (mishap => mishap')
      <3>1. CASE AsyncStep(t)
        BY <1>1, <1>2, <3>1, OwnStep, AsyncForms
      <3>4. CASE Use(t)
        BY <1>1, <1>2, <3>4, OwnStep, UseForms DEF Use, TypeOK, StoreTyped
      <3>2. CASE SyncStep(t) /\ ~Use(t)
        BY <1>1, <1>2, <3>2, OwnStep DEF SyncStep, OpenTest, OpenConnect, ConnectFails,
           OpenCreate, SQLiteCreateFails, CreateFails, SQLiteOpened, Opened, DuckOpened, CloseAsync,
           CloseTest, CloseConn, CloseFlag, CloseInLoop, ACloseConn, ACloseRest, Release, UseTest
      <3>3. QED
        BY <1>2, <3>1, <3>2, <3>4 DEF Step
    <2>2. CASE ~raced
      <3>1. UnracedInv
        BY <2>2 DEF Inv
      <3>2. UnracedInv'
        BY <1>1, <1>2, <2>2, <3>1, ConnCorrect, OpenConnCorrect, TableCorrect, ReadyCorrect,
           GivenCorrect DEF UnracedInv
      <3>3. ASSUME ~Strayed'
            PROVE  ~Strayed
        BY <2>1, <3>3 DEF Strayed
      <3>4. ~Strayed' => StrayInv'
        BY <1>1, <1>2, <3>1, <3>3, StrayCorrect DEF Inv
      <3>5. QED
        BY <3>2, <3>4
    <2>3. QED
      BY <2>1, <2>2 DEF Strayed
  <1>3. QED
    BY <1>1, <1>2, BeginKeeps DEF Inv, Next

LEMMA InvHolds == Spec => []Inv
  <1>1. Init => Inv
    BY InitCorrect
  <1>2. Inv /\ [Next]_vars => Inv'
    BY InvCorrect
  <1>3. QED
    BY <1>1, <1>2, PTL DEF Spec

\* The state has its types, and a user has an answer exactly when its call is
\* over.
THEOREM TypeSafety == FairSpec => []TypeOK
  <1>1. Inv => TypeOK
    BY DEF Inv
  <1>2. QED
    BY <1>1, InvHolds, PTL DEF FairSpec

\* Every open connection is one the store still knows and can close, unless two
\* opens or two closes have overlapped, or PostgreSQL has mishap the table.
THEOREM ConnectionsAreKept == FairSpec => []NothingOrphaned
  <1>1. Inv => NothingOrphaned
    BY DEF Inv, StrayInv, NothingOrphaned
  <1>2. QED
    BY <1>1, InvHolds, PTL DEF FairSpec

-----------------------------------------------------------------------------
\* A call that goes on has no answer yet, and only its own step gives it one.
LEMMA AnswerIsOwn ==
    ASSUME Inv, [Next]_vars, NEW t \in Users, Busy(t), answer'[t] # "none"
    PROVE  Step(t)
  <1>1. TypeOK /\ UserInv /\ answer[t] = "none"
    BY DEF Inv, TypeOK
  <1>2. CASE UNCHANGED vars
    BY <1>1, <1>2 DEF vars, progress
  <1>3. ASSUME NEW u \in Users, Begin(u)
        PROVE  FALSE
    BY <1>3 DEF Begin
  <1>4. ASSUME NEW u \in Users \ {t}, Step(u)
        PROVE  FALSE
    BY <1>1, <1>4, OthersKeep
  <1>5. QED
    BY <1>2, <1>3, <1>4, <1>1 DEF Next

\* A close that nothing overlaps is the only call there is.
LEMMA LoneClose ==
    ASSUME Inv, ~Strayed, NEW t \in Users, Step(t),
           Kind(op[t]) = "close", met[t] = {}, answer'[t] = "ok"
    PROVE  live' = {} /\ closed'
  <1> USE DEF store, database
  <1>1. /\ TypeOK /\ UserInv /\ UnracedInv /\ StrayInv
        /\ PhaseOf(t) /\ LockOf(t) /\ ConnOf(t) /\ Busy(t)
        /\ t \in DOMAIN answer /\ NoConn \notin live
    BY OwnStep DEF Inv, Strayed, UserInv, UnracedInv, TypeOK, NoConn
  <1>2. \A u \in Users \ {t} : pc[u] = "idle"
    BY <1>1 DEF UserInv, PairOf, Busy
  <1>3. pc[t] \notin {"connect", "create", "flag"} /\ op[t] \in {"close", "aclose"}
    BY <1>1 DEF PhaseOf, Kind, TypeOK
  <1>4. /\ live \subseteq {conn, aconn} /\ (closed => conn \notin live)
        /\ pc[t] = "closed" => conn \notin live
        /\ pc[t] = "aclosing" => aconn \notin live
    BY <1>1, <1>2, <1>3 DEF StrayInv, Opening
  <1>5. ASSUME Release(t, live), aconn \notin live
        PROVE  live' = {} /\ closed'
    <2>1. closed \/ conn # NoConn
      BY <1>1, <1>5 DEF Release, End
    <2>2. QED
      BY <1>4, <1>5, <2>1 DEF Release
  <1>6. CASE CloseTest(t)
    BY <1>1, <1>4, <1>6 DEF CloseTest, End, GoTo, LockOf, TypeOK
  <1>7. CASE CloseFlag(t)
    BY <1>1, <1>4, <1>7 DEF CloseFlag, LockOf
  <1>8. CASE CloseInLoop(t)
    BY <1>1, <1>5, <1>8 DEF CloseInLoop, End
  <1>9. CASE ACloseRest(t)
    BY <1>1, <1>4, <1>5, <1>9 DEF ACloseRest
  <1>10. ASSUME CloseAsync(t) \/ CloseConn(t) \/ ACloseConn(t)
         PROVE  FALSE
    BY <1>1, <1>10 DEF CloseAsync, CloseConn, ACloseConn, End, GoTo, TypeOK
  <1>11. ~AsyncStep(t)
    BY <1>1, <1>3, AsyncForms
  <1>12. ASSUME \/ OpenTest(t) \/ OpenConnect(t) \/ ConnectFails(t) \/ OpenCreate(t)
                \/ SQLiteCreateFails(t) \/ CreateFails(t) \/ SQLiteOpened(t) \/ Opened(t)
                \/ DuckOpened(t) \/ UseTest(t) \/ Use(t)
         PROVE  FALSE
    BY <1>1, <1>3, <1>12 DEF OpenTest, OpenConnect, ConnectFails, OpenCreate, SQLiteCreateFails,
       CreateFails, SQLiteOpened, Opened, DuckOpened, UseTest, Use, At, PhaseOf
  <1>13. QED
    BY <1>6, <1>7, <1>8, <1>9, <1>10, <1>11, <1>12 DEF Step, SyncStep

\* A close() or aclose() that nothing overlaps leaves no connection open.
THEOREM CloseLeavesNothing == FairSpec => CloseReleases
  <1>1. Inv /\ [Next]_vars =>
          [\A t \in Users :
             /\ ~Strayed
             /\ Busy(t) /\ Kind(op[t]) = "close" /\ met[t] = {}
             /\ answer'[t] = "ok"
             => live' = {} /\ closed']_vars
    BY AnswerIsOwn, LoneClose
  <1>2. QED
    BY <1>1, InvHolds, PTL DEF FairSpec, Spec, CloseReleases

\* The connection of a call that no close has met is open, and has the table
\* when DuckDB is not still creating it.
LEMMA UseFinds ==
    ASSUME Inv, NEW t \in Users, Step(t), answer'[t] = "broken", "close" \notin met[t], ~raced
    PROVE  site.backend = "duckdb" /\ ("open" \in met[t] \/ mishap)
  <1>1. /\ TypeOK /\ UserInv /\ UnracedInv /\ Busy(t) /\ site.backend \in Backends
        /\ AdmittedOf(t) /\ GivenOf(t) /\ t \in DOMAIN answer /\ live \subseteq 1..MaxConns
        /\ answer[t] = "none"
    BY OwnStep, SitesAssumption DEF Inv, UserInv, UnracedInv, TypeOK
  <1>2. \A u \in Users \ {t} : Busy(u) => Kind(op[u]) \in met[t]
    BY <1>1 DEF UserInv, PairOf
  <1>3. CASE Use(t)
    <2>1. ~Serves(conn) /\ pc[t] = "use"
      BY <1>1, <1>3 DEF Use, UseConn, End
    <2>2. ~closed
      BY <1>1, <2>1 DEF AdmittedOf
    <2>3. \A u \in Users : pc[u] # "closed"
      BY <1>1, <1>2, <2>1 DEF UserInv, PhaseOf, Busy, Kind
    <2>4. conn \in live /\ HasTable
      BY <1>1, <2>2, <2>3 DEF UnracedInv, OpenConn, TableInv
    <2>5. site.backend # "redis" /\ conn \notin tabled
      BY <1>1, <2>1, <2>4 DEF Serves, NoConn
    <2>6. site.backend = "duckdb" /\ (mishap \/ \E u \in Users : pc[u] = "create")
      BY <1>1, <2>4, <2>5 DEF HasTable, Backends
    <2>7. (\E u \in Users : pc[u] = "create") => "open" \in met[t]
      BY <1>1, <1>2, <2>1 DEF UserInv, PhaseOf, Busy, Kind
    <2>8. QED
      BY <2>6, <2>7
  <1>4. CASE AUse(t)
    <2>1. ~Serves(got[t]) /\ pc[t] = "use" /\ Task(t)
      BY <1>1, <1>4 DEF AUse, UseConn, End
    <2>2. QED
      BY <1>1, <2>1 DEF GivenOf, Serves, NoConn
  <1>5. ASSUME SyncStep(t), ~Use(t)
        PROVE  FALSE
    BY <1>1, <1>5 DEF SyncStep, OpenTest, OpenConnect, ConnectFails, OpenCreate,
       SQLiteCreateFails, CreateFails, SQLiteOpened, Opened, DuckOpened, CloseAsync, CloseTest,
       CloseConn, CloseFlag, CloseInLoop, ACloseConn, ACloseRest, Release, UseTest, End, GoTo
  <1>6. ASSUME Inside(t), Task(t)
        PROVE  FALSE
    BY <1>1, <1>6, InsideForms DEF Awaits, Given, GoTo
  <1>7. ASSUME Ensure(t) \/ Enter(t) \/ AConnect(t) \/ ACreate(t) \/ EnsureFails(t)
        PROVE  FALSE
    BY <1>1, <1>6, <1>7 DEF Ensure, Enter, AConnect, ACreate, EnsureFails, Given, End, GoTo,
       UserInv, PhaseOf
  <1>8. QED
    BY <1>3, <1>4, <1>5, <1>7 DEF Step, AsyncStep

\* A call on an open store finds an open connection and the table, unless the
\* store is closed under it, or DuckDB has not created the table yet.
THEOREM UsesAreServed == FairSpec => UsesFindTheTable
  <1>1. Inv /\ [Next]_vars =>
          [\A t \in Users :
             Busy(t) /\ answer'[t] = "broken" =>
               \/ "close" \in met[t] \/ raced
               \/ site.backend = "duckdb" /\ ("open" \in met[t] \/ mishap)]_vars
    BY AnswerIsOwn, UseFinds
  <1>2. QED
    BY <1>1, InvHolds, PTL DEF FairSpec, Spec, UsesFindTheTable
=============================================================================
