----------------------------- MODULE ServerStores -----------------------------
(***************************************************************************)
(* The backends with a server of their own, side by side: a site is a      *)
(* server and the calls its clients make, and the properties say what each *)
(* server promises to which clients.                                       *)
(***************************************************************************)
EXTENDS StoreData, Integers

CONSTANTS Threads, NoThread, NoKey,
          BatchSize,  \* the batch_size of every Redis scan
          Sites       \* the deployments: [server, calls]

VARIABLES site,
          data, pc, call, answer, found, got, todo,  \* of either server's clients
          keySet, dirty, steady,                     \* Redis
          advisory, work, want                       \* PostgreSQL

redisVars    == <<keySet, dirty, steady>>
postgresVars == <<advisory, work, want>>
vars == <<site, data, pc, call, answer, found, got, todo, redisVars, postgresVars>>

Requests == UNION {s.calls : s \in Sites}

Redis == INSTANCE RedisStore
Pg    == INSTANCE PostgresStore

ASSUME ThreadAssumption == NoThread \notin Threads
ASSUME KeyAssumption    == Keys \subseteq Int /\ NoKey \notin Keys
ASSUME BatchAssumption  == BatchSize \in Nat \ {0}
ASSUME SitesAssumption  ==
    \A s \in Sites :
        /\ s.server \in {"redis", "postgres"} /\ s.calls \subseteq Pg!KV!Request
        /\ \A r \in s.calls : r.op \notin Pg!KV!LifecycleOps

Init == site \in Sites /\ Redis!Init /\ Pg!Init

OnRedis    == site.server = "redis"
OnPostgres == site.server = "postgres"

Begin(t) ==
    /\ \/ OnRedis /\ Redis!Begin(t) /\ UNCHANGED postgresVars
       \/ OnPostgres /\ Pg!Begin(t) /\ UNCHANGED redisVars
    /\ call'[t] \in site.calls

Step(t) ==
    \/ OnRedis /\ Redis!Step(t) /\ UNCHANGED postgresVars
    \/ OnPostgres /\ Pg!Step(t) /\ UNCHANGED redisVars

Next == (\E t \in Threads : Begin(t) \/ Step(t)) /\ UNCHANGED site

\* A client in the middle of a call goes on with it.  On PostgreSQL this takes
\* strong fairness: the server grants a lock to a waiter before it grants it to
\* later ones for ever.  On Redis no step of a call waits for another client.
FairSpec ==
    /\ Init /\ [][Next]_vars
    /\ \A t \in Threads : SF_vars(Step(t) /\ UNCHANGED site)

-----------------------------------------------------------------------------
TypeOK ==
    /\ site \in Sites
    /\ OnRedis => Redis!TypeOK
    /\ OnPostgres => Pg!TypeOK

\* Between two commands __keys__ is exactly the set of keys that hold a value:
\* contains, count and keys(), which ask the set, agree with get.
KeySetMatchesData == OnRedis => Redis!KeySetMatchesData

\* iter_batches and filter of Redis: a key that held a value all through a scan
\* is yielded, whatever the other clients delete and add between two batches.
ScansComplete == OnRedis => Redis!ScansComplete

\* Batches that take advisory locks do not deadlock with each other, whatever
\* the order of their dicts: only the row locks of a writer that takes no
\* advisory lock can close a ring.
DeadlocksNeedUnlockedWriter == OnPostgres => Pg!DeadlocksNeedUnlockedWriter

\* Clients that only make calls one transaction decides and writes.
Batches == \A r \in site.calls : r.op \in Pg!KV!ReadOps \/ Pg!Guarded(r)

\* Redis: the optimistic loop gives every batch the meaning BaseStore
\* documents, at the instant its EXEC succeeds, and clear() removes what it
\* listed.  PostgreSQL: processes that write with "raise", "skip" and "merge"
\* only, and read, see one store in which every batch takes effect at once.
Contract ==
    /\ Redis!KV!Init /\ Pg!KV!Init
    /\ [][OnRedis => Redis!KV!Next]_(Redis!KV!vars)
    /\ [][OnPostgres /\ Batches => Pg!KV!Next]_(Pg!KV!vars)

\* Redis's retry loop cannot livelock: when every client is in a call, one of
\* them gets out.  An EXEC is refused only if another client's call ended since
\* the WATCH.
SomeoneFinishes ==
    OnRedis /\ (\A t \in Threads : Redis!Busy(t)) ~> (\E t \in Threads : ~Redis!Busy(t))

\* On PostgreSQL every call ends, with an answer or as the victim of a
\* deadlock.
CallsEnd == \A t \in Threads : OnPostgres /\ Pg!Busy(t) ~> ~Pg!Busy(t)
=============================================================================
