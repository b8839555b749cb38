# A verification development of persista

persista stores key–value pairs (`str` keys, `dict` values) behind one interface,
`BaseStore`, with eight backends; a TTL cache, an HTTP client that caches
responses and a layer of typed records are built on it. This directory holds
TLA+ modules translated from that code, TLC configurations that check them on
small instances, and TLAPS proofs about the core.

The code computes little. What is hard about it is order: several threads,
tasks or processes use one store, every backend has another means of making a
batch atomic (a lock, an optimistic transaction, advisory locks), and the
layers above compose store calls without a lock of their own.

Reading order: `StoreData`, `KVStore`, `InMemoryStore`, then any of the others.
`PROJECT.json` gives, for each definition, the lines of the code it stands for.

## 1. Inventory

| Component (under `src/src/persista`) | State | Operations | Status |
|---|---|---|---|
| Store contract: `store/base.py`, `types.py`, `validation.py` | none of its own | `open close get(_many) set(_many) set_batches delete(_many) clear contains(_many) filter keys iter_batches count` and their `a…` twins; `resolve_conflicts` | `StoreData`, `KVStore`, `DurableStore`; not `set_batches` |
| `InMemoryStore`: `store/in_memory.py`, `threaded.py` | `_data`, `_closed`, an `RLock` | all of the above | `InMemoryStore` |
| `RedisStore`: `store/redis.py` | on the server: the values and `__keys__`; two clients, one lazy | all | `RedisStore`, `LazyConnection` |
| `PostgresStore`: `store/postgres.py` | a table; two connections, one lazy | all | `PostgresStore`, `LazyConnection`; not tasks that share a connection |
| File stores: `store/file.py` | one file per key; a lock | all | `FileStore` |
| LMDB stores: `store/lmdb.py` | an LMDB environment | all | `LmdbStore` |
| DuckDB stores: `store/duckdb.py` | a database; a connection behind a lock | all | `DuckDBStore`, `LazyConnection` |
| SQLite stores: `store/sqlite.py` | a database; a sync connection behind a lock, a lazy async one, two task locks | all | `SQLiteStore`, `LazyConnection`; see section 7 |
| Opening and closing, `store/async_close.py` | `_conn`, `_aconn`, `_closed`, `_aschema_ready`, `_aconn_lock` | `open aopen close aclose _ensure_aconn` | `LazyConnection` |
| `NullStore`, URIs, registry, factories | none, or filled at import | parsing and construction | not modelled |
| `Cache`: `cache/cache.py` | entries `{value, expires_at}` in a store | `get(_many) try_get(_many) set(_many) delete(_many) contains clear get_or_compute memoize` | `Cache`, `TTLMap` |
| Default cache, cache keys: `cache/interface.py`, `utils.py` | one module global | get/set/reset, hashing of arguments | not modelled |
| HTTP: `http/httpx/method.py`, `client.py` | loop locals; an httpx client; a `Cache` | `send_request(_async)`, `get`, `post`…, `HttpClient.request` | `HttpClient` |
| HTTP with requests: `http/requests.py` | an adapter's configuration | delegates the loop to urllib3 | not modelled |
| Records: `record/filter.py`, `sort.py`, `analysis/` | accumulators of one pass over a stream | filters, sorts, diffs, references, duplicates, statistics | `RecordViews`, `RecordStreams`, `NearDuplicates` |
| Record stores: `record/store/` | a store | conversion, then one store call | `StoredRecords` of `RecordViews` |

**How they interact.** A `Cache` owns a store and calls it several times per
method (read, decide, delete; read the clock, write); `HttpClient` owns a `Cache`
and an httpx client, and calls `send_request` between a cache lookup and a cache
write. `resolve_conflicts` (`base.py`) is called back into by every backend: it
runs `contains_many` and then `get` *of the store that is in the middle of
`set_many`*, which is why the in-memory lock is re-entrant and why Redis and
Postgres read through a connection while a transaction is being prepared.
The async methods of the in-memory, file, LMDB and DuckDB stores run the sync
ones in worker threads, so two tasks of one event loop are two threads for the
store. There are no callbacks to users other than the function given to
`get_or_compute`.

**What makes each part correct, and what is hard about it.**

- *Contract.* A call takes effect at one instant and answers what `BaseStore`
  documents, batches and conflict strategies included. Hard: every batch is many
  steps in the code.
- *InMemoryStore.* The lock makes the contract hold although most methods test
  the closed flag before they take it, `open()` does not take it at all, and two
  methods leave it by an exception.
- *RedisStore.* `__keys__` and the values are separate Redis objects that must agree;
  a conditional batch is an unbounded optimistic loop that must neither lose an
  update nor livelock.
- *PostgresStore.* Conditional batches exclude each other by advisory locks and must
  not deadlock; overwriting batches and deletes take none.
- *Cache.* There is no lock: reads, evictions and writes of several threads
  interleave freely, and time passes in between. A stale value must not be served.
- *HttpClient.* Two failure branches share one retry budget and one backoff
  sequence; calls leave the loop in five ways and must not leak or close the
  wrong client.
- *Embedded stores.* What is under a lock differs per backend and per strategy, and so
  does the unit that is written at once: a file, a row, a transaction. Pages of `iter_batches` are
  separate queries. SQLite has two connections that know of each other only through
  the database's own locks, and tasks that share one of them await in the middle of a transaction.
- *Opening and closing.* Connections are created lazily, under another lock than the flag is
  tested and cleared, by tasks that race with a closing one, and creating them can fail.
- *Records.* The analyses keep bounded state over a stream they read once; what they report at the
  end must be a fact about the whole stream.

`PROJECT.json` lists each hazard at its line, with the properties that cover it
or the reason why none does.

## 2. Modules

| Module | What it is |
|---|---|
| `StoreData` | keys, dict values, batches; `resolve_conflicts` as `Refuses`/`ToWrite`, `{**old, **new}` as `Merged`, filters |
| `KVStore` | the abstract store: a call is invoked, takes effect once, answers |
| `DurableStore` | `KVStore` on disk: batches that fail, calls cut off by a crash |
| `InMemoryStore` | the threads of `in_memory.py`, refines `KVStore` |
| `RedisStore`, `PostgresStore` | clients of one Redis server, sessions of one PostgreSQL table |
| `ServerStores` | the two side by side: a site is a server and the calls its clients make; refines `KVStore` |
| `LocalStore` | what the stores in their caller's process have in common: a lock, scans, failed batches, crashes |
| `FileStore`, `LmdbStore`, `DuckDBStore`, `SQLiteStore` | the four backends, on the variables of `LocalStore` |
| `EmbeddedStores` | the four side by side: a deployment is a backend, the calls of each caller, and by which connection; refines `DurableStore` where it can |
| `LazyConnection` | opening, closing and the lazy async connection of SQLite, PostgreSQL, Redis and DuckDB stores |
| `CacheData`, `TTLMap`, `Cache` | entries and calls; the abstract expiring map; `cache.py`, which refines it |
| `HttpClient` | the retry loop and the caching client around it |
| `RecordViews` | the functions of a finished list of records: filters, sorts, diffs, references |
| `RecordStreams` | the one-pass accumulators, one `Update` per record |
| `NearDuplicates` | MinHash signatures, bands and the union-find, link by link |
| `RecordAnalysis` | streams read by all of these, and the properties of their reports |
| `StoreCalls`, `MC*` | the calls and inputs of the small instances |
| `StoreData_proofs` | lemmas about batches |
| `InMemoryStore_proofs`, `ServerStores_proofs`, `LazyConnection_proofs`, `Cache_proofs`, `HttpClient_proofs`, `EmbeddedStores_proofs`, `RecordAnalysis_proofs` | theorems about the module each is named after; those about `RedisStore` by itself are in `ServerStores_proofs` |

The specifications of stores, cache and HTTP client have one shape. `call[t]` is the last call of thread `t`
with its arguments, `answer[t]` what it ended with, `pc[t]` where it is; `Begin`
starts any call of `Requests`, `Step` is the code, `End` the return or raise. A
step ends where another actor can interfere: at a lock, a command sent to a
server, a store call, a reading of the clock. Definitions marked
*Mutant of X* are not part of a specification: they state X with a mistake in
it, and serve to confirm that a property does depend on X. "values of the constants"
below always includes `Requests`, so the theorems hold for any set of calls.

### Correspondence with the code

**`InMemoryStore`.** `data`, `closed`, `lock` are `_data`, `_closed`, `_lock`.
`CheckOpen` is the test before the lock, `Acquire`/`Leave` the `with`
statement (left by return or exception), `Read` the one-expression reads, `GetNext` and
`DeleteNext` the loops that call `get`/`delete` per key, each of which tests the flag
again; `StartResolve`, `ContainsNext` and `Resolve` are `resolve_conflicts`, which `set_many` hands `self._data.get`, bound to
the dict there is then (`Bind`), and whose `contains_many` looks every key up in the dict there is by then (`found`);
`WriteNext` is one `self._data[key] = …`;
`OpenCheck`, `OpenReset`, `OpenDone` the three steps of the unlocked `open()`.
`scoped`, which is chosen at the start, says whether callers keep `open`/`close` apart from other calls, as
`with store:` around all of them does.

**`RedisStore`.** `Watched` and `dirty` model WATCH: `Touch` marks the clients
that watch a key some transaction changed, `Exec` and `Retry` are the two answers
to EXEC. `Check` and `ReadNext` are the `SMISMEMBER` and `GET`s of
`resolve_conflicts`, sent on other connections; `ClearList`/`ClearDrop` are the two
calls `clear()` is made of. `DropAll` touches only keys that exist, as DEL does. `StartScan` is
the `SMEMBERS` and `Batch` the `MGET`s of `iter_batches`, which `filter` goes through; `steady`
records what held a value all the time, for `ScansComplete` only.

**`PostgresStore`.** `advisory` holds the `pg_advisory_xact_lock`s, `work[t]` the rows
written by `t`'s open transaction, whose row locks it holds. `First` encodes the
`ORDER BY` of the lock statement, and the absence of an order for rows; `Abort` is the
server's deadlock detector; `Commit`/`Rollback` release everything. Statements are READ
COMMITTED: reads see `data` only. `Iterate` is the server-side cursor, whose batches are one snapshot.

**`LocalStore` and its four backends.** `lock` is the store's `RLock`, or LMDB's writer
mutex. `FileStore` writes and deletes file by file (`Save`, `Unlink`), tests and reads in two
steps (`IsFile`, `Load`), and takes the lock for conditional batches only. `LmdbStore` puts a whole
batch in one transaction that commits or aborts. `DuckDBStore` writes row by row under
the lock, each row on disk at once. `Page` is `LIMIT … OFFSET …` over the keys in order, counted anew for
each page; `scan` records what happened to the store meanwhile. `Crash` may happen at any step, ends all running calls
with `Lost`, drops locks and uncommitted work, and keeps what was on disk.

**`SQLiteStore`.** `work[c]` and `txn[c]` are the rows written and the lock held by the transaction
of connection `c`, `"sync"` or `"async"`. A caller is a thread, a task, or a sync call made by a task, which keeps
the event loop busy (`LoopBusy`). `Enter` takes `_lock` for sync calls and `_awrite_lock` for conditional
async batches; the insert and its `Commit` are two steps, between which tasks may run, and so are an async `Select` and its
`Fetch` (`First` is what `execute` has read by then: a row, or the whole count). A pending lock keeps
new readers out, but not a connection that has a shared lock already (`Shares`). A write or commit that
another connection keeps waiting either goes on or times out (`WriteTimesOut`, `CommitTimesOut`);
the code does not roll back then, so the transaction stays as it is.

**`LazyConnection`.** Connections are numbered as they are made; `live` are those open at the
database, `conn` and `aconn` those the store knows. Each statement that may fail or let others run is a step:
`OpenTest`, `OpenConnect`, `OpenCreate`, `Opened`; `Ensure`, `Enter`, `AConnect`, `ACreate` for `_ensure_aconn`;
`CloseAsync`, `CloseConn`, `CloseFlag`, `ACloseConn`, `ACloseRest` in the order each backend has them. Making a connection
and assigning it to `_conn` or `_aconn` is one step: until it is assigned only the call that made it has it, and no step of
another call depends on it. A Redis client connects when it is used, so that one a call has taken before a close is open again
after it (`UseConn`). `mishap` records that this has happened, or that a CREATE TABLE has failed.

**`Cache`.** `Look` is `store.get_many`, `Judge` one `time.time()` and the split into
live and expired, `Evict` the `delete_many` of the expired ones, `Compute` the user's
function (which may raise), `Resolve` the head of `set_many` (empty, negative, zero or
a deadline), `Write` and `Drop` the store calls. One-key methods take the same steps on a
batch of one. The store is atomic, which is what `KVStore` promises.

**`HttpClient`.** One call is `Lookup?; Open; (Send; Deliver; RetryStatus |
RetryTransport; Wake)*; Succeed | GiveUp; Store?`. `RetryStatus` counts the retry before it computes
the delay, `RetryTransport` after, as the code does. An `Outcome` is what the loop can tell apart: a 2xx, another status, either of
them listed in `retry_status_codes` (a 2xx that is listed is retried, and accepted when no retry is left), a `TransportError`, or
another exception of the request, which leaves at once; with a response, what `float()` makes of its `Retry-After`: nothing, a
number of any sign, infinity or NaN. `Refuses` and `Sleeps` say what `time.sleep` and `asyncio.sleep` do with that, and
`Wake` that an infinite sleep does not end. `Forget` is everything the cache may do.

**Records.** `RecordStreams` has one operator per accumulator, named after the function it is the loop body of:
`Append`ing an id to its hash group, collecting the variants of an id, the two Bloom filters, the shapes, the statistics with their
truncated sample, the counters and registers of value frequencies. `Update` feeds one record to all of them.
`NearDuplicates` takes the buckets of one band after another and the union-find one pointer at a time, path halving
included, then the groups, and returns those of more than one record (`Keep`). A sort, or a range filter, of values that cannot be
compared is a `TypeError`: numbers are comparable with each other only. Hash functions, `str()` and types are constants: `HashOf` is a table of small numbers with collisions in it.

## 3. Runs

| Run | Question | Instance | Result |
|---|---|---|---|
| `InMemoryRaces` | does the lock-based store implement the atomic one where no call overlaps an `open` or `close` (`Contract`)? With those racing everything: are pending conditional writes current (`PlannedWritesAreCurrent`), is the lock given back (`LockReleased`)? | 2 threads, 2 keys, every call, `scoped` or not | holds |
| `InMemoryOpenRace` | is `open()` on an open store a no-op (`OpenKeepsOpenStore`)? | 2 threads that open and write | violated |
| `ServerRaces` | Redis: `KeySetMatchesData`, `ScansComplete`, no livelock (`SomeoneFinishes`); PostgreSQL: which deadlocks are possible (`DeadlocksNeedUnlockedWriter`), `CallsEnd`; both: `Contract` | 2 clients; a Redis site with every method, a PostgreSQL site of batches and readers, one of all kinds of writers | holds |
| `PostgresOverwrite` | is a batch's decision current when an overwrite is allowed too (`DecidedRowsAreCurrent`)? | 2 sessions, all strategies | violated |
| `EmbeddedRaces` | what does each embedded backend promise of batches (`DecisionsHold`, `Contract`), of iteration (`ScansComplete`), of its two connections (`ConnectionsAgree`), of its lock (`LockReleased`)? | 2 callers, 18 deployments, at most one crash | holds |
| `SQLiteWedged` | may sync and async calls be mixed (`SomeConnectionCanWrite`)? | a task and a thread that get and overwrite one key | violated |
| `Lifecycle` | are connections leaked (`NothingOrphaned`, `CloseReleases`), used without a table (`UsesFindTheTable`), also in a store that was closed and opened again, is `_aconn_lock` freed (`LockFreed`)? | 3 users, 9 deployments, connects and CREATE TABLEs that fail | holds |
| `CacheRaces` | are answers live and current, do private entries stay (`Contract`)? | 2 threads, a shared and a private key, clock 0..3 | holds |
| `CacheEviction` | is what a lookup evicts expired (`EvictsOnlyExpired`)? | as above | violated |
| `HttpRequests` | `BackoffDoubles`, `RetryBudget`, `ClientsClosed`, and `CallsEnd` of calls whose requests end | 2 threads, 4 kinds of calls, 10 outcomes | holds |
| `HttpEndlessDelay` | does the next attempt follow every delay (`DelaysEnd`)? | as above | violated |
| `Records` | are the reports of the analyses facts about the whole stream? (9 properties, below) | every stream of up to 3 or 4 records of four kinds | holds |

Each passing run also checks its module's `TypeOK`. The two about HTTP do not check for deadlock: a system
whose calls all sleep for ever has none of its own steps left.

**What `EmbeddedRaces` says of each backend.** A deployment is a member of `MCSites`, and the properties name
those they speak of; what they leave out is not promised, and mostly not true.

- `Contract` (atomic calls that survive a crash, batches that fail without effect): LMDB but for scans; SQLite used by
  threads only; DuckDB as long as it does not crash. Not the file store, and not SQLite with tasks, where an executemany and
  its commit are two awaits.
- `DecisionsHold` (a conditional batch writes what is right for the pairs as they are when it writes): LMDB
  and DuckDB always; SQLite for threads only, or for tasks that write conditional batches only; the
  file store when every writer uses a conditional strategy, as overwrites and deletions do not take its lock.
- `ScansComplete` (what `iter_batches` owes its caller): after a listing of keys (file, LMDB), every key that stays comes once.
  By OFFSET (DuckDB, SQLite in threads) a key that stays may be skipped, but only if a smaller one was deleted, and
  repeated only if a smaller one was added. An open cursor (SQLite in tasks) skips nothing that
  stays, and repeats only what was written again.
- `ConnectionsAgree` (SQLite): outside of a write, no connection is in a transaction, unless a write has failed on it.
- `LockReleased`: whatever a call ends with, also a timeout or an error in the middle of a batch.

**What `Records` says.** `DuplicatesExact`, `CollisionsExact`: groups are those of the whole stream, however far apart
their members are. `NeverUndercounts`: the Bloom filters err on one side, given that a filter finds what was added to it, which is the filter's promise; adding every record is the code's part. `SampleTellsTheTruth`: the sample is flagged truncated
exactly if a value is missing from it. `EstimateIgnoresOrder`: registers depend on the set of values. `DiffIsAnUpdatePlan`: applied
to a record store, a diff turns one snapshot into the other. `OrphansIgnoreOrder`: forward references are none. `SortKeepsTies`: sorts are
stable in both directions and commute with filters, where the values can be compared. `NearGroupsAreComponents`: the union-find yields the connected
components of "agree on a band".

**Why the bounds are enough to be interesting.** Two actors are enough for every
interleaving the code decides on pairwise (a check and the write that invalidates it; two
lock holders in a ring; a scan and a writer). `Lifecycle` has three: one that connects, one that waits for the lock, one that
closes; `MaxConns = 3` leaves one number for a connection that got lost. Two keys let a batch be half written, and two
writers meet in opposite orders; the second batch has one of the two keys only. `BatchSize = 1` makes two keys two pages, so that a
writer fits in between. Two fields with one value make a merge show exactly which writers it has seen; the third field, `f3`, makes a value
no serializer takes, alone and behind a good one in its batch. `MaxCrashes = 1`: nothing but the pairs survives a crash, so that a second
one finds the state of a first. Keys of the server and embedded stores are the integers 1 and 2 because order matters there. `MaxNow = 3` with lifetimes of 1 and 2
lets an entry expire, be replaced and expire again; `now > expires_at` is exercised on both sides of the
boundary. `MaxSent` lets `sent` go one beyond what a call may use, so that a broken budget shows;
up to two retries give delays 1, 2 and mixtures of both branches. Four records make two pairs of near duplicates that a third band member
joins, and a union whose root is not the first node; samples of two values overflow at the third. All the safety and
action properties but seven of `Records` are proved without bounds (section 5).

**Fairness.** Safety runs use `Spec`. `FairSpec` assumes that a thread, task or session in the middle of a call
goes on: `WF(Step(t))` for the in-memory store, the lifecycle, the HTTP client and the embedded stores (`StoreStep`). Nothing is assumed
of `Begin`: no caller has to call. `ServerStores` assumes `SF(Step(t))` per client: a PostgreSQL server queues the waiters
of a lock and cannot pass one over for ever; the deadlock detector is a step like another. On Redis no step waits for another client, so
strong fairness is weak fairness there, and it gives
`SomeoneFinishes` only: a single client may lose for ever, the code has no bound and no
back-off, and the module claims no more. SQLite waits end by the busy timeout, which is a step; who gets a
lock next is left open. In `HttpClient` fairness is of the code's own steps (`Proceed`) and not of `Deliver`: the timeouts of
httpx bound a connect and each chunk of a response, and a caller's client may have none. That requests end is therefore a
premise of `CallsEnd`, and that a call does not sleep on an infinite delay is its exception.

**Abstractions that matter.** Key order in dicts, logging, serialisation and deep
copies are left out: values are immutable, so aliasing (the values
`InMemoryStore.iter_batches` yields are not copies) is invisible. Clocks do not go back. Distinct
Postgres keys have distinct 64-bit hashes, and `executemany` on the autocommit connection is one implicit
transaction, as it is in the pipeline mode psycopg uses with libpq 14 or later. Connections fail when they are made, not in the middle of
a call. Tasks are not cancelled. `contains`, `keys` and
one-key methods are instances of the batched ones. A file is saved and loaded in one step. SQLite is in its default
journal mode (rollback, not WAL). The databases, servers and drivers are external and modelled from what the code asks of them.

## 4. What the checks found

1. `InMemoryOpenRace` — `open()` (`in_memory.py:84`) tests and resets without the lock. Of two
   threads that open a store, or two tasks that await `aopen()`, the slower one throws away what
   was written after the faster one returned; `base.py:386` asks for repeated
   calls to be safe. Within `with store:` around all users the contract holds: `ImplementsContract`.
2. `PostgresOverwrite` — the comment at `postgres.py:297` says that a concurrent
   `set`/`set_many` blocks until a conditional batch commits. An overwriting one (the default) takes no
   advisory lock and does not. A `skip` may then replace a row, a `raise` write over one, a `merge` lose fields.
   `ServerRaces` shows that the claim holds among conditional batches.
3. `CacheEviction` — `get`, `get_many` and `get_or_compute` delete an expired entry by key without looking
   again (`cache.py:248`), so a value another thread has set in between is lost. `CacheRaces` shows what remains true:
   no stale value is ever answered, and keys that only one thread uses are safe.
4. `SQLiteWedged` — a write that ends with "database is locked" is not rolled back (`sqlite.py:848`, `860`): the
   transaction `sqlite3` has begun stays open and keeps its locks. After two timeouts, one on each connection, both
   keep each other from committing although no call runs; `docs/docs/uguide/store.md:37` lets callers mix sync and async
   calls freely. With one kind of call only, `ConnectionsAgree` and `Contract` hold.
5. `HttpEndlessDelay` — `float()` accepts `inf` and `nan` (`http/httpx/method.py:928`). On `Retry-After: inf` the async call
   sleeps for ever; the sync one raises the `OverflowError` of `time.sleep`. `docs/docs/uguide/http.md:27` has a request retried until it
   succeeds or raises. `CallsEnd` shows that this is the only call that does not end, if its requests do.

Found while reading, or excluded by name from a property, too small for a run of its own:

- *Contract.* `base.py:54` says every method, `close` included, raises until the store has been opened, while `close()`,
  `get_many([])` and `delete_many([])` do not (the contract has `Vacuous` for the latter two).
- *Reopening.* `docs/docs/uguide/store.md:253` says that a `BasePostgresStore` does not reopen a closed connection when it is entered again and that
  a new store must be made. `open()` connects whenever the store is closed (`postgres.py:131`), a test has it so
  (`tests/unit/store/test_postgres.py:1217`), and `base.py:386` says so of every store. `Lifecycle` reopens PostgreSQL stores like the others, and
  `UsesFindTheTable` holds for them: the guide is out of date.
- *Lifecycle.* Two overlapping opens, or two overlapping closes, leave a connection behind that nothing closes (`raced`); so does
  a PostgreSQL store whose CREATE TABLE fails, and a Redis client that a call uses after a close has met it, which connects again (`mishap`). `aclose()` while a task connects leaves an async
  connection in a closed store, which only a later close releases (`CloseReleases` shows that it does). DuckDB's
  `open()` says the store is open before it has its table (`duckdb.py:191`).
- *SQLite.* A store on the default database `:memory:` opens two databases, one for the sync connection
  (`sqlite.py:232`) and one for the async connection (`sqlite.py:206`), so `aget()` does not see what `set()` wrote.
- *Files.* `get` that races with a delete raises `FileNotFoundError` (`file.py:129`).
- *Cache, HTTP.* `get_or_compute` with a negative time-to-live runs the function before it raises. The per-call `timeout` of
  `HttpClient.request` is ignored, as `send_request` uses `timeout` only for a client of its own; a `Retry-After` that is negative or NaN ends
  the sync call with a `ValueError` from `time.sleep()` that the docstring does not list, while the async call goes on at once on a negative one.
  A 2xx that is listed in `retry_status_codes` is retried, and the last one returned (`method.py:452`).
- *Records.* With fewer than 128 registers the HyperLogLog constant is `0.5 * m` (`value_frequency.py:77`) where 0.67 to 0.71
  is meant, so estimates are off by a factor of up to `m`. A tuple that holds a list passes `isinstance(value, Hashable)`
  (`metadata_stats.py:120`) and then fails in `set.add`. A record store's filter for `None` also matches records without the key
  (`record/store/record.py:63`).

## 5. Proofs

`InMemoryStore_proofs` proves, for every set of keys, fields, values, threads and calls:

- `TypeSafety`: `Spec => []TypeOK`;
- `PlansStayCurrent`: `Spec => []PlannedWritesAreCurrent`, with `open` and `close` racing;
- `ImplementsContract`: `Spec => Contract`, the refinement of `KVStore` by the behaviours that are `scoped`.

*Assumptions.* Only those the modules name: `Absent` is no dict, `NoThread` is no
thread, `Requests` are well-formed calls.

*Argument.* `TypeOK` is not inductive: which local a step uses depends on the phase, and what a step may write on the
lock. The invariant is `Base == TypeOK /\ PhaseInv /\ LockInv`, where `PhaseInv` ties phases
to methods and locals, and `LockInv` says that exactly the thread between `Acquire` and `Leave`
holds the lock. `PlannedWritesAreCurrent` is preserved on top of `Base` and `ResolveInv`: a
thread in phase "contains" or "write" holds the lock, so no other thread changes `data` but an `open()`, which empties it,
and then nothing is overwritten. `ResolveInv` says so of the phase "contains": a key that is there now was there when its turn came in `contains_many`,
with the value the bound `get` will read. The refinement places a write's instant at the step that plans it: `AbsData`
is the dict with the holder's remaining writes applied, so that each single write is a
stutter (`StoredStep`). It needs `ScopeInv`, also inductive: while a data method runs, no `open` or `close`
does, so the flag tested before the lock is still valid inside it. Where it is not
`scoped` the refinement is false (run `InMemoryOpenRace`).

`ServerStores_proofs` proves what the run `ServerRaces` checks but for the liveness, for every set of clients, keys, fields, values, calls and sites,
and every `BatchSize`:

- `TypeSafety`: `FairSpec => []TypeOK`;
- `LocksFollowPhases`: `FairSpec => [](OnPostgres => LocksInv /\ KeysApart)`, who holds which advisory lock in which phase, which no run checks;
- `KeySetAgrees` and `ScansAreComplete`: `FairSpec => []KeySetMatchesData` and `FairSpec => []ScansComplete`;
- `GuardedBatchesDoNotDeadlock`: `FairSpec => []DeadlocksNeedUnlockedWriter`, for finitely many sessions;
- `ImplementsContract`: `FairSpec => Contract`, for finitely many sessions;
- `RedisKeySetAgrees`, `RedisScansAreComplete`, `RedisImplementsContract`: the same of a Redis server by itself (`Redis!Spec`), without fairness and for
  any number of clients. The Redis part of a site takes its steps (`OnRedisStep`).

*Assumptions.* `Absent` is no dict, keys are integers (their hashes, by which the locks are ordered), `BatchSize` is positive, sites hold well-formed calls; a
server has finitely many sessions where the theorem says so. There is no counterpart of the in-memory store's
`scoped`, as these stores are open throughout, and none of its lock, as Redis has none.

*Argument for Redis.* `RedisBase`, that is `TypeOK`, the phases and `KeySetMatchesData`, is inductive. On top of it `RedisCurrentInv` says that a client whose watched keys nobody
has touched still knows the truth: `found` is the conflicts there are now, `got` the values there are now. Another
client's `SET` or `DEL` either marks it or leaves its keys alone (`RedisWatchersKeep`); a `DEL` of a key that does not
exist marks nobody, and changes nothing either. So the plan of an EXEC that is let through equals the plan made at that
instant (`RedisPlanIsCurrent`), which is where the contract's step is placed; every `WATCH`, read and retry is a stutter, and `clear` is a listing
and a `delete_many`. `RedisScanInv` says where the keys a scan owes are: yielded, or in a batch to come.

*Argument for PostgreSQL.* `PgBase` says which advisory locks a session holds in which phase (`LocksOf`), which rows
(`RowsOf`), and what its next statement waits for (`StatementOf`). A session in "lock" holds locks of smaller keys only than any it still wants, so a ring of
waiting sessions would have a greatest wanted key (`FiniteMaximum`, the least-number principle; a ring of finitely many
sessions wants finitely many keys), whose holder waits for a greater one still. On top of it `CurrentOf`: among conditional batches a
session that holds the advisory locks of all its keys still sees the rows it has read, since every other writer would need one
of them. So the batch decides, at its commit, what the contract decides at that instant.

`LazyConnection_proofs` proves what `Lifecycle` checks but for the liveness, for every set of users and sites and any `MaxConns`:

- `TypeSafety`: `FairSpec => []TypeOK`;
- `ConnectionsAreKept`: `FairSpec => []NothingOrphaned`;
- `CloseLeavesNothing` and `UsesAreServed`: `FairSpec => CloseReleases` and `FairSpec => UsesFindTheTable`, the two action properties.

*Assumptions.* `SitesAssumption`: the calls exist, and the users of a DuckDB store are threads, since its async methods run the
sync ones in worker threads. `MaxConns` is a number: it bounds what is open at a time, and where it is reached no step is forced.

*Argument.* The four properties need one invariant, in three layers. `UserInv` holds always: which call a phase belongs to (`PhaseOf`), that
`_aconn_lock` is held by exactly the task that connects or creates the table (`LockOf`), that a call let into an open store
keeps it open or has met a close (`AdmittedOf`), that any two users in a call have met each other (`PairOf`), and that
`_conn` and `_aconn` are never the same connection. `UnracedInv` holds until two opens or two closes overlap: then at most one open and
one close are under way, and the phases tell which of the connections is open (`ConnOf`, `OpenConn`), that the table is there
(`TableInv`), that `_aschema_ready` is true of the connection there is (`ReadyInv`) and that what a task was given is still the
store's (`GivenOf`). `StrayInv` adds, while the behaviour is not `Strayed`, that nothing else is open. A close with an empty
`met` is alone, by `PairOf`, and the invariant of the phase it ends in leaves no connection.

`Cache_proofs` proves what `CacheRaces` checks, for every set of keys, threads and calls, any times-to-live and any `MaxNow`:

- `TypeSafety`: `Spec => []TypeOK`;
- `ImplementsContract`: `Spec => Contract`, the refinement of `TTLMap`.

*Assumptions.* `Absent` is no entry, the default time-to-live is a number that is not negative or `Never`, `MaxNow` is a number; a request uses the fields
its method has, and a key outside `Shared` is used by one thread.

*Argument.* The abstract map is what is alive in the store now, so that time alone removes entries. A lookup is placed where it reads, and answers
where it judges; until then what it has read may die but not come back (`DeadLater`, `AliveTwice`). `KeptOf`: what it has read of a private key is
still in the store, or deleted, so an eviction removes only what is dead (a stutter) or a key of several threads (`Forget`). `MissOf`: after a miss everything
read stays absent or dead, which is what allows `get_or_compute` to store at the end. An entry is stamped where the clock is read (`Stamp`) and
lands where the store is written, both steps of the contract.

`HttpClient_proofs` proves what `HttpRequests` checks but for the liveness, for every set of callers, requests, outcomes and budgets:
`TypeSafety`, `DelaysDouble` (`BackoffDoubles`), `BudgetIsKept` (`RetryBudget`) and `NoClientLeaks` (`ClientsClosed`). *Argument.*
`BudgetOf` says what `attempt`, `sent` and `delay` are in each phase of the loop; the two failure branches, which count and compute in opposite
orders, both re-establish it at "sleep". `RetryBudget` and `ClientsClosed` are inductive together with it.

`EmbeddedStores_proofs` proves what `EmbeddedRaces` checks but for the liveness, for every set of threads, keys, calls and
deployments, any `BatchSize` and any number of crashes:

- `TypeSafety`: `StoreSpec => []TypeOK`;
- `ConnectionsDoAgree`: `StoreSpec => []ConnectionsAgree`, of SQLite's two connections;
- `ScansAreComplete`: `StoreSpec => []ScansComplete`, the three ways to iterate;
- `DecisionsDoHold`: `StoreSpec => []DecisionsHold`, the callers among whom a batch decides and writes in one go;
- `ImplementsContract`: `StoreSpec => Contract`, the refinement of `DurableStore` by the deployments that are `Transactional`.

*Assumptions.* Keys are finitely many integers, for `ORDER BY` and `OFFSET`; deployments hold well-formed calls and name one of the
four backends, and only SQLite is called by tasks; only a `set_many` brings items; what a serializer refuses is a value. The contract also needs that
merging two storable dicts gives a storable one (`UnstorableAssumption`), or a batch the contract accepts could fail halfway. The code has it: `{**old, **new}` has no field that
`old` and `new` have not, and pickle, JSON and the others refuse a dict for one of its fields.

*Argument.* `Inv` has a part that holds of every backend (`Shape`: types, what a caller at rest has forgotten, that nothing refused waits
for its commit) and one per backend (`Own`). `FilePhase`, `LmdbPhase`, `DuckPhase` and `SqlPhase` say which phase belongs to which
method and who is in which lock; `FileCurrent`, `SqlCurrent` and the last conjuncts of `LmdbPhase` and `DuckPhase` that what was read is
still so, since every other writer would have to be in the same lock. `OneWriter`: rows wait for their commit on one connection at a time, so a commit does not
change what its own connection sees, and the other one sees them written (`CommitFacts`). For the scans, `Listing`, `Pages` and `Cursor` say between two of its steps
what a scan has yielded and what is still to come. `Pages` counts: while no smaller key was deleted, a key that was there all the time and has not come
is at or after the offset (`Before`, by the cardinality of the smaller keys), and a page shorter than `BatchSize` ends at or after the last key
(`ShortPage`). Each of the three survives any write of another caller (`PagesNoted`, `ListingNoted`, `CursorNoted`) and its own next step
(`PagesRead`, `ListingRead`, `CursorRead`).

*Argument for the contract.* Each backend has one instant at which a call takes effect, and every other step of it is a stutter. LMDB's is the commit of its write transaction, which
nobody else can enter (`LmdbContract`). DuckDB's is where it has decided what to write: the rows go in one by one, but under the lock, so `AbsData` is the table with
the rest of the batch (`Pending`) and `AbsAnswer` already the answer; each row is a stutter (`Decided`, `DecidedNext`). A crash between two rows, or a row whose value is refused (`Spoiled`), would undo the
instant, and the property leaves both out for DuckDB. SQLite's is
the `SELECT` of a read and the `COMMIT` of a write (`SyncContract`). `Inv` does not suffice there: it says that what was read is
still so, not that what waits for the commit is the whole effect of the call. `SyncInv` adds it: while all callers use the sync connection, the async one holds nothing, no write has
failed, and at "commit" the uncommitted rows are exactly what the contract writes now (`work["sync"] = KV!Effect(call[t], data)`). It is inductive relative
to `Inv` (`SyncInvKept`). A crash loses every call that has not been answered, and with it what was not committed: the contract's crash (`CrashContract`). LMDB promises more
than the other two: a batch with a refused value fails without effect.

`RecordAnalysis_proofs` proves three of the ten invariants `Records` checks, for every set of streams, every hash and every number of bands and rows:

- `TypeSafety`: `Spec => []TypeOK`;
- `GroupsAreComponents`: `Spec => []NearGroupsAreComponents`, the union-find of `near_dedup.py`;
- `CountsEveryRepeat`: `Spec => []NeverUndercounts`, the Bloom filter of `dedup_approx.py`.

*Assumptions.* `NumBands` is positive and divides `NumHashes`, as the code demands; an input has a finite length.

*Argument.* `parent` says little by itself: path halving changes it all the time, and between a find and its link it changes under the find's cursor. The
invariant `RootsInv` says that there are a root and a depth for each record, which the code does not keep, such that parents lead up to roots (`Forest`; the depth
excludes a ring of parents, in which a find would never end), no set that keeps common bands together separates a record from its
root (`Sound`), records with a common band met so far have one root (`Complete`), and both finds of a union still look for the roots they set out for (`OnTheWay`).
Halving keeps root and depth; a link moves the records of one root to the other, and makes them deeper. When all bands are done, `Sound` and `Complete` together make the
roots' classes the connected components, and `GroupsOf` says that `groups` holds them in order of first record. TLC checked this invariant on the instance of `Records`, with
the roots and depths computed from `parent`, before it was proved. `ResultInv` follows the selection: what is returned are the groups
of two records or more among those looked at. `CountInv` says that the filter has the hash of every record read.

`StoreData_proofs` holds the facts about batches the store proofs rest on: types of
`Merged`, `ToWrite` and `Stored`, and that writes may be done key by key.

*Only model-checked.* Liveness (`LockReleased`, `SomeoneFinishes`, `CallsEnd`, `LockFreed`), which is out of the prover's reach. Seven properties of `Records`:
`DuplicatesExact`, `CollisionsExact`, `DiffIsAnUpdatePlan`, `OrphansIgnoreOrder` and `SortKeepsTies` say what a fold or a filter over the whole stream
computes, `SampleTellsTheTruth` and `EstimateIgnoresOrder` what folds over sets and powers of two do: each is induction over data, which the provers cannot do. (The three that are proved compare the
stream with itself, position by position.) The runs that expect a violation are counterexamples, and need no proof.

## 6. Plan

In order of importance.

1. `PostgresTasks`: tasks that share one connection, where advisory locks are re-entrant and transaction blocks nest; belongs
   to `PostgresStore` as a second level (tasks, sessions), like the tasks of `SQLiteStore`.
2. Cancellation of a task in `_ensure_aconn`, `aclose` and between the statements of a batch.
3. `set_batches` and the record stores over `KVStore`: a failure in a later batch.
4. DuckDB's crash in the middle of a batch as a property: which part of a batch a crash may leave, as its rows are committed one by one.

## 7. Not modelled

- *SQLite*: the fallback to worker threads when aiosqlite is not installed (it is the thread deployments), chunks of 900 keys, the
  two databases of `:memory:` in the data (the lifecycle has them), WAL mode.
- *Files, SQLite*: what an overwrite or a delete that takes no lock does to a batch it meets is in the models, and no property promises
  anything of it: `DecisionsHold` is stated for the callers that exclude each other.
- *HTTP*: the content of requests and responses, streaming, the timeouts of httpx.
- *PostgreSQL*: tasks on one connection, colliding hashes. *Redis*: replies that are lost. *LMDB*: the map size and opening the environment.
- `NullStore` keeps no state; URIs, registry, factories, the default cache, cache keys and `http/requests.py` construct objects or
  derive strings, without state of their own; `utils`, `testing`, fake records and the printing of statistics are helpers. Unit tests
  reach them.
