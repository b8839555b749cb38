--------------------------- MODULE MCEmbeddedStores ---------------------------
(***************************************************************************)
(* Small deployments of the embedded stores: which threads make which      *)
(* calls, on which backend and, for SQLite, by which connection.           *)
(***************************************************************************)
EXTENDS EmbeddedStores, StoreCalls

CONSTANT f3

\* A value no serializer takes, and a batch that has it behind a good one.
Bad   == f3 :> v1
Mixed == k1 :> B @@ k2 :> Bad
MCUnstorable == {v \in Value : f3 \in DOMAIN v}

Iterate == Call("iter_batches")
Keyed   == {Set(Both, "raise"), Set(One, "skip"), Set(Both, "merge"), Set(One, "merge")}
Blind   == {Set(Both, "overwrite"), Set(One, "overwrite")}
Drops   == {KeyCall("delete", {k1}), KeyCall("delete_many", {k1, k2}), Call("clear")}
Looks   == {KeyCall("get", {k1}), KeyCall("get_many", {k1, k2}),
            KeyCall("contains_many", {k1, k2}), Call("count")}
Spoils  == {Set(Mixed, "overwrite"), Set(Mixed, "skip")}
Skips   == {Set(NoItems, "merge"), KeyCall("delete_many", {})}

Filter1 == [Call("filter") EXCEPT !.filters = A]

Threads2(a, b) == t1 :> a @@ t2 :> b

Site(backend, a, b) ==
    [backend |-> backend, calls |-> Threads2(a, b), via |-> Threads2("thread", "thread")]

\* A SQLite store: whom the calls are made by.
Via(a, b, calls_a, calls_b) ==
    [backend |-> "sqlite", calls |-> Threads2(calls_a, calls_b), via |-> Threads2(a, b)]

\* The backends whose methods run in OS threads.
ThreadSites ==
    {Site("file", {Filter1}, {Set(Both, "overwrite"), KeyCall("delete", {k1})}),
     Site("lmdb", {Filter1}, {Set(Both, "overwrite"), Set(One, "overwrite")}),
     Site("file", Keyed, {Set(Both, "merge"), Set(One, "raise")} \cup Looks),
     Site("file", {Set(Both, "merge"), Set(Mixed, "skip"), Call("clear"),
                   KeyCall("delete_many", {k1, k2})},
                  {Set(Both, "overwrite"), Set(Mixed, "overwrite"), KeyCall("delete", {k1}),
                   KeyCall("get", {k1})}),
     Site("lmdb", Keyed \cup Looks, {Set(One, "merge")} \cup Blind \cup Drops \cup Spoils \cup Skips),
     Site("duckdb", Keyed \cup Looks \cup {Filter1}, {Set(One, "merge")} \cup Blind \cup Drops \cup Skips),
     Site("duckdb", {Set(Both, "merge")}, Spoils),
     Via("thread", "thread", Keyed \cup Looks \cup {Filter1},
         {Set(Both, "merge")} \cup Blind \cup Drops \cup Skips)}

Changes == {Set(Both, "overwrite"), KeyCall("delete", {k1}), KeyCall("delete", {k2})}

\* A scan beside a writer.
ScanSites ==
    {Site(b, {Iterate}, Changes) : b \in {"file", "lmdb", "duckdb", "sqlite"}}
    \cup {Via("task", "task", {Iterate}, Changes),
          Via("task", "loop", {Iterate}, {Set(Both, "overwrite"), KeyCall("delete", {k1})})}

\* Tasks with one another, and with sync calls of threads and of tasks.
TaskSites ==
    {Via("task", "task", {Set(Both, "merge"), Set(One, "skip")},
                         {Set(One, "merge"), Set(Both, "raise"), KeyCall("get_many", {k1, k2})}),
     Via("task", "task", {Set(Mixed, "overwrite"), Set(Mixed, "skip"), Call("clear")},
                         {Set(One, "merge"), KeyCall("get_many", {k1, k2}), Call("count")}),
     Via("task", "thread", {Set(Both, "overwrite"), Set(Mixed, "overwrite"),
                            KeyCall("get_many", {k1, k2})},
                           {Set(One, "merge"), Call("count")}),
     Via("task", "loop", {Set(One, "merge"), KeyCall("get_many", {k1, k2})},
                         {Set(Both, "overwrite"), Call("count")})}

MCSites == ThreadSites \cup ScanSites \cup TaskSites

\* Plain overwrites and reads on both connections of one SQLite store.
PlainSites ==
    {Via("task", "thread", {Set(One, "overwrite"), KeyCall("get", {k1})},
                           {Set(One, "overwrite"), KeyCall("get", {k1})})}
=============================================================================
