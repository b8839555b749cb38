---------------------------- MODULE MCServerStores ----------------------------
(***************************************************************************)
(* Small deployments of the server stores: which calls the clients make.   *)
(***************************************************************************)
EXTENDS ServerStores, StoreCalls

RedisCalls ==
    {Set(Both, "raise"), Set(Both, "merge"), Set(Both, "overwrite"),
     Set(One, "skip"), Set(One, "merge"), Set(NoItems, "merge")} \cup
    {KeyCall("delete", {k1}), Call("clear")} \cup
    {KeyCall("get_many", {k1, k2}), KeyCall("contains_many", {k1, k2}), Call("count"),
     [Call("filter") EXCEPT !.filters = A]}

\* Every PostgreSQL method but the overwriting and deleting ones.
BatchCalls ==
    {r \in SetCalls : r.on_conflict # "overwrite"} \cup
    {Set(NoItems, "skip")} \cup ReadCalls

\* Writers with and without advisory locks, and DELETEs.
WriterCalls ==
    {Set(Both, "raise"), Set(Both, "overwrite"), Set(One, "merge"), Set(One, "overwrite"),
     KeyCall("delete", {k1}), KeyCall("delete_many", {k1, k2}), Call("clear")}

MCSites ==
    {[server |-> "redis", calls |-> RedisCalls],
     [server |-> "postgres", calls |-> BatchCalls],
     [server |-> "postgres", calls |-> WriterCalls]}
=============================================================================
