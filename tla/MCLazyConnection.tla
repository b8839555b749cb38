--------------------------- MODULE MCLazyConnection ---------------------------
(***************************************************************************)
(* Small deployments of LazyConnection: tasks of one loop and the thread   *)
(* that runs it, and OS threads.                                           *)
(***************************************************************************)
EXTENDS LazyConnection, TLC

CONSTANTS u1, u2, u3

Users3(a, b, c) == u1 :> a @@ u2 :> b @@ u3 :> c

\* One task opens and closes, two use; and a loop's thread does.
Tasks(backend, a, b, c) ==
    [backend |-> backend, via |-> Users3("task", "task", "task"), calls |-> Users3(a, b, c)]
Loop(backend, a, b, c) ==
    [backend |-> backend, via |-> Users3("thread", "task", "task"), calls |-> Users3(a, b, c)]
OSThreads(backend, a, b, c) ==
    [backend |-> backend, via |-> Users3("thread", "thread", "thread"), calls |-> Users3(a, b, c)]

MCSites ==
    {Tasks(b, {"open", "aclose"}, {"use"}, {"use"}) : b \in {"memory", "postgres"}}
    \cup {Tasks("redis", {"open", "aclose"}, {"use"}, {"use", "aclose"}),
          Tasks("sqlite", {"open"}, {"use", "close"}, {"aclose"}),
          OSThreads("sqlite", {"open", "close"}, {"open"}, {"use"})}
    \cup {Loop(b, {"open", "close"}, {"use", "close"}, {"use"}) : b \in {"memory", "redis"}}
    \cup {OSThreads(b, {"open", "close"}, {"use"}, {"use"}) : b \in {"postgres", "duckdb"}}
=============================================================================
