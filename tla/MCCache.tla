-------------------------------- MODULE MCCache --------------------------------
(***************************************************************************)
(* A small instance of Cache: two threads share one key, and one of them   *)
(* has a key of its own.                                                   *)
(***************************************************************************)
EXTENDS Cache, TLC

CONSTANTS k1, k2, v1, v2, t1, t2

Lookup(K)       == [NoCall EXCEPT !.op = "try_get_many", !.keys = K]
Set(items, ttl) == [NoCall EXCEPT !.op = "set_many", !.items = items, !.ttl = ttl]
Drop1(K)        == [NoCall EXCEPT !.op = "delete_many", !.keys = K]
Compute1(ttl)   == [NoCall EXCEPT !.op = "get_or_compute", !.keys = {k1}, !.ttl = ttl]

SharedCalls ==
    {Lookup({k1}), Set(k1 :> v1, Unset), Set(k1 :> v2, 0), Drop1({k1}), NoCall}
    \cup {Compute1(ttl) : ttl \in {Unset, 0, -1}}

PrivateCalls ==
    {Lookup({k1, k2}), Set(k1 :> v2 @@ k2 :> v2, Never), Set(k2 :> v1, Unset),
     Set(Nothing, -1), Set(k1 :> v2, -1), Compute1(2)}

MCRequests == t1 :> SharedCalls @@ t2 :> PrivateCalls
=============================================================================
