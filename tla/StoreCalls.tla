------------------------------ MODULE StoreCalls ------------------------------
(***************************************************************************)
(* The calls the small instances of the backends make: two keys, and       *)
(* values of one field each, so that a merge shows which writers it saw.   *)
(***************************************************************************)
EXTENDS StoreData, TLC

CONSTANTS k1, k2, f1, f2, v1, t1, t2, t3

NoItems   == [k \in {} |-> Absent]
NoFilters == [f \in {} |-> f]

Call(op)       == [op |-> op, keys |-> {}, items |-> NoItems,
                   on_conflict |-> "overwrite", filters |-> NoFilters]
KeyCall(op, K) == [Call(op) EXCEPT !.keys = K]
Set(items, on_conflict) ==
    [Call("set_many") EXCEPT !.items = items, !.on_conflict = on_conflict]

\* Two values that tell their writers apart and overlap in no field.
A == f1 :> v1
B == f2 :> v1

Both == k1 :> A @@ k2 :> A
One  == k1 :> B

\* Every data method; writes of one and of two keys under every strategy.
SetCalls  == {Set(Both, oc) : oc \in OnConflict} \cup {Set(One, oc) : oc \in OnConflict}
DropCalls == {KeyCall("delete", {k1}), KeyCall("delete_many", {k1, k2}),
              KeyCall("delete_many", {}), Call("clear")}
ReadCalls == {KeyCall("get", {k1}), KeyCall("get_many", {k1, k2}),
              KeyCall("contains_many", {k1, k2}), Call("count"),
              [Call("filter") EXCEPT !.filters = A], Call("iter_batches")}
DataCalls == SetCalls \cup DropCalls \cup ReadCalls

LifecycleCalls == {Call("open"), Call("close")}
=============================================================================
