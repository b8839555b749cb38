--------------------------- MODULE MCInMemoryStore ---------------------------
(***************************************************************************)
(* Small instances of InMemoryStore: which calls the threads make.         *)
(***************************************************************************)
EXTENDS InMemoryStore, StoreCalls

AllCalls == DataCalls \cup LifecycleCalls

\* Two threads that open the store and write to it.
OpenCalls == {Call("open"), Set(Both, "overwrite")}
=============================================================================
