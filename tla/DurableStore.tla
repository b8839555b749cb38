----------------------------- MODULE DurableStore -----------------------------
(***************************************************************************)
(* What BaseStore promises of a store that keeps its pairs on disk: the    *)
(* calls of KVStore, plus the two ways a call may end without an answer.   *)
(* A batch whose value cannot be serialized fails, and a crash of the      *)
(* process ends every call that is running; neither changes a pair.        *)
(***************************************************************************)
EXTENDS KVStore

CONSTANT Unstorable  \* the values the backend cannot serialize

\* The exception of a serializer, or of a database.
Failed == [kind |-> "failed"]
\* The process died: the caller never hears of the outcome.
Lost == [kind |-> "lost"]

Spoiled(r) == \E k \in DOMAIN r.items : r.items[k] \in Unstorable

Fail(t) ==
    /\ call[t].op = "set_many" /\ Spoiled(call[t])
    /\ Ends(t, Failed)
    /\ UNCHANGED <<data, closed>>

Crash ==
    /\ answer' = [t \in Threads |-> IF Idle(t) THEN answer[t] ELSE Lost]
    /\ UNCHANGED <<data, closed, call>>

DurableNext == Next \/ Crash \/ \E t \in Threads : Fail(t)

DurableSpec == Init /\ [][DurableNext]_vars
=============================================================================
