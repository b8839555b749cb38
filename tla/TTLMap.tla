-------------------------------- MODULE TTLMap --------------------------------
(***************************************************************************)
(* What a Cache promises its callers: a map whose entries disappear at     *)
(* their expiry time, which any thread can look up, write and delete from. *)
(*                                                                         *)
(* A lookup sees the live entries of its keys at one instant and answers   *)
(* with those of them that are still alive when it answers; a write lands  *)
(* at one instant, and the lifetime of what it writes starts at an instant *)
(* of its call.  Between the two, time passes.  An entry of a key that     *)
(* several threads use may be forgotten early; an entry of a private key   *)
(* may not.                                                                *)
(***************************************************************************)
EXTENDS CacheData

VARIABLES live,    \* live[k]: the entry of k, or Absent
          now,     \* the wall clock
          call, answer,
          seen,    \* seen[t]: what t's lookup has seen
          pending  \* pending[t]: the entries t is about to write

vars == <<live, now, call, answer, seen, pending>>

Init ==
    /\ live = [k \in Keys |-> Absent]
    /\ now = 0
    /\ call = [t \in Threads |-> NoCall]
    /\ answer = [t \in Threads |-> Ok]
    /\ seen = [t \in Threads |-> Nothing]
    /\ pending = [t \in Threads |-> Nothing]

Running(t) == answer[t] = NoAnswer

Invoke(t) ==
    /\ ~Running(t)
    /\ \E r \in Requests[t] : call' = [call EXCEPT ![t] = r]
    /\ answer' = [answer EXCEPT ![t] = NoAnswer]
    /\ UNCHANGED <<live, now, seen, pending>>

Ends(t, a) ==
    /\ Running(t)
    /\ answer' = [answer EXCEPT ![t] = a]
    /\ seen' = [seen EXCEPT ![t] = Nothing]
    /\ pending' = [pending EXCEPT ![t] = Nothing]
    /\ UNCHANGED <<now, call>>

Looks(t) == Running(t) /\ call[t].op \in {"try_get_many", "get_or_compute"}

Look(t) ==
    /\ Looks(t) /\ seen[t] = Nothing /\ pending[t] = Nothing
    /\ seen' = [seen EXCEPT ![t] = [k \in call[t].keys |-> live[k]]]
    /\ UNCHANGED <<live, now, call, answer, pending>>

\* A get_or_compute answers here only when it has a hit.
Reply(t) ==
    /\ Looks(t) /\ DOMAIN seen[t] = call[t].keys
    /\ call[t].op = "get_or_compute" => Values(seen[t]) # Nothing
    /\ Ends(t, Hits(Values(seen[t])))
    /\ UNCHANGED live

\* Nothing is stored when the function raises or the time-to-live is invalid.
Fail(t) ==
    /\ \/ /\ call[t].op = "get_or_compute" /\ seen[t] # Nothing /\ Values(seen[t]) = Nothing
          /\ Ends(t, Raised) \/ (Invalid(call[t]) /\ Ends(t, ValueError))
       \/ /\ call[t].op = "set_many" /\ DOMAIN call[t].items # {} /\ Invalid(call[t])
          /\ Ends(t, ValueError)
    /\ UNCHANGED live

\* The lifetime of the entries starts.  After a miss they are what the
\* function returned.
Stamp(t) ==
    /\ Running(t) /\ pending[t] = Nothing
    /\ ~Invalid(call[t]) /\ Ttl(call[t]) # 0
    /\ \/ /\ call[t].op = "set_many"
          /\ pending' = [pending EXCEPT ![t] = Stamped(call[t].items, call[t], now)]
       \/ /\ call[t].op = "get_or_compute" /\ seen[t] # Nothing /\ Values(seen[t]) = Nothing
          /\ \E v \in Vals : pending' = [pending EXCEPT ![t] =
                Stamped([k \in call[t].keys |-> v], call[t], now)]
    /\ seen' = [seen EXCEPT ![t] = Nothing]
    /\ UNCHANGED <<live, now, call, answer>>

Write(t) ==
    /\ pending[t] # Nothing
    /\ live' = Alive(Overwritten(live, pending[t]), now)
    /\ Ends(t, IF call[t].op = "set_many" THEN Ok ELSE Hits(Values(pending[t])))

\* A time-to-live of 0 deletes.
Delete(t) ==
    LET drop(K) == live' = [k \in Keys |-> IF k \in K THEN Absent ELSE live[k]] IN
    \/ call[t].op = "delete_many" /\ drop(call[t].keys) /\ Ends(t, Ok)
    \/ call[t].op = "clear" /\ drop(Keys) /\ Ends(t, Ok)
    \/ call[t].op = "set_many" /\ Ttl(call[t]) = 0 /\ drop(DOMAIN call[t].items) /\ Ends(t, Ok)
    \/ /\ call[t].op = "get_or_compute" /\ Ttl(call[t]) = 0
       /\ seen[t] # Nothing /\ Values(seen[t]) = Nothing
       /\ drop(call[t].keys)
       /\ \E v \in Vals : Ends(t, Hits([k \in call[t].keys |-> v]))

SetNothing(t) ==
    /\ call[t].op = "set_many" /\ DOMAIN call[t].items = {}
    /\ Ends(t, Ok)
    /\ UNCHANGED live

Tick ==
    /\ now < MaxNow
    /\ now' = now + 1
    /\ live' = Alive(live, now')
    /\ seen' = [t \in Threads |-> Alive(seen[t], now')]
    /\ UNCHANGED <<call, answer, pending>>

Forget ==
    /\ \E K \in SUBSET Shared : live' = [k \in Keys |-> IF k \in K THEN Absent ELSE live[k]]
    /\ UNCHANGED <<now, call, answer, seen, pending>>

Next ==
    \/ \E t \in Threads :
        \/ Invoke(t) \/ Look(t) \/ Reply(t) \/ Fail(t) \/ Stamp(t) \/ Write(t)
        \/ Delete(t) \/ SetNothing(t)
    \/ Tick \/ Forget

Spec == Init /\ [][Next]_vars
=============================================================================
