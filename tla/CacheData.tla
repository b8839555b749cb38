------------------------------- MODULE CacheData -------------------------------
(***************************************************************************)
(* The entries of a cache and the calls made on it.  An entry is a value   *)
(* and the time it expires at; an expiry in the past is as good as none.   *)
(***************************************************************************)
EXTENDS Integers

CONSTANTS Keys, Vals, Threads,
          Absent,    \* no entry
          Never,     \* the time-to-live of an entry that does not expire
          Unset,     \* a time-to-live that is not given
          DefaultTtl,
          Requests,  \* Requests[t]: the calls thread t may make
          Shared,    \* the keys more than one thread uses
          MaxNow     \* bound: the clock stops here

Ttls == Int \cup {Never, Unset}

Entries == [value : Vals, expires_at : Int \cup {Never}]

ASSUME AbsentAssumption == Absent \notin Entries

\* A call: a lookup of some keys, a batch of writes, a batch of deletions, a
\* clear, or a get_or_compute, whose keys hold its one key.
Request == [op : {"try_get_many", "set_many", "delete_many", "clear", "get_or_compute"},
            keys : SUBSET Keys, items : UNION {[K -> Vals] : K \in SUBSET Keys},
            ttl : Ttls]

Nothing == [k \in {} |-> Absent]
NoCall == [op |-> "clear", keys |-> {}, items |-> Nothing, ttl |-> Unset]

Ok         == [kind |-> "ok"]
NoAnswer   == [kind |-> "none"]
ValueError == [kind |-> "ValueError"]
Raised     == [kind |-> "raised"]  \* the exception of the function
Hits(m)    == [kind |-> "hits", hits |-> m]

Ttl(r) == IF r.ttl = Unset THEN DefaultTtl ELSE r.ttl
Invalid(r) == Ttl(r) # Never /\ Ttl(r) < 0

\* The time an entry written by r with a lifetime from now on expires at.
Deadline(r, now) == IF Ttl(r) = Never THEN Never ELSE now + Ttl(r)

Dead(e, now) == e # Absent /\ e.expires_at # Never /\ now > e.expires_at

\* The entries of m that are alive.
Alive(m, now) == [k \in DOMAIN m |-> IF Dead(m[k], now) THEN Absent ELSE m[k]]

\* The values of the entries of m.
Values(m) == [k \in {i \in DOMAIN m : m[i] # Absent} |-> m[k].value]

Stamped(items, r, now) ==
    [k \in DOMAIN items |-> [value |-> items[k], expires_at |-> Deadline(r, now)]]

Overwritten(m, w) == [k \in Keys |-> IF k \in DOMAIN w THEN w[k] ELSE m[k]]
=============================================================================
