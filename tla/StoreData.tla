------------------------------ MODULE StoreData ------------------------------
(***************************************************************************)
(* The data every backend of persista.store agrees on: a store maps keys   *)
(* to dict values, a batch maps some keys to values, and a conflict        *)
(* strategy decides what a batch does to the keys that are already there.  *)
(*                                                                         *)
(* A dict value is a function from a subset of Fields to Vals, so that     *)
(* shallow merges and field filters mean what they mean in the code.  The  *)
(* key order of a dict, and deep copies of values, are abstracted.         *)
(***************************************************************************)
EXTENDS FiniteSets

CONSTANTS Keys,    \* the keys clients use
          Fields,  \* the field names a dict value may have
          Vals,    \* the values of a field
          Absent   \* what a key that is not in the store maps to

\* Every dict, the empty one included.
Value == UNION {[F -> Vals] : F \in SUBSET Fields}

ASSUME AbsentAssumption == Absent \notin Value

Slot     == Value \cup {Absent}
Contents == [Keys -> Slot]
Items    == UNION {[K -> Value] : K \in SUBSET Keys}
\* Pending writes to some keys; writing Absent deletes the key.
Writes   == UNION {[K -> Slot] : K \in SUBSET Keys}

OnConflict == {"raise", "skip", "overwrite", "merge"}

EmptyStore == [k \in Keys |-> Absent]

Present(d) == {k \in Keys : d[k] # Absent}

\* {**old, **new}
Merged(old, new) ==
    [f \in DOMAIN old \cup DOMAIN new |->
        IF f \in DOMAIN new THEN new[f] ELSE old[f]]

\* get(key) or {}
OrEmpty(v) == IF v = Absent THEN [f \in {} |-> f] ELSE v

Conflicts(items, found) == DOMAIN items \cap found

Refuses(items, on_conflict, found) ==
    on_conflict = "raise" /\ Conflicts(items, found) # {}

\* The result of resolve_conflicts when it does not raise: found is what
\* contains_many answered, d what get reads afterwards.
ToWrite(items, on_conflict, found, d) ==
    [k \in {i \in DOMAIN items : on_conflict = "skip" => i \notin found} |->
        IF k \in found THEN Merged(OrEmpty(d[k]), items[k]) ELSE items[k]]

\* The contents after the writes w.
Stored(d, w) == [k \in Keys |-> IF k \in DOMAIN w THEN w[k] ELSE d[k]]

\* all(value.get(key) == val for key, val in field_filters.items())
Matches(v, filters) ==
    \A f \in DOMAIN filters : f \in DOMAIN v /\ v[f] = filters[f]
=============================================================================
