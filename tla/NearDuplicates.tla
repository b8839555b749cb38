---------------------------- MODULE NearDuplicates ----------------------------
(***************************************************************************)
(* find_near_duplicate_record_ids: a MinHash signature per record, then,   *)
(* band by band, a union-find structure that merges the records with an    *)
(* identical band, then the groups, of which those of one record are       *)
(* dropped.  One step of the model is one turn of a loop of the code.      *)
(***************************************************************************)
EXTENDS RecordStreams

CONSTANTS NumHashes, NumBands,
          BaseHash   \* BaseHash[seed][<<key, value>>]: external, SHA-256

ASSUME BandsAssumption == NumBands \in Nat \ {0} /\ NumHashes % NumBands = 0

VARIABLES phase,     \* "read", "merge", "group", "select" or "done"
          parent,    \* _UnionFind._parent
          band, at,  \* the band, and the record of it, that is next
          buckets,   \* buckets[key]: the first record with that band
          cursor,    \* find(): the nodes the two finds have come to, or <<>>
          near,      \* the groups, as positions in the stream
          next,      \* the group that is looked at next
          returned     \* what is returned, as positions in the stream

nearVars == <<phase, parent, band, at, buckets, cursor, near, next, returned>>
vars == <<input, stream, single, nearVars>>

RowsPerBand == NumHashes \div NumBands

Sentinel == -1

\* Empty metadata has no items to hash.
Signature(metadata) ==
    [seed \in 1..NumHashes |->
        IF DOMAIN metadata = {} THEN Sentinel
        ELSE Min({BaseHash[seed][<<f, metadata[f]>>] : f \in DOMAIN metadata})]

BandOf(metadata, b) ==
    [row \in 1..RowsPerBand |-> Signature(metadata)[(b - 1) * RowsPerBand + row]]

Band(i, b) == BandOf(stream[i].metadata, b)

Init ==
    /\ StreamInit
    /\ phase = "read" /\ parent = <<>> /\ band = 1 /\ at = 1
    /\ buckets = [key \in {} |-> 0] /\ cursor = <<>> /\ near = <<>>
    /\ next = 1 /\ returned = <<>>

Read ==
    /\ phase = "read" /\ Len(stream) < input.length
    /\ \E r \in input.records : Consume(r)
    /\ UNCHANGED <<input, nearVars>>

\* The stream is exhausted.
Merge ==
    /\ phase = "read"
    /\ phase' = "merge"
    /\ parent' = [i \in DOMAIN stream |-> i]
    /\ UNCHANGED <<input, stream, single, band, at, buckets, cursor, near, next, returned>>

InBand == phase = "merge" /\ band <= NumBands /\ at <= Len(stream) /\ cursor = <<>>

\* The sentinel, and the first record of a bucket, merge nothing.
Bucket ==
    LET key == Band(at, band) IN
    /\ InBand
    /\ \/ key[1] = Sentinel /\ UNCHANGED buckets
       \/ /\ key[1] # Sentinel /\ key \notin DOMAIN buckets
          /\ buckets' = [k \in DOMAIN buckets \cup {key} |-> IF k = key THEN at ELSE buckets[k]]
    /\ at' = at + 1
    /\ UNCHANGED <<input, stream, single, phase, parent, band, cursor, near, next, returned>>

\* union(i, buckets[band_key]) begins with two finds.
StartUnion ==
    LET key == Band(at, band) IN
    /\ InBand /\ key[1] # Sentinel /\ key \in DOMAIN buckets
    /\ cursor' = <<at, buckets[key]>>
    /\ UNCHANGED <<input, stream, single, phase, parent, band, at, buckets, near, next, returned>>

\* Where the find of i goes on: to its parent's parent.
Halved(i) == parent[parent[i]]

\* One turn of the while loop of find(), which halves the path on its way.
Find ==
    \E n \in DOMAIN cursor :
        LET i == cursor[n] IN
        /\ \A m \in 1..(n - 1) : parent[cursor[m]] = cursor[m]
        /\ parent[i] # i
        /\ parent' = [parent EXCEPT ![i] = Halved(i)]
        /\ cursor' = [cursor EXCEPT ![n] = Halved(i)]
        /\ UNCHANGED <<input, stream, single, phase, band, at, buckets, near, next, returned>>

Found == \A n \in DOMAIN cursor : parent[cursor[n]] = cursor[n]

\* Mutant of Link: the node itself is hung up, not its root.
LinkNode ==
    /\ phase = "merge" /\ Len(cursor) = 2 /\ Found
    /\ parent' = [parent EXCEPT ![buckets[Band(at, band)]] = cursor[1]]
    /\ cursor' = <<>> /\ at' = at + 1
    /\ UNCHANGED <<input, stream, single, phase, band, buckets, near, next, returned>>

\* self._parent[root_j] = root_i; nothing changes when they are one.
Link ==
    /\ phase = "merge" /\ Len(cursor) = 2 /\ Found
    /\ parent' = [parent EXCEPT ![cursor[2]] = cursor[1]]
    /\ cursor' = <<>> /\ at' = at + 1
    /\ UNCHANGED <<input, stream, single, phase, band, buckets, near, next, returned>>

\* Mutant of NextBand: the buckets of the last band are still there.
NextBandFull ==
    /\ phase = "merge" /\ band <= NumBands /\ at > Len(stream)
    /\ band' = band + 1 /\ at' = 1
    /\ UNCHANGED <<input, stream, single, phase, parent, buckets, cursor, near, next, returned>>

NextBand ==
    /\ phase = "merge" /\ band <= NumBands /\ at > Len(stream)
    /\ band' = band + 1 /\ at' = 1
    /\ buckets' = [key \in {} |-> 0]
    /\ UNCHANGED <<input, stream, single, phase, parent, cursor, near, next, returned>>

Gather ==
    /\ phase = "merge" /\ band > NumBands
    /\ phase' = "group" /\ at' = 1
    /\ UNCHANGED <<input, stream, single, parent, band, buckets, cursor, near, next, returned>>

\* groups.setdefault(union_find.find(i), []).append(record_id)
StartFind ==
    /\ phase = "group" /\ at <= Len(stream) /\ cursor = <<>>
    /\ cursor' = <<at>>
    /\ UNCHANGED <<input, stream, single, phase, parent, band, at, buckets, near, next, returned>>

Place ==
    /\ phase = "group" /\ Len(cursor) = 1 /\ Found
    /\ near' = Appended(near, cursor[1], at)
    /\ cursor' = <<>> /\ at' = at + 1
    /\ UNCHANGED <<input, stream, single, phase, parent, band, buckets, next, returned>>

Select ==
    /\ phase = "group" /\ at > Len(stream)
    /\ phase' = "select"
    /\ UNCHANGED <<input, stream, single, parent, band, at, buckets, cursor, near, next, returned>>

\* [group for group in groups.values() if len(group) > 1]
Keep ==
    /\ phase = "select" /\ next <= Len(near)
    /\ returned' = IF Len(near[next].list) > 1 THEN Append(returned, near[next].list) ELSE returned
    /\ next' = next + 1
    /\ UNCHANGED <<input, stream, single, phase, parent, band, at, buckets, cursor, near>>

Finish ==
    /\ phase = "select" /\ next > Len(near)
    /\ phase' = "done"
    /\ UNCHANGED <<input, stream, single, parent, band, at, buckets, cursor, near, next, returned>>

Next ==
    \/ Read \/ Merge
    \/ Bucket \/ StartUnion \/ Find \/ Link \/ NextBand
    \/ Gather \/ StartFind \/ Place
    \/ Select \/ Keep \/ Finish

Spec == Init /\ [][Next]_vars
=============================================================================
