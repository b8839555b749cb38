----------------------------- MODULE RecordStreams -----------------------------
(***************************************************************************)
(* persista.record.analysis: the analyses that read a stream of records    *)
(* once, one record at a time, and keep only what they need of it.  They   *)
(* run here side by side on one stream; `stream`, which no analysis keeps, *)
(* is what their results are compared with.                                *)
(*                                                                         *)
(* Python dicts with an order are sequences of [key, list] pairs.  SHA-256 *)
(* and coola's hash_object and BloomFilter are external: a hash is unique, *)
(* except that values with no registered hasher are hashed by their type.  *)
(***************************************************************************)
EXTENDS RecordViews

CONSTANTS Inputs,       \* the streams: [records, length], a set and a bound
          Fields,       \* the metadata keys
          Unhashable,   \* values Python cannot hash: lists, dicts
          TypeHash,     \* TypeHash[v]: the hash of a value without a hasher
          StrOf,        \* StrOf[v]: str(v), of an unhashable value
          Empty,        \* the empty string
          SampleSize,   \* n_sample_values, or None
          HashOf,       \* HashOf[v]: the digest of a value, as Width bits
          Width, Precision

ASSUME InputAssumption == \A i \in Inputs : i.length \in Nat

VARIABLES input, stream,
          groups,     \* find_duplicate_record_ids
          bloom,      \* count_approx_duplicate_records: the hashes added
          repeats,    \* ... and duplicate_count
          variants,   \* find_id_collisions
          shapes,     \* compute_schema_shapes
          stats,      \* MetadataStats
          counters,   \* compute_value_frequency: the counters
          registers   \* ... and the HyperLogLog registers, per key

single == <<groups, bloom, repeats, variants, shapes, stats, counters, registers>>

\* Mutant of Appended: only neighbours are put together.
AppendedToLast(d, key, x) ==
    IF d # <<>> /\ d[Len(d)].key = key
    THEN [d EXCEPT ![Len(d)].list = Append(@, x)]
    ELSE Append(d, [key |-> key, list |-> <<x>>])

\* d.setdefault(key, []).append(x), on a dict that keeps its order
Appended(d, key, x) ==
    IF \E i \in DOMAIN d : d[i].key = key
    THEN [i \in DOMAIN d |->
            IF d[i].key = key THEN [d[i] EXCEPT !.list = Append(@, x)] ELSE d[i]]
    ELSE Append(d, [key |-> key, list |-> <<x>>])

\* The value lists with two members or more.
Shared(d) == SelectSeq(d, LAMBDA e : Len(e.list) > 1)

-----------------------------------------------------------------------------
Hash(metadata) ==
    [f \in DOMAIN metadata |->
        IF metadata[f] \in DOMAIN TypeHash THEN TypeHash[metadata[f]] ELSE metadata[f]]

\* find_duplicate_record_ids
Group(r) == groups' = Appended(groups, Hash(r.metadata), r.id)

DuplicateIds == LET g == Shared(groups) IN [i \in DOMAIN g |-> g[i].list]

\* Mutant of Count: the filter is asked, and a record that is new is not added.
CountChecked(r) ==
    \E positive \in BOOLEAN :
        /\ Hash(r.metadata) \in bloom => positive
        /\ repeats' = repeats + (IF positive THEN 1 ELSE 0)
        /\ bloom' = IF positive THEN bloom \cup {Hash(r.metadata)} ELSE bloom

\* bloom.add_and_check: a hash that was added is always found; another one may
\* be.
Count(r) ==
    /\ bloom' = bloom \cup {Hash(r.metadata)}
    /\ \E positive \in BOOLEAN :
        /\ Hash(r.metadata) \in bloom => positive
        /\ repeats' = repeats + (IF positive THEN 1 ELSE 0)

\* Mutant of Vary: any repeated id is a collision.
VaryAlways(r) == variants' = Appended(variants, r.id, r.metadata)

\* find_id_collisions: metadata is kept once per id.
Vary(r) ==
    variants' =
        IF \E i \in DOMAIN variants :
                variants[i].key = r.id /\ r.metadata \in ToSet(variants[i].list)
        THEN variants ELSE Appended(variants, r.id, r.metadata)

Collisions == Shared(variants)

\* compute_schema_shapes
Shape(r) == shapes' = Appended(shapes, DOMAIN r.metadata, r.id)

-----------------------------------------------------------------------------
NoStats ==
    [count |-> 0, missing |-> 0, total |-> 0, min |-> None, max |-> None,
     present |-> [f \in Fields |-> 0], nones |-> [f \in Fields |-> 0],
     sample |-> [f \in Fields |-> {}], truncated |-> [f \in Fields |-> FALSE]]

\* A value that ends the sampling of its key.
Overflows(sample, v) ==
    \/ v \in Unhashable
    \/ SampleSize # None /\ Cardinality(sample) >= SampleSize /\ v \notin sample

\* Mutant of Update: a value that cannot be sampled does not end the sampling.
UpdateOn(r) ==
    LET m == r.metadata
        n == Cardinality(DOMAIN m)
        Taken(f) == f \in DOMAIN m
    IN stats' =
        [count   |-> stats.count + 1,
         missing |-> stats.missing + (IF n = 0 THEN 1 ELSE 0),
         total   |-> stats.total + n,
         min     |-> IF stats.min = None \/ n < stats.min THEN n ELSE stats.min,
         max     |-> IF stats.max = None \/ n > stats.max THEN n ELSE stats.max,
         present |-> [f \in Fields |-> stats.present[f] + (IF f \in DOMAIN m THEN 1 ELSE 0)],
         nones   |-> [f \in Fields |->
            stats.nones[f] + (IF f \in DOMAIN m /\ m[f] \in {None, Empty} THEN 1 ELSE 0)],
         sample  |-> [f \in Fields |->
            IF Taken(f) /\ ~Overflows(stats.sample[f], m[f])
            THEN stats.sample[f] \cup {m[f]} ELSE stats.sample[f]],
         truncated |-> [f \in Fields |->
            stats.truncated[f] \/ (Taken(f) /\ Overflows(stats.sample[f], m[f]))]]

\* MetadataStats.update
Update(r) ==
    LET m == r.metadata
        n == Cardinality(DOMAIN m)
        Taken(f) == f \in DOMAIN m /\ ~stats.truncated[f]
    IN stats' =
        [count   |-> stats.count + 1,
         missing |-> stats.missing + (IF n = 0 THEN 1 ELSE 0),
         total   |-> stats.total + n,
         min     |-> IF stats.min = None \/ n < stats.min THEN n ELSE stats.min,
         max     |-> IF stats.max = None \/ n > stats.max THEN n ELSE stats.max,
         present |-> [f \in Fields |-> stats.present[f] + (IF f \in DOMAIN m THEN 1 ELSE 0)],
         nones   |-> [f \in Fields |->
            stats.nones[f] + (IF f \in DOMAIN m /\ m[f] \in {None, Empty} THEN 1 ELSE 0)],
         sample  |-> [f \in Fields |->
            IF Taken(f) /\ ~Overflows(stats.sample[f], m[f])
            THEN stats.sample[f] \cup {m[f]} ELSE stats.sample[f]],
         truncated |-> [f \in Fields |->
            stats.truncated[f] \/ (Taken(f) /\ Overflows(stats.sample[f], m[f]))]]

\* to_dict: the entry of a key that was seen.
PerKey(f) ==
    [present_in_records |-> stats.present[f], missing_in_records |-> stats.count - stats.present[f],
     none_or_empty_count |-> stats.nones[f], unique_values_sample |-> stats.sample[f],
     unique_values_sample_truncated |-> stats.truncated[f]]

-----------------------------------------------------------------------------
\* An unhashable value is counted under its str().
CounterKey(v) == IF v \in Unhashable THEN StrOf[v] ELSE v

CountValues(r) ==
    counters' = [f \in Fields |->
        IF f \notin DOMAIN r.metadata THEN counters[f]
        ELSE LET key == CounterKey(r.metadata[f]) IN
             [v \in DOMAIN counters[f] \cup {key} |->
                (IF v \in DOMAIN counters[f] THEN counters[f][v] ELSE 0)
                + (IF v = key THEN 1 ELSE 0)]]

\* The rank of what is left of the digest: one more than its trailing zeros.
Rank(bits) ==
    LET zeros == Max({n \in 0..Width : bits % (2 ^ n) = 0}) IN
    IF bits = 0 THEN 1 ELSE Min({zeros + 1, Width - Precision})

Index(v)  == HashOf[v] % (2 ^ Precision)
RankOf(v) == Rank(HashOf[v] \div (2 ^ Precision))

\* Mutant of Estimate: the register takes the last rank.
EstimateLast(r) ==
    registers' = [f \in Fields |->
        IF f \notin DOMAIN r.metadata THEN registers[f]
        ELSE [registers[f] EXCEPT ![Index(r.metadata[f])] = RankOf(r.metadata[f])]]

\* _HyperLogLog.add, on the estimator of each key of the record.
Estimate(r) ==
    registers' = [f \in Fields |->
        IF f \notin DOMAIN r.metadata THEN registers[f]
        ELSE [registers[f] EXCEPT ![Index(r.metadata[f])] = Max({@, RankOf(r.metadata[f])})]]

-----------------------------------------------------------------------------
StreamInit ==
    /\ input \in Inputs /\ stream = <<>>
    /\ groups = <<>> /\ bloom = {} /\ repeats = 0 /\ variants = <<>> /\ shapes = <<>>
    /\ stats = NoStats
    /\ counters = [f \in Fields |-> <<>>]
    /\ registers = [f \in Fields |-> [i \in 0..(2 ^ Precision - 1) |-> 0]]

Consume(r) ==
    /\ stream' = Append(stream, r)
    /\ Group(r) /\ Count(r) /\ Vary(r) /\ Shape(r)
    /\ Update(r)
    /\ CountValues(r) /\ Estimate(r)
=============================================================================
