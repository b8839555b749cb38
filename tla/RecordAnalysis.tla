---------------------------- MODULE RecordAnalysis ----------------------------
(***************************************************************************)
(* What the analyses of persista.record report, against definitions that   *)
(* look at the whole stream.                                               *)
(***************************************************************************)
EXTENDS NearDuplicates

CONSTANTS SortKey,       \* the key whose values are numbers
          ReferenceKey   \* the key whose values are ids

Positions == DOMAIN stream

TypeOK ==
    /\ input \in Inputs /\ Len(stream) <= input.length
    /\ \A i \in Positions : stream[i] \in input.records
    /\ phase \in {"read", "merge", "group", "select", "done"}
    /\ phase # "read" => parent \in [Positions -> Positions]
    /\ band \in 1..(NumBands + 1) /\ at \in 1..(Len(stream) + 1)
    /\ \A key \in DOMAIN buckets : buckets[key] \in Positions /\ (phase = "merge" => buckets[key] < at)
    /\ Len(cursor) <= 2 /\ ToSet(cursor) \subseteq Positions
    /\ next \in 1..(Len(near) + 1) /\ Len(returned) < next

\* The positions of the records for which Test is new and is met again.
Repeated(Test(_, _)) ==
    SetToSortSeq({i \in Positions :
        /\ \A j \in 1..(i - 1) : ~Test(stream[i], stream[j])
        /\ \E j \in Positions : j > i /\ Test(stream[i], stream[j])}, <)

IdsLike(r, Test(_, _)) ==
    LET like == SelectSeq(stream, LAMBDA s : Test(r, s)) IN [i \in DOMAIN like |-> like[i].id]

SameHash(r, s) == Hash(r.metadata) = Hash(s.metadata)

\* find_duplicate_record_ids puts records with the same metadata together
\* however far apart they come, misses none, keeps the order they came in, and
\* puts others with them only if they differ in values of one type that has no
\* hasher.
DuplicatesExact ==
    LET firsts == Repeated(SameHash) IN
    DuplicateIds = [n \in DOMAIN firsts |-> IdsLike(stream[firsts[n]], SameHash)]

\* find_id_collisions reports an id exactly if it came with two different
\* metadata dicts, and each of these once.
CollisionsExact ==
    /\ \A n \in DOMAIN Collisions : IsInjective(Collisions[n].list)
    /\ {<<Collisions[n].key, ToSet(Collisions[n].list)>> : n \in DOMAIN Collisions} =
        LET Of(id) == {stream[i].metadata : i \in {j \in Positions : stream[j].id = id}} IN
        {<<id, Of(id)>> : id \in {x \in IdsOf(stream) : Cardinality(Of(x)) > 1}}

ValuesOf(f) ==
    LET having == SelectSeq(stream, LAMBDA r : Has(r, f))
    IN [i \in DOMAIN having |-> having[i].metadata[f]]

\* MetadataStats reports a sample that is the values of the first records that
\* have the key, and says that it is truncated exactly if a value is not in it;
\* its counts add up.
SampleTellsTheTruth ==
    /\ \A f \in Fields :
        LET entry == PerKey(f)
            values == ValuesOf(f)
            sample == entry.unique_values_sample
        IN  /\ entry.present_in_records = Len(values)
            /\ entry.present_in_records + entry.missing_in_records = Len(stream)
            /\ SampleSize # None => Cardinality(sample) <= SampleSize
            /\ \E n \in 0..Len(values) : sample = ToSet(SubSeq(values, 1, n))
            /\ entry.unique_values_sample_truncated <=> sample # ToSet(values)
    /\ stats.total = FoldSet(LAMBDA f, sum : sum + stats.present[f], 0, Fields)
    /\ stream # <<>> =>
        /\ stats.min * stats.count <= stats.total /\ stats.total <= stats.max * stats.count
        /\ stats.missing > 0 <=> stats.min = 0

\* count_approx_duplicate_records counts every record whose metadata came
\* before, whatever the filter says of the others.
NeverUndercounts ==
    repeats >= Len(stream) - Cardinality({stream[i].metadata : i \in Positions})

\* The cardinality estimate depends on which values came, not on how often or
\* in which order; the frequencies add up to the records that have the key.
EstimateIgnoresOrder ==
    \A f \in Fields :
        /\ \A i \in DOMAIN registers[f] :
            registers[f][i] = Max({0} \cup {RankOf(v) : v \in {w \in ToSet(ValuesOf(f)) : Index(w) = i}})
        /\ Len(ValuesOf(f)) = FoldSet(LAMBDA v, sum : sum + counters[f][v], 0, DOMAIN counters[f])

\* A diff is an update plan: a RecordStore that holds the earlier snapshot
\* holds the later one after the added and changed records are written and the
\* removed ids deleted; and no record is written in vain.
DiffIsAnUpdatePlan ==
    \A n \in 0..Len(stream) :
        LET before == SubSeq(stream, 1, n)
            after  == SubSeq(stream, n + 1, Len(stream))
            diff   == diff_records(before, after)
            plan   == SelectSeq(after, LAMBDA r : r.id \in ToSet(diff.added \o diff.changed))
            result == StoredRecords(ById(before), plan)
        IN  /\ ById(after) = [id \in DOMAIN result \ ToSet(diff.removed) |-> result[id]]
            /\ \A id \in ToSet(diff.changed) : ById(before)[id] # ById(after)[id]
            /\ IsInjective(diff.added \o diff.removed \o diff.changed)

\* A reference to a record that comes later in the corpus is no orphan: the
\* order of the records does not matter.
OrphansIgnoreOrder ==
    ToSet(find_orphan_references(stream, ReferenceKey)) =
        ToSet(find_orphan_references(Reverse(stream), ReferenceKey))

\* sort_by_metadata orders by the key in either direction, keeps records with
\* equal keys and those without it as they came, the latter last; filtering by
\* a range and sorting commute, and a range of numbers is a set of values.  One
\* value that cannot be compared fails a sort, and a range with a bound, unless
\* a sort has nothing to compare it with.
Numbers == {v \in ToSet(ValuesOf(SortKey)) : v \in Int}

Mixed == ~(ToSet(ValuesOf(SortKey)) \subseteq Int)

SortKeepsTies ==
    \A reverse \in BOOLEAN :
      IF Mixed
      THEN /\ \A keep_missing \in BOOLEAN :
                sort_by_metadata(stream, SortKey, keep_missing, reverse) = TypeError
                    <=> Len(ValuesOf(SortKey)) > 1
           /\ \A low, high \in Numbers \cup {None} :
                filter_by_metadata_range(stream, SortKey, low, high) = TypeError
                    <=> low # None \/ high # None
      ELSE
        LET sorted == sort_by_metadata(stream, SortKey, TRUE, reverse)
            keyed  == sort_by_metadata(stream, SortKey, FALSE, reverse)
        IN  /\ IsPrefix(keyed, sorted) /\ Len(sorted) = Len(stream)
            /\ \A i \in 1..(Len(keyed) - 1) :
                LET x == keyed[i].metadata[SortKey]
                    y == keyed[i + 1].metadata[SortKey]
                IN IF reverse THEN x >= y ELSE x <= y
            /\ SubSeq(sorted, Len(keyed) + 1, Len(sorted)) =
                SelectSeq(stream, LAMBDA r : ~Has(r, SortKey))
            /\ \A v \in Numbers :
                filter_by_metadata(sorted, SortKey, v) = filter_by_metadata(stream, SortKey, v)
            /\ \A low \in Numbers \cup {None}, high \in Numbers \cup {None} :
                LET range == filter_by_metadata_range(stream, SortKey, low, high)
                    inside == {v \in Numbers : (low # None => v >= low) /\ (high # None => v <= high)}
                IN  /\ sort_by_metadata(range, SortKey, TRUE, reverse) =
                        filter_by_metadata_range(keyed, SortKey, low, high)
                    /\ range = filter_by_metadata_values(stream, SortKey, inside)

-----------------------------------------------------------------------------
ShareBand(i, j) ==
    \E b \in 1..NumBands : Band(i, b) = Band(j, b) /\ Band(i, b)[1] # Sentinel

\* No record outside S has a band in common with one of S.
Separate(S) == \A i \in S, j \in Positions \ S : ~ShareBand(i, j)

\* The near-duplicate groups are the smallest sets of records with no common
\* band between them, however the unions and the path halving went, chains
\* included; a record is in one exactly if it has a band in common with another
\* record, hence never with empty metadata; and the groups and their members
\* come in the order of the stream.
NearGroupsAreComponents ==
    phase = "done" =>
        /\ \A n \in DOMAIN returned :
            LET group == ToSet(returned[n]) IN
            /\ Separate(group)
            /\ \A S \in SUBSET group : S \in {{}, group} \/ ~Separate(S)
            /\ IsSorted(returned[n], <)
        /\ UNION {ToSet(returned[n]) : n \in DOMAIN returned} =
            {i \in Positions : \E j \in Positions \ {i} : ShareBand(i, j)}
        /\ \A n \in 1..(Len(returned) - 1) : returned[n][1] < returned[n + 1][1]
=============================================================================
