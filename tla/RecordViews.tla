------------------------------ MODULE RecordViews ------------------------------
(***************************************************************************)
(* persista.record: what the functions on lists of records return.  A      *)
(* record is an id and a metadata dict, a function from some fields to     *)
(* values; numbers are the values that can be compared, with one another   *)
(* only; None is the null reference, TypeError what a function raises.     *)
(***************************************************************************)
EXTENDS SequencesExt, Integers

CONSTANTS None, TypeError

Has(r, key) == key \in DOMAIN r.metadata

\* r.metadata.get(metadata_key, _MISSING) == value
filter_by_metadata(records, key, value) ==
    SelectSeq(records, LAMBDA r : Has(r, key) /\ r.metadata[key] = value)

\* The values that are there can be compared with numbers.
Comparable(records, key) ==
    \A i \in DOMAIN records : Has(records[i], key) => records[i].metadata[key] \in Int

\* A bound that is None does not constrain.
InRange(r, key, lower, upper) ==
    /\ Has(r, key)
    /\ lower # None => r.metadata[key] >= lower
    /\ upper # None => r.metadata[key] <= upper

filter_by_metadata_range(records, key, lower, upper) ==
    IF {lower, upper} # {None} /\ ~Comparable(records, key)
    THEN TypeError
    ELSE SelectSeq(records, LAMBDA r : InRange(r, key, lower, upper))

filter_by_metadata_values(records, key, values) ==
    SelectSeq(records, LAMBDA r : Has(r, key) /\ r.metadata[key] \in values)

-----------------------------------------------------------------------------
\* Mutant of Before: equal keys change places in a descending sort.
BeforeOrEqual(a, b, key, reverse) ==
    IF reverse THEN a.metadata[key] > b.metadata[key] ELSE a.metadata[key] <= b.metadata[key]

\* a, met first, stays before b.
Before(a, b, key, reverse) ==
    IF reverse THEN a.metadata[key] >= b.metadata[key] ELSE a.metadata[key] <= b.metadata[key]

\* list.sort, of values that can be compared: stable, in both directions.
Sorted(records, key, reverse) ==
    FoldLeft(LAMBDA s, r :
                 SelectSeq(s, LAMBDA x : Before(x, r, key, reverse)) \o <<r>> \o
                 SelectSeq(s, LAMBDA x : ~Before(x, r, key, reverse)),
             <<>>, records)

sort_by_metadata(records, key, keep_missing, reverse) ==
    LET present == SelectSeq(records, LAMBDA r : Has(r, key))
        missing == SelectSeq(records, LAMBDA r : ~Has(r, key))
    IN IF Len(present) > 1 /\ ~Comparable(present, key)
       THEN TypeError
       ELSE Sorted(present, key, reverse) \o (IF keep_missing THEN missing ELSE <<>>)

-----------------------------------------------------------------------------
IdsOf(records) == {records[i].id : i \in DOMAIN records}

\* {record.id: record.metadata for record in records}: an id stands where it
\* was met first, with the metadata it was met with last.
ById(records) ==
    [id \in IdsOf(records) |->
        records[SelectLastInSeq(records, LAMBDA r : r.id = id)].metadata]

DictOrder(records) ==
    LET Firsts == {i \in DOMAIN records : \A j \in 1..(i - 1) : records[j].id # records[i].id}
        order  == SetToSortSeq(Firsts, <)
    IN [i \in DOMAIN order |-> records[order[i]].id]

\* Mutant of diff_records: changed ids are looked for in the earlier snapshot.
diff_of_common(before, after) ==
    [added   |-> SelectSeq(DictOrder(after), LAMBDA id : id \notin IdsOf(before)),
     removed |-> SelectSeq(DictOrder(before), LAMBDA id : id \notin IdsOf(after)),
     changed |-> SelectSeq(DictOrder(after), LAMBDA id : id \in IdsOf(before))]

diff_records(before, after) ==
    [added   |-> SelectSeq(DictOrder(after), LAMBDA id : id \notin IdsOf(before)),
     removed |-> SelectSeq(DictOrder(before), LAMBDA id : id \notin IdsOf(after)),
     changed |-> SelectSeq(DictOrder(after), LAMBDA id :
                    id \in IdsOf(before) /\ ById(after)[id] # ById(before)[id])]

-----------------------------------------------------------------------------
\* Mutant of find_orphan_references: one pass, which knows the ids met so far.
orphans_so_far(records, key) ==
    LET Orphan(i) ==
            /\ Has(records[i], key) /\ records[i].metadata[key] # None
            /\ \A j \in 1..i : records[j].id # records[i].metadata[key]
        orphans == SetToSortSeq({i \in DOMAIN records : Orphan(i)}, <)
    IN [n \in DOMAIN orphans |-> records[orphans[n]].id]

\* All the ids are collected before the first reference is looked up.
find_orphan_references(records, key) ==
    LET Orphan(r) ==
            /\ Has(r, key) /\ r.metadata[key] # None
            /\ r.metadata[key] \notin IdsOf(records)
        orphans == SelectSeq(records, LAMBDA r : Orphan(r))
    IN [i \in DOMAIN orphans |-> orphans[i].id]

-----------------------------------------------------------------------------
\* RecordStore.set_many: one overwriting batch, keyed by id.
StoredRecords(contents, records) ==
    [id \in DOMAIN contents \cup IdsOf(records) |->
        IF id \in IdsOf(records) THEN ById(records)[id] ELSE contents[id]]
=============================================================================
