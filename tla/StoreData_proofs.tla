--------------------------- MODULE StoreData_proofs ---------------------------
(***************************************************************************)
(* Facts about the data operators that every backend's proofs rest on.     *)
(***************************************************************************)
EXTENDS StoreData, TLAPS

\* A dict is a function from some fields to field values.
LEMMA ValueDef ==
    ASSUME NEW v
    PROVE  v \in Value <=> \E F \in SUBSET Fields : v \in [F -> Vals]
  BY DEF Value

\* A batch is a function from some keys to dicts, so every batch is a legal
\* set of pending writes.
LEMMA ItemsDef ==
    ASSUME NEW w
    PROVE  /\ w \in Items <=> \E K \in SUBSET Keys : w \in [K -> Value]
           /\ w \in Writes <=> \E K \in SUBSET Keys : w \in [K -> Slot]
           /\ w \in Items => w \in Writes /\ DOMAIN w \in SUBSET Keys
           /\ w \in Writes => DOMAIN w \in SUBSET Keys
                               /\ \A k \in DOMAIN w : w[k] \in Slot
  BY DEF Items, Writes, Slot

\* Merging two dicts gives a dict ({**old, **new} in resolve_conflicts).
LEMMA MergedType ==
    ASSUME NEW old \in Value, NEW new \in Value
    PROVE  Merged(old, new) \in Value
  <1>1. PICK F \in SUBSET Fields : old \in [F -> Vals]
    BY ValueDef
  <1>2. PICK G \in SUBSET Fields : new \in [G -> Vals]
    BY ValueDef
  <1>3. Merged(old, new) \in [F \cup G -> Vals]
    BY <1>1, <1>2 DEF Merged
  <1>4. QED
    BY <1>3, ValueDef

\* What a slot holds, read as a dict, is a dict.
LEMMA OrEmptyType ==
    ASSUME NEW v \in Slot
    PROVE  OrEmpty(v) \in Value
  <1>1. CASE v = Absent
    <2>1. [f \in {} |-> f] \in [{} -> Vals]
      OBVIOUS
    <2>2. QED
      BY <1>1, <2>1, ValueDef DEF OrEmpty
  <1>2. CASE v # Absent
    BY <1>2 DEF OrEmpty, Slot
  <1>3. QED
    BY <1>1, <1>2

\* resolve_conflicts answers a sub-batch of its items, of dicts.
LEMMA ToWriteType ==
    ASSUME NEW items \in Items, NEW oc \in OnConflict,
           NEW found \in SUBSET Keys, NEW d \in Contents
    PROVE  /\ ToWrite(items, oc, found, d) \in Items
           /\ DOMAIN ToWrite(items, oc, found, d) \subseteq DOMAIN items
  <1> DEFINE K == {i \in DOMAIN items : oc = "skip" => i \notin found}
  <1>1. K \in SUBSET Keys /\ \A k \in K : items[k] \in Value
    BY ItemsDef DEF Items
  <1>2. \A k \in K : d[k] \in Slot
    BY <1>1 DEF Contents
  <1>3. \A k \in K : Merged(OrEmpty(d[k]), items[k]) \in Value
    BY <1>1, <1>2, OrEmptyType, MergedType
  <1>4. ToWrite(items, oc, found, d) \in [K -> Value]
    BY <1>1, <1>3 DEF ToWrite
  <1>5. QED
    BY <1>1, <1>4, ItemsDef

\* Writing to a store gives a store.
LEMMA StoredType ==
    ASSUME NEW d \in Contents, NEW w \in Writes
    PROVE  Stored(d, w) \in Contents
  BY ItemsDef DEF Stored, Contents

\* Writing nothing changes nothing.
LEMMA StoredNothing ==
    ASSUME NEW d \in Contents, NEW w, DOMAIN w = {}
    PROVE  Stored(d, w) = d
  BY DEF Stored, Contents

\* Writes may be done one key at a time: doing k first and the rest later
\* ends where doing all of them at once ends.
LEMMA StoredStep ==
    ASSUME NEW d \in Contents, NEW w \in Writes, NEW k \in DOMAIN w
    PROVE  LET rest == [i \in DOMAIN w \ {k} |-> w[i]]
           IN  /\ rest \in Writes
               /\ [d EXCEPT ![k] = w[k]] \in Contents
               /\ Stored([d EXCEPT ![k] = w[k]], rest) = Stored(d, w)
  <1> DEFINE rest == [i \in DOMAIN w \ {k} |-> w[i]]
  <1>1. DOMAIN w \in SUBSET Keys /\ \A i \in DOMAIN w : w[i] \in Slot
    BY ItemsDef
  <1>2. rest \in [DOMAIN w \ {k} -> Slot] /\ DOMAIN w \ {k} \in SUBSET Keys
    BY <1>1
  <1>3. rest \in Writes
    BY <1>2, ItemsDef
  <1>4. [d EXCEPT ![k] = w[k]] \in Contents
    BY <1>1 DEF Contents
  <1>5. Stored([d EXCEPT ![k] = w[k]], rest) = Stored(d, w)
    BY <1>1 DEF Stored, Contents
  <1>6. QED
    BY <1>3, <1>4, <1>5
=============================================================================
