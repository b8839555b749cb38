------------------------- MODULE RecordAnalysis_proofs -------------------------
(***************************************************************************)
(* Theorems about RecordAnalysis for every set of streams, every hash and  *)
(* every number of bands.                                                  *)
(*                                                                         *)
(* The argument about find_near_duplicate_record_ids: behind the parents,  *)
(* which path halving changes all the time, every record has a root that   *)
(* only Link changes.  The parents lead up to it (Forest), two records     *)
(* with the same root are separated by no set that keeps common bands      *)
(* together (Sound), and two records with a common band that the loops     *)
(* have met have the same root (Complete).  The code keeps neither the     *)
(* roots nor the depths of its trees: the invariant says that there are    *)
(* such functions, and the proof of a step gives the new ones.             *)
(***************************************************************************)
EXTENDS RecordAnalysis, FiniteSetTheorems, SequenceTheorems, TLAPS

-----------------------------------------------------------------------------
(* The stream, and what the loops have of it.                              *)
StreamInv ==
    /\ input \in Inputs /\ stream \in Seq(input.records) /\ Len(stream) <= input.length
    /\ phase \in {"read", "merge", "group", "select", "done"}
    /\ band \in 1..(NumBands + 1) /\ at \in 1..(Len(stream) + 1)
    /\ cursor \in Seq(Positions)
    /\ near \in Seq([key : Positions, list : Seq(Positions)])
    /\ phase = "read" =>
        band = 1 /\ at = 1 /\ DOMAIN buckets = {} /\ cursor = <<>>
    /\ phase \in {"read", "merge"} => near = <<>>
    /\ phase # "read" => parent \in [Positions -> Positions]
    /\ phase = "merge" /\ cursor # <<>> =>
        Len(cursor) = 2 /\ at <= Len(stream) /\ band <= NumBands
    /\ phase = "group" /\ cursor # <<>> => Len(cursor) = 1 /\ at <= Len(stream)
    /\ phase \in {"group", "select", "done"} => band > NumBands
    /\ phase \in {"select", "done"} => at > Len(stream) /\ cursor = <<>>

(* Every record of a bucket has the band that is the bucket's key.         *)
BucketInv ==
    /\ \A key \in DOMAIN buckets : buckets[key] \in Positions
    /\ phase = "merge" /\ band <= NumBands =>
        /\ \A key \in DOMAIN buckets :
            buckets[key] < at /\ Band(buckets[key], band) = key
        /\ \A i \in 1..(at - 1) :
            Band(i, band)[1] # Sentinel => Band(i, band) \in DOMAIN buckets
        /\ cursor # <<>> =>
            Band(at, band) \in DOMAIN buckets /\ Band(at, band)[1] # Sentinel
    /\ phase = "merge" /\ band > NumBands => DOMAIN buckets = {} /\ at = 1
    /\ phase \in {"group", "select", "done"} => DOMAIN buckets = {}

-----------------------------------------------------------------------------
(* The parents lead up to the roots.                                       *)
Forest(root, depth) ==
    /\ root \in [Positions -> Positions] /\ depth \in [Positions -> Nat]
    /\ \A i \in Positions :
        /\ root[parent[i]] = root[i] /\ parent[root[i]] = root[i]
        /\ parent[i] = i => root[i] = i
        /\ parent[i] # i => depth[parent[i]] < depth[i]

(* No set that keeps common bands together separates a record and its      *)
(* root.                                                                   *)
Sound(root) ==
    \A S \in SUBSET Positions :
        Separate(S) => \A i \in Positions : i \in S <=> root[i] \in S

(* A common band that the loops have met has joined its records.           *)
Complete(root) ==
    /\ \A b \in 1..NumBands : b < band =>
        \A i, j \in Positions :
            Band(i, b) = Band(j, b) /\ Band(i, b)[1] # Sentinel => root[i] = root[j]
    /\ phase = "merge" /\ band <= NumBands =>
        \A i \in 1..(at - 1) :
            Band(i, band)[1] # Sentinel => root[i] = root[buckets[Band(i, band)]]

(* The finds are on their way to the roots of what they look for.          *)
OnTheWay(root) ==
    /\ phase \in {"merge", "group"} /\ cursor # <<>> => root[cursor[1]] = root[at]
    /\ phase = "merge" /\ cursor # <<>> =>
        root[cursor[2]] = root[buckets[Band(at, band)]]

Increasing(list) == \A i, j \in 1..Len(list) : i < j => list[i] < list[j]

(* The groups so far: the records so far, by their roots.                  *)
GroupsOf(root) ==
    phase \in {"group", "select", "done"} =>
        /\ \A n \in DOMAIN near :
            /\ ToSet(near[n].list) = {i \in 1..(at - 1) : root[i] = near[n].key}
            /\ near[n].list # <<>> /\ Increasing(near[n].list)
        /\ \A i \in 1..(at - 1) : \E n \in DOMAIN near : near[n].key = root[i]
        /\ \A n, m \in DOMAIN near : n < m =>
            near[n].key # near[m].key /\ near[n].list[1] < near[m].list[1]

Roots(root, depth) ==
    /\ Forest(root, depth) /\ Sound(root) /\ Complete(root)
    /\ OnTheWay(root) /\ GroupsOf(root)

RootsInv == phase # "read" => \E root, depth : Roots(root, depth)

(* The filter has the hash of every record, and a count that is wrong is   *)
(* too high.                                                               *)
CountInv ==
    /\ bloom = {Hash(stream[i].metadata) : i \in Positions}
    /\ repeats \in Int
    /\ IsFiniteSet({stream[i].metadata : i \in Positions})
    /\ NeverUndercounts

(* What is returned so far: the groups looked at so far that have two      *)
(* records or more, in their order.                                        *)
ResultInv ==
    /\ next \in 1..(Len(near) + 1)
    /\ returned \in Seq(Seq(Positions)) /\ Len(returned) < next
    /\ phase \notin {"select", "done"} => next = 1 /\ returned = <<>>
    /\ phase = "done" => next > Len(near)
    /\ \A m \in DOMAIN returned :
        \E n \in 1..(next - 1) : Len(near[n].list) > 1 /\ returned[m] = near[n].list
    /\ \A n \in 1..(next - 1) :
        Len(near[n].list) > 1 => \E m \in DOMAIN returned : returned[m] = near[n].list
    /\ \A m, l \in DOMAIN returned : m < l => returned[m][1] < returned[l][1]

Inv == StreamInv /\ BucketInv /\ RootsInv /\ CountInv /\ ResultInv

-----------------------------------------------------------------------------
\* Positions are the numbers up to the length of the stream.
LEMMA PositionsDef ==
    ASSUME StreamInv
    PROVE  /\ Len(stream) \in Nat /\ Positions = 1..Len(stream)
           /\ \A i \in Positions : stream[i] \in input.records
  BY DEF StreamInv, Positions

(* d.setdefault(key, []).append(x) adds x to the list of its key, or puts a *)
(* list of x alone after the others.                                       *)
IsAppended(e, d, key, x) ==
    /\ \A i \in DOMAIN d :
        /\ i \in DOMAIN e /\ e[i].key = d[i].key
        /\ d[i].key = key => e[i].list = Append(d[i].list, x)
        /\ d[i].key # key => e[i].list = d[i].list
    /\ (\E i \in DOMAIN d : d[i].key = key) => Len(e) = Len(d)
    /\ (\A i \in DOMAIN d : d[i].key # key) =>
        Len(e) = Len(d) + 1 /\ e[Len(e)] = [key |-> key, list |-> <<x>>]

LEMMA AppendedFacts ==
    ASSUME NEW P, NEW d \in Seq([key : P, list : Seq(P)]), NEW key \in P, NEW x \in P
    PROVE  /\ Appended(d, key, x) \in Seq([key : P, list : Seq(P)])
           /\ IsAppended(Appended(d, key, x), d, key, x)
  <1> DEFINE E == [key : P, list : Seq(P)]
  <1>1. \A i \in DOMAIN d : d[i] \in E
    <2> HIDE DEF E
    <2>1. d \in Seq(E)
      BY DEF E
    <2>2. QED
      BY <2>1, ElementOfSeq
  <1>2. CASE \E i \in DOMAIN d : d[i].key = key
    <2> DEFINE e == [i \in DOMAIN d |->
                       IF d[i].key = key THEN [d[i] EXCEPT !.list = Append(@, x)] ELSE d[i]]
    <2>1. Appended(d, key, x) = e
      BY <1>2 DEF Appended
    <2>2. ASSUME NEW i \in DOMAIN d
          PROVE  /\ e[i] \in [key : P, list : Seq(P)] /\ e[i].key = d[i].key
                 /\ d[i].key = key => e[i].list = Append(d[i].list, x)
                 /\ d[i].key # key => e[i].list = d[i].list
      <3>1. d[i] \in [key : P, list : Seq(P)]
        BY <1>1
      <3>2. Append(d[i].list, x) \in Seq(P)
        BY <3>1, AppendProperties
      <3>3. \A l : [d[i] EXCEPT !.list = l] = [key |-> d[i].key, list |-> l]
        BY <3>1
      <3>4. e[i] = IF d[i].key = key THEN [key |-> d[i].key, list |-> Append(d[i].list, x)]
                                    ELSE d[i]
        BY <3>3
      <3>5. QED
        BY <3>1, <3>2, <3>4
    <2>3. DOMAIN d = 1..Len(d) /\ Len(d) \in Nat
      OBVIOUS
    <2>4. e \in Seq([key : P, list : Seq(P)]) /\ Len(e) = Len(d) /\ DOMAIN e = DOMAIN d
      <3>1. e \in [1..Len(d) -> [key : P, list : Seq(P)]]
        BY <2>2, <2>3
      <3> HIDE DEF e
      <3>2. QED
        BY <2>3, <3>1, IsASeq
    <2> HIDE DEF e
    <2>5. QED
      BY <1>2, <2>1, <2>2, <2>4 DEF IsAppended
  <1>3. CASE \A i \in DOMAIN d : d[i].key # key
    <2> DEFINE last == [key |-> key, list |-> <<x>>]
    <2>1. Appended(d, key, x) = Append(d, last)
      BY <1>3 DEF Appended
    <2>2. last \in [key : P, list : Seq(P)]
      OBVIOUS
    <2>3. QED
      BY <1>3, <2>1, <2>2 DEF IsAppended
  <1>4. QED
    BY <1>2, <1>3

-----------------------------------------------------------------------------
\* The invariant holds of the initial states.
LEMMA InitCorrect ==
    ASSUME Init
    PROVE  Inv
  <1> USE DEF Init, StreamInit
  <1>1. StreamInv
    <2>1. stream = <<>> /\ cursor = <<>> /\ near = <<>> /\ Len(stream) = 0
      OBVIOUS
    <2>2. \A S : <<>> \in Seq(S)
      OBVIOUS
    <2>3. stream \in Seq(input.records) /\ cursor \in Seq(Positions)
          /\ near \in Seq([key : Positions, list : Seq(Positions)])
      BY <2>1, <2>2
    <2>4. input \in Inputs /\ 0 <= input.length
      BY InputAssumption
    <2>5. band \in 1..(NumBands + 1) /\ at \in 1..(Len(stream) + 1)
      BY <2>1, BandsAssumption
    <2>6. QED
      BY <2>1, <2>3, <2>4, <2>5 DEF StreamInv
  <1>2. BucketInv
    BY DEF BucketInv
  <1>3. RootsInv
    BY DEF RootsInv
  <1>4. CountInv
    <2>1. Positions = {}
      BY DEF Positions
    <2>2. {stream[i].metadata : i \in Positions} = {}
          /\ {Hash(stream[i].metadata) : i \in Positions} = {}
      BY <2>1
    <2>3. IsFiniteSet({}) /\ Cardinality({}) = 0
      BY FS_EmptySet
    <2>4. Cardinality({stream[i].metadata : i \in Positions}) = 0
          /\ IsFiniteSet({stream[i].metadata : i \in Positions})
      BY <2>2, <2>3
    <2>5. repeats = 0 /\ Len(stream) = 0 /\ bloom = {}
      OBVIOUS
    <2>6. NeverUndercounts
      BY <2>4, <2>5 DEF NeverUndercounts
    <2>7. QED
      BY <2>2, <2>4, <2>5, <2>6 DEF CountInv
  <1>5. ResultInv
    <2>1. /\ near = <<>> /\ next = 1 /\ returned = <<>> /\ phase = "read"
          /\ Len(<<>>) = 0 /\ DOMAIN <<>> = {} /\ 1..(1 - 1) = {}
      OBVIOUS
    <2>2. <<>> \in Seq(Seq(Positions))
      OBVIOUS
    <2>3. QED
      BY <2>1, <2>2 DEF ResultInv
  <1>6. QED
    BY <1>1, <1>2, <1>3, <1>4, <1>5 DEF Inv

\* add_and_check counts a record whose metadata came before: its hash is in the
\* filter.
LEMMA CountCorrect ==
    ASSUME StreamInv, CountInv, NEW r \in input.records, Consume(r)
    PROVE  CountInv'
  <1> DEFINE M == {stream[i].metadata : i \in Positions}
             N == Len(stream) + 1
  <1>1. /\ Len(stream) \in Nat /\ Positions = 1..Len(stream) /\ Positions' = 1..N
        /\ stream' = Append(stream, r) /\ Len(stream') = N
        /\ stream'[N] = r /\ \A i \in Positions : stream'[i] = stream[i]
    <2>1. stream \in Seq(input.records) /\ stream' = Append(stream, r)
      BY DEF StreamInv, Consume
    <2>2. QED
      BY <2>1, AppendProperties DEF Positions
  <1> DEFINE M2 == {stream'[i].metadata : i \in 1..N}
  <1>2. M2 = M \cup {r.metadata}
    BY <1>1
  <1>3. bloom' = {Hash(stream[i].metadata) : i \in Positions}'
    <2>1. bloom' = {Hash(stream[i].metadata) : i \in Positions} \cup {Hash(r.metadata)}
      BY DEF CountInv, Consume, Count
    <2>2. QED
      BY <1>1, <2>1
  <1>4. IsFiniteSet(M) /\ Cardinality(M) \in Nat
    BY FS_CardinalityType DEF CountInv
  <1>7. r.metadata \in M => Hash(r.metadata) \in bloom
    BY DEF CountInv
  <1>8. repeats \in Int /\ repeats >= Len(stream) - Cardinality(M)
    BY DEF CountInv, NeverUndercounts
  <1> HIDE DEF M, M2
  <1>5. IsFiniteSet(M2) /\ Cardinality(M2) =
            IF r.metadata \in M THEN Cardinality(M) ELSE Cardinality(M) + 1
    BY <1>2, <1>4, FS_AddElement
  <1>6. repeats' \in Int /\ repeats' >= repeats
        /\ (Hash(r.metadata) \in bloom => repeats' = repeats + 1)
    BY DEF CountInv, Consume, Count
  <1>9. repeats' >= Len(stream') - Cardinality(M2)
    BY <1>1, <1>4, <1>5, <1>6, <1>7, <1>8
  <1>10. {stream'[i].metadata : i \in Positions'} = M2
    BY <1>1 DEF M2
  <1>11. QED
    BY <1>3, <1>5, <1>6, <1>9, <1>10 DEF CountInv, NeverUndercounts

\* The other steps read no record.
LEMMA CountKept ==
    ASSUME CountInv, UNCHANGED <<stream, single>>
    PROVE  CountInv'
  BY DEF CountInv, NeverUndercounts, Positions, single

-----------------------------------------------------------------------------
\* Two finds, or one, are under way.
LEMMA NotEmpty == \A s : Len(s) \in {1, 2} => s # <<>>
  <1>1. Len(<<>>) = 0
    OBVIOUS
  <1>2. QED
    BY <1>1

\* A find in the middle of its way is at a position of the stream, and so is its
\* parent.
LEMMA CursorFacts ==
    ASSUME StreamInv, phase # "read", NEW n \in DOMAIN cursor
    PROVE  /\ cursor[n] \in Positions /\ parent[cursor[n]] \in Positions
           /\ Halved(cursor[n]) \in Positions
           /\ phase \in {"merge", "group"} /\ cursor # <<>>
           /\ [parent EXCEPT ![cursor[n]] = Halved(cursor[n])] \in [Positions -> Positions]
           /\ [cursor EXCEPT ![n] = Halved(cursor[n])] \in Seq(Positions)
           /\ Len([cursor EXCEPT ![n] = Halved(cursor[n])]) = Len(cursor)
  <1>1. cursor[n] \in Positions /\ parent \in [Positions -> Positions]
    BY ElementOfSeq DEF StreamInv
  <1>2. Halved(cursor[n]) \in Positions
    BY <1>1 DEF Halved
  <1>3. phase \in {"merge", "group"} /\ cursor # <<>>
    BY DEF StreamInv
  <1>4. /\ [cursor EXCEPT ![n] = Halved(cursor[n])] \in Seq(Positions)
        /\ Len([cursor EXCEPT ![n] = Halved(cursor[n])]) = Len(cursor)
    BY <1>2, ExceptSeq DEF StreamInv
  <1>5. QED
    BY <1>1, <1>2, <1>3, <1>4

\* The types, and where each loop stands.
LEMMA StreamCorrect ==
    ASSUME StreamInv, BucketInv, Next
    PROVE  StreamInv'
  <1> USE PositionsDef, BandsAssumption
  <1>1. CASE Read
    <2>1. PICK r \in input.records : Consume(r)
      BY <1>1 DEF Read
    <2>2. stream' = Append(stream, r) /\ input' = input /\ UNCHANGED nearVars
      BY <1>1, <2>1 DEF Read, Consume
    <2>3. stream' \in Seq(input.records) /\ Len(stream') = Len(stream) + 1
          /\ Len(stream) < input.length /\ input.length \in Nat
      BY <1>1, <2>2, InputAssumption DEF Read, StreamInv
    <2>4. phase = "read" /\ cursor = <<>> /\ near = <<>>
      BY <1>1 DEF Read, StreamInv
    <2>5. <<>> \in Seq(Positions') /\ <<>> \in Seq([key : Positions', list : Seq(Positions')])
      OBVIOUS
    <2>6. QED
      BY <2>2, <2>3, <2>4, <2>5 DEF StreamInv, nearVars
  <1>2. CASE Merge
    BY <1>2 DEF Merge, StreamInv, Positions
  <1>3. CASE Bucket
    <2>1. phase = "merge" /\ at <= Len(stream) /\ cursor = <<>> /\ at' = at + 1
          /\ UNCHANGED <<input, stream, phase, parent, band, cursor, near>>
      BY <1>3 DEF Bucket, InBand
    <2>2. QED
      BY <2>1 DEF StreamInv, Positions
  <1>4. CASE StartUnion
    <2>1. /\ InBand /\ Band(at, band) \in DOMAIN buckets
          /\ cursor' = <<at, buckets[Band(at, band)]>>
          /\ UNCHANGED <<input, stream, phase, parent, band, at, buckets, near>>
      BY <1>4 DEF StartUnion
    <2>2. at \in Positions /\ buckets[Band(at, band)] \in Positions
      BY <2>1 DEF InBand, StreamInv, BucketInv
    <2>3. cursor' \in Seq(Positions) /\ Len(cursor') = 2
      BY <2>1, <2>2
    <2>4. QED
      BY <2>1, <2>3 DEF StreamInv, InBand, Positions
  <1>5. CASE Find
    <2>1. PICK n \in DOMAIN cursor :
            /\ parent' = [parent EXCEPT ![cursor[n]] = Halved(cursor[n])]
            /\ cursor' = [cursor EXCEPT ![n] = Halved(cursor[n])]
            /\ UNCHANGED <<input, stream, single, phase, band, at, buckets, near>>
      BY <1>5 DEF Find
    <2>2. phase # "read"
      BY <2>1 DEF StreamInv
    <2>3. /\ parent' \in [Positions -> Positions]
          /\ cursor' \in Seq(Positions) /\ Len(cursor') = Len(cursor)
          /\ phase \in {"merge", "group"} /\ cursor # <<>>
      BY <2>1, <2>2, CursorFacts
    <2>4. QED
      BY <2>1, <2>3 DEF StreamInv, Positions
  <1>6. CASE Link
    <2>1. /\ phase = "merge" /\ Len(cursor) = 2 /\ cursor # <<>>
          /\ parent' = [parent EXCEPT ![cursor[2]] = cursor[1]]
          /\ cursor' = <<>> /\ at' = at + 1
          /\ UNCHANGED <<input, stream, phase, band, buckets, near>>
      BY <1>6, NotEmpty DEF Link
    <2>2. cursor[1] \in Positions /\ cursor[2] \in Positions
      <3>1. cursor \in Seq(Positions) /\ 1 \in 1..Len(cursor) /\ 2 \in 1..Len(cursor)
        BY <2>1 DEF StreamInv
      <3>2. QED
        BY <3>1, ElementOfSeq
    <2>3. QED
      BY <2>1, <2>2 DEF StreamInv, Positions
  <1>7. CASE NextBand
    <2>1. /\ phase = "merge" /\ band <= NumBands /\ at > Len(stream)
          /\ band' = band + 1 /\ at' = 1
          /\ UNCHANGED <<input, stream, phase, parent, cursor, near>>
      BY <1>7 DEF NextBand
    <2>2. cursor = <<>>
      BY <2>1 DEF StreamInv
    <2>3. QED
      BY <2>1, <2>2 DEF StreamInv, Positions
  <1>8. CASE Gather
    <2>1. cursor = <<>>
      BY <1>8 DEF Gather, StreamInv
    <2>2. QED
      BY <1>8, <2>1 DEF Gather, StreamInv, Positions
  <1>9. CASE StartFind
    <2>1. at \in Positions /\ cursor' = <<at>> /\ at <= Len(stream) /\ phase = "group"
          /\ UNCHANGED <<input, stream, phase, parent, band, at, near>>
      BY <1>9 DEF StartFind, StreamInv
    <2>2. cursor' \in Seq(Positions) /\ Len(cursor') = 1
      BY <2>1
    <2>3. QED
      BY <2>1, <2>2 DEF StreamInv, Positions
  <1>10. CASE Place
    <2>1. /\ phase = "group" /\ Len(cursor) = 1 /\ cursor # <<>>
          /\ near' = Appended(near, cursor[1], at) /\ cursor' = <<>> /\ at' = at + 1
          /\ UNCHANGED <<input, stream, phase, parent, band, buckets>>
      BY <1>10, NotEmpty DEF Place
    <2>2. cursor[1] \in Positions /\ at \in Positions /\ at <= Len(stream)
      <3>1. cursor \in Seq(Positions) /\ 1 \in 1..Len(cursor) /\ at <= Len(stream)
        BY <2>1 DEF StreamInv
      <3>2. cursor[1] \in Positions
        BY <3>1, ElementOfSeq
      <3>3. QED
        BY <3>1, <3>2 DEF StreamInv
    <2>3. near' \in Seq([key : Positions, list : Seq(Positions)])
      BY <2>1, <2>2, AppendedFacts DEF StreamInv
    <2>4. Positions' = Positions /\ at \in Nat /\ cursor' \in Seq(Positions)
      BY <2>1, <2>2 DEF Positions
    <2>5. QED
      BY <2>1, <2>2, <2>3, <2>4 DEF StreamInv
  <1>11. CASE Select \/ Keep \/ Finish
    <2>1. cursor = <<>>
      BY <1>11 DEF Select, Keep, Finish, StreamInv
    <2>2. QED
      BY <1>11, <2>1 DEF Select, Keep, Finish, StreamInv, Positions
  <1>12. QED
    BY <1>1, <1>2, <1>3, <1>4, <1>5, <1>6, <1>7, <1>8, <1>9, <1>10, <1>11 DEF Next

\* What the buckets hold.
LEMMA BucketCorrect ==
    ASSUME StreamInv, BucketInv, Next
    PROVE  BucketInv'
  <1> USE PositionsDef, BandsAssumption
  <1>1. CASE Read
    BY <1>1 DEF Read, StreamInv, BucketInv, nearVars
  <1>2. CASE Merge
    BY <1>2 DEF Merge, StreamInv, BucketInv, Positions
  <1>3. CASE Bucket
    <2> DEFINE key == Band(at, band)
    <2>1. phase = "merge" /\ at <= Len(stream) /\ cursor = <<>> /\ at' = at + 1 /\ band <= NumBands
          /\ UNCHANGED <<input, stream, phase, parent, band, cursor, near>>
      BY <1>3 DEF Bucket, InBand
    <2>2. at \in Positions /\ at \in Nat
      BY <2>1 DEF StreamInv
    <2>3. /\ \A k \in DOMAIN buckets : k \in DOMAIN buckets' /\ buckets'[k] = buckets[k]
          /\ \A k \in DOMAIN buckets' : k \in DOMAIN buckets \/ (k = key /\ buckets'[k] = at)
          /\ key[1] # Sentinel => key \in DOMAIN buckets'
      BY <1>3 DEF Bucket
    <2>4. /\ \A k \in DOMAIN buckets' : buckets'[k] \in Positions /\ buckets'[k] < at + 1
          /\ \A k \in DOMAIN buckets' : Band(buckets'[k], band) = k
      BY <2>1, <2>2, <2>3 DEF BucketInv
    <2>5. \A i \in 1..at : Band(i, band)[1] # Sentinel => Band(i, band) \in DOMAIN buckets'
      <3>1. \A i \in 1..at : i = at \/ i \in 1..(at - 1)
        BY <2>2
      <3>2. QED
        BY <2>1, <2>3, <3>1 DEF BucketInv
    <2>6. /\ \A i, b : Band(i, b)' = Band(i, b)
          /\ Positions' = Positions /\ at' - 1 = at
      BY <2>1, <2>2 DEF Band, Positions
    <2>7. \A k \in DOMAIN buckets' : buckets'[k] \in Positions' /\ buckets'[k] < at'
      BY <2>1, <2>4, <2>6
    <2>8. \A k \in DOMAIN buckets' : Band(buckets'[k], band') = k
      BY <2>1, <2>4
    <2>9. \A i \in 1..(at' - 1) :
            Band(i, band')[1] # Sentinel => Band(i, band') \in DOMAIN buckets'
      BY <2>1, <2>5, <2>6
    <2>10. phase' = "merge" /\ band' <= NumBands /\ ~(band' > NumBands) /\ cursor' = <<>>
      BY <2>1 DEF StreamInv
    <2>11. stream' = stream
      BY <2>1
    <2>12. QED
      BY <2>7, <2>8, <2>9, <2>10, <2>11 DEF BucketInv, Band
  <1>4. CASE StartUnion
    BY <1>4 DEF StartUnion, InBand, BucketInv, Band, Positions
  <1>5. CASE Find
    <2>1. PICK n \in DOMAIN cursor :
            /\ cursor' = [cursor EXCEPT ![n] = Halved(cursor[n])]
            /\ UNCHANGED <<input, stream, single, phase, band, at, buckets, near>>
      BY <1>5 DEF Find
    <2>2. cursor # <<>>
      BY <2>1
    <2>3. QED
      BY <2>1, <2>2 DEF BucketInv, Band, Positions
  <1>6. CASE Link
    <2>1. /\ phase = "merge" /\ Len(cursor) = 2 /\ cursor # <<>>
          /\ cursor' = <<>> /\ at' = at + 1
          /\ UNCHANGED <<input, stream, phase, band, buckets, near>>
      BY <1>6, NotEmpty DEF Link
    <2>2. at \in Nat /\ band <= NumBands
      BY <2>1 DEF StreamInv
    <2>3. \A i \in 1..at : Band(i, band)[1] # Sentinel => Band(i, band) \in DOMAIN buckets
      <3>1. \A i \in 1..at : i = at \/ i \in 1..(at - 1)
        BY <2>2
      <3>2. QED
        BY <2>1, <2>2, <3>1 DEF BucketInv
    <2>4. \A k \in DOMAIN buckets : buckets[k] \in Nat /\ buckets[k] < at + 1
                                   /\ Band(buckets[k], band) = k
      BY <2>1, <2>2 DEF BucketInv
    <2>5. QED
      BY <2>1, <2>2, <2>3, <2>4 DEF BucketInv, Band, Positions
  <1>7. CASE NextBand
    <2>1. /\ phase = "merge" /\ band <= NumBands /\ at > Len(stream)
          /\ band' = band + 1 /\ at' = 1 /\ DOMAIN buckets' = {}
          /\ UNCHANGED <<input, stream, phase, parent, cursor, near>>
      BY <1>7 DEF NextBand
    <2>2. cursor = <<>>
      BY <2>1 DEF StreamInv
    <2>3. QED
      BY <2>1, <2>2 DEF BucketInv
  <1>8. CASE Gather
    BY <1>8 DEF Gather, StreamInv, BucketInv, Positions
  <1>9. CASE StartFind
    BY <1>9 DEF StartFind, BucketInv
  <1>10. CASE Place
    BY <1>10 DEF Place, BucketInv
  <1>11. CASE Select \/ Keep \/ Finish
    BY <1>11 DEF Select, Keep, Finish, BucketInv
  <1>12. QED
    BY <1>1, <1>2, <1>3, <1>4, <1>5, <1>6, <1>7, <1>8, <1>9, <1>10, <1>11 DEF Next

-----------------------------------------------------------------------------
\* A record that is its own parent is a root, and every root is its own.
LEMMA RootFacts ==
    ASSUME NEW root, NEW depth, Forest(root, depth)
    PROVE  /\ \A i \in Positions : root[i] \in Positions /\ root[root[i]] = root[i]
           /\ \A i \in Positions : parent[i] = i => root[i] = i
  BY DEF Forest

\* As long as the parents stay, so do roots and depths.
LEMMA ForestKept ==
    ASSUME NEW root, NEW depth, Forest(root, depth), UNCHANGED <<stream, parent>>
    PROVE  Forest(root, depth)'
  BY DEF Forest, Positions

\* Which sets keep common bands together is a matter of the stream alone.
LEMMA SoundKept ==
    ASSUME NEW root, Sound(root), UNCHANGED stream
    PROVE  Sound(root)'
  BY DEF Sound, Separate, ShareBand, Band, Positions

\* So is what has been joined, as long as no loop goes on.
LEMMA CompleteKept ==
    ASSUME NEW root, Complete(root), UNCHANGED <<stream, phase, band, at, buckets>>
    PROVE  Complete(root)'
  BY DEF Complete, Band, Positions

LEMMA GroupsKept ==
    ASSUME NEW root, GroupsOf(root), UNCHANGED <<phase, at, near>>
    PROVE  GroupsOf(root)'
  BY DEF GroupsOf

\* Path halving takes a record nearer to the root it has.
LEMMA HalvingKeepsForest ==
    ASSUME StreamInv, NEW root, NEW depth, Forest(root, depth), UNCHANGED stream,
           NEW i \in Positions, parent \in [Positions -> Positions], parent[i] # i,
           parent' = [parent EXCEPT ![i] = Halved(i)]
    PROVE  Forest(root, depth)' /\ root[Halved(i)] = root[i]
  <1> DEFINE p == parent[i]
  <1>1. p \in Positions /\ parent[p] \in Positions /\ Halved(i) = parent[p]
    BY DEF Halved
  <1>2. root[p] = root[i] /\ root[parent[p]] = root[i]
    BY <1>1 DEF Forest
  <1>3. depth[p] < depth[i] /\ depth[parent[p]] < depth[i]
    <2>1. depth[p] < depth[i] /\ depth[i] \in Nat /\ depth[p] \in Nat /\ depth[parent[p]] \in Nat
      BY <1>1 DEF Forest
    <2>2. parent[p] = p \/ depth[parent[p]] < depth[p]
      BY <1>1 DEF Forest
    <2>3. QED
      BY <2>1, <2>2
  <1>4. Halved(i) # i
    BY <1>1, <1>3 DEF Forest
  <1>5. \A j \in Positions : parent'[j] = IF j = i THEN parent[p] ELSE parent[j]
    BY <1>1
  <1>6. root[i] # i
    BY DEF Forest
  <1>7. ASSUME NEW j \in Positions
        PROVE  /\ root[parent'[j]] = root[j] /\ parent'[root[j]] = root[j]
               /\ parent'[j] = j => root[j] = j
               /\ parent'[j] # j => depth[parent'[j]] < depth[j]
    <2>1. root[j] \in Positions /\ root[j] # i
      BY <1>6, RootFacts
    <2>2. CASE j = i
      BY <1>1, <1>2, <1>3, <1>4, <1>5, <2>1, <2>2 DEF Forest
    <2>3. CASE j # i
      BY <1>5, <2>1, <2>3 DEF Forest
    <2>4. QED
      BY <2>2, <2>3
  <1>8. Positions' = Positions
    BY DEF Positions
  <1>9. QED
    BY <1>1, <1>2, <1>7, <1>8 DEF Forest

-----------------------------------------------------------------------------
(* Link: the tree of the second root is hung up below the first.           *)
Rehung(root, a, c) == [i \in Positions |-> IF root[i] = c THEN a ELSE root[i]]
Deeper(root, depth, a, c) ==
    [i \in Positions |-> IF root[i] = c /\ a # c THEN depth[i] + depth[a] + 1 ELSE depth[i]]

LEMMA LinkKeepsForest ==
    ASSUME NEW root, NEW depth, Forest(root, depth), UNCHANGED stream,
           parent \in [Positions -> Positions],
           NEW a \in Positions, NEW c \in Positions, parent[a] = a, parent[c] = c,
           parent' = [parent EXCEPT ![c] = a],
           NEW r, r = Rehung(root, a, c), NEW d, d = Deeper(root, depth, a, c)
    PROVE  Forest(r, d)'
  <1>1. root[a] = a /\ root[c] = c
    BY DEF Forest
  <1>2. \A i \in Positions : r[i] = (IF root[i] = c THEN a ELSE root[i]) /\ root[i] \in Positions
    BY DEF Rehung, Forest
  <1>3. \A i \in Positions :
            /\ d[i] = IF root[i] = c /\ a # c THEN depth[i] + depth[a] + 1 ELSE depth[i]
            /\ depth[i] \in Nat
    BY DEF Deeper, Forest
  <1>4. r \in [Positions -> Positions] /\ d \in [Positions -> Nat]
    <2>1. \A i \in Positions : r[i] \in Positions /\ d[i] \in Nat
      BY <1>2, <1>3
    <2>2. r = [i \in Positions |-> r[i]] /\ d = [i \in Positions |-> d[i]]
      BY DEF Rehung, Deeper
    <2>3. QED
      BY <2>1, <2>2
  <1>5. \A i \in Positions : parent'[i] = IF i = c THEN a ELSE parent[i]
    OBVIOUS
  <1>6. ASSUME NEW i \in Positions
        PROVE  /\ r[parent'[i]] = r[i] /\ parent'[r[i]] = r[i]
               /\ parent'[i] = i => r[i] = i
               /\ parent'[i] # i => d[parent'[i]] < d[i]
    <2>1. parent[i] \in Positions /\ root[i] \in Positions
      BY <1>2
    <2>2. parent'[r[i]] = r[i]
      <3>1. parent[root[i]] = root[i]
        BY DEF Forest
      <3>2. QED
        BY <1>2, <1>5, <2>1, <3>1
    <2>3. CASE i = c
      BY <1>1, <1>2, <1>3, <1>5, <2>2, <2>3
    <2>4. CASE i # c
      <3>1. /\ parent'[i] = parent[i] /\ root[parent[i]] = root[i]
            /\ parent[i] = i => root[i] = i
            /\ parent[i] # i => depth[parent[i]] < depth[i]
        BY <1>5, <2>4 DEF Forest
      <3>2. r[parent'[i]] = r[i]
        BY <1>2, <2>1, <3>1
      <3>3. parent'[i] = i => r[i] = i
        BY <1>2, <2>4, <3>1
      <3>4. parent'[i] # i => d[parent'[i]] < d[i]
        BY <1>3, <2>1, <3>1
      <3>5. QED
        BY <2>2, <3>2, <3>3, <3>4
    <2>5. QED
      BY <2>3, <2>4
  <1>7. Positions' = Positions
    BY DEF Positions
  <1>8. QED
    BY <1>4, <1>6, <1>7 DEF Forest

\* The two records that are joined have a common band, so no set that keeps
\* common bands together holds one of them only.
LEMMA LinkKeepsSound ==
    ASSUME NEW root, NEW depth, Forest(root, depth), Sound(root), UNCHANGED stream,
           NEW i \in Positions, NEW j \in Positions, ShareBand(i, j),
           NEW r, r = Rehung(root, root[i], root[j])
    PROVE  Sound(r)'
  <1>1. ShareBand(j, i)
    BY DEF ShareBand
  <1>2. ASSUME NEW S \in SUBSET Positions, Separate(S), NEW n \in Positions
        PROVE  n \in S <=> r[n] \in S
    <2>1. i \in S <=> j \in S
      BY <1>1, <1>2 DEF Separate
    <2>2. root[i] \in S <=> root[j] \in S
      BY <1>2, <2>1 DEF Sound
    <2>3. n \in S <=> root[n] \in S
      BY <1>2 DEF Sound
    <2>4. r[n] = IF root[n] = root[j] THEN root[i] ELSE root[n]
      BY DEF Rehung
    <2>5. QED
      BY <2>2, <2>3, <2>4
  <1>3. Sound(r)
    BY <1>2 DEF Sound
  <1>4. QED
    BY <1>3, SoundKept

-----------------------------------------------------------------------------
\* At first every record is a tree of its own.
LEMMA MergeRoots ==
    ASSUME StreamInv, Merge
    PROVE  RootsInv'
  <1>1. PICK root : root = [i \in Positions |-> i]
    OBVIOUS
  <1>2. PICK depth : depth = [i \in Positions |-> 0]
    OBVIOUS
  <1>3. Positions' = Positions /\ parent' = root /\ phase' = "merge" /\ cursor' = <<>>
        /\ band' = 1 /\ at' = 1
    BY <1>1 DEF Merge, StreamInv, Positions
  <1>4. Forest(root, depth)'
    BY <1>1, <1>2, <1>3 DEF Forest
  <1>5. Sound(root)'
    BY <1>1, <1>3 DEF Sound
  <1>6. Complete(root)'
    <2>1. ~(\E b \in 1..NumBands : b < 1) /\ 1..(1 - 1) = {}
      BY BandsAssumption
    <2>2. QED
      BY <1>3, <2>1 DEF Complete
  <1>7. OnTheWay(root)' /\ GroupsOf(root)'
    BY <1>3 DEF OnTheWay, GroupsOf
  <1>8. QED
    BY <1>4, <1>5, <1>6, <1>7 DEF RootsInv, Roots

\* A record whose band is new, or has none, changes no tree.
LEMMA BucketRoots ==
    ASSUME StreamInv, BucketInv, Bucket, NEW root, NEW depth, Roots(root, depth)
    PROVE  Roots(root, depth)'
  <1>1. phase = "merge" /\ at <= Len(stream) /\ cursor = <<>> /\ at' = at + 1 /\ band <= NumBands
        /\ UNCHANGED <<input, stream, phase, parent, band, cursor, near>>
    BY DEF Bucket, InBand
  <1>2. Forest(root, depth)' /\ Sound(root)'
    BY <1>1, ForestKept, SoundKept DEF Roots
  <1>3. Complete(root)'
    <2>1. ASSUME NEW i \in 1..at, Band(i, band)[1] # Sentinel
          PROVE  root[i] = root[buckets'[Band(i, band)]]
      <3>1. CASE i \in 1..(at - 1)
        <4>1. Band(i, band) \in DOMAIN buckets
              /\ root[i] = root[buckets[Band(i, band)]]
          BY <1>1, <2>1, <3>1 DEF BucketInv, Roots, Complete
        <4>2. buckets'[Band(i, band)] = buckets[Band(i, band)]
          BY <4>1 DEF Bucket
        <4>3. QED
          BY <4>1, <4>2
      <3>2. CASE i = at
        BY <2>1, <3>2 DEF Bucket
      <3>3. QED
        BY <3>1, <3>2 DEF StreamInv
    <2>2. at' - 1 = at
      BY <1>1 DEF StreamInv
    <2>3. \A i \in 1..(at' - 1) :
            Band(i, band)[1] # Sentinel => root[i] = root[buckets'[Band(i, band)]]
      BY <2>1, <2>2
    <2>4. \A b \in 1..NumBands : b < band =>
            \A i, j \in Positions :
                Band(i, b) = Band(j, b) /\ Band(i, b)[1] # Sentinel => root[i] = root[j]
      BY DEF Roots, Complete
    <2>5. QED
      BY <1>1, <2>3, <2>4 DEF Complete, Band, Positions
  <1>4. OnTheWay(root)' /\ GroupsOf(root)'
    BY <1>1 DEF OnTheWay, GroupsOf
  <1>5. QED
    BY <1>2, <1>3, <1>4 DEF Roots

\* The finds set out from the record and from the first one of its bucket.
LEMMA StartUnionRoots ==
    ASSUME StreamInv, BucketInv, StartUnion, NEW root, NEW depth, Roots(root, depth)
    PROVE  Roots(root, depth)'
  <1>1. /\ phase = "merge" /\ cursor' = <<at, buckets[Band(at, band)]>>
        /\ UNCHANGED <<stream, phase, parent, band, at, buckets, near>>
    BY DEF StartUnion, InBand
  <1>2. Forest(root, depth)' /\ Sound(root)' /\ Complete(root)' /\ GroupsOf(root)'
    BY <1>1, ForestKept, SoundKept, CompleteKept, GroupsKept DEF Roots
  <1>3. OnTheWay(root)'
    BY <1>1 DEF OnTheWay, Band
  <1>4. QED
    BY <1>2, <1>3 DEF Roots
\* A turn of find() changes a parent, and no root.
LEMMA FindRoots ==
    ASSUME StreamInv, BucketInv, Find, NEW root, NEW depth, Roots(root, depth)
    PROVE  Roots(root, depth)'
  <1>1. PICK n \in DOMAIN cursor :
            /\ parent[cursor[n]] # cursor[n]
            /\ parent' = [parent EXCEPT ![cursor[n]] = Halved(cursor[n])]
            /\ cursor' = [cursor EXCEPT ![n] = Halved(cursor[n])]
            /\ UNCHANGED <<input, stream, single, phase, band, at, buckets, near>>
    BY DEF Find
  <1>2. phase # "read"
    BY <1>1 DEF StreamInv
  <1>3. cursor[n] \in Positions /\ cursor # <<>> /\ parent \in [Positions -> Positions]
    BY <1>2, CursorFacts DEF StreamInv
  <1>4. Forest(root, depth)' /\ root[Halved(cursor[n])] = root[cursor[n]]
    BY <1>1, <1>3, HalvingKeepsForest DEF Roots
  <1>5. Sound(root)' /\ Complete(root)' /\ GroupsOf(root)'
    BY <1>1, SoundKept, CompleteKept, GroupsKept DEF Roots
  <1>6. OnTheWay(root)'
    <2>1. \A m \in DOMAIN cursor : root[cursor'[m]] = root[cursor[m]]
      BY <1>1, <1>4
    <2>2. phase \in {"merge", "group"} => 1 \in DOMAIN cursor
      BY <1>3 DEF StreamInv
    <2>3. phase = "merge" => 2 \in DOMAIN cursor
      BY <1>3 DEF StreamInv
    <2>4. OnTheWay(root)
      BY DEF Roots
    <2>5. QED
      BY <1>1, <1>3, <2>1, <2>2, <2>3, <2>4 DEF OnTheWay, Band
  <1>7. QED
    BY <1>4, <1>5, <1>6 DEF Roots

\* The union of two records that have a band in common.
LEMMA LinkRoots ==
    ASSUME StreamInv, BucketInv, Link, NEW root, NEW depth, Roots(root, depth)
    PROVE  RootsInv'
  <1> DEFINE a == cursor[1]
             c == cursor[2]
             first == buckets[Band(at, band)]
  <1>1. /\ phase = "merge" /\ Len(cursor) = 2 /\ cursor # <<>>
        /\ parent[cursor[1]] = cursor[1] /\ parent[cursor[2]] = cursor[2]
        /\ parent' = [parent EXCEPT ![cursor[2]] = cursor[1]]
        /\ cursor' = <<>> /\ at' = at + 1
        /\ UNCHANGED <<input, stream, phase, band, buckets, near>>
    <2>1. cursor \in Seq(Positions) /\ Len(cursor) = 2 /\ Found
      BY DEF Link, StreamInv
    <2>2. 1 \in DOMAIN cursor /\ 2 \in DOMAIN cursor
      BY <2>1
    <2>3. QED
      BY <2>1, <2>2, NotEmpty DEF Link, Found
  <1>2. /\ at <= Len(stream) /\ band <= NumBands /\ at \in Nat
        /\ parent \in [Positions -> Positions]
    BY <1>1 DEF StreamInv
  <1>3. cursor[1] \in Positions /\ cursor[2] \in Positions
    <2>1. cursor \in Seq(Positions) /\ 1 \in 1..Len(cursor) /\ 2 \in 1..Len(cursor)
      BY <1>1 DEF StreamInv
    <2>2. QED
      BY <2>1, ElementOfSeq
  <1>4. /\ at \in Positions /\ first \in Positions
        /\ Band(first, band) = Band(at, band) /\ Band(at, band)[1] # Sentinel
    BY <1>1, <1>2, PositionsDef DEF StreamInv, BucketInv
  <1>5. ShareBand(at, first)
    <2>1. band \in 1..NumBands
      BY <1>2, BandsAssumption DEF StreamInv
    <2>2. QED
      BY <1>4, <2>1 DEF ShareBand
  <1>6. root[at] = a /\ root[first] = c
    <2>1. root[a] = a /\ root[c] = c
      BY <1>1, <1>3, RootFacts DEF Roots
    <2>2. root[a] = root[at] /\ root[c] = root[first]
      BY <1>1 DEF Roots, OnTheWay
    <2>3. QED
      BY <2>1, <2>2
  <1>7. PICK r : r = Rehung(root, a, c)
    OBVIOUS
  <1>8. PICK d : d = Deeper(root, depth, a, c)
    OBVIOUS
  <1>9. Forest(r, d)'
    <2>1. Forest(root, depth) /\ stream' = stream
      BY <1>1 DEF Roots
    <2>2. QED
      BY <1>1, <1>2, <1>3, <1>7, <1>8, <2>1, LinkKeepsForest
  <1>10. Sound(r)'
    <2>1. r = Rehung(root, root[at], root[first])
      BY <1>6, <1>7
    <2>2. stream' = stream
      BY <1>1
    <2>3. Forest(root, depth) /\ Sound(root)
      BY DEF Roots
    <2> HIDE DEF first
    <2>4. QED
      BY <1>4, <1>5, <2>1, <2>2, <2>3, LinkKeepsSound
  <1>11. Complete(r)'
    <2>1. \A i, j \in Positions : root[i] = root[j] => r[i] = r[j]
      BY <1>7 DEF Rehung
    <2>2. r[at] = r[first]
      BY <1>4, <1>6, <1>7 DEF Rehung
    <2>3. at' - 1 = at /\ \A i \in 1..at : i \in Positions /\ (i = at \/ i \in 1..(at - 1))
      BY <1>1, <1>2, PositionsDef
    <2>4. ASSUME NEW i \in 1..at, Band(i, band)[1] # Sentinel
          PROVE  r[i] = r[buckets[Band(i, band)]]
      <3>1. CASE i = at
        BY <2>2, <3>1
      <3>2. CASE i \in 1..(at - 1)
        <4>1. Band(i, band) \in DOMAIN buckets
              /\ root[i] = root[buckets[Band(i, band)]]
          BY <1>1, <1>2, <2>4, <3>2 DEF BucketInv, Roots, Complete
        <4>2. buckets[Band(i, band)] \in Positions
          BY <4>1 DEF BucketInv
        <4>3. QED
          BY <2>1, <2>3, <4>1, <4>2
      <3>3. QED
        BY <2>3, <3>1, <3>2
    <2>5. \A i \in 1..(at' - 1) :
            Band(i, band)[1] # Sentinel => r[i] = r[buckets[Band(i, band)]]
      BY <2>3, <2>4
    <2>6. \A b \in 1..NumBands : b < band =>
            \A i, j \in Positions :
                Band(i, b) = Band(j, b) /\ Band(i, b)[1] # Sentinel => r[i] = r[j]
      BY <2>1 DEF Roots, Complete
    <2>7. QED
      BY <1>1, <2>5, <2>6 DEF Complete, Band, Positions
  <1>12. OnTheWay(r)' /\ GroupsOf(r)'
    BY <1>1 DEF OnTheWay, GroupsOf
  <1>13. QED
    BY <1>9, <1>10, <1>11, <1>12 DEF RootsInv, Roots

\* At the end of a band every two records that share it have met.
LEMMA NextBandRoots ==
    ASSUME StreamInv, BucketInv, NextBand, NEW root, NEW depth, Roots(root, depth)
    PROVE  Roots(root, depth)'
  <1>1. /\ phase = "merge" /\ band <= NumBands /\ at > Len(stream)
        /\ band' = band + 1 /\ at' = 1
        /\ UNCHANGED <<input, stream, phase, parent, cursor, near>>
    BY DEF NextBand
  <1>2. cursor = <<>> /\ \A i \in Positions : i \in 1..(at - 1)
    BY <1>1, PositionsDef DEF StreamInv
  <1>3. Forest(root, depth)' /\ Sound(root)'
    BY <1>1, ForestKept, SoundKept DEF Roots
  <1>4. Complete(root)'
    <2>1. ASSUME NEW i \in Positions, NEW j \in Positions,
                 Band(i, band) = Band(j, band), Band(i, band)[1] # Sentinel
          PROVE  root[i] = root[j]
      BY <1>1, <1>2, <2>1 DEF Roots, Complete
    <2>2. \A b \in 1..NumBands : b < band' => b < band \/ b = band
      BY <1>1 DEF StreamInv
    <2>3. \A b \in 1..NumBands : b < band' =>
            \A i, j \in Positions :
                Band(i, b) = Band(j, b) /\ Band(i, b)[1] # Sentinel => root[i] = root[j]
      BY <2>1, <2>2 DEF Roots, Complete
    <2>4. 1..(at' - 1) = {}
      BY <1>1
    <2>5. QED
      BY <1>1, <2>3, <2>4 DEF Complete, Band, Positions
  <1>5. OnTheWay(root)' /\ GroupsOf(root)'
    BY <1>1, <1>2 DEF OnTheWay, GroupsOf
  <1>6. QED
    BY <1>3, <1>4, <1>5 DEF Roots

\* The groups begin with none.
LEMMA GatherRoots ==
    ASSUME StreamInv, BucketInv, Gather, NEW root, NEW depth, Roots(root, depth)
    PROVE  Roots(root, depth)'
  <1>1. /\ phase = "merge" /\ phase' = "group" /\ at' = 1
        /\ UNCHANGED <<stream, parent, band, buckets, cursor, near>>
    BY DEF Gather
  <1>2. near = <<>> /\ cursor = <<>>
    BY <1>1, BandsAssumption DEF Gather, StreamInv
  <1>3. Forest(root, depth)' /\ Sound(root)'
    BY <1>1, ForestKept, SoundKept DEF Roots
  <1>4. Complete(root)' /\ OnTheWay(root)'
    BY <1>1, <1>2 DEF Roots, Complete, OnTheWay, Band, Positions
  <1>5. GroupsOf(root)'
    <2>1. DOMAIN near' = {} /\ 1..(at' - 1) = {}
      BY <1>1, <1>2
    <2>2. QED
      BY <2>1 DEF GroupsOf
  <1>6. QED
    BY <1>3, <1>4, <1>5 DEF Roots

\* The find of a record sets out from it.
LEMMA StartFindRoots ==
    ASSUME StreamInv, BucketInv, StartFind, NEW root, NEW depth, Roots(root, depth)
    PROVE  Roots(root, depth)'
  <1>1. /\ phase = "group" /\ cursor' = <<at>>
        /\ UNCHANGED <<stream, phase, parent, band, at, buckets, near>>
    BY DEF StartFind
  <1>2. Forest(root, depth)' /\ Sound(root)' /\ Complete(root)' /\ GroupsOf(root)'
    BY <1>1, ForestKept, SoundKept, CompleteKept, GroupsKept DEF Roots
  <1>3. OnTheWay(root)'
    BY <1>1 DEF OnTheWay
  <1>4. QED
    BY <1>2, <1>3 DEF Roots
\* A record goes to the group of its root, which is what its find has found.
LEMMA PlaceRoots ==
    ASSUME StreamInv, BucketInv, Place, NEW root, NEW depth, Roots(root, depth)
    PROVE  Roots(root, depth)'
  <1>0. PICK key : key = cursor[1]
    OBVIOUS
  <1>1. /\ phase = "group" /\ Len(cursor) = 1 /\ cursor # <<>>
        /\ parent[key] = key
        /\ near' = Appended(near, key, at) /\ cursor' = <<>> /\ at' = at + 1
        /\ UNCHANGED <<input, stream, phase, parent, band, buckets>>
    <2>1. cursor \in Seq(Positions) /\ Len(cursor) = 1 /\ Found
      BY DEF Place, StreamInv
    <2>2. 1 \in DOMAIN cursor
      BY <2>1
    <2>3. QED
      BY <1>0, <2>1, <2>2, NotEmpty DEF Place, Found
  <1>2. key \in Positions
    <2>1. cursor \in Seq(Positions) /\ 1 \in 1..Len(cursor)
      BY <1>1 DEF StreamInv
    <2>2. QED
      BY <1>0, <2>1, ElementOfSeq
  <1>3. at \in Positions /\ at \in Nat /\ Positions \subseteq Nat
    BY <1>1, PositionsDef DEF StreamInv
  <1>4. root[at] = key
    <2>1. root[key] = key
      BY <1>1, <1>2, RootFacts DEF Roots
    <2>2. root[key] = root[at]
      BY <1>0, <1>1 DEF Roots, OnTheWay
    <2>3. QED
      BY <2>1, <2>2
  <1>5. Forest(root, depth)' /\ Sound(root)'
    BY <1>1, ForestKept, SoundKept DEF Roots
  <1>6. Complete(root)' /\ OnTheWay(root)'
    BY <1>1 DEF Roots, Complete, OnTheWay, Band, Positions
  <1>7. near \in Seq([key : Positions, list : Seq(Positions)])
    BY DEF StreamInv
  <1>8. /\ \A i \in DOMAIN near :
            /\ i \in DOMAIN near' /\ near'[i].key = near[i].key
            /\ near[i].key = key => near'[i].list = Append(near[i].list, at)
            /\ near[i].key # key => near'[i].list = near[i].list
        /\ (\E i \in DOMAIN near : near[i].key = key) => Len(near') = Len(near)
        /\ (\A i \in DOMAIN near : near[i].key # key) =>
            Len(near') = Len(near) + 1 /\ near'[Len(near')] = [key |-> key, list |-> <<at>>]
        /\ near' \in Seq([key : Positions, list : Seq(Positions)])
    <2>1. near' = Appended(near, key, at)
      BY <1>1
    <2>2. IsAppended(near', near, key, at) /\ near' \in Seq([key : Positions, list : Seq(Positions)])
      BY <1>2, <1>3, <1>7, <2>1, AppendedFacts
    <2>3. QED
      BY <2>2 DEF IsAppended
  <1>9. /\ DOMAIN near = 1..Len(near) /\ DOMAIN near' = 1..Len(near')
        /\ Len(near) \in Nat /\ Len(near') \in Nat
    BY <1>7, <1>8
  <1>10. \A i \in DOMAIN near : near[i].list \in Seq(Positions)
    <2> DEFINE E == [key : Positions, list : Seq(Positions)]
    <2>1. \A i \in DOMAIN near : near[i] \in E
      <3> HIDE DEF E
      <3>1. near \in Seq(E)
        BY <1>7 DEF E
      <3>2. QED
        BY <3>1, <1>9, ElementOfSeq
    <2>2. QED
      BY <2>1
  <1>11. /\ \A n \in DOMAIN near :
            /\ ToSet(near[n].list) = {i \in 1..(at - 1) : root[i] = near[n].key}
            /\ near[n].list # <<>> /\ Increasing(near[n].list)
         /\ \A i \in 1..(at - 1) : \E n \in DOMAIN near : near[n].key = root[i]
         /\ \A n, m \in DOMAIN near : n < m =>
            near[n].key # near[m].key /\ near[n].list[1] < near[m].list[1]
    BY <1>1 DEF Roots, GroupsOf
  <1>12. /\ \A i : i \in 1..at <=> i = at \/ i \in 1..(at - 1)
         /\ at \notin 1..(at - 1)
    BY <1>3, PositionsDef
  (* A group of before. *)
  <1>13. ASSUME NEW n \in DOMAIN near
         PROVE  /\ ToSet(near'[n].list) = {i \in 1..at : root[i] = near'[n].key}
                /\ near'[n].list # <<>> /\ Increasing(near'[n].list)
                /\ near'[n].list[1] = near[n].list[1] /\ near[n].list[1] < at
    <2> DEFINE l == near[n].list
    <2>1. /\ l \in Seq(Positions) /\ l # <<>> /\ Increasing(l)
          /\ Len(l) \in Nat /\ Len(l) > 0
      <3>1. l \in Seq(Positions) /\ l # <<>> /\ Increasing(l)
        BY <1>10, <1>11
      <3>2. QED
        BY <3>1, EmptySeq, LenProperties
    <2>2. \A i \in 1..Len(l) : l[i] \in Positions /\ l[i] \in 1..(at - 1)
      <3>1. \A i \in 1..Len(l) : l[i] \in ToSet(l)
        BY <2>1 DEF ToSet
      <3>2. QED
        BY <1>11, <2>1, <3>1
    <2>3. l[1] < at
      BY <1>3, <2>1, <2>2
    <2>4. CASE near[n].key = key
      <3>1. near'[n].list = Append(l, at) /\ near'[n].key = key
        BY <1>8, <2>4
      <3>2. /\ Append(l, at) # <<>> /\ Append(l, at)[1] = l[1]
            /\ Len(Append(l, at)) = Len(l) + 1
            /\ \A i \in 1..Len(l) : Append(l, at)[i] = l[i]
            /\ Append(l, at)[Len(l) + 1] = at
            /\ DOMAIN Append(l, at) = 1..(Len(l) + 1)
        BY <1>3, <2>1, AppendProperties
      <3>3. Increasing(Append(l, at))
        <4>1. \A i, j \in 1..Len(l) : i < j => l[i] < l[j]
          BY <2>1 DEF Increasing
        <4>2. SUFFICES ASSUME NEW i \in 1..(Len(l) + 1), NEW j \in 1..(Len(l) + 1), i < j
                       PROVE  Append(l, at)[i] < Append(l, at)[j]
          BY <3>2 DEF Increasing
        <4>3. i \in 1..Len(l) /\ (j = Len(l) + 1 \/ j \in 1..Len(l))
          BY <2>1, <4>2
        <4>4. CASE j = Len(l) + 1
          BY <1>3, <2>2, <3>2, <4>3, <4>4
        <4>5. CASE j \in 1..Len(l)
          BY <3>2, <4>1, <4>2, <4>3, <4>5
        <4>6. QED
          BY <4>3, <4>4, <4>5
      <3>4. ToSet(Append(l, at)) = ToSet(l) \cup {at}
        <4>1. \A i : i \in 1..(Len(l) + 1) <=> i \in 1..Len(l) \/ i = Len(l) + 1
          BY <2>1
        <4>2. DOMAIN l = 1..Len(l)
          BY <2>1, LenProperties
        <4> HIDE DEF l
        <4>3. QED
          BY <3>2, <4>1, <4>2 DEF ToSet
      <3>5. ToSet(l) \cup {at} = {i \in 1..at : root[i] = key}
        <4>1. ToSet(l) = {i \in 1..(at - 1) : root[i] = key}
          BY <1>11, <2>4
        <4> HIDE DEF l
        <4>2. QED
          BY <1>4, <1>12, <4>1
      <3>6. QED
        BY <2>3, <3>1, <3>2, <3>3, <3>4, <3>5
    <2>5. CASE near[n].key # key
      <3>1. near'[n].list = l /\ near'[n].key = near[n].key
        BY <1>8, <2>5
      <3>2. {i \in 1..(at - 1) : root[i] = near[n].key} = {i \in 1..at : root[i] = near[n].key}
        BY <1>3, <1>4, <1>12, <2>5
      <3>3. QED
        BY <1>11, <2>1, <2>3, <3>1, <3>2
    <2>6. QED
      BY <2>4, <2>5
  <1>14. /\ \A n \in DOMAIN near' :
            /\ ToSet(near'[n].list) = {i \in 1..at : root[i] = near'[n].key}
            /\ near'[n].list # <<>> /\ Increasing(near'[n].list)
         /\ \A i \in 1..at : \E n \in DOMAIN near' : near'[n].key = root[i]
         /\ \A n, m \in DOMAIN near' : n < m =>
            near'[n].key # near'[m].key /\ near'[n].list[1] < near'[m].list[1]
    <2>1. CASE \E i \in DOMAIN near : near[i].key = key
      <3>1. DOMAIN near' = DOMAIN near
        BY <1>8, <1>9, <2>1
      <3>2. \A i \in 1..at : \E n \in DOMAIN near' : near'[n].key = root[i]
        <4>1. \A n \in DOMAIN near : n \in DOMAIN near' /\ near'[n].key = near[n].key
          BY <1>8
        <4>2. ASSUME NEW i \in 1..(at - 1)
              PROVE  \E n \in DOMAIN near' : near'[n].key = root[i]
          BY <1>11, <4>1
        <4>3. \E n \in DOMAIN near' : near'[n].key = root[at]
          BY <1>4, <2>1, <4>1
        <4>4. QED
          BY <1>12, <4>2, <4>3
      <3>3. \A n, m \in DOMAIN near' : n < m =>
                near'[n].key # near'[m].key /\ near'[n].list[1] < near'[m].list[1]
        BY <1>8, <1>11, <1>13, <3>1
      <3>4. \A n \in DOMAIN near' :
            /\ ToSet(near'[n].list) = {i \in 1..at : root[i] = near'[n].key}
            /\ near'[n].list # <<>> /\ Increasing(near'[n].list)
        BY <1>13, <3>1
      <3>5. QED
        BY <3>2, <3>3, <3>4
    <2>2. CASE \A i \in DOMAIN near : near[i].key # key
      <3> DEFINE new == Len(near) + 1
      <3>1. /\ \A n : n \in DOMAIN near' <=> n \in DOMAIN near \/ n = new
            /\ \A n \in DOMAIN near : n < new /\ n \in Nat
        <4>1. Len(near') = Len(near) + 1
          BY <1>8, <2>2
        <4>2. QED
          BY <1>9, <4>1
      <3>2. near'[new].key = key /\ near'[new].list = <<at>>
        BY <1>8, <2>2
      <3>3. /\ ToSet(<<at>>) = {at} /\ <<at>> # <<>> /\ <<at>>[1] = at
            /\ Increasing(<<at>>)
        BY DEF ToSet, Increasing
      <3>4. {i \in 1..at : root[i] = key} = {at}
        <4>1. \A i \in 1..(at - 1) : root[i] # key
          BY <1>11, <2>2
        <4>2. QED
          BY <1>3, <1>4, <1>12, <4>1
      <3>5. \A i \in 1..at : \E n \in DOMAIN near' : near'[n].key = root[i]
        <4>1. \A n \in DOMAIN near : n \in DOMAIN near' /\ near'[n].key = near[n].key
          BY <1>8
        <4>2. ASSUME NEW i \in 1..(at - 1)
              PROVE  \E n \in DOMAIN near' : near'[n].key = root[i]
          BY <1>11, <4>1
        <4>3. \E n \in DOMAIN near' : near'[n].key = root[at]
          BY <1>4, <3>1, <3>2
        <4>4. QED
          BY <1>12, <4>2, <4>3
      <3>6. \A n, m \in DOMAIN near' : n < m =>
                near'[n].key # near'[m].key /\ near'[n].list[1] < near'[m].list[1]
        <4>1. SUFFICES ASSUME NEW n \in DOMAIN near', NEW m \in DOMAIN near', n < m
                       PROVE  near'[n].key # near'[m].key /\ near'[n].list[1] < near'[m].list[1]
          OBVIOUS
        <4>2. n \in DOMAIN near
          BY <1>9, <3>1, <4>1
        <4>3. CASE m \in DOMAIN near
          BY <1>8, <1>11, <1>13, <4>1, <4>2, <4>3
        <4>4. CASE m = new
          BY <1>8, <1>13, <2>2, <3>2, <3>3, <4>2, <4>4
        <4>5. QED
          BY <3>1, <4>3, <4>4
      <3>7. QED
        BY <1>13, <3>1, <3>2, <3>3, <3>4, <3>5, <3>6
    <2>3. QED
      BY <2>1, <2>2
  <1>15. GroupsOf(root)'
    <2>1. at' - 1 = at
      BY <1>1, <1>3
    <2>2. QED
      BY <1>14, <2>1 DEF GroupsOf
  <1>16. QED
    BY <1>5, <1>6, <1>15 DEF Roots

\* What is returned is chosen among groups that stay as they are.
LEMMA SelectRoots ==
    ASSUME StreamInv, Select \/ Keep \/ Finish, NEW root, NEW depth, Roots(root, depth)
    PROVE  Roots(root, depth)'
  <1>1. /\ phase \in {"group", "select"} /\ phase' \in {"select", "done"}
        /\ UNCHANGED <<stream, parent, band, at, buckets, cursor, near>>
    BY DEF Select, Keep, Finish
  <1>2. Forest(root, depth)' /\ Sound(root)'
    BY <1>1, ForestKept, SoundKept DEF Roots
  <1>3. Complete(root)' /\ OnTheWay(root)' /\ GroupsOf(root)'
    BY <1>1 DEF Roots, Complete, OnTheWay, GroupsOf, Band, Positions
  <1>4. QED
    BY <1>2, <1>3 DEF Roots
-----------------------------------------------------------------------------
LEMMA RootsCorrect ==
    ASSUME StreamInv, BucketInv, RootsInv, Next
    PROVE  RootsInv'
  <1>1. CASE Read
    BY <1>1 DEF Read, nearVars, RootsInv
  <1>2. CASE Merge
    BY <1>2, MergeRoots
  <1>3. CASE Bucket \/ StartUnion \/ Find \/ Link \/ NextBand \/ Gather
             \/ StartFind \/ Place \/ Select \/ Keep \/ Finish
    <2>1. phase # "read"
      BY <1>3 DEF Bucket, StartUnion, InBand, Find, StreamInv, Link, NextBand, Gather,
         StartFind, Place, Select, Keep, Finish
    <2>2. PICK root, depth : Roots(root, depth)
      BY <2>1 DEF RootsInv
    <2>3. CASE Link
      BY <2>2, <2>3, LinkRoots
    <2>4. CASE ~Link
      <3>1. Roots(root, depth)'
        BY <1>3, <2>2, <2>4, BucketRoots, StartUnionRoots, FindRoots, NextBandRoots,
           GatherRoots, StartFindRoots, PlaceRoots, SelectRoots
      <3>2. QED
        BY <3>1 DEF RootsInv
    <2>5. QED
      BY <2>3, <2>4
  <1>4. QED
    BY <1>1, <1>2, <1>3 DEF Next

\* The lists of the groups are sequences of positions.
LEMMA GroupLists ==
    ASSUME StreamInv
    PROVE  /\ Len(near) \in Nat /\ DOMAIN near = 1..Len(near)
           /\ \A n \in DOMAIN near : near[n].list \in Seq(Positions)
  <1> DEFINE E == [key : Positions, list : Seq(Positions)]
  <1>1. near \in Seq(E)
    BY DEF StreamInv
  <1>2. \A n \in DOMAIN near : near[n] \in E
    <2> HIDE DEF E
    <2>1. QED
      BY <1>1, ElementOfSeq
  <1>3. QED
    BY <1>1, <1>2

\* A group is looked at once, after the groups that come before it.
LEMMA KeepResult ==
    ASSUME StreamInv, RootsInv, ResultInv, Keep
    PROVE  ResultInv'
  <1>1. /\ phase = "select" /\ phase' = "select" /\ next <= Len(near) /\ next' = next + 1
        /\ UNCHANGED <<stream, near>> /\ Positions' = Positions
    BY DEF Keep, Positions
  <1>2. /\ Len(near) \in Nat /\ DOMAIN near = 1..Len(near)
        /\ \A n \in DOMAIN near : near[n].list \in Seq(Positions)
    BY GroupLists
  <1>3. next \in Nat /\ next \in DOMAIN near
    BY <1>1, <1>2 DEF ResultInv
  <1>4. \A n \in 1..(next - 1) : near[n].list[1] < near[next].list[1]
    <2>1. PICK root, depth : Roots(root, depth)
      BY <1>1 DEF RootsInv
    <2>2. \A n \in 1..(next - 1) : n \in DOMAIN near /\ n < next
      BY <1>2, <1>3
    <2>3. QED
      BY <1>1, <1>3, <2>1, <2>2 DEF Roots, GroupsOf
  <1>5. /\ returned \in Seq(Seq(Positions)) /\ Len(returned) \in Nat
        /\ DOMAIN returned = 1..Len(returned) /\ Len(returned) < next
    BY DEF ResultInv
  <1>51. \A m \in DOMAIN returned :
           \E n \in 1..(next - 1) : Len(near[n].list) > 1 /\ returned[m] = near[n].list
    BY DEF ResultInv
  <1>52. \A n \in 1..(next - 1) :
           Len(near[n].list) > 1 => \E m \in DOMAIN returned : returned[m] = near[n].list
    BY DEF ResultInv
  <1>53. \A m, l \in DOMAIN returned : m < l => returned[m][1] < returned[l][1]
    BY DEF ResultInv
  <1>6. /\ \A n \in 1..next : n = next \/ n \in 1..(next - 1)
        /\ \A n \in 1..(next - 1) : n \in 1..next
        /\ next \in 1..next /\ next' - 1 = next /\ next' \in 1..(Len(near) + 1)
    BY <1>1, <1>2, <1>3
  <1>7. CASE Len(near[next].list) > 1
    <2> DEFINE group == near[next].list
    <2>1. returned' = Append(returned, group) /\ group \in Seq(Positions)
      BY <1>2, <1>3, <1>7 DEF Keep
    <2> HIDE DEF group
    <2> DEFINE new == Len(returned) + 1
    <2>2. /\ returned' \in Seq(Seq(Positions)) /\ Len(returned') = new
          /\ DOMAIN returned' = 1..new
          /\ returned'[new] = group
          /\ \A m \in DOMAIN returned : returned'[m] = returned[m]
      BY <1>5, <2>1
    <2>3. \A m \in DOMAIN returned' : m = new \/ m \in DOMAIN returned
      BY <1>5, <2>2
    <2>4. \A m \in DOMAIN returned : m \in DOMAIN returned' /\ m < new
      BY <1>5, <2>2
    <2>5. \A m \in DOMAIN returned' :
            \E n \in 1..next : Len(near[n].list) > 1 /\ returned'[m] = near[n].list
      <3>1. CASE next \in 1..next /\ returned'[new] = near[next].list
        <4>1. ASSUME NEW m \in DOMAIN returned
              PROVE  \E n \in 1..next : Len(near[n].list) > 1 /\ returned'[m] = near[n].list
          <5>1. PICK n \in 1..(next - 1) : Len(near[n].list) > 1 /\ returned[m] = near[n].list
            BY <1>51
          <5>2. n \in 1..next /\ returned'[m] = returned[m]
            BY <1>6, <2>2
          <5>3. QED
            BY <5>1, <5>2
        <4>2. QED
          BY <1>7, <2>3, <3>1, <4>1
      <3>2. QED
        BY <1>6, <2>2, <3>1 DEF group
    <2>6. \A n \in 1..next :
            Len(near[n].list) > 1 => \E m \in DOMAIN returned' : returned'[m] = near[n].list
      <3>1. SUFFICES ASSUME NEW n \in 1..next, Len(near[n].list) > 1
                     PROVE  \E m \in DOMAIN returned' : returned'[m] = near[n].list
        OBVIOUS
      <3>2. CASE n = next
        <4>1. new \in DOMAIN returned'
          BY <1>5, <2>2
        <4>2. returned'[new] = near[n].list
          BY <2>2, <3>2 DEF group
        <4>3. QED
          BY <4>1, <4>2
      <3>3. CASE n \in 1..(next - 1)
        <4>1. PICK m \in DOMAIN returned : returned[m] = near[n].list
          BY <1>52, <3>1, <3>3
        <4>2. QED
          BY <2>2, <2>4, <4>1
      <3>4. QED
        BY <1>6, <3>2, <3>3
    <2>7. \A m, l \in DOMAIN returned' : m < l => returned'[m][1] < returned'[l][1]
      <3>1. SUFFICES ASSUME NEW m \in DOMAIN returned', NEW l \in DOMAIN returned', m < l
                     PROVE  returned'[m][1] < returned'[l][1]
        OBVIOUS
      <3>2. m \in DOMAIN returned
        BY <1>5, <2>2, <3>1
      <3>3. CASE l \in DOMAIN returned
        BY <1>53, <2>2, <3>1, <3>2, <3>3
      <3>4. CASE l = new
        <4>1. PICK n \in 1..(next - 1) : returned[m] = near[n].list
          BY <1>51, <3>2
        <4>2. returned'[m] = near[n].list /\ returned'[l] = near[next].list
          BY <2>2, <3>2, <3>4, <4>1 DEF group
        <4>3. QED
          BY <1>4, <4>2
      <3>5. QED
        BY <2>3, <3>3, <3>4
    <2>8. Len(returned') < next'
      BY <1>1, <1>3, <1>5, <2>2
    <2>9. QED
      BY <1>1, <1>6, <2>2, <2>5, <2>6, <2>7, <2>8 DEF ResultInv
  <1>8. CASE ~(Len(near[next].list) > 1)
    <2>1. returned' = returned
      BY <1>8 DEF Keep
    <2>2. \A m \in DOMAIN returned :
            \E n \in 1..next : Len(near[n].list) > 1 /\ returned[m] = near[n].list
      BY <1>51, <1>6
    <2>3. \A n \in 1..next :
            Len(near[n].list) > 1 => \E m \in DOMAIN returned : returned[m] = near[n].list
      BY <1>52, <1>6, <1>8
    <2>4. Len(returned) < next'
      BY <1>1, <1>3, <1>5
    <2>5. QED
      BY <1>1, <1>5, <1>6, <2>1, <2>2, <2>3, <2>4 DEF ResultInv
  <1>9. QED
    BY <1>7, <1>8

LEMMA ResultCorrect ==
    ASSUME StreamInv, StreamInv', RootsInv, ResultInv, Next
    PROVE  ResultInv'
  <1>1. CASE Keep
    BY <1>1, KeepResult
  <1>2. CASE Finish
    BY <1>2 DEF Finish, ResultInv, Positions
  <1>3. CASE ~Keep /\ ~Finish
    <2>1. /\ phase \notin {"select", "done"} /\ phase' # "done"
          /\ UNCHANGED <<next, returned>>
      BY <1>3 DEF Next, Read, Merge, Bucket, StartUnion, InBand, Find, Link, NextBand, Gather,
         StartFind, Place, Select, StreamInv, nearVars
    <2>2. next' = 1 /\ returned' = <<>>
      BY <2>1 DEF ResultInv
    <2>3. Len(near') \in Nat /\ <<>> \in Seq(Seq(Positions')) /\ Len(<<>>) = 0
          /\ DOMAIN <<>> = {} /\ 1..(1 - 1) = {}
      <3>1. Len(near') \in Nat
        BY DEF StreamInv
      <3>2. QED
        BY <3>1
    <2>4. QED
      BY <2>1, <2>2, <2>3 DEF ResultInv
  <1>4. QED
    BY <1>1, <1>2, <1>3

\* Every step keeps the invariant.
LEMMA InvCorrect ==
    ASSUME Inv, [Next]_vars
    PROVE  Inv'
  <1>1. CASE Next
    <2>1. StreamInv' /\ BucketInv' /\ RootsInv' /\ ResultInv'
      BY <1>1, StreamCorrect, BucketCorrect, RootsCorrect, ResultCorrect DEF Inv
    <2>2. CASE Read
      <3>1. PICK r \in input.records : Consume(r)
        BY <2>2 DEF Read
      <3>2. QED
        BY <2>1, <3>1, CountCorrect DEF Inv
    <2>3. CASE ~Read
      <3>1. UNCHANGED <<stream, single>>
        BY <1>1, <2>3 DEF Next, Merge, Bucket, StartUnion, Find, Link, NextBand, Gather,
           StartFind, Place, Select, Keep, Finish
      <3>2. QED
        BY <2>1, <3>1, CountKept DEF Inv
    <2>4. QED
      BY <2>2, <2>3
  <1>2. CASE UNCHANGED vars
    <2>1. /\ UNCHANGED <<input, stream, single, phase, parent, band, at, buckets, cursor, near>>
          /\ UNCHANGED <<next, returned>>
      BY <1>2 DEF vars, nearVars
    <2>2. StreamInv'
      BY <2>1 DEF Inv, StreamInv, Positions
    <2>3. BucketInv'
      BY <2>1 DEF Inv, BucketInv, Band, Positions
    <2>4. RootsInv'
      <3>1. ASSUME NEW root, NEW depth, Roots(root, depth)
            PROVE  Roots(root, depth)'
        BY <2>1, <3>1, ForestKept, SoundKept, CompleteKept, GroupsKept
           DEF Roots, OnTheWay, Band
      <3>2. QED
        BY <2>1, <3>1 DEF Inv, RootsInv
    <2>5. CountInv'
      BY <2>1, CountKept DEF Inv
    <2>6. ResultInv'
      BY <2>1 DEF Inv, ResultInv, Positions
    <2>7. QED
      BY <2>2, <2>3, <2>4, <2>5, <2>6 DEF Inv
  <1>3. QED
    BY <1>1, <1>2

\* With roots that are sound and complete, the records of one root are all that
\* a chain of common bands leads to.
LEMMA RootsAreComponents ==
    ASSUME StreamInv, ResultInv, NEW root, NEW depth, Roots(root, depth), phase = "done"
    PROVE  NearGroupsAreComponents
  <1>1. band > NumBands /\ at = Len(stream) + 1 /\ Positions = 1..(at - 1)
        /\ near \in Seq([key : Positions, list : Seq(Positions)])
    BY PositionsDef DEF StreamInv
  <1>2. /\ \A n \in DOMAIN near :
            /\ ToSet(near[n].list) = {i \in Positions : root[i] = near[n].key}
            /\ near[n].list # <<>> /\ Increasing(near[n].list)
        /\ \A i \in Positions : \E n \in DOMAIN near : near[n].key = root[i]
        /\ \A n, m \in DOMAIN near : n < m =>
            near[n].key # near[m].key /\ near[n].list[1] < near[m].list[1]
    BY <1>1 DEF Roots, GroupsOf
  <1>3. \A i, j \in Positions : ShareBand(i, j) => root[i] = root[j]
    <2>1. \A b \in 1..NumBands : b < band
      BY <1>1, BandsAssumption DEF StreamInv
    <2>2. QED
      BY <2>1 DEF ShareBand, Roots, Complete
  <1>4. ASSUME NEW n \in DOMAIN near
        PROVE  LET group == ToSet(near[n].list) IN
               /\ Separate(group)
               /\ \A S \in SUBSET group : S \in {{}, group} \/ ~Separate(S)
               /\ IsSorted(near[n].list, <)
    <2> DEFINE group == ToSet(near[n].list)
    <2>1. group \subseteq Positions /\ \A i \in Positions : i \in group <=> root[i] = near[n].key
      BY <1>2
    <2> HIDE DEF group
    <2>2. Separate(group)
      BY <1>3, <2>1 DEF Separate
    <2>3. ASSUME NEW S \in SUBSET group, S # {}, S # group, Separate(S)
          PROVE  FALSE
      <3>1. PICK i \in S : TRUE
        BY <2>3
      <3>2. PICK j \in group : j \notin S
        BY <2>3
      <3>3. S \in SUBSET Positions /\ i \in Positions /\ j \in Positions /\ root[i] = root[j]
        BY <2>1, <3>1, <3>2
      <3>4. (i \in S <=> root[i] \in S) /\ (j \in S <=> root[j] \in S)
        BY <2>3, <3>3 DEF Roots, Sound
      <3>5. QED
        BY <3>1, <3>2, <3>3, <3>4
    <2>4. IsSorted(near[n].list, <)
      BY <1>2 DEF IsSorted, Increasing
    <2>5. QED
      BY <2>2, <2>3, <2>4 DEF group
  <1>5. /\ \A m \in DOMAIN returned :
            \E n \in DOMAIN near : Len(near[n].list) > 1 /\ returned[m] = near[n].list
        /\ \A n \in DOMAIN near :
            Len(near[n].list) > 1 => \E m \in DOMAIN returned : returned[m] = near[n].list
    <2>1. next - 1 = Len(near) /\ DOMAIN near = 1..Len(near)
      BY GroupLists DEF ResultInv
    <2>2. QED
      BY <2>1 DEF ResultInv
  <1>6. \A n \in DOMAIN near :
            /\ near[n].list \in Seq(Positions) /\ Len(near[n].list) \in Nat
            /\ DOMAIN near[n].list = 1..Len(near[n].list)
    BY GroupLists
  <1>7. ASSUME NEW n \in DOMAIN near, Len(near[n].list) > 1, NEW i \in ToSet(near[n].list)
        PROVE  i \in Positions /\ \E j \in Positions \ {i} : ShareBand(i, j)
    <2>1. i \in Positions
      BY <1>2, <1>7
    <2>2. 1 \in DOMAIN near[n].list /\ 2 \in DOMAIN near[n].list
      BY <1>6, <1>7
    <2>3. near[n].list[1] < near[n].list[2]
      BY <1>2, <1>6, <2>2 DEF Increasing
    <2>4. /\ near[n].list[1] \in ToSet(near[n].list) /\ near[n].list[2] \in ToSet(near[n].list)
          /\ near[n].list[1] \in Positions /\ near[n].list[2] \in Positions
      BY <1>6, <2>2, ElementOfSeq DEF ToSet
    <2>5. near[n].list[1] # near[n].list[2]
      <3>1. \A x, y \in Positions : x < y => x # y
        BY PositionsDef
      <3>2. QED
        BY <2>3, <2>4, <3>1
    <2>6. {i} # ToSet(near[n].list) /\ {i} # {} /\ {i} \in SUBSET ToSet(near[n].list)
      BY <1>7, <2>4, <2>5
    <2>7. ~Separate({i})
      BY <1>4, <2>6
    <2>8. QED
      BY <2>1, <2>7 DEF Separate
  <1>8. ASSUME NEW i \in Positions, NEW j \in Positions \ {i}, ShareBand(i, j)
        PROVE  \E m \in DOMAIN returned : i \in ToSet(returned[m])
    <2>1. root[i] = root[j]
      BY <1>3, <1>8
    <2>2. PICK n \in DOMAIN near : near[n].key = root[i]
      BY <1>2
    <2>3. i \in ToSet(near[n].list) /\ j \in ToSet(near[n].list)
      BY <1>2, <2>1, <2>2
    <2>4. PICK x \in DOMAIN near[n].list, y \in DOMAIN near[n].list :
            near[n].list[x] = i /\ near[n].list[y] = j
      BY <2>3 DEF ToSet
    <2>5. x # y
      BY <2>4
    <2>6. Len(near[n].list) > 1
      BY <1>6, <2>5
    <2>7. QED
      BY <1>5, <2>3, <2>6
  <1>9. UNION {ToSet(returned[m]) : m \in DOMAIN returned} =
            {i \in Positions : \E j \in Positions \ {i} : ShareBand(i, j)}
    <2>1. \A m \in DOMAIN returned : \A i \in ToSet(returned[m]) :
            i \in Positions /\ \E j \in Positions \ {i} : ShareBand(i, j)
      BY <1>5, <1>7
    <2>2. QED
      BY <1>8, <2>1
  <1>10. \A m \in 1..(Len(returned) - 1) : returned[m][1] < returned[m + 1][1]
    <2>1. \A m \in 1..(Len(returned) - 1) :
            m \in DOMAIN returned /\ m + 1 \in DOMAIN returned /\ m < m + 1
      BY DEF ResultInv
    <2>2. QED
      BY <2>1 DEF ResultInv
  <1>11. ASSUME NEW m \in DOMAIN returned
         PROVE  LET group == ToSet(returned[m]) IN
                /\ Separate(group)
                /\ \A S \in SUBSET group : S \in {{}, group} \/ ~Separate(S)
                /\ IsSorted(returned[m], <)
    <2>1. PICK n \in DOMAIN near : returned[m] = near[n].list
      BY <1>5
    <2>2. QED
      BY <1>4, <2>1
  <1>12. QED
    BY <1>9, <1>10, <1>11 DEF NearGroupsAreComponents

-----------------------------------------------------------------------------
\* The analyses keep the types of their state on every stream.
THEOREM TypeSafety == Spec => []TypeOK
  <1>1. Inv => TypeOK
    <2> SUFFICES ASSUME Inv PROVE TypeOK
      OBVIOUS
    <2>1. StreamInv /\ BucketInv
      BY DEF Inv
    <2>2. \A i \in Positions : stream[i] \in input.records
      BY <2>1, PositionsDef
    <2>3. Len(cursor) <= 2
      <3>1. Len(<<>>) = 0
        OBVIOUS
      <3>2. cursor = <<>> \/ Len(cursor) = 2 \/ Len(cursor) = 1
        BY <2>1 DEF StreamInv
      <3>3. Len(cursor) \in {0, 1, 2}
        BY <3>1, <3>2
      <3>4. \A n \in {0, 1, 2} : n <= 2
        OBVIOUS
      <3>5. QED
        BY <3>3, <3>4
    <2>4. ToSet(cursor) \subseteq Positions
      <3>1. cursor \in Seq(Positions) /\ DOMAIN cursor = 1..Len(cursor)
        BY <2>1 DEF StreamInv
      <3>2. QED
        BY <3>1, ElementOfSeq DEF ToSet
    <2>5. \A key \in DOMAIN buckets :
            buckets[key] \in Positions /\ (phase = "merge" => buckets[key] < at)
      <3>1. band <= NumBands \/ band > NumBands
        BY <2>1, BandsAssumption DEF StreamInv
      <3>2. QED
        BY <2>1, <3>1 DEF BucketInv
    <2>6. next \in 1..(Len(near) + 1) /\ Len(returned) < next
      BY DEF Inv, ResultInv
    <2>7. QED
      BY <2>1, <2>2, <2>3, <2>4, <2>5, <2>6 DEF TypeOK, StreamInv
  <1>2. QED
    BY <1>1, InitCorrect, InvCorrect, PTL DEF Spec

\* find_near_duplicate_record_ids returns the smallest sets of records with no
\* common band between them, whatever the order of the records and of the
\* bands, and however the unions and the path halving interleave.
THEOREM GroupsAreComponents == Spec => []NearGroupsAreComponents
  <1>1. Inv => NearGroupsAreComponents
    <2>1. CASE phase = "done"
      BY <2>1, RootsAreComponents DEF Inv, RootsInv
    <2>2. CASE phase # "done"
      BY <2>2 DEF NearGroupsAreComponents
    <2>3. QED
      BY <2>1, <2>2
  <1>2. QED
    BY <1>1, InitCorrect, InvCorrect, PTL DEF Spec

\* count_approx_duplicate_records counts every record whose metadata came
\* before, whatever other records its filter takes for duplicates.
THEOREM CountsEveryRepeat == Spec => []NeverUndercounts
  <1>1. Inv => NeverUndercounts
    BY DEF Inv, CountInv
  <1>2. QED
    BY <1>1, InitCorrect, InvCorrect, PTL DEF Spec
=============================================================================
