------------------------------- MODULE MCRecords -------------------------------
(***************************************************************************)
(* Small streams of records for RecordAnalysis, each kind for some of the  *)
(* analyses.  tag has the values of every kind: strings, a list, and two   *)
(* objects of one class.                                                   *)
(***************************************************************************)
EXTENDS RecordAnalysis, TLC

CONSTANTS a, b, v1, v2, list, obj1, obj2, class

Page(n)   == "page" :> n
Tag(v)    == "tag" :> v
Ref(id)   == "ref" :> id
Nothing   == [f \in {} |-> None]

Records(ids, metadata) == [id : ids, metadata : metadata]

MCInputs ==
    { \* near duplicates
      [length |-> 4, records |-> Records({a}, {Nothing, Page(1), Page(1) @@ Tag(v1),
          Page(1) @@ Tag(v2), Page(2) @@ Tag(v1), Page(2) @@ Tag(v2)})],
      \* ids that collide, diffs, references
      [length |-> 3, records |-> Records({a, b}, {Nothing, Page(1), Ref(a), Ref(b), Ref(None)})],
      \* samples, hashes
      [length |-> 4, records |-> Records({a}, {Tag(v1), Tag(v2), Tag(list), Tag(obj1), Tag(obj2)})],
      \* sorts
      [length |-> 3, records |-> Records({a, b}, {Nothing, Page(1), Page(2), Page(None), Tag(Empty)})] }

Values == {1, 2, a, b, v1, v2, list, obj1, obj2, Empty, None}

MCTypeHash == obj1 :> class @@ obj2 :> class
MCStrOf    == list :> v1

\* Six bits, the first of which chooses the register.
MCHashOf ==
    1 :> 2 @@ 2 :> 12 @@ a :> 5 @@ b :> 9 @@ v1 :> 4 @@ v2 :> 16 @@ list :> 4 @@
    obj1 :> 33 @@ obj2 :> 33 @@ Empty :> 0 @@ None :> 63

\* Pages decide the first band, tags the second.
Rank1(v) == IF v \in {2, v2} THEN 2 ELSE 1
MCBaseHash ==
    [seed \in 1..4 |->
        [item \in {"page", "tag", "ref"} \X Values |->
            Rank1(item[2]) + (IF (item[1] = "page") = (seed <= 2) THEN 0 ELSE 10)]]
=============================================================================
