------------------------- MODULE EmbeddedStores_proofs -------------------------
(***************************************************************************)
(* Theorems about EmbeddedStores for every set of threads, keys, calls and *)
(* deployments, and every number of crashes.                               *)
(***************************************************************************)
EXTENDS EmbeddedStores, StoreData_proofs, FiniteSetTheorems

-----------------------------------------------------------------------------
(* The pages of a scan: how many keys of d come before k.                  *)
Before(d, k) == Cardinality({i \in Present(d) : i < k})

Scans == [offset : Nat, yields : [Keys -> 0..2], stable : SUBSET Keys,
          gone : SUBSET Keys, added : SUBSET Keys, rewritten : SUBSET Keys]

(* OFFSET pages.  Unless a smaller key was deleted, a key that was there    *)
(* all the time and has not come yet is still ahead of the offset; unless a *)
(* smaller one was added, a key that has come is behind it.                 *)
Pages(s, d) ==
    /\ s.stable \subseteq Present(d)
    /\ \A k \in Keys :
        /\ k \in s.stable /\ s.yields[k] = 0 /\ (\A i \in s.gone : ~(i < k)) =>
                s.offset <= Before(d, k)
        /\ s.yields[k] # 0 /\ (\A i \in s.added : ~(i < k)) => Before(d, k) < s.offset
        /\ s.yields[k] = 2 => \E i \in s.added : i < k

(* The keys are listed first; those of ahead are still to come.            *)
Listing(s, d, ahead) ==
    /\ s.stable \subseteq Present(d)
    /\ \A k \in Keys :
        /\ s.yields[k] # 2
        /\ k \in ahead => s.yields[k] = 0
        /\ k \in s.stable => k \in ahead \/ s.yields[k] = 1

(* An open cursor with the rows of ahead before it.                        *)
Cursor(s, d, ahead) ==
    /\ s.stable \subseteq Present(d)
    /\ \A k \in Keys :
        /\ k \in s.stable => k \in ahead \/ s.yields[k] # 0
        /\ s.yields[k] = 2 \/ (s.yields[k] # 0 /\ k \in ahead) =>
                k \in s.added \cup s.rewritten

-----------------------------------------------------------------------------
\* The position of a key among the keys K.
LEMMA Position ==
    ASSUME NEW K \in SUBSET Keys, NEW k \in K
    PROVE  /\ Cardinality({i \in K : i < k}) \in Nat
           /\ Cardinality({i \in K : i <= k}) = Cardinality({i \in K : i < k}) + 1
           /\ Cardinality({i \in K : i <= k}) <= Cardinality(K)
           /\ Cardinality(K) \in Nat
  <1>1. IsFiniteSet(K)
    BY KeyAssumption, FS_Subset
  <1>2. {i \in K : i < k} \in SUBSET K /\ {i \in K : i <= k} \in SUBSET K
    OBVIOUS
  <1>3. IsFiniteSet({i \in K : i < k})
    BY <1>1, <1>2, FS_Subset
  <1>4. {i \in K : i <= k} = {i \in K : i < k} \cup {k} /\ k \notin {i \in K : i < k}
    <2>1. k \in Int /\ \A i \in K : i \in Int
      BY KeyAssumption
    <2>2. ~(k < k) /\ k <= k /\ \A i \in K : i <= k <=> (i < k \/ i = k)
      BY <2>1
    <2>3. QED
      BY <2>2, Zenon
  <1>5. Cardinality({i \in K : i <= k}) = Cardinality({i \in K : i < k}) + 1
    BY <1>3, <1>4, FS_AddElement
  <1>6. Cardinality({i \in K : i <= k}) <= Cardinality(K)
    BY <1>1, <1>2, FS_Subset
  <1>7. QED
    BY <1>1, <1>3, <1>5, <1>6, FS_CardinalityType

\* The positions of the keys K are 1 .. Cardinality(K), each taken once.
LEMMA Positions ==
    ASSUME NEW K \in SUBSET Keys
    PROVE  [k \in K |-> Cardinality({i \in K : i <= k})]
                \in Surjection(K, 1..Cardinality(K))
  <1> DEFINE pos == [k \in K |-> Cardinality({i \in K : i <= k})]
  <1>1. IsFiniteSet(K) /\ Cardinality(K) \in Nat
    BY KeyAssumption, FS_Subset, FS_CardinalityType
  <1>2. pos \in [K -> 1..Cardinality(K)]
    <2>1. ASSUME NEW k \in K
          PROVE  Cardinality({i \in K : i <= k}) \in 1..Cardinality(K)
      <3> DEFINE n == Cardinality({i \in K : i < k})
                 m == Cardinality({i \in K : i <= k})
      <3>1. n \in Nat /\ m = n + 1 /\ m <= Cardinality(K)
        BY Position
      <3> HIDE DEF n, m
      <3>2. m \in 1..Cardinality(K)
        BY <1>1, <3>1
      <3>3. QED
        BY <3>2 DEF m
    <2>2. QED
      BY <2>1
  <1>3. ASSUME NEW j \in K, NEW k \in K, j < k
        PROVE  pos[j] < pos[k]
    <2> DEFINE A == {i \in K : i <= j}
               B == {i \in K : i < k}
               C == {i \in K : i <= k}
    <2>1. k \in Int /\ j \in Int /\ \A i \in K : i \in Int
      BY KeyAssumption
    <2>2. \A i \in K : i <= j => i < k
      BY <1>3, <2>1
    <2>3. A \in SUBSET B
      BY <2>2
    <2>4. IsFiniteSet(B)
      BY <1>1, FS_Subset
    <2>5. IsFiniteSet(A) /\ Cardinality(A) <= Cardinality(B)
      BY <2>3, <2>4, FS_Subset
    <2>6. Cardinality(A) \in Nat /\ Cardinality(B) \in Nat
      BY <2>4, <2>5, FS_CardinalityType
    <2>7. Cardinality(C) = Cardinality(B) + 1
      BY Position
    <2> HIDE DEF A, B, C
    <2>8. Cardinality(A) < Cardinality(C)
      BY <2>5, <2>6, <2>7
    <2>9. QED
      BY <2>8 DEF A, C
  <1>4. pos \in Injection(K, 1..Cardinality(K))
    <2>1. ASSUME NEW j \in K, NEW k \in K, pos[j] = pos[k]
          PROVE  j = k
      <3>1. j \in Int /\ k \in Int /\ pos[j] \in Int /\ pos[k] \in Int
        BY <1>2, KeyAssumption
      <3> HIDE DEF pos
      <3>2. ~(j < k) /\ ~(k < j)
        BY <1>3, <2>1, <3>1
      <3>3. QED
        BY <3>1, <3>2
    <2> HIDE DEF pos
    <2>2. QED
      BY <1>2, <2>1 DEF Injection, IsInjective
  <1>5. IsFiniteSet(1..Cardinality(K)) /\ Cardinality(1..Cardinality(K)) = Cardinality(K)
    BY <1>1, FS_Interval
  <1> DEFINE T == 1..Cardinality(K)
  <1> HIDE DEF pos, T
  <1>6. IsFiniteSet(T) /\ Cardinality(T) = Cardinality(K) /\ pos \in Injection(K, T)
    BY <1>4, <1>5 DEF T
  <1>7. pos \in Surjection(K, T)
    BY <1>6, FS_Injection
  <1>8. QED
    BY <1>7 DEF pos, T

\* A page is short when the keys end in it.
LEMMA ShortPage ==
    ASSUME NEW K \in SUBSET Keys, NEW from \in Nat
    PROVE  /\ Cardinality(Slice(K, from)) \in Nat
           /\ Cardinality(Slice(K, from)) < BatchSize <=> Cardinality(K) < from + BatchSize
  <1> DEFINE pos == [k \in K |-> Cardinality({i \in K : i <= k})]
             S   == Slice(K, from)
             n   == Cardinality(K)
  <1>1. IsFiniteSet(K) /\ n \in Nat /\ BatchSize \in Nat /\ BatchSize > 0
    <2>1. IsFiniteSet(K)
      BY KeyAssumption, FS_Subset
    <2>2. QED
      BY <2>1, BoundAssumption, FS_CardinalityType
  <1>2. S \in SUBSET K /\ S = {k \in K : pos[k] \in (from + 1)..(from + BatchSize)}
    BY DEF Slice
  <1>3. IsFiniteSet(S) /\ Cardinality(S) \in Nat
    BY <1>1, <1>2, FS_Subset, FS_CardinalityType
  <1>4. pos \in Surjection(K, 1..n)
    BY Positions
  <1>5. pos \in Injection(K, 1..n)
    <2>1. Cardinality(1..n) = Cardinality(K)
      BY <1>1, FS_Interval
    <2> HIDE DEF pos
    <2>2. QED
      BY <1>1, <1>4, <2>1, FS_Surjection
  <1> DEFINE g == [k \in S |-> pos[k]]
  <1>6. ASSUME n < from + BatchSize
        PROVE  Cardinality(S) < BatchSize
    <2> HIDE DEF pos, S, n
    <2>1. g \in Injection(S, (from + 1)..n)
      <3>1. ASSUME NEW k \in S PROVE pos[k] \in (from + 1)..n
        BY <1>1, <1>2, <1>4 DEF Surjection
      <3>2. \A j, k \in S : pos[j] = pos[k] => j = k
        BY <1>2, <1>5 DEF Injection, IsInjective
      <3>3. QED
        BY <3>1, <3>2 DEF Injection, IsInjective
    <2>2. IsFiniteSet((from + 1)..n)
      BY <1>1, FS_Interval
    <2>3. Cardinality(S) <= Cardinality((from + 1)..n)
      BY <2>1, <2>2, FS_Injection
    <2>4. Cardinality((from + 1)..n) = IF from + 1 > n THEN 0 ELSE n - from
      BY <1>1, FS_Interval
    <2>5. QED
      BY <1>1, <1>3, <1>6, <2>3, <2>4
  <1>7. ASSUME from + BatchSize <= n
        PROVE  BatchSize <= Cardinality(S)
    <2> HIDE DEF pos, S, n
    <2>1. g \in Surjection(S, (from + 1)..(from + BatchSize))
      BY <1>1, <1>2, <1>4, <1>7 DEF Surjection
    <2>2. Cardinality((from + 1)..(from + BatchSize)) <= Cardinality(S)
      BY <1>3, <2>1, FS_Surjection
    <2>3. Cardinality((from + 1)..(from + BatchSize)) = BatchSize
      BY <1>1, FS_Interval
    <2>4. QED
      BY <2>2, <2>3
  <1> HIDE DEF pos, S, n
  <1>8. (Cardinality(S) < BatchSize) <=> (n < from + BatchSize)
    BY <1>1, <1>3, <1>6, <1>7
  <1>9. QED
    BY <1>3, <1>8 DEF S, n

-----------------------------------------------------------------------------
\* What a scan notices of the writes w to the pairs d.
LEMMA NotedFacts ==
    ASSUME NEW s \in Scans, NEW d \in Contents, NEW w \in Writes
    PROVE  LET n == Noted(s, d, w)
               e == Stored(d, w)
           IN  /\ n \in Scans /\ n.offset = s.offset /\ n.yields = s.yields
               /\ n.stable \subseteq s.stable
               /\ s.gone \subseteq n.gone /\ s.added \subseteq n.added
               /\ s.rewritten \subseteq n.rewritten
               /\ \A k \in Present(d) : k \notin Present(e) => k \in n.gone /\ k \notin n.stable
               /\ \A k \in Present(e) : k \notin Present(d) => k \in n.added
               /\ \A k \in DOMAIN w : w[k] # Absent => k \in n.added \cup n.rewritten
  <1> DEFINE dropped == {k \in DOMAIN w : w[k] = Absent /\ d[k] # Absent}
             fresh   == {k \in DOMAIN w : w[k] # Absent /\ d[k] = Absent}
             again   == {k \in DOMAIN w : w[k] # Absent /\ d[k] # Absent}
             n       == Noted(s, d, w)
             e       == Stored(d, w)
  <1>1. DOMAIN w \subseteq Keys
    BY ItemsDef
  <1>2. dropped \subseteq Keys /\ fresh \subseteq Keys /\ again \subseteq Keys
    BY <1>1
  <1>3. n = [s EXCEPT !.stable = @ \ dropped, !.gone = @ \cup dropped,
                      !.added = @ \cup fresh, !.rewritten = @ \cup again]
    BY DEF Noted
  <1>4. \A k \in Keys : e[k] = IF k \in DOMAIN w THEN w[k] ELSE d[k]
    BY DEF Stored
  <1>5. /\ \A k \in Present(d) : k \notin Present(e) => k \in dropped
        /\ \A k \in Present(e) : k \notin Present(d) => k \in fresh
        /\ \A k \in DOMAIN w : w[k] # Absent => k \in fresh \cup again
    BY <1>4 DEF Present
  <1> HIDE DEF dropped, fresh, again, n, e
  <1>6. /\ n \in Scans /\ n.offset = s.offset /\ n.yields = s.yields
        /\ n.stable = s.stable \ dropped /\ n.gone = s.gone \cup dropped
        /\ n.added = s.added \cup fresh /\ n.rewritten = s.rewritten \cup again
    BY <1>2, <1>3 DEF Scans
  <1>7. QED
    BY <1>5, <1>6 DEF n, e

\* What a scan is after it has yielded the keys K.
LEMMA YieldingFacts ==
    ASSUME NEW s \in Scans, NEW K
    PROVE  LET y == Yielding(s, K) IN
           /\ y \in Scans /\ y.offset = s.offset /\ y.stable = s.stable
           /\ y.gone = s.gone /\ y.added = s.added /\ y.rewritten = s.rewritten
           /\ \A k \in Keys : /\ s.yields[k] \in 0..2
                              /\ y.yields[k] = IF k \in K /\ s.yields[k] < 2
                                               THEN s.yields[k] + 1 ELSE s.yields[k]
  <1> DEFINE g == [k \in Keys |-> IF k \in K /\ s.yields[k] < 2
                                  THEN s.yields[k] + 1 ELSE s.yields[k]]
             y == Yielding(s, K)
  <1>1. s.yields \in [Keys -> 0..2]
    BY DEF Scans
  <1>2. g \in [Keys -> 0..2]
    BY <1>1
  <1>3. y = [s EXCEPT !.yields = g]
    BY DEF Yielding
  <1>4. \A k \in Keys : g[k] = IF k \in K /\ s.yields[k] < 2
                               THEN s.yields[k] + 1 ELSE s.yields[k]
    OBVIOUS
  <1> HIDE DEF g, y
  <1>5. y \in Scans /\ y.offset = s.offset /\ y.stable = s.stable /\ y.yields = g
        /\ y.gone = s.gone /\ y.added = s.added /\ y.rewritten = s.rewritten
    BY <1>2, <1>3 DEF Scans
  <1>6. QED
    BY <1>1, <1>4, <1>5 DEF y

\* Writes keep OFFSET pages, listings and cursors as they should be.
LEMMA PagesNoted ==
    ASSUME NEW s \in Scans, NEW d \in Contents, NEW w \in Writes, Pages(s, d)
    PROVE  Pages(Noted(s, d, w), Stored(d, w))
  <1> DEFINE n == Noted(s, d, w)
             e == Stored(d, w)
  <1>1. /\ n \in Scans /\ n.offset = s.offset /\ n.yields = s.yields
        /\ n.stable \subseteq s.stable
        /\ s.gone \subseteq n.gone /\ s.added \subseteq n.added
        /\ \A k \in Present(d) : k \notin Present(e) => k \in n.gone /\ k \notin n.stable
        /\ \A k \in Present(e) : k \notin Present(d) => k \in n.added
    BY NotedFacts
  <1> HIDE DEF n, e
  <1>2. n.stable \subseteq Present(e)
    BY <1>1 DEF Pages
  <1>3. ASSUME NEW A \in SUBSET Keys, NEW B \in SUBSET Keys, NEW k \in Keys,
               \A i \in A : i < k => i \in B
        PROVE  /\ Cardinality({i \in A : i < k}) <= Cardinality({i \in B : i < k})
               /\ Cardinality({i \in A : i < k}) \in Nat
               /\ Cardinality({i \in B : i < k}) \in Nat
    <2>1. IsFiniteSet({i \in B : i < k}) /\ IsFiniteSet({i \in A : i < k})
      BY KeyAssumption, FS_Subset
    <2>2. {i \in A : i < k} \in SUBSET {i \in B : i < k}
      BY <1>3
    <2>3. QED
      BY <2>1, <2>2, FS_Subset, FS_CardinalityType
  <1>4. Present(d) \in SUBSET Keys /\ Present(e) \in SUBSET Keys
    BY DEF Present
  <1>5. ASSUME NEW k \in Keys
        PROVE  /\ k \in n.stable /\ n.yields[k] = 0 /\ (\A i \in n.gone : ~(i < k)) =>
                        n.offset <= Before(e, k)
               /\ n.yields[k] # 0 /\ (\A i \in n.added : ~(i < k)) =>
                        Before(e, k) < n.offset
               /\ n.yields[k] = 2 => \E i \in n.added : i < k
    <2>1. (\A i \in n.gone : ~(i < k)) => Before(d, k) <= Before(e, k)
      BY <1>1, <1>3, <1>4 DEF Before
    <2>2. (\A i \in n.added : ~(i < k)) => Before(e, k) <= Before(d, k)
      BY <1>1, <1>3, <1>4 DEF Before
    <2>3. Before(d, k) \in Nat /\ Before(e, k) \in Nat /\ s.offset \in Nat
      <3>1. \A i \in Present(d) : i < k => i \in Present(d)
        OBVIOUS
      <3>2. \A i \in Present(e) : i < k => i \in Present(e)
        OBVIOUS
      <3>3. QED
        BY <1>3, <1>4, <3>1, <3>2 DEF Before, Scans
    <2>4. CASE k \in n.stable /\ n.yields[k] = 0 /\ (\A i \in n.gone : ~(i < k))
      <3>1. s.offset <= Before(d, k)
        BY <1>1, <2>4 DEF Pages
      <3>2. n.offset <= Before(e, k)
        BY <1>1, <2>1, <2>3, <2>4, <3>1
      <3>3. QED
        BY <2>4, <3>2
    <2>5. ASSUME n.yields[k] # 0, \A i \in n.added : ~(i < k)
          PROVE  Before(e, k) < n.offset
      <3>1. Before(d, k) < s.offset
        BY <1>1, <2>5 DEF Pages
      <3>2. QED
        BY <1>1, <2>2, <2>3, <2>5, <3>1
    <2>6. n.yields[k] = 2 => \E i \in n.added : i < k
      BY <1>1 DEF Pages
    <2>7. QED
      BY <2>4, <2>5, <2>6
  <1>6. QED
    BY <1>2, <1>5 DEF Pages, n, e

LEMMA ListingNoted ==
    ASSUME NEW s \in Scans, NEW d \in Contents, NEW w \in Writes, NEW ahead,
           Listing(s, d, ahead)
    PROVE  Listing(Noted(s, d, w), Stored(d, w), ahead)
  <1> DEFINE n == Noted(s, d, w)
             e == Stored(d, w)
  <1>1. /\ n.yields = s.yields /\ n.stable \subseteq s.stable
        /\ \A k \in Present(d) : k \notin Present(e) => k \notin n.stable
    BY NotedFacts
  <1> HIDE DEF n, e
  <1>2. QED
    BY <1>1 DEF Listing, n, e

\* A row that is written anew may come into the cursor's way once more.
LEMMA CursorNoted ==
    ASSUME NEW s \in Scans, NEW d \in Contents, NEW w \in Writes, NEW ahead, NEW more,
           ahead \subseteq more, more \subseteq ahead \cup {k \in DOMAIN w : w[k] # Absent},
           Cursor(s, d, ahead)
    PROVE  Cursor(Noted(s, d, w), Stored(d, w), more)
  <1> DEFINE n == Noted(s, d, w)
             e == Stored(d, w)
  <1>1. /\ n.yields = s.yields /\ n.stable \subseteq s.stable
        /\ s.added \cup s.rewritten \subseteq n.added \cup n.rewritten
        /\ \A k \in Present(d) : k \notin Present(e) => k \notin n.stable
        /\ \A k \in DOMAIN w : w[k] # Absent => k \in n.added \cup n.rewritten
    <2>1. s.added \subseteq n.added /\ s.rewritten \subseteq n.rewritten
      BY NotedFacts
    <2>2. QED
      BY <2>1, NotedFacts
  <1> HIDE DEF n, e
  <1>2. QED
    BY <1>1 DEF Cursor, n, e

\* The next page of a scan.  When it is short, every key that should have come
\* has come.
LEMMA PagesRead ==
    ASSUME NEW s \in Scans, NEW d \in Contents, Pages(s, d)
    PROVE  LET rows == Slice(Present(d), s.offset)
               n    == [Yielding(s, rows) EXCEPT !.offset = @ + BatchSize]
           IN  /\ n \in Scans /\ n.offset = s.offset + BatchSize
               /\ Pages(n, d)
               /\ Cardinality(rows) < BatchSize =>
                    \A k \in Keys : n.yields[k] = 0 /\ k \in n.stable => \E i \in n.gone : i < k
               /\ ~(Cardinality(rows) < BatchSize) => n.offset <= Cardinality(Keys)
  <1> DEFINE P    == Present(d)
             rows == Slice(P, s.offset)
             y    == Yielding(s, rows)
             n    == [y EXCEPT !.offset = @ + BatchSize]
  <1>1. P \in SUBSET Keys /\ s.offset \in Nat /\ BatchSize \in Nat /\ BatchSize > 0
    BY BoundAssumption DEF Present, Scans
  <1>2. /\ y \in Scans /\ y.offset = s.offset /\ y.stable = s.stable
        /\ y.gone = s.gone /\ y.added = s.added
        /\ \A k \in Keys : /\ s.yields[k] \in 0..2
                           /\ y.yields[k] = IF k \in rows /\ s.yields[k] < 2
                                            THEN s.yields[k] + 1 ELSE s.yields[k]
    BY YieldingFacts
  <1>3. \A k \in P : /\ Before(d, k) \in Nat
                     /\ k \in rows <=> s.offset <= Before(d, k) /\ Before(d, k) < s.offset + BatchSize
                     /\ Before(d, k) < Cardinality(P) /\ Cardinality(P) \in Nat
    <2> TAKE k \in P
    <2> DEFINE b == Cardinality({i \in P : i < k})
               p == Cardinality({i \in P : i <= k})
    <2>1. b \in Nat /\ p = b + 1 /\ p <= Cardinality(P) /\ Cardinality(P) \in Nat
      BY <1>1, Position
    <2>2. k \in rows <=> p \in (s.offset + 1)..(s.offset + BatchSize)
      BY DEF Slice
    <2>3. Before(d, k) = b
      BY DEF Before
    <2> HIDE DEF b, p, rows, P
    <2>4. QED
      BY <1>1, <2>1, <2>2, <2>3
  <1>4. rows \subseteq P
    BY DEF Slice
  <1>5. /\ Cardinality(rows) \in Nat
        /\ Cardinality(rows) < BatchSize <=> Cardinality(P) < s.offset + BatchSize
    BY <1>1, ShortPage
  <1>6. Cardinality(P) <= Cardinality(Keys) /\ Cardinality(P) \in Nat /\ Cardinality(Keys) \in Nat
    BY <1>1, KeyAssumption, FS_Subset, FS_CardinalityType
  <1> HIDE DEF P, rows, y
  <1>7. /\ n \in Scans /\ n.offset = s.offset + BatchSize /\ n.stable = s.stable
        /\ n.yields = y.yields /\ n.gone = s.gone /\ n.added = s.added
    BY <1>1, <1>2 DEF Scans
  <1> HIDE DEF n
  <1>8. s.stable \subseteq P
    BY DEF Pages, P
  <1>9. ASSUME NEW k \in Keys, k \in n.stable, n.yields[k] = 0, \A i \in n.gone : ~(i < k)
        PROVE  n.offset <= Before(d, k)
    <2>1. k \in P /\ s.yields[k] = 0 /\ k \notin rows
      BY <1>2, <1>7, <1>8, <1>9
    <2>2. s.offset <= Before(d, k)
      BY <1>7, <1>9, <2>1 DEF Pages
    <2>3. QED
      BY <1>1, <1>3, <1>7, <2>1, <2>2
  <1>10. ASSUME NEW k \in Keys, n.yields[k] # 0, \A i \in n.added : ~(i < k)
         PROVE  Before(d, k) < n.offset
    <2>1. CASE s.yields[k] # 0
      <3>1. Before(d, k) < s.offset
        BY <1>7, <1>10, <2>1 DEF Pages
      <3>2. Before(d, k) \in Nat
        <4>1. {i \in P : i < k} \in SUBSET Keys
          BY <1>1
        <4>2. IsFiniteSet({i \in P : i < k})
          BY <4>1, KeyAssumption, FS_Subset
        <4>3. QED
          BY <4>2, FS_CardinalityType DEF Before, P
      <3>3. QED
        BY <1>1, <1>7, <3>1, <3>2
    <2>2. CASE k \in rows
      BY <1>1, <1>3, <1>4, <1>7, <2>2
    <2>3. QED
      BY <1>2, <1>7, <1>10, <2>1, <2>2
  <1>11. ASSUME NEW k \in Keys, n.yields[k] = 2
         PROVE  \E i \in n.added : i < k
    <2>1. CASE s.yields[k] = 2
      BY <1>7, <2>1 DEF Pages
    <2>2. CASE s.yields[k] # 2
      <3>1. k \in rows /\ s.yields[k] # 0
        BY <1>2, <1>7, <1>11, <2>2
      <3>2. Before(d, k) \in Nat /\ s.offset <= Before(d, k)
        BY <1>3, <1>4, <3>1
      <3>3. ~(Before(d, k) < s.offset)
        BY <1>1, <3>2
      <3>4. QED
        BY <1>7, <3>1, <3>3 DEF Pages
    <2>3. QED
      BY <2>1, <2>2
  <1>12. Pages(n, d)
    BY <1>7, <1>8, <1>9, <1>10, <1>11 DEF Pages, P
  <1>13. ASSUME Cardinality(rows) < BatchSize, NEW k \in Keys, n.yields[k] = 0, k \in n.stable
         PROVE  \E i \in n.gone : i < k
    <2>1. SUFFICES ASSUME \A i \in n.gone : ~(i < k) PROVE FALSE
      OBVIOUS
    <2>2. n.offset <= Before(d, k) /\ k \in P
      BY <1>7, <1>8, <1>9, <1>13, <2>1
    <2>3. QED
      BY <1>1, <1>3, <1>5, <1>7, <1>13, <2>2
  <1>14. ~(Cardinality(rows) < BatchSize) => n.offset <= Cardinality(Keys)
    BY <1>1, <1>5, <1>6, <1>7
  <1>15. QED
    BY <1>7, <1>12, <1>13, <1>14 DEF n, y, rows, P

\* A file store works with the same data, and its calls end in the same ways.
LEMMA FileData ==
    /\ \A d : File!Present(d) = Present(d)
    /\ \A i, f : File!Conflicts(i, f) = Conflicts(i, f)
    /\ \A i, oc, f : File!Refuses(i, oc, f) = Refuses(i, oc, f)
    /\ \A i, oc, f, d : File!ToWrite(i, oc, f, d) = ToWrite(i, oc, f, d)
    /\ \A d, w : File!Stored(d, w) = Stored(d, w)
    /\ \A r : (File!Conditional(r) <=> Conditional(r)) /\ (File!Empty(r) <=> Empty(r))
    /\ \A w : File!Spoiled(w) <=> Spoiled(w)
    /\ \A s, d, w : File!Noted(s, d, w) = Noted(s, d, w)
    /\ \A s, K : File!Yielding(s, K) = Yielding(s, K)
    /\ File!Nothing = Nothing /\ File!ScanPhases = ScanPhases /\ File!EmptyStore = EmptyStore
    /\ File!KV!WriteOps = KV!WriteOps
  <1>1. \A d : File!Present(d) = Present(d)
    BY DEF File!Present, Present
  <1>2. \A i, f : File!Conflicts(i, f) = Conflicts(i, f)
    BY DEF File!Conflicts, Conflicts
  <1>3. \A i, oc, f : File!Refuses(i, oc, f) = Refuses(i, oc, f)
    BY <1>2 DEF File!Refuses, Refuses
  <1>4. \A i, oc, f, d : File!ToWrite(i, oc, f, d) = ToWrite(i, oc, f, d)
    BY DEF File!ToWrite, ToWrite, File!Merged, Merged, File!OrEmpty, OrEmpty
  <1>5. \A d, w : File!Stored(d, w) = Stored(d, w)
    BY DEF File!Stored, Stored
  <1>6. \A r : (File!Conditional(r) <=> Conditional(r)) /\ (File!Empty(r) <=> Empty(r))
    BY DEF File!Conditional, Conditional, File!Empty, Empty
  <1>7. \A w : File!Spoiled(w) <=> Spoiled(w)
    BY DEF File!Spoiled, Spoiled
  <1>8. \A s, d, w : File!Noted(s, d, w) = Noted(s, d, w)
    BY DEF File!Noted, Noted
  <1>9. \A s, K : File!Yielding(s, K) = Yielding(s, K)
    BY DEF File!Yielding, Yielding
  <1>10. /\ File!Nothing = Nothing /\ File!ScanPhases = ScanPhases /\ File!EmptyStore = EmptyStore
         /\ File!KV!WriteOps = KV!WriteOps
    BY DEF File!Nothing, Nothing, File!ScanPhases, ScanPhases, File!EmptyStore, EmptyStore,
       File!KV!WriteOps, KV!WriteOps
  <1>11. QED
    BY <1>1, <1>2, <1>3, <1>4, <1>5, <1>6, <1>7, <1>8, <1>9, <1>10

LEMMA FileAnswers ==
    /\ File!KV!Ok = KV!Ok /\ File!KV!Ok # KV!NoAnswer
    /\ File!KV!KeyError # KV!NoAnswer /\ File!KV!KeyError # KV!Ok
    /\ File!Failed # KV!NoAnswer /\ File!Failed # KV!Ok
    /\ \A v : File!KV!Returns(v) # KV!NoAnswer /\ File!KV!Returns(v) # KV!Ok
    /\ \A r, d : File!KV!Answer(r, d) # KV!NoAnswer
  <1>1. ASSUME NEW v PROVE File!KV!Returns(v) # KV!NoAnswer /\ File!KV!Returns(v) # KV!Ok
    <2>1. File!KV!Returns(v).kind # KV!NoAnswer.kind /\ File!KV!Returns(v).kind # KV!Ok.kind
      BY DEF File!KV!Returns, KV!NoAnswer, KV!Ok
    <2>2. QED
      BY <2>1
  <1>2. /\ File!KV!Ok = KV!Ok /\ File!KV!Ok # KV!NoAnswer
        /\ File!KV!KeyError # KV!NoAnswer /\ File!KV!KeyError # KV!Ok
        /\ File!Failed # KV!NoAnswer /\ File!Failed # KV!Ok
    BY DEF File!KV!Ok, File!KV!KeyError, File!Failed, KV!Ok, KV!NoAnswer
  <1>3. \A r, d : File!KV!Answer(r, d) # KV!NoAnswer
    BY <1>1, <1>2 DEF File!KV!Answer
  <1>4. QED
    BY <1>1, <1>2, <1>3

LEMMA FileSteps ==
    ASSUME NEW t
    PROVE  /\ \A a : File!End(t, a) <=> End(t, a)
           /\ \A a : File!Leave(t, a) <=> Leave(t, a)
           /\ \A phase : File!GoTo(t, phase) <=> GoTo(t, phase)
           /\ \A phase, K : File!Visit(t, phase, K) <=> Visit(t, phase, K)
           /\ \A k : File!Visited(t, k) <=> Visited(t, k)
           /\ \A ops : File!Starts(t, ops) <=> Starts(t, ops)
           /\ \A K : File!Yields(t, K) <=> Yields(t, K)
           /\ \A d : File!Scanned(t, d) <=> Scanned(t, d)
           /\ \A w : File!Apply(w) <=> Apply(w)
           /\ File!Planned(t) = Planned(t)
  <1>1. \A a : File!End(t, a) <=> End(t, a)
    BY FileData DEF File!End, End
  <1>2. \A a : File!Leave(t, a) <=> Leave(t, a)
    BY <1>1 DEF File!Leave, Leave
  <1>3. \A phase : File!GoTo(t, phase) <=> GoTo(t, phase)
    BY DEF File!GoTo, GoTo
  <1>4. \A phase, K : File!Visit(t, phase, K) <=> Visit(t, phase, K)
    BY <1>3 DEF File!Visit, Visit
  <1>5. \A k : File!Visited(t, k) <=> Visited(t, k)
    BY DEF File!Visited, Visited
  <1>6. \A ops : File!Starts(t, ops) <=> Starts(t, ops)
    BY FileData DEF File!Starts, Starts
  <1>7. \A K : File!Yields(t, K) <=> Yields(t, K)
    BY FileData DEF File!Yields, Yields
  <1>8. \A d : File!Scanned(t, d) <=> Scanned(t, d)
    BY FileData DEF File!Scanned, Scanned
  <1>9. \A w : File!Apply(w) <=> Apply(w)
    BY FileData DEF File!Apply, Apply
  <1>10. File!Planned(t) = Planned(t)
    BY FileData DEF File!Planned, Planned
  <1>11. QED
    BY <1>1, <1>2, <1>3, <1>4, <1>5, <1>6, <1>7, <1>8, <1>9, <1>10

-----------------------------------------------------------------------------
(* What every backend keeps of its state, beside TypeOK.                   *)
Rested(t) ==
    pc[t] \in {"idle", "start"} =>
        found[t] = {} /\ got[t] = Nothing /\ todo[t] = {} /\ want[t] = NoKey

ShapeOf(t) ==
    /\ pc[t] # "idle" => call[t] \in site.calls[t]
    /\ Rested(t)
    /\ pc[t] = "start" => scan[t] = NoScan
    /\ pc[t] = "page" => scan[t].offset <= Cardinality(Keys)

Shape ==
    /\ TypeOK
    /\ DOMAIN answer = Threads
    /\ scan \in [Threads -> Scans]
    /\ \A c \in Conns : ~Spoiled(work[c])
    /\ site.backend # "sqlite" => \A c \in Conns : work[c] = Nothing /\ txn[c] = "none"
    /\ \A t \in Threads : ShapeOf(t)

\* The phase of the others, and what they were answered, stay.
Task(t) ==
    /\ call' = call
    /\ DOMAIN pc' = Threads /\ DOMAIN answer' = Threads
    /\ \A u \in Threads \ {t} : pc'[u] = pc[u] /\ answer'[u] = answer[u]
    /\ answer'[t] = KV!NoAnswer <=> pc'[t] # "idle"

\* The locals of the others stay, those of t stay in their types.
Reads(t) ==
    /\ \A u \in Threads \ {t} : found'[u] = found[u] /\ got'[u] = got[u] /\ want'[u] = want[u]
    /\ found' \in [Threads -> SUBSET Keys] /\ got' \in [Threads -> Writes]
    /\ todo' \in [Threads -> SUBSET Keys] /\ want' \in [Threads -> Keys \cup {NoKey}]
    /\ Rested(t)'

\* The ways a step of t's call leaves its task, and its locals.
LEMMA Ways ==
    ASSUME Shape, NEW t \in Threads, Busy(t)
    PROVE  /\ \A a : a # KV!NoAnswer /\ End(t, a) =>
                        Task(t) /\ Reads(t) /\ pc'[t] = "idle" /\ answer'[t] = a
                        /\ \A u \in Threads \ {t} : todo'[u] = todo[u]
           /\ \A phase : phase # "idle" /\ GoTo(t, phase) =>
                        Task(t) /\ pc'[t] = phase /\ answer'[t] = answer[t]
           /\ UNCHANGED task => Task(t) /\ pc'[t] = pc[t] /\ answer'[t] = answer[t]
  <1>1. /\ DOMAIN pc = Threads /\ DOMAIN answer = Threads
        /\ answer[t] = KV!NoAnswer /\ pc[t] # "idle"
        /\ found \in [Threads -> SUBSET Keys] /\ todo \in [Threads -> SUBSET Keys]
        /\ got \in [Threads -> Writes] /\ want \in [Threads -> Keys \cup {NoKey}]
    BY DEF Shape, TypeOK, Busy
  <1>2. ASSUME NEW a, a # KV!NoAnswer, End(t, a)
        PROVE  Task(t) /\ Reads(t) /\ pc'[t] = "idle" /\ answer'[t] = a
               /\ \A u \in Threads \ {t} : todo'[u] = todo[u]
    <2>1. Nothing \in Writes
      <3>1. Nothing \in [{} -> Slot]
        BY DEF Nothing
      <3>2. QED
        BY <3>1, ItemsDef
    <2>2. Task(t) /\ pc'[t] = "idle" /\ answer'[t] = a
      BY <1>1, <1>2 DEF End, Task
    <2>3. /\ found' = [found EXCEPT ![t] = {}] /\ got' = [got EXCEPT ![t] = Nothing]
          /\ todo' = [todo EXCEPT ![t] = {}] /\ want' = [want EXCEPT ![t] = NoKey]
      BY <1>2 DEF End
    <2>4. Reads(t) /\ \A u \in Threads \ {t} : todo'[u] = todo[u]
      BY <1>1, <2>1, <2>3 DEF Reads, Rested, Nothing
    <2>5. QED
      BY <2>2, <2>4
  <1>3. ASSUME NEW phase, phase # "idle", GoTo(t, phase)
        PROVE  Task(t) /\ pc'[t] = phase /\ answer'[t] = answer[t]
    BY <1>1, <1>3 DEF GoTo, Task
  <1>4. UNCHANGED task => Task(t) /\ pc'[t] = pc[t] /\ answer'[t] = answer[t]
    BY <1>1 DEF task, Task
  <1>5. QED
    BY <1>2, <1>3, <1>4

LEMMA ShapeKept ==
    ASSUME Shape, NEW t \in Threads, Busy(t), UNCHANGED <<site, crashes>>,
           Task(t), Reads(t),
           \A u \in Threads \ {t} : pc[u] \in {"idle", "start"} => todo'[u] = todo[u],
           data' \in [Keys -> Slot \ Unstorable],
           lock' \in Threads \cup {NoThread}, awrite' \in Threads \cup {NoThread},
           scan' \in [Threads -> Scans],
           \A u \in Threads \ {t} :
                /\ scan'[u].offset = scan[u].offset
                /\ pc[u] \notin ScanPhases => scan'[u] = scan[u],
           pc'[t] # "start",
           scan'[t].offset <= Cardinality(Keys) + BatchSize,
           pc'[t] = "page" => scan'[t].offset <= Cardinality(Keys),
           work' \in [Conns -> Writes], txn' \in [Conns -> TxnStates],
           failed' \in [Conns -> BOOLEAN],
           \A c \in Conns : ~Spoiled(work'[c]),
           site.backend # "sqlite" => UNCHANGED <<work, txn>>
    PROVE  Shape'
  <1>1. TypeOK'
    <2>1. \A u \in Threads : answer'[u] = KV!NoAnswer <=> Busy(u)'
      BY DEF Task, Busy, Shape, TypeOK
    <2>2. \A u \in Threads : scan'[u].offset \in 0..(Cardinality(Keys) + BatchSize)
      <3>1. \A u \in Threads : scan'[u].offset \in Nat
        BY DEF Scans
      <3>2. Cardinality(Keys) \in Nat /\ BatchSize \in Nat
        BY KeyAssumption, BoundAssumption, FS_CardinalityType
      <3>3. QED
        BY <3>1, <3>2 DEF Shape, TypeOK
    <2>3. QED
      BY <2>1, <2>2 DEF Shape, TypeOK, Task, Reads
  <1>2. \A u \in Threads : ShapeOf(u)'
    BY DEF Shape, ShapeOf, Task, Reads, Rested, Nothing, NoScan, Busy, ScanPhases
  <1>3. QED
    BY <1>1, <1>2 DEF Shape, Task, Spoiled, Nothing

\* The pairs on disk change, and the scans notice.
LEMMA ApplyFacts ==
    ASSUME Shape, NEW w \in Writes, ~Spoiled(w), Apply(w)
    PROVE  /\ data' \in [Keys -> Slot \ Unstorable] /\ data' = Stored(data, w)
           /\ scan' \in [Threads -> Scans]
           /\ \A u \in Threads :
                /\ scan'[u] = IF pc[u] \in ScanPhases THEN Noted(scan[u], data, w) ELSE scan[u]
                /\ scan'[u].offset = scan[u].offset
  <1>1. data \in Contents /\ data \in [Keys -> Slot \ Unstorable] /\ scan \in [Threads -> Scans]
    BY DEF Shape, TypeOK, Contents
  <1>2. data' \in [Keys -> Slot \ Unstorable] /\ data' = Stored(data, w)
    <2>1. \A k \in DOMAIN w : w[k] \in Slot \ Unstorable
      BY ItemsDef DEF Spoiled
    <2>2. data' = Stored(data, w)
      BY DEF Apply
    <2>3. QED
      BY <1>1, <2>1, <2>2 DEF Stored
  <1>3. \A u \in Threads : Noted(scan[u], data, w) \in Scans
                           /\ Noted(scan[u], data, w).offset = scan[u].offset
    BY <1>1, NotedFacts
  <1>4. QED
    BY <1>1, <1>2, <1>3 DEF Apply

LEMMA YieldsFacts ==
    ASSUME Shape, NEW t \in Threads, NEW K, Yields(t, K)
    PROVE  /\ scan' \in [Threads -> Scans] /\ scan'[t] = Yielding(scan[t], K)
           /\ scan'[t].offset = scan[t].offset
           /\ \A u \in Threads \ {t} : scan'[u] = scan[u]
  <1>1. scan \in [Threads -> Scans]
    BY DEF Shape
  <1>2. Yielding(scan[t], K) \in Scans /\ Yielding(scan[t], K).offset = scan[t].offset
    BY <1>1, YieldingFacts
  <1>3. scan' = [scan EXCEPT ![t] = Yielding(scan[t], K)]
    BY DEF Yields
  <1>4. QED
    BY <1>1, <1>2, <1>3

\* A scan that begins has yielded nothing.
LEMMA ScannedFacts ==
    ASSUME Shape, NEW t \in Threads, pc[t] = "start", NEW d \in Contents, Scanned(t, d)
    PROVE  /\ scan' \in [Threads -> Scans]
           /\ \A u \in Threads \ {t} : scan'[u] = scan[u]
           /\ scan'[t].offset = 0 /\ scan'[t].stable = Present(d)
           /\ scan'[t].gone = {} /\ scan'[t].added = {}
           /\ \A k \in Keys : scan'[t].yields[k] = 0
  <1>1. scan \in [Threads -> Scans] /\ scan[t] = NoScan
    BY DEF Shape, ShapeOf
  <1>2. Present(d) \in SUBSET Keys
    BY DEF Present
  <1>3. scan' = [scan EXCEPT ![t].stable = Present(d)]
    BY DEF Scanned
  <1>4. NoScan \in Scans
    BY DEF NoScan, Scans
  <1>5. [NoScan EXCEPT !.stable = Present(d)] \in Scans
    BY <1>2, <1>4 DEF Scans
  <1>6. scan' = [scan EXCEPT ![t] = [NoScan EXCEPT !.stable = Present(d)]]
    BY <1>1, <1>3
  <1>7. QED
    BY <1>1, <1>5, <1>6 DEF NoScan

\* What a listing owes its caller when nothing is to come any more.
ListingDone(s) == \A k \in Keys : s.yields[k] = IF k \in s.stable THEN 1 ELSE s.yields[k] % 2

LEMMA ListingEnds ==
    ASSUME NEW s \in Scans, NEW d, Listing(s, d, {})
    PROVE  ListingDone(s)
  <1>1. \A k \in Keys : s.yields[k] \in 0..2
    BY DEF Scans
  <1>2. \A k \in Keys : s.yields[k] = 0 \/ s.yields[k] = 1
    BY <1>1 DEF Listing
  <1>3. QED
    BY <1>2 DEF Listing, ListingDone

\* Keys that have no value need not come.
LEMMA ListingLess ==
    ASSUME NEW s, NEW d, NEW ahead, NEW more, more \subseteq ahead,
           ahead \cap Present(d) \subseteq more, Listing(s, d, ahead)
    PROVE  Listing(s, d, more)
  BY DEF Listing

\* It yields keys that were to come; a key that is dropped has no value.
LEMMA ListingRead ==
    ASSUME NEW s \in Scans, NEW d, NEW ahead, NEW K, NEW more, K \subseteq ahead,
           more \subseteq ahead \ K, ahead \cap Present(d) \subseteq K \cup more,
           Listing(s, d, ahead)
    PROVE  Listing(Yielding(s, K), d, more)
  <1> DEFINE y == Yielding(s, K)
  <1>1. /\ y.stable = s.stable
        /\ \A k \in Keys : /\ s.yields[k] \in 0..2
                           /\ y.yields[k] = IF k \in K /\ s.yields[k] < 2
                                            THEN s.yields[k] + 1 ELSE s.yields[k]
    BY YieldingFacts
  <1> HIDE DEF y
  <1>2. QED
    BY <1>1 DEF Listing, y

\* The fields of a call.
LEMMA RequestType ==
    ASSUME NEW r \in KV!Request
    PROVE  /\ r.op \in KV!LifecycleOps \cup KV!WriteOps \cup KV!ReadOps
           /\ r.keys \in SUBSET Keys
           /\ r.items \in Items /\ DOMAIN r.items \subseteq Keys
           /\ r.on_conflict \in OnConflict
  <1>1. KV!Items = Items /\ KV!OnConflict = OnConflict
    <2>1. KV!Value = Value
      BY DEF KV!Value, Value
    <2>2. QED
      BY <2>1 DEF KV!Items, Items, KV!OnConflict, OnConflict
  <1>2. QED
    BY <1>1, ItemsDef DEF KV!Request

\* What t's set_many plans to write is a batch of some of its keys.
LEMMA PlannedType ==
    ASSUME Shape, NEW t \in Threads
    PROVE  /\ Planned(t) \in Items /\ DOMAIN Planned(t) \subseteq DOMAIN call[t].items
           /\ DOMAIN Planned(t) \subseteq Keys
           /\ \A k \in DOMAIN Planned(t) : Planned(t)[k] \in Value
           /\ call[t].on_conflict = "merge" => DOMAIN Planned(t) = DOMAIN call[t].items
           /\ ~Conditional(call[t]) => Planned(t) = call[t].items
  <1> DEFINE r   == call[t]
             old == [k \in found[t] |-> IF k \in DOMAIN got[t] THEN got[t][k] ELSE Absent]
             e   == [k \in Keys |-> IF k \in DOMAIN got[t] THEN got[t][k] ELSE Absent]
  <1>1. /\ r \in KV!Request /\ found[t] \in SUBSET Keys /\ got[t] \in Writes
        /\ r.items \in Items /\ r.on_conflict \in OnConflict /\ DOMAIN r.items \subseteq Keys
    BY RequestType DEF Shape, TypeOK
  <1>2. e \in Contents
    <2>1. \A k \in DOMAIN got[t] : got[t][k] \in Slot
      BY <1>1, ItemsDef
    <2>2. QED
      BY <2>1 DEF Contents, Slot
  <1>3. \A k \in found[t] : old[k] = e[k]
    BY <1>1
  <1>4. ToWrite(r.items, r.on_conflict, found[t], old) = ToWrite(r.items, r.on_conflict, found[t], e)
    <2> HIDE DEF old, e
    <2>1. QED
      BY <1>3 DEF ToWrite
  <1>5. Planned(t) = IF Conditional(r) THEN ToWrite(r.items, r.on_conflict, found[t], old)
                     ELSE r.items
    BY DEF Planned
  <1> HIDE DEF old, e, r
  <1>6. /\ ToWrite(r.items, r.on_conflict, found[t], e) \in Items
        /\ DOMAIN ToWrite(r.items, r.on_conflict, found[t], e) \subseteq DOMAIN r.items
    BY <1>1, <1>2, ToWriteType
  <1>7. r.on_conflict = "merge" =>
            DOMAIN ToWrite(r.items, r.on_conflict, found[t], e) = DOMAIN r.items
    BY DEF ToWrite
  <1>8. Planned(t) \in Items /\ DOMAIN Planned(t) \subseteq DOMAIN r.items
    BY <1>1, <1>4, <1>5, <1>6
  <1>9. \A k \in DOMAIN Planned(t) : Planned(t)[k] \in Value
    BY <1>8 DEF Items
  <1>10. r.on_conflict = "merge" => DOMAIN Planned(t) = DOMAIN r.items
    BY <1>4, <1>5, <1>7
  <1>11. ~Conditional(r) => Planned(t) = r.items
    BY <1>5
  <1>12. QED
    BY <1>1, <1>8, <1>9, <1>10, <1>11 DEF r

\* One key is written, or deleted.
LEMMA OneWrite ==
    ASSUME NEW k \in Keys, NEW v \in Slot, v \notin Unstorable
    PROVE  [i \in {k} |-> v] \in Writes /\ ~Spoiled([i \in {k} |-> v])
  <1>1. [i \in {k} |-> v] \in [{k} -> Slot]
    OBVIOUS
  <1>2. QED
    BY <1>1, ItemsDef DEF Spoiled

\* What has been read of some keys, and of one more.
LEMMA OneMore ==
    ASSUME NEW g \in Writes, NEW k \in Keys, NEW v \in Slot
    PROVE  [i \in DOMAIN g \cup {k} |-> IF i = k THEN v ELSE g[i]] \in Writes
  <1>1. DOMAIN g \cup {k} \in SUBSET Keys /\ \A i \in DOMAIN g : g[i] \in Slot
    BY ItemsDef
  <1>2. [i \in DOMAIN g \cup {k} |-> IF i = k THEN v ELSE g[i]] \in [DOMAIN g \cup {k} -> Slot]
    BY <1>1
  <1>3. QED
    BY <1>1, <1>2, ItemsDef

LEMMA AbsentStorable == Absent \in Slot /\ Absent \notin Unstorable
  BY AbsentAssumption, UnstorableAssumption DEF Slot

\* The backends that have no connections of their own.
LEMMA LocalKept ==
    ASSUME Shape, NEW t \in Threads, Busy(t), UNCHANGED <<site, crashes>>,
           UNCHANGED connections, Task(t), Reads(t),
           \A u \in Threads \ {t} : todo'[u] = todo[u],
           data' \in [Keys -> Slot \ Unstorable], lock' \in Threads \cup {NoThread},
           scan' \in [Threads -> Scans],
           \A u \in Threads \ {t} :
                /\ scan'[u].offset = scan[u].offset
                /\ pc[u] \notin ScanPhases => scan'[u] = scan[u],
           pc'[t] \notin {"start", "page"},
           scan'[t].offset = scan[t].offset
    PROVE  Shape'
  <1>1. /\ awrite' \in Threads \cup {NoThread} /\ work' \in [Conns -> Writes]
        /\ txn' \in [Conns -> TxnStates] /\ failed' \in [Conns -> BOOLEAN]
        /\ \A c \in Conns : ~Spoiled(work'[c])
        /\ UNCHANGED <<work, txn>>
    BY DEF Shape, TypeOK, connections
  <1>2. scan'[t].offset <= Cardinality(Keys) + BatchSize
    <2>1. Cardinality(Keys) \in Nat /\ BatchSize \in Nat
      BY KeyAssumption, BoundAssumption, FS_CardinalityType
    <2>2. QED
      BY <2>1 DEF Shape, TypeOK
  <1>3. QED
    BY <1>1, <1>2, ShapeKept

\* A step that ends t's call, or goes on with it in a loop over other keys.
Quiet(t) ==
    /\ Busy(t) /\ Task(t) /\ Reads(t) /\ pc'[t] \notin {"start", "page"}
    /\ \A u \in Threads \ {t} : todo'[u] = todo[u]

Ended(t) == \E a : a # KV!NoAnswer /\ End(t, a)

Moved(t) == \E phase : phase \notin {"idle", "start", "page"} /\ GoTo(t, phase)

LEMMA QuietWays ==
    ASSUME Shape, NEW t \in Threads, Busy(t)
    PROVE  /\ Ended(t) => Quiet(t)
           /\ /\ Moved(t) \/ (UNCHANGED task /\ pc[t] \notin {"start", "page"})
              /\ \E F \in SUBSET Keys : found' = [found EXCEPT ![t] = F]
              /\ \E K \in SUBSET Keys : todo' = [todo EXCEPT ![t] = K]
              /\ \E g \in Writes : got' = [got EXCEPT ![t] = g]
              /\ \E k \in Keys \cup {NoKey} : want' = [want EXCEPT ![t] = k]
              => Quiet(t)
           /\ /\ Moved(t) \/ (UNCHANGED task /\ pc[t] \notin {"start", "page"})
              /\ \E K \in SUBSET Keys : todo' = [todo EXCEPT ![t] = K]
              /\ UNCHANGED <<found, got, want>>
              => Quiet(t)
  <1>1. /\ found \in [Threads -> SUBSET Keys] /\ todo \in [Threads -> SUBSET Keys]
        /\ got \in [Threads -> Writes] /\ want \in [Threads -> Keys \cup {NoKey}]
    BY DEF Shape, TypeOK
  <1>2. Ended(t) => Quiet(t)
    BY Ways DEF Ended, Quiet
  <1>3. ASSUME Moved(t) \/ (UNCHANGED task /\ pc[t] \notin {"start", "page"})
        PROVE  Task(t) /\ pc'[t] \notin {"idle", "start", "page"}
    BY <1>3, Ways DEF Moved, Busy
  <1>4. ASSUME NEW F \in SUBSET Keys, NEW K \in SUBSET Keys, NEW g \in Writes,
               NEW k \in Keys \cup {NoKey}, pc'[t] \notin {"idle", "start"},
               found' = [found EXCEPT ![t] = F], todo' = [todo EXCEPT ![t] = K],
               got' = [got EXCEPT ![t] = g], want' = [want EXCEPT ![t] = k]
        PROVE  Reads(t) /\ \A u \in Threads \ {t} : todo'[u] = todo[u]
    BY <1>1, <1>4 DEF Reads, Rested
  <1>5. ASSUME NEW K \in SUBSET Keys, pc'[t] \notin {"idle", "start"},
               todo' = [todo EXCEPT ![t] = K], UNCHANGED <<found, got, want>>
        PROVE  Reads(t) /\ \A u \in Threads \ {t} : todo'[u] = todo[u]
    BY <1>1, <1>5 DEF Reads, Rested
  <1>6. QED
    BY <1>2, <1>3, <1>4, <1>5 DEF Quiet

\* What a step of t does to the pairs on disk, to the scans and to the lock.
Effects(t) ==
    \/ UNCHANGED <<data, scan>>
    \/ UNCHANGED data /\ pc[t] = "start" /\ Scanned(t, data)
    \/ UNCHANGED data /\ \E K : Yields(t, K)
    \/ \E w \in Writes : ~Spoiled(w) /\ Apply(w)

Lockwise(t) ==
    \/ lock' = lock
    \/ lock = NoThread /\ lock' = t
    \/ lock = t /\ lock' = NoThread

LEMMA EffectsKept ==
    ASSUME Shape, NEW t \in Threads, Quiet(t), Effects(t), Lockwise(t),
           UNCHANGED <<site, crashes, connections>>
    PROVE  Shape'
  <1>1. data \in Contents /\ data \in [Keys -> Slot \ Unstorable]
        /\ scan \in [Threads -> Scans] /\ lock \in Threads \cup {NoThread}
    BY DEF Shape, TypeOK, Contents
  <1>2. lock' \in Threads \cup {NoThread}
    BY <1>1 DEF Lockwise
  <1>3. /\ data' \in [Keys -> Slot \ Unstorable] /\ scan' \in [Threads -> Scans]
        /\ scan'[t].offset = scan[t].offset
        /\ \A u \in Threads \ {t} :
                /\ scan'[u].offset = scan[u].offset
                /\ pc[u] \notin ScanPhases => scan'[u] = scan[u]
    <2>1. CASE UNCHANGED <<data, scan>>
      BY <1>1, <2>1
    <2>2. CASE UNCHANGED data /\ pc[t] = "start" /\ Scanned(t, data)
      <3>1. scan[t].offset = 0
        BY <2>2 DEF Shape, ShapeOf, NoScan
      <3>2. QED
        BY <1>1, <2>2, <3>1, ScannedFacts
    <2>3. CASE UNCHANGED data /\ \E K : Yields(t, K)
      BY <1>1, <2>3, YieldsFacts
    <2>4. CASE \E w \in Writes : ~Spoiled(w) /\ Apply(w)
      BY <2>4, ApplyFacts
    <2>5. QED
      BY <2>1, <2>2, <2>3, <2>4 DEF Effects
  <1>4. QED
    BY <1>2, <1>3, LocalKept DEF Quiet

\* What ScansComplete says of the scan of t.
ScanEnded(t) ==
    LET s == scan[t] IN
    call[t].op = "iter_batches" /\ answer[t] = KV!Ok =>
        \A k \in Keys :
            CASE site.backend \in {"file", "lmdb"} ->
                    s.yields[k] = IF k \in s.stable THEN 1 ELSE s.yields[k] % 2
              [] site.backend \in {"duckdb", "sqlite"} /\ Conn(t) = "sync" ->
                    /\ s.yields[k] = 0 /\ k \in s.stable => \E i \in s.gone : i < k
                    /\ s.yields[k] = 2 => \E i \in s.added : i < k
              [] OTHER ->
                    /\ s.yields[k] = 0 => k \notin s.stable
                    /\ s.yields[k] = 2 => k \in s.added \cup s.rewritten

LEMMA ScansEnded == ScansComplete <=> \A t \in Threads : ScanEnded(t)
  BY DEF ScansComplete, ScanEnded

\* A scan that has ended is not disturbed by the others.
LEMMA ScanEndedStays ==
    ASSUME Shape, NEW t \in Threads, Task(t), UNCHANGED site,
           NEW u \in Threads \ {t}, ScanEnded(u),
           pc[u] \notin ScanPhases => scan'[u] = scan[u]
    PROVE  ScanEnded(u)'
  <1>1. call'[u] = call[u] /\ answer'[u] = answer[u] /\ site' = site
    BY DEF Task
  <1>2. KV!Ok # KV!NoAnswer
    BY DEF KV!Ok, KV!NoAnswer
  <1>3. answer[u] = KV!Ok => scan'[u] = scan[u]
    BY <1>2 DEF Shape, TypeOK, Busy, ScanPhases
  <1>4. QED
    BY <1>1, <1>3 DEF ScanEnded, Conn

(* A scan of the keys listed at its start.                                 *)
ListScan(t) ==
    pc[t] = "list" =>
        /\ Listing(scan[t], data, todo[t] \cup ({want[t]} \ {NoKey}))
        /\ want[t] \notin todo[t]

LEMMA ListScanStays ==
    ASSUME Shape, NEW t \in Threads, Quiet(t), Effects(t), UNCHANGED site,
           NEW u \in Threads \ {t}, ListScan(u), ScanEnded(u)
    PROVE  ListScan(u)' /\ ScanEnded(u)'
  <1>1. /\ pc'[u] = pc[u] /\ todo'[u] = todo[u] /\ want'[u] = want[u]
        /\ data \in Contents /\ scan[u] \in Scans /\ Task(t)
    BY DEF Quiet, Task, Reads, Shape, TypeOK, Contents
  <1>2. CASE UNCHANGED data /\ scan'[u] = scan[u]
    BY <1>1, <1>2, ScanEndedStays DEF ListScan
  <1>3. ASSUME NEW w \in Writes, ~Spoiled(w), Apply(w)
        PROVE  ListScan(u)' /\ ScanEnded(u)'
    <2>1. data' = Stored(data, w)
          /\ scan'[u] = IF pc[u] \in ScanPhases THEN Noted(scan[u], data, w) ELSE scan[u]
      BY <1>3, ApplyFacts
    <2>2. ListScan(u)'
      BY <1>1, <2>1, ListingNoted DEF ListScan, ScanPhases
    <2>3. QED
      BY <1>1, <2>1, <2>2, ScanEndedStays
  <1>4. QED
    BY <1>2, <1>3, ScannedFacts, YieldsFacts DEF Effects, Shape, TypeOK, Contents

-----------------------------------------------------------------------------
(* A file store.  A batch that looks before it writes is in the lock from  *)
(* its check to its last file.                                             *)
FilePhase(t) ==
    LET r == call[t]
        K == DOMAIN r.items
    IN
    /\ pc[t] \in {"idle", "start", "check", "get", "exists", "unlink", "save", "list"}
    /\ pc[t] \in {"check", "get", "save"} /\ Conditional(r) => lock = t
    /\ pc[t] = "check" =>
        /\ Conditional(r) /\ todo[t] \subseteq K /\ found[t] \subseteq K \ todo[t]
        /\ DOMAIN got[t] = {} /\ want[t] = NoKey
    /\ pc[t] = "get" => r.op \in {"get", "get_many", "set_many"}
    /\ pc[t] = "get" /\ r.op = "set_many" =>
        /\ Conditional(r) /\ r.on_conflict = "merge"
        /\ todo[t] \subseteq found[t] /\ want[t] \in found[t] \cup {NoKey}
    /\ pc[t] = "save" => r.op = "set_many" /\ todo[t] \subseteq DOMAIN Planned(t)
    /\ pc[t] = "unlink" => r.op \in {"delete", "delete_many", "clear"}
    /\ pc[t] = "exists" => r.op \in {"contains_many", "count"}
    /\ pc[t] = "list" => r.op \in {"filter", "iter_batches"}

FileInv == \A t \in Threads : FilePhase(t)

OnFile(t) ==
    /\ Shape /\ FileInv /\ site.backend = "file"
    /\ File!Step(t) /\ UNCHANGED connections

\* What each step of a file store leaves as it is.
LEMMA FileFrame ==
    ASSUME NEW t \in Threads, OnFile(t)
    PROVE  Quiet(t) /\ UNCHANGED <<site, crashes, connections>>
  <1>1. /\ Shape /\ FilePhase(t)
        /\ found[t] \in SUBSET Keys /\ todo[t] \in SUBSET Keys /\ got[t] \in Writes
        /\ want[t] \in Keys \cup {NoKey} /\ data \in Contents
        /\ call[t].keys \in SUBSET Keys /\ DOMAIN call[t].items \in SUBSET Keys
        /\ Present(data) \in SUBSET Keys
    <2>1. call[t] \in KV!Request
      BY DEF OnFile, Shape, TypeOK
    <2>2. QED
      BY <2>1, RequestType DEF OnFile, FileInv, Shape, TypeOK, Contents, Present
  <1>2. UNCHANGED <<site, crashes, connections>>
    BY DEF OnFile, File!Step
  <1>3. Busy(t)
    BY DEF OnFile, File!Step, File!NothingToDo, File!StartLookup, File!StartDelete,
       File!StartOverwrite, File!StartBatch, File!StartScan, File!Loop, File!Starts,
       File!Exists, File!Counted, File!Resolve, File!IsFile, File!Load, File!Loaded,
       File!Listed, File!Save, File!Unlink, File!Written, Busy
  <1>4. Ended(t) => Quiet(t)
    BY <1>1, <1>3, QuietWays
  <1>5. ASSUME NEW phase, NEW K \in SUBSET Keys, phase \notin {"idle", "start", "page"},
               Visit(t, phase, K), UNCHANGED <<found, got, want>>
        PROVE  Quiet(t)
    BY <1>1, <1>3, <1>5, QuietWays DEF Visit, Moved
  <1>6. ASSUME NEW k \in todo[t], UNCHANGED task, Visited(t, k), pc[t] \notin {"start", "page"},
               UNCHANGED got,
               \/ UNCHANGED <<found, want>>
               \/ found' = [found EXCEPT ![t] = @ \cup ({k} \cap Present(data))] /\ UNCHANGED want
               \/ UNCHANGED found /\ \E i \in {k, NoKey} : want' = [want EXCEPT ![t] = i]
        PROVE  Quiet(t)
    <2>1. Task(t) /\ pc'[t] = pc[t] /\ Reads(t) /\ \A u \in Threads \ {t} : todo'[u] = todo[u]
      BY <1>1, <1>3, <1>6, Ways DEF Visited, Reads, Rested, Shape, TypeOK, Busy
    <2>2. QED
      BY <1>3, <1>6, <2>1 DEF Quiet
  <1>7. CASE File!NothingToDo(t) \/ File!Counted(t) \/ File!Listed(t) \/ File!Written(t)
    BY <1>2, <1>4, <1>7, FileSteps, FileAnswers
       DEF File!NothingToDo, File!Counted, File!Listed, File!Written, Leave, Ended
  <1>8. CASE File!StartLookup(t) \/ File!StartDelete(t) \/ File!StartOverwrite(t)
    <2>1. \E phase \in {"get", "exists", "unlink", "save"}, K \in SUBSET Keys :
            Visit(t, phase, K) /\ UNCHANGED <<found, got, want>>
      BY <1>1, <1>8, FileData, FileSteps
         DEF File!StartLookup, File!StartDelete, File!StartOverwrite, File!Loop
    <2>2. QED
      BY <1>2, <1>5, <2>1
  <1>9. CASE File!StartBatch(t) \/ File!StartScan(t)
    <2>1. \E phase \in {"check", "list"}, K \in SUBSET Keys :
            Visit(t, phase, K) /\ UNCHANGED <<found, got, want>>
      BY <1>1, <1>9, FileData, FileSteps DEF File!StartBatch, File!StartScan
    <2>2. QED
      BY <1>2, <1>5, <2>1
  <1>10. CASE File!Exists(t)
    BY <1>2, <1>6, <1>10, FileData, FileSteps DEF File!Exists, File!task, task
  <1>11. CASE File!Resolve(t)
    <2>1. CASE Leave(t, File!KV!KeyError)
      BY <1>2, <1>4, <2>1, FileAnswers DEF Leave, Ended
    <2>2. CASE /\ \/ Visit(t, "get", found[t]) \/ Visit(t, "save", DOMAIN Planned(t))
               /\ UNCHANGED <<found, got, want>>
      BY <1>1, <1>2, <1>5, <2>2, PlannedType
    <2>3. QED
      BY <1>11, <2>1, <2>2, FileSteps DEF File!Resolve
  <1>12. CASE File!IsFile(t)
    BY <1>2, <1>6, <1>12, FileData, FileSteps DEF File!IsFile, File!task, task
  <1>13. CASE File!Load(t)
    <2>1. CASE Leave(t, File!FileNotFound)
      <3>1. File!FileNotFound # KV!NoAnswer
        BY DEF File!FileNotFound, KV!NoAnswer
      <3>2. QED
        BY <1>2, <1>4, <2>1, <3>1 DEF Leave, Ended
    <2>2. CASE ~Leave(t, File!FileNotFound)
      <3> DEFINE g == [i \in DOMAIN got[t] \cup {want[t]} |->
                            IF i = want[t] THEN data[want[t]] ELSE got[t][i]]
      <3>1. /\ pc[t] \in {"get", "list"} /\ want[t] # NoKey /\ UNCHANGED <<task, found, todo>>
            /\ got' = [got EXCEPT ![t] = g]
            /\ want' = [want EXCEPT ![t] = NoKey]
        BY <1>13, <2>2, FileSteps DEF File!Load, File!task, task
      <3>2. g \in Writes
        <4>1. want[t] \in Keys /\ data[want[t]] \in Slot
          BY <1>1, <3>1 DEF Contents
        <4>2. QED
          BY <1>1, <4>1, OneMore
      <3> HIDE DEF g
      <3>3. Task(t) /\ pc'[t] = pc[t]
        BY <1>1, <1>3, <3>1, Ways
      <3>4. Reads(t) /\ \A u \in Threads \ {t} : todo'[u] = todo[u]
        BY <3>1, <3>2, <3>3 DEF OnFile, Shape, TypeOK, Reads, Rested
      <3>5. QED
        BY <1>2, <1>3, <3>1, <3>3, <3>4 DEF Quiet
    <2>3. QED
      BY <2>1, <2>2
  <1>14. CASE File!Loaded(t)
    <2>1. Ended(t) \/ (Visit(t, "save", DOMAIN call[t].items) /\ UNCHANGED <<found, got, want>>)
      BY <1>14, FileSteps, FileAnswers DEF File!Loaded, Ended
    <2>2. QED
      BY <1>1, <1>2, <1>4, <1>5, <2>1
  <1>15. CASE File!Save(t) \/ File!Unlink(t)
    <2>1. \/ Leave(t, File!Failed)
          \/ \E k \in todo[t] : /\ Visited(t, k) /\ pc[t] \in {"save", "unlink"}
                                /\ UNCHANGED <<task, found, got, want>>
      BY <1>15, FileSteps DEF File!Save, File!Unlink, File!task, task
    <2>2. CASE Leave(t, File!Failed)
      BY <1>2, <1>4, <2>2, FileAnswers DEF Leave, Ended
    <2>3. QED
      BY <1>2, <1>6, <2>1, <2>2
  <1>16. QED
    BY <1>7, <1>8, <1>9, <1>10, <1>11, <1>12, <1>13, <1>14, <1>15 DEF OnFile, File!Step

LEMMA FileEffects ==
    ASSUME NEW t \in Threads, OnFile(t)
    PROVE  Effects(t) /\ Lockwise(t)
  <1>1. Shape /\ FilePhase(t) /\ Lockwise(t) /\ data \in Contents
    <2>1. Lockwise(t)
      BY FileSteps DEF OnFile, File!Step, File!NothingToDo, File!StartLookup, File!StartDelete,
         File!StartOverwrite, File!StartBatch, File!StartScan, File!Loop, File!Exists,
         File!Counted, File!Resolve, File!IsFile, File!Load, File!Loaded, File!Listed,
         File!Save, File!Unlink, File!Written, Leave, Lockwise
    <2>2. QED
      BY <2>1 DEF OnFile, FileInv, Shape, TypeOK, Contents
  <1>2. CASE File!Save(t)
    <2>1. \/ UNCHANGED <<data, scan>>
          \/ \E k \in todo[t] : /\ pc[t] = "save" /\ Planned(t)[k] \notin Unstorable
                                /\ Apply([i \in {k} |-> Planned(t)[k]])
      BY <1>2, FileSteps DEF File!Save
    <2>2. ASSUME NEW k \in todo[t], pc[t] = "save", Planned(t)[k] \notin Unstorable,
                 Apply([i \in {k} |-> Planned(t)[k]])
          PROVE  Effects(t)
      <3>1. k \in Keys /\ Planned(t)[k] \in Slot
        BY <1>1, <2>2, PlannedType DEF FilePhase, Slot
      <3>2. QED
        BY <2>2, <3>1, OneWrite DEF Effects
    <2>3. QED
      BY <1>1, <2>1, <2>2 DEF Effects
  <1>3. CASE File!Unlink(t)
    <2>1. PICK k \in todo[t] : Apply([i \in {k} |-> Absent])
      BY <1>3, FileSteps DEF File!Unlink
    <2>2. k \in Keys
      BY <1>1 DEF Shape, TypeOK
    <2>3. QED
      BY <1>1, <2>1, <2>2, OneWrite, AbsentStorable DEF Effects
  <1>4. CASE File!StartScan(t)
    BY <1>1, <1>4, FileData, FileSteps DEF File!StartScan, Starts, Effects
  <1>5. CASE File!Load(t)
    BY <1>1, <1>5, FileSteps DEF File!Load, Effects
  <1>6. CASE ~(File!Save(t) \/ File!Unlink(t) \/ File!StartScan(t) \/ File!Load(t))
    <2>1. UNCHANGED <<data, scan>>
      BY <1>6 DEF OnFile, File!Step, File!NothingToDo, File!StartLookup, File!StartDelete,
         File!StartOverwrite, File!StartBatch, File!Loop, File!Exists,
         File!Counted, File!Resolve, File!IsFile, File!Loaded, File!Listed, File!Written
    <2>2. QED
      BY <1>1, <2>1 DEF Effects
  <1>7. QED
    BY <1>2, <1>3, <1>4, <1>5, <1>6

\* A plan is made from the call and what it has read.
LEMMA PlannedStays ==
    ASSUME NEW t, call'[t] = call[t], found'[t] = found[t], got'[t] = got[t]
    PROVE  Planned(t)' = Planned(t)
  BY DEF Planned

LEMMA FilePhaseKept ==
    ASSUME NEW t \in Threads, OnFile(t)
    PROVE  FileInv'
  <1>1. /\ Shape /\ FileInv /\ Task(t) /\ Reads(t) /\ Lockwise(t) /\ Busy(t)
        /\ \A u \in Threads \ {t} : todo'[u] = todo[u]
    BY FileFrame, FileEffects DEF OnFile, Quiet
  <1>2. ASSUME NEW u \in Threads \ {t} PROVE FilePhase(u)'
    <2>1. /\ pc'[u] = pc[u] /\ call'[u] = call[u] /\ found'[u] = found[u] /\ got'[u] = got[u]
          /\ want'[u] = want[u] /\ todo'[u] = todo[u] /\ (lock = u => lock' = u)
      BY <1>1, ThreadAssumption DEF Task, Reads, Lockwise
    <2>2. Planned(u)' = Planned(u) /\ (Conditional(call[u])' <=> Conditional(call[u]))
      BY <2>1, PlannedStays
    <2>3. FilePhase(u)
      BY <1>1 DEF FileInv
    <2>4. QED
      BY <2>1, <2>2, <2>3 DEF FilePhase, Conditional
  <1>3. FilePhase(t)'
    <2>1. /\ FilePhase(t) /\ call' = call
          /\ DOMAIN pc = Threads /\ found \in [Threads -> SUBSET Keys]
          /\ todo \in [Threads -> SUBSET Keys] /\ got \in [Threads -> Writes]
          /\ want \in [Threads -> Keys \cup {NoKey}]
          /\ (pc[t] = "start" => found[t] = {} /\ DOMAIN got[t] = {} /\ want[t] = NoKey)
      BY <1>1 DEF FileInv, Shape, TypeOK, ShapeOf, Rested, Task, Nothing
    <2>2. ASSUME Ended(t) PROVE FilePhase(t)'
      BY <1>1, <2>2, Ways DEF Ended, FilePhase
    <2>3. CASE File!NothingToDo(t) \/ File!Counted(t) \/ File!Listed(t) \/ File!Written(t)
      BY <2>2, <2>3, FileSteps, FileAnswers
         DEF File!NothingToDo, File!Counted, File!Listed, File!Written, Leave, Ended
    <2>4. CASE File!StartLookup(t) \/ File!StartDelete(t) \/ File!StartOverwrite(t)
      <3>1. /\ pc[t] = "start" /\ UNCHANGED <<found, got, want, lock>>
            /\ \/ Visit(t, "get", call[t].keys) /\ call[t].op \in {"get", "get_many"}
               \/ Visit(t, "exists", call[t].keys) /\ call[t].op = "contains_many"
               \/ Visit(t, "exists", Present(data)) /\ call[t].op = "count"
               \/ Visit(t, "unlink", call[t].keys) /\ call[t].op \in {"delete", "delete_many"}
               \/ Visit(t, "unlink", Present(data)) /\ call[t].op = "clear"
               \/ /\ Visit(t, "save", DOMAIN call[t].items) /\ call[t].op = "set_many"
                  /\ ~Conditional(call[t])
        BY <2>4, FileData, FileSteps
           DEF File!StartLookup, File!StartDelete, File!StartOverwrite, File!Loop, Starts
      <3>2. Planned(t)' = Planned(t)
        BY <2>1, <3>1, PlannedStays
      <3>3. ~Conditional(call[t]) => Planned(t) = call[t].items
        BY <1>1, PlannedType
      <3>4. QED
        BY <2>1, <3>1, <3>2, <3>3 DEF Visit, GoTo, FilePhase, Conditional
    <2>5. CASE File!StartBatch(t)
      <3>1. /\ pc[t] = "start" /\ Conditional(call[t]) /\ lock' = t /\ UNCHANGED <<found, got, want>>
            /\ Visit(t, "check", DOMAIN call[t].items)
        BY <2>5, FileData, FileSteps DEF File!StartBatch, Starts
      <3>2. QED
        BY <2>1, <3>1 DEF Visit, GoTo, FilePhase, Conditional
    <2>6. CASE File!StartScan(t)
      BY <2>1, <2>6, FileSteps DEF File!StartScan, Starts, Visit, GoTo, FilePhase
    <2>7. CASE File!Exists(t)
      <3>1. PICK k \in todo[t] : /\ found' = [found EXCEPT ![t] = @ \cup ({k} \cap Present(data))]
                                 /\ todo' = [todo EXCEPT ![t] = @ \ {k}]
        BY <2>7, FileData DEF File!Exists, File!Visited
      <3>2. pc[t] \in {"check", "exists"} /\ UNCHANGED <<lock, task, got, want>>
        BY <2>7 DEF File!Exists, File!task, task
      <3>3. QED
        BY <2>1, <3>1, <3>2 DEF FilePhase, task
    <2>8. CASE File!Resolve(t)
      <3>1. CASE Leave(t, File!KV!KeyError)
        BY <2>2, <3>1, FileAnswers DEF Leave, Ended
      <3>2. CASE ~Leave(t, File!KV!KeyError)
        <4>1. /\ pc[t] = "check" /\ todo[t] = {} /\ UNCHANGED <<lock, found, got, want>>
              /\ \/ call[t].on_conflict = "merge" /\ Visit(t, "get", found[t])
                 \/ Visit(t, "save", DOMAIN Planned(t))
          BY <2>8, <3>2, FileSteps DEF File!Resolve
        <4>2. Planned(t)' = Planned(t)
          BY <2>1, <4>1, PlannedStays
        <4>3. QED
          BY <2>1, <4>1, <4>2 DEF Visit, GoTo, FilePhase, Conditional
      <3>3. QED
        BY <3>1, <3>2
    <2>9. CASE File!IsFile(t)
      <3>1. PICK k \in todo[t] :
                /\ todo' = [todo EXCEPT ![t] = @ \ {k}]
                /\ want' = [want EXCEPT ![t] = IF data[k] # Absent THEN k ELSE NoKey]
        BY <2>9 DEF File!IsFile, File!Visited
      <3>2. pc[t] \in {"get", "list"} /\ UNCHANGED <<lock, task, found, got>>
        BY <2>9 DEF File!IsFile, File!task, task
      <3>3. QED
        BY <2>1, <3>1, <3>2 DEF FilePhase, task
    <2>10. CASE File!Load(t)
      <3>1. CASE Leave(t, File!FileNotFound)
        <4>1. File!FileNotFound # KV!NoAnswer
          BY DEF File!FileNotFound, KV!NoAnswer
        <4>2. QED
          BY <2>2, <3>1, <4>1 DEF Leave, Ended
      <3>2. CASE ~Leave(t, File!FileNotFound)
        <4>1. /\ pc[t] \in {"get", "list"} /\ UNCHANGED <<lock, task, found, todo>>
              /\ want' = [want EXCEPT ![t] = NoKey]
          BY <2>10, <3>2, FileSteps DEF File!Load, File!task, task
        <4>2. QED
          BY <2>1, <4>1 DEF FilePhase, task
      <3>3. QED
        BY <3>1, <3>2
    <2>11. CASE File!Loaded(t)
      <3>1. \/ Ended(t)
            \/ /\ pc[t] = "get" /\ call[t].op = "set_many" /\ UNCHANGED <<lock, found, got, want>>
               /\ Visit(t, "save", DOMAIN call[t].items)
        BY <2>11, FileSteps, FileAnswers DEF File!Loaded, Ended
      <3>2. CASE ~Ended(t)
        <4>1. Planned(t)' = Planned(t)
          BY <2>1, <3>1, <3>2, PlannedStays
        <4>2. call[t].on_conflict = "merge" => DOMAIN Planned(t) = DOMAIN call[t].items
          BY <1>1, PlannedType
        <4>3. QED
          BY <2>1, <3>1, <3>2, <4>1, <4>2 DEF Visit, GoTo, FilePhase, Conditional
      <3>3. QED
        BY <2>2, <3>2
    <2>12. CASE File!Save(t) \/ File!Unlink(t)
      <3>1. \/ Leave(t, File!Failed)
            \/ \E k \in todo[t] : /\ Visited(t, k) /\ pc[t] \in {"save", "unlink"}
                                  /\ UNCHANGED <<lock, task, found, got, want>>
        BY <2>12, FileSteps DEF File!Save, File!Unlink, File!task, task
      <3>2. CASE Leave(t, File!Failed)
        BY <2>2, <3>2, FileAnswers DEF Leave, Ended
      <3>3. CASE \E k \in todo[t] : /\ Visited(t, k) /\ pc[t] \in {"save", "unlink"}
                                    /\ UNCHANGED <<lock, task, found, got, want>>
        <4>1. Planned(t)' = Planned(t)
          BY <2>1, <3>3, PlannedStays
        <4>2. QED
          BY <2>1, <3>3, <4>1 DEF FilePhase, Visited, task
      <3>4. QED
        BY <3>1, <3>2, <3>3
    <2>13. QED
      BY <2>3, <2>4, <2>5, <2>6, <2>7, <2>8, <2>9, <2>10, <2>11, <2>12 DEF OnFile, File!Step
  <1>4. QED
    BY <1>2, <1>3 DEF FileInv

(* Where every writer of a file store takes the lock, what a batch has read *)
(* of the keys it has still to write is so.                                *)
FileCurrent(t) ==
    Conditional(call[t]) =>
        /\ pc[t] = "check" =>
            \A k \in DOMAIN call[t].items \ todo[t] : k \in found[t] <=> data[k] # Absent
        /\ pc[t] = "get" =>
            /\ found[t] = Conflicts(call[t].items, Present(data))
            /\ \A k \in DOMAIN got[t] : got[t][k] = data[k]
        /\ pc[t] = "save" =>
            \A k \in todo[t] : /\ k \in found[t] <=> data[k] # Absent
                               /\ k \in DOMAIN got[t] => got[t][k] = data[k]

\* All the writers of a serialized file store are batches that look first.
LEMMA FileWriters ==
    ASSUME Shape, site.backend = "file", Serialized, NEW t \in Threads, Busy(t),
           call[t].op \in KV!WriteOps
    PROVE  Conditional(call[t])
  <1>1. call[t] \in site.calls[t]
    BY DEF Shape, ShapeOf, Busy
  <1>2. call[t] \in Writers
    BY <1>1 DEF Writers, Calls
  <1>3. QED
    BY <1>2 DEF Serialized

LEMMA FileCurrentKept ==
    ASSUME NEW t \in Threads, OnFile(t), Serialized, \A u \in Threads : FileCurrent(u)
    PROVE  \A u \in Threads : FileCurrent(u)'
  <1>1. /\ Shape /\ FileInv /\ Task(t) /\ Reads(t) /\ Busy(t) /\ FilePhase(t) /\ FileCurrent(t)
        /\ \A u \in Threads \ {t} : todo'[u] = todo[u]
        /\ call' = call /\ DOMAIN pc = Threads /\ data \in Contents
        /\ todo \in [Threads -> SUBSET Keys] /\ found \in [Threads -> SUBSET Keys]
        /\ got \in [Threads -> Writes]
        /\ DOMAIN call[t].items \subseteq Keys
    <2>1. call[t] \in KV!Request
      BY DEF OnFile, Shape, TypeOK
    <2>2. QED
      BY <2>1, FileFrame, RequestType DEF OnFile, Quiet, Task, FileInv, Shape, TypeOK, Contents
  <1>2. (File!Save(t) \/ File!Unlink(t)) => Conditional(call[t]) /\ pc[t] = "save"
    BY <1>1, FileWriters DEF OnFile, File!Save, File!Unlink, FilePhase, KV!WriteOps, Conditional
  <1>3. ~File!Save(t) /\ ~File!Unlink(t) => data' = data
    BY FileSteps DEF OnFile, File!Step, File!NothingToDo, File!StartLookup, File!StartDelete,
       File!StartOverwrite, File!StartBatch, File!StartScan, File!Loop, File!Exists,
       File!Counted, File!Resolve, File!IsFile, File!Load, File!Loaded, File!Listed, File!Written
  <1>4. ASSUME NEW u \in Threads \ {t} PROVE FileCurrent(u)'
    <2>1. /\ pc'[u] = pc[u] /\ call'[u] = call[u] /\ found'[u] = found[u] /\ got'[u] = got[u]
          /\ todo'[u] = todo[u] /\ FileCurrent(u) /\ FilePhase(u)
      BY <1>1 DEF Task, Reads, FileInv
    <2>2. CASE Conditional(call[u]) /\ pc[u] \in {"check", "get", "save"}
      <3>1. data' = data
        BY <1>1, <1>2, <1>3, <2>1, <2>2 DEF FilePhase
      <3>2. QED
        BY <2>1, <3>1 DEF FileCurrent, Conditional, Conflicts, Present
    <2>3. QED
      BY <2>1, <2>2 DEF FileCurrent, Conditional
  <1>5. FileCurrent(t)'
    <2>1. ASSUME Ended(t) PROVE FileCurrent(t)'
      BY <1>1, <2>1, Ways DEF Ended, FileCurrent
    <2>2. CASE ~Conditional(call[t])
      BY <1>1, <2>2 DEF FileCurrent, Conditional
    <2>3. CASE Conditional(call[t]) /\ File!StartBatch(t)
      BY <1>1, <2>3, FileSteps DEF File!StartBatch, Visit, GoTo, FileCurrent
    <2>4. CASE Conditional(call[t]) /\ File!Exists(t)
      <3>1. PICK k \in todo[t] : /\ found' = [found EXCEPT ![t] = @ \cup ({k} \cap Present(data))]
                                 /\ todo' = [todo EXCEPT ![t] = @ \ {k}]
        BY <2>4, FileData DEF File!Exists, File!Visited
      <3>2. pc[t] \in {"check", "exists"} /\ UNCHANGED <<data, task, got>> /\ pc[t] # "exists"
        BY <1>1, <2>4 DEF File!Exists, File!task, task, FilePhase, Conditional
      <3>3. k \in Present(data) <=> data[k] # Absent
        BY <1>1 DEF Present
      <3>4. todo[t] \subseteq DOMAIN call[t].items /\ found[t] \subseteq DOMAIN call[t].items \ todo[t]
        BY <1>1, <3>2 DEF FilePhase
      <3>5. QED
        BY <1>1, <3>1, <3>2, <3>3, <3>4 DEF FileCurrent, task
    <2>5. CASE Conditional(call[t]) /\ File!Resolve(t)
      <3>1. CASE Leave(t, File!KV!KeyError)
        BY <2>1, <3>1, FileAnswers DEF Leave, Ended
      <3>2. CASE ~Leave(t, File!KV!KeyError)
        <4>1. /\ pc[t] = "check" /\ todo[t] = {} /\ UNCHANGED <<data, found, got>>
              /\ Visit(t, "get", found[t]) \/ Visit(t, "save", DOMAIN Planned(t))
          BY <2>5, <3>2, FileSteps DEF File!Resolve
        <4>2. found[t] \subseteq DOMAIN call[t].items /\ DOMAIN got[t] = {}
          BY <1>1, <4>1 DEF FilePhase
        <4>3. \A k \in DOMAIN call[t].items : k \in found[t] <=> data[k] # Absent
          BY <1>1, <2>5, <4>1 DEF FileCurrent
        <4>4. found[t] = Conflicts(call[t].items, Present(data))
          BY <1>1, <4>2, <4>3 DEF Conflicts, Present
        <4>5. DOMAIN Planned(t) \subseteq DOMAIN call[t].items
          BY <1>1, PlannedType
        <4>6. \/ pc'[t] = "get" /\ todo'[t] = found[t]
              \/ pc'[t] = "save" /\ todo'[t] = DOMAIN Planned(t)
          BY <1>1, <4>1 DEF Visit, GoTo
        <4>7. QED
          BY <1>1, <4>1, <4>2, <4>3, <4>4, <4>5, <4>6 DEF FileCurrent
      <3>3. QED
        BY <3>1, <3>2
    <2>6. CASE Conditional(call[t]) /\ File!IsFile(t)
      <3>1. UNCHANGED <<data, task, found, got>> /\ pc[t] \in {"get", "list"}
        BY <2>6 DEF File!IsFile, File!task, task
      <3>2. QED
        BY <1>1, <3>1 DEF FileCurrent, task
    <2>7. CASE Conditional(call[t]) /\ File!Load(t)
      <3>1. CASE Leave(t, File!FileNotFound)
        <4>1. File!FileNotFound # KV!NoAnswer
          BY DEF File!FileNotFound, KV!NoAnswer
        <4>2. QED
          BY <2>1, <3>1, <4>1 DEF Leave, Ended
      <3>2. CASE ~Leave(t, File!FileNotFound)
        <4>1. /\ pc[t] \in {"get", "list"} /\ UNCHANGED <<data, task, found>>
              /\ got' = [got EXCEPT ![t] =
                    [i \in DOMAIN got[t] \cup {want[t]} |->
                        IF i = want[t] THEN data[want[t]] ELSE got[t][i]]]
          BY <2>7, <3>2, FileSteps DEF File!Load, File!task, task
        <4>2. /\ DOMAIN got'[t] = DOMAIN got[t] \cup {want[t]}
              /\ \A i \in DOMAIN got'[t] :
                    got'[t][i] = IF i = want[t] THEN data[want[t]] ELSE got[t][i]
          BY <1>1, <4>1
        <4>3. QED
          BY <1>1, <2>7, <4>1, <4>2 DEF FileCurrent, task
      <3>3. QED
        BY <3>1, <3>2
    <2>8. CASE Conditional(call[t]) /\ File!Loaded(t)
      <3>1. \/ Ended(t)
            \/ /\ pc[t] = "get" /\ UNCHANGED <<data, found, got>>
               /\ Visit(t, "save", DOMAIN call[t].items)
        BY <2>8, FileSteps, FileAnswers DEF File!Loaded, Ended
      <3>2. CASE ~Ended(t)
        <4>1. pc'[t] = "save" /\ todo'[t] = DOMAIN call[t].items
          BY <1>1, <3>1, <3>2 DEF Visit, GoTo
        <4>2. \A k \in DOMAIN call[t].items : k \in found[t] <=> data[k] # Absent
          BY <1>1, <2>8, <3>1, <3>2 DEF FileCurrent, Conflicts, Present
        <4>3. QED
          BY <1>1, <2>8, <3>1, <3>2, <4>1, <4>2 DEF FileCurrent
      <3>3. QED
        BY <2>1, <3>2
    <2>9. CASE Conditional(call[t]) /\ File!Save(t)
      <3>1. CASE Leave(t, File!Failed)
        BY <2>1, <3>1, FileAnswers DEF Leave, Ended
      <3>2. CASE ~Leave(t, File!Failed)
        <4>1. PICK k \in todo[t] : /\ Apply([i \in {k} |-> Planned(t)[k]]) /\ Visited(t, k)
                                   /\ UNCHANGED <<task, found, got>> /\ pc[t] = "save"
          BY <2>9, <3>2, FileSteps DEF File!Save, File!task, task
        <4>2. \A i \in Keys \ {k} : data'[i] = data[i]
          BY <4>1 DEF Apply, Stored
        <4>3. todo'[t] = todo[t] \ {k} /\ todo[t] \subseteq Keys
          BY <1>1, <4>1 DEF Visited
        <4>4. QED
          BY <1>1, <2>9, <4>1, <4>2, <4>3 DEF FileCurrent, task
      <3>3. QED
        BY <3>1, <3>2
    <2>10. CASE File!NothingToDo(t) \/ File!Counted(t) \/ File!Listed(t) \/ File!Written(t)
      BY <2>1, <2>10, FileSteps, FileAnswers
         DEF File!NothingToDo, File!Counted, File!Listed, File!Written, Leave, Ended
    <2>11. CASE Conditional(call[t])
                /\ (File!StartLookup(t) \/ File!StartDelete(t) \/ File!StartOverwrite(t)
                    \/ File!StartScan(t) \/ File!Unlink(t))
      <3>1. call[t].op = "set_many" /\ ~File!StartOverwrite(t)
        BY <2>11, FileData DEF File!StartOverwrite, Conditional
      <3>2. ~File!StartLookup(t) /\ ~File!StartDelete(t)
        BY <3>1 DEF File!StartLookup, File!StartDelete, File!Loop, File!Starts
      <3>3. ~File!StartScan(t)
        BY <3>1 DEF File!StartScan, File!Starts
      <3>4. ~File!Unlink(t)
        BY <1>2 DEF File!Unlink
      <3>5. QED
        BY <2>11, <3>1, <3>2, <3>3, <3>4
    <2>12. QED
      BY <2>2, <2>3, <2>4, <2>5, <2>6, <2>7, <2>8, <2>9, <2>10, <2>11 DEF OnFile, File!Step
  <1>6. QED
    BY <1>4, <1>5

LEMMA FileScanKept ==
    ASSUME NEW t \in Threads, OnFile(t), \A u \in Threads : ListScan(u) /\ ScanEnded(u)
    PROVE  \A u \in Threads : ListScan(u)' /\ ScanEnded(u)'
  <1>1. /\ Shape /\ FilePhase(t) /\ Quiet(t) /\ Effects(t) /\ Busy(t) /\ Task(t)
        /\ UNCHANGED <<site, crashes>> /\ site.backend = "file" /\ call' = call
        /\ data \in Contents /\ scan[t] \in Scans
        /\ ListScan(t) /\ ScanEnded(t)
        /\ todo \in [Threads -> SUBSET Keys] /\ want \in [Threads -> Keys \cup {NoKey}]
        /\ DOMAIN pc = Threads
    BY FileFrame, FileEffects DEF OnFile, FileInv, Quiet, Task, Shape, TypeOK, Contents
  <1>2. ASSUME NEW u \in Threads \ {t} PROVE ListScan(u)' /\ ScanEnded(u)'
    BY <1>1, <1>2, ListScanStays
  <1>3. SUFFICES ListScan(t)' /\ ScanEnded(t)'
    BY <1>2
  <1>4. ASSUME pc'[t] # "idle" PROVE ScanEnded(t)'
    <2>1. answer'[t] = KV!NoAnswer /\ KV!Ok # KV!NoAnswer
      BY <1>1, <1>4 DEF Task, KV!Ok, KV!NoAnswer
    <2>2. QED
      BY <2>1 DEF ScanEnded
  <1>5. ASSUME NEW a, a # KV!NoAnswer, End(t, a), call[t].op = "iter_batches" => a # KV!Ok
        PROVE  ListScan(t)' /\ ScanEnded(t)'
    <2>1. pc'[t] = "idle" /\ answer'[t] = a
      BY <1>1, <1>5, Ways
    <2>2. QED
      BY <1>1, <1>5, <2>1 DEF ListScan, ScanEnded
  <1>6. CASE File!StartScan(t)
    <2>1. /\ pc[t] = "start" /\ Visit(t, "list", Present(data)) /\ Scanned(t, data)
          /\ UNCHANGED <<data, want>>
      BY <1>6, FileData, FileSteps DEF File!StartScan, Starts
    <2>2. /\ pc'[t] = "list" /\ todo'[t] = Present(data) /\ want'[t] = NoKey
          /\ NoKey \notin Present(data)
      BY <1>1, <2>1, KeyAssumption DEF Visit, GoTo, Shape, ShapeOf, Rested, Present
    <2>3. scan'[t].stable = Present(data) /\ \A k \in Keys : scan'[t].yields[k] = 0
      BY <1>1, <2>1, ScannedFacts
    <2>4. ListScan(t)'
      BY <2>1, <2>2, <2>3 DEF ListScan, Listing
    <2>5. QED
      BY <1>4, <2>2, <2>4
  <1>7. CASE File!IsFile(t)
    <2>1. PICK k \in todo[t] :
            /\ todo' = [todo EXCEPT ![t] = @ \ {k}]
            /\ want' = [want EXCEPT ![t] = IF data[k] # Absent THEN k ELSE NoKey]
      BY <1>7 DEF File!IsFile, File!Visited
    <2>2. /\ UNCHANGED <<data, pc, scan>> /\ want[t] = NoKey /\ pc[t] \in {"get", "list"}
      BY <1>7 DEF File!IsFile, File!task
    <2>3. /\ todo'[t] = todo[t] \ {k} /\ want'[t] = IF data[k] # Absent THEN k ELSE NoKey
          /\ k \in Keys /\ NoKey \notin Keys /\ todo[t] \subseteq Keys
      BY <1>1, <2>1, KeyAssumption
    <2>4. ASSUME pc[t] = "list" PROVE ListScan(t)'
      <3>1. Listing(scan[t], data, todo[t])
        <4>1. todo[t] \cup ({want[t]} \ {NoKey}) = todo[t]
          BY <2>2
        <4>2. QED
          BY <1>1, <2>4, <4>1 DEF ListScan
      <3>2. Listing(scan[t], data, todo'[t] \cup ({want'[t]} \ {NoKey}))
        <4> DEFINE more == todo'[t] \cup ({want'[t]} \ {NoKey})
        <4>1. more \subseteq todo[t] /\ todo[t] \cap Present(data) \subseteq more
          BY <2>3 DEF Present
        <4> HIDE DEF more
        <4>2. QED
          BY <3>1, <4>1, ListingLess DEF more
      <3>3. QED
        BY <2>2, <2>3, <3>2 DEF ListScan
    <2>5. QED
      BY <1>4, <2>2, <2>4 DEF ListScan
  <1>8. CASE File!Load(t)
    <2>1. CASE Leave(t, File!FileNotFound)
      <3>1. File!FileNotFound # KV!NoAnswer /\ File!FileNotFound # KV!Ok
        BY DEF File!FileNotFound, KV!NoAnswer, KV!Ok
      <3>2. QED
        BY <1>5, <2>1, <3>1 DEF Leave
    <2>2. CASE ~Leave(t, File!FileNotFound)
      <3>1. /\ pc[t] \in {"get", "list"} /\ want[t] # NoKey /\ UNCHANGED <<pc, data, todo>>
            /\ want' = [want EXCEPT ![t] = NoKey]
            /\ pc[t] = "list" => Yields(t, {want[t]})
        BY <1>8, <2>2, FileSteps DEF File!Load, File!task
      <3>2. ASSUME pc[t] = "list" PROVE ListScan(t)'
        <4> DEFINE K == {want[t]}
        <4>1. scan'[t] = Yielding(scan[t], K)
          BY <1>1, <3>1, <3>2, YieldsFacts
        <4>2. Listing(scan[t], data, todo[t] \cup K) /\ want[t] \notin todo[t]
          <5>1. K \ {NoKey} = K
            BY <3>1
          <5>2. QED
            BY <1>1, <3>2, <5>1 DEF ListScan
        <4>3. Listing(Yielding(scan[t], K), data, todo[t])
          <5>1. K \subseteq todo[t] \cup K /\ todo[t] \subseteq (todo[t] \cup K) \ K
                /\ (todo[t] \cup K) \cap Present(data) \subseteq K \cup todo[t]
            BY <4>2
          <5> HIDE DEF K
          <5>2. QED
            BY <1>1, <4>2, <5>1, ListingRead
        <4>4. /\ todo'[t] \cup ({want'[t]} \ {NoKey}) = todo[t] /\ want'[t] = NoKey
              /\ NoKey \notin todo[t]
          BY <1>1, <3>1, KeyAssumption
        <4> HIDE DEF K
        <4>5. QED
          BY <3>1, <4>1, <4>3, <4>4 DEF ListScan
      <3>3. QED
        BY <1>1, <1>4, <3>1, <3>2 DEF ListScan
    <2>3. QED
      BY <2>1, <2>2
  <1>9. CASE File!Listed(t)
    <2>1. /\ pc[t] = "list" /\ todo[t] = {} /\ want[t] = NoKey /\ UNCHANGED scan
          /\ \/ call[t].op # "iter_batches" /\ \E v : End(t, File!KV!Returns(v))
             \/ End(t, KV!Ok)
      BY <1>9, FileSteps, FileAnswers DEF File!Listed
    <2>2. ListingDone(scan[t])
      <3>1. todo[t] \cup ({want[t]} \ {NoKey}) = {}
        BY <2>1
      <3>2. Listing(scan[t], data, {})
        BY <1>1, <2>1, <3>1 DEF ListScan
      <3>3. QED
        BY <1>1, <3>2, ListingEnds
    <2>3. pc'[t] = "idle"
      BY <1>1, <2>1, Ways, FileAnswers
    <2>4. QED
      BY <1>1, <2>1, <2>2, <2>3 DEF ListScan, ScanEnded, ListingDone
  <1>10. CASE File!NothingToDo(t) \/ File!Counted(t) \/ File!Written(t)
    <2>1. call[t].op # "iter_batches"
      BY <1>1, <1>10, FileData DEF File!NothingToDo, File!Counted, File!Written, FilePhase, Empty
    <2>2. QED
      BY <1>5, <1>10, <2>1, FileSteps, FileAnswers
         DEF File!NothingToDo, File!Counted, File!Written, Leave
  <1>11. ASSUME pc'[t] \notin {"idle", "list"}
         PROVE  ListScan(t)' /\ ScanEnded(t)'
    BY <1>4, <1>11 DEF ListScan
  <1>12. CASE File!StartLookup(t) \/ File!StartDelete(t) \/ File!StartOverwrite(t)
              \/ File!StartBatch(t)
    <2>1. pc'[t] \in {"get", "exists", "unlink", "save", "check"}
      BY <1>1, <1>12, FileSteps DEF File!StartLookup, File!StartDelete, File!StartOverwrite,
         File!StartBatch, File!Loop, Visit, GoTo
    <2>2. QED
      BY <1>11, <2>1
  <1>13. CASE File!Exists(t)
    BY <1>11, <1>13 DEF File!Exists, File!task
  <1>14. CASE File!Resolve(t)
    <2>1. pc[t] = "check"
      BY <1>14 DEF File!Resolve
    <2>2. call[t].op # "iter_batches"
      BY <1>1, <2>1 DEF FilePhase, Conditional
    <2>3. \/ Leave(t, File!KV!KeyError)
          \/ \E phase \in {"get", "save"} : GoTo(t, phase)
      BY <1>14, FileSteps DEF File!Resolve, Visit
    <2>4. QED
      BY <1>1, <1>5, <1>11, <2>2, <2>3, Ways, FileAnswers DEF Leave
  <1>15. CASE File!Loaded(t)
    <2>1. pc[t] = "get"
      BY <1>15 DEF File!Loaded
    <2>2. call[t].op # "iter_batches"
      BY <1>1, <2>1 DEF FilePhase
    <2>3. \/ \E v : End(t, File!KV!Returns(v))
          \/ GoTo(t, "save")
      BY <1>15, FileSteps DEF File!Loaded, Visit
    <2>4. QED
      BY <1>1, <1>5, <1>11, <2>2, <2>3, Ways, FileAnswers
  <1>16. CASE File!Save(t) \/ File!Unlink(t)
    <2>1. /\ pc[t] \in {"save", "unlink"}
          /\ Leave(t, File!Failed) \/ UNCHANGED task
      BY <1>16, FileSteps DEF File!Save, File!Unlink, File!task, task
    <2>2. QED
      BY <1>5, <1>11, <2>1, FileAnswers DEF Leave, task
  <1>17. QED
    BY <1>6, <1>7, <1>8, <1>9, <1>10, <1>12, <1>13, <1>14, <1>15, <1>16 DEF OnFile, File!Step

\* An LMDB store works with the same data, and its calls end in the same ways.
LEMMA LmdbData ==
    /\ \A d : Lmdb!Present(d) = Present(d)
    /\ \A i, f : Lmdb!Conflicts(i, f) = Conflicts(i, f)
    /\ \A i, oc, f : Lmdb!Refuses(i, oc, f) = Refuses(i, oc, f)
    /\ \A i, oc, f, d : Lmdb!ToWrite(i, oc, f, d) = ToWrite(i, oc, f, d)
    /\ \A d, w : Lmdb!Stored(d, w) = Stored(d, w)
    /\ \A r : (Lmdb!Conditional(r) <=> Conditional(r)) /\ (Lmdb!Empty(r) <=> Empty(r))
    /\ \A w : Lmdb!Spoiled(w) <=> Spoiled(w)
    /\ \A s, d, w : Lmdb!Noted(s, d, w) = Noted(s, d, w)
    /\ \A s, K : Lmdb!Yielding(s, K) = Yielding(s, K)
    /\ Lmdb!Nothing = Nothing /\ Lmdb!ScanPhases = ScanPhases /\ Lmdb!EmptyStore = EmptyStore
    /\ Lmdb!KV!WriteOps = KV!WriteOps
  <1>1. \A d : Lmdb!Present(d) = Present(d)
    BY DEF Lmdb!Present, Present
  <1>2. \A i, f : Lmdb!Conflicts(i, f) = Conflicts(i, f)
    BY DEF Lmdb!Conflicts, Conflicts
  <1>3. \A i, oc, f : Lmdb!Refuses(i, oc, f) = Refuses(i, oc, f)
    BY <1>2 DEF Lmdb!Refuses, Refuses
  <1>4. \A i, oc, f, d : Lmdb!ToWrite(i, oc, f, d) = ToWrite(i, oc, f, d)
    BY DEF Lmdb!ToWrite, ToWrite, Lmdb!Merged, Merged, Lmdb!OrEmpty, OrEmpty
  <1>5. \A d, w : Lmdb!Stored(d, w) = Stored(d, w)
    BY DEF Lmdb!Stored, Stored
  <1>6. \A r : (Lmdb!Conditional(r) <=> Conditional(r)) /\ (Lmdb!Empty(r) <=> Empty(r))
    BY DEF Lmdb!Conditional, Conditional, Lmdb!Empty, Empty
  <1>7. \A w : Lmdb!Spoiled(w) <=> Spoiled(w)
    BY DEF Lmdb!Spoiled, Spoiled
  <1>8. \A s, d, w : Lmdb!Noted(s, d, w) = Noted(s, d, w)
    BY DEF Lmdb!Noted, Noted
  <1>9. \A s, K : Lmdb!Yielding(s, K) = Yielding(s, K)
    BY DEF Lmdb!Yielding, Yielding
  <1>10. /\ Lmdb!Nothing = Nothing /\ Lmdb!ScanPhases = ScanPhases /\ Lmdb!EmptyStore = EmptyStore
         /\ Lmdb!KV!WriteOps = KV!WriteOps
    BY DEF Lmdb!Nothing, Nothing, Lmdb!ScanPhases, ScanPhases, Lmdb!EmptyStore, EmptyStore,
       Lmdb!KV!WriteOps, KV!WriteOps
  <1>11. QED
    BY <1>1, <1>2, <1>3, <1>4, <1>5, <1>6, <1>7, <1>8, <1>9, <1>10

LEMMA LmdbAnswers ==
    /\ Lmdb!KV!Ok = KV!Ok /\ Lmdb!KV!Ok # KV!NoAnswer
    /\ Lmdb!KV!KeyError # KV!NoAnswer /\ Lmdb!KV!KeyError # KV!Ok
    /\ Lmdb!Failed # KV!NoAnswer /\ Lmdb!Failed # KV!Ok
    /\ \A v : Lmdb!KV!Returns(v) # KV!NoAnswer /\ Lmdb!KV!Returns(v) # KV!Ok
    /\ \A r, d : Lmdb!KV!Answer(r, d) # KV!NoAnswer
  <1>1. ASSUME NEW v PROVE Lmdb!KV!Returns(v) # KV!NoAnswer /\ Lmdb!KV!Returns(v) # KV!Ok
    <2>1. Lmdb!KV!Returns(v).kind # KV!NoAnswer.kind /\ Lmdb!KV!Returns(v).kind # KV!Ok.kind
      BY DEF Lmdb!KV!Returns, KV!NoAnswer, KV!Ok
    <2>2. QED
      BY <2>1
  <1>2. /\ Lmdb!KV!Ok = KV!Ok /\ Lmdb!KV!Ok # KV!NoAnswer
        /\ Lmdb!KV!KeyError # KV!NoAnswer /\ Lmdb!KV!KeyError # KV!Ok
        /\ Lmdb!Failed # KV!NoAnswer /\ Lmdb!Failed # KV!Ok
    BY DEF Lmdb!KV!Ok, Lmdb!KV!KeyError, Lmdb!Failed, KV!Ok, KV!NoAnswer
  <1>3. \A r, d : Lmdb!KV!Answer(r, d) # KV!NoAnswer
    BY <1>1, <1>2 DEF Lmdb!KV!Answer
  <1>4. QED
    BY <1>1, <1>2, <1>3


LEMMA LmdbSteps ==
    ASSUME NEW t
    PROVE  /\ \A a : Lmdb!End(t, a) <=> End(t, a)
           /\ \A a : Lmdb!Leave(t, a) <=> Leave(t, a)
           /\ \A phase : Lmdb!GoTo(t, phase) <=> GoTo(t, phase)
           /\ \A phase, K : Lmdb!Visit(t, phase, K) <=> Visit(t, phase, K)
           /\ \A k : Lmdb!Visited(t, k) <=> Visited(t, k)
           /\ \A ops : Lmdb!Starts(t, ops) <=> Starts(t, ops)
           /\ \A K : Lmdb!Yields(t, K) <=> Yields(t, K)
           /\ \A d : Lmdb!Scanned(t, d) <=> Scanned(t, d)
           /\ \A w : Lmdb!Apply(w) <=> Apply(w)
           /\ Lmdb!Planned(t) = Planned(t)
  <1>1. \A a : Lmdb!End(t, a) <=> End(t, a)
    BY LmdbData DEF Lmdb!End, End
  <1>2. \A a : Lmdb!Leave(t, a) <=> Leave(t, a)
    BY <1>1 DEF Lmdb!Leave, Leave
  <1>3. \A phase : Lmdb!GoTo(t, phase) <=> GoTo(t, phase)
    BY DEF Lmdb!GoTo, GoTo
  <1>4. \A phase, K : Lmdb!Visit(t, phase, K) <=> Visit(t, phase, K)
    BY <1>3 DEF Lmdb!Visit, Visit
  <1>5. \A k : Lmdb!Visited(t, k) <=> Visited(t, k)
    BY DEF Lmdb!Visited, Visited
  <1>6. \A ops : Lmdb!Starts(t, ops) <=> Starts(t, ops)
    BY LmdbData DEF Lmdb!Starts, Starts
  <1>7. \A K : Lmdb!Yields(t, K) <=> Yields(t, K)
    BY LmdbData DEF Lmdb!Yields, Yields
  <1>8. \A d : Lmdb!Scanned(t, d) <=> Scanned(t, d)
    BY LmdbData DEF Lmdb!Scanned, Scanned
  <1>9. \A w : Lmdb!Apply(w) <=> Apply(w)
    BY LmdbData DEF Lmdb!Apply, Apply
  <1>10. Lmdb!Planned(t) = Planned(t)
    BY LmdbData DEF Lmdb!Planned, Planned
  <1>11. QED
    BY <1>1, <1>2, <1>3, <1>4, <1>5, <1>6, <1>7, <1>8, <1>9, <1>10


\* What a call writes is a batch of its keys.
LEMMA EffectType ==
    ASSUME NEW r \in KV!Request, NEW d \in Contents
    PROVE  KV!Effect(r, d) \in Writes
  <1>1. /\ r.keys \in SUBSET Keys /\ r.items \in Items /\ r.on_conflict \in OnConflict
        /\ Present(d) \in SUBSET Keys
    BY RequestType DEF Present
  <1>2. /\ KV!EmptyStore = EmptyStore
        /\ KV!ToWrite(r.items, r.on_conflict, KV!Present(d), d)
                = ToWrite(r.items, r.on_conflict, Present(d), d)
    BY DEF KV!EmptyStore, EmptyStore, KV!ToWrite, ToWrite, KV!Merged, Merged, KV!OrEmpty, OrEmpty,
       KV!Present, Present
  <1>3. ToWrite(r.items, r.on_conflict, Present(d), d) \in Items
    BY <1>1, ToWriteType
  <1>4. Items \subseteq Writes
    BY ItemsDef
  <1>5. /\ [k \in r.keys |-> Absent] \in Writes
        /\ EmptyStore \in Writes /\ [k \in {} |-> Absent] \in Writes
    <2>1. [k \in r.keys |-> Absent] \in [r.keys -> Slot] /\ EmptyStore \in [Keys -> Slot]
          /\ [k \in {} |-> Absent] \in [{} -> Slot]
      BY AbsentStorable DEF EmptyStore
    <2>2. QED
      BY <1>1, <2>1 DEF Writes
  <1>6. QED
    BY <1>1, <1>2, <1>3, <1>4, <1>5 DEF KV!Effect

LEMMA LmdbEffect ==
    ASSUME NEW r, NEW d PROVE Lmdb!KV!Effect(r, d) = KV!Effect(r, d)
  BY DEF Lmdb!KV!Effect, KV!Effect, Lmdb!KV!ToWrite, KV!ToWrite, Lmdb!KV!Merged, KV!Merged,
     Lmdb!KV!OrEmpty, KV!OrEmpty, Lmdb!KV!Present, KV!Present, Lmdb!KV!EmptyStore, KV!EmptyStore

-----------------------------------------------------------------------------
(* An LMDB store.  What a write transaction has looked up is so until it   *)
(* commits.                                                                *)
LmdbPhase(t) ==
    LET r == call[t] IN
    /\ pc[t] \in {"idle", "start", "list", "txn"}
    /\ want[t] = NoKey
    /\ pc[t] = "list" => r.op \in {"filter", "iter_batches"}
    /\ pc[t] = "txn" =>
        /\ r.op \in KV!WriteOps /\ lock = t
        /\ found[t] = Conflicts(r.items, Present(data)) /\ DOMAIN got[t] = {}

LmdbInv == \A t \in Threads : LmdbPhase(t)

OnLmdb(t) ==
    /\ Shape /\ LmdbInv /\ site.backend = "lmdb"
    /\ Lmdb!Step(t) /\ UNCHANGED connections

LEMMA LmdbFrame ==
    ASSUME NEW t \in Threads, OnLmdb(t)
    PROVE  Quiet(t) /\ UNCHANGED <<site, crashes, connections>>
  <1>1. /\ Shape /\ LmdbPhase(t) /\ data \in Contents
        /\ found[t] \in SUBSET Keys /\ todo[t] \in SUBSET Keys /\ got[t] \in Writes
        /\ found \in [Threads -> SUBSET Keys] /\ todo \in [Threads -> SUBSET Keys]
        /\ got \in [Threads -> Writes] /\ want \in [Threads -> Keys \cup {NoKey}]
        /\ Present(data) \in SUBSET Keys
        /\ Conflicts(call[t].items, Present(data)) \in SUBSET Keys
    BY DEF OnLmdb, LmdbInv, Shape, TypeOK, Contents, Present, Conflicts
  <1>2. UNCHANGED <<site, crashes, connections>>
    BY DEF OnLmdb, Lmdb!Step
  <1>3. Busy(t)
    BY DEF OnLmdb, Lmdb!Step, Lmdb!NothingToDo, Lmdb!Read, Lmdb!StartScan, Lmdb!Starts,
       Lmdb!Batch, Lmdb!Listed, Lmdb!EnterWrite, Lmdb!Abort, Lmdb!Commit, Busy
  <1>4. Ended(t) => Quiet(t)
    BY <1>1, <1>3, QuietWays
  <1>5. CASE Lmdb!NothingToDo(t) \/ Lmdb!Read(t) \/ Lmdb!Listed(t) \/ Lmdb!Abort(t)
             \/ Lmdb!Commit(t)
    BY <1>2, <1>4, <1>5, LmdbSteps, LmdbAnswers
       DEF Lmdb!NothingToDo, Lmdb!Read, Lmdb!Listed, Lmdb!Abort, Lmdb!Commit, Leave, Ended
  <1>6. CASE Lmdb!StartScan(t)
    <2>1. Visit(t, "list", Present(data)) /\ UNCHANGED <<found, got, want>>
      BY <1>6, LmdbData, LmdbSteps DEF Lmdb!StartScan
    <2>2. Moved(t) /\ todo' = [todo EXCEPT ![t] = Present(data)]
      BY <2>1 DEF Visit, Moved
    <2>3. QED
      BY <1>1, <1>2, <1>3, <2>1, <2>2, QuietWays
  <1>7. CASE Lmdb!Batch(t)
    <2> DEFINE batch == Lmdb!Slice(todo[t], 0)
               there == batch \cap Present(data)
               g     == [k \in DOMAIN got[t] \cup there |->
                            IF k \in there THEN data[k] ELSE got[t][k]]
    <2>1. /\ todo' = [todo EXCEPT ![t] = @ \ batch] /\ got' = [got EXCEPT ![t] = g]
          /\ UNCHANGED <<task, found, want>> /\ pc[t] = "list"
      BY <1>7, LmdbData DEF Lmdb!Batch, Lmdb!task, task
    <2>2. g \in Writes
      <3>1. there \subseteq Keys /\ \A k \in there : data[k] \in Slot
        BY <1>1 DEF Contents
      <3> HIDE DEF there
      <3>2. DOMAIN got[t] \in SUBSET Keys /\ \A k \in DOMAIN got[t] : got[t][k] \in Slot
        BY <1>1, ItemsDef
      <3>3. g \in [DOMAIN got[t] \cup there -> Slot] /\ DOMAIN got[t] \cup there \in SUBSET Keys
        BY <3>1, <3>2
      <3>4. QED
        BY <3>3, ItemsDef
    <2> HIDE DEF g, batch
    <2>3. Task(t) /\ pc'[t] = pc[t]
      BY <1>1, <1>3, <2>1, Ways
    <2>4. Reads(t) /\ \A u \in Threads \ {t} : todo'[u] = todo[u]
      BY <1>1, <2>1, <2>2, <2>3 DEF Reads, Rested
    <2>5. QED
      BY <1>2, <1>3, <2>1, <2>3, <2>4 DEF Quiet
  <1>8. CASE Lmdb!EnterWrite(t)
    <2>1. /\ GoTo(t, "txn") /\ UNCHANGED <<got, todo, want>>
          /\ found' = [found EXCEPT ![t] = Conflicts(call[t].items, Present(data))]
      BY <1>8, LmdbData, LmdbSteps DEF Lmdb!EnterWrite
    <2>2. Task(t) /\ pc'[t] = "txn"
      BY <1>1, <1>3, <2>1, Ways
    <2>3. Reads(t) /\ \A u \in Threads \ {t} : todo'[u] = todo[u]
      BY <1>1, <2>1, <2>2 DEF Reads, Rested
    <2>4. QED
      BY <1>2, <1>3, <2>2, <2>3 DEF Quiet
  <1>9. QED
    BY <1>5, <1>6, <1>7, <1>8 DEF OnLmdb, Lmdb!Step

\* What a transaction writes is a batch of values that can be stored.
LEMMA LmdbPuts ==
    ASSUME NEW t \in Threads, OnLmdb(t), Lmdb!Commit(t)
    PROVE  Lmdb!Puts(t) \in Writes /\ ~Spoiled(Lmdb!Puts(t))
  <1>1. /\ call[t] \in KV!Request /\ data \in Contents /\ found[t] \in SUBSET Keys
        /\ call[t].items \in Items /\ call[t].on_conflict \in OnConflict
    <2>1. call[t] \in KV!Request /\ data \in Contents /\ found[t] \in SUBSET Keys
      BY DEF OnLmdb, Shape, TypeOK, Contents
    <2>2. QED
      BY <2>1, RequestType
  <1>2. KV!Effect(call[t], data) \in Writes
    BY <1>1, EffectType
  <1>3. ToWrite(call[t].items, call[t].on_conflict, found[t], data) \in Items
    BY <1>1, ToWriteType
  <1>4. Lmdb!Puts(t) \in Writes
    BY <1>2, <1>3, ItemsDef, LmdbData, LmdbEffect DEF Lmdb!Puts
  <1>5. QED
    BY <1>4, LmdbData DEF Lmdb!Commit

LEMMA LmdbEffects ==
    ASSUME NEW t \in Threads, OnLmdb(t)
    PROVE  Effects(t) /\ Lockwise(t)
  <1>1. Lockwise(t)
    BY LmdbSteps DEF OnLmdb, Lmdb!Step, Lmdb!NothingToDo, Lmdb!Read, Lmdb!StartScan,
       Lmdb!Batch, Lmdb!Listed, Lmdb!EnterWrite, Lmdb!Abort, Lmdb!Commit, Leave, Lockwise
  <1>2. CASE Lmdb!Commit(t)
    <2>1. Apply(Lmdb!Puts(t))
      BY <1>2, LmdbSteps DEF Lmdb!Commit
    <2>2. Lmdb!Puts(t) \in Writes /\ ~Spoiled(Lmdb!Puts(t))
      BY <1>2, LmdbPuts
    <2>3. QED
      BY <1>1, <2>1, <2>2 DEF Effects
  <1>3. CASE Lmdb!StartScan(t)
    BY <1>1, <1>3, LmdbData, LmdbSteps DEF Lmdb!StartScan, Starts, Effects
  <1>4. CASE Lmdb!Batch(t)
    <2>1. UNCHANGED data /\ \E K : Yields(t, K)
      BY <1>4, LmdbSteps DEF Lmdb!Batch
    <2>2. QED
      BY <1>1, <2>1 DEF Effects
  <1>5. CASE ~(Lmdb!Commit(t) \/ Lmdb!StartScan(t) \/ Lmdb!Batch(t))
    <2>1. UNCHANGED <<data, scan>>
      BY <1>5 DEF OnLmdb, Lmdb!Step, Lmdb!NothingToDo, Lmdb!Read, Lmdb!Listed,
         Lmdb!EnterWrite, Lmdb!Abort
    <2>2. QED
      BY <1>1, <2>1 DEF Effects
  <1>6. QED
    BY <1>2, <1>3, <1>4, <1>5

LEMMA LmdbPhaseKept ==
    ASSUME NEW t \in Threads, OnLmdb(t)
    PROVE  LmdbInv'
  <1>1. /\ Shape /\ LmdbInv /\ LmdbPhase(t) /\ Task(t) /\ Reads(t) /\ Lockwise(t) /\ Busy(t)
        /\ call' = call /\ DOMAIN pc = Threads /\ found \in [Threads -> SUBSET Keys]
        /\ got \in [Threads -> Writes] /\ want \in [Threads -> Keys \cup {NoKey}]
        /\ (pc[t] = "start" => DOMAIN got[t] = {})
    BY LmdbFrame, LmdbEffects
       DEF OnLmdb, LmdbInv, Quiet, Task, Shape, TypeOK, ShapeOf, Rested, Nothing
  <1>2. ~Lmdb!Commit(t) => data' = data
    BY DEF OnLmdb, Lmdb!Step, Lmdb!NothingToDo, Lmdb!Read, Lmdb!StartScan, Lmdb!Batch,
       Lmdb!Listed, Lmdb!EnterWrite, Lmdb!Abort
  <1>3. ASSUME NEW u \in Threads \ {t} PROVE LmdbPhase(u)'
    <2>1. /\ pc'[u] = pc[u] /\ call'[u] = call[u] /\ found'[u] = found[u] /\ got'[u] = got[u]
          /\ want'[u] = want[u] /\ (lock = u => lock' = u) /\ LmdbPhase(u)
      BY <1>1, ThreadAssumption DEF Task, Reads, Lockwise, LmdbInv
    <2>2. pc[u] = "txn" => data' = data
      BY <1>1, <1>2, <2>1 DEF LmdbPhase, Lmdb!Commit
    <2>3. QED
      BY <2>1, <2>2 DEF LmdbPhase, Conflicts, Present
  <1>4. LmdbPhase(t)'
    <2>1. ASSUME Ended(t) PROVE LmdbPhase(t)'
      BY <1>1, <2>1 DEF Ended, End, LmdbPhase
    <2>2. CASE Lmdb!NothingToDo(t) \/ Lmdb!Read(t) \/ Lmdb!Listed(t) \/ Lmdb!Abort(t)
               \/ Lmdb!Commit(t)
      BY <2>1, <2>2, LmdbSteps, LmdbAnswers
         DEF Lmdb!NothingToDo, Lmdb!Read, Lmdb!Listed, Lmdb!Abort, Lmdb!Commit, Leave, Ended
    <2>3. CASE Lmdb!StartScan(t)
      <3>1. /\ Visit(t, "list", Present(data)) /\ UNCHANGED want
            /\ call[t].op \in {"filter", "iter_batches"}
        BY <2>3, LmdbData, LmdbSteps DEF Lmdb!StartScan, Starts
      <3>2. QED
        BY <1>1, <3>1 DEF Visit, GoTo, LmdbPhase
    <2>4. CASE Lmdb!Batch(t)
      BY <1>1, <2>4 DEF Lmdb!Batch, Lmdb!task, LmdbPhase
    <2>5. CASE Lmdb!EnterWrite(t)
      <3>1. /\ call[t].op \in KV!WriteOps /\ lock' = t /\ GoTo(t, "txn")
            /\ found' = [found EXCEPT ![t] = Conflicts(call[t].items, Present(data))]
            /\ UNCHANGED <<data, got, want>> /\ pc[t] = "start"
        BY <2>5, LmdbData, LmdbSteps DEF Lmdb!EnterWrite, Starts
      <3>2. QED
        BY <1>1, <3>1 DEF GoTo, LmdbPhase
    <2>6. QED
      BY <2>2, <2>3, <2>4, <2>5 DEF OnLmdb, Lmdb!Step
  <1>5. QED
    BY <1>3, <1>4 DEF LmdbInv

LEMMA LmdbScanKept ==
    ASSUME NEW t \in Threads, OnLmdb(t), \A u \in Threads : ListScan(u) /\ ScanEnded(u)
    PROVE  \A u \in Threads : ListScan(u)' /\ ScanEnded(u)'
  <1>1. /\ Shape /\ LmdbPhase(t) /\ Quiet(t) /\ Effects(t) /\ Busy(t) /\ Task(t)
        /\ UNCHANGED <<site, crashes>> /\ site.backend = "lmdb" /\ call' = call
        /\ data \in Contents /\ scan[t] \in Scans
        /\ ListScan(t) /\ ScanEnded(t)
        /\ todo \in [Threads -> SUBSET Keys] /\ want \in [Threads -> Keys \cup {NoKey}]
        /\ DOMAIN pc = Threads
    BY LmdbFrame, LmdbEffects DEF OnLmdb, LmdbInv, Quiet, Task, Shape, TypeOK, Contents
  <1>2. ASSUME NEW u \in Threads \ {t} PROVE ListScan(u)' /\ ScanEnded(u)'
    BY <1>1, <1>2, ListScanStays
  <1>3. SUFFICES ListScan(t)' /\ ScanEnded(t)'
    BY <1>2
  <1>4. ASSUME pc'[t] # "idle" PROVE ScanEnded(t)'
    <2>1. answer'[t] = KV!NoAnswer /\ KV!Ok # KV!NoAnswer
      BY <1>1, <1>4 DEF Task, KV!Ok, KV!NoAnswer
    <2>2. QED
      BY <2>1 DEF ScanEnded
  <1>5. ASSUME NEW a, a # KV!NoAnswer, End(t, a), call[t].op = "iter_batches" => a # KV!Ok
        PROVE  ListScan(t)' /\ ScanEnded(t)'
    <2>1. pc'[t] = "idle" /\ answer'[t] = a
      BY <1>1, <1>5, Ways
    <2>2. QED
      BY <1>1, <1>5, <2>1 DEF ListScan, ScanEnded
  <1>6. CASE Lmdb!StartScan(t)
    <2>1. /\ pc[t] = "start" /\ Visit(t, "list", Present(data)) /\ Scanned(t, data)
          /\ UNCHANGED <<data, want>>
      BY <1>6, LmdbData, LmdbSteps DEF Lmdb!StartScan, Starts
    <2>2. /\ pc'[t] = "list" /\ todo'[t] = Present(data) /\ want'[t] = NoKey
          /\ NoKey \notin Present(data)
      BY <1>1, <2>1, KeyAssumption DEF Visit, GoTo, LmdbPhase, Present
    <2>3. scan'[t].stable = Present(data) /\ \A k \in Keys : scan'[t].yields[k] = 0
      BY <1>1, <2>1, ScannedFacts
    <2>4. ListScan(t)'
      BY <2>1, <2>2, <2>3 DEF ListScan, Listing
    <2>5. QED
      BY <1>4, <2>2, <2>4
  <1>7. CASE Lmdb!Batch(t)
    <2> DEFINE batch == Lmdb!Slice(todo[t], 0)
               there == batch \cap Present(data)
    <2>1. /\ pc[t] = "list" /\ UNCHANGED <<data, pc, want>> /\ want[t] = NoKey
          /\ todo'[t] = todo[t] \ batch /\ Yields(t, there)
      BY <1>1, <1>7, LmdbData, LmdbSteps DEF Lmdb!Batch, Lmdb!task, LmdbPhase
    <2>2. batch \subseteq todo[t]
      BY DEF Lmdb!Slice
    <2> HIDE DEF batch
    <2>3. scan'[t] = Yielding(scan[t], there)
      BY <1>1, <2>1, YieldsFacts
    <2>4. Listing(scan[t], data, todo[t])
      <3>1. todo[t] \cup ({want[t]} \ {NoKey}) = todo[t]
        BY <2>1
      <3>2. QED
        BY <1>1, <2>1, <3>1 DEF ListScan
    <2>5. Listing(Yielding(scan[t], there), data, todo'[t])
      <3>1. /\ there \subseteq todo[t] /\ todo'[t] \subseteq todo[t] \ there
            /\ todo[t] \cap Present(data) \subseteq there \cup todo'[t]
        BY <2>1, <2>2
      <3> HIDE DEF there
      <3>2. QED
        BY <1>1, <2>4, <3>1, ListingRead
    <2>6. /\ todo'[t] \cup ({want'[t]} \ {NoKey}) = todo'[t] /\ want'[t] \notin todo'[t]
      BY <1>1, <2>1, KeyAssumption
    <2> HIDE DEF there
    <2>7. ListScan(t)'
      BY <2>1, <2>3, <2>5, <2>6 DEF ListScan
    <2>8. QED
      BY <1>4, <2>1, <2>7
  <1>8. CASE Lmdb!Listed(t)
    <2>1. /\ pc[t] = "list" /\ todo[t] = {} /\ want[t] = NoKey /\ UNCHANGED scan
          /\ \/ call[t].op # "iter_batches" /\ \E v : End(t, Lmdb!KV!Returns(v))
             \/ End(t, KV!Ok)
      BY <1>1, <1>8, LmdbSteps, LmdbAnswers DEF Lmdb!Listed, LmdbPhase
    <2>2. ListingDone(scan[t])
      <3>1. todo[t] \cup ({want[t]} \ {NoKey}) = {}
        BY <2>1
      <3>2. Listing(scan[t], data, {})
        BY <1>1, <2>1, <3>1 DEF ListScan
      <3>3. QED
        BY <1>1, <3>2, ListingEnds
    <2>3. pc'[t] = "idle"
      BY <1>1, <2>1, Ways, LmdbAnswers
    <2>4. QED
      BY <1>1, <2>1, <2>2, <2>3 DEF ListScan, ScanEnded, ListingDone
  <1>9. CASE Lmdb!NothingToDo(t) \/ Lmdb!Read(t) \/ Lmdb!Abort(t) \/ Lmdb!Commit(t)
    <2>1. call[t].op # "iter_batches"
      BY <1>1, <1>9, LmdbData, LmdbSteps
         DEF Lmdb!NothingToDo, Lmdb!Read, Lmdb!Abort, Lmdb!Commit, LmdbPhase, Empty, Starts,
             KV!WriteOps
    <2>2. QED
      BY <1>5, <1>9, <2>1, LmdbSteps, LmdbAnswers
         DEF Lmdb!NothingToDo, Lmdb!Read, Lmdb!Abort, Lmdb!Commit, Leave
  <1>10. CASE Lmdb!EnterWrite(t)
    <2>1. pc'[t] = "txn"
      BY <1>1, <1>10, LmdbSteps DEF Lmdb!EnterWrite, GoTo
    <2>2. QED
      BY <1>4, <2>1 DEF ListScan
  <1>11. QED
    BY <1>6, <1>7, <1>8, <1>9, <1>10 DEF OnLmdb, Lmdb!Step

-----------------------------------------------------------------------------
(* A scan by OFFSET pages of the rows d.                                   *)
PageScan(t, d) == pc[t] = "page" => Pages(scan[t], d)

\* What OFFSET pages owe their caller.
PagesDone(s) ==
    \A k \in Keys : /\ s.yields[k] = 0 /\ k \in s.stable => \E i \in s.gone : i < k
                    /\ s.yields[k] = 2 => \E i \in s.added : i < k

LEMMA PageFacts ==
    ASSUME Shape, NEW t \in Threads, pc[t] = "page", NEW d \in Contents,
           PageScan(t, d), Page(t, d)
    PROVE  /\ scan' \in [Threads -> Scans]
           /\ \A u \in Threads \ {t} : scan'[u] = scan[u]
           /\ scan'[t].offset <= Cardinality(Keys) + BatchSize
           /\ \/ End(t, KV!Ok) /\ PagesDone(scan'[t])
              \/ /\ UNCHANGED <<task, reads>>
                 /\ scan'[t].offset <= Cardinality(Keys) /\ Pages(scan'[t], d)
  <1> DEFINE s    == scan[t]
             rows == Slice(Present(d), s.offset)
             n    == [Yielding(s, rows) EXCEPT !.offset = @ + BatchSize]
  <1>1. scan \in [Threads -> Scans] /\ s \in Scans /\ s.offset \in Nat
        /\ s.offset <= Cardinality(Keys) /\ Pages(s, d)
        /\ Cardinality(Keys) \in Nat /\ BatchSize \in Nat
    BY KeyAssumption, BoundAssumption, FS_CardinalityType
       DEF Shape, ShapeOf, Scans, PageScan
  <1>2. /\ n \in Scans /\ n.offset = s.offset + BatchSize /\ Pages(n, d)
        /\ Cardinality(rows) < BatchSize =>
                \A k \in Keys : n.yields[k] = 0 /\ k \in n.stable => \E i \in n.gone : i < k
        /\ ~(Cardinality(rows) < BatchSize) => n.offset <= Cardinality(Keys)
    BY <1>1, PagesRead
  <1>3. /\ scan' = [scan EXCEPT ![t] = n]
        /\ Cardinality(rows) < BatchSize => End(t, KV!Ok)
        /\ ~(Cardinality(rows) < BatchSize) => UNCHANGED <<task, reads>>
    <2>1. scan' = [scan EXCEPT ![t] = n]
      BY DEF Page
    <2>2. IF Cardinality(rows) < BatchSize THEN End(t, KV!Ok) ELSE UNCHANGED <<task, reads>>
      BY DEF Page
    <2>3. QED
      BY <2>1, <2>2
  <1> HIDE DEF n, rows
  <1>4. scan' \in [Threads -> Scans] /\ scan'[t] = n /\ \A u \in Threads \ {t} : scan'[u] = scan[u]
    BY <1>1, <1>2, <1>3
  <1>5. n.offset <= Cardinality(Keys) + BatchSize
    BY <1>1, <1>2
  <1>6. Cardinality(rows) < BatchSize => PagesDone(n)
    BY <1>2 DEF PagesDone, Pages
  <1>7. QED
    BY <1>2, <1>3, <1>4, <1>5, <1>6

\* A DuckDB store works with the same data, and its calls end in the same ways.
LEMMA DuckData ==
    /\ \A d : Duck!Present(d) = Present(d)
    /\ \A i, f : Duck!Conflicts(i, f) = Conflicts(i, f)
    /\ \A i, oc, f : Duck!Refuses(i, oc, f) = Refuses(i, oc, f)
    /\ \A i, oc, f, d : Duck!ToWrite(i, oc, f, d) = ToWrite(i, oc, f, d)
    /\ \A d, w : Duck!Stored(d, w) = Stored(d, w)
    /\ \A r : (Duck!Conditional(r) <=> Conditional(r)) /\ (Duck!Empty(r) <=> Empty(r))
    /\ \A w : Duck!Spoiled(w) <=> Spoiled(w)
    /\ \A s, d, w : Duck!Noted(s, d, w) = Noted(s, d, w)
    /\ \A s, K : Duck!Yielding(s, K) = Yielding(s, K)
    /\ Duck!Nothing = Nothing /\ Duck!ScanPhases = ScanPhases /\ Duck!EmptyStore = EmptyStore
    /\ Duck!KV!WriteOps = KV!WriteOps
  <1>1. \A d : Duck!Present(d) = Present(d)
    BY DEF Duck!Present, Present
  <1>2. \A i, f : Duck!Conflicts(i, f) = Conflicts(i, f)
    BY DEF Duck!Conflicts, Conflicts
  <1>3. \A i, oc, f : Duck!Refuses(i, oc, f) = Refuses(i, oc, f)
    BY <1>2 DEF Duck!Refuses, Refuses
  <1>4. \A i, oc, f, d : Duck!ToWrite(i, oc, f, d) = ToWrite(i, oc, f, d)
    BY DEF Duck!ToWrite, ToWrite, Duck!Merged, Merged, Duck!OrEmpty, OrEmpty
  <1>5. \A d, w : Duck!Stored(d, w) = Stored(d, w)
    BY DEF Duck!Stored, Stored
  <1>6. \A r : (Duck!Conditional(r) <=> Conditional(r)) /\ (Duck!Empty(r) <=> Empty(r))
    BY DEF Duck!Conditional, Conditional, Duck!Empty, Empty
  <1>7. \A w : Duck!Spoiled(w) <=> Spoiled(w)
    BY DEF Duck!Spoiled, Spoiled
  <1>8. \A s, d, w : Duck!Noted(s, d, w) = Noted(s, d, w)
    BY DEF Duck!Noted, Noted
  <1>9. \A s, K : Duck!Yielding(s, K) = Yielding(s, K)
    BY DEF Duck!Yielding, Yielding
  <1>10. /\ Duck!Nothing = Nothing /\ Duck!ScanPhases = ScanPhases /\ Duck!EmptyStore = EmptyStore
         /\ Duck!KV!WriteOps = KV!WriteOps
    BY DEF Duck!Nothing, Nothing, Duck!ScanPhases, ScanPhases, Duck!EmptyStore, EmptyStore,
       Duck!KV!WriteOps, KV!WriteOps
  <1>11. QED
    BY <1>1, <1>2, <1>3, <1>4, <1>5, <1>6, <1>7, <1>8, <1>9, <1>10

LEMMA DuckAnswers ==
    /\ Duck!KV!Ok = KV!Ok /\ Duck!KV!Ok # KV!NoAnswer
    /\ Duck!KV!KeyError # KV!NoAnswer /\ Duck!KV!KeyError # KV!Ok
    /\ Duck!Failed # KV!NoAnswer /\ Duck!Failed # KV!Ok
    /\ \A v : Duck!KV!Returns(v) # KV!NoAnswer /\ Duck!KV!Returns(v) # KV!Ok
    /\ \A r, d : Duck!KV!Answer(r, d) # KV!NoAnswer
  <1>1. ASSUME NEW v PROVE Duck!KV!Returns(v) # KV!NoAnswer /\ Duck!KV!Returns(v) # KV!Ok
    <2>1. Duck!KV!Returns(v).kind # KV!NoAnswer.kind /\ Duck!KV!Returns(v).kind # KV!Ok.kind
      BY DEF Duck!KV!Returns, KV!NoAnswer, KV!Ok
    <2>2. QED
      BY <2>1
  <1>2. /\ Duck!KV!Ok = KV!Ok /\ Duck!KV!Ok # KV!NoAnswer
        /\ Duck!KV!KeyError # KV!NoAnswer /\ Duck!KV!KeyError # KV!Ok
        /\ Duck!Failed # KV!NoAnswer /\ Duck!Failed # KV!Ok
    BY DEF Duck!KV!Ok, Duck!KV!KeyError, Duck!Failed, KV!Ok, KV!NoAnswer
  <1>3. \A r, d : Duck!KV!Answer(r, d) # KV!NoAnswer
    BY <1>1, <1>2 DEF Duck!KV!Answer
  <1>4. QED
    BY <1>1, <1>2, <1>3


LEMMA DuckSteps ==
    ASSUME NEW t
    PROVE  /\ \A a : Duck!End(t, a) <=> End(t, a)
           /\ \A a : Duck!Leave(t, a) <=> Leave(t, a)
           /\ \A phase : Duck!GoTo(t, phase) <=> GoTo(t, phase)
           /\ \A phase, K : Duck!Visit(t, phase, K) <=> Visit(t, phase, K)
           /\ \A k : Duck!Visited(t, k) <=> Visited(t, k)
           /\ \A ops : Duck!Starts(t, ops) <=> Starts(t, ops)
           /\ \A K : Duck!Yields(t, K) <=> Yields(t, K)
           /\ \A d : Duck!Scanned(t, d) <=> Scanned(t, d)
           /\ \A w : Duck!Apply(w) <=> Apply(w)
           /\ Duck!Planned(t) = Planned(t)
  <1>1. \A a : Duck!End(t, a) <=> End(t, a)
    BY DuckData DEF Duck!End, End
  <1>2. \A a : Duck!Leave(t, a) <=> Leave(t, a)
    BY <1>1 DEF Duck!Leave, Leave
  <1>3. \A phase : Duck!GoTo(t, phase) <=> GoTo(t, phase)
    BY DEF Duck!GoTo, GoTo
  <1>4. \A phase, K : Duck!Visit(t, phase, K) <=> Visit(t, phase, K)
    BY <1>3 DEF Duck!Visit, Visit
  <1>5. \A k : Duck!Visited(t, k) <=> Visited(t, k)
    BY DEF Duck!Visited, Visited
  <1>6. \A ops : Duck!Starts(t, ops) <=> Starts(t, ops)
    BY DuckData DEF Duck!Starts, Starts
  <1>7. \A K : Duck!Yields(t, K) <=> Yields(t, K)
    BY DuckData DEF Duck!Yields, Yields
  <1>8. \A d : Duck!Scanned(t, d) <=> Scanned(t, d)
    BY DuckData DEF Duck!Scanned, Scanned
  <1>9. \A w : Duck!Apply(w) <=> Apply(w)
    BY DuckData DEF Duck!Apply, Apply
  <1>10. Duck!Planned(t) = Planned(t)
    BY DuckData DEF Duck!Planned, Planned
  <1>11. QED
    BY <1>1, <1>2, <1>3, <1>4, <1>5, <1>6, <1>7, <1>8, <1>9, <1>10


LEMMA DuckPage ==
    ASSUME NEW t, NEW d PROVE Duck!Page(t, d) <=> Page(t, d)
  <1>1. \A S : Duck!Cardinality(S) = Cardinality(S)
    BY DEF Duck!Cardinality, Cardinality, Duck!IsFiniteSet, IsFiniteSet
  <1>2. \A K, from : Duck!Slice(K, from) = Slice(K, from)
    BY <1>1 DEF Duck!Slice, Slice
  <1>3. QED
    BY <1>1, <1>2, DuckData, DuckSteps, DuckAnswers DEF Duck!Page, Page, Duck!task, task,
       Duck!reads, reads

LEMMA DuckEffect ==
    ASSUME NEW r, NEW d PROVE Duck!KV!Effect(r, d) = KV!Effect(r, d)
  BY DEF Duck!KV!Effect, KV!Effect, Duck!KV!ToWrite, KV!ToWrite, Duck!KV!Merged, KV!Merged,
     Duck!KV!OrEmpty, KV!OrEmpty, Duck!KV!Present, KV!Present, Duck!KV!EmptyStore, KV!EmptyStore

-----------------------------------------------------------------------------
(* A DuckDB store.  A batch is in the lock from its check to its last row, *)
(* and what it has read of the rows it has still to write is so.           *)
DuckPhase(t) ==
    LET r == call[t] IN
    /\ pc[t] \in {"idle", "start", "page", "check", "rows"}
    /\ want[t] = NoKey
    /\ pc[t] = "page" => r.op = "iter_batches"
    /\ pc[t] \in {"check", "rows"} => r.op = "set_many" /\ lock = t
    /\ pc[t] = "check" => Conditional(r) /\ DOMAIN got[t] = {}
    /\ pc[t] = "rows" =>
        /\ todo[t] \subseteq DOMAIN Planned(t)
        /\ Conditional(r) =>
            \A k \in todo[t] : /\ k \in found[t] <=> data[k] # Absent
                               /\ k \in DOMAIN got[t] => got[t][k] = data[k]

DuckInv == \A t \in Threads : DuckPhase(t) /\ PageScan(t, data)

OnDuck(t) ==
    /\ Shape /\ DuckInv /\ site.backend = "duckdb"
    /\ Duck!Step(t) /\ UNCHANGED connections

\* The steps that stay out of the pages of a scan.
LEMMA DuckQuiet ==
    ASSUME NEW t \in Threads, OnDuck(t), ~Duck!StartScan(t), ~Duck!NextPage(t)
    PROVE  Quiet(t) /\ Effects(t)
  <1>1. /\ Shape /\ DuckPhase(t) /\ data \in Contents
        /\ found[t] \in SUBSET Keys /\ todo[t] \in SUBSET Keys /\ got[t] \in Writes
        /\ found \in [Threads -> SUBSET Keys] /\ todo \in [Threads -> SUBSET Keys]
        /\ got \in [Threads -> Writes] /\ want \in [Threads -> Keys \cup {NoKey}]
        /\ call[t] \in KV!Request /\ DOMAIN call[t].items \in SUBSET Keys
        /\ call[t].items \in Items /\ call[t].on_conflict \in OnConflict
    <2>1. call[t] \in KV!Request
      BY DEF OnDuck, Shape, TypeOK
    <2>2. QED
      BY <2>1, RequestType DEF OnDuck, DuckInv, Shape, TypeOK, Contents
  <1>2. Busy(t)
    BY DEF OnDuck, Duck!Step, Duck!NothingToDo, Duck!Read, Duck!Starts, Duck!Delete,
       Duck!Overwrite, Duck!EnterBatch, Duck!Resolve, Duck!RefuseBatch, Duck!WriteRow,
       Duck!Written, Busy
  <1>3. Ended(t) => Quiet(t)
    BY <1>1, <1>2, QuietWays
  <1>4. CASE Duck!NothingToDo(t) \/ Duck!Read(t) \/ Duck!RefuseBatch(t) \/ Duck!Written(t)
    <2>1. Ended(t) /\ UNCHANGED <<data, scan>>
      BY <1>4, DuckSteps, DuckAnswers
         DEF Duck!NothingToDo, Duck!Read, Duck!RefuseBatch, Duck!Written, Leave, Ended
    <2>2. QED
      BY <1>3, <2>1 DEF Effects
  <1>5. CASE Duck!Delete(t)
    <2>1. /\ Ended(t) /\ Apply(KV!Effect(call[t], data))
          /\ call[t].op \in {"delete", "delete_many", "clear"}
      BY <1>5, DuckSteps, DuckAnswers, DuckEffect DEF Duck!Delete, Starts, Ended
    <2>2. KV!Effect(call[t], data) \in Writes
      BY <1>1, EffectType
    <2>3. ~Spoiled(KV!Effect(call[t], data))
      <3>1. \/ KV!Effect(call[t], data) = [k \in call[t].keys |-> Absent]
            \/ KV!Effect(call[t], data) = [k \in Keys |-> Absent]
        BY <2>1 DEF KV!Effect, KV!EmptyStore
      <3>2. QED
        BY <3>1, AbsentStorable DEF Spoiled
    <2>4. QED
      BY <1>3, <2>1, <2>2, <2>3 DEF Effects
  <1>6. CASE Duck!Overwrite(t)
    <2>1. /\ Visit(t, "rows", DOMAIN call[t].items) /\ UNCHANGED <<found, got, want>>
          /\ UNCHANGED <<data, scan>>
      BY <1>6, DuckSteps DEF Duck!Overwrite
    <2>2. Moved(t) /\ todo' = [todo EXCEPT ![t] = DOMAIN call[t].items]
      BY <2>1 DEF Visit, Moved
    <2>3. QED
      BY <1>1, <1>2, <2>1, <2>2, QuietWays DEF Effects
  <1>7. CASE Duck!EnterBatch(t)
    <2>1. GoTo(t, "check") /\ UNCHANGED <<found, got, todo, want, data, scan>>
      BY <1>7, DuckSteps DEF Duck!EnterBatch, Duck!reads
    <2>2. Moved(t) /\ todo' = [todo EXCEPT ![t] = todo[t]]
      BY <1>1, <2>1 DEF Moved
    <2>3. QED
      BY <1>1, <1>2, <2>1, <2>2, QuietWays DEF Effects
  <1>8. CASE Duck!Resolve(t)
    <2>1. CASE Leave(t, Duck!KV!KeyError)
      BY <1>3, <1>8, <2>1, DuckAnswers DEF Duck!Resolve, Leave, Ended, Effects
    <2>2. CASE ~Leave(t, Duck!KV!KeyError)
      <3> DEFINE hit == Conflicts(call[t].items, Present(data))
                 g   == [k \in hit |-> data[k]]
                 K   == DOMAIN ToWrite(call[t].items, call[t].on_conflict, hit, data)
      <3>1. /\ found' = [found EXCEPT ![t] = hit] /\ got' = [got EXCEPT ![t] = g]
            /\ Visit(t, "rows", K) /\ UNCHANGED <<want, data, scan>>
        BY <1>8, <2>2, DuckData, DuckSteps DEF Duck!Resolve
      <3>2. hit \in SUBSET Keys
        BY <1>1 DEF Conflicts
      <3>3. g \in Writes
        <4>1. g \in [hit -> Slot]
          BY <1>1, <3>2 DEF Contents
        <4>2. QED
          BY <3>2, <4>1, ItemsDef
      <3>4. K \in SUBSET Keys
        BY <1>1, <3>2, ToWriteType
      <3> HIDE DEF hit, g, K
      <3>5. Moved(t) /\ todo' = [todo EXCEPT ![t] = K]
        BY <3>1 DEF Visit, Moved
      <3>6. want' = [want EXCEPT ![t] = want[t]] /\ want[t] \in Keys \cup {NoKey}
        BY <1>1, <3>1
      <3>7. QED
        BY <1>1, <1>2, <3>1, <3>2, <3>3, <3>4, <3>5, <3>6, QuietWays DEF Effects
    <2>3. QED
      BY <2>1, <2>2
  <1>9. CASE Duck!WriteRow(t)
    <2>1. CASE Leave(t, Duck!Failed) /\ UNCHANGED <<data, scan>>
      BY <1>3, <2>1, DuckAnswers DEF Leave, Ended, Effects
    <2>2. CASE ~(Leave(t, Duck!Failed) /\ UNCHANGED <<data, scan>>)
      <3>1. PICK k \in todo[t] :
                /\ pc[t] = "rows" /\ Planned(t)[k] \notin Unstorable
                /\ Apply([i \in {k} |-> Planned(t)[k]]) /\ Visited(t, k)
                /\ UNCHANGED <<task, found, got, want>>
        BY <1>9, <2>2, DuckSteps DEF Duck!WriteRow, Duck!task, task
      <3>2. k \in Keys /\ Planned(t)[k] \in Slot
        BY <1>1, <3>1, PlannedType DEF DuckPhase, Slot
      <3>3. Effects(t)
        BY <3>1, <3>2, OneWrite DEF Effects
      <3>4. todo' = [todo EXCEPT ![t] = todo[t] \ {k}]
        BY <3>1 DEF Visited
      <3>5. QED
        BY <1>1, <1>2, <3>1, <3>3, <3>4, QuietWays
    <2>3. QED
      BY <2>1, <2>2
  <1>10. QED
    BY <1>4, <1>5, <1>6, <1>7, <1>8, <1>9 DEF OnDuck, Duck!Step

\* What a step does to a scan of u, to the rows d it goes through, which are e
\* afterwards, and to those ahead of it: all stay, or writes are noticed.
NoticedBy(u, d, e) ==
    \/ e = d /\ scan'[u] = scan[u] /\ todo'[u] = todo[u]
    \/ \E w \in Writes :
        /\ e = Stored(d, w)
        /\ scan'[u] = IF pc[u] \in ScanPhases THEN Noted(scan[u], d, w) ELSE scan[u]
        /\ todo[u] \subseteq todo'[u]
        /\ todo'[u] \subseteq todo[u] \cup {k \in DOMAIN w : w[k] # Absent}

\* Scans by pages of the others go on as they should.
LEMMA PageScanStays ==
    ASSUME Shape, NEW t \in Threads, Task(t), UNCHANGED site, NEW u \in Threads \ {t},
           NEW d \in Contents, NEW e, NoticedBy(u, d, e), PageScan(u, d), ScanEnded(u)
    PROVE  /\ pc'[u] = "page" => Pages(scan'[u], e)
           /\ ScanEnded(u)'
  <1>1. pc'[u] = pc[u] /\ scan[u] \in Scans
    BY DEF Task, Shape
  <1>2. pc[u] \notin ScanPhases => scan'[u] = scan[u]
    BY DEF NoticedBy
  <1>3. ScanEnded(u)'
    BY <1>2, ScanEndedStays
  <1>4. pc'[u] = "page" => Pages(scan'[u], e)
    BY <1>1, PagesNoted DEF NoticedBy, PageScan, ScanPhases
  <1>5. QED
    BY <1>3, <1>4

\* A step that leaves the locals alone.
LEMMA Unread ==
    ASSUME Shape, NEW t \in Threads, UNCHANGED reads, pc'[t] \notin {"idle", "start"}
    PROVE  Reads(t) /\ \A u \in Threads \ {t} : todo'[u] = todo[u]
  BY DEF reads, Reads, Rested, Shape, TypeOK

\* The calls of the other backends are made in threads.
LEMMA ConnSync ==
    ASSUME Shape, site.backend # "sqlite", NEW t \in Threads
    PROVE  Conn(t) = "sync"
  BY DeploymentAssumption DEF Shape, TypeOK, Conn

LEMMA DuckFrame ==
    ASSUME NEW t \in Threads, OnDuck(t)
    PROVE  /\ Task(t) /\ Reads(t) /\ Lockwise(t) /\ Busy(t) /\ Shape'
           /\ \A u \in Threads \ {t} : todo'[u] = todo[u]
           /\ \A u \in Threads \ {t} : NoticedBy(u, data, data')
           /\ UNCHANGED <<site, crashes, connections>>
  <1>1. /\ Shape /\ DuckPhase(t) /\ PageScan(t, data) /\ data \in Contents /\ data \in [Keys -> Slot \ Unstorable]
        /\ scan \in [Threads -> Scans] /\ lock \in Threads \cup {NoThread}
        /\ UNCHANGED <<site, crashes, connections>>
    BY DEF OnDuck, Duck!Step, DuckInv, Shape, TypeOK, Contents
  <1>2. Lockwise(t)
    BY DuckSteps DEF OnDuck, Duck!Step, Duck!NothingToDo, Duck!Read, Duck!StartScan,
       Duck!NextPage, Duck!Delete, Duck!Overwrite, Duck!EnterBatch, Duck!Resolve,
       Duck!RefuseBatch, Duck!WriteRow, Duck!Written, Leave, Lockwise
  <1>3. /\ awrite' \in Threads \cup {NoThread} /\ work' \in [Conns -> Writes]
        /\ txn' \in [Conns -> TxnStates] /\ failed' \in [Conns -> BOOLEAN]
        /\ \A c \in Conns : ~Spoiled(work'[c])
        /\ UNCHANGED <<work, txn>> /\ lock' \in Threads \cup {NoThread}
        /\ Cardinality(Keys) \in Nat /\ BatchSize \in Nat
    BY <1>1, <1>2, KeyAssumption, BoundAssumption, FS_CardinalityType
       DEF Shape, TypeOK, connections, Lockwise
  <1>4. CASE ~Duck!StartScan(t) /\ ~Duck!NextPage(t)
    <2>1. Quiet(t) /\ Effects(t)
      BY <1>4, DuckQuiet
    <2>2. Shape'
      BY <1>1, <1>2, <2>1, EffectsKept
    <2>3. ASSUME NEW u \in Threads \ {t} PROVE NoticedBy(u, data, data')
      <3>1. todo'[u] = todo[u]
        BY <2>1 DEF Quiet
      <3>2. QED
        BY <1>1, <2>1, <3>1, ApplyFacts, ScannedFacts, YieldsFacts DEF Effects, NoticedBy
    <2>4. QED
      BY <1>1, <1>2, <2>1, <2>2, <2>3 DEF Quiet
  <1>5. CASE Duck!StartScan(t)
    <2>1. pc[t] = "start" /\ GoTo(t, "page") /\ Scanned(t, data) /\ UNCHANGED <<data, lock, reads>>
      BY <1>5, DuckSteps DEF Duck!StartScan, Starts, Duck!reads, reads
    <2>2. Busy(t) /\ Task(t) /\ pc'[t] = "page"
      BY <1>1, <2>1, Ways DEF Busy
    <2>3. Reads(t) /\ \A u \in Threads \ {t} : todo'[u] = todo[u]
      BY <1>1, <2>1, <2>2, Unread
    <2>4. /\ scan' \in [Threads -> Scans] /\ scan'[t].offset = 0
          /\ \A u \in Threads \ {t} : scan'[u] = scan[u]
      BY <1>1, <2>1, ScannedFacts
    <2>5. Shape'
      BY <1>1, <1>3, <2>1, <2>2, <2>3, <2>4, ShapeKept
    <2>6. QED
      BY <1>1, <1>2, <2>1, <2>2, <2>3, <2>4, <2>5 DEF NoticedBy
  <1>6. CASE Duck!NextPage(t)
    <2>1. pc[t] = "page" /\ Page(t, data) /\ UNCHANGED <<data, lock>>
      BY <1>6, DuckPage DEF Duck!NextPage
    <2>2. Busy(t) /\ pc[t] \notin {"idle", "start"}
      BY <2>1 DEF Busy
    <2>3. /\ scan' \in [Threads -> Scans] /\ scan'[t].offset <= Cardinality(Keys) + BatchSize
          /\ \A u \in Threads \ {t} : scan'[u] = scan[u]
          /\ \/ End(t, KV!Ok)
             \/ UNCHANGED <<task, reads>> /\ scan'[t].offset <= Cardinality(Keys)
      BY <1>1, <2>1, PageFacts
    <2>4. /\ Task(t) /\ Reads(t) /\ \A u \in Threads \ {t} : todo'[u] = todo[u]
          /\ pc'[t] # "start" /\ (pc'[t] = "page" => scan'[t].offset <= Cardinality(Keys))
      <3>1. CASE End(t, KV!Ok)
        <4>1. KV!Ok # KV!NoAnswer
          BY DEF KV!Ok, KV!NoAnswer
        <4>2. QED
          BY <1>1, <2>2, <3>1, <4>1, Ways
      <3>2. CASE UNCHANGED <<task, reads>> /\ scan'[t].offset <= Cardinality(Keys)
        <4>1. Task(t) /\ pc'[t] = pc[t]
          BY <1>1, <2>2, <3>2, Ways
        <4>2. QED
          BY <1>1, <2>2, <3>2, <4>1, Unread
      <3>3. QED
        BY <2>3, <3>1, <3>2
    <2>5. Shape'
      BY <1>1, <1>3, <2>1, <2>2, <2>3, <2>4, ShapeKept
    <2>6. QED
      BY <1>1, <1>2, <2>1, <2>2, <2>3, <2>4, <2>5 DEF NoticedBy
  <1>7. QED
    BY <1>4, <1>5, <1>6

LEMMA DuckPhaseKept ==
    ASSUME NEW t \in Threads, OnDuck(t)
    PROVE  \A u \in Threads : DuckPhase(u)'
  <1>1. /\ Shape /\ DuckPhase(t) /\ Task(t) /\ Reads(t) /\ Lockwise(t) /\ Busy(t)
        /\ \A u \in Threads \ {t} : todo'[u] = todo[u]
        /\ call' = call /\ DOMAIN pc = Threads /\ data \in Contents
        /\ found \in [Threads -> SUBSET Keys] /\ todo \in [Threads -> SUBSET Keys]
        /\ got \in [Threads -> Writes] /\ want \in [Threads -> Keys \cup {NoKey}]
        /\ (pc[t] = "start" => DOMAIN got[t] = {})
    BY DuckFrame DEF OnDuck, DuckInv, Task, Shape, TypeOK, ShapeOf, Rested, Nothing, Contents
  <1>2. data' # data => lock = NoThread \/ lock = t
    BY <1>1 DEF OnDuck, Duck!Step, Duck!NothingToDo, Duck!Read, Duck!StartScan,
       Duck!NextPage, Duck!Delete, Duck!Overwrite, Duck!EnterBatch, Duck!Resolve,
       Duck!RefuseBatch, Duck!WriteRow, Duck!Written, DuckPhase
  <1>3. ASSUME NEW u \in Threads \ {t} PROVE DuckPhase(u)'
    <2>1. /\ pc'[u] = pc[u] /\ call'[u] = call[u] /\ found'[u] = found[u] /\ got'[u] = got[u]
          /\ want'[u] = want[u] /\ todo'[u] = todo[u] /\ (lock = u => lock' = u) /\ DuckPhase(u)
      BY <1>1, ThreadAssumption DEF Task, Reads, Lockwise, OnDuck, DuckInv
    <2>2. Planned(u)' = Planned(u) /\ (Conditional(call[u])' <=> Conditional(call[u]))
      BY <2>1, PlannedStays
    <2>3. pc[u] = "rows" => data' = data
      BY <1>2, <2>1, ThreadAssumption DEF DuckPhase
    <2>4. QED
      BY <2>1, <2>2, <2>3 DEF DuckPhase, Conditional
  <1>4. DuckPhase(t)'
    <2>1. ASSUME Ended(t) PROVE DuckPhase(t)'
      BY <1>1, <2>1 DEF Ended, End, DuckPhase
    <2>2. CASE Duck!NothingToDo(t) \/ Duck!Read(t) \/ Duck!Delete(t) \/ Duck!RefuseBatch(t)
               \/ Duck!Written(t)
      BY <2>1, <2>2, DuckSteps, DuckAnswers
         DEF Duck!NothingToDo, Duck!Read, Duck!Delete, Duck!RefuseBatch, Duck!Written, Leave,
             Ended
    <2>3. CASE Duck!StartScan(t)
      <3>1. GoTo(t, "page") /\ UNCHANGED want /\ call[t].op = "iter_batches"
        BY <2>3, DuckSteps DEF Duck!StartScan, Duck!reads, Starts
      <3>2. QED
        BY <1>1, <3>1 DEF GoTo, DuckPhase
    <2>4. CASE Duck!NextPage(t)
      <3>1. pc[t] = "page" /\ (End(t, KV!Ok) \/ UNCHANGED <<task, reads>>)
        BY <2>4, DuckPage DEF Duck!NextPage, Page
      <3>2. CASE End(t, KV!Ok)
        <4>1. KV!Ok # KV!NoAnswer
          BY DEF KV!Ok, KV!NoAnswer
        <4>2. QED
          BY <2>1, <3>2, <4>1 DEF Ended
      <3>3. CASE UNCHANGED <<task, reads>>
        BY <1>1, <3>1, <3>3 DEF task, reads, DuckPhase
      <3>4. QED
        BY <3>1, <3>2, <3>3
    <2>5. CASE Duck!Overwrite(t)
      <3>1. /\ call[t].op = "set_many" /\ ~Conditional(call[t]) /\ lock' = t
            /\ Visit(t, "rows", DOMAIN call[t].items) /\ UNCHANGED <<found, got, want>>
        BY <2>5, DuckData, DuckSteps DEF Duck!Overwrite, Starts
      <3>2. Planned(t)' = Planned(t) /\ Planned(t) = call[t].items
        BY <1>1, <3>1, PlannedStays, PlannedType
      <3>3. pc'[t] = "rows" /\ todo'[t] = DOMAIN call[t].items
        BY <1>1, <3>1 DEF Visit, GoTo
      <3>4. QED
        BY <1>1, <3>1, <3>2, <3>3 DEF DuckPhase, Conditional
    <2>6. CASE Duck!EnterBatch(t)
      <3>1. /\ call[t].op = "set_many" /\ Conditional(call[t]) /\ lock' = t /\ pc[t] = "start"
            /\ GoTo(t, "check") /\ UNCHANGED <<found, got, todo, want>>
        BY <2>6, DuckData, DuckSteps DEF Duck!EnterBatch, Duck!reads, Starts
      <3>2. QED
        BY <1>1, <3>1 DEF GoTo, DuckPhase, Conditional
    <2>7. CASE Duck!Resolve(t)
      <3>1. CASE Leave(t, Duck!KV!KeyError)
        BY <2>1, <3>1, DuckAnswers DEF Leave, Ended
      <3>2. CASE ~Leave(t, Duck!KV!KeyError)
        <4> DEFINE r   == call[t]
                   hit == Conflicts(r.items, Present(data))
                   g   == [k \in hit |-> data[k]]
        <4>1. /\ found' = [found EXCEPT ![t] = hit] /\ got' = [got EXCEPT ![t] = g]
              /\ Visit(t, "rows", DOMAIN ToWrite(r.items, r.on_conflict, hit, data))
              /\ UNCHANGED <<want, data, lock>> /\ pc[t] = "check"
          BY <2>7, <3>2, DuckData, DuckSteps DEF Duck!Resolve
        <4>2. /\ found'[t] = hit /\ got'[t] = g /\ pc'[t] = "rows"
              /\ todo'[t] = DOMAIN ToWrite(r.items, r.on_conflict, hit, data)
          BY <1>1, <4>1 DEF Visit, GoTo
        <4>3. \A k \in hit : k \in Keys /\ data[k] # Absent
          BY DEF Conflicts, Present
        <4>4. \A k \in DOMAIN ToWrite(r.items, r.on_conflict, hit, data) :
                    k \in DOMAIN r.items /\ k \in Keys
          <5>1. DOMAIN r.items \subseteq Keys
            BY <1>1, RequestType DEF Shape, TypeOK
          <5>2. QED
            BY <5>1 DEF ToWrite
        <4>5. DOMAIN Planned(t)' = DOMAIN ToWrite(r.items, r.on_conflict, hit, data)
          BY <1>1, <4>1, <4>2 DEF DuckPhase, Planned, ToWrite, Conditional
        <4>6. \A k \in todo'[t] : /\ k \in found'[t] <=> data[k] # Absent
                                  /\ k \in DOMAIN got'[t] => got'[t][k] = data[k]
          BY <4>2, <4>3, <4>4 DEF Conflicts, Present
        <4> HIDE DEF hit, g
        <4>7. QED
          BY <1>1, <4>1, <4>2, <4>5, <4>6 DEF DuckPhase
      <3>3. QED
        BY <3>1, <3>2
    <2>8. CASE Duck!WriteRow(t)
      <3>1. CASE Leave(t, Duck!Failed)
        BY <2>1, <3>1, DuckAnswers DEF Leave, Ended
      <3>2. CASE ~Leave(t, Duck!Failed)
        <4>1. PICK k \in todo[t] : /\ Apply([i \in {k} |-> Planned(t)[k]]) /\ Visited(t, k)
                                   /\ UNCHANGED <<lock, task, found, got, want>> /\ pc[t] = "rows"
          BY <2>8, <3>2, DuckSteps DEF Duck!WriteRow, Duck!task, task
        <4>2. \A i \in Keys \ {k} : data'[i] = data[i]
          BY <4>1 DEF Apply, Stored
        <4>3. todo'[t] = todo[t] \ {k} /\ todo[t] \subseteq Keys
          BY <1>1, <4>1 DEF Visited
        <4>4. Planned(t)' = Planned(t)
          BY <1>1, <4>1, PlannedStays
        <4>5. QED
          BY <1>1, <4>1, <4>2, <4>3, <4>4 DEF DuckPhase, task
      <3>3. QED
        BY <3>1, <3>2
    <2>9. QED
      BY <2>2, <2>3, <2>4, <2>5, <2>6, <2>7, <2>8 DEF OnDuck, Duck!Step
  <1>5. QED
    BY <1>3, <1>4

LEMMA DuckScanKept ==
    ASSUME NEW t \in Threads, OnDuck(t), \A u \in Threads : ScanEnded(u)
    PROVE  \A u \in Threads : PageScan(u, data)' /\ ScanEnded(u)'
  <1>1. /\ Shape /\ DuckPhase(t) /\ Task(t) /\ Busy(t) /\ PageScan(t, data) /\ ScanEnded(t)
        /\ UNCHANGED <<site, crashes>> /\ site.backend = "duckdb" /\ call' = call
        /\ data \in Contents /\ scan[t] \in Scans /\ DOMAIN pc = Threads
        /\ \A u \in Threads \ {t} : NoticedBy(u, data, data') /\ PageScan(u, data)
    BY DuckFrame DEF OnDuck, DuckInv, Task, Shape, TypeOK, Contents
  <1>2. ASSUME NEW u \in Threads \ {t} PROVE PageScan(u, data)' /\ ScanEnded(u)'
    <2>1. pc'[u] = "page" => Pages(scan'[u], data')
      BY <1>1, <1>2, PageScanStays
    <2>2. ScanEnded(u)'
      BY <1>1, <1>2, PageScanStays
    <2>3. QED
      BY <2>1, <2>2 DEF PageScan
  <1>3. SUFFICES PageScan(t, data)' /\ ScanEnded(t)'
    BY <1>2
  <1>4. ASSUME pc'[t] # "idle" PROVE ScanEnded(t)'
    <2>1. answer'[t] = KV!NoAnswer /\ KV!Ok # KV!NoAnswer
      BY <1>1, <1>4 DEF Task, KV!Ok, KV!NoAnswer
    <2>2. QED
      BY <2>1 DEF ScanEnded
  <1>5. ASSUME NEW a, a # KV!NoAnswer, End(t, a), call[t].op = "iter_batches" => a # KV!Ok
        PROVE  PageScan(t, data)' /\ ScanEnded(t)'
    <2>1. pc'[t] = "idle" /\ answer'[t] = a
      BY <1>1, <1>5, Ways
    <2>2. QED
      BY <1>1, <1>5, <2>1 DEF PageScan, ScanEnded
  <1>6. ASSUME pc'[t] \notin {"idle", "page"} PROVE PageScan(t, data)' /\ ScanEnded(t)'
    BY <1>4, <1>6 DEF PageScan
  <1>7. CASE Duck!StartScan(t)
    <2>1. pc[t] = "start" /\ GoTo(t, "page") /\ Scanned(t, data) /\ UNCHANGED data
      BY <1>7, DuckSteps DEF Duck!StartScan, Starts
    <2>2. pc'[t] = "page"
      BY <1>1, <2>1 DEF GoTo
    <2>3. /\ scan'[t].stable = Present(data) /\ scan'[t].offset = 0
          /\ \A k \in Keys : scan'[t].yields[k] = 0
      BY <1>1, <2>1, ScannedFacts
    <2>4. \A k \in Present(data) : Before(data, k) \in Nat
      BY Position DEF Before, Present
    <2>5. Pages(scan'[t], data)
      BY <2>3, <2>4 DEF Pages
    <2>6. QED
      BY <1>4, <2>1, <2>2, <2>5 DEF PageScan
  <1>8. CASE Duck!NextPage(t)
    <2>1. /\ pc[t] = "page" /\ UNCHANGED data
          /\ \/ End(t, KV!Ok) /\ PagesDone(scan'[t])
             \/ UNCHANGED task /\ Pages(scan'[t], data)
      BY <1>1, <1>8, DuckPage, PageFacts DEF Duck!NextPage
    <2>2. CASE End(t, KV!Ok) /\ PagesDone(scan'[t])
      <3>1. pc'[t] = "idle"
        BY <1>1, <2>2 DEF End
      <3>2. Conn(t)' = "sync"
        BY <1>1, ConnSync DEF Conn
      <3>3. QED
        BY <1>1, <2>2, <3>1, <3>2 DEF PageScan, ScanEnded, PagesDone
    <2>3. CASE UNCHANGED task /\ Pages(scan'[t], data)
      BY <1>4, <2>1, <2>3 DEF task, PageScan
    <2>4. QED
      BY <2>1, <2>2, <2>3
  <1>9. CASE Duck!NothingToDo(t) \/ Duck!Read(t) \/ Duck!Delete(t) \/ Duck!RefuseBatch(t)
             \/ Duck!Written(t)
    <2>1. call[t].op # "iter_batches"
      BY <1>1, <1>9, DuckData, DuckSteps
         DEF Duck!NothingToDo, Duck!Read, Duck!Delete, Duck!RefuseBatch, Duck!Written,
             DuckPhase, Empty, Starts
    <2>2. QED
      BY <1>5, <1>9, <2>1, DuckSteps, DuckAnswers
         DEF Duck!NothingToDo, Duck!Read, Duck!Delete, Duck!RefuseBatch, Duck!Written, Leave
  <1>10. CASE Duck!Overwrite(t) \/ Duck!EnterBatch(t)
    <2>1. pc'[t] \in {"rows", "check"}
      BY <1>1, <1>10, DuckSteps DEF Duck!Overwrite, Duck!EnterBatch, Visit, GoTo
    <2>2. QED
      BY <1>6, <2>1
  <1>11. CASE Duck!Resolve(t)
    <2>1. call[t].op # "iter_batches"
      BY <1>1, <1>11 DEF Duck!Resolve, DuckPhase
    <2>2. Leave(t, Duck!KV!KeyError) \/ GoTo(t, "rows")
      BY <1>11, DuckSteps DEF Duck!Resolve, Visit
    <2>3. QED
      BY <1>1, <1>5, <1>6, <2>1, <2>2, DuckAnswers, Ways DEF Leave
  <1>12. CASE Duck!WriteRow(t)
    <2>1. pc[t] = "rows" /\ (Leave(t, Duck!Failed) \/ UNCHANGED task)
      BY <1>12, DuckSteps DEF Duck!WriteRow, Duck!task, task
    <2>2. QED
      BY <1>5, <1>6, <2>1, DuckAnswers DEF Leave, task
  <1>13. QED
    BY <1>7, <1>8, <1>9, <1>10, <1>11, <1>12 DEF OnDuck, Duck!Step

-----------------------------------------------------------------------------
(* A SQLite store.  A sync call is in the lock from its first statement to *)
(* its commit, a conditional batch of a task in _awrite_lock.              *)
SqlPhase(t) ==
    LET r == call[t]
        c == Conn(t)
    IN
    /\ pc[t] \in {"idle", "start", "select", "fetch", "page", "cursor", "check", "get",
                  "insert", "written", "commit"}
    /\ want[t] = NoKey
    /\ c = "sync" /\ pc[t] \in {"select", "check", "get", "insert", "commit"} => lock = t
    /\ c = "async" /\ Conditional(r) /\ pc[t] \in {"check", "get", "insert", "written", "commit"}
            => awrite = t
    /\ pc[t] \in {"fetch", "cursor", "written"} => c = "async"
    /\ pc[t] = "page" => c = "sync"
    /\ pc[t] \in {"page", "cursor"} => r.op = "iter_batches"
    /\ pc[t] \in {"select", "fetch"} => r.op # "iter_batches"
    /\ pc[t] \in {"check", "get"} => Conditional(r)
    /\ pc[t] = "check" => DOMAIN got[t] = {}
    /\ pc[t] \in {"check", "get", "insert", "written", "commit"} => r.op \in KV!WriteOps

(* Rows wait for their commit only in a write transaction, and there is one *)
(* of those at a time.                                                     *)
OneWriter ==
    /\ \A c \in Conns : txn[c] \notin {"write", "pending"} => work[c] = Nothing
    /\ txn["sync"] \in {"write", "pending"} => txn["async"] \notin {"write", "pending"}

(* The pages of a sync scan, and the open cursors.                         *)
SqlScan(t) ==
    /\ PageScan(t, View("sync"))
    /\ pc[t] = "cursor" => Cursor(scan[t], View("async"), todo[t])

SqlInv == OneWriter /\ \A t \in Threads : SqlPhase(t) /\ SqlScan(t)

OnSql(t) == Shape /\ SqlInv /\ site.backend = "sqlite" /\ Step(t)

\* The rows that a connection sees.
LEMMA ViewType ==
    ASSUME Shape, NEW c \in Conns
    PROVE  View(c) \in Contents /\ Present(View(c)) \in SUBSET Keys
           /\ View(c) \in [Keys -> Slot \ Unstorable]
  <1>1. data \in [Keys -> Slot \ Unstorable] /\ work[c] \in Writes /\ ~Spoiled(work[c])
    BY DEF Shape, TypeOK
  <1>2. \A k \in DOMAIN work[c] : work[c][k] \in Slot \ Unstorable
    BY <1>1, ItemsDef DEF Spoiled
  <1>3. View(c) \in [Keys -> Slot \ Unstorable]
    BY <1>1, <1>2 DEF View, Stored
  <1>4. QED
    BY <1>3 DEF Contents, Present

LEMMA ConnType == ASSUME NEW t PROVE Conn(t) \in Conns
  BY DEF Conn, Conns

\* What a call writes, it writes to its keys.
LEMMA WritingType ==
    ASSUME Shape, NEW t \in Threads
    PROVE  Writing(t) \in Writes
  <1>1. call[t] \in KV!Request /\ data \in Contents
    BY DEF Shape, TypeOK, Contents
  <1>2. KV!Effect(call[t], data) \in Writes
    BY <1>1, EffectType
  <1>3. Planned(t) \in Writes
    BY PlannedType, ItemsDef
  <1>4. QED
    BY <1>2, <1>3 DEF Writing

\* What the steps of a SQLite store leave of the tasks and of their locals.
LEMMA SqlTask ==
    ASSUME NEW t \in Threads, OnSql(t)
    PROVE  /\ Task(t) /\ Reads(t) /\ Busy(t) /\ pc'[t] # "start"
           /\ \A u \in Threads \ {t} : pc[u] # "cursor" => todo'[u] = todo[u]
           /\ UNCHANGED <<site, crashes>>
  <1>1. /\ Shape /\ SqlPhase(t)
        /\ found[t] \in SUBSET Keys /\ todo[t] \in SUBSET Keys /\ got[t] \in Writes
        /\ found \in [Threads -> SUBSET Keys] /\ todo \in [Threads -> SUBSET Keys]
        /\ got \in [Threads -> Writes] /\ want \in [Threads -> Keys \cup {NoKey}]
        /\ UNCHANGED <<site, crashes>>
        /\ View(Conn(t)) \in Contents /\ View("async") \in Contents
        /\ Present(View(Conn(t))) \in SUBSET Keys /\ Present(View("async")) \in SUBSET Keys
    <2>1. Conn(t) \in Conns /\ "async" \in Conns
      BY ConnType DEF Conns
    <2>2. QED
      BY <2>1, ViewType DEF OnSql, SqlInv, Shape, TypeOK, Step
  <1>2. Busy(t)
    BY DEF OnSql, Step, SQLiteNothingToDo, NothingToDo, Enter, Starts, Select, Fetch, StartPages,
       NextPage, OpenCursor, NextRow, Check, Get, Skip, Insert, RefuseBatch, RefuseRow, Resume,
       Commit, WaitForReaders, ReadTimesOut, WriteTimesOut, Busy
  <1> DEFINE Goal == /\ Task(t) /\ Reads(t) /\ pc'[t] # "start"
                     /\ \A u \in Threads \ {t} : pc[u] # "cursor" => todo'[u] = todo[u]
  <1>3. SUFFICES Goal
    BY <1>1, <1>2
  <1>4. ASSUME Ended(t) PROVE Goal
    BY <1>1, <1>2, <1>4, Ways DEF Ended
  <1>5. ASSUME NEW phase, phase \notin {"idle", "start"}, GoTo(t, phase), UNCHANGED reads
        PROVE  Goal
    <2>1. Task(t) /\ pc'[t] = phase
      BY <1>1, <1>2, <1>5, Ways
    <2>2. QED
      BY <1>1, <1>5, <2>1, Unread
  <1>6. ASSUME NEW a, a # KV!NoAnswer, Return(t, a) PROVE Goal
    BY <1>4, <1>6 DEF Return, Leave, Ended
  <1>7. KV!Ok # KV!NoAnswer /\ KV!KeyError # KV!NoAnswer /\ Failed # KV!NoAnswer
    BY DEF KV!Ok, KV!KeyError, Failed, KV!NoAnswer
  <1>8. \A v : KV!Returns(v) # KV!NoAnswer
    <2>1. \A v : KV!Returns(v).kind # KV!NoAnswer.kind
      BY DEF KV!Returns, KV!NoAnswer
    <2>2. QED
      BY <2>1
  <1>9. \A r, d : KV!Answer(r, d) # KV!NoAnswer
    BY <1>7, <1>8 DEF KV!Answer
  <1> HIDE DEF Goal
  <1>10. CASE SQLiteNothingToDo(t) \/ Fetch(t) \/ Skip(t) \/ RefuseBatch(t) \/ RefuseRow(t)
              \/ Commit(t) \/ ReadTimesOut(t) \/ WriteTimesOut(t)
    BY <1>4, <1>6, <1>7, <1>8, <1>9, <1>10
       DEF SQLiteNothingToDo, NothingToDo, Fetch, Skip, RefuseBatch, RefuseRow, Commit,
           ReadTimesOut, WriteTimesOut, Raise, Ended
  <1>11. CASE Enter(t) \/ StartPages(t) \/ Resume(t)
    <2>1. UNCHANGED reads /\ \E phase : phase \notin {"idle", "start"} /\ GoTo(t, phase)
      BY <1>11 DEF Enter, StartPages, Resume, Phase
    <2>2. QED
      BY <1>5, <2>1
  <1>12. CASE WaitForReaders(t)
    <2>1. UNCHANGED <<task, reads>> /\ pc[t] = "commit"
      BY <1>12 DEF WaitForReaders
    <2>2. Task(t) /\ pc'[t] = "commit"
      BY <1>1, <1>2, <2>1, Ways
    <2>3. QED
      BY <1>1, <2>1, <2>2, Unread DEF Goal
  <1>13. CASE NextPage(t)
    <2>1. pc[t] = "page" /\ (End(t, KV!Ok) \/ UNCHANGED <<task, reads>>)
      BY <1>13 DEF NextPage, Page
    <2>2. CASE UNCHANGED <<task, reads>>
      <3>1. Task(t) /\ pc'[t] = "page"
        BY <1>1, <1>2, <2>1, <2>2, Ways
      <3>2. QED
        BY <1>1, <2>2, <3>1, Unread DEF Goal
    <2>3. QED
      BY <1>4, <1>7, <2>1, <2>2 DEF Ended
  <1>14. ASSUME pc'[t] \notin {"idle", "start"}, Task(t),
                NEW F \in SUBSET Keys, NEW K \in SUBSET Keys, NEW g \in Writes,
                found' = [found EXCEPT ![t] = F], todo' = [todo EXCEPT ![t] = K],
                got' = [got EXCEPT ![t] = g], UNCHANGED want
         PROVE  Goal
    BY <1>1, <1>14 DEF Reads, Rested, Goal
  <1>15. CASE Select(t)
    <2>1. CASE \E v : Return(t, KV!Returns(v))
      BY <1>6, <1>8, <2>1
    <2>2. CASE ~\E v : Return(t, KV!Returns(v))
      <3>1. PICK K \in First(call[t], View(Conn(t))) :
                /\ got' = [got EXCEPT ![t] = [k \in K |-> View(Conn(t))[k]]]
                /\ GoTo(t, "fetch") /\ UNCHANGED <<found, todo, want>>
        BY <1>15, <2>2 DEF Select
      <3>2. [k \in K |-> View(Conn(t))[k]] \in Writes
        <4>1. K \in SUBSET Keys
          BY <1>1, <3>1 DEF First, Rows
        <4>2. [k \in K |-> View(Conn(t))[k]] \in [K -> Slot]
          BY <1>1, <4>1 DEF Contents
        <4>3. QED
          BY <4>1, <4>2, ItemsDef
      <3>3. Task(t) /\ pc'[t] = "fetch"
        BY <1>1, <1>2, <3>1, Ways
      <3>4. found' = [found EXCEPT ![t] = found[t]] /\ todo' = [todo EXCEPT ![t] = todo[t]]
            /\ UNCHANGED want
        BY <1>1, <3>1
      <3>5. QED
        BY <1>1, <1>14, <3>1, <3>2, <3>3, <3>4
    <2>3. QED
      BY <2>1, <2>2
  <1>16. CASE OpenCursor(t)
    <2>1. \/ Ended(t)
          \/ Visit(t, "cursor", Present(View("async"))) /\ UNCHANGED <<found, got, want>>
      BY <1>7, <1>16 DEF OpenCursor, Ended
    <2>2. CASE Visit(t, "cursor", Present(View("async"))) /\ UNCHANGED <<found, got, want>>
      <3>1. Task(t) /\ pc'[t] = "cursor"
        BY <1>1, <1>2, <2>2, Ways DEF Visit
      <3>2. /\ found' = [found EXCEPT ![t] = found[t]] /\ got' = [got EXCEPT ![t] = got[t]]
            /\ todo' = [todo EXCEPT ![t] = Present(View("async"))]
        BY <1>1, <2>2 DEF Visit
      <3>3. QED
        BY <1>1, <1>14, <2>2, <3>1, <3>2
    <2>3. QED
      BY <1>4, <2>1, <2>2
  <1>17. CASE NextRow(t)
    <2>1. /\ pc[t] = "cursor"
          /\ \/ Ended(t)
             \/ \E k \in todo[t] : Visited(t, k) /\ UNCHANGED <<task, found, got, want>>
      BY <1>7, <1>17 DEF NextRow, Ended
    <2>2. ASSUME NEW k \in todo[t], Visited(t, k), UNCHANGED <<task, found, got, want>>
          PROVE  Goal
      <3>1. Task(t) /\ pc'[t] = "cursor"
        BY <1>1, <1>2, <2>1, <2>2, Ways
      <3>2. /\ found' = [found EXCEPT ![t] = found[t]] /\ got' = [got EXCEPT ![t] = got[t]]
            /\ todo' = [todo EXCEPT ![t] = todo[t] \ {k}] /\ todo[t] \ {k} \in SUBSET Keys
        BY <1>1, <2>2 DEF Visited
      <3>3. QED
        BY <1>1, <1>14, <2>2, <3>1, <3>2
    <2>3. QED
      BY <1>4, <2>1, <2>2
  <1>18. CASE Check(t)
    <2>1. CASE Return(t, KV!KeyError)
      BY <1>6, <1>7, <2>1
    <2>2. CASE ~Return(t, KV!KeyError)
      <3>1. /\ found' = [found EXCEPT ![t] = Conflicts(call[t].items, Present(View(Conn(t))))]
            /\ \E phase \in {"get", "insert"} : GoTo(t, phase)
            /\ UNCHANGED <<got, todo, want>>
        BY <1>18, <2>2 DEF Check
      <3>2. Task(t) /\ pc'[t] \in {"get", "insert"}
        BY <1>1, <1>2, <3>1, Ways
      <3>3. Conflicts(call[t].items, Present(View(Conn(t)))) \in SUBSET Keys
            /\ got' = [got EXCEPT ![t] = got[t]] /\ todo' = [todo EXCEPT ![t] = todo[t]]
        BY <1>1, <3>1 DEF Conflicts
      <3>4. QED
        BY <1>1, <1>14, <3>1, <3>2, <3>3
    <2>3. QED
      BY <2>1, <2>2
  <1>19. CASE Get(t)
    <2>1. PICK k \in found[t] \ DOMAIN got[t] :
            /\ got' = [got EXCEPT ![t] =
                    [i \in DOMAIN got[t] \cup {k} |->
                        IF i = k THEN View(Conn(t))[k] ELSE got[t][i]]]
            /\ \E phase \in {"get", "insert"} : GoTo(t, phase)
            /\ UNCHANGED <<found, todo, want>>
      BY <1>19 DEF Get
    <2> DEFINE g == [i \in DOMAIN got[t] \cup {k} |->
                        IF i = k THEN View(Conn(t))[k] ELSE got[t][i]]
    <2>2. g \in Writes
      <3> DEFINE v == View(Conn(t))[k]
      <3>1. k \in Keys /\ v \in Slot
        BY <1>1, <2>1 DEF Contents
      <3> HIDE DEF v
      <3>2. got[t] \in Writes
        BY <1>1
      <3>3. [i \in DOMAIN got[t] \cup {k} |-> IF i = k THEN v ELSE got[t][i]] \in Writes
        BY <3>1, <3>2, OneMore
      <3>4. QED
        BY <3>3 DEF v
    <2> HIDE DEF g
    <2>3. Task(t) /\ pc'[t] \in {"get", "insert"}
      BY <1>1, <1>2, <2>1, Ways
    <2>4. /\ found' = [found EXCEPT ![t] = found[t]] /\ todo' = [todo EXCEPT ![t] = todo[t]]
          /\ got' = [got EXCEPT ![t] = g]
      BY <1>1, <2>1 DEF g
    <2>5. QED
      BY <1>1, <1>14, <2>1, <2>2, <2>3, <2>4
  <1>20. CASE Insert(t)
    <2> DEFINE w == Writing(t)
    <2>1. /\ Ahead(Conn(t), w) /\ UNCHANGED <<found, got, want>> /\ pc[t] = "insert"
          /\ \E phase \in {"commit", "written"} : GoTo(t, phase)
      BY <1>20 DEF Insert
    <2>2. Task(t) /\ pc'[t] \in {"commit", "written"}
      BY <1>1, <1>2, <2>1, Ways
    <2>3. w \in Writes /\ DOMAIN w \in SUBSET Keys
      BY <1>1, WritingType, ItemsDef
    <2> HIDE DEF w
    <2>4. todo' \in [Threads -> SUBSET Keys]
          /\ \A u \in Threads \ {t} : pc[u] # "cursor" => todo'[u] = todo[u]
      BY <1>1, <2>1, <2>3 DEF Ahead
    <2>5. QED
      BY <1>1, <2>1, <2>2, <2>4 DEF Reads, Rested, Goal
  <1>21. QED
    BY <1>10, <1>11, <1>12, <1>13, <1>15, <1>16, <1>17, <1>18, <1>19, <1>20 DEF OnSql, Step

\* Nobody loses a lock to t.
LEMMA SqlLocks ==
    ASSUME NEW t \in Threads, OnSql(t)
    PROVE  /\ lock' \in Threads \cup {NoThread} /\ awrite' \in Threads \cup {NoThread}
           /\ \A u \in Threads \ {t} : (lock = u => lock' = u) /\ (awrite = u => awrite' = u)
  <1>1. lock \in Threads \cup {NoThread} /\ awrite \in Threads \cup {NoThread}
    BY DEF OnSql, Shape, TypeOK
  <1>2. /\ \/ lock' = lock
           \/ lock = t /\ lock' = NoThread
           \/ lock = NoThread /\ lock' = t
        /\ \/ awrite' = awrite
           \/ awrite = t /\ awrite' = NoThread
           \/ awrite = NoThread /\ awrite' = t
    BY DEF OnSql, Step, SQLiteNothingToDo, NothingToDo, Enter, Select, Fetch, StartPages,
       NextPage, OpenCursor, NextRow, Check, Get, Skip, Insert, RefuseBatch, RefuseRow, Resume,
       Commit, WaitForReaders, ReadTimesOut, WriteTimesOut, Raise, Return, Leave, connections
  <1>3. QED
    BY <1>1, <1>2, ThreadAssumption

\* Rows are written, and not committed.
LEMMA WrittenFacts ==
    ASSUME Shape, NEW c \in Conns, NEW w \in Writes, ~Spoiled(w), Written(c, w), data' = data
    PROVE  /\ work' \in [Conns -> Writes] /\ \A d \in Conns : ~Spoiled(work'[d])
           /\ txn' \in [Conns -> TxnStates] /\ txn'[c] \in {"write", "pending"}
           /\ txn'[Other(c)] = txn[Other(c)] /\ work'[Other(c)] = work[Other(c)]
           /\ View(c)' = Stored(View(c), w) /\ View(Other(c))' = View(Other(c))
           /\ scan' \in [Threads -> Scans]
           /\ \A u \in Threads :
                /\ scan'[u] = IF pc[u] \in ScanPhases /\ Conn(u) = c
                              THEN Noted(scan[u], View(c), w) ELSE scan[u]
                /\ scan'[u].offset = scan[u].offset
  <1> DEFINE v == [k \in DOMAIN work[c] \cup DOMAIN w |-> IF k \in DOMAIN w THEN w[k] ELSE work[c][k]]
  <1>1. /\ work \in [Conns -> Writes] /\ \A d \in Conns : ~Spoiled(work[d])
        /\ txn \in [Conns -> TxnStates] /\ scan \in [Threads -> Scans] /\ View(c) \in Contents
        /\ Other(c) \in Conns /\ Other(c) # c
    BY ViewType DEF Shape, TypeOK, Conns, Other
  <1>2. /\ work' = [work EXCEPT ![c] = v]
        /\ txn' = [txn EXCEPT ![c] = IF @ = "pending" THEN @ ELSE "write"]
        /\ scan' = [u \in Threads |-> IF pc[u] \in ScanPhases /\ Conn(u) = c
                                      THEN Noted(scan[u], View(c), w) ELSE scan[u]]
    BY DEF Written, Noticed
  <1>3. v \in Writes /\ ~Spoiled(v)
    <2>1. /\ DOMAIN work[c] \cup DOMAIN w \in SUBSET Keys
          /\ \A k \in DOMAIN w : w[k] \in Slot \ Unstorable
          /\ \A k \in DOMAIN work[c] : work[c][k] \in Slot \ Unstorable
      BY <1>1, ItemsDef DEF Spoiled
    <2>2. v \in [DOMAIN work[c] \cup DOMAIN w -> Slot \ Unstorable]
      BY <2>1
    <2>3. v \in [DOMAIN work[c] \cup DOMAIN w -> Slot]
      BY <2>2
    <2>4. v \in Writes
      <3> HIDE DEF v
      <3>1. QED
        BY <2>1, <2>3, ItemsDef
    <2>5. ~Spoiled(v)
      <3> HIDE DEF v
      <3>1. QED
        BY <2>2 DEF Spoiled
    <2>6. QED
      BY <2>4, <2>5
  <1>4. Stored(data, v) = Stored(Stored(data, work[c]), w)
    BY DEF Stored
  <1> HIDE DEF v
  <1>5. work'[c] = v /\ work'[Other(c)] = work[Other(c)] /\ work' \in [Conns -> Writes]
        /\ \A d \in Conns : ~Spoiled(work'[d])
    BY <1>1, <1>2, <1>3
  <1>6. View(c)' = Stored(View(c), w) /\ View(Other(c))' = View(Other(c))
    BY <1>4, <1>5 DEF View, Stored
  <1>7. /\ txn' \in [Conns -> TxnStates] /\ txn'[c] \in {"write", "pending"}
        /\ txn'[Other(c)] = txn[Other(c)]
    BY <1>1, <1>2 DEF TxnStates
  <1>8. \A u \in Threads : /\ Noted(scan[u], View(c), w) \in Scans
                           /\ Noted(scan[u], View(c), w).offset = scan[u].offset
    BY <1>1, NotedFacts
  <1>9. QED
    BY <1>1, <1>2, <1>5, <1>6, <1>7, <1>8

\* A commit: its connection goes on seeing the rows it saw, and the other one
\* sees them written.
LEMMA CommitFacts ==
    ASSUME NEW t \in Threads, OnSql(t), Commit(t)
    PROVE  LET c == Conn(t)
               o == Other(c)
           IN  /\ data' \in [Keys -> Slot \ Unstorable] /\ work' \in [Conns -> Writes]
               /\ \A d \in Conns : ~Spoiled(work'[d])
               /\ txn' \in [Conns -> TxnStates] /\ OneWriter'
               /\ View(c)' = View(c) /\ View(o)' = Stored(View(o), work[c])
               /\ work'[c] = Nothing /\ txn'[c] = "none"
               /\ txn'[o] = txn[o] /\ work'[o] = work[o]
               /\ scan' \in [Threads -> Scans]
               /\ \A u \in Threads :
                    /\ scan'[u] = IF pc[u] \in ScanPhases /\ Conn(u) = o
                                  THEN Noted(scan[u], View(o), work[c]) ELSE scan[u]
                    /\ scan'[u].offset = scan[u].offset
  <1> DEFINE c == Conn(t)
             o == Other(c)
  <1>1. c \in Conns /\ o \in Conns /\ o # c /\ Conns = {c, o}
    BY DEF Conns, Conn, Other
  <1>2. /\ work \in [Conns -> Writes] /\ \A d \in Conns : ~Spoiled(work[d])
        /\ txn \in [Conns -> TxnStates] /\ scan \in [Threads -> Scans]
        /\ View(c) \in Contents /\ View(o) \in Contents
        /\ View(c) \in [Keys -> Slot \ Unstorable] /\ data \in [Keys -> Slot \ Unstorable]
        /\ OneWriter
    BY <1>1, ViewType DEF OnSql, SqlInv, Shape, TypeOK
  <1>3. /\ data' = View(c) /\ work' = [work EXCEPT ![c] = Nothing]
        /\ txn' = [txn EXCEPT ![c] = "none"]
        /\ scan' = [u \in Threads |-> IF pc[u] \in ScanPhases /\ Conn(u) = o
                                      THEN Noted(scan[u], View(o), work[c]) ELSE scan[u]]
    BY DEF Commit, Noticed
  <1> HIDE DEF c, o
  <1>4. Nothing \in Writes /\ ~Spoiled(Nothing) /\ DOMAIN Nothing = {}
    <2>1. Nothing \in [{} -> Slot]
      BY DEF Nothing
    <2>2. QED
      BY <2>1, ItemsDef DEF Spoiled
  <1>5. /\ work'[c] = Nothing /\ work'[o] = work[o] /\ txn'[c] = "none" /\ txn'[o] = txn[o]
        /\ work' \in [Conns -> Writes] /\ txn' \in [Conns -> TxnStates]
        /\ \A d \in Conns : ~Spoiled(work'[d])
    BY <1>1, <1>2, <1>3, <1>4 DEF TxnStates
  <1>6. work[c] = Nothing \/ work[o] = Nothing
    BY <1>1, <1>2 DEF OneWriter, Conns
  <1>7. View(c)' = View(c)
    <2>1. Stored(View(c), Nothing) = View(c)
      BY <1>2, <1>4 DEF Stored
    <2>2. Stored(data', work'[c]) = View(c)
      BY <1>3, <1>5, <2>1
    <2>3. c' = c
      BY DEF c, Conn, OnSql, Step
    <2>4. QED
      BY <2>2, <2>3 DEF View
  <1>8. View(o)' = Stored(View(o), work[c])
    <2>1. Stored(Stored(data, work[c]), work[o]) = Stored(Stored(data, work[o]), work[c])
      BY <1>4, <1>6 DEF Stored
    <2>2. Stored(data', work'[o]) = Stored(View(o), work[c])
      BY <1>3, <1>5, <2>1 DEF View
    <2>3. o' = o
      BY DEF o, c, Conn, Other, OnSql, Step
    <2>4. QED
      BY <2>2, <2>3 DEF View
  <1>9. OneWriter'
    BY <1>1, <1>2, <1>5 DEF OneWriter, Conns
  <1>10. \A u \in Threads : /\ Noted(scan[u], View(o), work[c]) \in Scans
                            /\ Noted(scan[u], View(o), work[c]).offset = scan[u].offset
    BY <1>1, <1>2, NotedFacts
  <1>11. /\ scan' \in [Threads -> Scans]
         /\ \A u \in Threads :
              /\ scan'[u] = IF pc[u] \in ScanPhases /\ Conn(u) = o
                            THEN Noted(scan[u], View(o), work[c]) ELSE scan[u]
              /\ scan'[u].offset = scan[u].offset
    BY <1>2, <1>3, <1>10
  <1>12. QED
    BY <1>2, <1>3, <1>5, <1>7, <1>8, <1>9, <1>11 DEF c, o

\* What the steps of a SQLite store leave of the connections and of the scans.
SqlFrame(t) ==
    /\ data' \in [Keys -> Slot \ Unstorable] /\ work' \in [Conns -> Writes]
    /\ \A c \in Conns : ~Spoiled(work'[c])
    /\ txn' \in [Conns -> TxnStates] /\ OneWriter'
    /\ scan' \in [Threads -> Scans]
    /\ scan'[t].offset <= Cardinality(Keys) + BatchSize
    /\ pc'[t] = "page" => scan'[t].offset <= Cardinality(Keys)
    /\ \A u \in Threads \ {t} :
        /\ scan'[u].offset = scan[u].offset
        /\ pc[u] \notin ScanPhases => scan'[u] = scan[u]
        /\ NoticedBy(u, View(Conn(u)), View(Conn(u))')

LEMMA SqlBounds ==
    ASSUME Shape, NEW t \in Threads
    PROVE  /\ Cardinality(Keys) \in Nat /\ BatchSize \in Nat
           /\ scan[t].offset <= Cardinality(Keys) + BatchSize
           /\ scan \in [Threads -> Scans] /\ data \in [Keys -> Slot \ Unstorable]
           /\ work \in [Conns -> Writes] /\ txn \in [Conns -> TxnStates]
           /\ \A c \in Conns : ~Spoiled(work[c])
  BY KeyAssumption, BoundAssumption, FS_CardinalityType DEF Shape, TypeOK

\* The steps that write no rows.
LEMMA SqlPlain ==
    ASSUME NEW t \in Threads, OnSql(t), UNCHANGED <<data, work, site>>,
           \A c \in Conns : /\ txn'[c] \in {"write", "pending"} <=> txn[c] \in {"write", "pending"}
                            /\ txn'[c] \in TxnStates,
           txn' \in [Conns -> TxnStates],
           \A u \in Threads \ {t} : todo'[u] = todo[u] /\ scan'[u] = scan[u],
           scan' \in [Threads -> Scans],
           scan'[t].offset <= Cardinality(Keys) + BatchSize,
           pc'[t] = "page" => scan'[t].offset <= Cardinality(Keys)
    PROVE  SqlFrame(t)
  <1>1. OneWriter'
    BY DEF OnSql, SqlInv, OneWriter, Conns
  <1>2. ASSUME NEW u \in Threads \ {t} PROVE NoticedBy(u, View(Conn(u)), View(Conn(u))')
    <2>1. View(Conn(u))' = View(Conn(u))
      BY DEF View, Conn, Stored
    <2>2. QED
      BY <2>1 DEF NoticedBy
  <1>3. QED
    BY <1>1, <1>2, SqlBounds DEF SqlFrame, OnSql

\* Who else waits in a cursor is not concerned by these.
LEMMA SqlTodo ==
    ASSUME NEW t \in Threads, OnSql(t), ~Insert(t)
    PROVE  \A u \in Threads \ {t} : todo'[u] = todo[u]
  BY DEF OnSql, Shape, TypeOK, Step, SQLiteNothingToDo, NothingToDo, Enter, Select, Fetch, StartPages,
     NextPage, OpenCursor, NextRow, Check, Get, Skip, Insert, RefuseBatch, RefuseRow, Resume,
     Commit, WaitForReaders, ReadTimesOut, WriteTimesOut, Raise, Return, Leave, End, Page,
     Visit, Visited, reads

\* Rows that are written on a connection leave its transaction the only one.
LEMMA SqlWritten ==
    ASSUME NEW t \in Threads, OnSql(t), NEW w \in Writes, ~Spoiled(w), CanWrite(Conn(t)),
           Written(Conn(t), w), UNCHANGED <<data, site>>, pc[t] = "insert", pc'[t] # "page",
           \A u \in Threads \ {t} :
                \/ todo'[u] = todo[u]
                \/ /\ Conn(u) = Conn(t)
                   /\ todo'[u] = todo[u] \cup {k \in DOMAIN w : w[k] # Absent}
    PROVE  SqlFrame(t)
  <1> DEFINE c == Conn(t)
             o == Other(c)
  <1>1. c \in Conns /\ o \in Conns /\ Conns = {c, o} /\ o # c /\ Shape
    BY DEF Conns, Conn, Other, OnSql
  <1>2. /\ work' \in [Conns -> Writes] /\ \A d \in Conns : ~Spoiled(work'[d])
        /\ txn' \in [Conns -> TxnStates] /\ txn'[c] \in {"write", "pending"}
        /\ txn'[o] = txn[o] /\ work'[o] = work[o]
        /\ View(c)' = Stored(View(c), w) /\ View(o)' = View(o)
        /\ scan' \in [Threads -> Scans]
        /\ \A u \in Threads :
             /\ scan'[u] = IF pc[u] \in ScanPhases /\ Conn(u) = c
                           THEN Noted(scan[u], View(c), w) ELSE scan[u]
             /\ scan'[u].offset = scan[u].offset
    <2>1. c' = c
      BY DEF Conn
    <2> HIDE DEF c
    <2>2. Written(c, w)
      BY DEF c
    <2>3. QED
      BY <1>1, <2>1, <2>2, WrittenFacts
  <1>3. txn[o] \notin {"write", "pending"}
    BY DEF CanWrite
  <1>4. OneWriter'
    BY <1>1, <1>2, <1>3 DEF OnSql, SqlInv, OneWriter, Conns
  <1>5. ASSUME NEW u \in Threads \ {t} PROVE NoticedBy(u, View(Conn(u)), View(Conn(u))')
    <2>1. Conn(u) \in {c, o} /\ Conn(u)' = Conn(u) /\ c' = c /\ o' = o
      BY <1>1, ConnType DEF Conn, Other
    <2> HIDE DEF c, o
    <2>2. CASE Conn(u) = c
      <3>1. View(Conn(u))' = Stored(View(Conn(u)), w)
        BY <1>2, <2>1, <2>2 DEF View
      <3>2. scan'[u] = IF pc[u] \in ScanPhases THEN Noted(scan[u], View(Conn(u)), w) ELSE scan[u]
        BY <1>2, <2>2
      <3>3. QED
        BY <3>1, <3>2 DEF NoticedBy
    <2>3. CASE Conn(u) = o
      <3>1. View(Conn(u))' = View(Conn(u)) /\ scan'[u] = scan[u] /\ todo'[u] = todo[u]
        BY <1>1, <1>2, <2>1, <2>3 DEF View, c
      <3>2. QED
        BY <3>1 DEF NoticedBy
    <2>4. QED
      BY <2>1, <2>2, <2>3
  <1>6. QED
    BY <1>1, <1>2, <1>4, <1>5, SqlBounds DEF SqlFrame

LEMMA SqlFrameKept ==
    ASSUME NEW t \in Threads, OnSql(t)
    PROVE  SqlFrame(t)
  <1>1. /\ Shape /\ SqlPhase(t) /\ SqlScan(t) /\ OneWriter /\ Busy(t) /\ Task(t) /\ Conn(t) \in Conns
        /\ UNCHANGED site /\ DOMAIN pc = Threads
        /\ Cardinality(Keys) \in Nat /\ BatchSize \in Nat
        /\ scan[t].offset <= Cardinality(Keys) + BatchSize
        /\ scan \in [Threads -> Scans] /\ txn \in [Conns -> TxnStates]
    BY SqlTask, SqlBounds, ConnType DEF OnSql, SqlInv, Shape, TypeOK
  <1>2. pc'[t] = "page" => scan[t].offset <= Cardinality(Keys)
    <2>1. \A a : End(t, a) => pc'[t] = "idle"
      BY <1>1 DEF End
    <2>2. \A phase : GoTo(t, phase) => pc'[t] = phase
      BY <1>1 DEF GoTo
    <2>3. pc'[t] = "page" => pc[t] \in {"start", "page"}
      BY <2>1, <2>2 DEF OnSql, Step, SQLiteNothingToDo, NothingToDo, Enter, Phase, Select, Fetch,
         StartPages, Starts, NextPage, OpenCursor, NextRow, Check, Get, Skip, Insert, RefuseBatch,
         RefuseRow, Resume, Commit, WaitForReaders, ReadTimesOut, WriteTimesOut, Raise, Return,
         Leave, Visit, task
    <2>4. pc[t] = "start" => scan[t].offset = 0
      BY <1>1 DEF Shape, ShapeOf, NoScan
    <2>5. QED
      BY <1>1, <2>3, <2>4 DEF Shape, ShapeOf
  <1>3. ASSUME UNCHANGED <<data, work>>, txn' \in [Conns -> TxnStates],
               \A c \in Conns : txn'[c] \in {"write", "pending"} <=> txn[c] \in {"write", "pending"},
               \A u \in Threads \ {t} : todo'[u] = todo[u] /\ scan'[u] = scan[u],
               scan' \in [Threads -> Scans],
               scan'[t].offset <= Cardinality(Keys) + BatchSize,
               pc'[t] = "page" => scan'[t].offset <= Cardinality(Keys)
        PROVE  SqlFrame(t)
    <2>1. \A c \in Conns : txn'[c] \in TxnStates
      BY <1>3
    <2>2. QED
      BY <1>1, <1>3, <2>1, SqlPlain
  <1>4. ASSUME Reading(Conn(t)) \/ txn' = txn
        PROVE  /\ txn' \in [Conns -> TxnStates]
               /\ \A c \in Conns : txn'[c] \in {"write", "pending"} <=> txn[c] \in {"write", "pending"}
    BY <1>1, <1>4 DEF Reading, TxnStates
  <1>5. ASSUME NEW c \in Conns, txn' = [txn EXCEPT ![c] = IF @ = "none" THEN "open" ELSE @]
        PROVE  /\ txn' \in [Conns -> TxnStates]
               /\ \A d \in Conns : txn'[d] \in {"write", "pending"} <=> txn[d] \in {"write", "pending"}
    BY <1>1, <1>5 DEF TxnStates
  <1>6. \A a : (End(t, a) \/ Leave(t, a) \/ Return(t, a) \/ Raise(t, a)) =>
              \A u \in Threads \ {t} : todo'[u] = todo[u]
    BY <1>1 DEF Shape, TypeOK, End, Leave, Return, Raise
  <1>7. CASE SQLiteNothingToDo(t) \/ Enter(t) \/ Select(t) \/ Fetch(t) \/ Check(t) \/ Get(t)
             \/ Skip(t) \/ RefuseBatch(t) \/ Resume(t) \/ ReadTimesOut(t)
    <2>1. UNCHANGED <<data, work, scan>>
      BY <1>7 DEF SQLiteNothingToDo, NothingToDo, Enter, Select, Fetch, Check, Get, Skip,
         RefuseBatch, Resume, ReadTimesOut, connections
    <2>2. Reading(Conn(t)) \/ txn' = txn
      BY <1>7 DEF SQLiteNothingToDo, NothingToDo, Enter, Select, Fetch, Check, Get, Skip,
         RefuseBatch, Resume, ReadTimesOut, connections
    <2>3. \A u \in Threads \ {t} : todo'[u] = todo[u]
      BY <1>6, <1>7 DEF SQLiteNothingToDo, NothingToDo, Enter, Select, Fetch, Check, Get, Skip,
         RefuseBatch, Resume, ReadTimesOut, reads
    <2>4. QED
      BY <1>1, <1>2, <1>3, <1>4, <2>1, <2>2, <2>3
  <1>8. CASE WaitForReaders(t) \/ WriteTimesOut(t)
    <2>1. UNCHANGED <<data, work, scan>>
      BY <1>8 DEF WaitForReaders, WriteTimesOut
    <2>2. /\ txn' \in [Conns -> TxnStates]
          /\ \A c \in Conns : txn'[c] \in {"write", "pending"} <=> txn[c] \in {"write", "pending"}
      <3>1. CASE txn' = txn
        BY <1>4, <3>1
      <3>2. CASE WaitForReaders(t)
        BY <1>1, <3>2 DEF WaitForReaders, TxnStates
      <3>3. CASE txn' = [txn EXCEPT ![Conn(t)] = IF @ = "none" THEN "open" ELSE @]
        BY <1>1, <1>5, <3>3
      <3>4. QED
        BY <1>8, <3>1, <3>2, <3>3 DEF WriteTimesOut
    <2>3. \A u \in Threads \ {t} : todo'[u] = todo[u]
      BY <1>6, <1>8 DEF WaitForReaders, WriteTimesOut, reads
    <2>4. QED
      BY <1>1, <1>2, <1>3, <2>1, <2>2, <2>3
  <1>9. CASE StartPages(t)
    <2>1. /\ pc[t] = "start" /\ Scanned(t, View("sync")) /\ View("sync") \in Contents
          /\ UNCHANGED <<data, work, txn, todo>>
      BY <1>1, <1>9, ViewType DEF StartPages, Starts, connections, reads, Conns
    <2>2. /\ scan' \in [Threads -> Scans] /\ scan'[t].offset = 0
          /\ \A u \in Threads \ {t} : scan'[u] = scan[u]
      BY <1>1, <2>1, ScannedFacts
    <2>3. QED
      BY <1>1, <1>3, <1>4, <2>1, <2>2
  <1>10. CASE OpenCursor(t)
    <2>1. /\ pc[t] = "start" /\ Scanned(t, View("async")) /\ View("async") \in Contents
          /\ UNCHANGED <<data, work>> /\ Reading("async") /\ Conn(t) = "async"
      BY <1>1, <1>10, ViewType DEF OpenCursor, Starts, Conns
    <2>2. /\ scan' \in [Threads -> Scans] /\ scan'[t].offset = 0
          /\ \A u \in Threads \ {t} : scan'[u] = scan[u]
      BY <1>1, <2>1, ScannedFacts
    <2>3. \A u \in Threads \ {t} : todo'[u] = todo[u]
      <3>1. todo \in [Threads -> SUBSET Keys]
        BY <1>1 DEF Shape, TypeOK
      <3>2. QED
        BY <1>6, <1>10, <3>1 DEF OpenCursor, Visit
    <2>4. QED
      BY <1>1, <1>3, <1>4, <2>1, <2>2, <2>3
  <1>11. CASE NextPage(t)
    <2>1. /\ pc[t] = "page" /\ Page(t, View("sync")) /\ View("sync") \in Contents
          /\ UNCHANGED <<data, work>> /\ Reading("sync") /\ Conn(t) = "sync"
      BY <1>1, <1>11, ViewType DEF NextPage, Conns, SqlPhase
    <2>2. /\ scan' \in [Threads -> Scans]
          /\ \A u \in Threads \ {t} : scan'[u] = scan[u]
          /\ scan'[t].offset <= Cardinality(Keys) + BatchSize
          /\ \/ End(t, KV!Ok)
             \/ UNCHANGED <<task, reads>> /\ scan'[t].offset <= Cardinality(Keys)
      BY <1>1, <2>1, PageFacts DEF SqlScan
    <2>3. pc'[t] = "page" => scan'[t].offset <= Cardinality(Keys)
      BY <1>1, <2>2 DEF End
    <2>4. \A u \in Threads \ {t} : todo'[u] = todo[u]
      BY <1>6, <2>2 DEF reads
    <2>5. QED
      BY <1>1, <1>3, <1>4, <2>1, <2>2, <2>3, <2>4
  <1>12. CASE NextRow(t)
    <2>1. /\ UNCHANGED <<data, work, txn>> /\ pc[t] = "cursor"
          /\ UNCHANGED scan \/ \E K : Yields(t, K)
          /\ (\E a : End(t, a)) \/ ((\E k : Visited(t, k)) /\ UNCHANGED task)
      BY <1>12 DEF NextRow, connections
    <2>2. /\ scan' \in [Threads -> Scans] /\ scan'[t].offset = scan[t].offset
          /\ \A u \in Threads \ {t} : scan'[u] = scan[u]
      BY <1>1, <2>1, YieldsFacts
    <2>3. \A u \in Threads \ {t} : todo'[u] = todo[u]
      <3>1. todo \in [Threads -> SUBSET Keys]
        BY <1>1 DEF Shape, TypeOK
      <3>2. QED
        BY <1>6, <2>1, <3>1 DEF Visited
    <2>4. QED
      BY <1>1, <1>2, <1>3, <1>4, <2>1, <2>2, <2>3
  <1>13. CASE Insert(t)
    <2> DEFINE w == Writing(t)
    <2>1. /\ w \in Writes /\ ~Spoiled(w) /\ CanWrite(Conn(t)) /\ Written(Conn(t), w)
          /\ UNCHANGED data /\ pc[t] = "insert" /\ Ahead(Conn(t), w)
          /\ \E phase \in {"commit", "written"} : GoTo(t, phase)
      BY <1>1, <1>13, WritingType DEF Insert
    <2> HIDE DEF w
    <2>2. pc'[t] # "page"
      BY <1>1, <2>1 DEF GoTo
    <2>3. ASSUME NEW u \in Threads \ {t}
          PROVE  \/ todo'[u] = todo[u]
                 \/ /\ Conn(u) = Conn(t)
                    /\ todo'[u] = todo[u] \cup {k \in DOMAIN w : w[k] # Absent}
      BY <2>1 DEF Ahead
    <2>4. QED
      BY <1>1, <2>1, <2>2, <2>3, SqlWritten
  <1>14. CASE RefuseRow(t)
    <2>1. pc[t] = "insert" /\ UNCHANGED data /\ pc'[t] = "idle"
          /\ \A u \in Threads \ {t} : todo'[u] = todo[u]
      BY <1>1, <1>6, <1>14 DEF RefuseRow, Raise, Return, Leave, End
    <2>2. PICK K \in SUBSET {k \in DOMAIN Writing(t) : Writing(t)[k] \notin Unstorable} :
            \/ CanWrite(Conn(t)) /\ Written(Conn(t), [k \in K |-> Writing(t)[k]])
            \/ /\ txn' = [txn EXCEPT ![Conn(t)] = IF @ = "none" THEN "open" ELSE @]
               /\ UNCHANGED <<work, scan>>
      BY <1>14 DEF RefuseRow
    <2>3. CASE CanWrite(Conn(t)) /\ Written(Conn(t), [k \in K |-> Writing(t)[k]])
      <3> DEFINE w == [k \in K |-> Writing(t)[k]]
      <3>1. w \in Writes /\ ~Spoiled(w)
        <4>1. Writing(t) \in Writes
          BY <1>1, WritingType
        <4>2. K \in SUBSET Keys /\ \A k \in K : Writing(t)[k] \in Slot
          BY <4>1, ItemsDef
        <4>3. w \in [K -> Slot] /\ \A k \in K : w[k] \notin Unstorable
          BY <4>2
        <4>4. QED
          BY <4>2, <4>3, ItemsDef DEF Spoiled
      <3> HIDE DEF w
      <3>2. CanWrite(Conn(t)) /\ Written(Conn(t), w)
        BY <2>3 DEF w
      <3>3. QED
        BY <1>1, <2>1, <3>1, <3>2, SqlWritten
    <2>4. CASE /\ txn' = [txn EXCEPT ![Conn(t)] = IF @ = "none" THEN "open" ELSE @]
               /\ UNCHANGED <<work, scan>>
      BY <1>1, <1>2, <1>3, <1>5, <2>1, <2>4
    <2>5. QED
      BY <2>2, <2>3, <2>4
  <1>15. CASE Commit(t)
    <2> DEFINE c == Conn(t)
               o == Other(c)
    <2>1. /\ data' \in [Keys -> Slot \ Unstorable] /\ work' \in [Conns -> Writes]
          /\ \A d \in Conns : ~Spoiled(work'[d])
          /\ txn' \in [Conns -> TxnStates] /\ OneWriter'
          /\ View(c)' = View(c) /\ View(o)' = Stored(View(o), work[c])
          /\ scan' \in [Threads -> Scans]
          /\ \A u \in Threads :
               /\ scan'[u] = IF pc[u] \in ScanPhases /\ Conn(u) = o
                             THEN Noted(scan[u], View(o), work[c]) ELSE scan[u]
               /\ scan'[u].offset = scan[u].offset
      BY <1>15, CommitFacts
    <2>2. pc'[t] # "page" /\ \A u \in Threads \ {t} : todo'[u] = todo[u]
      BY <1>1, <1>6, <1>15 DEF Commit, Return, Leave, End
    <2>3. work[c] \in Writes /\ o # c
      BY <1>1, SqlBounds DEF Other
    <2>4. ASSUME NEW u \in Threads \ {t} PROVE NoticedBy(u, View(Conn(u)), View(Conn(u))')
      <3>1. /\ Conn(u) \in {c, o} /\ Conn(u)' = Conn(u) /\ c' = c /\ o' = o
            /\ todo'[u] = todo[u]
        BY <1>1, <2>2 DEF Conn, Other
      <3> HIDE DEF c, o
      <3>2. CASE Conn(u) = c
        <4>1. View(Conn(u))' = View(Conn(u)) /\ scan'[u] = scan[u]
          BY <2>1, <2>3, <3>1, <3>2 DEF View
        <4>2. QED
          BY <3>1, <4>1 DEF NoticedBy
      <3>3. CASE Conn(u) = o
        <4>1. /\ View(Conn(u))' = Stored(View(Conn(u)), work[c])
              /\ scan'[u] = IF pc[u] \in ScanPhases
                            THEN Noted(scan[u], View(Conn(u)), work[c]) ELSE scan[u]
          BY <2>1, <2>3, <3>1, <3>3 DEF View
        <4>2. QED
          BY <2>3, <3>1, <4>1 DEF NoticedBy
      <3>4. QED
        BY <3>1, <3>2, <3>3
    <2> HIDE DEF c, o
    <2>5. QED
      BY <1>1, <2>1, <2>2, <2>4 DEF SqlFrame
  <1>16. QED
    BY <1>7, <1>8, <1>9, <1>10, <1>11, <1>12, <1>13, <1>14, <1>15 DEF OnSql, Step

LEMMA SqlShapeKept ==
    ASSUME NEW t \in Threads, OnSql(t)
    PROVE  Shape'
  <1>1. /\ Shape /\ Task(t) /\ Reads(t) /\ Busy(t) /\ pc'[t] # "start" /\ SqlFrame(t)
        /\ \A u \in Threads \ {t} : pc[u] # "cursor" => todo'[u] = todo[u]
        /\ UNCHANGED <<site, crashes>>
        /\ lock' \in Threads \cup {NoThread} /\ awrite' \in Threads \cup {NoThread}
    BY SqlTask, SqlFrameKept, SqlLocks DEF OnSql
  <1>2. failed \in [Conns -> BOOLEAN] /\ Conn(t) \in Conns
    BY ConnType DEF OnSql, Shape, TypeOK
  <1>3. \/ failed' = failed
        \/ \E b \in BOOLEAN : failed' = [failed EXCEPT ![Conn(t)] = b]
    BY DEF OnSql, Step, SQLiteNothingToDo, Enter, Select, Fetch, StartPages, NextPage,
       OpenCursor, NextRow, Check, Get, Skip, Insert, RefuseBatch, RefuseRow, Resume,
       Commit, WaitForReaders, ReadTimesOut, WriteTimesOut, Raise, connections
  <1>4. failed' \in [Conns -> BOOLEAN]
    BY <1>2, <1>3
  <1>5. site.backend = "sqlite"
    BY DEF OnSql
  <1>6. QED
    BY <1>1, <1>4, <1>5, ShapeKept DEF SqlFrame

LEMMA SqlPhaseKept ==
    ASSUME NEW t \in Threads, OnSql(t)
    PROVE  \A u \in Threads : SqlPhase(u)'
  <1>1. /\ Shape /\ SqlPhase(t) /\ Task(t) /\ Reads(t) /\ Busy(t) /\ UNCHANGED site
        /\ call' = call /\ DOMAIN pc = Threads /\ Conn(t) \in Conns
        /\ want \in [Threads -> Keys \cup {NoKey}] /\ got \in [Threads -> Writes]
        /\ (pc[t] = "start" => DOMAIN got[t] = {})
        /\ call[t].op \in KV!LifecycleOps \cup KV!WriteOps \cup KV!ReadOps
    <2>1. call[t] \in KV!Request
      BY DEF OnSql, Shape, TypeOK
    <2>2. QED
      BY <2>1, SqlTask, ConnType, RequestType
         DEF OnSql, SqlInv, Task, Shape, TypeOK, ShapeOf, Rested, Nothing
  <1>2. ASSUME NEW u \in Threads \ {t} PROVE SqlPhase(u)'
    <2>1. /\ pc'[u] = pc[u] /\ call'[u] = call[u] /\ got'[u] = got[u]
          /\ want'[u] = want[u] /\ (lock = u => lock' = u) /\ (awrite = u => awrite' = u)
          /\ SqlPhase(u) /\ Conn(u)' = Conn(u)
      BY <1>1, SqlLocks DEF Task, Reads, OnSql, SqlInv, Conn
    <2>2. Conditional(call[u])' <=> Conditional(call[u])
      BY <2>1
    <2>3. QED
      BY <2>1, <2>2 DEF SqlPhase
  <1>3. SUFFICES SqlPhase(t)'
    BY <1>2
  <1>4. Conn(t)' = Conn(t) /\ (Conditional(call[t])' <=> Conditional(call[t]))
    BY <1>1 DEF Conn
  <1>5. ASSUME pc'[t] = "idle", want'[t] = NoKey PROVE SqlPhase(t)'
    BY <1>1, <1>5 DEF SqlPhase
  <1>6. \A a : (End(t, a) \/ Leave(t, a) \/ Return(t, a) \/ Raise(t, a)) => SqlPhase(t)'
    BY <1>1, <1>5 DEF End, Leave, Return, Raise
  <1>7. \A phase : GoTo(t, phase) => pc'[t] = phase
    BY <1>1 DEF GoTo
  <1>8. CASE SQLiteNothingToDo(t) \/ Fetch(t) \/ Skip(t) \/ RefuseBatch(t) \/ RefuseRow(t)
             \/ Commit(t) \/ ReadTimesOut(t) \/ WriteTimesOut(t)
    BY <1>6, <1>8 DEF SQLiteNothingToDo, NothingToDo, Fetch, Skip, RefuseBatch, RefuseRow,
       Commit, ReadTimesOut, WriteTimesOut
  <1>9. CASE Enter(t)
    <2>1. /\ pc[t] = "start" /\ call[t].op # "iter_batches"
          /\ call[t].op \in KV!ReadOps \cup KV!WriteOps /\ pc'[t] = Phase(call[t])
          /\ UNCHANGED <<got, want>>
          /\ lock' = IF Conn(t) = "sync" THEN t ELSE lock
          /\ awrite' = IF Conn(t) = "async" /\ Conditional(call[t]) THEN t ELSE awrite
      BY <1>7, <1>9 DEF Enter, Starts, reads
    <2>2. \/ pc'[t] = "select" /\ call[t].op \in KV!ReadOps
          \/ pc'[t] = "check" /\ Conditional(call[t]) /\ call[t].op \in KV!WriteOps
          \/ pc'[t] = "insert" /\ ~Conditional(call[t]) /\ call[t].op \in KV!WriteOps
      BY <2>1 DEF Phase, Conditional, KV!ReadOps, KV!WriteOps
    <2>3. QED
      BY <1>1, <1>4, <2>1, <2>2 DEF SqlPhase, Conns
  <1>10. CASE Select(t)
    <2>1. CASE \E v : Return(t, v)
      BY <1>6, <2>1
    <2>2. CASE ~\E v : Return(t, v)
      <3>1. pc[t] = "select" /\ Conn(t) = "async" /\ pc'[t] = "fetch" /\ UNCHANGED want
        BY <1>7, <1>10, <2>2 DEF Select
      <3>2. QED
        BY <1>1, <1>4, <3>1 DEF SqlPhase
    <2>3. QED
      BY <2>1, <2>2
  <1>11. CASE StartPages(t)
    <2>1. pc'[t] = "page" /\ Conn(t) = "sync" /\ UNCHANGED want /\ call[t].op = "iter_batches"
      BY <1>7, <1>11 DEF StartPages, Starts, reads
    <2>2. QED
      BY <1>1, <1>4, <2>1 DEF SqlPhase
  <1>12. CASE NextPage(t)
    <2>1. pc[t] = "page" /\ (End(t, KV!Ok) \/ UNCHANGED <<pc, want>>)
      BY <1>12 DEF NextPage, Page, task, reads
    <2>2. CASE UNCHANGED <<pc, want>>
      BY <1>1, <1>4, <2>1, <2>2 DEF SqlPhase
    <2>3. QED
      BY <1>6, <2>1, <2>2
  <1>13. CASE OpenCursor(t)
    <2>1. /\ Conn(t) = "async" /\ call[t].op = "iter_batches"
          /\ End(t, KV!Ok) \/ (pc'[t] = "cursor" /\ UNCHANGED want)
      BY <1>7, <1>13 DEF OpenCursor, Starts, Visit
    <2>2. CASE pc'[t] = "cursor" /\ UNCHANGED want
      BY <1>1, <1>4, <2>1, <2>2 DEF SqlPhase
    <2>3. QED
      BY <1>6, <2>1, <2>2
  <1>14. CASE NextRow(t)
    <2>1. pc[t] = "cursor" /\ (End(t, KV!Ok) \/ UNCHANGED <<pc, want>>)
      BY <1>14 DEF NextRow, task
    <2>2. CASE UNCHANGED <<pc, want>>
      BY <1>1, <1>4, <2>1, <2>2 DEF SqlPhase
    <2>3. QED
      BY <1>6, <2>1, <2>2
  <1>15. CASE Check(t)
    <2>1. CASE Return(t, KV!KeyError)
      BY <1>6, <2>1
    <2>2. CASE ~Return(t, KV!KeyError)
      <3>1. /\ pc[t] = "check" /\ pc'[t] \in {"get", "insert"}
            /\ UNCHANGED <<lock, awrite, want>>
        BY <1>7, <1>15, <2>2 DEF Check
      <3>2. QED
        BY <1>1, <1>4, <3>1 DEF SqlPhase
    <2>3. QED
      BY <2>1, <2>2
  <1>16. CASE Get(t)
    <2>1. /\ pc[t] = "get" /\ pc'[t] \in {"get", "insert"} /\ UNCHANGED <<lock, awrite, want>>
      BY <1>7, <1>16 DEF Get
    <2>2. QED
      BY <1>1, <1>4, <2>1 DEF SqlPhase
  <1>17. CASE Insert(t)
    <2>1. /\ pc[t] = "insert" /\ UNCHANGED <<lock, awrite, want>>
          /\ pc'[t] = IF Conn(t) = "sync" THEN "commit" ELSE "written"
      BY <1>7, <1>17 DEF Insert
    <2>2. QED
      BY <1>1, <1>4, <2>1 DEF SqlPhase, Conns
  <1>18. CASE Resume(t)
    <2>1. pc[t] = "written" /\ UNCHANGED <<lock, awrite, want>> /\ pc'[t] = "commit"
      BY <1>7, <1>18 DEF Resume, reads, connections
    <2>2. QED
      BY <1>1, <1>4, <2>1 DEF SqlPhase
  <1>19. CASE WaitForReaders(t)
    <2>1. pc[t] = "commit" /\ UNCHANGED <<lock, awrite, want, pc>>
      BY <1>19 DEF WaitForReaders, reads, task
    <2>2. QED
      BY <1>1, <1>4, <2>1 DEF SqlPhase
  <1>20. QED
    BY <1>8, <1>9, <1>10, <1>11, <1>12, <1>13, <1>14, <1>15, <1>16, <1>17, <1>18, <1>19
       DEF OnSql, Step

\* What an open cursor owes its caller.
CursorDone(s) ==
    \A k \in Keys : /\ s.yields[k] = 0 => k \notin s.stable
                    /\ s.yields[k] = 2 => k \in s.added \cup s.rewritten

\* The cursor yields a row.
LEMMA CursorRead ==
    ASSUME NEW s \in Scans, NEW d, NEW ahead, NEW k \in ahead, Cursor(s, d, ahead)
    PROVE  Cursor(Yielding(s, {k}), d, ahead \ {k})
  <1> DEFINE y == Yielding(s, {k})
  <1>1. /\ y.stable = s.stable /\ y.added = s.added /\ y.rewritten = s.rewritten
        /\ \A i \in Keys : /\ s.yields[i] \in 0..2
                           /\ y.yields[i] = IF i \in {k} /\ s.yields[i] < 2
                                            THEN s.yields[i] + 1 ELSE s.yields[i]
    BY YieldingFacts
  <1> HIDE DEF y
  <1>2. y.stable \subseteq Present(d)
    BY <1>1 DEF Cursor
  <1>3. ASSUME NEW i \in Keys
        PROVE  /\ i \in y.stable => i \in ahead \ {k} \/ y.yields[i] # 0
               /\ y.yields[i] = 2 \/ (y.yields[i] # 0 /\ i \in ahead \ {k}) =>
                        i \in y.added \cup y.rewritten
    <2>1. /\ i \in s.stable => i \in ahead \/ s.yields[i] # 0
          /\ s.yields[i] = 2 \/ (s.yields[i] # 0 /\ i \in ahead) =>
                i \in s.added \cup s.rewritten
      BY DEF Cursor
    <2>2. CASE i = k
      BY <1>1, <2>1, <2>2
    <2>3. CASE i # k
      BY <1>1, <2>1, <2>3
    <2>4. QED
      BY <2>2, <2>3
  <1>4. QED
    BY <1>2, <1>3 DEF Cursor, y

\* It has passed over all the rows.
LEMMA CursorEnds ==
    ASSUME NEW s \in Scans, NEW d, NEW ahead, ahead \cap Present(d) = {}, Cursor(s, d, ahead)
    PROVE  CursorDone(s)
  BY DEF Cursor, CursorDone

LEMMA SqlScanKept ==
    ASSUME NEW t \in Threads, OnSql(t), \A u \in Threads : ScanEnded(u)
    PROVE  \A u \in Threads : SqlScan(u)' /\ ScanEnded(u)'
  <1>1. /\ Shape /\ SqlPhase(t) /\ Task(t) /\ Busy(t) /\ SqlScan(t) /\ ScanEnded(t)
        /\ UNCHANGED <<site, crashes>> /\ site.backend = "sqlite" /\ call' = call
        /\ scan[t] \in Scans /\ DOMAIN pc = Threads /\ Conn(t)' = Conn(t)
        /\ todo \in [Threads -> SUBSET Keys]
        /\ View("sync") \in Contents /\ View("async") \in Contents
    <2>1. "sync" \in Conns /\ "async" \in Conns
      BY DEF Conns
    <2>2. QED
      BY <2>1, ViewType, SqlTask DEF OnSql, SqlInv, Task, Shape, TypeOK, Conn
  <1>2. ASSUME NEW u \in Threads \ {t} PROVE SqlScan(u)' /\ ScanEnded(u)'
    <2>1. /\ SqlFrame(t) /\ SqlPhase(u) /\ SqlScan(u) /\ ScanEnded(u) /\ pc'[u] = pc[u]
          /\ scan[u] \in Scans /\ Conn(u)' = Conn(u)
          /\ NoticedBy(u, View(Conn(u)), View(Conn(u))')
          /\ pc[u] \notin ScanPhases => scan'[u] = scan[u]
      BY <1>1, SqlFrameKept DEF OnSql, SqlInv, Task, Shape, SqlFrame, Conn
    <2>2. ScanEnded(u)'
      BY <1>1, <2>1, ScanEndedStays
    <2>3. ASSUME pc[u] = "page" PROVE PageScan(u, View("sync"))'
      <3>1. NoticedBy(u, View("sync"), View("sync")')
        BY <2>1, <2>3 DEF SqlPhase, View
      <3>2. PageScan(u, View("sync"))
        BY <2>1 DEF SqlScan
      <3>3. Pages(scan'[u], View("sync")')
        <4> DEFINE d == View("sync")
        <4>1. d \in Contents /\ PageScan(u, d) /\ NoticedBy(u, d, d')
          BY <1>1, <3>1, <3>2
        <4> HIDE DEF d
        <4>2. Pages(scan'[u], d')
          BY <1>1, <2>1, <2>3, <4>1, PageScanStays
        <4>3. QED
          BY <4>2 DEF d
      <3>4. QED
        BY <3>3 DEF PageScan
    <2>4. ASSUME pc[u] = "cursor" PROVE Cursor(scan'[u], View("async")', todo'[u])
      <3> DEFINE d == View("async")
      <3>1. NoticedBy(u, d, d') /\ d \in Contents /\ Cursor(scan[u], d, todo[u])
        BY <1>1, <2>1, <2>4 DEF SqlPhase, View, SqlScan
      <3> HIDE DEF d
      <3>2. CASE d' = d /\ scan'[u] = scan[u] /\ todo'[u] = todo[u]
        BY <3>1, <3>2 DEF d
      <3>3. ASSUME NEW w \in Writes, d' = Stored(d, w), scan'[u] = Noted(scan[u], d, w),
                   todo[u] \subseteq todo'[u],
                   todo'[u] \subseteq todo[u] \cup {k \in DOMAIN w : w[k] # Absent}
            PROVE  Cursor(scan'[u], d', todo'[u])
        BY <2>1, <3>1, <3>3, CursorNoted
      <3>4. Cursor(scan'[u], d', todo'[u])
        <4>1. pc[u] \in ScanPhases
          BY <2>4 DEF ScanPhases
        <4>2. QED
          BY <3>1, <3>2, <3>3, <4>1 DEF NoticedBy, d
      <3>5. QED
        BY <3>4 DEF d
    <2>5. QED
      BY <2>1, <2>2, <2>3, <2>4 DEF SqlScan, PageScan
  <1>3. SUFFICES SqlScan(t)' /\ ScanEnded(t)'
    BY <1>2
  <1>4. ASSUME pc'[t] # "idle" PROVE ScanEnded(t)'
    <2>1. answer'[t] = KV!NoAnswer /\ KV!Ok # KV!NoAnswer
      BY <1>1, <1>4 DEF Task, KV!Ok, KV!NoAnswer
    <2>2. QED
      BY <2>1 DEF ScanEnded
  <1>5. ASSUME NEW a, a # KV!NoAnswer, End(t, a), call[t].op = "iter_batches" => a # KV!Ok
        PROVE  SqlScan(t)' /\ ScanEnded(t)'
    <2>1. pc'[t] = "idle" /\ answer'[t] = a
      BY <1>1, <1>5, Ways
    <2>2. QED
      BY <1>1, <1>5, <2>1 DEF SqlScan, PageScan, ScanEnded
  <1>6. ASSUME pc'[t] \notin {"idle", "page", "cursor"} PROVE SqlScan(t)' /\ ScanEnded(t)'
    BY <1>4, <1>6 DEF SqlScan, PageScan
  <1>7. \A a : a # KV!NoAnswer /\ End(t, a) => pc'[t] = "idle" /\ answer'[t] = a
    BY <1>1, Ways
  <1>8. KV!Ok # KV!NoAnswer /\ KV!KeyError # KV!NoAnswer /\ Failed # KV!NoAnswer
        /\ Failed # KV!Ok
    BY DEF KV!Ok, KV!KeyError, Failed, KV!NoAnswer
  <1>9. \A phase : GoTo(t, phase) => pc'[t] = phase
    BY <1>1 DEF GoTo
  <1>10. CASE StartPages(t)
    <2> DEFINE d == View("sync")
    <2>1. pc[t] = "start" /\ pc'[t] = "page" /\ Scanned(t, d) /\ d' = d
      BY <1>9, <1>10 DEF StartPages, Starts, View, connections
    <2> HIDE DEF d
    <2>2. /\ scan'[t].stable = Present(d) /\ scan'[t].offset = 0
          /\ \A k \in Keys : scan'[t].yields[k] = 0
      BY <1>1, <2>1, ScannedFacts DEF d
    <2>3. \A k \in Present(d) : Before(d, k) \in Nat
      BY Position DEF Before, Present
    <2>4. Pages(scan'[t], d')
      BY <2>1, <2>2, <2>3 DEF Pages
    <2>5. QED
      BY <1>4, <2>1, <2>4 DEF SqlScan, PageScan, d
  <1>11. CASE NextPage(t)
    <2> DEFINE d == View("sync")
    <2>1. /\ pc[t] = "page" /\ Page(t, d) /\ d' = d /\ PageScan(t, d) /\ Conn(t) = "sync"
          /\ call[t].op = "iter_batches" /\ d \in Contents
      BY <1>1, <1>11 DEF NextPage, View, SqlScan, SqlPhase
    <2> HIDE DEF d
    <2>2. \/ End(t, KV!Ok) /\ PagesDone(scan'[t])
          \/ UNCHANGED task /\ Pages(scan'[t], d)
      BY <1>1, <2>1, PageFacts
    <2>3. CASE End(t, KV!Ok) /\ PagesDone(scan'[t])
      BY <1>1, <1>7, <1>8, <2>1, <2>3 DEF SqlScan, PageScan, ScanEnded, PagesDone
    <2>4. CASE UNCHANGED task /\ Pages(scan'[t], d)
      BY <1>4, <2>1, <2>4 DEF task, SqlScan, PageScan, d
    <2>5. QED
      BY <2>2, <2>3, <2>4
  <1>12. CASE OpenCursor(t)
    <2> DEFINE d == View("async")
    <2>1. /\ pc[t] = "start" /\ Scanned(t, d) /\ d' = d /\ Conn(t) = "async" /\ d \in Contents
          /\ IF Present(d) = {} THEN End(t, KV!Ok) ELSE Visit(t, "cursor", Present(d))
      BY <1>1, <1>12 DEF OpenCursor, Starts, View
    <2> HIDE DEF d
    <2>2. /\ scan'[t].stable = Present(d)
          /\ \A k \in Keys : scan'[t].yields[k] = 0
      BY <1>1, <2>1, ScannedFacts
    <2>3. CASE End(t, KV!Ok) /\ Present(d) = {}
      BY <1>1, <1>7, <1>8, <2>1, <2>2, <2>3 DEF SqlScan, PageScan, ScanEnded
    <2>4. CASE Visit(t, "cursor", Present(d))
      <3>1. pc'[t] = "cursor" /\ todo'[t] = Present(d)
        BY <1>1, <1>9, <2>4 DEF Visit
      <3>2. Cursor(scan'[t], d', todo'[t])
        BY <2>1, <2>2, <3>1 DEF Cursor
      <3>3. QED
        BY <1>4, <3>1, <3>2 DEF SqlScan, PageScan, d
    <2>5. QED
      BY <2>1, <2>3, <2>4
  <1>13. CASE NextRow(t)
    <2> DEFINE d == View("async")
               rows == todo[t] \cap Present(d)
    <2>1. /\ pc[t] = "cursor" /\ d' = d /\ Conn(t) = "async" /\ Cursor(scan[t], d, todo[t])
          /\ \/ rows = {} /\ End(t, KV!Ok) /\ UNCHANGED scan
             \/ \E k \in rows :
                  /\ Yields(t, {k})
                  /\ IF rows = {k} THEN End(t, KV!Ok)
                     ELSE Visited(t, k) /\ UNCHANGED task
      BY <1>1, <1>13 DEF NextRow, View, SqlPhase, SqlScan, connections
    <2> HIDE DEF d
    <2>2. ASSUME End(t, KV!Ok), CursorDone(scan'[t])
          PROVE  SqlScan(t)' /\ ScanEnded(t)'
      BY <1>1, <1>7, <1>8, <2>1, <2>2 DEF SqlScan, PageScan, ScanEnded, CursorDone
    <2>3. CASE rows = {} /\ End(t, KV!Ok) /\ UNCHANGED scan
      BY <1>1, <2>1, <2>2, <2>3, CursorEnds
    <2>4. ASSUME NEW k \in rows, Yields(t, {k}), rows = {k}, End(t, KV!Ok)
          PROVE  SqlScan(t)' /\ ScanEnded(t)'
      <3> DEFINE y == Yielding(scan[t], {k})
                 more == todo[t] \ {k}
      <3>1. scan'[t] = y /\ scan'[t] \in Scans
        BY <1>1, <2>4, YieldsFacts
      <3>2. Cursor(y, d, more)
        BY <1>1, <2>1, <2>4, CursorRead
      <3>3. more \cap Present(d) = {}
        BY <2>4
      <3> HIDE DEF y, more
      <3>4. CursorDone(scan'[t])
        BY <3>1, <3>2, <3>3, CursorEnds
      <3>5. QED
        BY <2>2, <2>4, <3>4
    <2>5. ASSUME NEW k \in rows, Yields(t, {k}), Visited(t, k), UNCHANGED task
          PROVE  SqlScan(t)' /\ ScanEnded(t)'
      <3>1. scan'[t] = Yielding(scan[t], {k})
        BY <1>1, <2>5, YieldsFacts
      <3>2. Cursor(Yielding(scan[t], {k}), d, todo[t] \ {k})
        BY <1>1, <2>1, <2>5, CursorRead
      <3>3. todo'[t] = todo[t] \ {k} /\ pc'[t] = "cursor"
        BY <1>1, <2>1, <2>5 DEF Visited, task
      <3>4. Cursor(scan'[t], d', todo'[t])
        BY <2>1, <3>1, <3>2, <3>3
      <3>5. QED
        BY <1>4, <3>3, <3>4 DEF SqlScan, PageScan, d
    <2>6. QED
      BY <2>1, <2>3, <2>4, <2>5
  <1>14. ASSUME NEW a, a # KV!NoAnswer, Return(t, a), call[t].op # "iter_batches" \/ a # KV!Ok
         PROVE  SqlScan(t)' /\ ScanEnded(t)'
    BY <1>5, <1>14 DEF Return, Leave
  <1>15. \A v : KV!Returns(v) # KV!NoAnswer
    <2>1. \A v : KV!Returns(v).kind # KV!NoAnswer.kind
      BY DEF KV!Returns, KV!NoAnswer
    <2>2. QED
      BY <2>1
  <1>16. CASE SQLiteNothingToDo(t)
    <2>1. call[t].op # "iter_batches"
      BY <1>16 DEF SQLiteNothingToDo, NothingToDo, Empty
    <2>2. \A r, d : KV!Answer(r, d) # KV!NoAnswer
      BY <1>8, <1>15 DEF KV!Answer
    <2>3. QED
      BY <1>5, <1>16, <2>1, <2>2 DEF SQLiteNothingToDo, NothingToDo
  <1>17. CASE Fetch(t) \/ Skip(t) \/ Commit(t)
    <2>1. call[t].op # "iter_batches"
      BY <1>1, <1>17 DEF Fetch, Skip, Commit, SqlPhase, KV!WriteOps
    <2>2. QED
      BY <1>8, <1>14, <1>15, <1>17, <2>1 DEF Fetch, Skip, Commit
  <1>18. CASE RefuseBatch(t) \/ RefuseRow(t) \/ ReadTimesOut(t) \/ WriteTimesOut(t)
    BY <1>8, <1>14, <1>18 DEF RefuseBatch, RefuseRow, ReadTimesOut, WriteTimesOut, Raise
  <1>19. CASE Enter(t) \/ Resume(t) \/ Insert(t)
    <2>1. pc'[t] \notin {"idle", "page", "cursor"}
      BY <1>9, <1>19 DEF Enter, Resume, Insert, Phase
    <2>2. QED
      BY <1>6, <2>1
  <1>20. CASE Select(t)
    <2>1. call[t].op # "iter_batches"
      BY <1>1, <1>20 DEF Select, SqlPhase
    <2>2. (\E v : Return(t, KV!Returns(v))) \/ GoTo(t, "fetch")
      BY <1>20 DEF Select
    <2>3. QED
      BY <1>6, <1>9, <1>14, <1>15, <2>1, <2>2
  <1>21. CASE Check(t)
    <2>1. Return(t, KV!KeyError) \/ \E phase \in {"get", "insert"} : GoTo(t, phase)
      BY <1>21 DEF Check
    <2>2. call[t].op # "iter_batches"
      BY <1>1, <1>21 DEF Check, SqlPhase, KV!WriteOps
    <2>3. QED
      BY <1>6, <1>8, <1>9, <1>14, <2>1, <2>2
  <1>22. CASE Get(t)
    <2>1. pc'[t] \in {"get", "insert"}
      BY <1>9, <1>22 DEF Get
    <2>2. QED
      BY <1>6, <2>1
  <1>23. CASE WaitForReaders(t)
    <2>1. pc'[t] = "commit"
      BY <1>23 DEF WaitForReaders, task
    <2>2. QED
      BY <1>6, <2>1
  <1>24. QED
    BY <1>10, <1>11, <1>12, <1>13, <1>16, <1>17, <1>18, <1>19, <1>20, <1>21, <1>22, <1>23
       DEF OnSql, Step

(* Where the callers of a SQLite store are serialized, what a batch has read *)
(* is so until it writes.                                                  *)
SqlCurrent(t) ==
    LET d == View(Conn(t)) IN
    Conditional(call[t]) /\ pc[t] \in {"get", "insert"} =>
        /\ found[t] = Conflicts(call[t].items, Present(d))
        /\ \A k \in DOMAIN got[t] : got[t][k] = d[k]

\* Serialized callers write one after the other.
LEMMA SqlAlone ==
    ASSUME NEW t \in Threads, OnSql(t), Serialized, NEW u \in Threads \ {t},
           Conditional(call[u]), pc[u] \in {"get", "insert"}
    PROVE  UNCHANGED <<data, work>>
  <1>1. /\ Shape /\ SqlPhase(t) /\ SqlPhase(u) /\ Busy(t) /\ t # u
        /\ site.backend = "sqlite"
    BY SqlTask DEF OnSql, SqlInv
  <1>2. SUFFICES ASSUME Insert(t) \/ RefuseRow(t) \/ Commit(t) PROVE FALSE
    BY DEF OnSql, Step, SQLiteNothingToDo, NothingToDo, Enter, Select, Fetch, StartPages,
       NextPage, OpenCursor, NextRow, Check, Get, Skip, Insert, RefuseBatch, RefuseRow, Resume,
       Commit, WaitForReaders, ReadTimesOut, WriteTimesOut, connections
  <1>3. pc[t] \in {"insert", "commit"} /\ call[t].op \in KV!WriteOps
    BY <1>1, <1>2 DEF Insert, RefuseRow, Commit, SqlPhase
  <1>4. CASE \A v \in Threads : Conn(v) = "sync"
    BY <1>1, <1>3, <1>4 DEF SqlPhase
  <1>5. CASE (\A r \in Writers : Conditional(r)) /\ (\A v \in Threads : Conn(v) = "async")
    <2>1. call[t] \in site.calls[t]
      BY <1>1 DEF Shape, ShapeOf, Busy
    <2>2. call[t] \in Writers
      BY <1>3, <2>1 DEF Writers, Calls
    <2>3. QED
      BY <1>1, <1>3, <1>5, <2>2 DEF SqlPhase
  <1>6. QED
    BY <1>1, <1>4, <1>5 DEF Serialized

LEMMA SqlCurrentKept ==
    ASSUME NEW t \in Threads, OnSql(t), Serialized, \A u \in Threads : SqlCurrent(u)
    PROVE  \A u \in Threads : SqlCurrent(u)'
  <1>1. /\ Shape /\ SqlPhase(t) /\ Task(t) /\ Reads(t) /\ Busy(t) /\ SqlCurrent(t)
        /\ UNCHANGED site /\ call' = call /\ DOMAIN pc = Threads
        /\ found \in [Threads -> SUBSET Keys] /\ got \in [Threads -> Writes]
    BY SqlTask DEF OnSql, SqlInv, Task, Shape, TypeOK
  <1>2. ASSUME NEW u \in Threads \ {t} PROVE SqlCurrent(u)'
    <2>1. /\ pc'[u] = pc[u] /\ call'[u] = call[u] /\ found'[u] = found[u] /\ got'[u] = got[u]
          /\ Conn(u)' = Conn(u) /\ SqlCurrent(u)
      BY <1>1 DEF Task, Reads, Conn
    <2>2. CASE Conditional(call[u]) /\ pc[u] \in {"get", "insert"}
      <3>1. UNCHANGED <<data, work>>
        BY <2>2, SqlAlone
      <3>2. View(Conn(u))' = View(Conn(u))
        BY <2>1, <3>1 DEF View
      <3>3. QED
        BY <2>1, <2>2, <3>2 DEF SqlCurrent
    <2>3. CASE ~(Conditional(call[u]) /\ pc[u] \in {"get", "insert"})
      BY <2>1, <2>3 DEF SqlCurrent, Conditional
    <2>4. QED
      BY <2>2, <2>3
  <1>3. SqlCurrent(t)'
    <2>1. ASSUME pc'[t] \notin {"get", "insert"} PROVE SqlCurrent(t)'
      BY <2>1 DEF SqlCurrent
    <2>2. \A a : End(t, a) => pc'[t] = "idle"
      BY <1>1 DEF End
    <2>3. \A phase : GoTo(t, phase) => pc'[t] = phase
      BY <1>1 DEF GoTo
    <2>4. CASE ~Conditional(call[t])
      BY <1>1, <2>4 DEF SqlCurrent, Conditional
    <2>5. CASE Conditional(call[t]) /\ Check(t)
      <3> DEFINE d == View(Conn(t))
      <3>1. CASE Return(t, KV!KeyError)
        BY <2>1, <2>2, <3>1 DEF Return, Leave
      <3>2. CASE ~Return(t, KV!KeyError)
        <4>1. /\ pc[t] = "check" /\ UNCHANGED <<got, data, work>>
              /\ found' = [found EXCEPT ![t] = Conflicts(call[t].items, Present(d))]
          BY <2>5, <3>2 DEF Check
        <4>2. d' = d
          BY <1>1, <4>1 DEF View, Conn
        <4>3. DOMAIN got'[t] = {}
          BY <1>1, <4>1 DEF SqlPhase
        <4> HIDE DEF d
        <4>4. found'[t] = Conflicts(call[t].items, Present(d))
          BY <1>1, <4>1
        <4>5. QED
          BY <1>1, <4>2, <4>3, <4>4 DEF SqlCurrent, d
      <3>3. QED
        BY <3>1, <3>2
    <2>6. CASE Conditional(call[t]) /\ Get(t)
      <3> DEFINE d == View(Conn(t))
      <3>1. PICK k \in found[t] \ DOMAIN got[t] :
                /\ got' = [got EXCEPT ![t] = [i \in DOMAIN got[t] \cup {k} |->
                                IF i = k THEN d[k] ELSE got[t][i]]]
                /\ pc[t] = "get" /\ UNCHANGED <<found, data, work>>
        BY <2>6 DEF Get
      <3>2. d' = d
        BY <1>1, <3>1 DEF View, Conn
      <3> HIDE DEF d
      <3>3. \A i \in DOMAIN got[t] : got[t][i] = d[i]
        BY <1>1, <2>6, <3>1 DEF SqlCurrent, d
      <3>4. found[t] = Conflicts(call[t].items, Present(d))
        BY <1>1, <2>6, <3>1 DEF SqlCurrent, d
      <3>5. \A i \in DOMAIN got'[t] : got'[t][i] = d[i]
        BY <1>1, <3>1, <3>3
      <3>6. QED
        BY <1>1, <3>1, <3>2, <3>4, <3>5 DEF SqlCurrent, d
    <2>7. CASE Conditional(call[t]) /\ Enter(t)
      <3>1. pc'[t] = "check"
        BY <2>3, <2>7 DEF Enter, Phase, Conditional, KV!ReadOps
      <3>2. QED
        BY <2>1, <3>1
    <2>8. CASE SQLiteNothingToDo(t) \/ Fetch(t) \/ Skip(t) \/ RefuseBatch(t) \/ RefuseRow(t)
               \/ Commit(t) \/ ReadTimesOut(t) \/ WriteTimesOut(t)
      <3>1. \E a : End(t, a)
        BY <2>8 DEF SQLiteNothingToDo, NothingToDo, Fetch, Skip, RefuseBatch, RefuseRow,
           Commit, ReadTimesOut, WriteTimesOut, Raise, Return, Leave
      <3>2. QED
        BY <2>1, <2>2, <3>1
    <2>9. CASE Select(t) \/ StartPages(t) \/ NextPage(t) \/ OpenCursor(t) \/ NextRow(t)
      <3>1. \/ \E a : End(t, a)
            \/ \E phase \in {"fetch", "page", "cursor"} : GoTo(t, phase)
            \/ UNCHANGED pc /\ pc[t] \in {"page", "cursor"}
        BY <2>9 DEF Select, StartPages, NextPage, Page, OpenCursor, NextRow, Return, Leave,
           Visit, task
      <3>2. QED
        BY <2>1, <2>2, <2>3, <3>1
    <2>10. CASE Insert(t) \/ Resume(t) \/ WaitForReaders(t)
      <3>1. \/ \E phase \in {"written", "commit"} : GoTo(t, phase)
            \/ UNCHANGED pc /\ pc[t] = "commit"
        BY <2>10 DEF Insert, Resume, WaitForReaders, task
      <3>2. QED
        BY <2>1, <2>3, <3>1
    <2>11. QED
      BY <2>4, <2>5, <2>6, <2>7, <2>8, <2>9, <2>10 DEF OnSql, Step
  <1>4. QED
    BY <1>2, <1>3

\* A connection in a transaction has a call on its way to a commit, or failed.
LEMMA SqlAgreeKept ==
    ASSUME NEW t \in Threads, OnSql(t), ConnectionsAgree
    PROVE  ConnectionsAgree'
  <1>1. /\ Shape /\ SqlPhase(t) /\ Task(t) /\ Busy(t) /\ UNCHANGED site
        /\ DOMAIN pc = Threads /\ work \in [Conns -> Writes] /\ txn \in [Conns -> TxnStates]
        /\ failed \in [Conns -> BOOLEAN] /\ Conn(t) \in Conns
    BY SqlTask, ConnType DEF OnSql, SqlInv, Task, Shape, TypeOK
  <1>2. \A u \in Threads : Conn(u)' = Conn(u)
    BY <1>1 DEF Conn
  <1>3. \A u \in Threads \ {t} : pc'[u] = pc[u]
    BY <1>1 DEF Task
  <1>4. \A a : End(t, a) => pc'[t] = "idle"
    BY <1>1 DEF End
  <1>5. \A phase : GoTo(t, phase) => pc'[t] = phase
    BY <1>1 DEF GoTo
  <1>6. SUFFICES ASSUME NEW c \in Conns
                 PROVE  \/ failed'[c]
                        \/ \E u \in Threads : Conn(u)' = c /\ pc'[u] \in {"written", "commit"}
                        \/ work'[c] = Nothing /\ txn'[c] = "none"
    BY DEF ConnectionsAgree
  <1> DEFINE Clean(f, w, x) == f \/ (w = Nothing /\ x = "none")
             Coming == \E u \in Threads : Conn(u) = c /\ pc[u] \in {"written", "commit"}
             Coming2 == \E u \in Threads : Conn(u)' = c /\ pc'[u] \in {"written", "commit"}
  <1>7. Clean(failed[c], work[c], txn[c]) \/ Coming
    BY DEF ConnectionsAgree
  <1>8. SUFFICES Clean(failed'[c], work'[c], txn'[c]) \/ Coming2
    OBVIOUS
  <1>9. CASE c # Conn(t)
    <2>1. failed' = failed \/ \E b : failed' = [failed EXCEPT ![Conn(t)] = b]
      BY DEF OnSql, Step, SQLiteNothingToDo, Enter, Select, Fetch, StartPages, NextPage,
         OpenCursor, NextRow, Check, Get, Skip, Insert, RefuseBatch, RefuseRow, Resume,
         Commit, WaitForReaders, ReadTimesOut, WriteTimesOut, Raise, connections
    <2>2. work' = work \/ \E b : work' = [work EXCEPT ![Conn(t)] = b]
      BY DEF OnSql, Step, SQLiteNothingToDo, Enter, Select, Fetch, StartPages, NextPage,
         OpenCursor, NextRow, Check, Get, Skip, Insert, RefuseBatch, RefuseRow, Resume,
         Commit, WaitForReaders, ReadTimesOut, WriteTimesOut, Written, connections
    <2>3. txn' = txn \/ \E b : txn' = [txn EXCEPT ![Conn(t)] = b]
      <3>1. NextPage(t) => Conn(t) = "sync"
        BY <1>1 DEF NextPage, SqlPhase
      <3>2. OpenCursor(t) => Conn(t) = "async"
        BY DEF OpenCursor
      <3>3. QED
        BY <3>1, <3>2 DEF OnSql, Step, SQLiteNothingToDo, Enter, Select, Fetch, StartPages,
           NextPage, OpenCursor, NextRow, Check, Get, Skip, Insert, RefuseBatch, RefuseRow,
           Resume, Commit, WaitForReaders, ReadTimesOut, WriteTimesOut, Written, Reading,
           connections
    <2>4. failed'[c] = failed[c] /\ txn'[c] = txn[c] /\ work'[c] = work[c]
      BY <1>1, <1>9, <2>1, <2>2, <2>3
    <2>5. Coming => Coming2
      BY <1>2, <1>3, <1>9
    <2>6. QED
      BY <1>7, <2>4, <2>5
  <1>10. CASE c = Conn(t) /\ (Insert(t) \/ Resume(t) \/ WaitForReaders(t))
    <2>1. pc'[t] \in {"written", "commit"}
      BY <1>5, <1>10 DEF Insert, Resume, WaitForReaders, task
    <2>2. QED
      BY <1>2, <1>10, <2>1
  <1>11. CASE c = Conn(t) /\ (RefuseRow(t) \/ WriteTimesOut(t))
    <2>1. failed'[c]
      BY <1>1, <1>11 DEF RefuseRow, WriteTimesOut, Raise
    <2>2. QED
      BY <2>1
  <1>12. CASE c = Conn(t) /\ Commit(t)
    <2>1. work'[c] = Nothing /\ txn'[c] = "none"
      BY <1>1, <1>12 DEF Commit
    <2>2. QED
      BY <2>1
  <1>13. CASE ~(Insert(t) \/ Resume(t) \/ WaitForReaders(t) \/ RefuseRow(t) \/ WriteTimesOut(t)
                \/ Commit(t))
    <2>1. UNCHANGED <<work, failed>> /\ (txn' = txn \/ Reading(Conn(t)) \/ Reading("sync") \/ Reading("async"))
      BY <1>13 DEF OnSql, Step, SQLiteNothingToDo, NothingToDo, Enter, Select, Fetch,
         StartPages, NextPage, OpenCursor, NextRow, Check, Get, Skip, RefuseBatch,
         ReadTimesOut, connections
    <2>2. txn[c] = "none" => txn'[c] = "none"
      BY <1>1, <2>1 DEF Reading
    <2>3. pc[t] \notin {"written", "commit"}
      BY <1>13 DEF OnSql, Step, SQLiteNothingToDo, NothingToDo, Enter, Starts, Select, Fetch,
         StartPages, NextPage, OpenCursor, NextRow, Check, Get, Skip, RefuseBatch,
         ReadTimesOut
    <2>4. Coming => Coming2
      BY <1>2, <1>3, <2>3
    <2>5. QED
      BY <1>7, <2>1, <2>2, <2>4
  <1>14. QED
    BY <1>9, <1>10, <1>11, <1>12, <1>13

-----------------------------------------------------------------------------
(* The inductive invariant: the shape of the state, what each backend keeps *)
(* of its own calls, and what the properties say of the scans and of the   *)
(* connections.                                                            *)
Own ==
    /\ site.backend = "file" =>
        FileInv /\ \A t \in Threads : ListScan(t) /\ (Serialized => FileCurrent(t))
    /\ site.backend = "lmdb" => LmdbInv /\ \A t \in Threads : ListScan(t)
    /\ site.backend = "duckdb" => DuckInv
    /\ site.backend = "sqlite" =>
        SqlInv /\ \A t \in Threads : Serialized => SqlCurrent(t)

Inv ==
    /\ Shape
    /\ Own
    /\ \A t \in Threads : ScanEnded(t)
    /\ ConnectionsAgree

\* Who is serialized is a matter of the deployment.
LEMMA SerializedStays == ASSUME UNCHANGED site PROVE Serialized' <=> Serialized
  <1>1. Writers' = Writers
    BY DEF Writers, Calls
  <1>2. \A t : Conn(t)' = Conn(t)
    BY DEF Conn
  <1>3. \A r : Conditional(r)' <=> Conditional(r)
    BY DEF Conditional
  <1>4. QED
    BY <1>1, <1>2, <1>3 DEF Serialized

\* A site runs one of the four backends.
LEMMA Backends ==
    ASSUME Shape
    PROVE  site.backend \in {"file", "lmdb", "duckdb", "sqlite"}
  BY DeploymentAssumption DEF Shape, TypeOK

\* The connections of a store that has none.
LEMMA NoConnections ==
    /\ Shape /\ site.backend # "sqlite" => ConnectionsAgree
    /\ Shape' /\ site'.backend # "sqlite" => ConnectionsAgree'
  BY DEF Shape, ConnectionsAgree

\* A phase of no backend: the call has not begun its work, or there is none.
LEMMA Resting ==
    ASSUME NEW t \in Threads, pc'[t] \in {"idle", "start"}, want'[t] = NoKey
    PROVE  /\ FilePhase(t)' /\ FileCurrent(t)' /\ ListScan(t)' /\ LmdbPhase(t)'
           /\ DuckPhase(t)' /\ PageScan(t, data)'
           /\ SqlPhase(t)' /\ SqlScan(t)' /\ SqlCurrent(t)'
  <1>1. FilePhase(t)' /\ FileCurrent(t)' /\ ListScan(t)'
    BY DEF FilePhase, FileCurrent, ListScan
  <1>2. LmdbPhase(t)' /\ DuckPhase(t)' /\ PageScan(t, data)'
    BY DEF LmdbPhase, DuckPhase, PageScan
  <1>3. SqlPhase(t)' /\ SqlScan(t)' /\ SqlCurrent(t)'
    BY DEF SqlPhase, SqlScan, PageScan, SqlCurrent
  <1>4. QED
    BY <1>1, <1>2, <1>3

\* Nothing happens to the call of u.
Still(u) ==
    /\ pc'[u] = pc[u] /\ call'[u] = call[u] /\ scan'[u] = scan[u] /\ answer'[u] = answer[u]

LEMMA StillStays ==
    ASSUME NEW u \in Threads, Still(u), UNCHANGED <<site, data, lock, reads, connections>>
    PROVE  /\ FilePhase(u) => FilePhase(u)'
           /\ FileCurrent(u) => FileCurrent(u)'
           /\ ListScan(u) => ListScan(u)'
           /\ LmdbPhase(u) => LmdbPhase(u)'
           /\ DuckPhase(u) /\ PageScan(u, data) => DuckPhase(u)' /\ PageScan(u, data)'
           /\ SqlPhase(u) /\ SqlScan(u) => SqlPhase(u)' /\ SqlScan(u)'
           /\ SqlCurrent(u) => SqlCurrent(u)'
           /\ ScanEnded(u) => ScanEnded(u)'
  <1>1. /\ call'[u] = call[u] /\ pc'[u] = pc[u] /\ scan'[u] = scan[u]
        /\ answer'[u] = answer[u] /\ site' = site /\ data' = data /\ lock' = lock
        /\ found' = found /\ got' = got /\ todo' = todo /\ want' = want
        /\ work' = work /\ txn' = txn /\ awrite' = awrite
    BY DEF Still, reads, connections
  <1>2. /\ Conn(u)' = Conn(u) /\ View("sync")' = View("sync") /\ View("async")' = View("async")
        /\ View(Conn(u))' = View(Conn(u))
        /\ Planned(u)' = Planned(u) /\ (Conditional(call[u])' <=> Conditional(call[u]))
    BY <1>1 DEF Conn, View, Planned, Conditional
  <1>3. FilePhase(u) => FilePhase(u)'
    BY <1>1, <1>2 DEF FilePhase
  <1>4. FileCurrent(u) => FileCurrent(u)'
    BY <1>1, <1>2 DEF FileCurrent
  <1>5. (ListScan(u) => ListScan(u)') /\ (LmdbPhase(u) => LmdbPhase(u)')
    BY <1>1, <1>2 DEF ListScan, LmdbPhase
  <1>6. DuckPhase(u) /\ PageScan(u, data) => DuckPhase(u)' /\ PageScan(u, data)'
    BY <1>1, <1>2 DEF DuckPhase, PageScan
  <1>7. SqlPhase(u) /\ SqlScan(u) => SqlPhase(u)' /\ SqlScan(u)'
    BY <1>1, <1>2 DEF SqlPhase, SqlScan, PageScan
  <1>8. SqlCurrent(u) => SqlCurrent(u)'
    BY <1>1, <1>2 DEF SqlCurrent
  <1>9. ScanEnded(u) => ScanEnded(u)'
    BY <1>1, <1>2 DEF ScanEnded
  <1>10. QED
    BY <1>3, <1>4, <1>5, <1>6, <1>7, <1>8, <1>9

\* What a backend keeps is kept when calls begin and when nothing happens.
LEMMA OwnStays ==
    ASSUME Shape, Own, UNCHANGED <<site, data, lock, reads, connections>>,
           \A u \in Threads : Still(u) \/ (pc[u] = "idle" /\ pc'[u] = "start")
    PROVE  Own'
  <1>1. (Serialized' <=> Serialized) /\ want' = want
    BY SerializedStays DEF reads
  <1>2. \A u \in Threads : ~Still(u) => pc'[u] \in {"idle", "start"} /\ want'[u] = NoKey
    BY <1>1 DEF Shape, ShapeOf, Rested
  <1>3. CASE site.backend = "file"
    BY <1>1, <1>2, <1>3, Resting, StillStays DEF Own, FileInv
  <1>4. CASE site.backend = "lmdb"
    BY <1>1, <1>2, <1>4, Resting, StillStays DEF Own, LmdbInv
  <1>5. CASE site.backend = "duckdb"
    BY <1>1, <1>2, <1>5, Resting, StillStays DEF Own, DuckInv
  <1>6. CASE site.backend = "sqlite"
    <2>1. OneWriter'
      BY <1>6 DEF Own, SqlInv, OneWriter, connections
    <2>2. \A u \in Threads : SqlPhase(u)' /\ SqlScan(u)'
      BY <1>2, <1>6, Resting, StillStays DEF Own, SqlInv
    <2>3. \A u \in Threads : Serialized => SqlCurrent(u)'
      BY <1>2, <1>6, Resting, StillStays DEF Own
    <2>4. QED
      BY <1>1, <1>6, <2>1, <2>2, <2>3 DEF Own, SqlInv
  <1>7. QED
    BY <1>3, <1>4, <1>5, <1>6, Backends

\* A connection that agrees goes on agreeing while no call changes it.
LEMMA AgreeStays ==
    ASSUME ConnectionsAgree, UNCHANGED <<site, connections>>,
           \A u \in Threads : pc[u] # "idle" => pc'[u] = pc[u]
    PROVE  ConnectionsAgree'
  <1>1. \A t : Conn(t)' = Conn(t)
    BY DEF Conn
  <1>2. QED
    BY <1>1 DEF ConnectionsAgree, connections

LEMMA BeginKept ==
    ASSUME Inv, NEW t \in Threads, SQLiteBegin(t)
    PROVE  Inv'
  <1>1. PICK r \in site.calls[t] : call' = [call EXCEPT ![t] = r]
    BY DEF SQLiteBegin, Begin
  <1>2. /\ Shape /\ Own /\ pc[t] = "idle" /\ UNCHANGED <<site, data, lock, reads, crashes, connections>>
        /\ pc' = [pc EXCEPT ![t] = "start"] /\ answer' = [answer EXCEPT ![t] = KV!NoAnswer]
        /\ scan' = [scan EXCEPT ![t] = NoScan]
    BY DEF SQLiteBegin, Begin, Inv, Busy
  <1>3. /\ DOMAIN pc = Threads /\ DOMAIN answer = Threads /\ call \in [Threads -> KV!Request]
        /\ scan \in [Threads -> Scans]
    BY <1>2 DEF Shape, TypeOK
  <1>4. r \in KV!Request
    BY <1>2, DeploymentAssumption DEF Shape, TypeOK
  <1>5. NoScan \in Scans /\ NoScan.offset = 0
    BY DEF NoScan, Scans
  <1>6. /\ pc'[t] = "start" /\ answer'[t] = KV!NoAnswer /\ scan'[t] = NoScan /\ call'[t] = r
        /\ \A u \in Threads \ {t} : Still(u)
        /\ call' \in [Threads -> KV!Request] /\ scan' \in [Threads -> Scans]
        /\ DOMAIN pc' = Threads /\ DOMAIN answer' = Threads
    BY <1>1, <1>2, <1>3, <1>4, <1>5 DEF Still
  <1>7. TypeOK'
    <2>1. \A u \in Threads : answer'[u] = KV!NoAnswer <=> Busy(u)'
      BY <1>2, <1>6 DEF Still, Busy, Shape, TypeOK
    <2>2. \A u \in Threads : scan'[u].offset \in 0..(Cardinality(Keys) + BatchSize)
      <3>1. Cardinality(Keys) \in Nat /\ BatchSize \in Nat
        BY KeyAssumption, BoundAssumption, FS_CardinalityType
      <3>2. QED
        BY <1>2, <1>5, <1>6, <3>1 DEF Still, Shape, TypeOK
    <2>3. QED
      BY <1>2, <1>6, <2>1, <2>2 DEF Shape, TypeOK, reads, connections
  <1>8. \A u \in Threads : ShapeOf(u)'
    <2>1. ASSUME NEW u \in Threads \ {t} PROVE ShapeOf(u)'
      <3>1. ShapeOf(u) /\ Still(u)
        BY <1>2, <1>6 DEF Shape
      <3>2. QED
        BY <1>2, <3>1 DEF Still, ShapeOf, Rested, reads
    <2>2. ShapeOf(t)'
      BY <1>1, <1>2, <1>6 DEF Shape, ShapeOf, Rested, reads
    <2>3. QED
      BY <2>1, <2>2
  <1>9. Shape'
    BY <1>2, <1>6, <1>7, <1>8 DEF Shape, connections, Spoiled
  <1>10. Own'
    BY <1>2, <1>6, OwnStays
  <1>11. ASSUME NEW u \in Threads PROVE ScanEnded(u)'
    <2>1. CASE u = t
      <3>1. KV!Ok # KV!NoAnswer
        BY DEF KV!Ok, KV!NoAnswer
      <3>2. QED
        BY <1>6, <2>1, <3>1 DEF ScanEnded
    <2>2. CASE u # t
      BY <1>2, <1>6, <2>2, StillStays DEF Inv
    <2>3. QED
      BY <2>1, <2>2
  <1>12. ConnectionsAgree'
    BY <1>2, <1>6, AgreeStays DEF Inv, Still
  <1>13. QED
    BY <1>9, <1>10, <1>11, <1>12 DEF Inv

LEMMA StutterKept ==
    ASSUME Inv, UNCHANGED vars
    PROVE  Inv'
  <1>1. /\ UNCHANGED <<site, data, lock, reads, crashes, connections, pc, call, answer, scan>>
        /\ \A u \in Threads : Still(u)
    BY DEF vars, local, task, Still
  <1>2. TypeOK'
    BY <1>1 DEF Inv, Shape, TypeOK, Busy, reads, connections
  <1>3. Shape'
    BY <1>1, <1>2 DEF Inv, Shape, ShapeOf, Rested, Spoiled, reads, connections
  <1>4. Own' /\ ConnectionsAgree'
    BY <1>1, OwnStays, AgreeStays DEF Inv
  <1>5. \A u \in Threads : ScanEnded(u)'
    BY <1>1, StillStays DEF Inv
  <1>6. QED
    BY <1>3, <1>4, <1>5 DEF Inv

\* No rows, and no scan.
LEMMA NothingType ==
    /\ Nothing \in Writes /\ ~Spoiled(Nothing)
    /\ NoScan \in Scans /\ NoScan.offset = 0
  <1>1. Nothing \in [{} -> Slot] /\ DOMAIN Nothing = {}
    BY DEF Nothing
  <1>2. Nothing \in Writes
    BY <1>1, ItemsDef
  <1>3. ~Spoiled(Nothing)
    BY <1>1 DEF Spoiled
  <1>4. [k \in Keys |-> 0] \in [Keys -> 0..2]
    OBVIOUS
  <1>5. NoScan \in Scans /\ NoScan.offset = 0
    BY <1>4 DEF NoScan, Scans
  <1>6. QED
    BY <1>2, <1>3, <1>5

\* The process dies, and its calls with it.
LEMMA CrashKept ==
    ASSUME Inv, \/ site.backend # "sqlite" /\ Crash /\ UNCHANGED connections
                \/ site.backend = "sqlite" /\ SQLiteCrash
    PROVE  Inv'
  <1>1. /\ Shape /\ Own /\ Crash /\ UNCHANGED <<site, data, call>>
        /\ lock' = NoThread /\ crashes < MaxCrashes /\ crashes' = crashes + 1
    BY DEF Inv, SQLiteCrash, Crash
  <1>2. /\ \A u \in Threads : /\ pc'[u] = "idle" /\ found'[u] = {} /\ got'[u] = Nothing
                              /\ todo'[u] = {} /\ want'[u] = NoKey /\ scan'[u] = NoScan
                              /\ answer'[u] = IF Busy(u) THEN Lost ELSE answer[u]
        /\ DOMAIN pc' = Threads /\ DOMAIN answer' = Threads
    BY <1>1 DEF Crash
  <1>3. Lost # KV!NoAnswer /\ NoScan \in Scans /\ NoScan.offset = 0 /\ Nothing \in Writes
        /\ ~Spoiled(Nothing)
    BY NothingType DEF Lost, KV!NoAnswer
  <1>4. /\ work' \in [Conns -> Writes] /\ txn' \in [Conns -> TxnStates]
        /\ failed' \in [Conns -> BOOLEAN] /\ awrite' \in Threads \cup {NoThread}
        /\ \A c \in Conns : /\ work'[c] = Nothing /\ txn'[c] = "none"
                            /\ ~Spoiled(work'[c])
    <2>1. CASE site.backend # "sqlite" /\ UNCHANGED connections
      BY <1>1, <1>3, <2>1 DEF connections, Shape, TypeOK
    <2>2. CASE SQLiteCrash
      BY <1>3, <2>2 DEF SQLiteCrash, TxnStates
    <2>3. QED
      BY <2>1, <2>2
  <1>5. /\ found' \in [Threads -> SUBSET Keys] /\ todo' \in [Threads -> SUBSET Keys]
        /\ got' \in [Threads -> Writes] /\ want' \in [Threads -> Keys \cup {NoKey}]
        /\ scan' \in [Threads -> Scans]
    BY <1>1, <1>3 DEF Crash
  <1>6. TypeOK'
    <2>1. \A u \in Threads : answer'[u] = KV!NoAnswer <=> Busy(u)'
      BY <1>1, <1>2, <1>3 DEF Busy, Shape, TypeOK
    <2>2. \A u \in Threads : scan'[u].offset \in 0..(Cardinality(Keys) + BatchSize)
      <3>1. Cardinality(Keys) \in Nat /\ BatchSize \in Nat
        BY KeyAssumption, BoundAssumption, FS_CardinalityType
      <3>2. QED
        BY <1>2, <1>3, <3>1
    <2>3. crashes' \in 0..MaxCrashes
      BY <1>1, BoundAssumption DEF Shape, TypeOK
    <2>4. QED
      BY <1>1, <1>2, <1>4, <1>5, <2>1, <2>2, <2>3 DEF Shape, TypeOK
  <1>7. Shape'
    BY <1>2, <1>4, <1>5, <1>6 DEF Shape, ShapeOf, Rested
  <1>8. Own'
    <2>1. OneWriter'
      BY <1>4 DEF OneWriter, Conns
    <2>2. \A u \in Threads :
            /\ FilePhase(u)' /\ FileCurrent(u)' /\ ListScan(u)' /\ LmdbPhase(u)'
            /\ DuckPhase(u)' /\ PageScan(u, data)'
            /\ SqlPhase(u)' /\ SqlScan(u)' /\ SqlCurrent(u)'
      BY <1>2, Resting
    <2>3. QED
      BY <2>1, <2>2 DEF Own, FileInv, LmdbInv, DuckInv, SqlInv
  <1>9. \A u \in Threads : ScanEnded(u)'
    BY <1>2 DEF ScanEnded, NoScan
  <1>10. ConnectionsAgree'
    BY <1>4 DEF ConnectionsAgree
  <1>11. QED
    BY <1>7, <1>8, <1>9, <1>10 DEF Inv

LEMMA InitKept == SQLiteInit => Inv
  <1> SUFFICES ASSUME SQLiteInit PROVE Inv
    OBVIOUS
  <1>1. KV!NoCall \in KV!Request
    <2>1. [k \in {} |-> Absent] \in [{} -> KV!Value] /\ [f \in {} |-> f] \in [{} -> Vals]
      OBVIOUS
    <2>2. [k \in {} |-> Absent] \in KV!Items /\ [f \in {} |-> f] \in KV!Value
      <3>1. {} \in SUBSET Keys /\ {} \in SUBSET Fields
        OBVIOUS
      <3>2. [k \in {} |-> Absent] \in KV!Items
        BY <2>1, <3>1 DEF KV!Items
      <3>3. [f \in {} |-> f] \in KV!Value
        BY <2>1, <3>1 DEF KV!Value
      <3>4. QED
        BY <3>2, <3>3
    <2>3. QED
      BY <2>2 DEF KV!NoCall, KV!Request, KV!LifecycleOps, KV!OnConflict
  <1>2. KV!Ok # KV!NoAnswer /\ NoScan \in Scans /\ NoScan.offset = 0 /\ Nothing \in Writes
        /\ ~Spoiled(Nothing)
    BY NothingType DEF KV!Ok, KV!NoAnswer
  <1>3. data \in [Keys -> Slot \ Unstorable]
    BY AbsentStorable DEF SQLiteInit, Init, EmptyStore
  <1>4. \A u \in Threads : /\ pc[u] = "idle" /\ found[u] = {} /\ got[u] = Nothing
                           /\ todo[u] = {} /\ want[u] = NoKey /\ scan[u] = NoScan
                           /\ answer[u] = KV!Ok
    BY DEF SQLiteInit, Init
  <1>5. \A c \in Conns : /\ work[c] = Nothing /\ txn[c] = "none" /\ ~Spoiled(work[c])
    BY <1>2 DEF SQLiteInit
  <1>6. /\ found \in [Threads -> SUBSET Keys] /\ todo \in [Threads -> SUBSET Keys]
        /\ got \in [Threads -> Writes] /\ want \in [Threads -> Keys \cup {NoKey}]
        /\ scan \in [Threads -> Scans] /\ call \in [Threads -> KV!Request]
        /\ work \in [Conns -> Writes] /\ txn \in [Conns -> TxnStates]
        /\ failed \in [Conns -> BOOLEAN]
    BY <1>1, <1>2 DEF SQLiteInit, Init, TxnStates
  <1>7. TypeOK
    <2>1. \A u \in Threads : answer[u] = KV!NoAnswer <=> Busy(u)
      BY <1>2, <1>4 DEF Busy
    <2>2. \A u \in Threads : scan[u].offset \in 0..(Cardinality(Keys) + BatchSize)
      <3>1. Cardinality(Keys) \in Nat /\ BatchSize \in Nat
        BY KeyAssumption, BoundAssumption, FS_CardinalityType
      <3>2. QED
        BY <1>2, <1>4, <3>1
    <2>3. crashes \in 0..MaxCrashes
      BY BoundAssumption DEF SQLiteInit, Init
    <2>4. QED
      BY <1>3, <1>6, <2>1, <2>2, <2>3 DEF SQLiteInit, Init, TypeOK
  <1>8. Shape
    BY <1>4, <1>5, <1>6, <1>7 DEF Shape, ShapeOf, Rested, SQLiteInit, Init
  <1>9. Own
    <2>1. OneWriter
      BY <1>5 DEF OneWriter, Conns
    <2>2. \A u \in Threads : FilePhase(u) /\ FileCurrent(u) /\ ListScan(u) /\ LmdbPhase(u)
      BY <1>4 DEF FilePhase, FileCurrent, ListScan, LmdbPhase
    <2>3. \A u \in Threads : DuckPhase(u) /\ PageScan(u, data)
      BY <1>4 DEF DuckPhase, PageScan
    <2>4. \A u \in Threads : SqlPhase(u) /\ SqlScan(u) /\ SqlCurrent(u)
      BY <1>4 DEF SqlPhase, SqlScan, PageScan, SqlCurrent
    <2>5. QED
      BY <2>1, <2>2, <2>3, <2>4 DEF Own, FileInv, LmdbInv, DuckInv, SqlInv
  <1>10. \A u \in Threads : ScanEnded(u)
    BY <1>4 DEF ScanEnded, NoScan
  <1>11. ConnectionsAgree
    BY <1>5 DEF ConnectionsAgree
  <1>12. QED
    BY <1>8, <1>9, <1>10, <1>11 DEF Inv

LEMMA StepKept ==
    ASSUME Inv, NEW t \in Threads, StoreStep(t)
    PROVE  Inv'
  <1>1. Shape /\ Own /\ ConnectionsAgree /\ \A u \in Threads : ScanEnded(u)
    BY DEF Inv
  <1>2. CASE OnFile(t)
    <2>1. /\ Quiet(t) /\ Effects(t) /\ Lockwise(t) /\ UNCHANGED <<site, crashes, connections>>
      BY <1>2, FileFrame, FileEffects
    <2>2. Shape' /\ site' = site /\ site.backend = "file" /\ (Serialized' <=> Serialized)
      BY <1>1, <1>2, <2>1, EffectsKept, SerializedStays DEF OnFile
    <2>3. FileInv'
      BY <1>2, FilePhaseKept
    <2>4. Serialized => \A u \in Threads : FileCurrent(u)'
      BY <1>1, <1>2, <2>2, FileCurrentKept DEF Own
    <2>5. \A u \in Threads : ListScan(u)' /\ ScanEnded(u)'
      BY <1>1, <1>2, <2>2, FileScanKept DEF Own
    <2>6. QED
      BY <2>2, <2>3, <2>4, <2>5, NoConnections DEF Inv, Own
  <1>3. CASE OnLmdb(t)
    <2>1. /\ Quiet(t) /\ Effects(t) /\ Lockwise(t) /\ UNCHANGED <<site, crashes, connections>>
      BY <1>3, LmdbFrame, LmdbEffects
    <2>2. Shape' /\ site' = site /\ site.backend = "lmdb"
      BY <1>1, <1>3, <2>1, EffectsKept DEF OnLmdb
    <2>3. LmdbInv'
      BY <1>3, LmdbPhaseKept
    <2>4. \A u \in Threads : ListScan(u)' /\ ScanEnded(u)'
      BY <1>1, <1>3, <2>2, LmdbScanKept DEF Own
    <2>5. QED
      BY <2>2, <2>3, <2>4, NoConnections DEF Inv, Own
  <1>4. CASE OnDuck(t)
    <2>1. Shape' /\ site' = site /\ site.backend = "duckdb"
      BY <1>4, DuckFrame DEF OnDuck
    <2>2. \A u \in Threads : DuckPhase(u)'
      BY <1>4, DuckPhaseKept
    <2>3. \A u \in Threads : PageScan(u, data)' /\ ScanEnded(u)'
      BY <1>1, <1>4, DuckScanKept
    <2>4. QED
      BY <2>1, <2>2, <2>3, NoConnections DEF Inv, Own, DuckInv
  <1>5. CASE OnSql(t)
    <2>1. Shape' /\ site' = site /\ site.backend = "sqlite" /\ SqlFrame(t)
          /\ (Serialized' <=> Serialized)
      BY <1>5, SqlShapeKept, SqlTask, SqlFrameKept, SerializedStays DEF OnSql
    <2>2. OneWriter' /\ \A u \in Threads : SqlPhase(u)'
      BY <1>5, <2>1, SqlPhaseKept DEF SqlFrame
    <2>3. \A u \in Threads : SqlScan(u)' /\ ScanEnded(u)'
      BY <1>1, <1>5, SqlScanKept
    <2>4. Serialized => \A u \in Threads : SqlCurrent(u)'
      BY <1>1, <1>5, <2>1, SqlCurrentKept DEF Own
    <2>5. ConnectionsAgree'
      BY <1>1, <1>5, SqlAgreeKept
    <2>6. QED
      BY <2>1, <2>2, <2>3, <2>4, <2>5 DEF Inv, Own, SqlInv
  <1>6. QED
    BY <1>1, <1>2, <1>3, <1>4, <1>5 DEF StoreStep, OtherStep, OnFile, OnLmdb, OnDuck, OnSql, Own

\* Every step keeps the invariant.
LEMMA InvKept == Inv /\ [StoreNext]_vars => Inv'
  <1> SUFFICES ASSUME Inv, [StoreNext]_vars PROVE Inv'
    OBVIOUS
  <1>1. CASE UNCHANGED vars
    BY <1>1, StutterKept
  <1>2. CASE StoreNext
    BY <1>2, BeginKept, CrashKept, StepKept DEF StoreNext
  <1>3. QED
    BY <1>1, <1>2

\* In every reachable state of every deployment the invariant holds.
LEMMA InvCorrect == StoreSpec => []Inv
  <1>1. QED
    BY InitKept, InvKept, PTL DEF StoreSpec

-----------------------------------------------------------------------------
\* In every deployment the state has its types: a thread has an answer exactly
\* when it is in no call, nothing that a serializer refuses is on disk, and the
\* offset of a scan is never more than a page beyond the keys.
THEOREM TypeSafety == StoreSpec => []TypeOK
  <1>1. Inv => TypeOK
    BY DEF Inv, Shape
  <1>2. QED
    BY <1>1, InvCorrect, PTL

\* A connection of a SQLite store is in a transaction only while a call is on
\* its way to a commit, or after a write has failed on it, whatever the sync and
\* async callers do, and wherever they are when the process dies.
THEOREM ConnectionsDoAgree == StoreSpec => []ConnectionsAgree
  <1>1. Inv => ConnectionsAgree
    BY DEF Inv
  <1>2. QED
    BY <1>1, InvCorrect, PTL

\* iter_batches yields what each backend owes its caller, for any number of
\* keys, pages, writers and crashes: every key once from a list of the keys;
\* every key, unless a smaller one was deleted meanwhile, from OFFSET pages;
\* every key from an open cursor, and twice only one that was written meanwhile.
THEOREM ScansAreComplete == StoreSpec => []ScansComplete
  <1>1. Inv => ScansComplete
    BY ScansEnded DEF Inv
  <1>2. QED
    BY <1>1, InvCorrect, PTL

\* The callers among whom a batch decides and writes in one go find the pairs
\* as they were when they looked: nobody has written one of their keys.
THEOREM DecisionsDoHold == StoreSpec => []DecisionsHold
  <1>1. Inv => DecisionsHold
    <2> SUFFICES ASSUME Inv, Serialized, NEW t \in Threads, Conditional(call[t]),
                        pc[t] \in {"save", "txn", "rows", "insert"}
                 PROVE  DecidedOn(t, IF site.backend = "sqlite" THEN View(Conn(t)) ELSE data)
      BY DEF DecisionsHold
    <2>1. Shape /\ Own /\ DOMAIN Planned(t) \subseteq DOMAIN call[t].items
          /\ DOMAIN Planned(t) \subseteq Keys
      BY PlannedType DEF Inv
    <2>2. ASSUME NEW d, pc[t] \in {"txn", "insert"},
                 found[t] = Conflicts(call[t].items, Present(d)),
                 \A k \in DOMAIN got[t] : got[t][k] = d[k]
          PROVE  DecidedOn(t, d)
      BY <2>1, <2>2 DEF DecidedOn, Conflicts, Present
    <2>3. CASE site.backend = "file"
      BY <2>1, <2>3 DEF Own, FileInv, FilePhase, FileCurrent, DecidedOn
    <2>4. CASE site.backend = "lmdb"
      BY <2>1, <2>2, <2>4 DEF Own, LmdbInv, LmdbPhase
    <2>5. CASE site.backend = "duckdb"
      BY <2>1, <2>5 DEF Own, DuckInv, DuckPhase, DecidedOn
    <2>6. CASE site.backend = "sqlite"
      <3>1. pc[t] = "insert"
        BY <2>1, <2>6 DEF Own, SqlInv, SqlPhase
      <3>2. /\ found[t] = Conflicts(call[t].items, Present(View(Conn(t))))
            /\ \A k \in DOMAIN got[t] : got[t][k] = View(Conn(t))[k]
        BY <2>1, <2>6, <3>1 DEF Own, SqlCurrent
      <3>3. QED
        BY <2>2, <2>6, <3>1, <3>2
    <2>7. QED
      BY <2>1, <2>3, <2>4, <2>5, <2>6, Backends
  <1>2. QED
    BY <1>1, InvCorrect, PTL

-----------------------------------------------------------------------------
(* The contract: the calls of an LMDB store, of a DuckDB store and of a    *)
(* SQLite store used synchronously each take effect at one step.           *)

\* A call means the same to the contract, to the store and to its backend.
LEMMA SameRefusal ==
    ASSUME NEW r, NEW d
    PROVE  /\ KV!Refused(r, d) <=> r.op = "set_many" /\ Refuses(r.items, r.on_conflict, Present(d))
           /\ Promise!Refused(r, d) <=> KV!Refused(r, d)
           /\ Lmdb!KV!Refused(r, d) <=> KV!Refused(r, d)
           /\ Duck!KV!Refused(r, d) <=> KV!Refused(r, d)
  <1>1. KV!Refused(r, d) <=> r.op = "set_many" /\ Refuses(r.items, r.on_conflict, Present(d))
    BY DEF KV!Refused, KV!Refuses, Refuses, KV!Conflicts, Conflicts, KV!Present, Present
  <1>2. Promise!Refused(r, d) <=> KV!Refused(r, d)
    BY DEF Promise!Refused, KV!Refused, Promise!Refuses, KV!Refuses, Promise!Conflicts,
       KV!Conflicts, Promise!Present, KV!Present
  <1>3. Lmdb!KV!Refused(r, d) <=> KV!Refused(r, d)
    BY DEF Lmdb!KV!Refused, KV!Refused, Lmdb!KV!Refuses, KV!Refuses, Lmdb!KV!Conflicts,
       KV!Conflicts, Lmdb!KV!Present, KV!Present
  <1>4. Duck!KV!Refused(r, d) <=> KV!Refused(r, d)
    BY DEF Duck!KV!Refused, KV!Refused, Duck!KV!Refuses, KV!Refuses, Duck!KV!Conflicts,
       KV!Conflicts, Duck!KV!Present, KV!Present
  <1>5. QED
    BY <1>1, <1>2, <1>3, <1>4

LEMMA SameSight ==
    ASSUME NEW r, NEW d
    PROVE  /\ Promise!Seen(r, d) = KV!Seen(r, d)
           /\ Lmdb!KV!Seen(r, d) = KV!Seen(r, d)
           /\ Duck!KV!Seen(r, d) = KV!Seen(r, d)
  <1>1. \A S : /\ Promise!Cardinality(S) = KV!Cardinality(S)
               /\ Lmdb!KV!Cardinality(S) = KV!Cardinality(S)
               /\ Duck!KV!Cardinality(S) = KV!Cardinality(S)
    BY DEF Promise!Cardinality, Promise!IsFiniteSet, Lmdb!KV!Cardinality, Lmdb!KV!IsFiniteSet,
       Duck!KV!Cardinality, Duck!KV!IsFiniteSet, KV!Cardinality, KV!IsFiniteSet
  <1>2. Promise!Seen(r, d) = KV!Seen(r, d)
    BY <1>1 DEF Promise!Seen, KV!Seen, Promise!Present, KV!Present, Promise!Matches, KV!Matches
  <1>3. Lmdb!KV!Seen(r, d) = KV!Seen(r, d)
    BY <1>1 DEF Lmdb!KV!Seen, KV!Seen, Lmdb!KV!Present, KV!Present, Lmdb!KV!Matches, KV!Matches
  <1>4. Duck!KV!Seen(r, d) = KV!Seen(r, d)
    BY <1>1 DEF Duck!KV!Seen, KV!Seen, Duck!KV!Present, KV!Present, Duck!KV!Matches, KV!Matches
  <1>5. QED
    BY <1>2, <1>3, <1>4

LEMMA SameAnswer ==
    ASSUME NEW r, NEW d
    PROVE  /\ Promise!Answer(r, d) = KV!Answer(r, d)
           /\ Lmdb!KV!Answer(r, d) = KV!Answer(r, d)
           /\ Duck!KV!Answer(r, d) = KV!Answer(r, d)
  <1>1. /\ Promise!Answer(r, d) = KV!Answer(r, d)
    BY SameRefusal, SameSight DEF Promise!Answer, KV!Answer, Promise!KeyError, KV!KeyError,
       Promise!ReadOps, KV!ReadOps, Promise!Returns, KV!Returns, Promise!Ok, KV!Ok
  <1>2. Lmdb!KV!Answer(r, d) = KV!Answer(r, d)
    BY SameRefusal, SameSight DEF Lmdb!KV!Answer, KV!Answer, Lmdb!KV!KeyError, KV!KeyError,
       Lmdb!KV!ReadOps, KV!ReadOps, Lmdb!KV!Returns, KV!Returns, Lmdb!KV!Ok, KV!Ok
  <1>3. Duck!KV!Answer(r, d) = KV!Answer(r, d)
    BY SameRefusal, SameSight DEF Duck!KV!Answer, KV!Answer, Duck!KV!KeyError, KV!KeyError,
       Duck!KV!ReadOps, KV!ReadOps, Duck!KV!Returns, KV!Returns, Duck!KV!Ok, KV!Ok
  <1>4. QED
    BY <1>1, <1>2, <1>3

LEMMA SameEffect ==
    ASSUME NEW r, NEW d
    PROVE  /\ Promise!Effect(r, d) = KV!Effect(r, d)
           /\ r.op = "set_many" => KV!Effect(r, d) =
                    IF Conditional(r) THEN ToWrite(r.items, r.on_conflict, Present(d), d)
                    ELSE r.items
           /\ r.op \in {"delete", "delete_many"} => KV!Effect(r, d) = [k \in r.keys |-> Absent]
           /\ r.op = "clear" => KV!Effect(r, d) = EmptyStore
           /\ r.op \in KV!ReadOps => KV!Effect(r, d) = Nothing
  <1>1. Promise!Effect(r, d) = KV!Effect(r, d)
    BY DEF Promise!Effect, KV!Effect, Promise!ToWrite, KV!ToWrite, Promise!Merged, KV!Merged,
       Promise!OrEmpty, KV!OrEmpty, Promise!Present, KV!Present, Promise!EmptyStore, KV!EmptyStore
  <1>2. /\ r.op = "set_many" => KV!Effect(r, d) =
                    IF Conditional(r) THEN ToWrite(r.items, r.on_conflict, Present(d), d)
                    ELSE r.items
        /\ r.op \in {"delete", "delete_many"} => KV!Effect(r, d) = [k \in r.keys |-> Absent]
        /\ r.op = "clear" => KV!Effect(r, d) = EmptyStore
        /\ r.op \in KV!ReadOps => KV!Effect(r, d) = Nothing
    BY DEF KV!Effect, KV!ToWrite, ToWrite, KV!Merged, Merged, KV!OrEmpty, OrEmpty, KV!Present,
       Present, KV!EmptyStore, EmptyStore, Nothing, Conditional, KV!ReadOps
  <1>3. QED
    BY <1>1, <1>2

-----------------------------------------------------------------------------
\* The ways a step of the store is a step of the contract.
LEMMA Executes ==
    ASSUME NEW t \in Threads, AbsAnswer[t] = KV!NoAnswer, call' = call,
           call[t].op \notin KV!LifecycleOps,
           AbsAnswer'[t] = KV!Answer(call[t], AbsData),
           \A u \in Threads \ {t} : AbsAnswer'[u] = AbsAnswer[u],
           AbsData' = IF KV!Refused(call[t], AbsData) THEN AbsData
                      ELSE Stored(AbsData, KV!Effect(call[t], AbsData))
    PROVE  Promise!DurableNext
  <1>1. AbsAnswer' = [AbsAnswer EXCEPT ![t] = KV!Answer(call[t], AbsData)]
    BY DEF AbsAnswer
  <1>2. Promise!Ends(t, Promise!Answer(call[t], AbsData))
    BY <1>1, SameAnswer DEF Promise!Ends, Promise!Idle, Promise!NoAnswer, KV!NoAnswer
  <1>3. AbsData' = IF Promise!Refused(call[t], AbsData) THEN AbsData
                   ELSE Promise!Stored(AbsData, Promise!Effect(call[t], AbsData))
    BY SameRefusal, SameEffect DEF Promise!Stored, Stored
  <1>4. Promise!Execute(t)
    BY <1>2, <1>3 DEF Promise!Execute, Promise!LifecycleOps, KV!LifecycleOps
  <1>5. QED
    BY <1>4 DEF Promise!DurableNext, Promise!Next

LEMMA Fails ==
    ASSUME NEW t \in Threads, AbsAnswer[t] = KV!NoAnswer, call' = call,
           call[t].op = "set_many", Promise!Spoiled(call[t]),
           AbsAnswer'[t] = Failed,
           \A u \in Threads \ {t} : AbsAnswer'[u] = AbsAnswer[u],
           AbsData' = AbsData
    PROVE  Promise!DurableNext
  <1>1. AbsAnswer' = [AbsAnswer EXCEPT ![t] = Failed]
    BY DEF AbsAnswer
  <1>2. Promise!Fail(t)
    BY <1>1 DEF Promise!Fail, Promise!Ends, Promise!Idle, Promise!NoAnswer, KV!NoAnswer,
       Promise!Failed, Failed
  <1>3. QED
    BY <1>2 DEF Promise!DurableNext

LEMMA Invokes ==
    ASSUME NEW t \in Threads, NEW r \in AllRequests, AbsAnswer[t] # KV!NoAnswer,
           call' = [call EXCEPT ![t] = r], AbsAnswer'[t] = KV!NoAnswer,
           \A u \in Threads \ {t} : AbsAnswer'[u] = AbsAnswer[u],
           AbsData' = AbsData
    PROVE  Promise!DurableNext
  <1>1. AbsAnswer' = [AbsAnswer EXCEPT ![t] = KV!NoAnswer]
    BY DEF AbsAnswer
  <1>2. Promise!Invoke(t)
    BY <1>1 DEF Promise!Invoke, Promise!Idle, Promise!NoAnswer, KV!NoAnswer
  <1>3. QED
    BY <1>2 DEF Promise!DurableNext, Promise!Next

LEMMA Stutters ==
    ASSUME call' = call, \A u \in Threads : AbsAnswer'[u] = AbsAnswer[u], AbsData' = AbsData
    PROVE  UNCHANGED (Promise!vars)
  <1>1. AbsAnswer' = AbsAnswer
    BY DEF AbsAnswer
  <1>2. QED
    BY <1>1 DEF Promise!vars

-----------------------------------------------------------------------------
\* While no batch of a DuckDB store is being written the contract's store is
\* the one on disk.
LEMMA Undecided ==
    ASSUME Shape, \A t \in Threads : ~Deciding(t)
    PROVE  AbsData = data /\ \A t \in Threads : AbsAnswer[t] = answer[t]
  BY DEF AbsData, AbsAnswer, Shape, TypeOK

\* The same after a step.
LEMMA UndecidedNext ==
    ASSUME Shape', \A t \in Threads : ~Deciding(t)'
    PROVE  AbsData' = data' /\ \A t \in Threads : AbsAnswer'[t] = answer'[t]
  BY DEF AbsData, AbsAnswer, Shape, TypeOK

\* A call that runs is one of those its thread may make, and has no answer.
LEMMA Running ==
    ASSUME Shape, NEW t \in Threads, Busy(t)
    PROVE  /\ call[t] \in Calls /\ call[t] \in KV!Request /\ answer[t] = KV!NoAnswer
           /\ call[t].op # "set_many" => DOMAIN call[t].items = {}
           /\ call[t].items \in Items /\ DOMAIN call[t].items \subseteq Keys
           /\ call[t].on_conflict \in OnConflict
           /\ data \in Contents /\ data \in [Keys -> Slot \ Unstorable]
  <1>1. /\ call[t] \in site.calls[t] /\ call[t] \in KV!Request /\ answer[t] = KV!NoAnswer
        /\ site \in Deployments /\ data \in Contents /\ data \in [Keys -> Slot \ Unstorable]
    BY DEF Shape, ShapeOf, TypeOK, Busy, Contents
  <1>2. call[t].op # "set_many" => DOMAIN call[t].items = {}
    BY <1>1, DeploymentAssumption
  <1>3. QED
    BY <1>1, <1>2, RequestType DEF Calls

\* Merging into no fields, and into the fields a get found.
LEMMA MergedStorable ==
    ASSUME NEW v \in Slot \ Unstorable, NEW w \in Value \ Unstorable
    PROVE  Merged(OrEmpty(v), w) \notin Unstorable
  <1>1. CASE v = Absent
    <2>1. PICK F \in SUBSET Fields : w \in [F -> Vals]
      BY ValueDef
    <2>2. Merged(OrEmpty(v), w) = w
      BY <1>1, <2>1 DEF Merged, OrEmpty
    <2>3. QED
      BY <2>2
  <1>2. CASE v # Absent
    BY <1>2, UnstorableAssumption DEF OrEmpty, Slot
  <1>3. QED
    BY <1>1, <1>2

\* resolve_conflicts makes values that can be stored of values that can.
LEMMA ToWriteStorable ==
    ASSUME NEW items \in Items, NEW oc, NEW K, NEW d,
           \A k \in DOMAIN items : items[k] \notin Unstorable,
           \A k \in K \cap DOMAIN items : d[k] \in Slot \ Unstorable
    PROVE  ~Spoiled(ToWrite(items, oc, K, d))
  <1>1. \A k \in DOMAIN items : items[k] \in Value \ Unstorable
    BY DEF Items
  <1>2. \A k \in K \cap DOMAIN items : Merged(OrEmpty(d[k]), items[k]) \notin Unstorable
    BY <1>1, MergedStorable
  <1>3. QED
    BY <1>1, <1>2 DEF ToWrite, Spoiled

\* What a call writes to a store of storable values can be stored.
LEMMA EffectStorable ==
    ASSUME NEW r \in KV!Request, r.op \in KV!WriteOps, NEW d \in [Keys -> Slot \ Unstorable],
           r.op = "set_many" => ~Promise!Spoiled(r)
    PROVE  ~Spoiled(KV!Effect(r, d))
  <1>1. r.items \in Items /\ DOMAIN r.items \subseteq Keys
    BY RequestType
  <1>2. CASE r.op = "set_many"
    <2>1. \A k \in DOMAIN r.items : r.items[k] \notin Unstorable
      BY <1>2 DEF Promise!Spoiled
    <2>2. ~Spoiled(ToWrite(r.items, r.on_conflict, Present(d), d)) /\ ~Spoiled(r.items)
      BY <1>1, <2>1, ToWriteStorable DEF Spoiled
    <2>3. QED
      BY <1>2, <2>2, SameEffect
  <1>3. CASE r.op \in {"delete", "delete_many", "clear"}
    BY <1>3, SameEffect, AbsentStorable DEF Spoiled, EmptyStore
  <1>4. QED
    BY <1>2, <1>3 DEF KV!WriteOps

\* A call that finds nothing to do answers what any store would.
LEMMA NothingExecutes ==
    ASSUME Shape, NEW t \in Threads, Empty(call[t]), Busy(t), NEW d
    PROVE  /\ KV!Answer(call[t], EmptyStore) = KV!Answer(call[t], d)
           /\ ~KV!Refused(call[t], d) /\ DOMAIN KV!Effect(call[t], d) = {}
           /\ call[t].op \notin KV!LifecycleOps
  <1>1. call[t].op \in {"set_many", "get_many", "delete_many"}
        /\ (call[t].op = "set_many" => DOMAIN call[t].items = {})
        /\ (call[t].op # "set_many" => call[t].keys = {})
    BY DEF Empty
  <1>2. ~KV!Refused(call[t], d) /\ ~KV!Refused(call[t], EmptyStore)
    BY <1>1, SameRefusal DEF Refuses, Conflicts
  <1>3. DOMAIN KV!Effect(call[t], d) = {}
    <2>1. CASE call[t].op = "set_many"
      <3>1. DOMAIN ToWrite(call[t].items, call[t].on_conflict, Present(d), d) = {}
        BY <1>1, <2>1 DEF ToWrite
      <3>2. QED
        BY <1>1, <2>1, <3>1, SameEffect
    <2>2. CASE call[t].op = "delete_many"
      BY <1>1, <2>2, SameEffect
    <2>3. CASE call[t].op = "get_many"
      BY <1>1, <2>3, SameEffect DEF Nothing, KV!ReadOps
    <2>4. QED
      BY <1>1, <2>1, <2>2, <2>3
  <1>4. call[t].op = "get_many" => KV!Seen(call[t], EmptyStore) = KV!Seen(call[t], d)
    BY <1>1 DEF KV!Seen
  <1>5. KV!Answer(call[t], EmptyStore) = KV!Answer(call[t], d)
    BY <1>1, <1>2, <1>4 DEF KV!Answer, KV!ReadOps
  <1>6. QED
    BY <1>1, <1>2, <1>3, <1>5 DEF KV!LifecycleOps

\* How a call answers when it is not refused.
LEMMA AnswerIs ==
    ASSUME NEW r, NEW d
    PROVE  /\ KV!Refused(r, d) => KV!Answer(r, d) = KV!KeyError
           /\ ~KV!Refused(r, d) /\ r.op \in KV!ReadOps => KV!Answer(r, d) = KV!Returns(KV!Seen(r, d))
           /\ ~KV!Refused(r, d) /\ r.op \in KV!WriteOps => KV!Answer(r, d) = KV!Ok
           /\ r.op \in KV!ReadOps \cup KV!WriteOps => r.op \notin KV!LifecycleOps
           /\ r.op \in KV!ReadOps => ~KV!Refused(r, d)
  <1>1. r.op \in KV!WriteOps => r.op \notin KV!ReadOps
    BY DEF KV!WriteOps, KV!ReadOps
  <1>2. r.op \in KV!ReadOps \cup KV!WriteOps => r.op \notin KV!LifecycleOps
    BY DEF KV!WriteOps, KV!ReadOps, KV!LifecycleOps
  <1>3. r.op \in KV!ReadOps => ~KV!Refused(r, d)
    BY DEF KV!ReadOps, KV!Refused
  <1>4. QED
    BY <1>1, <1>2, <1>3 DEF KV!Answer

-----------------------------------------------------------------------------
\* A write transaction of an LMDB store that fails or refuses changes nothing;
\* one that commits does all its call promises.
LEMMA LmdbContract ==
    ASSUME NEW t \in Threads, OnLmdb(t), Shape', Transactional
    PROVE  Promise!DurableNext \/ UNCHANGED (Promise!vars)
  <1> DEFINE r == call[t]
  <1>1. /\ Shape /\ LmdbPhase(t) /\ Busy(t) /\ Task(t) /\ call' = call /\ UNCHANGED site
        /\ site.backend = "lmdb"
    BY LmdbFrame DEF OnLmdb, LmdbInv, Quiet, Task
  <1>2. /\ AbsData = data /\ AbsData' = data'
        /\ \A u \in Threads : AbsAnswer[u] = answer[u] /\ AbsAnswer'[u] = answer'[u]
        /\ \A u \in Threads \ {t} : AbsAnswer'[u] = AbsAnswer[u]
    BY <1>1, Undecided, UndecidedNext DEF Deciding, Task
  <1>3. /\ r \in Calls /\ r \in KV!Request /\ AbsAnswer[t] = KV!NoAnswer
        /\ r.op # "set_many" => DOMAIN r.items = {}
        /\ r.items \in Items /\ DOMAIN r.items \subseteq Keys
        /\ data \in Contents /\ data \in [Keys -> Slot \ Unstorable]
    BY <1>1, <1>2, Running
  <1>4. r.op \notin {"filter", "iter_batches"}
    BY <1>1, <1>3 DEF Transactional
  <1>5. \A a : a # KV!NoAnswer /\ End(t, a) => AbsAnswer'[t] = a
    BY <1>1, <1>2, Ways
  <1>6. CASE Lmdb!NothingToDo(t)
    <2>1. /\ Empty(r) /\ End(t, KV!Answer(r, EmptyStore)) /\ UNCHANGED data
      BY <1>6, LmdbData, LmdbSteps, SameAnswer DEF Lmdb!NothingToDo
    <2>2. /\ KV!Answer(r, EmptyStore) = KV!Answer(r, AbsData) /\ ~KV!Refused(r, AbsData)
          /\ DOMAIN KV!Effect(r, AbsData) = {} /\ r.op \notin KV!LifecycleOps
      BY <1>1, <2>1, NothingExecutes
    <2>3. KV!Answer(r, EmptyStore) # KV!NoAnswer
      BY LmdbAnswers, SameAnswer
    <2>4. Stored(AbsData, KV!Effect(r, AbsData)) = AbsData
      BY <1>2, <1>3, <2>2, StoredNothing
    <2>5. QED
      BY <1>1, <1>2, <1>3, <1>5, <2>1, <2>2, <2>3, <2>4, Executes
  <1>7. CASE Lmdb!Read(t)
    <2>1. /\ r.op \in KV!ReadOps /\ End(t, KV!Returns(KV!Seen(r, data))) /\ UNCHANGED data
      BY <1>7, LmdbSteps, SameSight DEF Lmdb!Read, Starts, KV!ReadOps, Lmdb!KV!Returns, KV!Returns
    <2>2. KV!Returns(KV!Seen(r, data)) # KV!NoAnswer
      BY LmdbAnswers DEF Lmdb!KV!Returns, KV!Returns
    <2>3. KV!Effect(r, data) = Nothing /\ Stored(data, Nothing) = data
      BY <1>3, <2>1, SameEffect, StoredNothing DEF Nothing
    <2>4. QED
      BY <1>1, <1>2, <1>3, <1>5, <2>1, <2>2, <2>3, AnswerIs, Executes
  <1>8. CASE Lmdb!StartScan(t) \/ Lmdb!Batch(t) \/ Lmdb!Listed(t)
    BY <1>1, <1>4, <1>8, LmdbSteps DEF Lmdb!StartScan, Lmdb!Batch, Lmdb!Listed, Starts, LmdbPhase
  <1>9. CASE Lmdb!EnterWrite(t)
    <2>1. GoTo(t, "txn") /\ UNCHANGED data
      BY <1>9, LmdbSteps DEF Lmdb!EnterWrite
    <2>2. AbsAnswer'[t] = AbsAnswer[t]
      BY <1>1, <1>2, <2>1, Ways
    <2>3. QED
      BY <1>1, <1>2, <2>1, <2>2, Stutters
  <1>10. ASSUME pc[t] = "txn"
         PROVE  /\ r.op \in KV!WriteOps
                /\ Refuses(r.items, r.on_conflict, found[t]) <=> KV!Refused(r, data)
                /\ Lmdb!Puts(t) = KV!Effect(r, data)
    <2>1. r.op \in KV!WriteOps /\ found[t] = Conflicts(r.items, Present(data))
      BY <1>1, <1>10 DEF LmdbPhase
    <2>2. Refuses(r.items, r.on_conflict, found[t]) <=> KV!Refused(r, data)
      BY <1>3, <2>1, SameRefusal DEF Refuses, Conflicts
    <2>3. ToWrite(r.items, r.on_conflict, found[t], data)
            = ToWrite(r.items, r.on_conflict, Present(data), data)
      BY <2>1 DEF ToWrite, Conflicts
    <2>4. Conditional(r) => r.op = "set_many"
      BY DEF Conditional
    <2>5. Lmdb!Puts(t) = KV!Effect(r, data)
      BY <2>3, <2>4, LmdbData, LmdbEffect, SameEffect DEF Lmdb!Puts
    <2>6. QED
      BY <2>1, <2>2, <2>5
  <1>11. CASE Lmdb!Abort(t)
    <2>1. /\ pc[t] = "txn" /\ UNCHANGED data
          /\ \/ Refuses(r.items, r.on_conflict, found[t]) /\ End(t, KV!KeyError)
             \/ Spoiled(Lmdb!Puts(t)) /\ End(t, Failed)
      BY <1>11, LmdbData, LmdbSteps
         DEF Lmdb!Abort, Leave, Lmdb!KV!KeyError, KV!KeyError, Lmdb!Failed, Failed
    <2>2. CASE Refuses(r.items, r.on_conflict, found[t]) /\ End(t, KV!KeyError)
      <3>1. KV!Refused(r, data) /\ r.op \in KV!WriteOps
        BY <1>10, <2>1, <2>2
      <3>2. KV!KeyError # KV!NoAnswer
        BY DEF KV!KeyError, KV!NoAnswer
      <3>3. QED
        BY <1>1, <1>2, <1>3, <1>5, <2>1, <2>2, <3>1, <3>2, AnswerIs, Executes
    <2>3. CASE Spoiled(Lmdb!Puts(t)) /\ End(t, Failed)
      <3>1. Spoiled(KV!Effect(r, data)) /\ r.op \in KV!WriteOps
        BY <1>10, <2>1, <2>3
      <3>2. r.op = "set_many" /\ Promise!Spoiled(r)
        BY <1>3, <3>1, EffectStorable
      <3>3. Failed # KV!NoAnswer
        BY DEF Failed, KV!NoAnswer
      <3>4. QED
        BY <1>1, <1>2, <1>3, <1>5, <2>1, <2>3, <3>2, <3>3, Fails
    <2>4. QED
      BY <2>1, <2>2, <2>3
  <1>12. CASE Lmdb!Commit(t)
    <2>1. /\ pc[t] = "txn" /\ ~Refuses(r.items, r.on_conflict, found[t])
          /\ data' = Stored(data, Lmdb!Puts(t)) /\ End(t, KV!Ok)
      BY <1>12, LmdbData, LmdbSteps, LmdbAnswers DEF Lmdb!Commit, Apply, Leave
    <2>2. r.op \in KV!WriteOps /\ ~KV!Refused(r, data) /\ Lmdb!Puts(t) = KV!Effect(r, data)
      BY <1>10, <2>1
    <2>3. KV!Ok # KV!NoAnswer
      BY DEF KV!Ok, KV!NoAnswer
    <2>4. QED
      BY <1>1, <1>2, <1>3, <1>5, <2>1, <2>2, <2>3, AnswerIs, Executes
  <1>13. QED
    BY <1>6, <1>7, <1>8, <1>9, <1>11, <1>12 DEF OnLmdb, Lmdb!Step

-----------------------------------------------------------------------------
\* What t has still to write of a batch it has decided on.
Pending(t) == [k \in todo[t] |-> Planned(t)[k]]

\* The batches of a DuckDB store are decided on and written one at a time: the
\* contract's store has all of the one that is being written.
LEMMA Decided ==
    ASSUME NEW t \in Threads, Deciding(t), \A u \in Threads \ {t} : ~Deciding(u)
    PROVE  /\ AbsData = Stored(data, Pending(t)) /\ AbsAnswer[t] = KV!Ok
           /\ \A u \in Threads \ {t} : AbsAnswer[u] = answer[u]
  <1>1. ASSUME NEW k \in todo[t]
        PROVE  (CHOOSE u \in Threads : Deciding(u) /\ k \in todo[u]) = t
    <2>1. \E u \in Threads : Deciding(u) /\ k \in todo[u]
      OBVIOUS
    <2>2. \A u \in Threads : Deciding(u) /\ k \in todo[u] => u = t
      OBVIOUS
    <2>3. QED
      BY <2>1, <2>2
  <1>2. \A k \in Keys : AbsData[k] = IF k \in todo[t] THEN Planned(t)[k] ELSE data[k]
    <2> SUFFICES ASSUME NEW k \in Keys
                 PROVE  AbsData[k] = IF k \in todo[t] THEN Planned(t)[k] ELSE data[k]
      OBVIOUS
    <2>1. AbsData[k] = IF \E u \in Threads : Deciding(u) /\ k \in todo[u]
                       THEN Planned(CHOOSE u \in Threads : Deciding(u) /\ k \in todo[u])[k]
                       ELSE data[k]
      BY DEF AbsData
    <2>2. QED
      BY <1>1, <2>1
  <1>3. AbsData = Stored(data, Pending(t))
    BY <1>2 DEF AbsData, Stored, Pending
  <1>4. QED
    BY <1>3 DEF AbsAnswer

\* The same after a step.
LEMMA DecidedNext ==
    ASSUME NEW t \in Threads, Deciding(t)', \A u \in Threads \ {t} : ~Deciding(u)'
    PROVE  /\ AbsData' = Stored(data', Pending(t)') /\ AbsAnswer'[t] = KV!Ok
           /\ \A u \in Threads \ {t} : AbsAnswer'[u] = answer'[u]
  <1>1. ASSUME NEW k \in todo'[t]
        PROVE  (CHOOSE u \in Threads : Deciding(u)' /\ k \in todo'[u]) = t
    <2>1. \E u \in Threads : Deciding(u)' /\ k \in todo'[u]
      OBVIOUS
    <2>2. \A u \in Threads : Deciding(u)' /\ k \in todo'[u] => u = t
      OBVIOUS
    <2>3. QED
      BY <2>1, <2>2
  <1>2. \A k \in Keys : AbsData'[k] = IF k \in todo'[t] THEN Planned(t)'[k] ELSE data'[k]
    <2> SUFFICES ASSUME NEW k \in Keys
                 PROVE  AbsData'[k] = IF k \in todo'[t] THEN Planned(t)'[k] ELSE data'[k]
      OBVIOUS
    <2>1. CASE k \in todo'[t]
      BY <1>1, <2>1 DEF AbsData, Planned
    <2>2. CASE k \notin todo'[t]
      BY <2>2 DEF AbsData
    <2>3. QED
      BY <2>1, <2>2
  <1>3. AbsData' = Stored(data', Pending(t)')
    BY <1>2 DEF AbsData, Stored, Pending
  <1>4. QED
    BY <1>3 DEF AbsAnswer

\* A batch that is being written is in the lock: there is one at a time.
LEMMA DecidingLocks ==
    /\ DuckInv => \A u \in Threads : Deciding(u) => lock = u
    /\ DuckInv' => \A u \in Threads : Deciding(u)' => lock' = u
  BY DEF DuckInv, DuckPhase, Deciding

\* Steps of a call that has not decided leave the batch of another as it is.
LEMMA Bystander ==
    ASSUME Shape, Shape', NEW t \in Threads, UNCHANGED <<site, data>>,
           site.backend = "duckdb" => DuckInv /\ DuckInv',
           ~Deciding(t), ~Deciding(t)',
           \A u \in Threads \ {t} :
                /\ pc'[u] = pc[u] /\ call'[u] = call[u] /\ answer'[u] = answer[u]
                /\ found'[u] = found[u] /\ got'[u] = got[u] /\ todo'[u] = todo[u]
    PROVE  /\ AbsData' = AbsData /\ AbsAnswer[t] = answer[t] /\ AbsAnswer'[t] = answer'[t]
           /\ \A u \in Threads \ {t} : AbsAnswer'[u] = AbsAnswer[u]
  <1>1. \A u \in Threads \ {t} : Deciding(u)' <=> Deciding(u)
    BY DEF Deciding
  <1>2. CASE \A u \in Threads : ~Deciding(u)
    BY <1>1, <1>2, Undecided, UndecidedNext
  <1>3. ASSUME NEW u \in Threads, Deciding(u)
        PROVE  /\ AbsData' = AbsData
               /\ \A v \in Threads \ {u} : AbsAnswer[v] = answer[v] /\ AbsAnswer'[v] = answer'[v]
               /\ AbsAnswer'[u] = AbsAnswer[u]
    <2>1. u # t /\ Deciding(u)' /\ site.backend = "duckdb"
      BY <1>1, <1>3 DEF Deciding
    <2>2. \A v \in Threads \ {u} : ~Deciding(v) /\ ~Deciding(v)'
      BY <1>3, <2>1, DecidingLocks
    <2>3. Planned(u)' = Planned(u)
      BY <2>1, PlannedStays
    <2>4. Pending(u)' = Pending(u)
      BY <2>1, <2>3 DEF Pending
    <2>5. QED
      BY <1>3, <2>1, <2>2, <2>4, Decided, DecidedNext
  <1>4. QED
    BY <1>2, <1>3

\* What a batch has decided to write can be stored when its items can, and
\* what it has read of the store.
LEMMA PlannedStorable ==
    ASSUME Shape, NEW t \in Threads, ~Promise!Spoiled(call[t]), NEW k \in DOMAIN Planned(t),
           Conditional(call[t]) /\ k \in DOMAIN got[t] => got[t][k] \in Slot \ Unstorable
    PROVE  Planned(t)[k] \notin Unstorable
  <1> DEFINE r   == call[t]
             old == [i \in found[t] |-> IF i \in DOMAIN got[t] THEN got[t][i] ELSE Absent]
  <1>1. r.items \in Items /\ \A i \in DOMAIN r.items : r.items[i] \notin Unstorable
    <2>1. r \in KV!Request
      BY DEF Shape, TypeOK
    <2>2. QED
      BY <2>1, RequestType DEF Promise!Spoiled
  <1>2. Planned(t) = IF Conditional(r) THEN ToWrite(r.items, r.on_conflict, found[t], old)
                     ELSE r.items
    BY DEF Planned
  <1>3. CASE Conditional(r)
    <2>1. k \in found[t] => old[k] \in Slot \ Unstorable
      BY <1>3, AbsentStorable
    <2>2. /\ k \in DOMAIN r.items
          /\ Planned(t)[k] = IF k \in found[t] THEN Merged(OrEmpty(old[k]), r.items[k])
                             ELSE r.items[k]
      BY <1>2, <1>3 DEF ToWrite
    <2>3. r.items[k] \in Value \ Unstorable
      BY <1>1, <2>2 DEF Items
    <2> HIDE DEF old, r
    <2>4. k \in found[t] => Merged(OrEmpty(old[k]), r.items[k]) \notin Unstorable
      BY <2>1, <2>3, MergedStorable
    <2>5. QED
      BY <2>2, <2>3, <2>4
  <1>4. CASE ~Conditional(r)
    BY <1>1, <1>2, <1>4
  <1>5. QED
    BY <1>3, <1>4

\* In a DuckDB store a read and a DELETE take effect as one statement, a batch
\* when it decides what to write.
LEMMA DuckContract ==
    ASSUME NEW t \in Threads, OnDuck(t), Shape', DuckInv', Transactional
    PROVE  Promise!DurableNext \/ UNCHANGED (Promise!vars)
  <1> DEFINE r == call[t]
  <1>1. /\ Shape /\ DuckInv /\ DuckPhase(t) /\ Busy(t) /\ Task(t) /\ Reads(t) /\ call' = call
        /\ UNCHANGED site /\ site.backend = "duckdb" /\ DOMAIN pc = Threads
        /\ \A u \in Threads \ {t} : todo'[u] = todo[u]
        /\ found \in [Threads -> SUBSET Keys] /\ todo \in [Threads -> SUBSET Keys]
        /\ got \in [Threads -> Writes]
    BY DuckFrame DEF OnDuck, DuckInv, Task, Shape, TypeOK
  <1>2. /\ r \in Calls /\ r \in KV!Request /\ answer[t] = KV!NoAnswer
        /\ r.op # "set_many" => DOMAIN r.items = {}
        /\ r.items \in Items /\ DOMAIN r.items \subseteq Keys
        /\ data \in Contents /\ data \in [Keys -> Slot \ Unstorable]
    BY <1>1, Running
  <1>3. r.op # "iter_batches" /\ ~Promise!Spoiled(r)
    BY <1>1, <1>2 DEF Transactional
  <1>4. /\ \A a : a # KV!NoAnswer /\ End(t, a) => ~Deciding(t)' /\ answer'[t] = a
        /\ \A phase : phase # "idle" /\ GoTo(t, phase) => pc'[t] = phase /\ answer'[t] = answer[t]
    BY <1>1, Ways DEF Deciding
  <1>5. ASSUME ~Deciding(t), ~Deciding(t)', UNCHANGED data
        PROVE  /\ AbsData' = AbsData /\ AbsAnswer[t] = answer[t] /\ AbsAnswer'[t] = answer'[t]
               /\ \A u \in Threads \ {t} : AbsAnswer'[u] = AbsAnswer[u]
    BY <1>1, <1>5, Bystander DEF OnDuck, Task, Reads
  <1>6. ASSUME lock = NoThread \/ (lock = t /\ ~Deciding(t)), ~Deciding(t)',
               \A u \in Threads \ {t} : lock' # u
        PROVE  /\ AbsData = data /\ AbsData' = data'
               /\ AbsAnswer[t] = KV!NoAnswer /\ AbsAnswer'[t] = answer'[t]
               /\ \A u \in Threads \ {t} : AbsAnswer'[u] = AbsAnswer[u]
    <2>1. \A u \in Threads : ~Deciding(u) /\ ~Deciding(u)'
      BY <1>1, <1>6, DecidingLocks, ThreadAssumption
    <2>2. QED
      BY <1>1, <1>2, <2>1, Undecided, UndecidedNext DEF Task
  <1>7. ASSUME lock = NoThread \/ (lock = t /\ ~Deciding(t)), lock' = t, Deciding(t)'
        PROVE  /\ AbsData = data /\ AbsData' = Stored(data', Pending(t)')
               /\ AbsAnswer[t] = KV!NoAnswer /\ AbsAnswer'[t] = KV!Ok
               /\ \A u \in Threads \ {t} : AbsAnswer'[u] = AbsAnswer[u]
    <2>1. (\A u \in Threads : ~Deciding(u)) /\ \A u \in Threads \ {t} : ~Deciding(u)'
      BY <1>1, <1>7, DecidingLocks, ThreadAssumption
    <2>2. QED
      BY <1>1, <1>2, <1>7, <2>1, Undecided, DecidedNext DEF Task
  <1>8. CASE Duck!NothingToDo(t)
    <2>1. /\ pc[t] = "start" /\ Empty(r) /\ End(t, KV!Answer(r, EmptyStore)) /\ UNCHANGED data
      BY <1>8, DuckData, DuckSteps, SameAnswer DEF Duck!NothingToDo
    <2>2. /\ KV!Answer(r, EmptyStore) = KV!Answer(r, AbsData) /\ ~KV!Refused(r, AbsData)
          /\ DOMAIN KV!Effect(r, AbsData) = {} /\ r.op \notin KV!LifecycleOps
      BY <1>1, <2>1, NothingExecutes
    <2>3. KV!Answer(r, EmptyStore) # KV!NoAnswer
      BY DuckAnswers, SameAnswer
    <2>4. Stored(AbsData, KV!Effect(r, AbsData)) = AbsData
      BY <2>2 DEF Stored, AbsData
    <2>5. ~Deciding(t)
      BY <2>1 DEF Deciding
    <2>6. QED
      BY <1>1, <1>2, <1>4, <1>5, <2>1, <2>2, <2>3, <2>4, <2>5, Executes
  <1>9. CASE Duck!Read(t)
    <2>1. /\ r.op \in KV!ReadOps /\ End(t, KV!Returns(KV!Seen(r, data))) /\ UNCHANGED <<data, lock>>
          /\ lock = NoThread
      BY <1>9, DuckSteps, SameSight DEF Duck!Read, Starts, KV!ReadOps, Duck!KV!Returns, KV!Returns
    <2>2. KV!Returns(KV!Seen(r, data)) # KV!NoAnswer
      BY DuckAnswers DEF Duck!KV!Returns, KV!Returns
    <2>3. KV!Effect(r, data) = Nothing /\ Stored(data, Nothing) = data
      BY <1>2, <2>1, SameEffect, StoredNothing DEF Nothing
    <2>4. QED
      BY <1>1, <1>4, <1>6, <2>1, <2>2, <2>3, ThreadAssumption, AnswerIs, Executes
  <1>10. CASE Duck!Delete(t)
    <2>1. /\ r.op \in KV!WriteOps /\ r.op # "set_many" /\ data' = Stored(data, KV!Effect(r, data))
          /\ End(t, KV!Ok) /\ lock = NoThread /\ lock' = NoThread
      BY <1>10, DuckSteps, DuckEffect, DuckAnswers DEF Duck!Delete, Starts, Apply, KV!WriteOps
    <2>2. ~KV!Refused(r, data) /\ KV!Ok # KV!NoAnswer
      BY <2>1 DEF KV!Refused, KV!Ok, KV!NoAnswer
    <2>3. QED
      BY <1>1, <1>4, <1>6, <2>1, <2>2, ThreadAssumption, AnswerIs, Executes
  <1>11. CASE Duck!StartScan(t) \/ Duck!NextPage(t)
    BY <1>1, <1>3, <1>11, DuckSteps DEF Duck!StartScan, Duck!NextPage, Starts, DuckPhase
  <1>12. CASE Duck!Overwrite(t)
    <2>1. /\ r.op = "set_many" /\ ~Conditional(r) /\ lock = NoThread /\ lock' = t
          /\ Visit(t, "rows", DOMAIN r.items) /\ UNCHANGED <<data, found, got>>
      BY <1>12, DuckData, DuckSteps DEF Duck!Overwrite, Starts
    <2>2. Planned(t)' = r.items /\ todo'[t] = DOMAIN r.items /\ Deciding(t)'
      BY <1>1, <1>4, <2>1, PlannedStays, PlannedType DEF Visit, Deciding
    <2>3. Pending(t)' = r.items
      BY <1>2, <2>2 DEF Pending, Items
    <2>4. /\ ~KV!Refused(r, data) /\ KV!Effect(r, data) = r.items /\ r.op \in KV!WriteOps
      BY <2>1, SameEffect, SameRefusal DEF Conditional, Refuses, KV!WriteOps
    <2>5. QED
      BY <1>1, <1>7, <2>1, <2>2, <2>3, <2>4, AnswerIs, Executes
  <1>13. CASE Duck!EnterBatch(t)
    <2>1. GoTo(t, "check") /\ UNCHANGED data /\ lock = NoThread /\ lock' = t
      BY <1>13, DuckSteps DEF Duck!EnterBatch
    <2>2. ~Deciding(t)' /\ answer'[t] = answer[t]
      BY <1>4, <2>1 DEF Deciding
    <2>3. QED
      BY <1>1, <1>2, <1>6, <2>1, <2>2, Stutters
  <1>14. CASE Duck!Resolve(t)
    <2> DEFINE hit == Conflicts(r.items, Present(data))
    <2>1. /\ pc[t] = "check" /\ lock = t /\ ~Deciding(t) /\ r.op = "set_many" /\ Conditional(r)
          /\ r.op \in KV!WriteOps
      BY <1>1, <1>14 DEF Duck!Resolve, DuckPhase, Deciding, Conditional, KV!WriteOps
    <2>2. Refuses(r.items, r.on_conflict, hit) <=> KV!Refused(r, data)
      BY <1>2, <2>1, SameRefusal DEF Refuses, Conflicts
    <2>3. CASE KV!Refused(r, data)
      <3>1. Leave(t, KV!KeyError) /\ UNCHANGED data
        BY <1>14, <2>2, <2>3, DuckData, DuckSteps DEF Duck!Resolve, Duck!KV!KeyError, KV!KeyError
      <3>2. End(t, KV!KeyError) /\ lock' = NoThread /\ KV!KeyError # KV!NoAnswer
        BY <2>1, <3>1 DEF Leave, KV!KeyError, KV!NoAnswer
      <3>3. QED
        BY <1>1, <1>4, <1>6, <2>1, <2>3, <3>1, <3>2, ThreadAssumption, AnswerIs, Executes
    <2>4. CASE ~KV!Refused(r, data)
      <3> DEFINE g == [k \in hit |-> data[k]]
                 w == ToWrite(r.items, r.on_conflict, hit, data)
      <3>1. /\ found' = [found EXCEPT ![t] = hit] /\ got' = [got EXCEPT ![t] = g]
            /\ Visit(t, "rows", DOMAIN w) /\ UNCHANGED <<lock, data>>
        BY <1>14, <2>2, <2>4, DuckData, DuckSteps DEF Duck!Resolve
      <3>2. /\ found'[t] = hit /\ got'[t] = g /\ todo'[t] = DOMAIN w /\ Deciding(t)'
        BY <1>1, <1>4, <3>1 DEF Visit, Deciding
      <3>3. Planned(t)' = w
        BY <1>1, <2>1, <3>2 DEF Planned, ToWrite, Conditional
      <3>4. w = KV!Effect(r, data)
        <4>1. w = ToWrite(r.items, r.on_conflict, Present(data), data)
          BY DEF ToWrite, Conflicts
        <4>2. QED
          BY <2>1, <4>1, SameEffect
      <3>5. Pending(t)' = w
        BY <3>2, <3>3 DEF Pending, ToWrite
      <3> HIDE DEF w, g
      <3>6. QED
        BY <1>1, <1>7, <2>1, <2>4, <3>1, <3>2, <3>4, <3>5, AnswerIs, Executes
    <2>5. QED
      BY <2>3, <2>4
  <1>15. ASSUME pc[t] = "rows"
         PROVE  /\ Deciding(t) /\ r.op = "set_many" /\ lock = t /\ todo[t] \subseteq DOMAIN Planned(t)
                /\ \A u \in Threads \ {t} : ~Deciding(u) /\ lock' # u /\ ~Deciding(u)'
                /\ \A k \in todo[t] : Planned(t)[k] \notin Unstorable
    <2>1. /\ Deciding(t) /\ r.op = "set_many" /\ lock = t /\ todo[t] \subseteq DOMAIN Planned(t)
          /\ Conditional(r) => \A k \in todo[t] : k \in DOMAIN got[t] => got[t][k] = data[k]
      BY <1>1, <1>15 DEF DuckPhase, Deciding
    <2>2. lock' = t \/ lock' = NoThread
      BY <1>1, <2>1, DuckFrame, ThreadAssumption DEF Lockwise
    <2>3. \A u \in Threads \ {t} : ~Deciding(u) /\ lock' # u /\ ~Deciding(u)'
      BY <2>1, <2>2, <1>1, DecidingLocks, ThreadAssumption
    <2>4. ASSUME NEW k \in todo[t] PROVE Planned(t)[k] \notin Unstorable
      <3>1. k \in Keys /\ data[k] \in Slot \ Unstorable
        BY <1>1, <1>2
      <3>2. QED
        BY <1>1, <1>3, <2>1, <2>4, <3>1, PlannedStorable
    <2>5. QED
      BY <2>1, <2>3, <2>4
  <1>16. CASE Duck!RefuseBatch(t)
    <2>1. pc[t] = "rows" /\ todo[t] = DOMAIN Planned(t) /\ Spoiled(Planned(t))
      BY <1>16, DuckData, DuckSteps DEF Duck!RefuseBatch
    <2>2. QED
      BY <1>15, <2>1 DEF Spoiled
  <1>17. CASE Duck!WriteRow(t)
    <2>1. pc[t] = "rows"
      BY <1>17 DEF Duck!WriteRow
    <2>2. PICK k \in todo[t] :
            IF Planned(t)[k] \in Unstorable
            THEN Leave(t, Failed) /\ UNCHANGED <<data, scan>>
            ELSE /\ Apply([i \in {k} |-> Planned(t)[k]]) /\ Visited(t, k)
                 /\ UNCHANGED <<lock, task, found, got, want>>
      BY <1>17, DuckData, DuckSteps DEF Duck!WriteRow, Duck!Failed, Failed, Duck!task, task
    <2>3. /\ data' = Stored(data, [i \in {k} |-> Planned(t)[k]])
          /\ todo' = [todo EXCEPT ![t] = @ \ {k}] /\ UNCHANGED <<lock, pc, answer, found, got>>
      BY <1>15, <2>1, <2>2 DEF Apply, Visited, task
    <2>4. todo'[t] = todo[t] \ {k} /\ Planned(t)' = Planned(t) /\ Deciding(t)'
      BY <1>1, <1>15, <2>1, <2>3, PlannedStays DEF Deciding
    <2>5. /\ AbsData = Stored(data, Pending(t)) /\ AbsAnswer[t] = KV!Ok
          /\ \A u \in Threads \ {t} : AbsAnswer[u] = answer[u]
      BY <1>15, <2>1, Decided
    <2>6. /\ AbsData' = Stored(data', Pending(t)') /\ AbsAnswer'[t] = KV!Ok
          /\ \A u \in Threads \ {t} : AbsAnswer'[u] = answer'[u]
      BY <1>15, <2>1, <2>4, DecidedNext
    <2>7. Stored(data', Pending(t)') = Stored(data, Pending(t))
      <3>1. Pending(t) = [i \in todo[t] |-> Planned(t)[i]]
            /\ Pending(t)' = [i \in todo[t] \ {k} |-> Planned(t)[i]]
        BY <2>4 DEF Pending
      <3>2. QED
        BY <1>2, <2>3, <3>1 DEF Stored
    <2>8. QED
      BY <1>1, <2>3, <2>5, <2>6, <2>7, Stutters
  <1>18. CASE Duck!Written(t)
    <2>1. /\ pc[t] = "rows" /\ todo[t] = {} /\ End(t, KV!Ok) /\ UNCHANGED data
          /\ KV!Ok # KV!NoAnswer
      BY <1>18, DuckSteps, DuckAnswers DEF Duck!Written, Leave, KV!Ok, KV!NoAnswer
    <2>2. /\ AbsData = Stored(data, Pending(t)) /\ AbsAnswer[t] = KV!Ok
          /\ \A u \in Threads \ {t} : AbsAnswer[u] = answer[u]
      BY <1>15, <2>1, Decided
    <2>3. Stored(data, Pending(t)) = data
      BY <1>2, <2>1 DEF Stored, Pending, Contents
    <2>4. ~Deciding(t)' /\ answer'[t] = KV!Ok
      BY <1>4, <2>1
    <2>5. AbsData' = data' /\ \A u \in Threads : AbsAnswer'[u] = answer'[u]
      BY <1>1, <1>15, <2>1, <2>4, UndecidedNext
    <2>6. QED
      BY <1>1, <2>1, <2>2, <2>3, <2>4, <2>5, Stutters DEF Task
  <1>19. QED
    BY <1>8, <1>9, <1>10, <1>11, <1>12, <1>13, <1>14, <1>16, <1>17, <1>18 DEF OnDuck, Duck!Step

-----------------------------------------------------------------------------
(* A SQLite store that is used synchronously, for whole calls of values    *)
(* that can be stored: the other connection stays out of its way, and a    *)
(* call that waits for its commit has written all it promises.             *)
SyncOnly ==
    /\ site.backend = "sqlite" /\ \A t \in Threads : Conn(t) = "sync"
    /\ \A r \in Calls : r.op # "iter_batches" /\ ~Promise!Spoiled(r)

SyncPhase(t) ==
    LET r == call[t] IN
    /\ pc[t] = "select" => r.op \in KV!ReadOps
    /\ pc[t] = "get" => r.on_conflict = "merge"
    /\ pc[t] = "insert" /\ Conditional(r) =>
        /\ ~Refuses(r.items, r.on_conflict, found[t])
        /\ r.on_conflict = "merge" => found[t] \subseteq DOMAIN got[t]
    /\ pc[t] = "commit" => work["sync"] = KV!Effect(r, data) /\ ~KV!Refused(r, data)

SyncOwn ==
    /\ txn["async"] = "none" /\ work["async"] = Nothing /\ ~failed["sync"]
    /\ \A t \in Threads : SyncPhase(t)

SyncInv == SyncOnly => SyncOwn

OnSync(t) == Inv /\ SyncOnly /\ SyncOwn /\ OnSql(t)

\* How a store is used is a matter of the deployment.
LEMMA SyncStays == ASSUME UNCHANGED site PROVE SyncOnly' <=> SyncOnly
  <1>1. Calls' = Calls
    BY DEF Calls
  <1>2. \A t : Conn(t)' = Conn(t)
    BY DEF Conn
  <1>3. \A r : Promise!Spoiled(r)' <=> Promise!Spoiled(r)
    BY DEF Promise!Spoiled
  <1>4. QED
    BY <1>1, <1>2, <1>3 DEF SyncOnly

\* Nobody waits for a connection, and the one in the lock finds it at rest.
LEMMA SyncRest ==
    ASSUME NEW t \in Threads, Inv, SyncOnly, SyncOwn, Busy(t)
    PROVE  /\ Shape /\ SqlPhase(t) /\ Conn(t) = "sync" /\ Other("sync") = "async"
           /\ call[t] \in Calls /\ call[t].op # "iter_batches" /\ ~Promise!Spoiled(call[t])
           /\ CanRead("sync") /\ CanWrite("sync") /\ CanCommit("sync")
           /\ \A u \in Threads : pc[u] = "commit" => lock = u
           /\ pc[t] \in {"select", "check", "get", "insert"} =>
                lock = t /\ work["sync"] = Nothing /\ txn["sync"] = "none" /\ View("sync") = data
           /\ pc[t] \notin {"fetch", "cursor", "written", "page"}
  <1>1. /\ Shape /\ \A u \in Threads : SqlPhase(u) /\ Conn(u) = "sync"
    BY DEF Inv, Own, SqlInv, SyncOnly
  <1>2. call[t] \in Calls
    BY <1>1 DEF Shape, ShapeOf, Calls, Busy
  <1>3. call[t].op # "iter_batches" /\ ~Promise!Spoiled(call[t])
    BY <1>2 DEF SyncOnly
  <1>4. \A u \in Threads : pc[u] = "commit" => lock = u
    BY <1>1 DEF SqlPhase
  <1>5. pc[t] \notin {"fetch", "cursor", "written", "page"}
    BY <1>1, <1>3 DEF SqlPhase
  <1>6. \A u \in Threads : Conn(u) # "async" /\ pc[u] # "written"
    BY <1>1 DEF SqlPhase
  <1>7. Other("sync") = "async" /\ CanRead("sync") /\ CanWrite("sync") /\ CanCommit("sync")
    BY <1>6 DEF Other, CanRead, CanWrite, CanCommit, LiveCursor, SyncOwn
  <1>8. ASSUME pc[t] \in {"select", "check", "get", "insert"}
        PROVE  lock = t /\ work["sync"] = Nothing /\ txn["sync"] = "none" /\ View("sync") = data
    <2>1. lock = t
      BY <1>1, <1>8 DEF SqlPhase
    <2>2. \A u \in Threads : pc[u] \notin {"written", "commit"}
      BY <1>4, <1>6, <1>8, <2>1
    <2>3. work["sync"] = Nothing /\ txn["sync"] = "none"
      BY <2>2 DEF Inv, ConnectionsAgree, SyncOwn, Conns
    <2>4. Stored(data, Nothing) = data
      BY <1>1, StoredNothing DEF Nothing, Shape, TypeOK, Contents
    <2>5. QED
      BY <2>1, <2>3, <2>4 DEF View
  <1>9. QED
    BY <1>1, <1>2, <1>3, <1>4, <1>5, <1>7, <1>8

\* What a call writes is what it promises.
LEMMA SyncWrites ==
    ASSUME NEW t \in Threads, Inv, SyncOnly, SyncOwn, pc[t] = "insert"
    PROVE  /\ Writing(t) = KV!Effect(call[t], data) /\ ~KV!Refused(call[t], data)
           /\ ~Spoiled(Writing(t)) /\ call[t].op \in KV!WriteOps
  <1> DEFINE r   == call[t]
             old == [k \in found[t] |-> IF k \in DOMAIN got[t] THEN got[t][k] ELSE Absent]
  <1>1. /\ Shape /\ SqlPhase(t) /\ Busy(t) /\ Conn(t) = "sync" /\ View("sync") = data
        /\ SyncPhase(t) /\ ~Promise!Spoiled(r)
    BY SyncRest DEF SyncOwn, Busy
  <1>2. /\ r \in KV!Request /\ r.items \in Items /\ DOMAIN r.items \subseteq Keys
        /\ data \in [Keys -> Slot \ Unstorable] /\ r.on_conflict \in OnConflict
        /\ r.op \in KV!WriteOps
    BY <1>1, Running DEF SqlPhase
  <1>3. ASSUME Conditional(r)
        PROVE  Writing(t) = KV!Effect(r, data) /\ ~KV!Refused(r, data)
    <2>1. Serialized
      BY DEF SyncOnly, Serialized
    <2>2. SqlCurrent(t)
      BY <2>1 DEF Inv, Own, SyncOnly
    <2>3. /\ found[t] = Conflicts(r.items, Present(data))
          /\ \A k \in DOMAIN got[t] : got[t][k] = data[k]
      BY <1>1, <1>3, <2>2 DEF SqlCurrent
    <2>4. /\ ~Refuses(r.items, r.on_conflict, found[t])
          /\ r.on_conflict = "merge" => \A k \in found[t] : old[k] = data[k]
      BY <1>1, <1>3, <2>3 DEF SyncPhase
    <2>5. Planned(t) = ToWrite(r.items, r.on_conflict, found[t], old)
      BY <1>3 DEF Planned
    <2> HIDE DEF old
    <2>6. ToWrite(r.items, r.on_conflict, found[t], old)
            = ToWrite(r.items, r.on_conflict, Present(data), data)
      <3>1. CASE r.on_conflict = "merge"
        BY <2>3, <2>4, <3>1 DEF ToWrite, Conflicts
      <3>2. CASE r.on_conflict = "skip"
        BY <2>3, <3>2 DEF ToWrite, Conflicts
      <3>3. CASE r.on_conflict = "raise"
        BY <2>3, <2>4, <3>3 DEF ToWrite, Conflicts, Refuses
      <3>4. QED
        BY <1>2, <1>3, <3>1, <3>2, <3>3 DEF OnConflict, Conditional
    <2>7. r.op = "set_many"
      BY <1>3 DEF Conditional
    <2>8. Writing(t) = KV!Effect(r, data)
      BY <1>3, <2>5, <2>6, <2>7, SameEffect DEF Writing
    <2>9. ~KV!Refused(r, data)
      BY <2>3, <2>4, SameRefusal DEF Refuses, Conflicts
    <2>10. QED
      BY <2>8, <2>9
  <1>4. ASSUME ~Conditional(r)
        PROVE  Writing(t) = KV!Effect(r, data) /\ ~KV!Refused(r, data)
    <2>1. Writing(t) = KV!Effect(r, data)
      BY <1>4, SameEffect DEF Writing, Planned, Conditional
    <2>2. ~KV!Refused(r, data)
      BY <1>4, SameRefusal DEF Conditional, Refuses
    <2>3. QED
      BY <2>1, <2>2
  <1>5. ~Spoiled(KV!Effect(r, data))
    BY <1>1, <1>2, EffectStorable
  <1>6. QED
    BY <1>2, <1>3, <1>4, <1>5

\* The steps there are.
LEMMA SyncSteps ==
    ASSUME NEW t \in Threads, OnSync(t)
    PROVE  /\ \/ SQLiteNothingToDo(t) \/ Enter(t) \/ Select(t) \/ Check(t) \/ Get(t)
              \/ Skip(t) \/ Insert(t) \/ Commit(t)
           /\ UNCHANGED site /\ Busy(t) /\ Task(t) /\ Reads(t)
  <1>1. Busy(t) /\ Task(t) /\ Reads(t) /\ UNCHANGED site
    BY SqlTask DEF OnSync
  <1>2. /\ Conn(t) = "sync" /\ CanRead("sync") /\ CanWrite("sync") /\ CanCommit("sync")
        /\ pc[t] \notin {"fetch", "cursor", "written", "page"}
        /\ call[t].op # "iter_batches"
    BY <1>1, SyncRest DEF OnSync
  <1>3. pc[t] = "insert" => ~Spoiled(Writing(t))
    BY SyncWrites DEF OnSync
  <1>4. /\ ~Fetch(t) /\ ~StartPages(t) /\ ~NextPage(t) /\ ~OpenCursor(t) /\ ~NextRow(t)
        /\ ~RefuseBatch(t) /\ ~RefuseRow(t) /\ ~Resume(t) /\ ~WaitForReaders(t)
        /\ ~ReadTimesOut(t) /\ ~WriteTimesOut(t)
    BY <1>2, <1>3 DEF Fetch, StartPages, Starts, NextPage, OpenCursor, NextRow, RefuseBatch,
       RefuseRow, Resume, WaitForReaders, ReadTimesOut, WriteTimesOut
  <1>5. QED
    BY <1>1, <1>4 DEF OnSync, OnSql, Step

\* The steps of a SQLite store used synchronously keep it so.
LEMMA SyncKept ==
    ASSUME NEW t \in Threads, OnSync(t)
    PROVE  SyncOwn'
  <1> DEFINE r == call[t]
  <1>1. /\ Shape /\ SqlPhase(t) /\ SyncPhase(t) /\ Busy(t) /\ Task(t) /\ Reads(t)
        /\ call' = call /\ UNCHANGED site /\ Conn(t) = "sync" /\ Other("sync") = "async"
        /\ DOMAIN pc = Threads /\ pc[t] # "idle"
        /\ work \in [Conns -> Writes] /\ txn \in [Conns -> TxnStates]
        /\ failed \in [Conns -> BOOLEAN] /\ found \in [Threads -> SUBSET Keys]
        /\ got \in [Threads -> Writes]
        /\ \A u \in Threads : pc[u] = "commit" => lock = u
    BY SyncSteps, SyncRest DEF OnSync, SyncOwn, Task, Shape, TypeOK, Busy
  <1>2. /\ \A a : (End(t, a) \/ Leave(t, a) \/ Return(t, a)) => pc'[t] = "idle"
        /\ \A phase : GoTo(t, phase) => pc'[t] = phase
    BY <1>1 DEF End, Leave, Return, GoTo
  <1>3. /\ txn["async"] = "none" /\ work["async"] = Nothing /\ failed["sync"] = FALSE
        /\ "sync" \in Conns /\ "async" \in Conns
    BY <1>1 DEF OnSync, SyncOwn, Conns
  <1>4. SUFFICES /\ txn'["async"] = "none" /\ work'["async"] = Nothing /\ ~failed'["sync"]
                 /\ \/ UNCHANGED <<data, work>>
                    \/ pc[t] \in {"insert", "commit"}
                 /\ SyncPhase(t)'
    <2>1. SUFFICES ASSUME \/ UNCHANGED <<data, work>>
                          \/ pc[t] \in {"insert", "commit"},
                          NEW u \in Threads \ {t}
                   PROVE  SyncPhase(u)'
      BY <1>4 DEF SyncOwn
    <2>2. /\ SyncPhase(u) /\ pc'[u] = pc[u] /\ call'[u] = call[u] /\ found'[u] = found[u]
          /\ got'[u] = got[u]
      BY <1>1 DEF OnSync, SyncOwn, Task, Reads
    <2>3. pc[t] \in {"insert", "commit"} => lock = t
      BY <1>1 DEF SqlPhase
    <2>4. pc[u] = "commit" => UNCHANGED <<data, work>>
      BY <1>1, <2>1, <2>3
    <2>5. Conditional(call[u])' <=> Conditional(call[u])
      BY <2>2
    <2>6. QED
      BY <2>2, <2>4, <2>5 DEF SyncPhase
  <1>5. CASE SQLiteNothingToDo(t) \/ Skip(t)
    <2>1. pc'[t] = "idle" /\ UNCHANGED <<data, work, txn, failed>>
      BY <1>2, <1>5 DEF SQLiteNothingToDo, NothingToDo, Skip, connections
    <2>2. QED
      BY <1>3, <2>1 DEF SyncPhase
  <1>6. CASE Enter(t)
    <2>1. /\ pc[t] = "start" /\ pc'[t] = Phase(r) /\ UNCHANGED <<data, work, txn, failed>>
          /\ r.op \in KV!ReadOps \cup KV!WriteOps /\ r.op # "iter_batches"
      BY <1>2, <1>6 DEF Enter, Starts
    <2>2. \/ pc'[t] = "select" /\ r.op \in KV!ReadOps
          \/ pc'[t] = "check"
          \/ pc'[t] = "insert" /\ ~Conditional(r)
      BY <2>1 DEF Phase
    <2>3. Conditional(r)' <=> Conditional(r)
      BY <1>1
    <2>4. QED
      BY <1>1, <1>3, <2>1, <2>2, <2>3 DEF SyncPhase
  <1>7. CASE Select(t)
    <2>1. pc'[t] = "idle" /\ UNCHANGED <<data, work, failed>> /\ Reading("sync")
      BY <1>1, <1>2, <1>7 DEF Select
    <2>2. txn'["async"] = "none"
      BY <1>1, <1>3, <2>1 DEF Reading
    <2>3. QED
      BY <1>3, <2>1, <2>2 DEF SyncPhase
  <1>8. CASE Check(t)
    <2>1. /\ UNCHANGED <<data, work, failed>> /\ Reading("sync") /\ pc[t] = "check"
          /\ DOMAIN got[t] = {}
      BY <1>1, <1>8 DEF Check, SqlPhase
    <2>2. txn'["async"] = "none"
      BY <1>1, <1>3, <2>1 DEF Reading
    <2>3. SyncPhase(t)'
      <3>1. CASE Return(t, KV!KeyError)
        BY <1>2, <3>1 DEF SyncPhase
      <3>2. CASE ~Return(t, KV!KeyError)
        <4> DEFINE hit == Conflicts(r.items, Present(View("sync")))
        <4>1. /\ ~Refuses(r.items, r.on_conflict, hit)
              /\ found' = [found EXCEPT ![t] = hit]
              /\ GoTo(t, IF r.on_conflict = "merge" /\ hit # {} THEN "get" ELSE "insert")
              /\ UNCHANGED got
          BY <1>1, <1>8, <3>2 DEF Check
        <4> HIDE DEF hit
        <4>2. /\ found'[t] = hit
              /\ pc'[t] = IF r.on_conflict = "merge" /\ hit # {} THEN "get" ELSE "insert"
          BY <1>1, <1>2, <4>1
        <4>3. (Conditional(r)' <=> Conditional(r)) /\ r' = r
          BY <1>1
        <4>4. QED
          BY <4>1, <4>2, <4>3 DEF SyncPhase
      <3>3. QED
        BY <3>1, <3>2
    <2>4. QED
      BY <1>3, <2>1, <2>2, <2>3
  <1>9. CASE Get(t)
    <2>1. PICK k \in found[t] \ DOMAIN got[t] :
            /\ got' = [got EXCEPT ![t] = [i \in DOMAIN got[t] \cup {k} |->
                            IF i = k THEN View("sync")[k] ELSE got[t][i]]]
            /\ GoTo(t, IF found[t] = DOMAIN got[t] \cup {k} THEN "insert" ELSE "get")
            /\ UNCHANGED found
      BY <1>1, <1>9 DEF Get
    <2>2. /\ UNCHANGED <<data, work, failed>> /\ Reading("sync") /\ pc[t] = "get"
      BY <1>1, <1>9 DEF Get
    <2>3. txn'["async"] = "none"
      BY <1>1, <1>3, <2>2 DEF Reading
    <2>4. /\ DOMAIN got'[t] = DOMAIN got[t] \cup {k} /\ found'[t] = found[t] /\ r' = r
          /\ pc'[t] = IF found[t] = DOMAIN got[t] \cup {k} THEN "insert" ELSE "get"
          /\ r.on_conflict = "merge"
      BY <1>1, <1>2, <2>1, <2>2 DEF SyncPhase
    <2>5. QED
      BY <1>3, <2>2, <2>3, <2>4 DEF SyncPhase, Refuses
  <1>10. CASE Insert(t)
    <2> DEFINE w == Writing(t)
    <2>1. /\ pc[t] = "insert" /\ Written("sync", w) /\ GoTo(t, "commit") /\ UNCHANGED <<data, failed>>
      BY <1>1, <1>10 DEF Insert
    <2>2. w = KV!Effect(r, data) /\ ~KV!Refused(r, data) /\ w \in Writes /\ work["sync"] = Nothing
      BY <1>1, <2>1, SyncWrites, SyncRest, WritingType DEF OnSync
    <2> HIDE DEF w
    <2>3. /\ work' = [work EXCEPT !["sync"] = [k \in DOMAIN Nothing \cup DOMAIN w |->
                                IF k \in DOMAIN w THEN w[k] ELSE Nothing[k]]]
          /\ txn'["async"] = txn["async"]
      BY <1>1, <1>3, <2>1, <2>2 DEF Written
    <2>4. [k \in DOMAIN Nothing \cup DOMAIN w |-> IF k \in DOMAIN w THEN w[k] ELSE Nothing[k]] = w
      <3>1. DOMAIN Nothing = {}
        BY DEF Nothing
      <3>2. PICK K \in SUBSET Keys : w \in [K -> Slot]
        BY <2>2, ItemsDef DEF Writes
      <3>3. QED
        BY <3>1, <3>2
    <2>5. work'["sync"] = w /\ work'["async"] = work["async"]
      BY <1>1, <1>3, <2>3, <2>4
    <2>6. (KV!Effect(r, data))' = KV!Effect(r, data) /\ (KV!Refused(r, data)' <=> KV!Refused(r, data))
      BY <1>1, <2>1
    <2>7. pc'[t] = "commit"
      BY <1>2, <2>1
    <2>8. QED
      BY <1>3, <2>1, <2>2, <2>3, <2>5, <2>6, <2>7 DEF SyncPhase
  <1>11. CASE Commit(t)
    <2>1. /\ pc[t] = "commit" /\ pc'[t] = "idle" /\ work' = [work EXCEPT !["sync"] = Nothing]
          /\ txn' = [txn EXCEPT !["sync"] = "none"] /\ failed' = [failed EXCEPT !["sync"] = FALSE]
      BY <1>1, <1>2, <1>11 DEF Commit
    <2>2. /\ work'["async"] = Nothing /\ txn'["async"] = "none" /\ ~failed'["sync"]
      BY <1>1, <1>3, <2>1
    <2>3. QED
      BY <2>1, <2>2 DEF SyncPhase
  <1>12. QED
    BY <1>5, <1>6, <1>7, <1>8, <1>9, <1>10, <1>11, SyncSteps

\* A SQLite store that is used synchronously: a call takes effect at its SELECT,
\* or at its commit.
LEMMA SyncContract ==
    ASSUME NEW t \in Threads, OnSync(t), Shape'
    PROVE  Promise!DurableNext \/ UNCHANGED (Promise!vars)
  <1> DEFINE r == call[t]
  <1>1. /\ Shape /\ SqlPhase(t) /\ SyncPhase(t) /\ Busy(t) /\ Task(t) /\ call' = call
        /\ UNCHANGED site /\ site.backend = "sqlite" /\ Conn(t) = "sync"
        /\ \A u \in Threads \ {t} : answer'[u] = answer[u]
    BY SyncSteps, SyncRest DEF OnSync, OnSql, SyncOwn, Task
  <1>2. /\ AbsData = data /\ AbsData' = data'
        /\ \A u \in Threads : AbsAnswer[u] = answer[u] /\ AbsAnswer'[u] = answer'[u]
    <2>1. \A u \in Threads : ~Deciding(u) /\ ~Deciding(u)'
      BY <1>1 DEF Deciding
    <2>2. QED
      BY <1>1, <2>1, Undecided, UndecidedNext
  <1>3. answer[t] = KV!NoAnswer /\ data \in Contents
    BY <1>1, Running
  <1>4. /\ \A a : a # KV!NoAnswer /\ (End(t, a) \/ Return(t, a)) => answer'[t] = a
        /\ \A phase : phase # "idle" /\ GoTo(t, phase) => answer'[t] = answer[t]
    BY <1>1, Ways DEF Return, Leave
  <1>5. KV!Ok # KV!NoAnswer /\ KV!KeyError # KV!NoAnswer /\ \A v : KV!Returns(v) # KV!NoAnswer
    <2>1. \A v : KV!Returns(v).kind # KV!NoAnswer.kind
      BY DEF KV!Returns, KV!NoAnswer
    <2>2. QED
      BY <2>1 DEF KV!Ok, KV!KeyError, KV!NoAnswer
  <1>6. CASE SQLiteNothingToDo(t)
    <2>1. Empty(r) /\ End(t, KV!Answer(r, EmptyStore)) /\ UNCHANGED data
      BY <1>6 DEF SQLiteNothingToDo, NothingToDo
    <2>2. /\ KV!Answer(r, EmptyStore) = KV!Answer(r, data) /\ ~KV!Refused(r, data)
          /\ DOMAIN KV!Effect(r, data) = {} /\ r.op \notin KV!LifecycleOps
      BY <1>1, <2>1, NothingExecutes
    <2>3. KV!Answer(r, EmptyStore) # KV!NoAnswer
      BY <1>5 DEF KV!Answer
    <2>4. Stored(data, KV!Effect(r, data)) = data
      BY <1>3, <2>2, StoredNothing
    <2>5. QED
      BY <1>1, <1>2, <1>3, <1>4, <2>1, <2>2, <2>3, <2>4, Executes
  <1>7. CASE Enter(t) \/ Get(t) \/ Insert(t)
    <2>1. UNCHANGED data /\ \E phase : phase # "idle" /\ GoTo(t, phase)
      BY <1>7 DEF Enter, Get, Insert, Phase
    <2>2. QED
      BY <1>1, <1>2, <1>4, <2>1, Stutters
  <1>8. CASE Select(t)
    <2>1. /\ pc[t] = "select" /\ Return(t, KV!Returns(KV!Seen(r, View("sync")))) /\ UNCHANGED data
      BY <1>1, <1>8 DEF Select
    <2>2. r.op \in KV!ReadOps /\ View("sync") = data
      BY <1>1, <2>1, SyncRest DEF OnSync, SyncPhase
    <2>3. KV!Effect(r, data) = Nothing /\ Stored(data, Nothing) = data
      BY <1>3, <2>2, SameEffect, StoredNothing DEF Nothing
    <2>4. QED
      BY <1>1, <1>2, <1>3, <1>4, <1>5, <2>1, <2>2, <2>3, AnswerIs, Executes
  <1>9. CASE Check(t)
    <2> DEFINE hit == Conflicts(r.items, Present(data))
    <2>1. pc[t] = "check" /\ r.op \in KV!WriteOps /\ Conditional(r) /\ View("sync") = data
      BY <1>1, <1>9, SyncRest DEF Check, SqlPhase, OnSync
    <2>2. /\ UNCHANGED data
          /\ IF Refuses(r.items, r.on_conflict, hit) THEN Return(t, KV!KeyError)
             ELSE \E phase \in {"get", "insert"} : GoTo(t, phase)
      BY <1>1, <1>9, <2>1 DEF Check
    <2>3. Refuses(r.items, r.on_conflict, hit) <=> KV!Refused(r, data)
      BY <2>1, SameRefusal DEF Refuses, Conflicts, Conditional
    <2>4. CASE KV!Refused(r, data)
      BY <1>1, <1>2, <1>3, <1>4, <1>5, <2>1, <2>2, <2>3, <2>4, AnswerIs, Executes
    <2>5. CASE ~KV!Refused(r, data)
      BY <1>1, <1>2, <1>4, <2>2, <2>3, <2>5, Stutters
    <2>6. QED
      BY <2>4, <2>5
  <1>10. CASE Skip(t)
    <2>1. pc[t] = "insert" /\ DOMAIN Writing(t) = {} /\ Return(t, KV!Ok) /\ UNCHANGED data
      BY <1>10 DEF Skip
    <2>2. /\ DOMAIN KV!Effect(r, data) = {} /\ ~KV!Refused(r, data) /\ r.op \in KV!WriteOps
      BY <2>1, SyncWrites DEF OnSync
    <2>3. Stored(data, KV!Effect(r, data)) = data
      BY <1>3, <2>2, StoredNothing
    <2>4. QED
      BY <1>1, <1>2, <1>3, <1>4, <1>5, <2>1, <2>2, <2>3, AnswerIs, Executes
  <1>11. CASE Commit(t)
    <2>1. /\ pc[t] = "commit" /\ data' = Stored(data, work["sync"]) /\ Return(t, KV!Ok)
      BY <1>1, <1>11 DEF Commit, View
    <2>2. /\ work["sync"] = KV!Effect(r, data) /\ ~KV!Refused(r, data) /\ r.op \in KV!WriteOps
      BY <1>1, <2>1 DEF SyncPhase, SqlPhase
    <2>3. QED
      BY <1>1, <1>2, <1>3, <1>4, <1>5, <2>1, <2>2, AnswerIs, Executes
  <1>12. QED
    BY <1>6, <1>7, <1>8, <1>9, <1>10, <1>11, SyncSteps

-----------------------------------------------------------------------------
\* SyncInv holds at the start, and every step keeps it.
LEMMA SyncInit == SQLiteInit => SyncInv
  <1> SUFFICES ASSUME SQLiteInit PROVE SyncOwn
    BY DEF SyncInv
  <1>1. /\ txn["async"] = "none" /\ work["async"] = Nothing /\ ~failed["sync"]
        /\ \A t \in Threads : pc[t] = "idle"
    BY DEF SQLiteInit, Init, Conns
  <1>2. QED
    BY <1>1 DEF SyncOwn, SyncPhase

LEMMA SyncInvKept == Inv /\ SyncInv /\ [StoreNext]_vars => SyncInv'
  <1> SUFFICES ASSUME Inv, SyncInv, [StoreNext]_vars, SyncOnly'
               PROVE  SyncOwn'
    BY DEF SyncInv
  <1>1. UNCHANGED site
    BY DEF vars, local, StoreNext, SQLiteCrash, Crash, SQLiteBegin, Begin, StoreStep,
       OtherStep, File!Step, Lmdb!Step, Duck!Step, Step
  <1>2. SyncOnly /\ SyncOwn /\ site.backend = "sqlite"
    BY <1>1, SyncStays DEF SyncInv, SyncOnly
  <1>3. ASSUME UNCHANGED <<data, found, got, connections>>,
               \A u \in Threads : \/ pc'[u] = pc[u] /\ call'[u] = call[u]
                                  \/ pc'[u] = "start"
        PROVE  SyncOwn'
    <2>1. ASSUME NEW u \in Threads PROVE SyncPhase(u)'
      <3>1. CASE pc'[u] = "start"
        BY <3>1 DEF SyncPhase
      <3>2. CASE pc'[u] = pc[u] /\ call'[u] = call[u]
        <4>1. SyncPhase(u)
          BY <1>2 DEF SyncOwn
        <4>2. Conditional(call[u])' <=> Conditional(call[u])
          BY <3>2
        <4>3. work' = work
          BY <1>3 DEF connections
        <4>4. QED
          BY <1>3, <3>2, <4>1, <4>2, <4>3 DEF SyncPhase
      <3>3. QED
        BY <1>3, <3>1, <3>2
    <2>2. QED
      BY <1>2, <1>3, <2>1 DEF SyncOwn, connections
  <1>4. CASE UNCHANGED vars
    BY <1>3, <1>4 DEF vars, local, task, reads
  <1>5. ASSUME NEW t \in Threads, SQLiteBegin(t) PROVE SyncOwn'
    <2>1. /\ UNCHANGED <<data, reads, connections>> /\ pc' = [pc EXCEPT ![t] = "start"]
          /\ \E r : call' = [call EXCEPT ![t] = r]
      BY <1>5 DEF SQLiteBegin, Begin
    <2>2. DOMAIN pc = Threads /\ DOMAIN call = Threads
      BY DEF Inv, Shape, TypeOK
    <2>3. QED
      BY <1>3, <2>1, <2>2 DEF reads
  <1>6. CASE SQLiteCrash
    <2>1. /\ txn'["async"] = "none" /\ work'["async"] = Nothing /\ ~failed'["sync"]
          /\ \A u \in Threads : pc'[u] = "idle"
      BY <1>6 DEF SQLiteCrash, Crash, Conns
    <2>2. QED
      BY <2>1 DEF SyncOwn, SyncPhase
  <1>7. ASSUME NEW t \in Threads, StoreStep(t) PROVE SyncOwn'
    <2>1. OnSync(t)
      BY <1>2, <1>7 DEF StoreStep, OtherStep, OnSync, OnSql, Inv, Own
    <2>2. QED
      BY <2>1, SyncKept
  <1>8. QED
    BY <1>2, <1>4, <1>5, <1>6, <1>7 DEF StoreNext

LEMMA SyncInvCorrect == StoreSpec => []SyncInv
  <1>1. QED
    BY SyncInit, SyncInvKept, InvCorrect, PTL DEF StoreSpec

-----------------------------------------------------------------------------
\* A call begins.
LEMMA BeginContract ==
    ASSUME NEW t \in Threads, Inv, Shape', DuckInv \/ site.backend # "duckdb",
           DuckInv' \/ site.backend # "duckdb", SQLiteBegin(t)
    PROVE  Promise!DurableNext
  <1>1. PICK r \in site.calls[t] : call' = [call EXCEPT ![t] = r]
    BY DEF SQLiteBegin, Begin
  <1>2. /\ Shape /\ pc[t] = "idle" /\ UNCHANGED <<site, data, reads>>
        /\ pc' = [pc EXCEPT ![t] = "start"] /\ answer' = [answer EXCEPT ![t] = KV!NoAnswer]
    BY DEF SQLiteBegin, Begin, Inv, Busy
  <1>3. /\ DOMAIN pc = Threads /\ DOMAIN answer = Threads /\ DOMAIN call = Threads
        /\ answer[t] # KV!NoAnswer
    BY <1>2 DEF Shape, TypeOK, Busy
  <1>4. r \in AllRequests
    BY <1>2 DEF Shape, TypeOK, AllRequests
  <1>5. ~Deciding(t) /\ ~Deciding(t)'
    BY <1>2, <1>3 DEF Deciding
  <1>6. \A u \in Threads \ {t} :
            /\ pc'[u] = pc[u] /\ call'[u] = call[u] /\ answer'[u] = answer[u]
            /\ found'[u] = found[u] /\ got'[u] = got[u] /\ todo'[u] = todo[u]
    BY <1>1, <1>2, <1>3 DEF reads
  <1>7. /\ AbsData' = AbsData /\ AbsAnswer[t] = answer[t] /\ AbsAnswer'[t] = answer'[t]
        /\ \A u \in Threads \ {t} : AbsAnswer'[u] = AbsAnswer[u]
    BY <1>2, <1>5, <1>6, Bystander
  <1>8. answer'[t] = KV!NoAnswer
    BY <1>2, <1>3
  <1>9. QED
    BY <1>1, <1>3, <1>4, <1>7, <1>8, Invokes

\* The process dies while no batch of a DuckDB store is being written.
LEMMA CrashContract ==
    ASSUME Shape, Shape', site.backend # "duckdb", UNCHANGED site, Crash
    PROVE  Promise!DurableNext
  <1>1. /\ AbsData = data /\ AbsData' = data'
        /\ \A u \in Threads : AbsAnswer[u] = answer[u] /\ AbsAnswer'[u] = answer'[u]
    <2>1. \A u \in Threads : ~Deciding(u) /\ ~Deciding(u)'
      BY DEF Deciding
    <2>2. QED
      BY <2>1, Undecided, UndecidedNext
  <1>2. /\ UNCHANGED <<data, call>>
        /\ \A u \in Threads : answer'[u] = IF Busy(u) THEN Lost ELSE answer[u]
    BY DEF Crash
  <1>3. \A u \in Threads : Promise!Idle(u) <=> ~Busy(u)
    BY <1>1 DEF Promise!Idle, Promise!NoAnswer, KV!NoAnswer, Shape, TypeOK
  <1>4. \A u \in Threads : AbsAnswer'[u] = IF Promise!Idle(u) THEN AbsAnswer[u] ELSE Promise!Lost
    BY <1>1, <1>2, <1>3 DEF Promise!Lost, Lost
  <1>5. AbsAnswer' = [u \in Threads |-> IF Promise!Idle(u) THEN AbsAnswer[u] ELSE Promise!Lost]
    BY <1>4 DEF AbsAnswer
  <1>6. Promise!Crash
    BY <1>1, <1>2, <1>5 DEF Promise!Crash
  <1>7. QED
    BY <1>6 DEF Promise!DurableNext

LEMMA ContractStep ==
    Inv /\ Inv' /\ SyncInv /\ [StoreNext]_vars =>
        [Transactional /\ (site.backend = "duckdb" => crashes' = 0)
            => Promise!DurableNext]_(Promise!vars)
  <1> SUFFICES ASSUME Inv, Inv', SyncInv, [StoreNext]_vars, Transactional,
                      site.backend = "duckdb" => crashes' = 0
               PROVE  Promise!DurableNext \/ UNCHANGED (Promise!vars)
    OBVIOUS
  <1>1. /\ Shape /\ Shape' /\ Own /\ UNCHANGED site
        /\ site.backend = "duckdb" => DuckInv /\ DuckInv'
        /\ site.backend \in {"lmdb", "duckdb", "sqlite"}
    <2>1. UNCHANGED site
      BY DEF vars, local, StoreNext, SQLiteCrash, Crash, SQLiteBegin, Begin, StoreStep,
         OtherStep, File!Step, Lmdb!Step, Duck!Step, Step
    <2>2. QED
      BY <2>1 DEF Inv, Own, Transactional
  <1>2. CASE UNCHANGED vars
    <2>1. UNCHANGED <<site, data, call, answer, pc, found, got, todo>>
      BY <1>2 DEF vars, local, task, reads
    <2>2. (\A u : Deciding(u)' <=> Deciding(u)) /\ \A u : Planned(u)' = Planned(u)
      BY <2>1, PlannedStays DEF Deciding
    <2>3. AbsData' = AbsData
      BY <2>1, <2>2 DEF AbsData, Deciding, Planned, Conditional
    <2>4. AbsAnswer' = AbsAnswer
      BY <2>1, <2>2 DEF AbsAnswer
    <2>5. QED
      BY <2>1, <2>3, <2>4 DEF Promise!vars
  <1>3. ASSUME NEW t \in Threads, SQLiteBegin(t)
        PROVE  Promise!DurableNext
    BY <1>1, <1>3, BeginContract
  <1>4. ASSUME Crash
        PROVE  Promise!DurableNext
    <2>1. crashes' # 0
      BY <1>1, <1>4 DEF Crash, Shape, TypeOK
    <2>2. QED
      BY <1>1, <1>4, <2>1, CrashContract
  <1>5. ASSUME NEW t \in Threads, StoreStep(t)
        PROVE  Promise!DurableNext \/ UNCHANGED (Promise!vars)
    <2>1. CASE site.backend = "lmdb"
      BY <1>1, <1>5, <2>1, LmdbContract DEF StoreStep, OtherStep, OnLmdb, Own
    <2>2. CASE site.backend = "duckdb"
      BY <1>1, <1>5, <2>2, DuckContract DEF StoreStep, OtherStep, OnDuck, Own
    <2>3. CASE site.backend = "sqlite"
      <3>1. SyncOnly
        BY <2>3 DEF Transactional, SyncOnly
      <3>2. OnSync(t)
        BY <1>1, <1>5, <2>3, <3>1 DEF StoreStep, OtherStep, OnSync, OnSql, Own, SyncInv
      <3>3. QED
        BY <1>1, <3>2, SyncContract
    <2>4. QED
      BY <1>1, <2>1, <2>2, <2>3
  <1>6. QED
    BY <1>2, <1>3, <1>4, <1>5 DEF StoreNext, SQLiteCrash

\* Threads that share an LMDB store, a DuckDB store that does not crash, or a
\* SQLite store that they only call synchronously, see the store that BaseStore
\* promises: every call takes effect at one instant between its start and its
\* return, whole batches included, and a crash takes back nothing that was
\* answered.
THEOREM ImplementsContract == StoreSpec => Contract
  <1>1. SQLiteInit => Promise!Init
    <2> SUFFICES ASSUME SQLiteInit PROVE Promise!Init
      OBVIOUS
    <2>1. Shape /\ \A t \in Threads : ~Deciding(t)
      BY InitKept DEF Inv, SQLiteInit, Init, Deciding
    <2>2. AbsData = data /\ \A t \in Threads : AbsAnswer[t] = answer[t]
      BY <2>1, Undecided
    <2>3. AbsAnswer = [t \in Threads |-> Promise!Ok]
      BY <2>2 DEF AbsAnswer, SQLiteInit, Init, Promise!Ok, KV!Ok
    <2>4. QED
      BY <2>2, <2>3 DEF Promise!Init, SQLiteInit, Init, Promise!EmptyStore, EmptyStore,
         Promise!NoCall, KV!NoCall
  <1>2. QED
    BY <1>1, ContractStep, InvCorrect, SyncInvCorrect, PTL DEF StoreSpec, Contract
=============================================================================
