------------------------------ MODULE Ingest_proofs ------------------------------
(***************************************************************************)
(* For any manifest, documents, model and number of runs: what ingestion   *)
(* leaves in the log is grounded in its source and is what undisturbed     *)
(* runs write, the pairs of a run have been compared, every entry is in a  *)
(* chunk, and a name is one entity in all its forms.                       *)
(***************************************************************************)
EXTENDS Ingest, FiniteSetTheorems, SequenceTheorems, WellFoundedInduction, TLAPS

-----------------------------------------------------------------------------
(* Numbers and finite orders.                                              *)

\* A strict order on a finite set has a minimal element.
LEMMA SomeMinimal ==
  ASSUME NEW T, IsFiniteSet(T), T # {}, NEW R,
         \A t \in T : <<t, t>> \notin R,
         \A t, u, v \in T : <<t, u>> \in R /\ <<u, v>> \in R => <<t, v>> \in R
  PROVE  \E t \in T : \A u \in T : <<u, t>> \notin R
<1> DEFINE below(t) == {u \in T : <<u, t>> \in R}
           B == {below(t) : t \in T}
           W == StrictSubsetOrdering(T)
<1>1. IsWellFoundedOn(W, SUBSET T)
  BY FS_StrictSubsetOrderingWellFounded, FS_FiniteSubsetsOfFinite
<1>2. B \subseteq SUBSET T /\ B # {}
  <2>1. PICK t \in T : TRUE
    OBVIOUS
  <2>2. below(t) \in B
    OBVIOUS
  <2>3. ASSUME NEW b \in B PROVE b \in SUBSET T
    <3>1. PICK u \in T : b = {v \in T : <<v, u>> \in R}
      OBVIOUS
    <3> QED
      BY <3>1
  <2> HIDE DEF B
  <2> QED
    BY <2>2, <2>3
<1>3. \E b \in B : \A y \in B : <<y, b>> \notin W
  <2> HIDE DEF B, W
  <2> QED
    BY <1>1, <1>2, WFMin
<1>4. PICK t \in T : \A y \in B : <<y, below(t)>> \notin W
  BY <1>3
<1>5. ASSUME NEW u \in T, <<u, t>> \in R
      PROVE  FALSE
  <2>1. below(u) \subseteq below(t) /\ u \in below(t) /\ u \notin below(u)
    BY <1>5
  <2>2. <<below(u), below(t)>> \in W
    BY <2>1 DEF StrictSubsetOrdering
  <2> QED
    BY <1>4, <2>2
<1> QED
  BY <1>5

\* Of some of the first N numbers there is a least and a greatest.
LEMMA Extremes ==
  ASSUME NEW N \in Nat, NEW P, P \subseteq 1..N, P # {}
  PROVE  /\ Min(P) \in P /\ \A n \in P : Min(P) <= n
         /\ Max(P) \in P /\ \A n \in P : n <= Max(P)
<1> DEFINE Less == {p \in P \X P : p[1] < p[2]}
           More == {p \in P \X P : p[1] > p[2]}
<1>1. IsFiniteSet(1..N) /\ P \subseteq Int
  BY FS_Interval
<1>2. IsFiniteSet(P)
  BY <1>1, FS_Subset
<1>3. \A m, n \in P : (<<m, n>> \in Less <=> m < n) /\ (<<m, n>> \in More <=> m > n)
  OBVIOUS
<1> HIDE DEF Less, More
<1>4. PICK x \in P : \A y \in P : <<y, x>> \notin Less
  <2>1. /\ \A t \in P : <<t, t>> \notin Less
        /\ \A t, u, v \in P : <<t, u>> \in Less /\ <<u, v>> \in Less => <<t, v>> \in Less
    BY <1>1, <1>3
  <2> QED
    BY <1>2, <2>1, SomeMinimal
<1>5. PICK z \in P : \A y \in P : <<y, z>> \notin More
  <2>1. /\ \A t \in P : <<t, t>> \notin More
        /\ \A t, u, v \in P : <<t, u>> \in More /\ <<u, v>> \in More => <<t, v>> \in More
    BY <1>1, <1>3
  <2> QED
    BY <1>2, <2>1, SomeMinimal
<1>6. ASSUME NEW y \in P PROVE x <= y /\ z >= y
  <2>1. ~(y < x) /\ ~(y > z) /\ x \in Int /\ y \in Int /\ z \in Int
    BY <1>1, <1>3, <1>4, <1>5
  <2> QED
    BY <2>1
<1>7. Min(P) \in P /\ \A y \in P : Min(P) <= y
  BY <1>6 DEF Min
<1>8. Max(P) \in P /\ \A y \in P : Max(P) >= y
  BY <1>6 DEF Max
<1> QED
  BY <1>1, <1>7, <1>8

Lower(S, f, t) == {u \in S : f[u] < f[t]}

\* Elements of a finite set that are numbered differently: in their order every
\* place is taken, and by one of them.
LEMMA PlaceTaken ==
  ASSUME NEW S, IsFiniteSet(S), NEW f, \A t \in S : f[t] \in Nat,
         \A t, u \in S : f[t] = f[u] => t = u
  PROVE  /\ Cardinality(S) \in Nat
         /\ \A n \in 1..Cardinality(S) :
              \E t \in S : Cardinality(Lower(S, f, t)) = n - 1
         /\ \A t \in S : Cardinality(Lower(S, f, t)) + 1 \in 1..Cardinality(S)
         /\ \A t, u \in S : Cardinality(Lower(S, f, t)) = Cardinality(Lower(S, f, u)) => t = u
<1> DEFINE N == Cardinality(S)
           B(t) == Lower(S, f, t)
           place == [t \in S |-> Cardinality(B(t)) + 1]
<1>1. N \in Nat
  BY FS_CardinalityType
<1>2. ASSUME NEW t \in S
      PROVE  /\ IsFiniteSet(B(t)) /\ Cardinality(B(t)) \in Nat /\ Cardinality(B(t)) < N
  <2>1. B(t) \subseteq S /\ B(t) # S
    BY DEF Lower
  <2>2. IsFiniteSet(B(t)) /\ Cardinality(B(t)) <= N /\ Cardinality(B(t)) # N
    <3> HIDE DEF B
    <3> QED
      BY <2>1, FS_Subset
  <2> QED
    BY <1>1, <2>2, FS_CardinalityType
<1>3. ASSUME NEW t \in S, NEW u \in S, f[t] < f[u]
      PROVE  Cardinality(B(t)) < Cardinality(B(u))
  <2>1. B(t) \subseteq B(u) /\ B(t) # B(u)
    <3>1. t \in B(u) /\ t \notin B(t)
      BY <1>3 DEF Lower
    <3>2. B(t) \subseteq B(u)
      BY <1>3 DEF Lower
    <3> QED
      BY <3>1, <3>2
  <2>2. IsFiniteSet(B(u)) /\ Cardinality(B(u)) \in Nat /\ Cardinality(B(t)) \in Nat
    BY <1>2
  <2>3. Cardinality(B(t)) <= Cardinality(B(u)) /\ Cardinality(B(t)) # Cardinality(B(u))
    <3> HIDE DEF B
    <3> QED
      BY <2>1, <2>2, FS_Subset
  <2> QED
    BY <2>2, <2>3
<1>4. \A t, u \in S : Cardinality(B(t)) = Cardinality(B(u)) => t = u
  <2> SUFFICES ASSUME NEW t \in S, NEW u \in S, t # u PROVE Cardinality(B(t)) # Cardinality(B(u))
    OBVIOUS
  <2>1. f[t] < f[u] \/ f[u] < f[t]
    OBVIOUS
  <2>2. Cardinality(B(t)) \in Nat /\ Cardinality(B(u)) \in Nat
    BY <1>2
  <2>3. Cardinality(B(t)) < Cardinality(B(u)) \/ Cardinality(B(u)) < Cardinality(B(t))
    BY <1>3, <2>1
  <2> QED
    BY <2>2, <2>3
<1>5. \A t \in S : place[t] \in 1..N
  BY <1>1, <1>2
<1>6. \A t, u \in S : place[t] = place[u] => t = u
  <2> SUFFICES ASSUME NEW t \in S, NEW u \in S, place[t] = place[u] PROVE t = u
    OBVIOUS
  <2>1. Cardinality(B(t)) \in Nat /\ Cardinality(B(u)) \in Nat
    BY <1>2
  <2>2. Cardinality(B(t)) + 1 = Cardinality(B(u)) + 1
    OBVIOUS
  <2>3. Cardinality(B(t)) = Cardinality(B(u))
    <3> HIDE DEF B
    <3> QED
      BY <2>1, <2>2
  <2> QED
    BY <1>4, <2>3
<1>7. place \in Injection(S, 1..N)
  <2>1. place \in [S -> 1..N]
    BY <1>5
  <2> HIDE DEF place
  <2> QED
    BY <1>6, <2>1 DEF Injection, IsInjective
<1>8. IsFiniteSet(1..N) /\ Cardinality(1..N) = N
  <2> HIDE DEF N
  <2>1. 1 \in Int /\ N \in Int
    BY <1>1
  <2>2. /\ IsFiniteSet(1..N)
        /\ Cardinality(1..N) = IF 1 > N THEN 0 ELSE N - 1 + 1
    BY <2>1, FS_Interval
  <2> QED
    BY <1>1, <2>2
<1>9. place \in Surjection(S, 1..N)
  <2> HIDE DEF place
  <2> QED
    BY <1>7, <1>8, FS_Injection
<1>10. ASSUME NEW n \in 1..N
       PROVE  \E t \in S : Cardinality(B(t)) = n - 1
  <2>1. PICK t \in S : place[t] = n
    <3> HIDE DEF place
    <3> QED
      BY <1>9 DEF Surjection
  <2>2. Cardinality(B(t)) \in Nat /\ Cardinality(B(t)) + 1 = n
    BY <1>2, <2>1
  <2>3. Cardinality(B(t)) = n - 1
    <3> HIDE DEF B
    <3> QED
      BY <2>2
  <2> QED
    BY <2>3
<1> QED
  BY <1>1, <1>4, <1>5, <1>10

-----------------------------------------------------------------------------
(* Documents.                                                              *)

\* A locator with a text has a first entry and one that counts, the last.
LEMMA EntryOf ==
  ASSUME NEW f \in Files, NEW loc \in Locators(f)
  PROVE  /\ PlacesOf(f, loc) \subseteq 1..Len(Entries[f]) /\ Len(Entries[f]) \in Nat
         /\ Min(PlacesOf(f, loc)) \in PlacesOf(f, loc)
         /\ Max(PlacesOf(f, loc)) \in PlacesOf(f, loc)
         /\ \A n \in PlacesOf(f, loc) : n <= Max(PlacesOf(f, loc))
         /\ Entries[f][Min(PlacesOf(f, loc))].loc = loc
         /\ UnitAt(f, loc).loc = loc
<1>1. Entries[f] \in Seq(ToSet(Entries[f]))
  BY IngestAssumption
<1>2. DOMAIN Entries[f] = 1..Len(Entries[f]) /\ Len(Entries[f]) \in Nat
  BY <1>1
<1>3. PlacesOf(f, loc) \subseteq 1..Len(Entries[f]) /\ PlacesOf(f, loc) # {}
  BY <1>2 DEF PlacesOf, Locators
<1>4. /\ Min(PlacesOf(f, loc)) \in PlacesOf(f, loc)
      /\ Max(PlacesOf(f, loc)) \in PlacesOf(f, loc)
      /\ \A n \in PlacesOf(f, loc) : n <= Max(PlacesOf(f, loc))
  BY <1>2, <1>3, Extremes
<1>5. Entries[f][Min(PlacesOf(f, loc))].loc = loc /\ UnitAt(f, loc).loc = loc
  BY <1>4 DEF PlacesOf, UnitAt
<1> QED
  BY <1>2, <1>3, <1>4, <1>5

LEMMA LocatorsFinite ==
  ASSUME NEW f \in Files
  PROVE  IsFiniteSet(Locators(f))
<1> DEFINE places == {m \in DOMAIN Entries[f] : Speaks(Entries[f][m])}
<1>1. Entries[f] \in Seq(ToSet(Entries[f]))
  BY IngestAssumption
<1>2. DOMAIN Entries[f] = 1..Len(Entries[f]) /\ Len(Entries[f]) \in Nat
  BY <1>1
<1>3. IsFiniteSet(1..Len(Entries[f]))
  BY <1>2, FS_Interval
<1>4. IsFiniteSet(places)
  BY <1>2, <1>3, FS_Subset
<1> DEFINE loc == [n \in places |-> Entries[f][n].loc]
<1>5. loc \in Surjection(places, Locators(f))
  BY DEF Surjection, Locators
<1> HIDE DEF places, loc
<1> QED
  BY <1>4, <1>5, FS_Surjection

UnitsOf(f) == {UnitAt(f, loc) : loc \in Locators(f)}

\* The units of a document are the last entries of its locators, one each.
LEMMA UnitsAreEntries ==
  ASSUME NEW f \in Files
  PROVE  /\ Units[f] \in Seq(UnitsOf(f))
         /\ \A loc \in Locators(f) : \E n \in DOMAIN Units[f] : Units[f][n] = UnitAt(f, loc)
<1> DEFINE S == Locators(f)
           first == [loc \in S |-> Min(PlacesOf(f, loc))]
           before(loc) == Lower(S, first, loc)
           N == Cardinality(S)
<1>1. IsFiniteSet(S)
  BY LocatorsFinite
<1>2. \A loc \in S : first[loc] \in Nat /\ Entries[f][first[loc]].loc = loc
  BY EntryOf
<1>3. \A t, u \in S : first[t] = first[u] => t = u
  BY <1>2
<1>4. /\ N \in Nat
      /\ \A n \in 1..N : \E t \in S : Cardinality(before(t)) = n - 1
      /\ \A t \in S : Cardinality(before(t)) + 1 \in 1..N
      /\ \A t, u \in S : Cardinality(before(t)) = Cardinality(before(u)) => t = u
  <2> HIDE DEF S, first
  <2> QED
    BY <1>1, <1>2, <1>3, PlaceTaken
<1>5. \A loc \in S : before(loc) = {l \in S : Min(PlacesOf(f, l)) < Min(PlacesOf(f, loc))}
  BY DEF Lower
<1>6. Units[f] = [n \in 1..N |-> UnitAt(f, CHOOSE loc \in S : Cardinality(before(loc)) = n - 1)]
  <2> HIDE DEF before
  <2>1. Units[f] = [n \in 1..N |->
                      UnitAt(f, CHOOSE loc \in S :
                        Cardinality({l \in S : Min(PlacesOf(f, l)) < Min(PlacesOf(f, loc))}) = n - 1)]
    BY DEF Units
  <2>2. ASSUME NEW n \in 1..N
        PROVE  (CHOOSE loc \in S : Cardinality(before(loc)) = n - 1)
                 = CHOOSE loc \in S :
                     Cardinality({l \in S : Min(PlacesOf(f, l)) < Min(PlacesOf(f, loc))}) = n - 1
    <3> HIDE DEF S
    <3> QED
      BY <1>5
  <2> HIDE DEF S, N
  <2> QED
    BY <2>1, <2>2
<1> HIDE DEF S, before, N
<1>7. ASSUME NEW n \in 1..N
      PROVE  \E loc \in S : Units[f][n] = UnitAt(f, loc) /\ Cardinality(before(loc)) = n - 1
  BY <1>4, <1>6
<1>8. Units[f] \in Seq(UnitsOf(f))
  <2>1. \A n \in 1..N : Units[f][n] \in UnitsOf(f)
    BY <1>7 DEF UnitsOf, S
  <2>2. Units[f] \in [1..N -> UnitsOf(f)]
    BY <1>6, <2>1
  <2>3. PICK U, u : U = UnitsOf(f) /\ u = Units[f]
    OBVIOUS
  <2>4. u \in [1..N -> U] => u \in Seq(U)
    BY <1>4
  <2> QED
    BY <2>2, <2>3, <2>4
<1>9. ASSUME NEW loc \in S
      PROVE  \E n \in DOMAIN Units[f] : Units[f][n] = UnitAt(f, loc)
  <2>1. PICK n \in 1..N : n = Cardinality(before(loc)) + 1
    BY <1>4
  <2>2. PICK l \in S : Units[f][n] = UnitAt(f, l) /\ Cardinality(before(l)) = n - 1
    BY <1>7
  <2>3. PICK k \in 1..N : TRUE
    BY <2>1
  <2>4. Cardinality(before(loc)) \in Nat
    <3>1. before(loc) \subseteq S
      BY DEF before, Lower
    <3>2. IsFiniteSet(before(loc))
      BY <1>1, <3>1, FS_Subset
    <3> QED
      BY <3>2, FS_CardinalityType
  <2>5. l = loc
    BY <1>4, <2>1, <2>2, <2>4
  <2>6. n \in DOMAIN Units[f]
    BY <1>6
  <2> QED
    BY <2>2, <2>5, <2>6
<1> QED
  BY <1>8, <1>9 DEF S

-----------------------------------------------------------------------------
(* Chunks.                                                                 *)

LEMMA BatchEnds ==
  ASSUME NEW units, Len(units) \in Nat, NEW i \in 1..Len(units)
  PROVE  /\ BatchEnd(units, i) \in i..Len(units)
         /\ BatchEnd(units, i) # i => SizeOf(units, i, BatchEnd(units, i)) <= TargetChars
<1> DEFINE P == {j \in i..Len(units) : j = i \/ SizeOf(units, i, j) <= TargetChars}
<1>1. i \in P /\ P \subseteq 1..Len(units)
  OBVIOUS
<1>2. Max(P) \in P
  <2> HIDE DEF P
  <2> QED
    BY <1>1, Extremes
<1>3. BatchEnd(units, i) = Max(P)
  BY DEF BatchEnd
<1> QED
  BY <1>2, <1>3

\* The larger of two numbers.
LEMMA LargerOf ==
  ASSUME NEW a \in Int, NEW b \in Int
  PROVE  Max({a, b}) = IF a >= b THEN a ELSE b
<1>1. \E x \in {a, b} : \A y \in {a, b} : x >= y
  <2>1. CASE a >= b
    BY <2>1
  <2>2. CASE b >= a
    BY <2>2
  <2> QED
    BY <2>1, <2>2
<1>2. Max({a, b}) \in {a, b} /\ \A y \in {a, b} : Max({a, b}) >= y
  BY <1>1 DEF Max
<1> QED
  BY <1>2

\* With an overlap of at most one unit a chunk begins after the one before it,
\* and no later than where that ended.
LEMMA NextStarts ==
  ASSUME NEW units, Len(units) \in Nat, NEW i \in 1..Len(units), OverlapUnits \in {0, 1},
         BatchEnd(units, i) # Len(units)
  PROVE  NextStart(units, i) \in i + 1..BatchEnd(units, i) + 1
<1> DEFINE e == BatchEnd(units, i)
<1>1. e \in i..Len(units)
  BY BatchEnds
<1> HIDE DEF e
<1>2. Max({e + 1 - OverlapUnits, 1}) = e + 1 - OverlapUnits
  BY <1>1, LargerOf
<1>3. NextStart(units, i) = IF e - i + 1 <= OverlapUnits THEN e + 1 ELSE e + 1 - OverlapUnits
  BY <1>1, <1>2 DEF NextStart, e
<1>4. NextStart(units, i) \in i + 1..e + 1
  <2>1. CASE e - i + 1 <= OverlapUnits
    BY <1>1, <1>3, <2>1
  <2>2. CASE ~(e - i + 1 <= OverlapUnits)
    BY <1>1, <1>3, <2>2
  <2> QED
    BY <2>1, <2>2
<1> QED
  BY <1>4 DEF e

\* No unit is skipped.
LEMMA EveryUnitInAChunk ==
  ASSUME NEW units, Len(units) \in Nat, DOMAIN units = 1..Len(units), OverlapUnits \in {0, 1},
         NEW k \in 1..Len(units)
  PROVE  \E i \in Starts(units) : k \in i..BatchEnd(units, i)
<1> DEFINE P == {i \in Starts(units) : i <= k}
<1>1. /\ Starts(units) \subseteq 1..Len(units)
      /\ 1 \in Starts(units)
      /\ \A i \in Starts(units) :
           NextStart(units, i) <= Len(units) /\ NextStart(units, i) \in 1..Len(units)
             => NextStart(units, i) \in Starts(units)
  <2>1. units # <<>>
    OBVIOUS
  <2> QED
    BY <2>1 DEF Starts
<1>2. P \subseteq 1..Len(units) /\ 1 \in P
  BY <1>1
<1>3. Max(P) \in P /\ \A n \in P : n <= Max(P)
  <2> HIDE DEF P
  <2> QED
    BY <1>2, Extremes
<1>4. PICK i \in Starts(units) : i <= k /\ \A n \in P : n <= i
  BY <1>3
<1>5. i \in 1..Len(units)
  BY <1>1
<1>6. BatchEnd(units, i) \in i..Len(units)
  BY <1>5, BatchEnds
<1>7. ASSUME BatchEnd(units, i) < k
      PROVE  FALSE
  <2>1. NextStart(units, i) \in i + 1..BatchEnd(units, i) + 1
    BY <1>5, <1>6, <1>7, NextStarts
  <2>2. NextStart(units, i) \in 1..Len(units) /\ NextStart(units, i) <= k
    BY <1>5, <1>6, <1>7, <2>1
  <2>3. NextStart(units, i) \in P
    BY <1>1, <2>2
  <2> QED
    BY <1>4, <1>5, <1>6, <2>1, <2>3
<1> QED
  BY <1>4, <1>5, <1>6, <1>7

LEMMA ChunkIsOf ==
  ASSUME NEW f \in Files, NEW ch \in Chunks[f]
  PROVE  /\ ch.file = f /\ ch.first \in Starts(Units[f]) /\ ch.first \in 1..Len(Units[f])
         /\ Len(Units[f]) \in Nat
         /\ Len(ch.units) = BatchEnd(Units[f], ch.first) - ch.first + 1
         /\ DOMAIN ch.units = 1..Len(ch.units)
         /\ \A n \in 1..Len(ch.units) : ch.units[n] = Units[f][ch.first + n - 1]
         /\ LocatorsOf(ch) \subseteq Locators(f)
<1> DEFINE u == Units[f]
<1>1. u \in Seq(UnitsOf(f))
  BY UnitsAreEntries
<1>2. Len(u) \in Nat /\ DOMAIN u = 1..Len(u) /\ \A n \in 1..Len(u) : u[n] \in UnitsOf(f)
  <2> HIDE DEF u
  <2> QED
    BY <1>1
<1>3. PICK i \in Starts(u) : ch = [file |-> f, first |-> i, units |-> SubSeq(u, i, BatchEnd(u, i))]
  BY DEF Chunks
<1>4. i \in 1..Len(u)
  BY <1>2 DEF Starts
<1> DEFINE e == BatchEnd(u, i)
<1>5. e \in i..Len(u)
  <2> HIDE DEF u
  <2> QED
    BY <1>2, <1>4, BatchEnds
<1> HIDE DEF e, u
<1>6. \A n \in i..e : u[n] \in UnitsOf(f)
  BY <1>2, <1>4, <1>5
<1>7. i \in Int /\ e \in Int /\ i <= e
  BY <1>2, <1>4, <1>5
<1>8. /\ SubSeq(u, i, e) \in Seq(UnitsOf(f))
      /\ Len(SubSeq(u, i, e)) = e - i + 1
      /\ \A n \in 1..(e - i + 1) : SubSeq(u, i, e)[n] = u[i + n - 1]
  BY <1>6, <1>7, SubSeqProperties
<1>9. ch.file = f /\ ch.first = i /\ ch.units = SubSeq(u, i, e)
  BY <1>3 DEF e
<1>10. ch.units \in Seq(UnitsOf(f)) /\ Len(ch.units) = e - i + 1
  BY <1>8, <1>9
<1>11. DOMAIN ch.units = 1..Len(ch.units) /\ \A n \in DOMAIN ch.units : ch.units[n] \in UnitsOf(f)
  BY <1>10
<1>12. \A n \in DOMAIN ch.units : ch.units[n].loc \in Locators(f)
  BY <1>11, EntryOf DEF UnitsOf
<1>13. \A n \in 1..Len(ch.units) : ch.units[n] = u[ch.first + n - 1]
  BY <1>8, <1>9, <1>10
<1> QED
  BY <1>2, <1>3, <1>4, <1>9, <1>10, <1>11, <1>12, <1>13 DEF LocatorsOf, u, e

\* A unit of a document is in one of its chunks.
LEMMA UnitIsShown ==
  ASSUME NEW f \in Files, NEW k \in DOMAIN Units[f], OverlapUnits \in {0, 1}
  PROVE  \E ch \in Chunks[f] : Units[f][k].text \in TextsOf(ch)
<1> DEFINE u == Units[f]
<1>1. u \in Seq(UnitsOf(f))
  BY UnitsAreEntries
<1>2. Len(u) \in Nat /\ DOMAIN u = 1..Len(u)
  <2> HIDE DEF u
  <2> QED
    BY <1>1
<1>3. PICK i \in Starts(u) : k \in i..BatchEnd(u, i)
  <2> HIDE DEF u
  <2> QED
    BY <1>2, EveryUnitInAChunk DEF u
<1>4. i \in 1..Len(u)
  BY <1>2 DEF Starts
<1> DEFINE ch == [file |-> f, first |-> i, units |-> SubSeq(u, i, BatchEnd(u, i))]
<1>5. ch \in Chunks[f]
  BY DEF Chunks
<1>6. ch.first = i
  OBVIOUS
<1> HIDE DEF ch
<1>7. /\ Len(ch.units) = BatchEnd(u, i) - i + 1
      /\ DOMAIN ch.units = 1..Len(ch.units)
      /\ \A n \in 1..Len(ch.units) : ch.units[n] = u[i + n - 1]
  BY <1>5, <1>6, ChunkIsOf
<1>8. BatchEnd(u, i) \in i..Len(u)
  <2> HIDE DEF u
  <2> QED
    BY <1>2, <1>4, BatchEnds
<1> HIDE DEF u
<1>9. k - i + 1 \in 1..Len(ch.units) /\ i + (k - i + 1) - 1 = k
  <2> DEFINE e == BatchEnd(u, i)
  <2>1. i \in Int /\ e \in Int /\ k \in Int /\ i <= k /\ k <= e
    BY <1>2, <1>3, <1>4, <1>8
  <2> HIDE DEF e
  <2>2. k - i + 1 \in 1..(e - i + 1) /\ i + (k - i + 1) - 1 = k
    BY <2>1
  <2>3. Len(ch.units) = e - i + 1
    BY <1>7 DEF e
  <2> QED
    BY <2>2, <2>3
<1>10. ch.units[k - i + 1] = u[k]
  BY <1>7, <1>9
<1>11. u[k].text \in TextsOf(ch)
  BY <1>7, <1>9, <1>10 DEF TextsOf
<1> QED
  BY <1>5, <1>11 DEF u

\* Whatever a document says is shown or filtered as part of a chunk: no unit is
\* skipped where the chunks overlap, and what is replaced is replaced by what
\* came later.  With an overlap of one unit, the only one the code asks for.
LEMMA DocumentsAreWellChunked ==
  ASSUME OverlapUnits \in {0, 1}, NEW f \in Files
  PROVE  WellChunked[f]
<1>1. ASSUME NEW n \in DOMAIN Entries[f], Speaks(Entries[f][n]),
             \A m \in PlacesOf(f, Entries[f][n].loc) : ~(m > n)
      PROVE  \E ch \in Chunks[f] : Entries[f][n].text \in TextsOf(ch)
  <2> DEFINE loc == Entries[f][n].loc
  <2>1. loc \in Locators(f) /\ n \in PlacesOf(f, loc)
    BY <1>1 DEF Locators, PlacesOf
  <2>2. /\ Max(PlacesOf(f, loc)) \in PlacesOf(f, loc)
        /\ n <= Max(PlacesOf(f, loc))
        /\ PlacesOf(f, loc) \subseteq 1..Len(Entries[f]) /\ Len(Entries[f]) \in Nat
    BY <2>1, EntryOf
  <2>3. Max(PlacesOf(f, loc)) = n
    BY <1>1, <2>1, <2>2
  <2>4. UnitAt(f, loc) = Entries[f][n]
    BY <2>3 DEF UnitAt
  <2>5. PICK k \in DOMAIN Units[f] : Units[f][k] = UnitAt(f, loc)
    BY <2>1, UnitsAreEntries
  <2> QED
    BY <2>4, <2>5, UnitIsShown
<1>2. ASSUME NEW ch \in Chunks[f], ch.first + Len(ch.units) - 1 > ch.first
      PROVE  SizeOf(Units[f], ch.first, ch.first + Len(ch.units) - 1) <= TargetChars
  <2> DEFINE e == BatchEnd(Units[f], ch.first)
  <2>1. /\ ch.first \in 1..Len(Units[f]) /\ Len(Units[f]) \in Nat
        /\ Len(ch.units) = e - ch.first + 1
    BY ChunkIsOf
  <2>2. /\ e \in ch.first..Len(Units[f])
        /\ e # ch.first => SizeOf(Units[f], ch.first, e) <= TargetChars
    BY <2>1, BatchEnds
  <2> HIDE DEF e
  <2>3. ch.first + Len(ch.units) - 1 = e
    BY <2>1, <2>2
  <2> QED
    BY <1>2, <2>1, <2>2, <2>3
<1>3. \A n \in DOMAIN Entries[f] :
         \/ ~Speaks(Entries[f][n])
         \/ \E m \in PlacesOf(f, Entries[f][n].loc) : m > n
         \/ \E ch \in Chunks[f] : Entries[f][n].text \in TextsOf(ch)
  BY <1>1
<1> QED
  BY <1>2, <1>3 DEF WellChunked

-----------------------------------------------------------------------------
(* What comes out of chunks.                                               *)

LEMMA CorporaOfFiles ==
  ASSUME NEW docs \in Corpora
  PROVE  docs \subseteq Files
BY IngestAssumption DEF Corpora, Specs

LEMMA ProposedGrows ==
  ASSUME NEW A, NEW B, A \subseteq B
  PROVE  Proposed(A) \subseteq Proposed(B)
BY DEF Proposed

LEMMA ManifestFinite == IsFiniteSet(ToSet(Manifest))
<1>1. Manifest \in Seq(ToSet(Manifest))
  BY IngestAssumption
<1>2. DOMAIN Manifest = 1..Len(Manifest) /\ Len(Manifest) \in Nat
  BY <1>1
<1>3. IsFiniteSet(1..Len(Manifest))
  BY <1>2, FS_Interval
<1> DEFINE at == [n \in 1..Len(Manifest) |-> Manifest[n]]
<1>4. at \in Surjection(1..Len(Manifest), ToSet(Manifest))
  BY <1>2 DEF Surjection, ToSet
<1> HIDE DEF at
<1> QED
  BY <1>3, <1>4, FS_Surjection

\* Every document is one of the manifest's.
LEMMA FilesFinite == IsFiniteSet(Files)
<1> DEFINE S == ToSet(Manifest)
           T == {e.file : e \in S}
           at == [e \in S |-> e.file]
<1>1. at \in Surjection(S, T)
  BY DEF Surjection
<1>2. Files \subseteq T
  BY IngestAssumption
<1>3. IsFiniteSet(T)
  <2> HIDE DEF T, at
  <2> QED
    BY <1>1, ManifestFinite, FS_Surjection
<1> HIDE DEF T
<1> QED
  BY <1>2, <1>3, FS_Subset

LEMMA FiniteUnion ==
  ASSUME NEW D, IsFiniteSet(D), NEW F, \A d \in D : IsFiniteSet(F[d])
  PROVE  IsFiniteSet(UNION {F[d] : d \in D})
<1> DEFINE G == {F[d] : d \in D}
           at == [d \in D |-> F[d]]
<1>1. at \in Surjection(D, G)
  BY DEF Surjection
<1>2. \A T \in G : IsFiniteSet(T)
  OBVIOUS
<1> HIDE DEF G, at
<1>3. IsFiniteSet(G)
  BY <1>1, FS_Surjection
<1>4. IsFiniteSet(UNION G)
  BY <1>2, <1>3, FS_UNION
<1> QED
  BY <1>4 DEF G

LEMMA ChunksFinite ==
  ASSUME NEW f \in Files
  PROVE  IsFiniteSet(Chunks[f])
<1> DEFINE S == Starts(Units[f])
           at == [i \in S |-> [file |-> f, first |-> i, units |-> SubSeq(Units[f], i, BatchEnd(Units[f], i))]]
<1>1. DOMAIN Units[f] = 1..Len(Units[f]) /\ Len(Units[f]) \in Nat
  BY UnitsAreEntries
<1>2. S \subseteq 1..Len(Units[f])
  BY <1>1 DEF Starts
<1>3. IsFiniteSet(1..Len(Units[f]))
  BY <1>1, FS_Interval
<1>4. IsFiniteSet(S)
  <2> HIDE DEF S
  <2> QED
    BY <1>2, <1>3, FS_Subset
<1>5. at \in Surjection(S, Chunks[f])
  BY DEF Surjection, Chunks
<1> HIDE DEF S, at
<1> QED
  BY <1>4, <1>5, FS_Surjection

\* A corpus proposes finitely many claims, counted as often as they are proposed.
LEMMA ProposedFinite ==
  ASSUME NEW docs \in SUBSET Files
  PROVE  IsFiniteSet(Proposed(ChunksOf(docs)))
<1> DEFINE D == ChunksOf(docs)
           F == [ch \in D |-> {[claim |-> raw.claim, nth |-> raw.nth, chunk |-> ch] : raw \in Accepted[ch]}]
<1>1. IsFiniteSet(D)
  <2>1. IsFiniteSet(docs)
    BY FilesFinite, FS_Subset
  <2>2. \A f \in docs : IsFiniteSet(Chunks[f])
    BY ChunksFinite
  <2> QED
    BY <2>1, <2>2, FiniteUnion DEF ChunksOf
<1>2. D \subseteq ChunksOf(Files)
  BY DEF ChunksOf
<1> HIDE DEF D
<1>3. ASSUME NEW ch \in D PROVE IsFiniteSet(F[ch])
  <2>1. Accepted[ch] \subseteq Returned
    BY <1>2 DEF Accepted
  <2>2. IsFiniteSet(Accepted[ch])
    BY <2>1, FS_Subset, IngestAssumption
  <2> DEFINE T == {[claim |-> raw.claim, nth |-> raw.nth, chunk |-> ch] : raw \in Accepted[ch]}
             at == [raw \in Accepted[ch] |-> [claim |-> raw.claim, nth |-> raw.nth, chunk |-> ch]]
  <2>3. at \in Surjection(Accepted[ch], T)
    BY DEF Surjection
  <2>4. IsFiniteSet(T)
    <3> HIDE DEF T, at
    <3> QED
      BY <2>2, <2>3, FS_Surjection
  <2>5. F[ch] = T
    OBVIOUS
  <2> QED
    BY <2>4, <2>5
<1>4. Proposed(D) = UNION {F[ch] : ch \in D}
  BY DEF Proposed
<1> HIDE DEF F
<1> QED
  BY <1>1, <1>3, <1>4, FiniteUnion DEF D

LEMMA ProposedIsGrounded ==
  ASSUME NEW docs \in SUBSET Files, NEW p \in Proposed(ChunksOf(docs))
  PROVE  /\ p \in Proposed(ChunksOf(Files))
         /\ p.claim \in Claims
         /\ p.chunk.file \in docs /\ p.chunk \in Chunks[p.chunk.file]
         /\ Cites[p.claim].file = p.chunk.file
         /\ Cites[p.claim].loc \in LocatorsOf(p.chunk)
         /\ Cites[p.claim].loc \in Locators(p.chunk.file)
         /\ QuoteGrounded(p.claim)
<1>1. PICK ch \in ChunksOf(docs) :
        \E raw \in Accepted[ch] : p = [claim |-> raw.claim, nth |-> raw.nth, chunk |-> ch]
  BY DEF Proposed
<1>0. PICK raw \in Accepted[ch] : p = [claim |-> raw.claim, nth |-> raw.nth, chunk |-> ch]
  BY <1>1
<1> DEFINE c == raw.claim
<1>2. PICK f \in docs : ch \in Chunks[f]
  BY DEF ChunksOf
<1>3. ch \in ChunksOf(Files) /\ ChunksOf(docs) \subseteq ChunksOf(Files)
  BY <1>2 DEF ChunksOf
<1>4. /\ raw \in Returned
      /\ Cites[c].file = ch.file /\ Cites[c].loc \in LocatorsOf(ch)
      /\ QuoteGrounded(c)
  BY <1>3 DEF Accepted
<1>5. c \in Claims
  BY <1>4, IngestAssumption
<1>6. ch.file = f /\ LocatorsOf(ch) \subseteq Locators(f)
  BY <1>2, ChunkIsOf
<1>7. p.claim = c /\ p.chunk = ch
  BY <1>0
<1>8. p \in Proposed(ChunksOf(Files))
  BY <1>3, ProposedGrows
<1> QED
  BY <1>2, <1>4, <1>5, <1>6, <1>7, <1>8

LEMMA EdgesAre ==
  ASSUME NEW E, NEW e
  PROVE  e \in Edges(E) <=>
           \E m, n \in E : /\ e = [alias |-> m, canonical |-> n]
                           /\ m # n /\ SameName(m, n) /\ Fuller(n, m)
BY DEF Edges

-----------------------------------------------------------------------------
(* The invariant.                                                          *)

AllProposed == Proposed(ChunksOf(Files))

\* Where the sets are not looked into: instants, rows, edges.
Instants == {0} \cup {NewestOf(Files) + n + 1 : n \in Nat}

Findings == {RowOf(c, d) : c \in Claims, d \in Claims}

NameEdges == [alias : Names, canonical : Names]

RunState ==
  [pc : {"idle", "append", "detect", "record", "link", "done", "dead"},
   docs : SUBSET Files,
   instant : Instants,
   lost : SUBSET AllProposed,
   todo : SUBSET AllProposed,
   cur : SUBSET AllProposed,
   pool : SUBSET AllProposed,
   found : SUBSET Findings,
   entities : SUBSET Names,
   edges : SUBSET NameEdges]

\* Types.  A run that has begun has documents of a manifest, one that has not
\* has nothing.
IngestTypeOK ==
  /\ run \in [Runs -> RunState]
  /\ started \in Nat
  /\ compared \in [Runs -> SUBSET SUBSET Claims]
  /\ registry \in SUBSET Files
  /\ \A r \in Runs : IF run[r].pc = "idle" THEN run[r] = Idle ELSE run[r].docs \in Corpora

Due(q) == Proposed(ChunksOf(q.docs))

SubjectsOf(P) == {Attr[p.claim].subject : p \in P}

\* A run works on what its documents propose, and on nothing else, one claim
\* at a time.
Planned(q) ==
  /\ q.todo \subseteq Due(q)
  /\ q.cur \subseteq Due(q) /\ q.pool \subseteq Due(q)
  /\ q.entities \subseteq SubjectsOf(Due(q))
  /\ q.edges \subseteq Edges(q.entities)
  /\ IF q.pc \in {"detect", "record"} THEN \E p \in AllProposed : q.cur = {p} ELSE q.cur = {}

\* What a run that lost nothing no longer has to do is done: the claim is in
\* the log, its subject among the entities, and it is being or has been detected on.
Settled(q, L) ==
  q.pc # "dead" /\ q.lost = {} =>
    \A p \in Due(q) \ q.todo :
      /\ AssertedEvent(p.claim, p.chunk) \in L
      /\ Attr[p.claim].subject \in q.entities
      /\ p \in q.pool \cup q.cur

BareLinks(L) ==
  {[at |-> l.at, alias |-> l.alias, canonical |-> l.canonical] :
     l \in OfType(L, {"entity.alias_linked"})}

BareLink(docs, e) == [at |-> NewestOf(docs), alias |-> e.alias, canonical |-> e.canonical]

\* The edges come last, and those a run no longer has to write are written.
LinkedUp(q, L) ==
  /\ q.pc \in {"link", "done"} =>
       /\ q.todo = {}
       /\ \A e \in Edges(q.entities) \ q.edges : BareLink(q.docs, e) \in BareLinks(L)
  /\ q.pc = "done" => q.edges = {}

BooksOf(q, L) == Planned(q) /\ Settled(q, L) /\ LinkedUp(q, L)

Books == \A r \in Runs : BooksOf(run[r], log)

\* Nothing else is in the log: what is asserted and linked comes from the
\* documents of runs.
LogFrom(corpora, L) ==
  /\ \A e \in OfType(L, {"claim.asserted"}) :
       \E docs \in corpora : \E p \in Proposed(ChunksOf(docs)) : e = AssertedEvent(p.claim, p.chunk)
  /\ \A l \in BareLinks(L) :
       \E docs \in corpora : \E e \in Edges(SubjectsOf(Proposed(ChunksOf(docs)))) : l = BareLink(docs, e)

LogFromRuns == LogFrom({run[r].docs : r \in Started}, log)

\* Two claims of a run were put to the adjudicator together, or others fill the
\* prompt of one before the other comes to its place.
Met(own, C, c, d) ==
  d \in Gated(c, ClaimsOf(own), <<>>) =>
    \/ {c, d} \in C
    \/ PlacesBefore(d, c, own) >= MaxRetrieved
    \/ PlacesBefore(c, d, own) >= MaxRetrieved

\* The claims of the pool have met one another, and the one at hand has met
\* those of the pool once the call has come back.
Compared(q, C) ==
  /\ \A o, p \in q.pool : Met(Due(q), C, o.claim, p.claim)
  /\ q.pc = "record" => \A o \in q.cur, p \in q.pool : Met(Due(q), C, o.claim, p.claim)

AllCompared == \A r \in Runs : Compared(run[r], compared[r])

IngestInv == IngestTypeOK /\ Books /\ LogFromRuns /\ AllCompared

-----------------------------------------------------------------------------
(* Types.                                                                  *)

LEMMA SetsOne ==
  ASSUME run \in [Runs -> RunState], NEW r \in Runs, NEW state \in RunState, Set(r, state)
  PROVE  /\ run' \in [Runs -> RunState]
         /\ run'[r] = state
         /\ \A s \in Runs \ {r} : run'[s] = run[s]
BY DEF Set

\* What a run extracts is proposed by its documents.
LEMMA ExtractedIsDue ==
  ASSUME NEW docs \in SUBSET Files, NEW dropped, NEW n,
         NEW broken \in UpTo(n, ChunksOf(docs) \ dropped),
         NEW how, NEW salvaged \in Salvaged(how, broken)
  PROVE  (Proposed((ChunksOf(docs) \ dropped) \ broken) \cup salvaged) \in SUBSET Proposed(ChunksOf(docs))
<1>1. broken \subseteq ChunksOf(docs)
  BY DEF UpTo
<1>2. Proposed((ChunksOf(docs) \ dropped) \ broken) \subseteq Proposed(ChunksOf(docs))
  BY ProposedGrows
<1>3. Proposed(broken) \subseteq Proposed(ChunksOf(docs))
  BY <1>1, ProposedGrows
<1>4. salvaged \subseteq Proposed(broken)
  BY DEF Salvaged
<1> QED
  BY <1>2, <1>3, <1>4

LEMMA BeginningIs ==
  ASSUME IngestTypeOK, NEW docs \in SUBSET Files, NEW got \in SUBSET Proposed(ChunksOf(docs))
  PROVE  /\ Beginning(docs, got) \in RunState
         /\ Beginning(docs, got).pc = "append" /\ Beginning(docs, got).docs = docs
         /\ Beginning(docs, got).todo = got
         /\ Beginning(docs, got).lost = Proposed(ChunksOf(docs)) \ got
         /\ Beginning(docs, got).cur = {} /\ Beginning(docs, got).pool = {}
         /\ Beginning(docs, got).entities = {} /\ Beginning(docs, got).edges = {}
<1>1. Proposed(ChunksOf(docs)) \subseteq AllProposed
  BY ProposedIsGrounded DEF AllProposed
<1>2. RunInstant \in Instants
  BY DEF RunInstant, IngestTypeOK, Instants
<1>3. Idle \in RunState
  BY DEF Idle, RunState, Instants
<1>4. Beginning(docs, got) \in RunState
  BY <1>1, <1>2, <1>3 DEF Beginning, RunState
<1> QED
  BY <1>4 DEF Beginning, Idle

\* A run begins with what it has extracted, all of it in front of it.
LEMMA ExtractSets ==
  ASSUME IngestTypeOK, NEW r \in Runs, NEW docs \in Corpora, Extract(r, docs)
  PROVE  /\ run' \in [Runs -> RunState]
         /\ \A s \in Runs \ {r} : run'[s] = run[s]
         /\ run[r] = Idle
         /\ \E got \in SUBSET Proposed(ChunksOf(docs)) : run'[r] = Beginning(docs, got)
<1>1. docs \subseteq Files
  BY CorporaOfFiles
<1>2. \E mode \in FilterModes : \E dropped \in Droppings(mode, ChunksOf(docs)) :
        \E broken \in UpTo(MaxLost - Cardinality(dropped), ChunksOf(docs) \ dropped), how \in Extractors :
          \E salvaged \in Salvaged(how, broken) :
            Set(r, Beginning(docs, Proposed((ChunksOf(docs) \ dropped) \ broken) \cup salvaged))
  BY Zenon DEF Extract
<1>3. \A dropped, n, how : \A broken \in UpTo(n, ChunksOf(docs) \ dropped) :
        \A salvaged \in Salvaged(how, broken) :
          (Proposed((ChunksOf(docs) \ dropped) \ broken) \cup salvaged)
             \in SUBSET Proposed(ChunksOf(docs))
  BY <1>1, ExtractedIsDue
<1>4. PICK got \in SUBSET Proposed(ChunksOf(docs)) : Set(r, Beginning(docs, got))
  BY <1>2, <1>3
<1>5. Beginning(docs, got) \in RunState
  BY <1>1, BeginningIs
<1>6. run[r].pc = "idle" /\ run \in [Runs -> RunState]
  BY DEF Extract, IngestTypeOK
<1>7. run[r] = Idle
  BY <1>6 DEF IngestTypeOK
<1> QED
  BY <1>4, <1>5, <1>6, <1>7, SetsOne

\* What each step makes of a run.
Appended(q, p) ==
  [q EXCEPT !.pc = "detect", !.todo = @ \ {p}, !.cur = {p},
            !.entities = @ \cup {Attr[p.claim].subject}]
Examined(q, rows) == [q EXCEPT !.pc = "record", !.found = rows]
Written(q, k) == [q EXCEPT !.found = @ \ {k}]
PutInPool(q) == [q EXCEPT !.pc = "append", !.pool = @ \cup q.cur, !.cur = {}]
Proposing(q) == [q EXCEPT !.pc = "link", !.edges = Edges(q.entities)]
Linking(q, e) == [q EXCEPT !.edges = @ \ {e}]
Finished(q) == [q EXCEPT !.pc = "done"]

\* A run that ends early keeps its documents alone.
Ended(q) == [Idle EXCEPT !.pc = "dead", !.docs = q.docs]

LEMMA AppendSets ==
  ASSUME IngestTypeOK, NEW r \in Runs, NEW p \in NextIn(run[r].todo), AppendClaim(r, p)
  PROVE  /\ run' \in [Runs -> RunState]
         /\ \A s \in Runs \ {r} : run'[s] = run[s]
         /\ p \in run[r].todo /\ p \in AllProposed /\ run[r].pc = "append"
         /\ run'[r] = Appended(run[r], p)
<1>1. run \in [Runs -> RunState] /\ run[r] \in RunState
  BY DEF IngestTypeOK
<1>2. p \in run[r].todo /\ p \in AllProposed
  BY <1>1 DEF NextIn, RunState
<1>3. p.claim \in Claims
  BY <1>2, ProposedIsGrounded DEF AllProposed
<1>4. Attr[p.claim].subject \in Names
  BY <1>3, IngestAssumption
<1>5. Appended(run[r], p) \in RunState
  BY <1>1, <1>2, <1>4 DEF RunState, Appended
<1> QED
  BY <1>1, <1>2, <1>5, SetsOne DEF AppendClaim, Appended

LEMMA ProposedClaims ==
  ASSUME NEW P \in SUBSET AllProposed
  PROVE  ClaimsOf(P) \subseteq Claims
BY ProposedIsGrounded DEF ClaimsOf, AllProposed

PairsWith(c, prompt) == {{c, d} : d \in prompt}

RowsWith(c, prompt) == {RowOf(c, d) : d \in {d \in prompt : {c, d} \in Contradict}}

LEMMA DetectSets ==
  ASSUME IngestTypeOK, NEW r \in Runs, DetectOnWrite(r)
  PROVE  /\ run' \in [Runs -> RunState]
         /\ \A s \in Runs \ {r} : run'[s] = run[s]
         /\ run[r].pc = "detect"
         /\ \E c \in ClaimsOf(run[r].cur), rows \in SUBSET Findings :
              /\ run'[r] = Examined(run[r], rows)
              /\ compared' = [compared EXCEPT ![r] = @ \cup PairsWith(c, Prompt(c, run[r].pool))]
              /\ Prompt(c, run[r].pool) \subseteq Claims /\ c \in Claims
<1>1. run \in [Runs -> RunState] /\ run[r] \in RunState
  BY DEF IngestTypeOK
<1>2. PICK c \in ClaimsOf(run[r].cur) :
        LET prompt == Prompt(c, run[r].pool)
        IN  /\ Set(r, Examined(run[r], RowsWith(c, prompt)))
            /\ compared' = [compared EXCEPT ![r] = @ \cup PairsWith(c, prompt)]
  BY Zenon DEF DetectOnWrite, RowsWith, PairsWith, Examined
<1> DEFINE prompt == Prompt(c, run[r].pool)
<1>3. ClaimsOf(run[r].cur) \subseteq Claims /\ ClaimsOf(run[r].pool) \subseteq Claims
  BY <1>1, ProposedClaims DEF RunState
<1>4. prompt \subseteq Claims
  BY <1>3 DEF Prompt, GatedIn, ClaimsOf
<1>5. RowsWith(c, prompt) \in SUBSET Findings
  <2> HIDE DEF prompt
  <2> SUFFICES ASSUME NEW k \in RowsWith(c, prompt) PROVE k \in Findings
    OBVIOUS
  <2>1. PICK d \in prompt : k = RowOf(c, d)
    BY DEF RowsWith
  <2> QED
    BY <1>3, <1>4, <2>1 DEF Findings
<1>6. /\ Set(r, Examined(run[r], RowsWith(c, prompt)))
      /\ compared' = [compared EXCEPT ![r] = @ \cup PairsWith(c, prompt)]
  BY <1>2
<1>7. Examined(run[r], RowsWith(c, prompt)) \in RunState
  <2> HIDE DEF prompt
  <2> QED
    BY <1>1, <1>5 DEF RunState, Examined
<1> HIDE DEF prompt
<1>8. /\ run' \in [Runs -> RunState]
      /\ \A s \in Runs \ {r} : run'[s] = run[s]
      /\ run'[r] = Examined(run[r], RowsWith(c, prompt))
  BY <1>1, <1>6, <1>7, SetsOne
<1>9. run[r].pc = "detect"
  BY DEF DetectOnWrite
<1>10. \E rows \in SUBSET Findings :
         /\ run'[r] = Examined(run[r], rows)
         /\ compared' = [compared EXCEPT ![r] = @ \cup PairsWith(c, prompt)]
         /\ prompt \subseteq Claims /\ c \in Claims
  BY <1>3, <1>4, <1>5, <1>6, <1>8, Zenon
<1> QED
  BY <1>8, <1>9, <1>10, Zenon DEF prompt

LEMMA EndSets ==
  ASSUME IngestTypeOK, NEW r \in Runs, DetectRaises(r) \/ Die(r)
  PROVE  /\ run' \in [Runs -> RunState]
         /\ \A s \in Runs \ {r} : run'[s] = run[s]
         /\ run[r].pc # "idle"
         /\ run'[r] = Ended(run[r])
         /\ UNCHANGED <<log, started, compared, registry>>
<1>1. run \in [Runs -> RunState] /\ run[r] \in RunState
  BY DEF IngestTypeOK
<1>0. run[r].docs \in SUBSET Files /\ 0 \in Instants
  BY <1>1 DEF RunState, Instants
<1>2. Ended(run[r]) \in RunState
  <2>1. Idle \in RunState
    BY <1>0 DEF Idle, RunState
  <2> QED
    BY <1>0, <2>1 DEF Ended, RunState
<1>3. Set(r, Ended(run[r])) /\ run[r].pc # "idle" /\ UNCHANGED <<log, started, compared, registry>>
  BY DEF DetectRaises, Die, Working, Ended
<1> QED
  BY <1>1, <1>2, <1>3, SetsOne

LEMMA RestSets ==
  ASSUME IngestTypeOK, NEW r \in Runs
  PROVE  /\ \A k \in run[r].found : RecordRow(r, k) =>
              /\ run' \in [Runs -> RunState]
              /\ \A s \in Runs \ {r} : run'[s] = run[s]
              /\ run'[r] = Written(run[r], k)
         /\ Pooled(r) =>
              /\ run' \in [Runs -> RunState]
              /\ \A s \in Runs \ {r} : run'[s] = run[s]
              /\ run'[r] = PutInPool(run[r])
         /\ Propose(r) =>
              /\ run' \in [Runs -> RunState]
              /\ \A s \in Runs \ {r} : run'[s] = run[s]
              /\ run'[r] = Proposing(run[r])
         /\ \A e \in run[r].edges : Link(r, e) =>
              /\ run' \in [Runs -> RunState]
              /\ \A s \in Runs \ {r} : run'[s] = run[s]
              /\ run'[r] = Linking(run[r], e)
         /\ Finish(r) =>
              /\ run' \in [Runs -> RunState]
              /\ \A s \in Runs \ {r} : run'[s] = run[s]
              /\ run'[r] = Finished(run[r])
<1>1. run \in [Runs -> RunState] /\ run[r] \in RunState
  BY DEF IngestTypeOK
<1>2. ASSUME NEW k \in run[r].found, RecordRow(r, k)
      PROVE  /\ run' \in [Runs -> RunState]
             /\ \A s \in Runs \ {r} : run'[s] = run[s]
             /\ run'[r] = Written(run[r], k)
  <2>1. Written(run[r], k) \in RunState
    BY <1>1 DEF RunState, Written
  <2> QED
    BY <1>1, <1>2, <2>1, SetsOne DEF RecordRow, Written
<1>3. ASSUME Pooled(r)
      PROVE  /\ run' \in [Runs -> RunState]
             /\ \A s \in Runs \ {r} : run'[s] = run[s]
             /\ run'[r] = PutInPool(run[r])
  <2>1. PutInPool(run[r]) \in RunState
    BY <1>1 DEF RunState, PutInPool
  <2> QED
    BY <1>1, <1>3, <2>1, SetsOne DEF Pooled, PutInPool
<1>4. ASSUME Propose(r)
      PROVE  /\ run' \in [Runs -> RunState]
             /\ \A s \in Runs \ {r} : run'[s] = run[s]
             /\ run'[r] = Proposing(run[r])
  <2>1. Edges(run[r].entities) \subseteq NameEdges
    BY <1>1 DEF RunState, Edges, NameEdges
  <2>2. Proposing(run[r]) \in RunState
    BY <1>1, <2>1 DEF RunState, Proposing
  <2> QED
    BY <1>1, <1>4, <2>2, SetsOne DEF Propose, Proposing
<1>5. ASSUME NEW e \in run[r].edges, Link(r, e)
      PROVE  /\ run' \in [Runs -> RunState]
             /\ \A s \in Runs \ {r} : run'[s] = run[s]
             /\ run'[r] = Linking(run[r], e)
  <2>1. Linking(run[r], e) \in RunState
    BY <1>1 DEF RunState, Linking
  <2> QED
    BY <1>1, <1>5, <2>1, SetsOne DEF Link, Linking
<1>6. ASSUME Finish(r)
      PROVE  /\ run' \in [Runs -> RunState]
             /\ \A s \in Runs \ {r} : run'[s] = run[s]
             /\ run'[r] = Finished(run[r])
  <2>1. Finished(run[r]) \in RunState
    BY <1>1 DEF RunState, Finished
  <2> QED
    BY <1>1, <1>6, <2>1, SetsOne DEF Finish, Finished
<1> QED
  BY <1>2, <1>3, <1>4, <1>5, <1>6

LEMMA IngestTypeInit == Init => IngestTypeOK
<1>1. Idle \in RunState
  BY DEF Idle, RunState, Instants
<1>2. Idle.pc = "idle"
  BY DEF Idle
<1> QED
  BY <1>1, <1>2 DEF Init, IngestTypeOK

\* What a step of a run has to leave in order for the types to hold.
Typed(q) == IF q.pc = "idle" THEN q = Idle ELSE q.docs \in Corpora

\* What each step makes of a run, field by field.
LEMMA AppendedFields ==
  ASSUME NEW q \in RunState, NEW p
  PROVE  LET s == Appended(q, p)
         IN  /\ s.pc = "detect" /\ s.docs = q.docs /\ s.lost = q.lost /\ s.todo = q.todo \ {p}
             /\ s.cur = {p} /\ s.pool = q.pool /\ s.entities = q.entities \cup {Attr[p.claim].subject}
             /\ s.edges = q.edges
  BY DEF RunState, Appended

LEMMA ExaminedFields ==
  ASSUME NEW q \in RunState, NEW rows
  PROVE  LET s == Examined(q, rows)
         IN  /\ s.pc = "record" /\ s.docs = q.docs /\ s.lost = q.lost /\ s.todo = q.todo
             /\ s.cur = q.cur /\ s.pool = q.pool /\ s.entities = q.entities
             /\ s.edges = q.edges
  BY DEF RunState, Examined

LEMMA WrittenFields ==
  ASSUME NEW q \in RunState, NEW k
  PROVE  LET s == Written(q, k)
         IN  /\ s.pc = q.pc /\ s.docs = q.docs /\ s.lost = q.lost /\ s.todo = q.todo
             /\ s.cur = q.cur /\ s.pool = q.pool /\ s.entities = q.entities
             /\ s.edges = q.edges
  BY DEF RunState, Written

LEMMA PutInPoolFields ==
  ASSUME NEW q \in RunState
  PROVE  LET s == PutInPool(q)
         IN  /\ s.pc = "append" /\ s.docs = q.docs /\ s.lost = q.lost /\ s.todo = q.todo
             /\ s.cur = {} /\ s.pool = q.pool \cup q.cur /\ s.entities = q.entities
             /\ s.edges = q.edges
  BY DEF RunState, PutInPool

LEMMA ProposingFields ==
  ASSUME NEW q \in RunState
  PROVE  LET s == Proposing(q)
         IN  /\ s.pc = "link" /\ s.docs = q.docs /\ s.lost = q.lost /\ s.todo = q.todo
             /\ s.cur = q.cur /\ s.pool = q.pool /\ s.entities = q.entities
             /\ s.edges = Edges(q.entities)
  BY DEF RunState, Proposing

LEMMA LinkingFields ==
  ASSUME NEW q \in RunState, NEW e
  PROVE  LET s == Linking(q, e)
         IN  /\ s.pc = q.pc /\ s.docs = q.docs /\ s.lost = q.lost /\ s.todo = q.todo
             /\ s.cur = q.cur /\ s.pool = q.pool /\ s.entities = q.entities
             /\ s.edges = q.edges \ {e}
  BY DEF RunState, Linking

LEMMA FinishedFields ==
  ASSUME NEW q \in RunState
  PROVE  LET s == Finished(q)
         IN  /\ s.pc = "done" /\ s.docs = q.docs /\ s.lost = q.lost /\ s.todo = q.todo
             /\ s.cur = q.cur /\ s.pool = q.pool /\ s.entities = q.entities
             /\ s.edges = q.edges
  BY DEF RunState, Finished

LEMMA EndedFields ==
  ASSUME NEW q \in RunState
  PROVE  LET s == Ended(q)
         IN  /\ s.pc = "dead" /\ s.docs = q.docs /\ s.lost = {} /\ s.todo = {}
             /\ s.cur = {} /\ s.pool = {} /\ s.entities = {}
             /\ s.edges = {}
  BY DEF Ended, Idle

LEMMA TypedStep ==
  ASSUME IngestTypeOK, NEW r \in Runs, run' \in [Runs -> RunState],
         \A s \in Runs \ {r} : run'[s] = run[s], run'[r].pc # "idle", run'[r].docs \in Corpora,
         started' \in Nat, compared' \in [Runs -> SUBSET SUBSET Claims], registry' \in SUBSET Files
  PROVE  IngestTypeOK'
<1>1. \A s \in Runs : Typed(run[s])
  BY DEF IngestTypeOK, Typed
<1>2. \A s \in Runs : Typed(run'[s])
  BY <1>1 DEF Typed
<1> QED
  BY <1>2 DEF IngestTypeOK, Typed

LEMMA RunTyped ==
  ASSUME IngestTypeOK, NEW r \in Runs
  PROVE  /\ run[r] \in RunState
         /\ run[r].docs \in SUBSET Files
         /\ run[r].pc # "idle" => run[r].docs \in Corpora
         /\ run[r].todo \subseteq AllProposed /\ run[r].pool \subseteq AllProposed
         /\ run[r].cur \subseteq AllProposed
BY DEF IngestTypeOK, RunState

LEMMA IngestTypeStep ==
  ASSUME IngestTypeOK, [Next]_vars
  PROVE  IngestTypeOK'
<1>0. started \in Nat /\ compared \in [Runs -> SUBSET SUBSET Claims] /\ registry \in SUBSET Files
  BY DEF IngestTypeOK
<1>1. ASSUME NEW r \in Runs, NEW docs \in Corpora, Extract(r, docs)
      PROVE  IngestTypeOK'
  <2>1. docs \in SUBSET Files
    BY CorporaOfFiles
  <2>2. PICK got \in SUBSET Proposed(ChunksOf(docs)) : run'[r] = Beginning(docs, got)
    BY <1>1, ExtractSets
  <2>3. run'[r].pc = "append" /\ run'[r].docs = docs
    BY <2>1, <2>2, BeginningIs
  <2>4. started' \in Nat /\ compared' = compared /\ registry' = registry
    BY <1>0, <1>1 DEF Extract
  <2>5. run' \in [Runs -> RunState] /\ \A s \in Runs \ {r} : run'[s] = run[s]
    BY <1>1, ExtractSets
  <2> QED
    BY <1>0, <2>3, <2>4, <2>5, TypedStep
<1>2. ASSUME NEW r \in Runs, NEW p \in NextIn(run[r].todo), AppendClaim(r, p)
      PROVE  IngestTypeOK'
  <2>1. /\ run' \in [Runs -> RunState] /\ \A s \in Runs \ {r} : run'[s] = run[s]
        /\ run[r].pc = "append"
        /\ run'[r] = Appended(run[r], p)
    BY <1>2, AppendSets
  <2>4. run[r] \in RunState
    BY RunTyped
  <2>5. Appended(run[r], p).pc = "detect" /\ Appended(run[r], p).docs = run[r].docs
    BY <2>4, AppendedFields
  <2>2. run'[r].pc = "detect" /\ run'[r].docs = run[r].docs
    BY <2>1, <2>5
  <2>3. UNCHANGED <<started, compared, registry>>
    BY <1>2 DEF AppendClaim
  <2> QED
    BY <1>0, <2>1, <2>2, <2>3, RunTyped, TypedStep
<1>3. ASSUME NEW r \in Runs, DetectOnWrite(r)
      PROVE  IngestTypeOK'
  <2>1. /\ run' \in [Runs -> RunState] /\ \A s \in Runs \ {r} : run'[s] = run[s]
        /\ run[r].pc = "detect"
    BY <1>3, DetectSets
  <2>2. PICK c \in ClaimsOf(run[r].cur), rows \in SUBSET Findings :
          /\ run'[r] = Examined(run[r], rows)
          /\ compared' = [compared EXCEPT ![r] = @ \cup PairsWith(c, Prompt(c, run[r].pool))]
          /\ Prompt(c, run[r].pool) \subseteq Claims /\ c \in Claims
    BY <1>3, DetectSets
  <2>3. run'[r].pc = "record" /\ run'[r].docs = run[r].docs
    BY <2>2, RunTyped, ExaminedFields
  <2>4. PairsWith(c, Prompt(c, run[r].pool)) \subseteq SUBSET Claims
    BY <2>2 DEF PairsWith
  <2>5. compared' \in [Runs -> SUBSET SUBSET Claims]
    BY <1>0, <2>2, <2>4
  <2>6. started' = started /\ registry' = registry
    BY <1>3 DEF DetectOnWrite
  <2> QED
    BY <1>0, <2>1, <2>3, <2>5, <2>6, RunTyped, TypedStep
<1>4. ASSUME NEW r \in Runs, DetectRaises(r) \/ Die(r)
      PROVE  IngestTypeOK'
  <2>1. /\ run' \in [Runs -> RunState] /\ \A s \in Runs \ {r} : run'[s] = run[s]
        /\ run[r].pc # "idle" /\ run'[r] = Ended(run[r]) /\ UNCHANGED <<log, started, compared, registry>>
    BY <1>4, EndSets
  <2>2. run'[r].pc = "dead" /\ run'[r].docs = run[r].docs
    BY <2>1, RunTyped, EndedFields
  <2> QED
    BY <1>0, <2>1, <2>2, RunTyped, TypedStep
<1>5. ASSUME NEW r \in Runs, NEW k \in run[r].found, RecordRow(r, k)
      PROVE  IngestTypeOK'
  <2>1. /\ run' \in [Runs -> RunState] /\ \A s \in Runs \ {r} : run'[s] = run[s]
        /\ run'[r] = Written(run[r], k)
    BY <1>5, RestSets
  <2>2. run'[r].pc = run[r].pc /\ run'[r].docs = run[r].docs
    BY <2>1, RunTyped, WrittenFields
  <2>3. UNCHANGED <<started, compared, registry>> /\ run[r].pc # "idle"
    BY <1>5 DEF RecordRow
  <2> QED
    BY <1>0, <2>1, <2>2, <2>3, RunTyped, TypedStep
<1>6. ASSUME NEW r \in Runs, Pooled(r)
      PROVE  IngestTypeOK'
  <2>1. /\ run' \in [Runs -> RunState] /\ \A s \in Runs \ {r} : run'[s] = run[s]
        /\ run'[r] = PutInPool(run[r])
    BY <1>6, RestSets
  <2>2. run'[r].pc = "append" /\ run'[r].docs = run[r].docs
    BY <2>1, RunTyped, PutInPoolFields
  <2>3. UNCHANGED <<started, compared, registry>> /\ run[r].pc # "idle"
    BY <1>6 DEF Pooled
  <2> QED
    BY <1>0, <2>1, <2>2, <2>3, RunTyped, TypedStep
<1>7. ASSUME NEW r \in Runs, Propose(r)
      PROVE  IngestTypeOK'
  <2>1. /\ run' \in [Runs -> RunState] /\ \A s \in Runs \ {r} : run'[s] = run[s]
        /\ run'[r] = Proposing(run[r])
    BY <1>7, RestSets
  <2>2. run'[r].pc = "link" /\ run'[r].docs = run[r].docs
    BY <2>1, RunTyped, ProposingFields
  <2>3. UNCHANGED <<started, compared, registry>> /\ run[r].pc # "idle"
    BY <1>7 DEF Propose
  <2> QED
    BY <1>0, <2>1, <2>2, <2>3, RunTyped, TypedStep
<1>8. ASSUME NEW r \in Runs, NEW e \in run[r].edges, Link(r, e)
      PROVE  IngestTypeOK'
  <2>1. /\ run' \in [Runs -> RunState] /\ \A s \in Runs \ {r} : run'[s] = run[s]
        /\ run'[r] = Linking(run[r], e)
    BY <1>8, RestSets
  <2>2. run'[r].pc = run[r].pc /\ run'[r].docs = run[r].docs
    BY <2>1, RunTyped, LinkingFields
  <2>3. UNCHANGED <<started, compared, registry>> /\ run[r].pc # "idle"
    BY <1>8 DEF Link
  <2> QED
    BY <1>0, <2>1, <2>2, <2>3, RunTyped, TypedStep
<1>9. ASSUME NEW r \in Runs, Finish(r)
      PROVE  IngestTypeOK'
  <2>1. /\ run' \in [Runs -> RunState] /\ \A s \in Runs \ {r} : run'[s] = run[s]
        /\ run'[r] = Finished(run[r])
    BY <1>9, RestSets
  <2>2. run'[r].pc = "done" /\ run'[r].docs = run[r].docs
    BY <2>1, RunTyped, FinishedFields
  <2>3. UNCHANGED <<started, compared>> /\ run[r].pc # "idle"
    BY <1>9 DEF Finish
  <2>4. registry' \in SUBSET Files
    BY <1>9, RunTyped DEF Finish
  <2> QED
    BY <1>0, <2>1, <2>2, <2>3, <2>4, RunTyped, TypedStep
<1>10. CASE UNCHANGED vars
  BY <1>10 DEF vars, IngestTypeOK
<1>11. CASE Next
  BY <1>1, <1>2, <1>3, <1>4, <1>5, <1>6, <1>7, <1>8, <1>9, <1>11 DEF Next
<1> QED
  BY <1>10, <1>11

\* The types of the ingest: runs, their documents and what they hold.
THEOREM IngestTypeCorrect == Spec => []IngestTypeOK
  BY IngestTypeInit, IngestTypeStep, PTL DEF Spec

-----------------------------------------------------------------------------
(* What runs write, and what they owe.                                     *)

LEMMA EdgesGrow ==
  ASSUME NEW A, NEW B, A \subseteq B
  PROVE  Edges(A) \subseteq Edges(B)
<1> SUFFICES ASSUME NEW e \in Edges(A) PROVE e \in Edges(B)
  OBVIOUS
<1>1. \E m, n \in A : e = [alias |-> m, canonical |-> n] /\ m # n /\ SameName(m, n) /\ Fuller(n, m)
  BY EdgesAre
<1>2. \E m, n \in B : e = [alias |-> m, canonical |-> n] /\ m # n /\ SameName(m, n) /\ Fuller(n, m)
  BY <1>1
<1> QED
  BY <1>2, EdgesAre

LEMMA BooksGrow ==
  ASSUME NEW q, NEW L, NEW M, L \subseteq M, BooksOf(q, L)
  PROVE  BooksOf(q, M)
<1>1. BareLinks(L) \subseteq BareLinks(M)
  BY DEF BareLinks, OfType
<1>2. Settled(q, M)
  BY DEF BooksOf, Settled
<1>3. LinkedUp(q, M)
  BY <1>1 DEF BooksOf, LinkedUp
<1> QED
  BY <1>2, <1>3 DEF BooksOf

LEMMA AppendedBooks ==
  ASSUME NEW q \in RunState, NEW p \in q.todo, q.pc = "append", NEW L, NEW M, L \subseteq M,
         AssertedEvent(p.claim, p.chunk) \in M, p \in AllProposed, BooksOf(q, L)
  PROVE  BooksOf(Appended(q, p), M)
<1> DEFINE s == Appended(q, p)
<1>1. /\ s.pc = "detect" /\ s.docs = q.docs /\ s.lost = q.lost /\ s.todo = q.todo \ {p}
      /\ s.cur = {p} /\ s.pool = q.pool
      /\ s.entities = q.entities \cup {Attr[p.claim].subject} /\ s.edges = q.edges
  BY AppendedFields
<1> HIDE DEF s
<1>2. BooksOf(q, M)
  BY BooksGrow
<1>3. Due(s) = Due(q)
  BY <1>1 DEF Due
<1>4. p \in Due(q) /\ q.cur = {}
  BY DEF BooksOf, Planned
<1>5. Attr[p.claim].subject \in SubjectsOf(Due(q))
  BY <1>4 DEF SubjectsOf
<1>6. Edges(q.entities) \subseteq Edges(s.entities)
  BY <1>1, EdgesGrow
<1>7. Planned(s)
  <2>1. s.todo \subseteq Due(s) /\ s.cur \subseteq Due(s) /\ s.pool \subseteq Due(s)
    BY <1>1, <1>3, <1>4 DEF BooksOf, Planned
  <2>2. s.entities \subseteq SubjectsOf(Due(s))
    BY <1>1, <1>3, <1>5 DEF BooksOf, Planned
  <2>3. s.edges \subseteq Edges(s.entities)
    BY <1>1, <1>6 DEF BooksOf, Planned
  <2>4. \E o \in AllProposed : s.cur = {o}
    BY <1>1
  <2> QED
    BY <1>1, <2>1, <2>2, <2>3, <2>4 DEF Planned
<1>8. Settled(s, M)
  <2> SUFFICES ASSUME s.lost = {}, NEW x \in Due(s) \ s.todo
               PROVE  /\ AssertedEvent(x.claim, x.chunk) \in M
                      /\ Attr[x.claim].subject \in s.entities
                      /\ x \in s.pool \cup s.cur
    BY DEF Settled
  <2>1. CASE x = p
    BY <1>1, <2>1
  <2>2. CASE x # p
    <3>1. x \in Due(q) \ q.todo
      BY <1>1, <1>3, <2>2
    <3>2. /\ AssertedEvent(x.claim, x.chunk) \in M
          /\ Attr[x.claim].subject \in q.entities
          /\ x \in q.pool \cup q.cur
      BY <1>1, <1>2, <3>1 DEF BooksOf, Settled
    <3> QED
      BY <1>1, <1>4, <3>2
  <2> QED
    BY <2>1, <2>2
<1>9. LinkedUp(s, M)
  BY <1>1 DEF LinkedUp
<1> QED
  BY <1>7, <1>8, <1>9 DEF BooksOf, s

\* A step that leaves the books of a run alone.
LEMMA SameBooks ==
  ASSUME NEW q, NEW s, NEW L, BooksOf(q, L),
         s.docs = q.docs, s.lost = q.lost, s.todo = q.todo, s.cur = q.cur, s.pool = q.pool,
         s.entities = q.entities, s.edges = q.edges,
         s.pc = q.pc \/ (q.pc = "detect" /\ s.pc = "record")
  PROVE  BooksOf(s, L)
<1>1. Due(s) = Due(q)
  BY DEF Due
<1>2. Planned(s)
  BY <1>1 DEF BooksOf, Planned
<1>3. Settled(s, L)
  BY <1>1 DEF BooksOf, Settled
<1>4. LinkedUp(s, L)
  BY DEF BooksOf, LinkedUp
<1> QED
  BY <1>2, <1>3, <1>4 DEF BooksOf

LEMMA PooledBooks ==
  ASSUME NEW q \in RunState, q.pc = "record", NEW L, BooksOf(q, L)
  PROVE  BooksOf(PutInPool(q), L)
<1> DEFINE s == PutInPool(q)
<1>1. /\ s.pc = "append" /\ s.docs = q.docs /\ s.lost = q.lost /\ s.todo = q.todo
      /\ s.cur = {} /\ s.pool = q.pool \cup q.cur /\ s.entities = q.entities /\ s.edges = q.edges
  BY PutInPoolFields
<1> HIDE DEF s
<1>2. Due(s) = Due(q)
  BY <1>1 DEF Due
<1>3. Planned(s)
  BY <1>1, <1>2 DEF BooksOf, Planned
<1>4. Settled(s, L)
  BY <1>1, <1>2 DEF BooksOf, Settled
<1>5. LinkedUp(s, L)
  BY <1>1 DEF LinkedUp
<1> QED
  BY <1>3, <1>4, <1>5 DEF BooksOf, s

LEMMA ProposingBooks ==
  ASSUME NEW q \in RunState, q.pc = "append", q.todo = {}, NEW L, BooksOf(q, L)
  PROVE  BooksOf(Proposing(q), L)
<1> DEFINE s == Proposing(q)
<1>1. /\ s.pc = "link" /\ s.docs = q.docs /\ s.lost = q.lost /\ s.todo = q.todo
      /\ s.cur = q.cur /\ s.pool = q.pool /\ s.entities = q.entities /\ s.edges = Edges(q.entities)
  BY ProposingFields
<1> HIDE DEF s
<1>2. Due(s) = Due(q)
  BY <1>1 DEF Due
<1>3. Planned(s)
  BY <1>1, <1>2 DEF BooksOf, Planned
<1>4. Settled(s, L)
  BY <1>1, <1>2 DEF BooksOf, Settled
<1>5. LinkedUp(s, L)
  BY <1>1 DEF LinkedUp
<1> QED
  BY <1>3, <1>4, <1>5 DEF BooksOf, s

LEMMA LinkingBooks ==
  ASSUME NEW q \in RunState, NEW e \in q.edges, q.pc = "link", NEW L, NEW M, L \subseteq M,
         BareLink(q.docs, e) \in BareLinks(M), BooksOf(q, L)
  PROVE  BooksOf(Linking(q, e), M)
<1> DEFINE s == Linking(q, e)
<1>1. /\ s.pc = q.pc /\ s.docs = q.docs /\ s.lost = q.lost /\ s.todo = q.todo
      /\ s.cur = q.cur /\ s.pool = q.pool /\ s.entities = q.entities /\ s.edges = q.edges \ {e}
  BY LinkingFields
<1> HIDE DEF s
<1>2. Due(s) = Due(q)
  BY <1>1 DEF Due
<1>3. BooksOf(q, M)
  BY BooksGrow
<1>4. Planned(s)
  BY <1>1, <1>2 DEF BooksOf, Planned
<1>5. Settled(s, M)
  BY <1>1, <1>2, <1>3 DEF BooksOf, Settled
<1>6. LinkedUp(s, M)
  BY <1>1, <1>3 DEF BooksOf, LinkedUp
<1> QED
  BY <1>4, <1>5, <1>6 DEF BooksOf, s

LEMMA FinishedBooks ==
  ASSUME NEW q \in RunState, q.pc = "link", q.edges = {}, NEW L, BooksOf(q, L)
  PROVE  BooksOf(Finished(q), L)
<1> DEFINE s == Finished(q)
<1>1. /\ s.pc = "done" /\ s.docs = q.docs /\ s.lost = q.lost /\ s.todo = q.todo
      /\ s.cur = q.cur /\ s.pool = q.pool /\ s.entities = q.entities /\ s.edges = q.edges
  BY FinishedFields
<1> HIDE DEF s
<1>2. Due(s) = Due(q)
  BY <1>1 DEF Due
<1>3. Planned(s)
  BY <1>1, <1>2 DEF BooksOf, Planned
<1>4. Settled(s, L)
  BY <1>1, <1>2 DEF BooksOf, Settled
<1>5. LinkedUp(s, L)
  BY <1>1 DEF BooksOf, LinkedUp
<1> QED
  BY <1>3, <1>4, <1>5 DEF BooksOf, s

LEMMA EmptyBooks ==
  ASSUME NEW q, NEW L, q.todo = {}, q.cur = {}, q.pool = {}, q.entities = {}, q.edges = {},
         q.pc = "dead" \/ (q.pc = "idle" /\ q.docs = {})
  PROVE  BooksOf(q, L)
<1>1. Planned(q)
  BY DEF Planned
<1>2. Settled(q, L)
  <2>1. CASE q.pc = "dead"
    BY <2>1 DEF Settled
  <2>2. CASE q.docs = {}
    <3>1. Due(q) = {}
      BY <2>2 DEF Due, ChunksOf, Proposed
    <3> QED
      BY <3>1 DEF Settled
  <2> QED
    BY <2>1, <2>2
<1>3. LinkedUp(q, L)
  BY DEF LinkedUp
<1> QED
  BY <1>1, <1>2, <1>3 DEF BooksOf

LEMMA BeginningBooks ==
  ASSUME IngestTypeOK, NEW docs \in SUBSET Files, NEW got \in SUBSET Proposed(ChunksOf(docs)), NEW L
  PROVE  BooksOf(Beginning(docs, got), L)
<1> DEFINE q == Beginning(docs, got)
<1>1. /\ q.pc = "append" /\ q.docs = docs /\ q.todo = got /\ q.lost = Proposed(ChunksOf(docs)) \ got
      /\ q.cur = {} /\ q.pool = {} /\ q.entities = {} /\ q.edges = {}
  BY BeginningIs
<1> HIDE DEF q
<1>2. Due(q) = Proposed(ChunksOf(docs))
  BY <1>1 DEF Due
<1>3. Planned(q)
  BY <1>1, <1>2 DEF Planned
<1>4. Settled(q, L)
  BY <1>1, <1>2 DEF Settled
<1>5. LinkedUp(q, L)
  BY <1>1 DEF LinkedUp
<1> QED
  BY <1>3, <1>4, <1>5 DEF BooksOf, q

LEMMA LinkedAre ==
  ASSUME NEW r, NEW e, NEW l \in LinkedEvents(r, e)
  PROVE  /\ l.type = "entity.alias_linked" /\ l.at = NewestOf(run[r].docs)
         /\ l.alias = e.alias /\ l.canonical = e.canonical
BY DEF LinkedEvents, AliasInstant

LEMMA LinkWrites ==
  ASSUME NEW r, NEW e, Link(r, e)
  PROVE  /\ log \subseteq log'
         /\ BareLink(run[r].docs, e) \in BareLinks(log')
         /\ BareLinks(log') \subseteq BareLinks(log) \cup {BareLink(run[r].docs, e)}
         /\ OfType(log', {"claim.asserted"}) = OfType(log, {"claim.asserted"})
<1>1. PICK l \in LinkedEvents(r, e) : log' = log \cup {l}
  BY DEF Link
<1>2. /\ l.type = "entity.alias_linked" /\ l.at = NewestOf(run[r].docs)
      /\ l.alias = e.alias /\ l.canonical = e.canonical
  BY LinkedAre
<1>3. [at |-> l.at, alias |-> l.alias, canonical |-> l.canonical] = BareLink(run[r].docs, e)
  BY <1>2 DEF BareLink
<1>4. OfType(log', {"entity.alias_linked"}) = OfType(log, {"entity.alias_linked"}) \cup {l}
  BY <1>1, <1>2 DEF OfType
<1>5. BareLink(run[r].docs, e) \in BareLinks(log')
  BY <1>3, <1>4 DEF BareLinks
<1>6. BareLinks(log') \subseteq BareLinks(log) \cup {BareLink(run[r].docs, e)}
  BY <1>3, <1>4 DEF BareLinks
<1>7. OfType(log', {"claim.asserted"}) = OfType(log, {"claim.asserted"})
  BY <1>1, <1>2 DEF OfType
<1> QED
  BY <1>1, <1>5, <1>6, <1>7

LEMMA BooksOfTheOthers ==
  ASSUME Books, NEW r \in Runs, \A s \in Runs \ {r} : run'[s] = run[s], log \subseteq log',
         BooksOf(run'[r], log')
  PROVE  Books'
<1>1. \A s \in Runs : BooksOf(run'[s], log')
  BY BooksGrow DEF Books
<1> QED
  BY <1>1 DEF Books

LEMMA BooksStep ==
  ASSUME IngestTypeOK, Books, [Next]_vars
  PROVE  Books'
<1>0. \A r \in Runs : run[r] \in RunState /\ BooksOf(run[r], log)
  BY RunTyped DEF Books
<1>1. ASSUME NEW r \in Runs, NEW docs \in Corpora, Extract(r, docs)
      PROVE  Books'
  <2>1. docs \in SUBSET Files
    BY CorporaOfFiles
  <2>2. PICK got \in SUBSET Proposed(ChunksOf(docs)) : run'[r] = Beginning(docs, got)
    BY <1>1, ExtractSets
  <2>3. BooksOf(run'[r], log')
    BY <2>1, <2>2, BeginningBooks
  <2>4. log' = log
    BY <1>1 DEF Extract
  <2>5. \A s \in Runs \ {r} : run'[s] = run[s]
    BY <1>1, ExtractSets
  <2> QED
    BY <2>3, <2>4, <2>5, BooksOfTheOthers
<1>2. ASSUME NEW r \in Runs, NEW p \in NextIn(run[r].todo), AppendClaim(r, p)
      PROVE  Books'
  <2>1. /\ \A s \in Runs \ {r} : run'[s] = run[s]
        /\ p \in run[r].todo /\ p \in AllProposed /\ run[r].pc = "append"
        /\ run'[r] = Appended(run[r], p)
    BY <1>2, AppendSets
  <2>3. log \subseteq log' /\ AssertedEvent(p.claim, p.chunk) \in log'
    BY <1>2 DEF AppendClaim
  <2>4. BooksOf(Appended(run[r], p), log')
    BY <1>0, <2>1, <2>3, AppendedBooks
  <2> QED
    BY <2>1, <2>3, <2>4, BooksOfTheOthers
<1>3. ASSUME NEW r \in Runs, DetectOnWrite(r)
      PROVE  Books'
  <2>1. \A s \in Runs \ {r} : run'[s] = run[s]
    BY <1>3, DetectSets
  <2>2. run[r].pc = "detect" /\ \E rows : run'[r] = Examined(run[r], rows)
    BY <1>3, DetectSets
  <2>3. PICK rows : run'[r] = Examined(run[r], rows)
    BY <2>2
  <2>4. LET s == Examined(run[r], rows)
        IN  /\ s.pc = "record" /\ s.docs = run[r].docs /\ s.lost = run[r].lost /\ s.todo = run[r].todo
            /\ s.cur = run[r].cur /\ s.pool = run[r].pool /\ s.entities = run[r].entities
            /\ s.edges = run[r].edges
    BY <1>0, ExaminedFields
  <2>5. BooksOf(run'[r], log)
    BY <1>0, <2>2, <2>3, <2>4, SameBooks
  <2>6. log' = log
    BY <1>3 DEF DetectOnWrite
  <2> QED
    BY <2>1, <2>5, <2>6, BooksOfTheOthers
<1>4. ASSUME NEW r \in Runs, DetectRaises(r) \/ Die(r)
      PROVE  Books'
  <2>1. /\ \A s \in Runs \ {r} : run'[s] = run[s]
        /\ run'[r] = Ended(run[r]) /\ UNCHANGED <<log, started, compared>>
    BY <1>4, EndSets
  <2>2. LET s == Ended(run[r])
        IN  /\ s.pc = "dead" /\ s.todo = {} /\ s.cur = {} /\ s.pool = {} /\ s.entities = {}
            /\ s.edges = {}
    BY <1>0, EndedFields
  <2>3. BooksOf(run'[r], log)
    BY <2>1, <2>2, EmptyBooks
  <2> QED
    BY <2>1, <2>3, BooksOfTheOthers
<1>5. ASSUME NEW r \in Runs, NEW k \in run[r].found, RecordRow(r, k)
      PROVE  Books'
  <2>1. (\A s \in Runs \ {r} : run'[s] = run[s]) /\ run'[r] = Written(run[r], k)
    BY <1>5, RestSets
  <2>2. LET s == Written(run[r], k)
        IN  /\ s.pc = run[r].pc /\ s.docs = run[r].docs /\ s.lost = run[r].lost /\ s.todo = run[r].todo
            /\ s.cur = run[r].cur /\ s.pool = run[r].pool /\ s.entities = run[r].entities
            /\ s.edges = run[r].edges
    BY <1>0, WrittenFields
  <2>3. log \subseteq log'
    BY <1>5 DEF RecordRow
  <2>4. BooksOf(run[r], log')
    BY <1>0, <2>3, BooksGrow
  <2>5. BooksOf(run'[r], log')
    BY <2>1, <2>2, <2>4, SameBooks
  <2> QED
    BY <2>1, <2>3, <2>5, BooksOfTheOthers
<1>6. ASSUME NEW r \in Runs, Pooled(r)
      PROVE  Books'
  <2>1. (\A s \in Runs \ {r} : run'[s] = run[s]) /\ run'[r] = PutInPool(run[r])
    BY <1>6, RestSets
  <2>2. run[r].pc = "record" /\ log' = log
    BY <1>6 DEF Pooled
  <2>3. BooksOf(PutInPool(run[r]), log)
    BY <1>0, <2>2, PooledBooks
  <2> QED
    BY <2>1, <2>2, <2>3, BooksOfTheOthers
<1>7. ASSUME NEW r \in Runs, Propose(r)
      PROVE  Books'
  <2>1. (\A s \in Runs \ {r} : run'[s] = run[s]) /\ run'[r] = Proposing(run[r])
    BY <1>7, RestSets
  <2>2. run[r].pc = "append" /\ run[r].todo = {} /\ log' = log
    BY <1>7 DEF Propose
  <2>3. BooksOf(Proposing(run[r]), log)
    BY <1>0, <2>2, ProposingBooks
  <2> QED
    BY <2>1, <2>2, <2>3, BooksOfTheOthers
<1>8. ASSUME NEW r \in Runs, NEW e \in run[r].edges, Link(r, e)
      PROVE  Books'
  <2>1. (\A s \in Runs \ {r} : run'[s] = run[s]) /\ run'[r] = Linking(run[r], e)
    BY <1>8, RestSets
  <2>2. run[r].pc = "link"
    BY <1>8 DEF Link
  <2>3. log \subseteq log' /\ BareLink(run[r].docs, e) \in BareLinks(log')
    BY <1>8, LinkWrites
  <2>4. BooksOf(Linking(run[r], e), log')
    BY <1>0, <2>2, <2>3, LinkingBooks
  <2> QED
    BY <2>1, <2>3, <2>4, BooksOfTheOthers
<1>9. ASSUME NEW r \in Runs, Finish(r)
      PROVE  Books'
  <2>1. (\A s \in Runs \ {r} : run'[s] = run[s]) /\ run'[r] = Finished(run[r])
    BY <1>9, RestSets
  <2>2. run[r].pc = "link" /\ run[r].edges = {} /\ log' = log
    BY <1>9 DEF Finish
  <2>3. BooksOf(Finished(run[r]), log)
    BY <1>0, <2>2, FinishedBooks
  <2> QED
    BY <2>1, <2>2, <2>3, BooksOfTheOthers
<1>10. CASE UNCHANGED vars
  BY <1>10 DEF vars, Books
<1>11. CASE Next
  BY <1>1, <1>2, <1>3, <1>4, <1>5, <1>6, <1>7, <1>8, <1>9, <1>11 DEF Next
<1> QED
  BY <1>10, <1>11

LEMMA BooksInit == Init => Books
<1> SUFFICES ASSUME Init, NEW r \in Runs PROVE BooksOf(run[r], log)
  BY DEF Books
<1>1. run[r] = Idle
  BY DEF Init
<1> QED
  BY <1>1, EmptyBooks DEF Idle

-----------------------------------------------------------------------------
(* Where what is in the log comes from.                                    *)

CorporaBegun == {run[r].docs : r \in Started}

LEMMA KeptByOne ==
  ASSUME NEW r \in Runs, \A s \in Runs \ {r} : run'[s] = run[s],
         run[r].pc # "idle" => run'[r].pc # "idle" /\ run'[r].docs = run[r].docs
  PROVE  \A s \in Runs : run[s].pc # "idle" => run'[s].pc # "idle" /\ run'[s].docs = run[s].docs
OBVIOUS

\* A run that has begun stays begun, over the same documents.
LEMMA DocumentsKept ==
  ASSUME IngestTypeOK, [Next]_vars
  PROVE  \A s \in Runs : run[s].pc # "idle" => run'[s].pc # "idle" /\ run'[s].docs = run[s].docs
<1> DEFINE Goal == \A s \in Runs : run[s].pc # "idle" => run'[s].pc # "idle" /\ run'[s].docs = run[s].docs
<1>0. \A r \in Runs : run[r] \in RunState
  BY RunTyped
<1>1. ASSUME NEW r \in Runs, NEW docs \in Corpora, Extract(r, docs)
      PROVE  Goal
  <2>1. (\A s \in Runs \ {r} : run'[s] = run[s]) /\ run[r] = Idle
    BY <1>1, ExtractSets
  <2>2. run[r].pc = "idle"
    BY <2>1 DEF Idle
  <2> QED
    BY <2>1, <2>2, KeptByOne
<1>2. ASSUME NEW r \in Runs, NEW p \in NextIn(run[r].todo), AppendClaim(r, p)
      PROVE  Goal
  <2>1. (\A s \in Runs \ {r} : run'[s] = run[s]) /\ run'[r] = Appended(run[r], p)
    BY <1>2, AppendSets
  <2>2. Appended(run[r], p).pc = "detect" /\ Appended(run[r], p).docs = run[r].docs
    BY <1>0, AppendedFields
  <2> QED
    BY <2>1, <2>2, KeptByOne
<1>3. ASSUME NEW r \in Runs, DetectOnWrite(r)
      PROVE  Goal
  <2>1. (\A s \in Runs \ {r} : run'[s] = run[s]) /\ \E rows : run'[r] = Examined(run[r], rows)
    BY <1>3, DetectSets
  <2> QED
    BY <1>0, <2>1, ExaminedFields, KeptByOne
<1>4. ASSUME NEW r \in Runs, DetectRaises(r) \/ Die(r)
      PROVE  Goal
  <2>1. (\A s \in Runs \ {r} : run'[s] = run[s]) /\ run'[r] = Ended(run[r])
    BY <1>4, EndSets
  <2> QED
    BY <1>0, <2>1, EndedFields, KeptByOne
<1>5. ASSUME NEW r \in Runs, NEW k \in run[r].found, RecordRow(r, k)
      PROVE  Goal
  <2>1. (\A s \in Runs \ {r} : run'[s] = run[s]) /\ run'[r] = Written(run[r], k)
    BY <1>5, RestSets
  <2> QED
    BY <1>0, <2>1, WrittenFields, KeptByOne
<1>6. ASSUME NEW r \in Runs, Pooled(r)
      PROVE  Goal
  <2>1. (\A s \in Runs \ {r} : run'[s] = run[s]) /\ run'[r] = PutInPool(run[r])
    BY <1>6, RestSets
  <2> QED
    BY <1>0, <2>1, PutInPoolFields, KeptByOne
<1>7. ASSUME NEW r \in Runs, Propose(r)
      PROVE  Goal
  <2>1. (\A s \in Runs \ {r} : run'[s] = run[s]) /\ run'[r] = Proposing(run[r])
    BY <1>7, RestSets
  <2> QED
    BY <1>0, <2>1, ProposingFields, KeptByOne
<1>8. ASSUME NEW r \in Runs, NEW e \in run[r].edges, Link(r, e)
      PROVE  Goal
  <2>1. (\A s \in Runs \ {r} : run'[s] = run[s]) /\ run'[r] = Linking(run[r], e)
    BY <1>8, RestSets
  <2> QED
    BY <1>0, <2>1, LinkingFields, KeptByOne
<1>9. ASSUME NEW r \in Runs, Finish(r)
      PROVE  Goal
  <2>1. (\A s \in Runs \ {r} : run'[s] = run[s]) /\ run'[r] = Finished(run[r])
    BY <1>9, RestSets
  <2> QED
    BY <1>0, <2>1, FinishedFields, KeptByOne
<1>10. CASE UNCHANGED vars
  BY <1>10 DEF vars
<1>11. CASE Next
  BY <1>1, <1>2, <1>3, <1>4, <1>5, <1>6, <1>7, <1>8, <1>9, <1>11 DEF Next
<1> QED
  BY <1>10, <1>11

LEMMA LogFromMore ==
  ASSUME NEW A, NEW B, A \subseteq B, NEW L, NEW M, LogFrom(A, L),
         \A e \in OfType(M, {"claim.asserted"}) :
           \/ e \in OfType(L, {"claim.asserted"})
           \/ \E docs \in B : \E p \in Proposed(ChunksOf(docs)) : e = AssertedEvent(p.claim, p.chunk),
         \A l \in BareLinks(M) :
           \/ l \in BareLinks(L)
           \/ \E docs \in B : \E e \in Edges(SubjectsOf(Proposed(ChunksOf(docs)))) : l = BareLink(docs, e)
  PROVE  LogFrom(B, M)
<1>1. ASSUME NEW e \in OfType(M, {"claim.asserted"})
      PROVE  \E docs \in B : \E p \in Proposed(ChunksOf(docs)) : e = AssertedEvent(p.claim, p.chunk)
  BY Zenon DEF LogFrom
<1>2. ASSUME NEW l \in BareLinks(M)
      PROVE  \E docs \in B : \E e \in Edges(SubjectsOf(Proposed(ChunksOf(docs)))) : l = BareLink(docs, e)
  BY Zenon DEF LogFrom
<1> QED
  BY <1>1, <1>2 DEF LogFrom

LEMMA LogFromStep ==
  ASSUME IngestTypeOK, Books, LogFromRuns, [Next]_vars
  PROVE  LogFromRuns'
<1> DEFINE A == CorporaBegun
           B == CorporaBegun'
<1>0. LogFrom(A, log)
  BY DEF LogFromRuns, CorporaBegun
<1>g. LogFrom(B, log') => LogFromRuns'
  BY DEF LogFromRuns, CorporaBegun
<1>a. A \subseteq B
  BY DocumentsKept DEF CorporaBegun, Started
<1>b. \A r \in Runs : run[r].pc # "idle" => run[r].docs \in A
  BY DEF CorporaBegun, Started
<1> HIDE DEF A, B
<1>1. ASSUME NEW r \in Runs, NEW p \in NextIn(run[r].todo), AppendClaim(r, p)
      PROVE  LogFromRuns'
  <2>1. run[r].pc = "append" /\ p \in Due(run[r])
    BY <1>1, AppendSets DEF Books, BooksOf, Planned
  <2>2. run[r].docs \in B /\ p \in Proposed(ChunksOf(run[r].docs))
    BY <1>a, <1>b, <2>1 DEF Due
  <2> DEFINE new == AssertedEvent(p.claim, p.chunk)
  <2>3. log' = log \cup {new} /\ new.type = "claim.asserted"
    BY <1>1 DEF AppendClaim, AssertedEvent
  <2> HIDE DEF new
  <2>4. \A e \in OfType(log', {"claim.asserted"}) : e \in OfType(log, {"claim.asserted"}) \/ e = new
    BY <2>3 DEF OfType
  <2>5. BareLinks(log') = BareLinks(log)
    <3>1. OfType(log', {"entity.alias_linked"}) = OfType(log, {"entity.alias_linked"})
      BY <2>3 DEF OfType
    <3> QED
      BY <3>1 DEF BareLinks
  <2>6. \A e \in OfType(log', {"claim.asserted"}) :
          \/ e \in OfType(log, {"claim.asserted"})
          \/ \E docs \in B : \E x \in Proposed(ChunksOf(docs)) : e = AssertedEvent(x.claim, x.chunk)
    BY <2>2, <2>4, Zenon DEF new
  <2>7. LogFrom(B, log')
    BY <1>0, <1>a, <2>5, <2>6, LogFromMore
  <2> QED
    BY <1>g, <2>7
<1>2. ASSUME NEW r \in Runs, NEW e \in run[r].edges, Link(r, e)
      PROVE  LogFromRuns'
  <2>1. run[r].pc = "link"
    BY <1>2 DEF Link
  <2>2. e \in Edges(run[r].entities) /\ run[r].entities \subseteq SubjectsOf(Due(run[r]))
    BY DEF Books, BooksOf, Planned
  <2>3. e \in Edges(SubjectsOf(Proposed(ChunksOf(run[r].docs))))
    BY <2>2, EdgesGrow DEF Due
  <2>4. run[r].docs \in B
    BY <1>a, <1>b, <2>1
  <2>5. /\ BareLinks(log') \subseteq BareLinks(log) \cup {BareLink(run[r].docs, e)}
        /\ OfType(log', {"claim.asserted"}) = OfType(log, {"claim.asserted"})
    BY <1>2, LinkWrites
  <2>6. \A l \in BareLinks(log') :
          \/ l \in BareLinks(log)
          \/ \E docs \in B : \E x \in Edges(SubjectsOf(Proposed(ChunksOf(docs)))) : l = BareLink(docs, x)
    BY <2>3, <2>4, <2>5, Zenon
  <2>7. LogFrom(B, log')
    BY <1>0, <1>a, <2>5, <2>6, LogFromMore
  <2> QED
    BY <1>g, <2>7
<1>3. ASSUME NEW r \in Runs, NEW k \in run[r].found, RecordRow(r, k)
      PROVE  LogFromRuns'
  <2> DEFINE new == DetectedEvent(r, k)
  <2>1. log' = log \cup {new} /\ new.type = "contradiction.detected"
    BY <1>3 DEF RecordRow, DetectedEvent
  <2> HIDE DEF new
  <2>2. /\ OfType(log', {"claim.asserted"}) = OfType(log, {"claim.asserted"})
        /\ OfType(log', {"entity.alias_linked"}) = OfType(log, {"entity.alias_linked"})
    BY <2>1 DEF OfType
  <2>3. BareLinks(log') = BareLinks(log)
    BY <2>2 DEF BareLinks
  <2>4. LogFrom(B, log')
    BY <1>0, <1>a, <2>2, <2>3, LogFromMore
  <2> QED
    BY <1>g, <2>4
<1>4. ASSUME log' = log
      PROVE  LogFromRuns'
  <2>1. LogFrom(B, log')
    BY <1>0, <1>a, <1>4, LogFromMore
  <2> QED
    BY <1>g, <2>1
<1>5. \A r \in Runs :
        /\ \A docs \in Corpora : Extract(r, docs) => log' = log
        /\ DetectOnWrite(r) \/ DetectRaises(r) \/ Die(r) => log' = log
        /\ Pooled(r) \/ Propose(r) \/ Finish(r) => log' = log
  <2>1. \A r \in Runs : \A docs \in Corpora : Extract(r, docs) => log' = log
    BY Zenon DEF Extract
  <2>2. \A r \in Runs : DetectOnWrite(r) \/ DetectRaises(r) \/ Die(r) => log' = log
    BY Zenon DEF DetectOnWrite, DetectRaises, Die
  <2>3. \A r \in Runs : Pooled(r) \/ Propose(r) \/ Finish(r) => log' = log
    BY Zenon DEF Pooled, Propose, Finish
  <2> QED
    BY <2>1, <2>2, <2>3
<1>6. CASE UNCHANGED vars
  BY <1>4, <1>6 DEF vars
<1>7. CASE Next
  BY <1>1, <1>2, <1>3, <1>4, <1>5, <1>7 DEF Next
<1> QED
  BY <1>6, <1>7

LEMMA LogFromInit == Init => LogFromRuns
BY DEF Init, LogFromRuns, LogFrom, OfType, BareLinks

-----------------------------------------------------------------------------
(* Who was put to the adjudicator with whom.                               *)

\* A prompt has every candidate of the pool that comes to its place: in the pool
\* no more entries rank above it than in all that is due.
LEMMA PromptHas ==
  ASSUME NEW own, IsFiniteSet(own), NEW pool \in SUBSET own, NEW c, NEW o \in pool,
         o.claim \in Gated(c, ClaimsOf(own), <<>>), ~(PlacesBefore(o.claim, c, own) >= MaxRetrieved)
  PROVE  o.claim \in Prompt(c, pool)
<1> DEFINE all == {p \in GatedIn(c, own) : RanksAbove(p.claim, o.claim)}
           here == {p \in GatedIn(c, pool) : RanksAbove(p.claim, o.claim)}
<1>1. GatedIn(c, pool) = GatedIn(c, own) \cap pool
  <2>1. \A p \in pool : p.claim \in ClaimsOf(pool) /\ p.claim \in ClaimsOf(own)
    BY DEF ClaimsOf
  <2>2. \A p \in pool : p.claim \in Gated(c, ClaimsOf(pool), <<>>) <=> p.claim \in Gated(c, ClaimsOf(own), <<>>)
    BY <2>1 DEF Gated, Block
  <2> QED
    BY <2>2 DEF GatedIn
<1>2. here \subseteq all /\ all \subseteq own
  BY <1>1 DEF GatedIn
<1>3. PlacesBefore(o.claim, c, own) = Cardinality(all) /\ PlacesBefore(o.claim, c, pool) = Cardinality(here)
  BY DEF PlacesBefore
<1>4. o \in GatedIn(c, pool)
  BY <1>1 DEF GatedIn
<1> HIDE DEF all, here
<1>5. IsFiniteSet(all)
  BY <1>2, FS_Subset
<1>6. IsFiniteSet(here) /\ Cardinality(here) <= Cardinality(all)
  BY <1>2, <1>5, FS_Subset
<1>7. Cardinality(here) \in Nat /\ Cardinality(all) \in Nat
  BY <1>5, <1>6, FS_CardinalityType
<1>8. PlacesBefore(o.claim, c, pool) < MaxRetrieved
  BY <1>3, <1>6, <1>7, DetectAssumption
<1> QED
  BY <1>4, <1>8 DEF Prompt, ClaimsOf

LEMMA MetSymmetric ==
  ASSUME NEW own, NEW C, NEW c \in ClaimsOf(own), NEW d \in ClaimsOf(own), Met(own, C, c, d)
  PROVE  Met(own, C, d, c)
<1> DEFINE all == ClaimsOf(own)
<1> SUFFICES ASSUME c \in Gated(d, all, <<>>)
             PROVE  \/ {d, c} \in C
                    \/ PlacesBefore(c, d, own) >= MaxRetrieved
                    \/ PlacesBefore(d, c, own) >= MaxRetrieved
  BY Zenon DEF Met
<1> HIDE DEF all
<1>1. c # d /\ Overlap(d, c) /\ SharesBlock(d, c, <<>>)
  BY DEF Gated, Block
<1>2. Overlap(c, d)
  BY <1>1 DEF Overlap
<1>3. SharesBlock(c, d, <<>>)
  BY <1>1 DEF SharesBlock
<1>4. d \in Gated(c, all, <<>>)
  BY <1>1, <1>2, <1>3 DEF Gated, Block, all
<1>5. {c, d} = {d, c}
  OBVIOUS
<1> QED
  BY <1>4, <1>5, Zenon DEF Met, all

LEMMA MetItself ==
  ASSUME NEW own, NEW C, NEW c
  PROVE  Met(own, C, c, c)
<1>1. c \notin Gated(c, ClaimsOf(own), <<>>)
  BY DEF Gated, Block
<1> QED
  BY <1>1 DEF Met

LEMMA MetGrows ==
  ASSUME NEW own, NEW C, NEW D, C \subseteq D, NEW c, NEW d, Met(own, C, c, d)
  PROVE  Met(own, D, c, d)
BY Zenon DEF Met

LEMMA MetInThePrompt ==
  ASSUME NEW own, IsFiniteSet(own), NEW pool \in SUBSET own, NEW c, NEW o \in pool, NEW D,
         PairsWith(c, Prompt(c, pool)) \subseteq D
  PROVE  Met(own, D, c, o.claim)
<1> SUFFICES ASSUME o.claim \in Gated(c, ClaimsOf(own), <<>>),
                    ~(PlacesBefore(o.claim, c, own) >= MaxRetrieved)
             PROVE  {c, o.claim} \in D
  BY Zenon DEF Met
<1>1. o.claim \in Prompt(c, pool)
  BY PromptHas
<1> QED
  BY <1>1 DEF PairsWith

LEMMA DueFinite ==
  ASSUME NEW q \in RunState
  PROVE  IsFiniteSet(Due(q))
<1>1. q.docs \in SUBSET Files
  BY DEF RunState
<1> QED
  BY <1>1, ProposedFinite DEF Due

LEMMA NoneCompared ==
  ASSUME NEW q, NEW C, q.pool = {}
  PROVE  Compared(q, C)
BY DEF Compared

\* A step that leaves the pool alone, and comes to no end of a call.
LEMMA SameCompared ==
  ASSUME NEW q, NEW s, NEW C, NEW D, C \subseteq D, Compared(q, C), s.docs = q.docs, s.pool = q.pool,
         s.pc # "record" \/ (q.pc = "record" /\ s.cur = q.cur)
  PROVE  Compared(s, D)
<1>1. Due(s) = Due(q)
  BY DEF Due
<1>2. \A o, p \in s.pool : Met(Due(s), D, o.claim, p.claim)
  BY <1>1, MetGrows DEF Compared
<1>3. s.pc = "record" => \A o \in s.cur, p \in s.pool : Met(Due(s), D, o.claim, p.claim)
  BY <1>1, MetGrows DEF Compared
<1> QED
  BY <1>2, <1>3 DEF Compared

LEMMA ExaminedCompared ==
  ASSUME NEW q \in RunState, NEW p, q.cur = {p}, NEW rows, NEW C, NEW D, C \subseteq D, Compared(q, C),
         q.pool \subseteq Due(q), PairsWith(p.claim, Prompt(p.claim, q.pool)) \subseteq D
  PROVE  Compared(Examined(q, rows), D)
<1> DEFINE s == Examined(q, rows)
<1>1. s.docs = q.docs /\ s.pool = q.pool /\ s.cur = q.cur
  BY ExaminedFields
<1> HIDE DEF s
<1>2. Due(s) = Due(q)
  BY <1>1 DEF Due
<1>3. IsFiniteSet(Due(q))
  BY DueFinite
<1>4. \A n, o \in s.pool : Met(Due(s), D, n.claim, o.claim)
  BY <1>1, <1>2, MetGrows DEF Compared
<1>5. \A o \in q.pool : Met(Due(q), D, p.claim, o.claim)
  BY <1>3, MetInThePrompt
<1>6. \A n \in s.cur, o \in s.pool : Met(Due(s), D, n.claim, o.claim)
  BY <1>1, <1>2, <1>5
<1> QED
  BY <1>4, <1>6 DEF Compared, s

LEMMA PooledCompared ==
  ASSUME NEW q \in RunState, NEW p, q.cur = {p}, q.pc = "record", NEW C, Compared(q, C),
         q.pool \subseteq Due(q), p \in Due(q)
  PROVE  Compared(PutInPool(q), C)
<1> DEFINE s == PutInPool(q)
           own == Due(q)
<1>1. s.docs = q.docs /\ s.pool = q.pool \cup {p} /\ s.pc = "append"
  BY PutInPoolFields
<1> HIDE DEF s
<1>2. Due(s) = Due(q)
  BY <1>1 DEF Due
<1>4. /\ \A n, o \in q.pool : Met(own, C, n.claim, o.claim)
      /\ \A o \in q.pool : Met(own, C, p.claim, o.claim)
  BY DEF Compared
<1>5. \A o \in q.pool : Met(own, C, o.claim, p.claim)
  <2> HIDE DEF own
  <2> TAKE o \in q.pool
  <2>1. o.claim \in ClaimsOf(own) /\ p.claim \in ClaimsOf(own)
    BY DEF own, ClaimsOf
  <2> QED
    BY <1>4, <2>1, MetSymmetric
<1>6. Met(own, C, p.claim, p.claim)
  BY MetItself
<1>7. \A n, o \in s.pool : Met(own, C, n.claim, o.claim)
  <2> HIDE DEF own
  <2> QED
    BY <1>1, <1>4, <1>5, <1>6
<1> QED
  BY <1>1, <1>2, <1>7 DEF Compared, s

LEMMA ComparedOfTheOthers ==
  ASSUME AllCompared, NEW r \in Runs, \A s \in Runs \ {r} : run'[s] = run[s],
         \A s \in Runs \ {r} : compared'[s] = compared[s], Compared(run'[r], compared'[r])
  PROVE  AllCompared'
<1>1. \A s \in Runs : Compared(run'[s], compared'[s])
  BY DEF AllCompared
<1> QED
  BY <1>1 DEF AllCompared

LEMMA ComparedStep ==
  ASSUME IngestTypeOK, Books, AllCompared, [Next]_vars
  PROVE  AllCompared'
<1>0. \A r \in Runs : run[r] \in RunState /\ Planned(run[r]) /\ Compared(run[r], compared[r])
  BY RunTyped DEF Books, BooksOf, AllCompared
<1>1. ASSUME NEW r \in Runs, NEW docs \in Corpora, Extract(r, docs)
      PROVE  AllCompared'
  <2>1. docs \in SUBSET Files
    BY CorporaOfFiles
  <2>2. PICK got \in SUBSET Proposed(ChunksOf(docs)) : run'[r] = Beginning(docs, got)
    BY <1>1, ExtractSets
  <2>3. run'[r].pool = {}
    BY <2>1, <2>2, BeginningIs
  <2>4. compared' = compared
    BY <1>1 DEF Extract
  <2>5. \A s \in Runs \ {r} : run'[s] = run[s]
    BY <1>1, ExtractSets
  <2>6. Compared(run'[r], compared'[r])
    BY <2>3, NoneCompared
  <2> QED
    BY <2>4, <2>5, <2>6, ComparedOfTheOthers
<1>2. ASSUME NEW r \in Runs, NEW p \in NextIn(run[r].todo), AppendClaim(r, p)
      PROVE  AllCompared'
  <2>1. (\A s \in Runs \ {r} : run'[s] = run[s]) /\ run'[r] = Appended(run[r], p)
    BY <1>2, AppendSets
  <2>2. LET s == Appended(run[r], p)
        IN  s.pc = "detect" /\ s.docs = run[r].docs /\ s.pool = run[r].pool
    BY <1>0, AppendedFields
  <2>3. compared' = compared
    BY <1>2 DEF AppendClaim
  <2>4. Compared(run'[r], compared'[r])
    BY <1>0, <2>1, <2>2, <2>3, SameCompared
  <2> QED
    BY <2>1, <2>3, <2>4, ComparedOfTheOthers
<1>3. ASSUME NEW r \in Runs, DetectOnWrite(r)
      PROVE  AllCompared'
  <2>1. (\A s \in Runs \ {r} : run'[s] = run[s]) /\ run[r].pc = "detect"
    BY <1>3, DetectSets
  <2>2. PICK c \in ClaimsOf(run[r].cur), rows \in SUBSET Findings :
          /\ run'[r] = Examined(run[r], rows)
          /\ compared' = [compared EXCEPT ![r] = @ \cup PairsWith(c, Prompt(c, run[r].pool))]
    BY <1>3, DetectSets
  <2> DEFINE met == PairsWith(c, Prompt(c, run[r].pool))
  <2>3. compared \in [Runs -> SUBSET SUBSET Claims]
    BY DEF IngestTypeOK
  <2>4. compared'[r] = compared[r] \cup met /\ \A s \in Runs \ {r} : compared'[s] = compared[s]
    <3> HIDE DEF met
    <3>1. compared' = [compared EXCEPT ![r] = @ \cup met]
      BY <2>2 DEF met
    <3> QED
      BY <2>3, <3>1
  <2>5. PICK p \in AllProposed : run[r].cur = {p}
    BY <1>0, <2>1 DEF Planned
  <2>6. c = p.claim
    BY <2>5 DEF ClaimsOf
  <2>7. run[r].pool \subseteq Due(run[r])
    BY <1>0 DEF Planned
  <2>8. compared[r] \subseteq compared'[r] /\ met \subseteq compared'[r]
    BY <2>4
  <2>9. Compared(Examined(run[r], rows), compared'[r])
    <3>1. run[r] \in RunState /\ Compared(run[r], compared[r])
      BY <1>0
    <3> QED
      BY <2>5, <2>6, <2>7, <2>8, <3>1, ExaminedCompared
  <2> QED
    BY <2>1, <2>2, <2>4, <2>9, ComparedOfTheOthers
<1>4. ASSUME NEW r \in Runs, DetectRaises(r) \/ Die(r)
      PROVE  AllCompared'
  <2>1. /\ \A s \in Runs \ {r} : run'[s] = run[s]
        /\ run'[r] = Ended(run[r]) /\ compared' = compared
    BY <1>4, EndSets
  <2>2. Ended(run[r]).pool = {}
    BY <1>0, EndedFields
  <2>3. Compared(run'[r], compared'[r])
    BY <2>1, <2>2, NoneCompared
  <2> QED
    BY <2>1, <2>3, ComparedOfTheOthers
<1>5. ASSUME NEW r \in Runs, NEW k \in run[r].found, RecordRow(r, k)
      PROVE  AllCompared'
  <2>1. (\A s \in Runs \ {r} : run'[s] = run[s]) /\ run'[r] = Written(run[r], k)
    BY <1>5, RestSets
  <2>2. LET s == Written(run[r], k)
        IN  s.pc = run[r].pc /\ s.docs = run[r].docs /\ s.pool = run[r].pool /\ s.cur = run[r].cur
    BY <1>0, WrittenFields
  <2>3. compared' = compared
    BY <1>5 DEF RecordRow
  <2>4. Compared(run'[r], compared'[r])
    BY <1>0, <2>1, <2>2, <2>3, SameCompared
  <2> QED
    BY <2>1, <2>3, <2>4, ComparedOfTheOthers
<1>6. ASSUME NEW r \in Runs, Pooled(r)
      PROVE  AllCompared'
  <2>1. (\A s \in Runs \ {r} : run'[s] = run[s]) /\ run'[r] = PutInPool(run[r])
    BY <1>6, RestSets
  <2>2. run[r].pc = "record" /\ compared' = compared
    BY <1>6 DEF Pooled
  <2>3. PICK p \in AllProposed : run[r].cur = {p}
    BY <1>0, <2>2 DEF Planned
  <2>4. run[r].pool \subseteq Due(run[r]) /\ p \in Due(run[r])
    BY <1>0, <2>3 DEF Planned
  <2>5. Compared(run'[r], compared'[r])
    BY <1>0, <2>1, <2>2, <2>3, <2>4, PooledCompared
  <2> QED
    BY <2>1, <2>2, <2>5, ComparedOfTheOthers
<1>7. ASSUME NEW r \in Runs, Propose(r)
      PROVE  AllCompared'
  <2>1. (\A s \in Runs \ {r} : run'[s] = run[s]) /\ run'[r] = Proposing(run[r])
    BY <1>7, RestSets
  <2>2. LET s == Proposing(run[r])
        IN  s.pc = "link" /\ s.docs = run[r].docs /\ s.pool = run[r].pool
    BY <1>0, ProposingFields
  <2>3. compared' = compared
    BY <1>7 DEF Propose
  <2>4. Compared(run'[r], compared'[r])
    BY <1>0, <2>1, <2>2, <2>3, SameCompared
  <2> QED
    BY <2>1, <2>3, <2>4, ComparedOfTheOthers
<1>8. ASSUME NEW r \in Runs, NEW e \in run[r].edges, Link(r, e)
      PROVE  AllCompared'
  <2>1. (\A s \in Runs \ {r} : run'[s] = run[s]) /\ run'[r] = Linking(run[r], e)
    BY <1>8, RestSets
  <2>2. LET s == Linking(run[r], e)
        IN  s.pc = run[r].pc /\ s.docs = run[r].docs /\ s.pool = run[r].pool /\ s.cur = run[r].cur
    BY <1>0, LinkingFields
  <2>3. compared' = compared
    BY <1>8 DEF Link
  <2>4. Compared(run'[r], compared'[r])
    BY <1>0, <2>1, <2>2, <2>3, SameCompared
  <2> QED
    BY <2>1, <2>3, <2>4, ComparedOfTheOthers
<1>9. ASSUME NEW r \in Runs, Finish(r)
      PROVE  AllCompared'
  <2>1. (\A s \in Runs \ {r} : run'[s] = run[s]) /\ run'[r] = Finished(run[r])
    BY <1>9, RestSets
  <2>2. LET s == Finished(run[r])
        IN  s.pc = "done" /\ s.docs = run[r].docs /\ s.pool = run[r].pool
    BY <1>0, FinishedFields
  <2>3. compared' = compared
    BY <1>9 DEF Finish
  <2>4. Compared(run'[r], compared'[r])
    BY <1>0, <2>1, <2>2, <2>3, SameCompared
  <2> QED
    BY <2>1, <2>3, <2>4, ComparedOfTheOthers
<1>10. CASE UNCHANGED vars
  BY <1>10 DEF vars, AllCompared
<1>11. CASE Next
  BY <1>1, <1>2, <1>3, <1>4, <1>5, <1>6, <1>7, <1>8, <1>9, <1>11 DEF Next
<1> QED
  BY <1>10, <1>11

LEMMA ComparedInit == Init => AllCompared
<1> SUFFICES ASSUME Init, NEW r \in Runs PROVE Compared(run[r], compared[r])
  BY DEF AllCompared
<1>1. run[r].pool = {}
  BY DEF Init, Idle
<1> QED
  BY <1>1, NoneCompared

-----------------------------------------------------------------------------
(* The theorems.                                                           *)

LEMMA IngestInvariant == Spec => []IngestInv
<1>1. Init => IngestInv
  BY IngestTypeInit, BooksInit, LogFromInit, ComparedInit DEF IngestInv
<1>2. IngestInv /\ [Next]_vars => IngestInv'
  BY IngestTypeStep, BooksStep, LogFromStep, ComparedStep DEF IngestInv
<1> QED
  BY <1>1, <1>2, PTL DEF Spec

LEMMA StartedHaveDocuments ==
  ASSUME IngestTypeOK, NEW r \in Started
  PROVE  run[r].docs \in Corpora /\ run[r].docs \in SUBSET Files /\ run[r] \in RunState
<1>1. r \in Runs /\ run[r].pc # "idle"
  BY DEF Started
<1> QED
  BY <1>1, RunTyped

LEMMA GroundedFromTheRuns == IngestTypeOK /\ LogFromRuns => GroundedInSource
<1> SUFFICES ASSUME IngestTypeOK, LogFromRuns PROVE GroundedInSource
  OBVIOUS
<1>1. ASSUME NEW e \in Asserted
      PROVE  /\ \E r \in Started : e.file \in run[r].docs
             /\ Cites[e.claim].loc \in Locators(e.file) /\ QuoteGrounded(e.claim)
             /\ e.file = Cites[e.claim].file
             /\ \E ch \in Chunks[e.file] : ch.first = e.chunk /\ Cites[e.claim].loc \in LocatorsOf(ch)
  <2>1. PICK docs \in {run[r].docs : r \in Started} :
          \E p \in Proposed(ChunksOf(docs)) : e = AssertedEvent(p.claim, p.chunk)
    BY Zenon DEF Asserted, LogFromRuns, LogFrom
  <2>2. PICK p \in Proposed(ChunksOf(docs)) : e = AssertedEvent(p.claim, p.chunk)
    BY <2>1
  <2>3. docs \in SUBSET Files
    BY StartedHaveDocuments
  <2>4. e.claim = p.claim /\ e.file = p.chunk.file /\ e.chunk = p.chunk.first
    BY <2>2 DEF AssertedEvent
  <2>5. /\ p.chunk \in Chunks[p.chunk.file] /\ p.chunk.file \in docs
        /\ Cites[p.claim].file = p.chunk.file
        /\ Cites[p.claim].loc \in LocatorsOf(p.chunk)
        /\ Cites[p.claim].loc \in Locators(p.chunk.file)
        /\ QuoteGrounded(p.claim)
    BY <2>3, ProposedIsGrounded
  <2>6. PICK r \in Started : docs = run[r].docs
    BY <2>1
  <2> QED
    BY <2>4, <2>5, <2>6
<1>2. ASSUME NEW e \in Failures
      PROVE  \E r \in Started : e.file \in run[r].docs \ Registered
  <2>1. e \in Asserted /\ e.file \notin Registered
    BY <1>1 DEF Failures
  <2> QED
    BY <1>1, <2>1
<1> QED
  BY <1>1, <1>2 DEF GroundedInSource

\* Every citation in the log names the document it was read from and a unit that
\* was shown to the model in the chunk it came from, and the audit accepts it
\* unless the run that ended last has not read that document (build_claim's
\* gates, verify_anchors).
THEOREM AlwaysGroundedInSource == Spec => []GroundedInSource
<1>1. IngestInv => GroundedInSource
  BY GroundedFromTheRuns DEF IngestInv
<1> QED
  BY <1>1, IngestInvariant, PTL

LEMMA UndisturbedIs ==
  ASSUME NEW docs \in Corpora
  PROVE  LET got == Proposed(ChunksOf(docs))
         IN  /\ Undisturbed[docs].claims = {AssertedEvent(p.claim, p.chunk) : p \in got}
             /\ Undisturbed[docs].links = {BareLink(docs, e) : e \in Edges(SubjectsOf(got))}
<1>1. Undisturbed[docs] =
        LET got == Proposed(ChunksOf(docs))
        IN  [claims |-> {AssertedEvent(p.claim, p.chunk) : p \in got},
             links |-> {BareLink(docs, e) : e \in Edges(SubjectsOf(got))}]
  BY Zenon DEF Undisturbed, BareLink, SubjectsOf
<1> QED
  BY <1>1

LEMMA DoneIsComplete ==
  ASSUME IngestTypeOK, Books, NEW r \in Done, run[r].lost = {}
  PROVE  /\ \A p \in Due(run[r]) : AssertedEvent(p.claim, p.chunk) \in log
         /\ \A e \in Edges(SubjectsOf(Due(run[r]))) : BareLink(run[r].docs, e) \in BareLinks(log)
         /\ Due(run[r]) \subseteq run[r].pool
<1>1. run[r].pc = "done" /\ r \in Runs
  BY DEF Done
<1>2. run[r].todo = {} /\ run[r].edges = {} /\ run[r].cur = {}
  BY <1>1 DEF Books, BooksOf, LinkedUp, Planned
<1>3. \A p \in Due(run[r]) :
        /\ AssertedEvent(p.claim, p.chunk) \in log
        /\ Attr[p.claim].subject \in run[r].entities
        /\ p \in run[r].pool
  BY <1>1, <1>2 DEF Books, BooksOf, Settled
<1>4. SubjectsOf(Due(run[r])) \subseteq run[r].entities
  BY <1>3 DEF SubjectsOf
<1>5. Edges(SubjectsOf(Due(run[r]))) \subseteq Edges(run[r].entities)
  BY <1>4, EdgesGrow
<1>6. \A e \in Edges(run[r].entities) : BareLink(run[r].docs, e) \in BareLinks(log)
  BY <1>1, <1>2 DEF Books, BooksOf, LinkedUp
<1>7. Due(run[r]) \subseteq run[r].pool
  BY <1>3
<1> QED
  BY <1>3, <1>5, <1>6, <1>7

LEMMA ConvergesFromTheBooks == IngestTypeOK /\ Books /\ LogFromRuns => RetryConverges
<1> SUFFICES ASSUME IngestTypeOK, Books, LogFromRuns PROVE RetryConverges
  OBVIOUS
<1>0. LinksBare = BareLinks(log)
  BY DEF LinksBare, Links, BareLinks
<1>1. ASSUME NEW e \in Asserted
      PROVE  \E r \in Started : e \in Undisturbed[run[r].docs].claims
  <2>1. PICK docs \in {run[r].docs : r \in Started} :
          \E p \in Proposed(ChunksOf(docs)) : e = AssertedEvent(p.claim, p.chunk)
    BY Zenon DEF Asserted, LogFromRuns, LogFrom
  <2>2. PICK r \in Started : docs = run[r].docs
    BY <2>1
  <2>3. docs \in Corpora
    BY <2>2, StartedHaveDocuments
  <2>4. e \in Undisturbed[docs].claims
    BY <2>1, <2>3, UndisturbedIs
  <2> QED
    BY <2>2, <2>4
<1>2. ASSUME NEW l \in BareLinks(log)
      PROVE  \E r \in Started : l \in Undisturbed[run[r].docs].links
  <2>1. PICK docs \in {run[r].docs : r \in Started} :
          \E e \in Edges(SubjectsOf(Proposed(ChunksOf(docs)))) : l = BareLink(docs, e)
    BY Zenon DEF LogFromRuns, LogFrom
  <2>2. PICK r \in Started : docs = run[r].docs
    BY <2>1
  <2>3. docs \in Corpora
    BY <2>2, StartedHaveDocuments
  <2>4. l \in Undisturbed[docs].links
    BY <2>1, <2>3, UndisturbedIs
  <2> QED
    BY <2>2, <2>4
<1>3. ASSUME NEW r \in Done, run[r].lost = {}
      PROVE  /\ Undisturbed[run[r].docs].claims \subseteq Asserted
             /\ Undisturbed[run[r].docs].links \subseteq LinksBare
  <2>1. run[r].docs \in Corpora
    BY StartedHaveDocuments DEF Done, Started
  <2>2. /\ Undisturbed[run[r].docs].claims = {AssertedEvent(p.claim, p.chunk) : p \in Due(run[r])}
        /\ Undisturbed[run[r].docs].links = {BareLink(run[r].docs, e) : e \in Edges(SubjectsOf(Due(run[r])))}
    BY <2>1, UndisturbedIs DEF Due
  <2>3. \A p : AssertedEvent(p.claim, p.chunk) \in log => AssertedEvent(p.claim, p.chunk) \in Asserted
    <3> TAKE p
    <3>1. AssertedEvent(p.claim, p.chunk).type = "claim.asserted"
      BY DEF AssertedEvent
    <3> QED
      BY <3>1 DEF Asserted, OfType
  <2>4. \A p \in Due(run[r]) : AssertedEvent(p.claim, p.chunk) \in Asserted
    BY <1>3, <2>3, DoneIsComplete
  <2>5. \A e \in Edges(SubjectsOf(Due(run[r]))) : BareLink(run[r].docs, e) \in LinksBare
    BY <1>0, <1>3, DoneIsComplete
  <2> QED
    BY <2>2, <2>4, <2>5, Zenon
<1>4. Asserted \subseteq UNION {Undisturbed[run[r].docs].claims : r \in Started}
  BY <1>1
<1>5. LinksBare \subseteq UNION {Undisturbed[run[r].docs].links : r \in Started}
  BY <1>0, <1>2
<1> QED
  BY <1>3, <1>4, <1>5, Zenon DEF RetryConverges

\* Whatever runs died, failed or overlapped, the log has of claims and links what
\* undisturbed runs over the same documents write, and of a run that ended and lost
\* nothing all of it (the pipeline's docstring on idempotence).
THEOREM RetriesConverge == Spec => []RetryConverges
<1>1. IngestInv => RetryConverges
  BY ConvergesFromTheBooks DEF IngestInv
<1> QED
  BY <1>1, IngestInvariant, PTL

LEMMA ComparedWhenDone == IngestTypeOK /\ Books /\ AllCompared => PairsCompared
<1> SUFFICES ASSUME IngestTypeOK, Books, AllCompared, NEW r \in Done, run[r].lost = {}
             PROVE  LET own == Proposed(ChunksOf(run[r].docs))
                    IN  \A c \in ClaimsOf(own) : \A d \in Gated(c, ClaimsOf(own), <<>>) :
                          \/ {c, d} \in compared[r]
                          \/ PlacesBefore(d, c, own) >= MaxRetrieved
                          \/ PlacesBefore(c, d, own) >= MaxRetrieved
  BY Zenon DEF PairsCompared
<1> DEFINE own == Proposed(ChunksOf(run[r].docs))
<1>1. r \in Runs /\ own = Due(run[r])
  BY DEF Done, Due
<1> HIDE DEF own
<1>2. own \subseteq run[r].pool
  BY <1>1, DoneIsComplete
<1>3. \A o, p \in run[r].pool : Met(own, compared[r], o.claim, p.claim)
  BY <1>1 DEF AllCompared, Compared
<1>4. \A c, d \in ClaimsOf(own) : Met(own, compared[r], c, d)
  BY <1>2, <1>3 DEF ClaimsOf
<1>5. \A c \in ClaimsOf(own) : \A d \in Gated(c, ClaimsOf(own), <<>>) : d \in ClaimsOf(own)
  BY DEF Gated, Block
<1>6. \A c \in ClaimsOf(own) : \A d \in Gated(c, ClaimsOf(own), <<>>) :
        \/ {c, d} \in compared[r]
        \/ PlacesBefore(d, c, own) >= MaxRetrieved
        \/ PlacesBefore(c, d, own) >= MaxRetrieved
  BY <1>4, <1>5, Zenon DEF Met
<1> QED
  BY <1>6, Zenon DEF own

\* A run that ended and lost nothing has put every two of its claims that share a
\* block and overlap to the adjudicator, unless other claims, counted as often as
\* its documents give them, take all the places of a prompt before one of the two:
\* its pool is its own, and a claim that was in the log already is detected on again.
THEOREM PairsAlwaysCompared == Spec => []PairsCompared
<1>1. IngestInv => PairsCompared
  BY ComparedWhenDone DEF IngestInv
<1> QED
  BY <1>1, IngestInvariant, PTL

LEMMA EveryEntryFromTheTypes ==
  ASSUME OverlapUnits \in {0, 1}
  PROVE  IngestTypeOK => EveryEntryChunked
<1> SUFFICES ASSUME IngestTypeOK, NEW r \in Started, NEW f \in run[r].docs PROVE WellChunked[f]
  BY DEF EveryEntryChunked
<1>1. f \in Files
  BY StartedHaveDocuments
<1> QED
  BY <1>1, DocumentsAreWellChunked

\* With the overlaps the callers ask for, none or one unit, every entry that says
\* something is in a chunk, and a chunk above the target is a single unit.  With two
\* or more the statement is false: chunk_units then skips a unit after a short chunk.
THEOREM EveryEntryAlwaysChunked ==
  ASSUME OverlapUnits \in {0, 1}
  PROVE  Spec => []EveryEntryChunked
<1>1. IngestTypeOK => EveryEntryChunked
  BY EveryEntryFromTheTypes
<1> QED
  BY <1>1, IngestTypeCorrect, PTL

-----------------------------------------------------------------------------
(* Names.                                                                  *)

\* A name keeps its telling words, and no other.
LEMMA WordsKept ==
  ASSUME NEW n \in Names
  PROVE  ToSet(Normalized(n)) = {n.words[i] : i \in Telling(n)}
<1> DEFINE S == Telling(n)
           f == [i \in S |-> i]
           N == Cardinality(S)
           at(k) == CHOOSE i \in S : Cardinality({j \in S : j < i}) = k - 1
<1>1. n.words \in Seq(ToSet(n.words))
  BY IngestAssumption
<1>2. DOMAIN n.words = 1..Len(n.words) /\ Len(n.words) \in Nat
  BY <1>1
<1>3. S \subseteq 1..Len(n.words)
  BY <1>2 DEF Telling
<1>4. IsFiniteSet(S)
  <2>1. IsFiniteSet(1..Len(n.words))
    BY <1>2, FS_Interval
  <2> HIDE DEF S
  <2> QED
    BY <1>3, <2>1, FS_Subset
<1>5. \A i \in S : f[i] = i /\ i \in Nat
  BY <1>2, <1>3
<1>6. \A i \in S : Lower(S, f, i) = {j \in S : j < i}
  BY <1>5 DEF Lower
<1>7. /\ N \in Nat
      /\ \A k \in 1..N : \E i \in S : Cardinality(Lower(S, f, i)) = k - 1
      /\ \A i \in S : Cardinality(Lower(S, f, i)) + 1 \in 1..N
      /\ \A i, j \in S : Cardinality(Lower(S, f, i)) = Cardinality(Lower(S, f, j)) => i = j
  <2> HIDE DEF S, f
  <2> QED
    BY <1>4, <1>5, PlaceTaken
<1>8. Normalized(n) = [k \in 1..N |-> n.words[at(k)]]
  BY DEF Normalized
<1> HIDE DEF f, N
<1>9. ASSUME NEW k \in 1..N
      PROVE  at(k) \in S /\ Cardinality(Lower(S, f, at(k))) = k - 1
  <2> HIDE DEF S
  <2>1. \E i \in S : Cardinality({j \in S : j < i}) = k - 1
    BY <1>6, <1>7
  <2>2. at(k) \in S /\ Cardinality({j \in S : j < at(k)}) = k - 1
    BY <2>1
  <2> QED
    BY <1>6, <2>2
<1> HIDE DEF S, at
<1>10. ASSUME NEW i \in S
       PROVE  \E k \in 1..N : at(k) = i
  <2>1. PICK k \in 1..N : k = Cardinality(Lower(S, f, i)) + 1
    BY <1>7
  <2>2. Cardinality(Lower(S, f, i)) \in Nat
    <3>1. Lower(S, f, i) \subseteq S
      BY DEF Lower
    <3> QED
      BY <1>4, <3>1, FS_Subset, FS_CardinalityType
  <2>3. Cardinality(Lower(S, f, i)) = k - 1
    BY <2>1, <2>2
  <2> QED
    BY <1>7, <1>9, <2>3
<1>11. ToSet(Normalized(n)) = {n.words[at(k)] : k \in 1..N}
  BY <1>8 DEF ToSet
<1> QED
  BY <1>9, <1>10, <1>11 DEF S

\* Names that are the same without their articles have the same modifiers: none of
\* them is an article.
LEMMA SameNamesAre ==
  ASSUME NEW m \in Names, NEW n \in Names
  PROVE  SameName(m, n) <=> Normalized(m) = Normalized(n) /\ Normalized(m) # <<>>
<1>1. ASSUME NEW k \in Names
      PROVE  Modifiers(k) = ToSet(Normalized(k)) \cap Distinguishing
  <2>1. Stopwords \cap Distinguishing = {}
    BY IngestAssumption
  <2>2. ToSet(k.words) = {k.words[i] : i \in DOMAIN k.words}
    BY DEF ToSet
  <2> QED
    BY <2>1, <2>2, WordsKept DEF Modifiers, Telling
<1>2. Normalized(m) = Normalized(n) => Modifiers(m) = Modifiers(n)
  BY <1>1
<1> QED
  BY <1>2 DEF SameName

LEMMA FullerOrders ==
  /\ \A m \in Names : ~Fuller(m, m)
  /\ \A m, n, k \in Names : Fuller(m, n) /\ Fuller(n, k) => Fuller(m, k)
  /\ \A m, n \in Names : m = n \/ Fuller(m, n) \/ Fuller(n, m)
<1>1. /\ \A n \in Names : n.len \in Int /\ n.rank \in Int
      /\ \A m, n \in Names : m.rank = n.rank => m = n
  BY IngestAssumption
<1>2. \A m \in Names : ~Fuller(m, m)
  BY <1>1 DEF Fuller
<1>3. \A m, n, k \in Names : Fuller(m, n) /\ Fuller(n, k) => Fuller(m, k)
  BY <1>1 DEF Fuller
<1>4. \A m, n \in Names : m = n \/ Fuller(m, n) \/ Fuller(n, m)
  <2> SUFFICES ASSUME NEW m \in Names, NEW n \in Names, m.rank # n.rank
               PROVE  Fuller(m, n) \/ Fuller(n, m)
    BY <1>1
  <2> QED
    BY <1>1 DEF Fuller
<1> QED
  BY <1>2, <1>3, <1>4

-----------------------------------------------------------------------------
(* Following the edges.                                                    *)

Steps(A) == (DOMAIN A \cup {A[a] : a \in DOMAIN A}) \X SUBSET DOMAIN A

GoesOn(A, at) == at[1] \in DOMAIN A \ at[2]

Onward(A, at) == <<A[at[1]], at[2] \cup {at[1]}>>

IsWalk(A, walk) ==
  walk = [at \in Steps(A) |-> IF GoesOn(A, at) THEN walk[Onward(A, at)] ELSE at[1]]

TheWalk(A) == CHOOSE walk : IsWalk(A, walk)

LEMMA CanonicalIs ==
  ASSUME NEW A, NEW x
  PROVE  Canonical(A, x) =
           IF x \in DOMAIN A THEN TheWalk(A)[<<x, {}>>] ELSE x
BY DEF Canonical, TheWalk, IsWalk, Steps, GoesOn, Onward

\* From n edges on there is a walk on, if there are finitely many.
LEMMA WalkExists ==
  ASSUME NEW A, IsFiniteSet(DOMAIN A)
  PROVE  \E walk : IsWalk(A, walk)
<1> DEFINE D == DOMAIN A
           N == Cardinality(D)
           Left(at) == Cardinality(D \ at[2])
           Within(k) == {at \in Steps(A) : Left(at) <= k}
           Partial(w, k) ==
             w = [at \in Within(k) |-> IF GoesOn(A, at) THEN w[Onward(A, at)] ELSE at[1]]
           Bad == {k \in 1..(N + 1) : ~\E w : Partial(w, k - 1)}
<1>1. N \in Nat
  BY FS_CardinalityType
<1>2. ASSUME NEW at \in Steps(A)
      PROVE  /\ Left(at) \in 0..N
             /\ GoesOn(A, at) => Onward(A, at) \in Steps(A) /\ Left(Onward(A, at)) < Left(at)
  <2>1. /\ at = <<at[1], at[2]>> /\ at[2] \in SUBSET D
    BY DEF Steps
  <2>2. /\ IsFiniteSet(D \ at[2]) /\ D \ at[2] \subseteq D
    BY FS_Subset
  <2>3. Left(at) \in 0..N
    <3>1. Cardinality(D \ at[2]) <= Cardinality(D) /\ Cardinality(D \ at[2]) \in Nat
      BY <2>2, FS_Subset, FS_CardinalityType
    <3> QED
      BY <1>1, <3>1
  <2>4. ASSUME GoesOn(A, at)
        PROVE  Onward(A, at) \in Steps(A) /\ Left(Onward(A, at)) < Left(at)
    <3>1. at[1] \in D /\ at[1] \notin at[2]
      BY <2>4 DEF GoesOn
    <3>2. Onward(A, at) \in Steps(A)
      BY <2>1, <3>1 DEF Onward, Steps
    <3>3. Onward(A, at)[2] = at[2] \cup {at[1]}
      BY DEF Onward
    <3>4. D \ Onward(A, at)[2] = (D \ at[2]) \ {at[1]} /\ at[1] \in D \ at[2]
      BY <3>1, <3>3
    <3>5. Cardinality((D \ at[2]) \ {at[1]}) = Cardinality(D \ at[2]) - 1
      <4> DEFINE T == D \ at[2]
      <4>1. IsFiniteSet(T) /\ at[1] \in T
        BY <2>2, <3>4
      <4> HIDE DEF T
      <4>2. Cardinality(T \ {at[1]}) = Cardinality(T) - 1
        BY <4>1, FS_RemoveElement
      <4> QED
        BY <4>2 DEF T
    <3>6. Left(Onward(A, at)) = Left(at) - 1
      BY <3>4, <3>5
    <3> HIDE DEF Left
    <3> QED
      BY <1>1, <2>3, <3>2, <3>6
  <2> HIDE DEF Left
  <2> QED
    BY <2>3, <2>4
<1> HIDE DEF N, Left
<1>3. \E w : Partial(w, 0)
  <2> DEFINE w == [at \in Within(0) |-> at[1]]
  <2>1. \A at \in Within(0) : at \in Steps(A) /\ ~GoesOn(A, at)
    BY <1>1, <1>2
  <2>2. Partial(w, 0)
    <3>1. \A at \in Within(0) : (IF GoesOn(A, at) THEN w[Onward(A, at)] ELSE at[1]) = at[1]
      BY <2>1
    <3> HIDE DEF Within
    <3> QED
      BY <3>1
  <2> HIDE DEF w, Partial
  <2> QED
    BY <2>2
<1>4. ASSUME NEW k \in Nat, NEW v, Partial(v, k)
      PROVE  \E w : Partial(w, k + 1)
  <2> DEFINE w == [at \in Within(k + 1) |-> IF GoesOn(A, at) THEN v[Onward(A, at)] ELSE at[1]]
  <2>1. ASSUME NEW at \in Within(k + 1), GoesOn(A, at)
        PROVE  Onward(A, at) \in Within(k) /\ Onward(A, at) \in Within(k + 1)
    <3>1. /\ at \in Steps(A) /\ Left(at) <= k + 1
      OBVIOUS
    <3>2. /\ Left(at) \in 0..N /\ Onward(A, at) \in Steps(A)
          /\ Left(Onward(A, at)) < Left(at) /\ Left(Onward(A, at)) \in 0..N
      BY <1>2, <2>1, <3>1
    <3>3. Left(Onward(A, at)) <= k /\ Left(Onward(A, at)) <= k + 1
      BY <1>1, <3>1, <3>2
    <3> QED
      BY <3>2, <3>3
  <2>2. \A at \in Within(k) : at \in Within(k + 1) /\ w[at] = v[at]
    <3> SUFFICES ASSUME NEW at \in Within(k) PROVE at \in Within(k + 1) /\ w[at] = v[at]
      OBVIOUS
    <3>1. Left(at) \in Int /\ Left(at) <= k /\ at \in Steps(A)
      BY <1>1, <1>2
    <3>2. at \in Within(k + 1)
      BY <3>1
    <3>3. v[at] = IF GoesOn(A, at) THEN v[Onward(A, at)] ELSE at[1]
      <4> HIDE DEF Within
      <4> QED
        BY <1>4
    <3> HIDE DEF Within
    <3> QED
      BY <3>2, <3>3
  <2>3. \A at \in Within(k + 1) :
          (IF GoesOn(A, at) THEN v[Onward(A, at)] ELSE at[1])
            = IF GoesOn(A, at) THEN w[Onward(A, at)] ELSE at[1]
    <3> HIDE DEF w, Within
    <3> QED
      BY <2>1, <2>2
  <2>4. Partial(w, k + 1)
    <3>1. w = [at \in Within(k + 1) |-> IF GoesOn(A, at) THEN v[Onward(A, at)] ELSE at[1]]
      OBVIOUS
    <3> HIDE DEF w, Within
    <3>2. w = [at \in Within(k + 1) |-> IF GoesOn(A, at) THEN w[Onward(A, at)] ELSE at[1]]
      BY <2>3, <3>1
    <3> QED
      BY <3>2
  <2> HIDE DEF w, Partial
  <2> QED
    BY <2>4
<1> HIDE DEF Partial
<1>5. Bad = {}
  <2> SUFFICES ASSUME Bad # {} PROVE FALSE
    OBVIOUS
  <2>1. N + 1 \in Nat /\ Bad \subseteq 1..(N + 1)
    BY <1>1
  <2>2. Min(Bad) \in Bad /\ \A n \in Bad : Min(Bad) <= n
    <3> HIDE DEF Bad
    <3> QED
      BY <2>1, Extremes
  <2>3. PICK k \in Bad : \A n \in Bad : k <= n
    <3> HIDE DEF Bad
    <3> QED
      BY <2>2
  <2>4. k \in 1..(N + 1) /\ ~\E w : Partial(w, k - 1)
    OBVIOUS
  <2>5. k # 1
    <3> SUFFICES ASSUME k = 1 PROVE FALSE
      OBVIOUS
    <3>1. k - 1 = 0
      OBVIOUS
    <3> QED
      BY <1>3, <2>4, <3>1
  <2>6. k - 1 \in 1..(N + 1) /\ k - 1 \notin Bad /\ k - 2 \in Nat
    <3>1. k \in Int /\ k >= 1 /\ k <= N + 1 /\ N \in Int
      BY <1>1, <2>4
    <3>2. k - 1 \in 1..(N + 1) /\ ~(k <= k - 1) /\ k - 2 \in Nat
      BY <2>5, <3>1
    <3> HIDE DEF Bad
    <3> QED
      BY <2>3, <3>2
  <2>7. \E w : Partial(w, (k - 1) - 1)
    BY <2>6
  <2>8. PICK w : Partial(w, k - 2)
    <3>1. (k - 1) - 1 = k - 2
      BY <2>6
    <3> QED
      BY <2>7, <3>1
  <2>9. \E v : Partial(v, (k - 2) + 1)
    BY <1>4, <2>6, <2>8
  <2>10. (k - 2) + 1 = k - 1
    BY <2>6
  <2> QED
    BY <2>4, <2>9, <2>10
<1>6. \E w : Partial(w, N)
  <2>1. N + 1 \in 1..(N + 1) /\ (N + 1) - 1 = N
    BY <1>1
  <2>2. ~(~\E w : Partial(w, (N + 1) - 1))
    BY <1>5, <2>1
  <2> QED
    BY <2>1, <2>2
<1>7. PICK w : Partial(w, N)
  BY <1>6
<1>8. Within(N) = Steps(A)
  BY <1>1, <1>2
<1>9. IsWalk(A, w)
  <2>1. w = [at \in Within(N) |-> IF GoesOn(A, at) THEN w[Onward(A, at)] ELSE at[1]]
    BY <1>7 DEF Partial
  <2> HIDE DEF Within
  <2> QED
    BY <1>8, <2>1 DEF IsWalk
<1> QED
  BY <1>9

\* Where each edge leads to a fuller form of the same name, the walk ends at a name
\* without an edge, of all those it passes the fullest.
LEMMA WalkEnds ==
  ASSUME NEW A, IsFiniteSet(DOMAIN A), NEW walk, IsWalk(A, walk), NEW E, E \subseteq Names,
         \A a \in DOMAIN A : /\ a \in E /\ A[a] \in E
                             /\ SameName(a, A[a]) /\ Fuller(A[a], a)
  PROVE  \A a \in DOMAIN A : /\ walk[<<a, {}>>] \in E \ DOMAIN A
                             /\ SameName(a, walk[<<a, {}>>])
<1> DEFINE D == DOMAIN A
           Rising(x, T) == <<x, T>> \in Steps(A) /\ x \in E /\ \A t \in T : Fuller(x, t)
           Right(x, T) == /\ walk[<<x, T>>] \in E \ D
                          /\ walk[<<x, T>>] = x \/ SameName(x, walk[<<x, T>>])
           Bad == {T \in SUBSET D : \E x : Rising(x, T) /\ ~Right(x, T)}
           R == {p \in (SUBSET D) \X (SUBSET D) : p[2] \subseteq p[1] /\ p[1] # p[2]}
<1>1. \A x, T : <<x, T>> \in Steps(A) =>
        walk[<<x, T>>] = IF x \in D \ T THEN walk[<<A[x], T \cup {x}>>] ELSE x
  BY DEF IsWalk, GoesOn, Onward
<1>2. \A T, U \in SUBSET D : <<U, T>> \in R <=> T \subseteq U /\ T # U
  OBVIOUS
<1> HIDE DEF R
<1>3. Bad = {}
  <2> SUFFICES ASSUME Bad # {} PROVE FALSE
    OBVIOUS
  <2>1. IsFiniteSet(Bad) /\ Bad \subseteq SUBSET D
    <3>1. IsFiniteSet(SUBSET D) /\ Bad \subseteq SUBSET D
      BY FS_SUBSET
    <3> HIDE DEF Bad
    <3> QED
      BY <3>1, FS_Subset
  <2>2. PICK T \in Bad : \A U \in Bad : <<U, T>> \notin R
    <3> HIDE DEF Bad
    <3>1. \A t \in Bad : <<t, t>> \notin R
      BY <1>2, <2>1
    <3>2. \A t, u, v \in Bad : <<t, u>> \in R /\ <<u, v>> \in R => <<t, v>> \in R
      <4> SUFFICES ASSUME NEW t \in Bad, NEW u \in Bad, NEW v \in Bad,
                          <<t, u>> \in R, <<u, v>> \in R
                   PROVE  <<t, v>> \in R
        OBVIOUS
      <4>1. t \in SUBSET D /\ u \in SUBSET D /\ v \in SUBSET D
        BY <2>1
      <4>2. u \subseteq t /\ u # t /\ v \subseteq u
        BY <1>2, <4>1
      <4>3. v \subseteq t /\ v # t
        BY <4>2
      <4> HIDE DEF D
      <4> QED
        BY <1>2, <4>1, <4>3
    <3>3. \E T \in Bad : \A U \in Bad : <<U, T>> \notin R
      BY <2>1, <3>1, <3>2, SomeMinimal
    <3> QED
      BY <3>3
  <2>3. PICK x : Rising(x, T) /\ ~Right(x, T)
    OBVIOUS
  <2>4. T \in SUBSET D /\ x \in Names
    BY <2>3
  <2>5. CASE x \notin D
    <3>1. walk[<<x, T>>] = x
      BY <1>1, <2>3, <2>5
    <3> QED
      BY <2>3, <2>5, <3>1
  <2>6. CASE x \in D
    <3>1. x \notin T
      BY <2>3, <2>4, FullerOrders
    <3>2. walk[<<x, T>>] = walk[<<A[x], T \cup {x}>>]
      BY <1>1, <2>3, <2>6, <3>1
    <3>3. A[x] \in E /\ SameName(x, A[x]) /\ Fuller(A[x], x) /\ A[x] \in Names
      BY <2>6
    <3>4. \A t \in T \cup {x} : Fuller(A[x], t)
      <4> SUFFICES ASSUME NEW t \in T PROVE Fuller(A[x], t)
        BY <3>3
      <4>1. t \in Names /\ Fuller(x, t)
        BY <2>3, <2>4
      <4> QED
        BY <2>4, <3>3, <4>1, FullerOrders
    <3>5. <<A[x], T \cup {x}>> \in Steps(A)
      BY <2>4, <2>6 DEF Steps
    <3>6. Rising(A[x], T \cup {x})
      BY <3>3, <3>4, <3>5
    <3>7. Right(A[x], T \cup {x})
      <4>1. T \cup {x} \in SUBSET D /\ <<T \cup {x}, T>> \in R
        BY <1>2, <2>4, <2>6, <3>1
      <4>2. T \cup {x} \notin Bad
        BY <2>2, <4>1
      <4> QED
        BY <3>6, <4>1, <4>2
    <3>8. SameName(x, walk[<<x, T>>])
      BY <3>2, <3>3, <3>7 DEF SameName
    <3> QED
      BY <2>3, <3>2, <3>7, <3>8
  <2> QED
    BY <2>5, <2>6
<1>4. ASSUME NEW a \in D
      PROVE  walk[<<a, {}>>] \in E \ D /\ SameName(a, walk[<<a, {}>>])
  <2>1. Rising(a, {})
    BY DEF Steps
  <2>2. Right(a, {})
    BY <1>3, <2>1
  <2> QED
    BY <2>2
<1> HIDE DEF D
<1> QED
  BY <1>4, Zenon DEF D

\* Where the edges are those of some names, two of the names lead to the same one
\* exactly when they are the same without their articles: what either leads to has
\* none that is fuller, and of two names one is.
LEMMA OneNameEach ==
  ASSUME NEW A, IsFiniteSet(DOMAIN A), NEW E, E \subseteq Names,
         \A a \in DOMAIN A : [alias |-> a, canonical |-> A[a]] \in Edges(E),
         \A e \in Edges(E) : e.alias \in DOMAIN A,
         NEW m \in E, NEW n \in E
  PROVE  Canonical(A, m) = Canonical(A, n)
           <=> (m = n \/ (Normalized(m) = Normalized(n) /\ Normalized(m) # <<>>))
<1>1. \A a \in DOMAIN A : /\ a \in E /\ A[a] \in E
                          /\ SameName(a, A[a]) /\ Fuller(A[a], a)
  <2> SUFFICES ASSUME NEW a \in DOMAIN A
               PROVE  a \in E /\ A[a] \in E /\ SameName(a, A[a]) /\ Fuller(A[a], a)
    OBVIOUS
  <2>1. PICK k, l \in E : /\ [alias |-> a, canonical |-> A[a]] = [alias |-> k, canonical |-> l]
                          /\ k # l /\ SameName(k, l) /\ Fuller(l, k)
    BY EdgesAre
  <2>2. a = k /\ A[a] = l
    BY <2>1
  <2> QED
    BY <2>1, <2>2
<1>2. PICK walk : walk = TheWalk(A)
  OBVIOUS
<1>3. IsWalk(A, walk)
  BY <1>2, WalkExists DEF TheWalk
<1>4. ASSUME NEW x \in E
      PROVE  /\ Canonical(A, x) \in E \ DOMAIN A
             /\ Canonical(A, x) = x \/ SameName(x, Canonical(A, x))
  <2>1. Canonical(A, x) = IF x \in DOMAIN A THEN walk[<<x, {}>>] ELSE x
    BY <1>2, CanonicalIs
  <2> QED
    BY <1>1, <1>3, <2>1, WalkEnds
<1>5. ASSUME NEW x \in E \ DOMAIN A, NEW y \in E \ DOMAIN A, SameName(x, y)
      PROVE  x = y
  <2> SUFFICES ASSUME x # y PROVE FALSE
    OBVIOUS
  <2>1. SameName(y, x) /\ (Fuller(x, y) \/ Fuller(y, x))
    BY <1>5, FullerOrders DEF SameName
  <2>2. \/ [alias |-> y, canonical |-> x] \in Edges(E)
        \/ [alias |-> x, canonical |-> y] \in Edges(E)
    BY <1>5, <2>1, EdgesAre
  <2> QED
    BY <2>2
<1>6. PICK c \in E \ DOMAIN A : c = Canonical(A, m) /\ (c = m \/ SameName(m, c))
  BY <1>4
<1>7. PICK d \in E \ DOMAIN A : d = Canonical(A, n) /\ (d = n \/ SameName(n, d))
  BY <1>4
<1>8. SameName(m, n) <=> Normalized(m) = Normalized(n) /\ Normalized(m) # <<>>
  BY SameNamesAre
<1>9. c = d => m = n \/ SameName(m, n)
  BY <1>6, <1>7 DEF SameName
<1>10. SameName(m, n) => c = d
  <2> SUFFICES ASSUME SameName(m, n) PROVE c = d
    OBVIOUS
  <2>1. SameName(c, d)
    BY <1>6, <1>7 DEF SameName
  <2> QED
    BY <1>5, <2>1
<1>11. m = n => c = d
  BY <1>6, <1>7
<1> QED
  BY <1>6, <1>7, <1>8, <1>9, <1>10, <1>11

-----------------------------------------------------------------------------
(* The links in the log.                                                   *)

\* The newest of some documents has an instant.
LEMMA NewestIsAnInstant ==
  ASSUME NEW docs \in Corpora
  PROVE  NewestOf(docs) \in Int
<1> DEFINE S == ToSet(Manifest)
           T == {WrittenAt[f] : f \in docs}
           More == {p \in T \X T : p[1] > p[2]}
<1>1. IsFiniteSet(S)
  BY ManifestFinite
<1>2. PICK specs \in SUBSET S : specs # {} /\ docs = {e.file : e \in specs}
  BY DEF Corpora, Specs, Loadable
<1>3. \A f \in docs : f \in Files /\ WrittenAt[f] \in Int
  <2> SUFFICES ASSUME NEW f \in docs PROVE f \in Files /\ WrittenAt[f] \in Int
    OBVIOUS
  <2>1. f \in Files /\ PerDay \in Nat
    BY CorporaOfFiles, IngestAssumption
  <2>2. PICK e \in S : e = CHOOSE x \in S : x.file = f
    <3>1. \E x \in S : x.file = f
      BY <2>1, IngestAssumption
    <3> HIDE DEF S
    <3> QED
      BY <3>1
  <2>3. e.written.form \in {"date", "offset"} /\ e.written.n \in Int
    BY IngestAssumption
  <2>4. WrittenAt[f] = Millis(e.written)
    BY <2>1, <2>2 DEF WrittenAt
  <2> QED
    BY <2>1, <2>3, <2>4 DEF Millis
<1>4. IsFiniteSet(T) /\ T # {} /\ T \subseteq Int
  <2>1. IsFiniteSet(specs)
    <3> HIDE DEF S
    <3> QED
      BY <1>1, FS_Subset
  <2> DEFINE at == [e \in specs |-> WrittenAt[e.file]]
  <2>2. at \in Surjection(specs, T)
    BY <1>2 DEF Surjection
  <2>3. T # {} /\ T \subseteq Int
    BY <1>2, <1>3
  <2> HIDE DEF T, at
  <2> QED
    BY <2>1, <2>2, <2>3, FS_Surjection
<1>5. \A m, n \in T : <<m, n>> \in More <=> m > n
  OBVIOUS
<1> HIDE DEF T, More
<1>6. PICK z \in T : \A y \in T : <<y, z>> \notin More
  <2>1. /\ \A t \in T : <<t, t>> \notin More
        /\ \A t, u, v \in T : <<t, u>> \in More /\ <<u, v>> \in More => <<t, v>> \in More
    BY <1>4, <1>5
  <2> QED
    BY <1>4, <2>1, SomeMinimal
<1>7. z \in T /\ \A y \in T : z >= y
  <2> SUFFICES ASSUME NEW y \in T PROVE z >= y
    OBVIOUS
  <2>1. ~(y > z) /\ y \in Int /\ z \in Int
    BY <1>4, <1>5, <1>6
  <2> QED
    BY <2>1
<1>8. Max(T) \in T
  BY <1>7 DEF Max
<1> QED
  BY <1>4, <1>8 DEF NewestOf, T

\* The log is finite, and of two edges of one name the fold knows the later: they
\* are dated differently or have ids of their own.
LinksOrdered(L) ==
  /\ IsFiniteSet(L)
  /\ \A l \in OfType(L, {"entity.alias_linked"}) : l.at \in Int /\ l.h \in Int
  /\ \A l, k \in OfType(L, {"entity.alias_linked"}) :
       l.alias = k.alias /\ l.at = k.at /\ l.h = k.h => l = k

OrderedLinks == LinksOrdered(log)

LEMMA LinkedApart ==
  ASSUME NEW r, NEW e, NEW l \in LinkedEvents(r, e)
  PROVE  /\ l.h \in LinkIds
         /\ \/ l \in log
            \/ \A k \in OfType(log, {"entity.alias_linked"}) :
                 k.alias = l.alias /\ k.at = l.at => k.h # l.h
<1> DEFINE linked(h) == [type |-> "entity.alias_linked", at |-> AliasInstant(r), h |-> h,
                         alias |-> e.alias, canonical |-> e.canonical]
           written == {linked(h) : h \in LinkIds} \cap log
           rivals == {k \in log : k.type = "entity.alias_linked" /\ k.alias = e.alias}
<1>1. LinkedEvents(r, e) =
        IF written # {} THEN written
        ELSE {linked(h) : h \in {i \in LinkIds : \A k \in rivals : k.at = AliasInstant(r) => k.h # i}}
  BY Zenon DEF LinkedEvents
<1>2. CASE written # {}
  BY <1>1, <1>2
<1>3. CASE written = {}
  <2>1. PICK h \in LinkIds : l = linked(h) /\ \A k \in rivals : k.at = AliasInstant(r) => k.h # h
    BY <1>1, <1>3
  <2>2. l.h = h /\ l.at = AliasInstant(r) /\ l.alias = e.alias
    BY <2>1
  <2> QED
    BY <2>1, <2>2 DEF OfType
<1> QED
  BY <1>2, <1>3

LEMMA OrderedAfter ==
  ASSUME NEW L, LinksOrdered(L), NEW e,
         e.type = "entity.alias_linked" =>
           /\ e.at \in Int /\ e.h \in Int
           /\ \/ e \in L
              \/ \A k \in OfType(L, {"entity.alias_linked"}) :
                   k.alias = e.alias /\ k.at = e.at => k.h # e.h
  PROVE  LinksOrdered(L \cup {e})
<1>1. IsFiniteSet(L \cup {e})
  BY FS_AddElement DEF LinksOrdered
<1>2. OfType(L \cup {e}, {"entity.alias_linked"})
        = OfType(L, {"entity.alias_linked"})
            \cup (IF e.type = "entity.alias_linked" THEN {e} ELSE {})
  BY DEF OfType
<1>3. e \in L /\ e.type = "entity.alias_linked" => e \in OfType(L, {"entity.alias_linked"})
  BY DEF OfType
<1> QED
  BY <1>1, <1>2, <1>3 DEF LinksOrdered

LEMMA OrderedStep ==
  ASSUME IngestTypeOK, OrderedLinks, [Next]_vars
  PROVE  OrderedLinks'
<1>1. ASSUME NEW r \in Runs, NEW e \in run[r].edges, Link(r, e)
      PROVE  LinksOrdered(log')
  <2>1. PICK l \in LinkedEvents(r, e) : log' = log \cup {l}
    BY <1>1 DEF Link
  <2>2. run[r].docs \in Corpora
    BY <1>1, StartedHaveDocuments DEF Link, Started
  <2>3. l.at \in Int
    BY <2>2, LinkedAre, NewestIsAnInstant
  <2>4. l.h \in Int
    BY LinkedApart, IngestAssumption
  <2>5. \/ l \in log
        \/ \A k \in OfType(log, {"entity.alias_linked"}) : k.alias = l.alias /\ k.at = l.at => k.h # l.h
    BY LinkedApart
  <2>6. LinksOrdered(log \cup {l})
    BY <2>3, <2>4, <2>5, OrderedAfter DEF OrderedLinks
  <2> QED
    BY <2>1, <2>6
<1>2. ASSUME NEW new, log' = log \cup {new}, new.type # "entity.alias_linked"
      PROVE  LinksOrdered(log')
  <2>1. LinksOrdered(log \cup {new})
    BY <1>2, OrderedAfter DEF OrderedLinks
  <2> QED
    BY <1>2, <2>1
<1>3. ASSUME NEW r \in Runs, NEW p \in NextIn(run[r].todo), AppendClaim(r, p)
      PROVE  LinksOrdered(log')
  <2>1. PICK new : new = AssertedEvent(p.claim, p.chunk)
    OBVIOUS
  <2>2. log' = log \cup {new} /\ new.type # "entity.alias_linked"
    BY <1>3, <2>1 DEF AppendClaim, AssertedEvent
  <2> QED
    BY <1>2, <2>2
<1>4. ASSUME NEW r \in Runs, NEW k \in run[r].found, RecordRow(r, k)
      PROVE  LinksOrdered(log')
  <2>1. PICK new : new = DetectedEvent(r, k)
    OBVIOUS
  <2>2. log' = log \cup {new} /\ new.type # "entity.alias_linked"
    BY <1>4, <2>1 DEF RecordRow, DetectedEvent
  <2> QED
    BY <1>2, <2>2
<1>5. \A r \in Runs :
        /\ \A docs \in Corpora : Extract(r, docs) => log' = log
        /\ DetectOnWrite(r) \/ DetectRaises(r) \/ Die(r) => log' = log
        /\ Pooled(r) \/ Propose(r) \/ Finish(r) => log' = log
  <2>1. \A r \in Runs : \A docs \in Corpora : Extract(r, docs) => log' = log
    BY Zenon DEF Extract
  <2>2. \A r \in Runs : DetectOnWrite(r) \/ DetectRaises(r) \/ Die(r) => log' = log
    BY Zenon DEF DetectOnWrite, DetectRaises, Die
  <2>3. \A r \in Runs : Pooled(r) \/ Propose(r) \/ Finish(r) => log' = log
    BY Zenon DEF Pooled, Propose, Finish
  <2> QED
    BY <2>1, <2>2, <2>3
<1>6. ASSUME log' = log
      PROVE  LinksOrdered(log')
  BY <1>6 DEF OrderedLinks
<1>7. CASE UNCHANGED vars
  BY <1>6, <1>7 DEF vars, OrderedLinks
<1>8. CASE Next
  BY <1>1, <1>3, <1>4, <1>5, <1>6, <1>8 DEF Next, OrderedLinks
<1> QED
  BY <1>7, <1>8

LEMMA OrderedInit == Init => OrderedLinks
BY FS_EmptySet DEF Init, OrderedLinks, LinksOrdered, OfType

LEMMA LatestOf ==
  ASSUME NEW S, IsFiniteSet(S), S # {}, \A l \in S : l.at \in Int /\ l.h \in Int,
         \A l, k \in S : l.at = k.at /\ l.h = k.h => l = k
  PROVE  \E l \in S : IsLatest(l, S)
<1> DEFINE R == {p \in S \X S : Before(p[2], p[1])}
<1>1. \A l, k \in S : <<l, k>> \in R <=> Before(k, l)
  OBVIOUS
<1>2. /\ \A l \in S : ~Before(l, l)
      /\ \A j, k, l \in S : Before(k, j) /\ Before(l, k) => Before(l, j)
      /\ \A k, l \in S : k = l \/ Before(k, l) \/ Before(l, k)
  BY DEF Before
<1> HIDE DEF R
<1>3. PICK l \in S : \A k \in S : <<k, l>> \notin R
  <2>1. /\ \A t \in S : <<t, t>> \notin R
        /\ \A t, u, v \in S : <<t, u>> \in R /\ <<u, v>> \in R => <<t, v>> \in R
    BY <1>1, <1>2
  <2> QED
    BY <2>1, SomeMinimal
<1>4. \A k \in S : k = l \/ Before(k, l)
  BY <1>1, <1>2, <1>3
<1> QED
  BY <1>4 DEF IsLatest

\* Of the edges of a name one is the latest.
LEMMA LatestLink ==
  ASSUME OrderedLinks, NEW a, {l \in Links : l.alias = a} # {}
  PROVE  \E l \in {l \in Links : l.alias = a} : IsLatest(l, {k \in Links : k.alias = a})
<1>1. PICK S : S = {l \in Links : l.alias = a}
  OBVIOUS
<1>2. /\ IsFiniteSet(log) /\ S \subseteq log
      /\ \A l \in S : l.at \in Int /\ l.h \in Int
      /\ \A l, k \in S : l.at = k.at /\ l.h = k.h => l = k
  BY <1>1 DEF OrderedLinks, LinksOrdered, Links, OfType
<1>3. IsFiniteSet(S) /\ S # {}
  BY <1>1, <1>2, FS_Subset
<1>4. \E l \in S : IsLatest(l, S)
  BY <1>2, <1>3, LatestOf
<1> QED
  BY <1>1, <1>4

\* The fold has an edge for each name that is linked, and it is one of the log.
LEMMA AliasesAreLinks ==
  ASSUME OrderedLinks
  PROVE  /\ DOMAIN Aliases(log) = {l.alias : l \in Links}
         /\ IsFiniteSet(DOMAIN Aliases(log))
         /\ \A a \in DOMAIN Aliases(log) :
              \E l \in Links : l.alias = a /\ l.canonical = Aliases(log)[a]
<1> DEFINE D == {l.alias : l \in Links}
           own(a) == {l \in Links : l.alias = a}
<1>1. Aliases(log) = [a \in D |-> (CHOOSE l \in own(a) : IsLatest(l, own(a))).canonical]
  BY DEF Aliases, Links
<1>2. IsFiniteSet(D)
  <2> DEFINE alias == [l \in Links |-> l.alias]
  <2>1. IsFiniteSet(Links)
    <3>1. IsFiniteSet(log) /\ Links \subseteq log
      BY DEF OrderedLinks, LinksOrdered, Links, OfType
    <3> QED
      BY <3>1, FS_Subset
  <2>2. alias \in Surjection(Links, D)
    BY DEF Surjection
  <2> HIDE DEF D, alias
  <2> QED
    BY <2>1, <2>2, FS_Surjection
<1>3. ASSUME NEW a \in D
      PROVE  \E l \in Links : l.alias = a /\ l.canonical = Aliases(log)[a]
  <2>1. PICK S : S = own(a)
    OBVIOUS
  <2>2. S # {}
    BY <2>1
  <2>3. \E l \in S : IsLatest(l, S)
    BY <2>1, <2>2, LatestLink
  <2>4. PICK l \in S : l = CHOOSE k \in S : IsLatest(k, S)
    BY <2>3
  <2>5. Aliases(log)[a] = l.canonical
    <3> HIDE DEF own, D
    <3> QED
      BY <1>1, <2>1, <2>4
  <2>6. l \in Links /\ l.alias = a
    BY <2>1
  <2> QED
    BY <2>5, <2>6
<1> HIDE DEF own
<1> QED
  BY <1>1, <1>2, <1>3

LEMMA OneIdentityFromTheLinks ==
  IngestTypeOK /\ Books /\ LogFromRuns /\ OrderedLinks => OneIdentity
<1> SUFFICES ASSUME IngestTypeOK, Books, LogFromRuns, OrderedLinks, NEW r \in Done, run[r].lost = {},
                    \A s \in Started : run[s].docs \subseteq run[r].docs,
                    NEW m \in run[r].entities, NEW n \in run[r].entities
             PROVE  Canonical(Aliases(log), m) = Canonical(Aliases(log), n) <=>
                      (m = n \/ (Normalized(m) = Normalized(n) /\ Normalized(m) # <<>>))
  BY DEF OneIdentity
<1> DEFINE E == SubjectsOf(Due(run[r]))
           A == Aliases(log)
<1>1. r \in Runs /\ run[r] \in RunState /\ run[r].docs \in Corpora
  BY StartedHaveDocuments DEF Done, Started
<1>2. run[r].entities \subseteq E
  BY <1>1 DEF Books, BooksOf, Planned
<1>3. E \subseteq Names
  <2>1. \A p \in Due(run[r]) : p.claim \in Claims
    BY <1>1, CorporaOfFiles, ProposedIsGrounded DEF Due
  <2> QED
    BY <2>1, IngestAssumption DEF SubjectsOf
<1>4. ASSUME NEW l \in Links
      PROVE  [alias |-> l.alias, canonical |-> l.canonical] \in Edges(E)
  <2> DEFINE bare == [at |-> l.at, alias |-> l.alias, canonical |-> l.canonical]
  <2>1. bare \in BareLinks(log)
    BY DEF BareLinks, Links
  <2>2. PICK docs \in {run[s].docs : s \in Started} :
          \E e \in Edges(SubjectsOf(Proposed(ChunksOf(docs)))) : bare = BareLink(docs, e)
    <3> HIDE DEF bare
    <3> QED
      BY <2>1, Zenon DEF LogFromRuns, LogFrom
  <2>3. PICK e \in Edges(SubjectsOf(Proposed(ChunksOf(docs)))) : bare = BareLink(docs, e)
    BY <2>2
  <2>4. docs \subseteq run[r].docs
    OBVIOUS
  <2>5. SubjectsOf(Proposed(ChunksOf(docs))) \subseteq E
    <3>1. ChunksOf(docs) \subseteq ChunksOf(run[r].docs)
      BY <2>4 DEF ChunksOf
    <3>2. Proposed(ChunksOf(docs)) \subseteq Due(run[r])
      BY <3>1, ProposedGrows DEF Due
    <3> QED
      BY <3>2 DEF SubjectsOf
  <2>6. e \in Edges(E)
    <3> HIDE DEF E
    <3> QED
      BY <2>5, EdgesGrow
  <2>7. l.alias = e.alias /\ l.canonical = e.canonical
    BY <2>3 DEF BareLink
  <2>8. e = [alias |-> e.alias, canonical |-> e.canonical]
    <3> HIDE DEF E
    <3>1. PICK k, j \in E : e = [alias |-> k, canonical |-> j]
      BY <2>6, EdgesAre
    <3> QED
      BY <3>1
  <2> QED
    BY <2>6, <2>7, <2>8
<1>5. ASSUME NEW e \in Edges(E)
      PROVE  e.alias \in {l.alias : l \in Links}
  <2>1. BareLink(run[r].docs, e) \in BareLinks(log)
    BY DoneIsComplete
  <2>2. PICK l \in Links :
          BareLink(run[r].docs, e) = [at |-> l.at, alias |-> l.alias, canonical |-> l.canonical]
    BY <2>1 DEF BareLinks, Links
  <2>3. e.alias = l.alias
    BY <2>2 DEF BareLink
  <2> QED
    BY <2>3
<1> HIDE DEF E
<1>6. IsFiniteSet(DOMAIN A)
  BY AliasesAreLinks
<1>7. \A a \in DOMAIN A : [alias |-> a, canonical |-> A[a]] \in Edges(E)
  <2> SUFFICES ASSUME NEW a \in DOMAIN A PROVE [alias |-> a, canonical |-> A[a]] \in Edges(E)
    OBVIOUS
  <2>1. PICK l \in Links : l.alias = a /\ l.canonical = A[a]
    BY AliasesAreLinks
  <2> HIDE DEF A
  <2> QED
    BY <1>4, <2>1
<1>8. \A e \in Edges(E) : e.alias \in DOMAIN A
  BY <1>5, AliasesAreLinks
<1> HIDE DEF A
<1>9. m \in E /\ n \in E
  BY <1>2
<1>10. Canonical(A, m) = Canonical(A, n) <=>
         (m = n \/ (Normalized(m) = Normalized(n) /\ Normalized(m) # <<>>))
  BY <1>3, <1>6, <1>7, <1>8, <1>9, OneNameEach
<1> QED
  BY <1>10 DEF A

\* Once a run that lost nothing has ended over documents that include those of all
\* the others, two of its names are one entity exactly when they are the same without
\* their articles: whatever number of forms a name has, whichever runs linked them,
\* and in whatever order the edges came, the edges lead to one form and never in a
\* circle, and no name with another modifier is drawn in (entities.py, _order;
\* graph.py, resolve_entity).
THEOREM OneIdentityAlways == Spec => []OneIdentity
<1>1. Init => OrderedLinks
  BY OrderedInit
<1>2. IngestTypeOK /\ OrderedLinks /\ [Next]_vars => OrderedLinks'
  BY OrderedStep
<1>3. Spec => []OrderedLinks
  BY <1>1, <1>2, IngestTypeCorrect, PTL DEF Spec
<1>4. IngestInv /\ OrderedLinks => OneIdentity
  BY OneIdentityFromTheLinks DEF IngestInv
<1> QED
  BY <1>3, <1>4, IngestInvariant, PTL

=============================================================================
