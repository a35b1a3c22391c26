----------------------- MODULE InterviewService_proofs -----------------------
(***************************************************************************)
(* For any number of requests, instances, threads and events: what the     *)
(* sessions of the interview service keep in the log, what is asked again, *)
(* where an answer is filed, and what a read of the cached state returns   *)
(* after a write.                                                          *)
(***************************************************************************)
EXTENDS SessionTurns, StateCache, FiniteSetTheorems, SequenceTheorems, TLAPS

-----------------------------------------------------------------------------
(* Finite sets in a strict linear order.                                   *)

StrictLinear(R, S) ==
  /\ \A t \in S : <<t, t>> \notin R
  /\ \A t, u, v \in S : <<t, u>> \in R /\ <<u, v>> \in R => <<t, v>> \in R
  /\ \A t, u \in S : t # u => <<t, u>> \in R \/ <<u, t>> \in R

Below(R, S, t) == {u \in S : <<u, t>> \in R}

\* Who comes before another has fewer before it.
LEMMA FewerBelow ==
  ASSUME NEW S, IsFiniteSet(S), NEW R, StrictLinear(R, S),
         NEW t \in S, NEW u \in S, <<t, u>> \in R
  PROVE  /\ Cardinality(Below(R, S, t)) \in Nat
         /\ Cardinality(Below(R, S, u)) \in Nat
         /\ Cardinality(Below(R, S, t)) < Cardinality(Below(R, S, u))
         /\ Cardinality(Below(R, S, u)) < Cardinality(S)
<1>1. Below(R, S, t) \subseteq Below(R, S, u) /\ t \in Below(R, S, u) /\ t \notin Below(R, S, t)
  BY DEF StrictLinear, Below
<1>2. Below(R, S, u) \subseteq S /\ u \notin Below(R, S, u)
  BY DEF StrictLinear, Below
<1>3. IsFiniteSet(Below(R, S, u)) /\ Cardinality(Below(R, S, u)) <= Cardinality(S)
      /\ Cardinality(Below(R, S, u)) # Cardinality(S)
  BY <1>2, FS_Subset
<1>4. IsFiniteSet(Below(R, S, t)) /\ Cardinality(Below(R, S, t)) <= Cardinality(Below(R, S, u))
      /\ Cardinality(Below(R, S, t)) # Cardinality(Below(R, S, u))
  BY <1>1, <1>3, FS_Subset
<1>5. /\ Cardinality(Below(R, S, t)) \in Nat /\ Cardinality(Below(R, S, u)) \in Nat
      /\ Cardinality(S) \in Nat
  BY <1>3, <1>4, FS_CardinalityType
<1> QED
  BY <1>3, <1>4, <1>5

\* Every place is taken, and by one element.
LEMMA Places ==
  ASSUME NEW S, IsFiniteSet(S), NEW R, StrictLinear(R, S)
  PROVE  /\ Cardinality(S) \in Nat
         /\ \A t \in S : Cardinality(Below(R, S, t)) + 1 \in 1..Cardinality(S)
         /\ \A n \in 1..Cardinality(S) : \E t \in S : Cardinality(Below(R, S, t)) = n - 1
         /\ \A t, u \in S : Cardinality(Below(R, S, t)) = Cardinality(Below(R, S, u)) => t = u
<1> DEFINE N == Cardinality(S)
           place == [t \in S |-> Cardinality(Below(R, S, t)) + 1]
<1>1. N \in Nat
  BY FS_CardinalityType
<1>2. ASSUME NEW t \in S
      PROVE  Cardinality(Below(R, S, t)) \in Nat /\ Cardinality(Below(R, S, t)) < N
  <2>1. Below(R, S, t) \subseteq S /\ t \notin Below(R, S, t)
    BY DEF StrictLinear, Below
  <2>2. IsFiniteSet(Below(R, S, t)) /\ Cardinality(Below(R, S, t)) <= N
        /\ Cardinality(Below(R, S, t)) # N
    BY <2>1, FS_Subset
  <2> QED
    BY <2>2, <1>1, FS_CardinalityType
<1>3. \A t, u \in S : Cardinality(Below(R, S, t)) = Cardinality(Below(R, S, u)) => t = u
  <2> SUFFICES ASSUME NEW t \in S, NEW u \in S, t # u
               PROVE  Cardinality(Below(R, S, t)) # Cardinality(Below(R, S, u))
    OBVIOUS
  <2>1. <<t, u>> \in R \/ <<u, t>> \in R
    BY DEF StrictLinear
  <2> QED
    BY <2>1, <1>2, FewerBelow
<1>4. place \in [S -> 1..N]
  BY <1>1, <1>2
<1>5. place \in Injection(S, 1..N)
  BY <1>2, <1>3, <1>4 DEF Injection, IsInjective
<1>6. IsFiniteSet(1..N) /\ Cardinality(1..N) = N
  BY <1>1, FS_Interval
<1>7. place \in Surjection(S, 1..N)
  BY <1>5, <1>6, FS_Injection
<1>8. \A n \in 1..N : \E t \in S : place[t] = n
  BY <1>7 DEF Surjection
<1>9. \A n \in 1..N : \E t \in S : Cardinality(Below(R, S, t)) = n - 1
  <2> SUFFICES ASSUME NEW n \in 1..N PROVE \E t \in S : Cardinality(Below(R, S, t)) = n - 1
    OBVIOUS
  <2>1. PICK t \in S : place[t] = n
    BY <1>8
  <2> QED
    BY <2>1, <1>2
<1> QED
  BY <1>1, <1>2, <1>3, <1>9

\* One of them comes last.
LEMMA Greatest ==
  ASSUME NEW S, IsFiniteSet(S), S # {}, NEW R, StrictLinear(R, S)
  PROVE  \E t \in S : \A u \in S : u # t => <<u, t>> \in R
<1>1. Cardinality(S) \in Nat /\ Cardinality(S) # 0
  BY FS_CardinalityType, FS_EmptySet
<1>2. PICK t \in S : Cardinality(Below(R, S, t)) = Cardinality(S) - 1
  BY <1>1, Places
<1>3. ASSUME NEW u \in S, <<t, u>> \in R
      PROVE  FALSE
  BY <1>1, <1>2, <1>3, FewerBelow
<1> QED
  BY <1>2, <1>3 DEF StrictLinear

\* A set of positions has a last one.
LEMMA LastPosition ==
  ASSUME NEW N \in Nat, NEW P, P \subseteq 1..N, P # {}
  PROVE  Max(P) \in P /\ \A n \in P : n <= Max(P)
<1> DEFINE R == {p \in Nat \X Nat : p[1] < p[2]}
<1>0. P \subseteq Nat /\ IsFiniteSet(1..N)
  BY FS_Interval
<1>1. IsFiniteSet(P)
  BY <1>0, FS_Subset
<1>2. StrictLinear(R, P)
  BY <1>0 DEF StrictLinear
<1> HIDE DEF R
<1>3. PICK m \in P : \A n \in P : n # m => <<n, m>> \in R
  BY <1>1, <1>2, Greatest
<1>4. ASSUME NEW n \in P PROVE m >= n
  <2>1. CASE n # m
    <3>1. <<n, m>> \in R
      BY <2>1, <1>3
    <3> QED
      BY <3>1 DEF R
  <2>2. CASE n = m
    BY <2>2, <1>0
  <2> QED
    BY <2>1, <2>2
<1>5. \E x \in P : \A y \in P : x >= y
  BY <1>4
<1>6. Max(P) \in P /\ \A y \in P : Max(P) >= y
  BY <1>5 DEF Max
<1> QED
  BY <1>0, <1>6

-----------------------------------------------------------------------------
(* The turns of a session as they are loaded.                              *)

Kinds == {"agenda", "divergence", "follow_up", "answer"}

Turn == [sid : Nat, index : Nat, at : Nat, h : Int, role : {"agent", "officer"}, kind : Kinds,
         item : Nat, row : Rows \cup {NoRow}, depth : Nat, words : Words \cup {NoWords}]

TurnsOK(all) ==
  /\ all \subseteq Turn
  /\ IsFiniteSet(all)
  /\ \A t, u \in all :
       t.sid = u.sid /\ t.index = u.index /\ t.at = u.at /\ t.h = u.h => t = u

LEMMA KeptAreOwn ==
  ASSUME NEW all, TurnsOK(all), NEW sid
  PROVE  /\ Kept(all, sid) \subseteq Own(all, sid) /\ Own(all, sid) \subseteq all
         /\ IsFiniteSet(Kept(all, sid)) /\ IsFiniteSet(Own(all, sid))
<1>1. Kept(all, sid) \subseteq Own(all, sid) /\ Own(all, sid) \subseteq all
  BY DEF Kept, Own
<1> QED
  BY <1>1, FS_Subset DEF TurnsOK

\* Of the turns with one index one is kept.
LEMMA OneIsKept ==
  ASSUME NEW all, TurnsOK(all), NEW sid
  PROVE  /\ \A t \in Own(all, sid) : \E u \in Kept(all, sid) : u.index = t.index
         /\ \A t, u \in Kept(all, sid) : t.index = u.index => t = u
<1>1. ASSUME NEW t \in Own(all, sid)
      PROVE  \E u \in Kept(all, sid) : u.index = t.index
  <2> DEFINE S == {u \in Own(all, sid) : u.index = t.index}
             R == {p \in S \X S : ReadBefore(p[1], p[2])}
  <2>1. IsFiniteSet(S) /\ S # {} /\ S \subseteq Turn
    <3>1. S \subseteq Own(all, sid)
      OBVIOUS
    <3> QED
      BY <3>1, KeptAreOwn, FS_Subset DEF TurnsOK
  <2>2. \A x, y \in S : <<x, y>> \in R <=> ReadBefore(x, y)
    OBVIOUS
  <2>3. \A x \in S : ~ReadBefore(x, x)
    BY <2>1 DEF ReadBefore, Turn
  <2>4. \A x, y, z \in S : ReadBefore(x, y) /\ ReadBefore(y, z) => ReadBefore(x, z)
    BY <2>1 DEF ReadBefore, Turn
  <2>5. \A x, y \in S : x # y => ReadBefore(x, y) \/ ReadBefore(y, x)
    BY <2>1 DEF ReadBefore, Turn, TurnsOK, Own
  <2> HIDE DEF R
  <2>6. StrictLinear(R, S)
    BY <2>2, <2>3, <2>4, <2>5 DEF StrictLinear
  <2>7. PICK u \in S : \A v \in S : v # u => <<v, u>> \in R
    BY <2>1, <2>6, Greatest
  <2>8. \A v \in S : ~ReadBefore(u, v)
    <3> SUFFICES ASSUME NEW v \in S, ReadBefore(u, v) PROVE FALSE
      OBVIOUS
    <3>1. v # u
      BY <2>3
    <3> QED
      BY <3>1, <2>2, <2>3, <2>4, <2>7
  <2> QED
    BY <2>8 DEF Kept
<1>2. ASSUME NEW t \in Kept(all, sid), NEW u \in Kept(all, sid), t.index = u.index
      PROVE  t = u
  BY <1>2 DEF Kept, Own, TurnsOK, ReadBefore, Turn
<1> QED
  BY <1>1, <1>2

LEMMA FunctionIsSequence ==
  ASSUME NEW S, NEW N \in Nat, NEW f \in [1..N -> S]
  PROVE  f \in Seq(S) /\ Len(f) = N
  OBVIOUS

Earlier(S, t) == {u \in S : ComesBefore(u, t)}

\* The loaded session is the kept turns, each one once and in order.
LEMMA Loaded ==
  ASSUME NEW all, TurnsOK(all), NEW sid
  PROVE  /\ Load(all, sid) \in Seq(Kept(all, sid))
         /\ Len(Load(all, sid)) = Cardinality(Kept(all, sid))
         /\ ToSet(Load(all, sid)) = Kept(all, sid)
         /\ \A n \in 1..Len(Load(all, sid)) :
              Cardinality(Earlier(Kept(all, sid), Load(all, sid)[n])) = n - 1
<1> DEFINE S == Kept(all, sid)
           R == {p \in S \X S : ComesBefore(p[1], p[2])}
           list == Load(all, sid)
<1>1. S \subseteq Turn /\ IsFiniteSet(S)
  BY KeptAreOwn DEF TurnsOK
<1>2. \A x, y \in S : <<x, y>> \in R <=> ComesBefore(x, y)
  OBVIOUS
<1>3. /\ \A x \in S : ~ComesBefore(x, x)
      /\ \A x, y, z \in S : ComesBefore(x, y) /\ ComesBefore(y, z) => ComesBefore(x, z)
  BY <1>1 DEF ComesBefore, Turn
<1>4. \A x, y \in S : x # y => ComesBefore(x, y) \/ ComesBefore(y, x)
  BY <1>1, OneIsKept DEF ComesBefore, Turn
<1>5. \A t \in S : Below(R, S, t) = Earlier(S, t)
  BY <1>2 DEF Below, Earlier
<1> HIDE DEF R
<1>6. StrictLinear(R, S)
  BY <1>2, <1>3, <1>4 DEF StrictLinear
<1> DEFINE N == Cardinality(S)
<1>7. /\ N \in Nat
      /\ \A t \in S : Cardinality(Earlier(S, t)) + 1 \in 1..N
      /\ \A n \in 1..N : \E t \in S : Cardinality(Earlier(S, t)) = n - 1
      /\ \A t, u \in S :
           Cardinality(Earlier(S, t)) = Cardinality(Earlier(S, u))
             => t = u
  BY <1>1, <1>5, <1>6, Places
<1>8. list = [n \in 1..N |-> CHOOSE t \in S : Cardinality(Earlier(S, t)) = n - 1]
  BY DEF Load, InOrder, Earlier
<1>9. \A n \in 1..N : list[n] \in S /\ Cardinality(Earlier(S, list[n])) = n - 1
  BY <1>7, <1>8
<1>10. list \in Seq(S) /\ Len(list) = N
  <2>1. list \in [1..N -> S]
    <3> HIDE DEF S
    <3> QED
      BY <1>8, <1>9
  <2> QED
    BY <1>7, <2>1, FunctionIsSequence
<1>11. ASSUME NEW t \in S PROVE t \in ToSet(list)
  <2>1. PICK n \in 1..N : n = Cardinality(Earlier(S, t)) + 1
    BY <1>7
  <2>2. Cardinality(Earlier(S, t)) = n - 1
    <3>1. IsFiniteSet(Earlier(S, t))
      BY <1>1, FS_Subset DEF Earlier
    <3>2. Cardinality(Earlier(S, t)) \in Nat
      BY <3>1, FS_CardinalityType
    <3> QED
      BY <2>1, <3>2
  <2>3. list[n] = t
    BY <2>2, <1>7, <1>9
  <2> QED
    BY <2>3, <1>10 DEF ToSet
<1>12. ToSet(list) = S
  BY <1>10, <1>11 DEF ToSet
<1> QED
  BY <1>9, <1>10, <1>12

Contiguous(all, sid) ==
  \A t \in Own(all, sid) : \A m \in Nat : m < t.index => \E u \in Own(all, sid) : u.index = m

\* Where no index is skipped, the length is the first free one.
LEMMA LoadLength ==
  ASSUME NEW all, TurnsOK(all), NEW sid, Contiguous(all, sid)
  PROVE  /\ Len(Load(all, sid)) \in Nat
         /\ \A m \in Nat : m < Len(Load(all, sid)) <=> \E t \in Own(all, sid) : t.index = m
<1> DEFINE S == Kept(all, sid)
           I == {t.index : t \in S}
           f == [t \in S |-> t.index]
<1>1. S \subseteq Own(all, sid) /\ Own(all, sid) \subseteq Turn /\ IsFiniteSet(S)
  BY KeptAreOwn DEF TurnsOK
<1>2. Len(Load(all, sid)) = Cardinality(S) /\ Cardinality(S) \in Nat
  BY <1>1, Loaded, FS_CardinalityType
<1>3. \A m : m \in I <=> \E t \in Own(all, sid) : t.index = m
  BY <1>1, OneIsKept
<1>4. I \subseteq Nat /\ \A i \in I : \A m \in Nat : m < i => m \in I
  <2>1. \A t \in Own(all, sid) : t.index \in Nat
    BY <1>1 DEF Turn
  <2>2. ASSUME NEW i \in I, NEW m \in Nat, m < i
        PROVE  i \in Nat /\ m \in I
    <3>1. PICK t \in Own(all, sid) : t.index = i
      BY <1>3
    <3>2. \E u \in Own(all, sid) : u.index = m
      BY <2>2, <3>1 DEF Contiguous
    <3> HIDE DEF I
    <3> QED
      BY <1>3, <2>1, <3>1, <3>2
  <2>3. I \subseteq Nat
    <3> HIDE DEF I
    <3> QED
      BY <1>3, <2>1
  <2> QED
    BY <2>2, <2>3
<1>5. f \in Bijection(S, I)
  <2>1. f \in Injection(S, I)
    BY OneIsKept DEF Injection, IsInjective
  <2>2. f \in Surjection(S, I)
    BY DEF Surjection
  <2> QED
    BY <2>1, <2>2 DEF Bijection
<1>6. IsFiniteSet(I) /\ Cardinality(I) = Cardinality(S)
  BY <1>1, <1>5, FS_Bijection DEF ExistsBijection
<1>7. \A m \in Nat : m < Cardinality(S) <=> m \in I
  <2>1. CASE I = {}
    <3> HIDE DEF I, S
    <3>1. Cardinality(S) = 0
      BY <1>6, <2>1, FS_EmptySet
    <3> QED
      BY <2>1, <3>1
  <2>2. CASE I # {}
    <3> DEFINE R == {p \in Nat \X Nat : p[1] < p[2]}
    <3>1. StrictLinear(R, I)
      BY <1>4 DEF StrictLinear
    <3> HIDE DEF R, I, S
    <3>2. PICK k \in I : \A i \in I : i # k => <<i, k>> \in R
      BY <2>2, <3>1, <1>6, Greatest
    <3>3. k \in Nat /\ \A i \in I : i \in Nat /\ i <= k
      <4>1. k \in Nat /\ I \subseteq Nat
        BY <1>4
      <4>2. \A i \in I : i # k => i < k
        BY <3>2 DEF R
      <4> QED
        BY <4>1, <4>2
    <3>4. I = 0..k
      <4>1. \A m \in 0..k : m < k => m \in I
        BY <3>3, <1>4
      <4>2. \A m \in 0..k : m \in I
        <5> SUFFICES ASSUME NEW m \in 0..k PROVE m \in I
          OBVIOUS
        <5>1. m < k \/ m = k
          BY <3>3
        <5> QED
          BY <4>1, <5>1
      <4>3. \A i \in I : i \in 0..k
        BY <3>3
      <4> QED
        BY <4>2, <4>3
    <3>5. Cardinality(I) = k + 1
      BY <3>3, <3>4, FS_Interval
    <3> QED
      BY <3>3, <3>4, <3>5, <1>6
  <2> QED
    BY <2>1, <2>2
<1> QED
  BY <1>2, <1>3, <1>7

\* While no two turns share an index and none was recorded at an instant before
\* its predecessor's, the turn at position n has index n - 1.
InSequence(all, sid) ==
  /\ Contiguous(all, sid)
  /\ \A t, u \in Own(all, sid) : t.index = u.index => t = u
  /\ \A t, u \in Own(all, sid) : t.index < u.index => t.at <= u.at

LEMMA LoadInSequence ==
  ASSUME NEW all, TurnsOK(all), NEW sid, InSequence(all, sid)
  PROVE  /\ \A n \in DOMAIN Load(all, sid) :
              Load(all, sid)[n] \in Own(all, sid) /\ Load(all, sid)[n].index = n - 1
         /\ \A t \in Own(all, sid) :
              t.index + 1 \in DOMAIN Load(all, sid) /\ Load(all, sid)[t.index + 1] = t
         /\ DOMAIN Load(all, sid) = 1..Len(Load(all, sid))
<1> DEFINE S == Own(all, sid)
           list == Load(all, sid)
<1>1. S \subseteq Turn /\ IsFiniteSet(S)
  BY KeptAreOwn DEF TurnsOK
<1>2. Kept(all, sid) = S
  BY <1>1 DEF Kept, InSequence, ReadBefore, Turn
<1>3. list \in Seq(S) /\ DOMAIN list = 1..Len(list) /\ Len(list) \in Nat
  <2>1. list \in Seq(S)
    BY <1>2, Loaded
  <2> QED
    BY <2>1
<1>4. ASSUME NEW t \in S
      PROVE  Cardinality(Earlier(S, t)) = t.index
  <2> DEFINE B == Earlier(S, t)
             f == [u \in B |-> u.index]
  <2>1. t.index \in Nat
    BY <1>1 DEF Turn
  <2>2. \A u : u \in B <=> u \in S /\ u.index < t.index
    BY <1>1 DEF Earlier, ComesBefore, InSequence, Turn
  <2>3. f \in Injection(B, 0..(t.index - 1))
    <3>1. f \in [B -> 0..(t.index - 1)]
      BY <1>1, <2>1, <2>2 DEF Turn
    <3>2. \A u, v \in B : u.index = v.index => u = v
      BY <2>2 DEF InSequence
    <3> QED
      BY <3>1, <3>2 DEF Injection, IsInjective
  <2>4. f \in Surjection(B, 0..(t.index - 1))
    <3> SUFFICES ASSUME NEW m \in 0..(t.index - 1) PROVE \E u \in B : u.index = m
      BY <2>3 DEF Surjection, Injection
    <3>1. m \in Nat /\ m < t.index
      BY <2>1
    <3> QED
      BY <2>2, <3>1 DEF InSequence, Contiguous
  <2>5. Cardinality(0..(t.index - 1)) = t.index /\ IsFiniteSet(0..(t.index - 1))
    <3>1. 0 \in Int /\ t.index - 1 \in Int
      BY <2>1
    <3>2. /\ Cardinality(0..(t.index - 1)) = IF 0 > t.index - 1 THEN 0 ELSE (t.index - 1) - 0 + 1
          /\ IsFiniteSet(0..(t.index - 1))
      BY <3>1, FS_Interval
    <3> QED
      BY <2>1, <3>2
  <2>6. Cardinality(B) = t.index
    <3> HIDE DEF f, B
    <3> QED
      BY <2>3, <2>4, <2>5, FS_Injection
  <2> QED
    BY <2>6
<1>5. ASSUME NEW n \in DOMAIN list
      PROVE  list[n] \in S /\ list[n].index = n - 1
  BY <1>2, <1>3, <1>4, <1>5, Loaded
<1>6. ASSUME NEW t \in S
      PROVE  t.index + 1 \in DOMAIN list /\ list[t.index + 1] = t
  <2>1. PICK n \in DOMAIN list : list[n] = t
    BY <1>2, Loaded DEF ToSet
  <2> QED
    BY <2>1, <1>3, <1>5
<1> QED
  BY <1>3, <1>5, <1>6

-----------------------------------------------------------------------------
(* Types.                                                                  *)

Question == [role : {"agent"}, kind : Kinds, item : Nat, row : Rows, depth : Nat,
             words : {NoWords}]

Stages == {"idle", "opening", "record", "extract", "detect", "plan", "reply", "done", "dead"}

Request ==
  [pc : Stages, kind : {"none", "open", "turn", "answer"}, inst : Instances \cup {"none"},
   sid : Int, at : Nat, list : Seq(Turn), items : Seq(Rows), item : Nat,
   words : Words \cup {NoWords}, plan : Question \cup {<<>>}]

Claim == [sid : Nat, turn : Int, words : Words \cup {NoWords}, row : Rows \cup {NoRow},
          by : {"extract", "interview"}]

LedgersOK == ledgers \in Seq(Seq(Rows)) /\ Len(ledgers) > 0

\* A request holds what its stage needs.
Holds(q) ==
  /\ q.pc \in {"opening", "record", "extract", "detect", "plan", "reply"} => q.sid \in Nat
  /\ q.pc \in {"record", "extract", "detect", "plan"} => q.item \in {0} \cup DOMAIN q.items
  /\ q.pc = "opening" => q.items # <<>> /\ q.list = <<>>
  /\ q.pc = "reply" => q.plan \in Question

SessionTypeOK ==
  /\ opened \subseteq Nat
  /\ TurnsOK(turns)
  /\ closed \subseteq [sid : Nat, at : Nat, count : Nat]
  /\ claims \subseteq Claim
  /\ LedgersOK
  /\ now \in Nat
  /\ req \in [Requests -> Request]
  /\ \A r \in Requests : Holds(req[r])
  /\ agendas \in [Instances -> SUBSET [sid : Nat, items : Seq(Rows)]]
  /\ wrote \in [Requests -> SUBSET Turn]
  /\ overlaps \subseteq SUBSET Requests

LEMMA LedgerType ==
  ASSUME LedgersOK
  PROVE  /\ Ledger \in Seq(Rows)
         /\ \A v \in DOMAIN ledgers : ledgers[v] \in Seq(Rows)
  BY DEF LedgersOK, Ledger, Last

\* An id adds to a turn nothing but the order among its equals.
LEMMA WithIdType ==
  ASSUME TurnsOK(turns), NEW t \in Turn, t.h = 0, NEW e \in WithId(t)
  PROVE  /\ e \in Turn
         /\ e.sid = t.sid /\ e.index = t.index /\ e.at = t.at /\ e.role = t.role
         /\ e.item = t.item /\ e.row = t.row /\ e.depth = t.depth /\ e.words = t.words
         /\ TurnsOK(turns \cup {e})
<1> DEFINE rivals == {u \in turns : u.sid = t.sid /\ u.index = t.index /\ u.at = t.at}
           same == {u \in rivals : [u EXCEPT !.h = 0] = t}
           ranks == {u.h : u \in rivals}
           free == ({r + 1 : r \in ranks} \cup {r - 1 : r \in ranks}) \ ranks
<1>1. \/ e \in same
      \/ rivals = {} /\ e = t
      \/ \E h \in free : e = [t EXCEPT !.h = h]
  BY DEF WithId
<1>2. ranks \subseteq Int
  BY DEF TurnsOK, Turn
<1>3. free \subseteq Int
  <2> HIDE DEF ranks
  <2>1. \A r \in ranks : r + 1 \in Int /\ r - 1 \in Int
    BY <1>2
  <2> QED
    BY <2>1
<1>4. CASE e \in same
  <2>1. e \in turns /\ [e EXCEPT !.h = 0] = t
    BY <1>4
  <2>2. turns \cup {e} = turns
    BY <2>1
  <2>3. e \in Turn
    BY <2>1 DEF TurnsOK
  <2> QED
    BY <2>1, <2>2, <2>3 DEF Turn
<1>5. IsFiniteSet(turns \cup {e})
  BY FS_AddElement DEF TurnsOK
<1>6. CASE rivals = {} /\ e = t
  BY <1>5, <1>6 DEF TurnsOK, Turn
<1>7. ASSUME NEW h \in free, e = [t EXCEPT !.h = h]
      PROVE  /\ e \in Turn
             /\ e.sid = t.sid /\ e.index = t.index /\ e.at = t.at /\ e.role = t.role
             /\ e.item = t.item /\ e.row = t.row /\ e.depth = t.depth /\ e.words = t.words
             /\ TurnsOK(turns \cup {e})
  <2>1. h \in Int /\ \A u \in rivals : u.h # h
    BY <1>3
  <2>2. /\ e \in Turn /\ e.h = h
        /\ e.sid = t.sid /\ e.index = t.index /\ e.at = t.at /\ e.role = t.role
        /\ e.item = t.item /\ e.row = t.row /\ e.depth = t.depth /\ e.words = t.words
    BY <1>7, <2>1 DEF Turn
  <2>3. \A u \in turns : u.sid = e.sid /\ u.index = e.index /\ u.at = e.at => u.h # e.h
    BY <2>1, <2>2
  <2> QED
    BY <1>5, <2>2, <2>3 DEF TurnsOK
<1> QED
  BY <1>1, <1>4, <1>6, <1>7

\* What a question may be made of.
LEMMA AgentTurnType ==
  ASSUME NEW kind \in Kinds, NEW items \in Seq(Rows), NEW p \in DOMAIN items, NEW depth \in Nat
  PROVE  /\ AgentTurn(kind, items, p, depth) \in Question
         /\ AgentTurn(kind, items, p, depth).item = p
         /\ AgentTurn(kind, items, p, depth).row = items[p]
  BY DEF AgentTurn, Question

LEMMA PlansType ==
  ASSUME NEW items \in Seq(Rows), NEW p \in DOMAIN items, NEW depth \in Nat,
         NEW q \in Plans(items, p, depth)
  PROVE  /\ q \in Question
         /\ q.item \in DOMAIN items /\ q.row = items[q.item]
         /\ q.kind = "divergence" => q.item = p
<1>1. CASE q = AgentTurn("divergence", items, p, depth)
  BY <1>1, AgentTurnType DEF Kinds, AgentTurn
<1>2. CASE q = AgentTurn("follow_up", items, p, depth + 1)
  <2>1. depth + 1 \in Nat
    OBVIOUS
  <2> QED
    BY <1>2, <2>1, AgentTurnType DEF Kinds, AgentTurn
<1>3. CASE p < Len(items) /\ q = AgentTurn("agenda", items, p + 1, 0)
  <2>1. p + 1 \in DOMAIN items /\ 0 \in Nat
    BY <1>3
  <2> QED
    BY <1>3, <2>1, AgentTurnType DEF Kinds, AgentTurn
<1> QED
  BY <1>1, <1>2, <1>3 DEF Plans

LEMMA AskedPositions ==
  ASSUME NEW list \in Seq(Turn), NEW P, P \subseteq Asked(list), P # {}
  PROVE  /\ Max(P) \in DOMAIN list /\ Max(P) \in P /\ \A n \in P : n <= Max(P)
         /\ list[Max(P)] \in Turn /\ IsAgent(list[Max(P)])
<1>1. P \subseteq 1..Len(list) /\ Len(list) \in Nat
  BY DEF Asked
<1>2. Max(P) \in P /\ \A n \in P : n <= Max(P)
  BY <1>1, LastPosition
<1> QED
  BY <1>1, <1>2 DEF Asked

LEMMA CurrentItemType ==
  ASSUME NEW items \in Seq(Rows), NEW list \in Seq(Turn)
  PROVE  /\ CurrentItem(items, list) \in {0} \cup DOMAIN items
         /\ CurrentDepth(list) \in Nat
<1> DEFINE known == {n \in Asked(list) : list[n].item \in DOMAIN items}
<1>1. ASSUME known # {}
      PROVE  CurrentItem(items, list) \in DOMAIN items
  <2>1. Max(known) \in known
    BY <1>1, AskedPositions
  <2>2. CurrentItem(items, list) = list[Max(known)].item
    BY <1>1 DEF CurrentItem
  <2>3. list[Max(known)].item \in DOMAIN items
    BY <2>1
  <2> QED
    BY <2>2, <2>3
<1>2. ASSUME known = {}
      PROVE  CurrentItem(items, list) \in {0} \cup DOMAIN items
  <2>1. CurrentItem(items, list) = IF items = <<>> THEN 0 ELSE 1
    BY <1>2 DEF CurrentItem
  <2>2. items # <<>> => 1 \in DOMAIN items
    OBVIOUS
  <2> QED
    BY <2>1, <2>2
<1>3. CurrentDepth(list) \in Nat
  <2>1. CASE Asked(list) # {}
    <3>1. list[Max(Asked(list))] \in Turn
      BY <2>1, AskedPositions
    <3> QED
      BY <2>1, <3>1 DEF CurrentDepth, Turn
  <2> QED
    BY <2>1 DEF CurrentDepth
<1> QED
  BY <1>1, <1>2, <1>3

LEMMA LoadType ==
  ASSUME SessionTypeOK, NEW sid
  PROVE  Load(turns, sid) \in Seq(Turn) /\ Len(Load(turns, sid)) \in Nat
<1>1. Load(turns, sid) \in Seq(Kept(turns, sid))
  BY Loaded DEF SessionTypeOK
<1>2. Kept(turns, sid) \subseteq Turn
  BY KeptAreOwn DEF SessionTypeOK, TurnsOK
<1> QED
  BY <1>1, <1>2

LEMMA AgendaType ==
  ASSUME SessionTypeOK, NEW i \in Instances, NEW sid \in Nat, NEW a \in AgendaOf(i, sid)
  PROVE  a \in [sid : Nat, items : Seq(Rows)] /\ a.sid = sid
  BY LedgerType DEF SessionTypeOK, AgendaOf, Cached, Regenerated

LEMMA PutAgendaType ==
  ASSUME SessionTypeOK, NEW i \in Instances, NEW a \in [sid : Nat, items : Seq(Rows)],
         PutAgenda(i, a)
  PROVE  agendas' \in [Instances -> SUBSET [sid : Nat, items : Seq(Rows)]]
  BY DEF SessionTypeOK, PutAgenda

LEMMA MeetsType ==
  ASSUME SessionTypeOK, NEW r \in Requests, NEW S, S \subseteq Requests, Meets(r, S)
  PROVE  overlaps' \subseteq SUBSET Requests /\ overlaps \subseteq overlaps'
  BY DEF SessionTypeOK, Meets

LEMMA OverType ==
  ASSUME SessionTypeOK, NEW r \in Requests, Over(r, "done")
  PROVE  req' \in [Requests -> Request] /\ \A s \in Requests : Holds(req'[s])
<1>1. [Idle EXCEPT !.pc = "done"] \in Request /\ Holds([Idle EXCEPT !.pc = "done"])
  <2>1. <<>> \in Seq(Turn) /\ <<>> \in Seq(Rows)
    BY EmptySeq
  <2>2. Idle \in Request
    BY <2>1 DEF Idle, Request, Stages
  <2> DEFINE q == [Idle EXCEPT !.pc = "done"]
  <2>3. q \in Request /\ q.pc = "done"
    BY <2>2 DEF Request, Stages
  <2> QED
    BY <2>3 DEF Holds
<1> QED
  BY <1>1 DEF Over, Set, SessionTypeOK

LEMMA SetType ==
  ASSUME SessionTypeOK, NEW r \in Requests, NEW q \in Request, Holds(q), Set(r, q)
  PROVE  req' \in [Requests -> Request] /\ \A s \in Requests : Holds(req'[s])
  BY DEF Set, SessionTypeOK

\* What a request is about to append is a turn.
LEMMA TurnEventType ==
  ASSUME SessionTypeOK, NEW r \in Requests, InFlight(r), NEW at \in Nat,
         NEW what, what \in Question \/ what = OfficerTurn(r)
  PROVE  /\ TurnEvent(r, at, what) \in Turn /\ TurnEvent(r, at, what).h = 0
         /\ TurnEvent(r, at, what).sid = req[r].sid
         /\ TurnEvent(r, at, what).index = Len(req[r].list)
         /\ TurnEvent(r, at, what).at = at
         /\ TurnEvent(r, at, what).role = what.role /\ TurnEvent(r, at, what).item = what.item
         /\ TurnEvent(r, at, what).row = what.row /\ TurnEvent(r, at, what).words = what.words
<1>1. req[r] \in Request /\ Holds(req[r])
  BY DEF SessionTypeOK
<1>2. req[r].sid \in Nat /\ Len(req[r].list) \in Nat
  <2>1. req[r].list \in Seq(Turn)
    BY <1>1 DEF Request
  <2> QED
    BY <1>1, <2>1 DEF InFlight, Holds, Request, Stages
<1>3. /\ what.role \in {"agent", "officer"} /\ what.kind \in Kinds /\ what.item \in Nat
      /\ what.row \in Rows \cup {NoRow} /\ what.depth \in Nat
      /\ what.words \in Words \cup {NoWords}
  <2>1. CASE what \in Question
    BY <2>1 DEF Question
  <2>2. CASE what = OfficerTurn(r)
    BY <1>1, <2>2 DEF OfficerTurn, Request, Kinds
  <2> QED
    BY <2>1, <2>2
<1> QED
  BY <1>2, <1>3 DEF TurnEvent, NextIndex, Turn

\* A request that writes: what the turn is, and that it keeps the log sound.
Writes(r, e) ==
  /\ e \in Turn /\ TurnsOK(turns \cup {e})
  /\ e.sid = req[r].sid /\ e.index = Len(req[r].list)
  /\ turns' = turns \cup {e}
  /\ wrote' = [wrote EXCEPT ![r] = @ \cup {e}]

Appends(r, at, what, e) ==
  /\ e \in WithId(TurnEvent(r, at, what))
  /\ turns' = turns \cup {e}
  /\ wrote' = [wrote EXCEPT ![r] = @ \cup {e}]

LEMMA Written ==
  ASSUME SessionTypeOK, NEW r \in Requests, InFlight(r), NEW at \in Nat,
         NEW what, what \in Question \/ what = OfficerTurn(r),
         NEW e, Appends(r, at, what, e)
  PROVE  /\ Writes(r, e) /\ e.at = at
         /\ e.role = what.role /\ e.item = what.item /\ e.row = what.row /\ e.words = what.words
<1> DEFINE t == TurnEvent(r, at, what)
<1>1. TurnsOK(turns)
  BY DEF SessionTypeOK
<1>2. /\ t \in Turn /\ t.h = 0 /\ t.sid = req[r].sid /\ t.index = Len(req[r].list) /\ t.at = at
      /\ t.role = what.role /\ t.item = what.item /\ t.row = what.row /\ t.words = what.words
  BY TurnEventType
<1> HIDE DEF t
<1>3. /\ e \in Turn /\ e.sid = t.sid /\ e.index = t.index /\ e.at = t.at /\ e.role = t.role
      /\ e.item = t.item /\ e.row = t.row /\ e.words = t.words /\ TurnsOK(turns \cup {e})
  <2>1. e \in WithId(t)
    BY DEF t, Appends
  <2> QED
    BY <1>1, <1>2, <2>1, WithIdType
<1> QED
  BY <1>2, <1>3 DEF Writes, Appends

LEMMA OpeningWrites ==
  ASSUME SessionTypeOK, NEW r \in Requests, OpeningTurn(r)
  PROVE  \E e : /\ Writes(r, e) /\ e.at = req[r].sid /\ e.role = "agent"
               /\ e.item = 1 /\ e.item \in DOMAIN req[r].items /\ e.row = req[r].items[1]
<1>1. req[r] \in Request /\ Holds(req[r]) /\ req[r].pc = "opening"
  BY DEF SessionTypeOK, OpeningTurn
<1>2. InFlight(r) /\ req[r].sid \in Nat /\ req[r].items \in Seq(Rows) /\ req[r].items # <<>>
  BY <1>1 DEF InFlight, Holds, Request
<1>3. 1 \in DOMAIN req[r].items
  BY <1>2
<1> DEFINE what == AgentTurn("agenda", req[r].items, 1, 0)
<1>4. what \in Question /\ what.role = "agent" /\ what.item = 1 /\ what.row = req[r].items[1]
  BY <1>2, <1>3, AgentTurnType DEF Kinds, AgentTurn
<1>5. PICK e : Appends(r, req[r].sid, what, e)
  BY DEF OpeningTurn, Appends
<1> HIDE DEF what
<1>6. req[r].sid \in Nat
  BY <1>2
<1>7. /\ Writes(r, e) /\ e.at = req[r].sid
      /\ e.role = what.role /\ e.item = what.item /\ e.row = what.row
  BY <1>2, <1>4, <1>5, <1>6, Written
<1> QED
  BY <1>3, <1>4, <1>7

Recorded(r, e) ==
  /\ Writes(r, e) /\ e.at = req[r].at /\ e.role = "officer" /\ e.words = req[r].words
  /\ Set(r, [req[r] EXCEPT !.pc = AfterRecord(r), !.list = Append(@, e)])

LEMMA RecordWrites ==
  ASSUME SessionTypeOK, NEW r \in Requests, Record(r)
  PROVE  \E e : Recorded(r, e)
<1>1. req[r] \in Request /\ req[r].pc = "record"
  BY DEF SessionTypeOK, Record
<1>2. InFlight(r) /\ req[r].at \in Nat
  BY <1>1 DEF InFlight, Request
<1> DEFINE what == OfficerTurn(r)
<1>3. what.role = "officer" /\ what.words = req[r].words
  BY DEF OfficerTurn
<1>4. PICK e \in WithId(TurnEvent(r, req[r].at, what)) :
        AppendTurn(r, e, [req[r] EXCEPT !.pc = AfterRecord(r)])
  BY DEF Record
<1>5. /\ Appends(r, req[r].at, what, e)
      /\ Set(r, [req[r] EXCEPT !.pc = AfterRecord(r), !.list = Append(@, e)])
  BY <1>4 DEF AppendTurn, Set, Appends
<1>6. what \in Question \/ what = OfficerTurn(r)
  OBVIOUS
<1> HIDE DEF what
<1>7. Writes(r, e) /\ e.at = req[r].at /\ e.role = what.role /\ e.words = what.words
  BY <1>2, <1>5, <1>6, Written
<1>8. Recorded(r, e)
  BY <1>3, <1>5, <1>7 DEF Recorded
<1> QED
  BY <1>8

LEMMA ReplyWrites ==
  ASSUME SessionTypeOK, NEW r \in Requests, Reply(r)
  PROVE  /\ now' \in {now, now + 1}
         /\ \E e : /\ Writes(r, e) /\ e.at = now' /\ e.role = "agent"
                  /\ e.item = req[r].plan.item /\ e.row = req[r].plan.row
<1>1. req[r] \in Request /\ Holds(req[r]) /\ req[r].pc = "reply"
  BY DEF SessionTypeOK, Reply
<1>2. InFlight(r) /\ req[r].plan \in Question
  BY <1>1 DEF InFlight, Holds
<1>3. PICK t \in {now, now + 1} :
        /\ now' = t
        /\ \E e : Appends(r, t, req[r].plan, e)
  BY DEF Reply, Appends
<1>4. t \in Nat
  BY <1>3 DEF SessionTypeOK
<1>5. PICK e : Appends(r, t, req[r].plan, e)
  BY <1>3
<1>6. /\ Writes(r, e) /\ e.at = t /\ e.role = req[r].plan.role
      /\ e.item = req[r].plan.item /\ e.row = req[r].plan.row
  BY <1>2, <1>4, <1>5, Written
<1>7. req[r].plan.role = "agent"
  BY <1>2 DEF Question
<1> QED
  BY <1>3, <1>6, <1>7

LEMMA SessionTypeInit == Init => SessionTypeOK
<1> SUFFICES ASSUME Init PROVE SessionTypeOK
  OBVIOUS
<1>1. <<>> \in Seq(Turn) /\ <<>> \in Seq(Rows)
  BY EmptySeq
<1>2. Idle \in Request /\ Holds(Idle)
  BY <1>1 DEF Idle, Request, Stages, Holds
<1>3. TurnsOK({})
  BY FS_EmptySet DEF TurnsOK
<1>4. <<FirstLedger>> \in Seq(Seq(Rows)) /\ Len(<<FirstLedger>>) = 1
  BY SessionAssumption
<1> QED
  BY <1>2, <1>3, <1>4 DEF Init, SessionTypeOK, LedgersOK

LEMMA WritesType ==
  ASSUME SessionTypeOK, NEW r \in Requests, NEW e, Writes(r, e)
  PROVE  TurnsOK(turns') /\ wrote' \in [Requests -> SUBSET Turn]
  BY DEF SessionTypeOK, Writes

Opening(i, t, items) ==
  [Idle EXCEPT !.pc = "opening", !.kind = "open", !.inst = i, !.sid = t, !.items = items]

LEMMA OpeningType ==
  ASSUME NEW i \in Instances, NEW t \in Nat, NEW items \in Seq(Rows), items # <<>>
  PROVE  Opening(i, t, items) \in Request /\ Holds(Opening(i, t, items))
<1> DEFINE a == [Idle EXCEPT !.pc = "opening"]
           b == [a EXCEPT !.kind = "open"]
           c == [b EXCEPT !.inst = i]
           d == [c EXCEPT !.sid = t]
           e == [d EXCEPT !.items = items]
<1>1. <<>> \in Seq(Turn) /\ <<>> \in Seq(Rows)
  BY EmptySeq
<1>2. Idle \in Request /\ Idle.list = <<>>
  BY <1>1 DEF Idle, Request, Stages
<1>3. a \in Request /\ a.pc = "opening" /\ a.list = <<>>
  BY <1>2 DEF Request, Stages
<1> HIDE DEF a
<1>4. b \in Request /\ b.pc = "opening" /\ b.list = <<>>
  BY <1>3 DEF Request
<1> HIDE DEF b
<1>5. c \in Request /\ c.pc = "opening" /\ c.list = <<>>
  BY <1>4 DEF Request
<1> HIDE DEF c
<1>6. d \in Request /\ d.pc = "opening" /\ d.list = <<>> /\ d.sid = t
  <2>1. t \in Int
    OBVIOUS
  <2>2. d \in Request
    BY <1>5, <2>1 DEF Request
  <2> QED
    BY <1>5, <2>2 DEF Request
<1> HIDE DEF d
<1>7. e \in Request /\ e.pc = "opening" /\ e.list = <<>> /\ e.sid = t /\ e.items = items
  BY <1>6 DEF Request
<1>8. Holds(e)
  BY <1>7 DEF Holds
<1>9. e = Opening(i, t, items)
  BY DEF a, b, c, d, Opening
<1> QED
  BY <1>7, <1>8, <1>9

LEMMA OpenType ==
  ASSUME SessionTypeOK, NEW r \in Requests, NEW i \in Instances, Open(r, i)
  PROVE  SessionTypeOK'
<1> USE DEF SessionTypeOK
<1>1. now' \in Nat /\ UNCHANGED <<turns, closed, claims, ledgers, wrote>>
  BY DEF Open
<1>2. CASE Ledger = <<>>
  <2>1. Over(r, "done") /\ UNCHANGED <<opened, agendas, overlaps>>
    BY <1>2 DEF Open
  <2> HIDE DEF SessionTypeOK
  <2>2. req' \in [Requests -> Request] /\ \A s \in Requests : Holds(req'[s])
    BY <2>1, OverType
  <2> QED
    BY <1>1, <2>1, <2>2 DEF SessionTypeOK, LedgersOK
<1>3. CASE Ledger # <<>>
  <2> DEFINE t == now'
             q == Opening(i, t, Ledger)
             a == [sid |-> t, items |-> Ledger]
             S == {s \in Requests : req[s].sid = t \/ \E e \in wrote[s] : e.sid = t}
  <2>1. opened' = opened \cup {t} /\ PutAgenda(i, a) /\ Set(r, q) /\ Meets(r, S)
    BY <1>3 DEF Open, Opening
  <2>2. <<>> \in Seq(Turn) /\ <<>> \in Seq(Rows) /\ Ledger \in Seq(Rows)
    BY EmptySeq, LedgerType
  <2>3. a \in [sid : Nat, items : Seq(Rows)]
    BY <1>1, <2>2
  <2>4. q \in Request /\ Holds(q)
    BY <1>1, <1>3, <2>2, OpeningType
  <2> HIDE DEF q, a, S, SessionTypeOK
  <2>6. req' \in [Requests -> Request] /\ \A s \in Requests : Holds(req'[s])
    BY <2>1, <2>4, SetType
  <2>7. agendas' \in [Instances -> SUBSET [sid : Nat, items : Seq(Rows)]]
    BY <2>1, <2>3, PutAgendaType
  <2>8. overlaps' \subseteq SUBSET Requests
    BY <2>1, MeetsType DEF S
  <2> QED
    BY <1>1, <2>1, <2>6, <2>7, <2>8 DEF SessionTypeOK, LedgersOK
<1> QED
  BY <1>2, <1>3

\* What a request receives is loaded from the log and looked up at its instance.
Received(i, kind, sid, words, a) ==
  [pc |-> "record", kind |-> kind, inst |-> i, sid |-> sid,
   at |-> now', list |-> Load(turns, sid), items |-> a.items,
   item |-> CurrentItem(a.items, Load(turns, sid)), words |-> words, plan |-> <<>>]

LEMMA Receives ==
  ASSUME SessionTypeOK, NEW r \in Requests, NEW i \in Instances, NEW sid \in opened,
         NEW kind \in {"turn", "answer"}, NEW w \in Words, Receive(r, i, kind, sid, w)
  PROVE  /\ req[r].pc = "idle" /\ now' \in {now, now + 1} /\ now' \in Nat /\ sid \in Nat
         /\ UNCHANGED <<logVars, ledgers, wrote>>
         /\ Meets(r, {s \in Requests : InFlight(s) /\ req[s].sid = sid})
         /\ \E a \in AgendaOf(i, sid) :
              /\ PutAgenda(i, a)
              /\ Over(r, "done") \/ Set(r, Received(i, kind, sid, w, a))
  BY DEF Receive, Received, SessionTypeOK

LEMMA ReceiveType ==
  ASSUME SessionTypeOK, NEW r \in Requests, NEW i \in Instances, NEW sid \in opened,
         NEW kind \in {"turn", "answer"}, NEW w \in Words, Receive(r, i, kind, sid, w)
  PROVE  SessionTypeOK'
<1>1. /\ now' \in Nat /\ sid \in Nat /\ UNCHANGED <<logVars, ledgers, wrote>>
      /\ Meets(r, {s \in Requests : InFlight(s) /\ req[s].sid = sid})
  BY Receives
<1>2. PICK a \in AgendaOf(i, sid) :
        PutAgenda(i, a) /\ (Over(r, "done") \/ Set(r, Received(i, kind, sid, w, a)))
  BY Receives
<1>3. a \in [sid : Nat, items : Seq(Rows)] /\ a.items \in Seq(Rows)
  <2>1. a \in [sid : Nat, items : Seq(Rows)]
    BY <1>1, <1>2, AgendaType
  <2> QED
    BY <2>1
<1>4. Received(i, kind, sid, w, a) \in Request /\ Holds(Received(i, kind, sid, w, a))
  <2>1. Load(turns, sid) \in Seq(Turn)
    BY LoadType
  <2>2. CurrentItem(a.items, Load(turns, sid)) \in {0} \cup DOMAIN a.items
    BY <1>3, <2>1, CurrentItemType
  <2>3. CurrentItem(a.items, Load(turns, sid)) \in Nat
    BY <1>3, <2>2
  <2> QED
    BY <1>1, <1>3, <2>1, <2>2, <2>3 DEF Received, Request, Stages, Holds
<1>5. req' \in [Requests -> Request] /\ \A s \in Requests : Holds(req'[s])
  BY <1>2, <1>4, OverType, SetType
<1>6. agendas' \in [Instances -> SUBSET [sid : Nat, items : Seq(Rows)]]
  BY <1>2, <1>3, PutAgendaType
<1>7. overlaps' \subseteq SUBSET Requests
  BY <1>1, MeetsType
<1> QED
  BY <1>1, <1>5, <1>6, <1>7 DEF SessionTypeOK, LedgersOK, logVars

\* The requests' own steps.
LEMMA WriteType ==
  ASSUME SessionTypeOK, NEW r \in Requests, OpeningTurn(r) \/ Record(r) \/ Reply(r)
  PROVE  SessionTypeOK'
<1>1. CASE OpeningTurn(r)
  <2>1. PICK e : Writes(r, e)
    BY <1>1, OpeningWrites
  <2>2. req' \in [Requests -> Request] /\ \A s \in Requests : Holds(req'[s])
    BY <1>1, OverType DEF OpeningTurn
  <2> QED
    BY <1>1, <2>1, <2>2, WritesType DEF OpeningTurn, SessionTypeOK, LedgersOK
<1>2. CASE Record(r)
  <2>1. PICK e : Recorded(r, e)
    BY <1>2, RecordWrites
  <2> DEFINE q == [req[r] EXCEPT !.pc = AfterRecord(r), !.list = Append(@, e)]
  <2>2. Writes(r, e) /\ e \in Turn /\ Set(r, q)
    BY <2>1 DEF Recorded, Writes
  <2>3. req[r] \in Request /\ Holds(req[r]) /\ req[r].pc = "record"
    BY <1>2 DEF SessionTypeOK, Record
  <2>4. /\ AfterRecord(r) \in {"extract", "plan"}
        /\ Append(req[r].list, e) \in Seq(Turn)
    BY <2>2, <2>3 DEF AfterRecord, Request
  <2>5. q \in Request /\ q.pc \in {"extract", "plan"} /\ q.sid = req[r].sid
        /\ q.item = req[r].item /\ q.items = req[r].items
    BY <2>3, <2>4 DEF Request, Stages
  <2>6. Holds(q)
    BY <2>3, <2>5 DEF Holds
  <2> HIDE DEF q
  <2>7. req' \in [Requests -> Request] /\ \A s \in Requests : Holds(req'[s])
    BY <2>2, <2>5, <2>6, SetType
  <2> QED
    BY <1>2, <2>2, <2>7, WritesType DEF Record, SessionTypeOK, LedgersOK
<1>3. CASE Reply(r)
  <2>1. PICK e : Writes(r, e)
    BY <1>3, ReplyWrites
  <2>2. req' \in [Requests -> Request] /\ \A s \in Requests : Holds(req'[s])
    BY <1>3, OverType DEF Reply
  <2>3. now' \in Nat
    BY <1>3, ReplyWrites DEF SessionTypeOK
  <2> QED
    BY <1>3, <2>1, <2>2, <2>3, WritesType DEF Reply, SessionTypeOK, LedgersOK
<1> QED
  BY <1>1, <1>2, <1>3

LEMMA StepType ==
  ASSUME SessionTypeOK, NEW r \in Requests, NEW to,
         req[r].pc \in {"extract", "detect"}, to \in {"detect", "plan"}, Step(r, to)
  PROVE  req' \in [Requests -> Request] /\ \A s \in Requests : Holds(req'[s])
<1> DEFINE q == [req[r] EXCEPT !.pc = to]
<1>1. req[r] \in Request /\ Holds(req[r])
  BY DEF SessionTypeOK
<1>2. q \in Request /\ q.pc = to /\ q.sid = req[r].sid /\ q.item = req[r].item
      /\ q.items = req[r].items
  BY <1>1 DEF Request, Stages
<1>3. Holds(q)
  BY <1>1, <1>2 DEF Holds
<1> QED
  BY <1>2, <1>3, SetType DEF Step

LEMMA ClaimType ==
  ASSUME SessionTypeOK, NEW r \in Requests, InFlight(r), NEW row \in Rows \cup {NoRow},
         NEW by \in {"extract", "interview"}
  PROVE  ClaimOf(r, row, by) \in Claim
<1>1. req[r] \in Request /\ Holds(req[r])
  BY DEF SessionTypeOK
<1>2. req[r].sid \in Nat /\ Len(req[r].list) - 1 \in Int /\ req[r].words \in Words \cup {NoWords}
  <2>1. req[r].list \in Seq(Turn)
    BY <1>1 DEF Request
  <2> QED
    BY <1>1, <2>1 DEF InFlight, Holds, Request, Stages
<1> QED
  BY <1>2 DEF ClaimOf, NextIndex, Claim

LEMMA NewLedgerType ==
  ASSUME LedgersOK, NEW list \in Seq(Rows), ledgers' = Append(ledgers, list)
  PROVE  LedgersOK'
  BY DEF LedgersOK

LEMMA LedgerEdits ==
  ASSUME LedgersOK
  PROVE  /\ \A k \in Rows, p \in 1..Len(Ledger) + 1 : InsertAt(Ledger, p, k) \in Seq(Rows)
         /\ \A p \in DOMAIN Ledger : RemoveAt(Ledger, p) \in Seq(Rows)
<1>1. Ledger \in Seq(Rows)
  BY LedgerType
<1>2. ASSUME NEW k \in Rows, NEW p \in 1..Len(Ledger) + 1
      PROVE  InsertAt(Ledger, p, k) \in Seq(Rows)
  <2>1. SubSeq(Ledger, 1, p - 1) \in Seq(Rows) /\ SubSeq(Ledger, p, Len(Ledger)) \in Seq(Rows)
    BY <1>1, SubSeqProperties
  <2> QED
    BY <2>1 DEF InsertAt
<1>3. ASSUME NEW p \in DOMAIN Ledger
      PROVE  RemoveAt(Ledger, p) \in Seq(Rows)
  <2>1. SubSeq(Ledger, 1, p - 1) \in Seq(Rows) /\ SubSeq(Ledger, p + 1, Len(Ledger)) \in Seq(Rows)
    BY <1>1, SubSeqProperties
  <2> QED
    BY <2>1 DEF RemoveAt
<1> QED
  BY <1>2, <1>3

\* What is planned, from where the request is on its agenda.

LEMMA ReplyingType ==
  ASSUME NEW q \in Request, q.sid \in Nat, NEW p \in Question
  PROVE  /\ Replying(q, p) \in Request /\ Holds(Replying(q, p))
         /\ Replying(q, p).pc = "reply" /\ Replying(q, p).plan = p
         /\ Replying(q, p).sid = q.sid /\ Replying(q, p).list = q.list
<1> DEFINE a == [q EXCEPT !.pc = "reply", !.plan = p]
           b == [a EXCEPT !.kind = "none", !.items = <<>>]
           c == [b EXCEPT !.item = 0, !.words = NoWords]
<1>1. a \in Request /\ a.pc = "reply" /\ a.plan = p /\ a.sid = q.sid /\ a.list = q.list
  BY DEF Request, Stages
<1> HIDE DEF a
<1>2. <<>> \in Seq(Rows)
  BY EmptySeq
<1>3. b \in Request /\ b.pc = "reply" /\ b.plan = p /\ b.sid = q.sid /\ b.list = q.list
  BY <1>1, <1>2 DEF Request
<1> HIDE DEF b
<1>4. c \in Request /\ c.pc = "reply" /\ c.plan = p /\ c.sid = q.sid /\ c.list = q.list
  BY <1>3 DEF Request
<1>5. Holds(c)
  BY <1>4 DEF Holds
<1>6. c = Replying(q, p)
  BY DEF a, b, Replying
<1> QED
  BY <1>4, <1>5, <1>6

LEMMA Planned ==
  ASSUME SessionTypeOK, NEW r \in Requests, Plan(r)
  PROVE  /\ req[r].pc = "plan" /\ req[r].items \in Seq(Rows)
         /\ req[r].item \in DOMAIN req[r].items
         /\ \E p \in Question :
              /\ p.item \in DOMAIN req[r].items /\ p.row = req[r].items[p.item]
              /\ p.kind = "divergence" => p.item = req[r].item
              /\ Set(r, Replying(req[r], p))
              /\ claims' = IF p.kind = "divergence" /\ req[r].kind = "turn"
                             THEN claims \cup {ClaimOf(r, p.row, "interview")} ELSE claims
<1>1. /\ req[r] \in Request /\ Holds(req[r]) /\ req[r].pc = "plan" /\ req[r].item # 0
  BY DEF SessionTypeOK, Plan
<1>2. /\ req[r].items \in Seq(Rows) /\ req[r].item \in DOMAIN req[r].items
      /\ req[r].list \in Seq(Turn)
  BY <1>1 DEF Request, Holds
<1>3. CurrentDepth(req[r].list) \in Nat
  BY <1>2, CurrentItemType
<1>4. PICK p \in Plans(req[r].items, req[r].item, CurrentDepth(req[r].list)) :
        /\ Set(r, Replying(req[r], p))
        /\ claims' = IF p.kind = "divergence" /\ req[r].kind = "turn"
                       THEN claims \cup {ClaimOf(r, p.row, "interview")} ELSE claims
  BY DEF Plan
<1>5. /\ p \in Question /\ p.item \in DOMAIN req[r].items /\ p.row = req[r].items[p.item]
      /\ p.kind = "divergence" => p.item = req[r].item
  BY <1>2, <1>3, PlansType
<1> QED
  BY <1>1, <1>2, <1>4, <1>5

LEMMA InnerType ==
  ASSUME SessionTypeOK, NEW r \in Requests, Extract(r) \/ Detect(r) \/ Plan(r)
  PROVE  SessionTypeOK'
<1>1. CASE Extract(r)
  <2>1. req[r].pc = "extract" /\ InFlight(r)
    BY <1>1 DEF Extract, InFlight
  <2>2. ClaimOf(r, NoRow, "extract") \in Claim
    BY <2>1, ClaimType
  <2>3. claims' \subseteq Claim
    BY <1>1, <2>2 DEF Extract, SessionTypeOK
  <2>4. req' \in [Requests -> Request] /\ \A s \in Requests : Holds(req'[s])
    BY <1>1, <2>1, StepType DEF Extract
  <2> QED
    BY <1>1, <2>3, <2>4 DEF Extract, SessionTypeOK, LedgersOK, histVars
<1>2. CASE Detect(r)
  <2>1. req[r].pc = "detect"
    BY <1>2 DEF Detect
  <2>2. req' \in [Requests -> Request] /\ \A s \in Requests : Holds(req'[s])
    BY <1>2, <2>1, StepType DEF Detect
  <2>3. LedgersOK'
    <3>1. LedgersOK
      BY DEF SessionTypeOK
    <3>2. CASE UNCHANGED ledgers
      BY <3>1, <3>2 DEF LedgersOK
    <3>3. ASSUME NEW k \in Rows, NEW p \in 1..Len(Ledger) + 1,
                 ledgers' = Append(ledgers, InsertAt(Ledger, p, k))
          PROVE  LedgersOK'
      <4>1. InsertAt(Ledger, p, k) \in Seq(Rows)
        BY <3>1, LedgerEdits
      <4> QED
        BY <3>1, <3>3, <4>1, NewLedgerType
    <3> QED
      BY <1>2, <3>2, <3>3 DEF Detect
  <2> QED
    BY <1>2, <2>2, <2>3 DEF Detect, SessionTypeOK, logVars, histVars
<1>3. CASE Plan(r)
  <2>1. PICK p \in Question :
          /\ p.item \in DOMAIN req[r].items /\ p.row = req[r].items[p.item]
          /\ Set(r, Replying(req[r], p))
          /\ claims' = IF p.kind = "divergence" /\ req[r].kind = "turn"
                         THEN claims \cup {ClaimOf(r, p.row, "interview")} ELSE claims
    BY <1>3, Planned
  <2>2. /\ req[r].pc = "plan" /\ InFlight(r) /\ req[r] \in Request /\ Holds(req[r])
    BY <1>3 DEF Plan, InFlight, SessionTypeOK
  <2>3. req[r].sid \in Nat
    BY <2>2 DEF Holds
  <2>4. req' \in [Requests -> Request] /\ \A s \in Requests : Holds(req'[s])
    BY <2>1, <2>2, <2>3, ReplyingType, SetType
  <2>5. p.row \in Rows
    BY <2>1 DEF Question
  <2>6. ClaimOf(r, p.row, "interview") \in Claim
    BY <2>2, <2>5, ClaimType
  <2>7. claims' \subseteq Claim
    BY <2>1, <2>6 DEF SessionTypeOK
  <2> QED
    BY <1>3, <2>4, <2>7 DEF Plan, SessionTypeOK, LedgersOK, histVars
<1> QED
  BY <1>1, <1>2, <1>3

LEMMA EndType ==
  ASSUME SessionTypeOK, NEW r \in Requests,
         NothingToAsk(r) \/ Unreachable(r) \/ (\E sid \in opened : Close(r, sid))
  PROVE  SessionTypeOK'
<1>1. CASE NothingToAsk(r) \/ Unreachable(r)
  <2>1. req' \in [Requests -> Request] /\ \A s \in Requests : Holds(req'[s])
    BY <1>1, OverType DEF NothingToAsk, Unreachable
  <2> QED
    BY <1>1, <2>1 DEF NothingToAsk, Unreachable, SessionTypeOK, LedgersOK, logVars, histVars
<1>2. ASSUME NEW sid \in opened, Close(r, sid)
      PROVE  SessionTypeOK'
  <2>1. req' \in [Requests -> Request] /\ \A s \in Requests : Holds(req'[s])
    BY <1>2, OverType DEF Close
  <2>2. Len(Load(turns, sid)) \in Nat
    BY LoadType
  <2>3. now' \in Nat /\ closed' \subseteq [sid : Nat, at : Nat, count : Nat]
    BY <1>2, <2>2 DEF Close, SessionTypeOK
  <2> QED
    BY <1>2, <2>1, <2>3 DEF Close, SessionTypeOK, LedgersOK, histVars
<1> QED
  BY <1>1, <1>2

LEMMA KillType ==
  ASSUME SessionTypeOK, NEW i \in Instances, Kill(i)
  PROVE  SessionTypeOK'
<1> DEFINE q == [Idle EXCEPT !.pc = "dead"]
<1>1. q \in Request /\ Holds(q)
  <2>1. <<>> \in Seq(Turn) /\ <<>> \in Seq(Rows)
    BY EmptySeq
  <2>2. Idle \in Request
    BY <2>1 DEF Idle, Request, Stages
  <2>3. q \in Request /\ q.pc = "dead"
    BY <2>2 DEF Request, Stages
  <2> QED
    BY <2>3 DEF Holds
<1>2. req' = [r \in Requests |-> IF InFlight(r) /\ req[r].inst = i THEN q ELSE req[r]]
  BY DEF Kill
<1> HIDE DEF q
<1>3. req' \in [Requests -> Request] /\ \A s \in Requests : Holds(req'[s])
  BY <1>1, <1>2 DEF SessionTypeOK
<1>4. agendas' \in [Instances -> SUBSET [sid : Nat, items : Seq(Rows)]]
  BY DEF SessionTypeOK, Kill
<1> QED
  BY <1>3, <1>4 DEF Kill, SessionTypeOK, LedgersOK, logVars, histVars

LEMMA RetireType ==
  ASSUME SessionTypeOK, Retire
  PROVE  SessionTypeOK'
<1>1. LedgersOK
  BY DEF SessionTypeOK
<1>2. PICK p \in DOMAIN Ledger : ledgers' = Append(ledgers, RemoveAt(Ledger, p))
  BY DEF Retire
<1>3. RemoveAt(Ledger, p) \in Seq(Rows)
  BY <1>1, LedgerEdits
<1>4. LedgersOK'
  BY <1>1, <1>2, <1>3, NewLedgerType
<1> QED
  BY <1>4 DEF Retire, SessionTypeOK, logVars, histVars

LEMMA SessionTypeStep == SessionTypeOK /\ [Next]_vars => SessionTypeOK'
<1> SUFFICES ASSUME SessionTypeOK, [Next]_vars PROVE SessionTypeOK'
  OBVIOUS
<1>1. CASE UNCHANGED vars
  BY <1>1 DEF vars, logVars, histVars, SessionTypeOK, LedgersOK
<1>2. CASE Next
  BY <1>2, OpenType, ReceiveType, WriteType, InnerType, EndType, KillType, RetireType DEF Next
<1> QED
  BY <1>1, <1>2

\* The type invariant of the session log, of the agendas and of the requests.
THEOREM SessionTypeCorrect == Spec => []SessionTypeOK
  BY SessionTypeInit, SessionTypeStep, PTL DEF Spec
-----------------------------------------------------------------------------
(* The invariant of the sessions.                                          *)

Met(r, s) == {r, s} \in overlaps

Working == {"extract", "detect", "plan", "reply"}

\* The length of the session as the request loaded it.
Base(r) == IF req[r].pc \in Working THEN Len(req[r].list) - 1 ELSE Len(req[r].list)

\* The log holds what the requests wrote, and skips no index.
LogWritten ==
  /\ turns = UNION {wrote[r] : r \in Requests}
  /\ \A t \in turns : t.sid \in opened /\ t.at <= now
  /\ \A sid \in opened : Contiguous(turns, sid) /\ sid <= now

\* A request at work has loaded a part of the log, and has written its own
\* turn of the partner, and nothing else.
OwnTurn(r, t) ==
  /\ wrote[r] = {t}
  /\ t.sid = req[r].sid /\ t.index = Len(req[r].list) - 1
  /\ req[r].pc # "reply" => IsOfficer(t) /\ t.words = req[r].words

RequestSound(r) ==
  /\ InFlight(r) =>
       /\ req[r].sid \in opened
       /\ \A m \in Nat : m < Len(req[r].list) => \E t \in Own(turns, req[r].sid) : t.index = m
  /\ req[r].pc = "record" => req[r].at <= now
  /\ req[r].pc \in {"idle", "opening", "record"} => wrote[r] = {}
  /\ req[r].pc \in Working => \E t \in turns : OwnTurn(r, t)
  /\ \A t, u \in wrote[r] : t.sid = u.sid /\ t.index = u.index => t = u

RequestsSound == \A r \in Requests : RequestSound(r)

\* Two requests that are in flight on one session have met.
InFlightMet ==
  \A r, s \in Requests :
    r # s /\ InFlight(r) /\ InFlight(s) /\ req[r].sid = req[s].sid => Met(r, s)

\* What others wrote to its session a request has seen, or it has met them.
SeenOrMet ==
  \A r, s \in Requests : \A t \in wrote[s] :
    r # s /\ InFlight(r) /\ t.sid = req[r].sid => t.index < Base(r) \/ Met(r, s)

\* Only requests that have met take the same index.
ClashesMet ==
  \A r, s \in Requests : \A t \in wrote[r], u \in wrote[s] :
    t # u /\ t.sid = u.sid /\ t.index = u.index => Met(r, s)

\* While no two have met, the instants follow the indexes.
InTimeOrder ==
  overlaps = {} =>
    /\ \A t, u \in turns : t.sid = u.sid /\ t.index < u.index => t.at <= u.at
    /\ \A r \in Requests : req[r].pc = "record" =>
         \A t \in turns : t.sid = req[r].sid => t.at <= req[r].at

\* A claim quotes a turn in the log.
ClaimsCited ==
  \A c \in claims : \E t \in turns :
    t.sid = c.sid /\ t.index = c.turn /\ IsOfficer(t) /\ t.words = c.words

SessionInv ==
  /\ SessionTypeOK /\ LogWritten /\ RequestsSound
  /\ InFlightMet /\ SeenOrMet /\ ClashesMet /\ InTimeOrder
  /\ ClaimsCited

-----------------------------------------------------------------------------
(* The steps, by what they do to the log and to the requests.              *)

\* A request stays where it is, ends, or goes on without writing.
Keeps(r) ==
  \/ req'[r] = req[r]
  \/ req'[r].pc \in {"done", "dead"}
  \/ /\ req[r].pc \in {"extract", "detect", "plan"} /\ req'[r].pc \in {"detect", "plan", "reply"}
     /\ req'[r].sid = req[r].sid /\ req'[r].list = req[r].list
     /\ req'[r].pc # "reply" => req'[r].words = req[r].words

QuietStep ==
  /\ UNCHANGED <<opened, turns, wrote>>
  /\ overlaps \subseteq overlaps' /\ now' \in {now, now + 1}
  /\ \A r \in Requests : Keeps(r)

StartStep(r) ==
  /\ UNCHANGED <<turns, wrote>>
  /\ opened' \in {opened, opened \cup {now'}}
  /\ overlaps \subseteq overlaps' /\ now' \in {now, now + 1}
  /\ \A s \in Requests : s # r => req'[s] = req[s]
  /\ req[r].pc = "idle" /\ req'[r].sid \in opened'
  /\ \A s \in Requests : s # r /\ InFlight(s) /\ req[s].sid = req'[r].sid => Met(r, s)'
  /\ \/ /\ req'[r].pc = "opening" /\ req'[r].list = <<>>
        /\ \A s \in Requests : \A t \in wrote[s] : s # r /\ t.sid = req'[r].sid => Met(r, s)'
     \/ /\ req'[r].pc = "record" /\ req'[r].list = Load(turns, req'[r].sid)
        /\ req'[r].at = now' /\ req'[r].sid \in opened

WriteStep(r, e) ==
  /\ Writes(r, e) /\ UNCHANGED <<opened, overlaps>> /\ now' \in {now, now + 1}
  /\ \A s \in Requests : s # r => req'[s] = req[s]
  /\ \/ /\ req[r].pc = "record" /\ req'[r].pc \in {"extract", "plan"}
        /\ req'[r].sid = req[r].sid /\ req'[r].list = Append(req[r].list, e)
        /\ req'[r].words = req[r].words
        /\ e.at = req[r].at /\ IsOfficer(e) /\ e.words = req[r].words
     \/ /\ req[r].pc = "opening" /\ req'[r].pc = "done" /\ e.at = req[r].sid
     \/ /\ req[r].pc = "reply" /\ req'[r].pc = "done" /\ e.at = now'

LEMMA SetOne ==
  ASSUME SessionTypeOK, NEW r \in Requests, NEW q, Set(r, q)
  PROVE  req'[r] = q /\ \A s \in Requests : s # r => req'[s] = req[s]
  BY DEF Set, SessionTypeOK

LEMMA OverOne ==
  ASSUME SessionTypeOK, NEW r \in Requests, Over(r, "done")
  PROVE  req'[r].pc = "done" /\ \A s \in Requests : s # r => req'[s] = req[s]
<1> DEFINE q == [Idle EXCEPT !.pc = "done"]
<1>1. q.pc = "done"
  BY DEF Idle
<1>2. Set(r, q)
  BY DEF Over
<1> HIDE DEF q
<1> QED
  BY <1>1, <1>2, SetOne

LEMMA OpenKind ==
  ASSUME SessionTypeOK, NEW r \in Requests, NEW i \in Instances, Open(r, i)
  PROVE  QuietStep \/ StartStep(r)
<1>1. now' \in {now, now + 1} /\ UNCHANGED <<turns, wrote>> /\ req[r].pc = "idle"
  BY DEF Open
<1>2. CASE Ledger = <<>>
  <2>1. Over(r, "done") /\ UNCHANGED <<opened, overlaps>>
    BY <1>2 DEF Open
  <2> QED
    BY <1>1, <2>1, OverOne DEF QuietStep, Keeps
<1>3. CASE Ledger # <<>>
  <2> DEFINE q == Opening(i, now', Ledger)
             S == {s \in Requests : req[s].sid = now' \/ \E e \in wrote[s] : e.sid = now'}
  <2>1. opened' = opened \cup {now'} /\ Set(r, q) /\ Meets(r, S)
    BY <1>3 DEF Open, Opening
  <2>2. q.pc = "opening" /\ q.sid = now' /\ q.list = <<>>
    BY DEF Opening, Idle
  <2>3. \A s \in S : s # r => Met(r, s)'
    BY <2>1 DEF Meets, Met
  <2>4. overlaps \subseteq overlaps'
    BY <2>1 DEF Meets
  <2> HIDE DEF q
  <2>5. req'[r] = q /\ \A s \in Requests : s # r => req'[s] = req[s]
    BY <2>1, SetOne
  <2> QED
    BY <1>1, <2>1, <2>2, <2>3, <2>4, <2>5 DEF StartStep
<1> QED
  BY <1>2, <1>3

LEMMA ReceiveKind ==
  ASSUME SessionTypeOK, NEW r \in Requests, NEW i \in Instances, NEW sid \in opened,
         NEW kind \in {"turn", "answer"}, NEW w \in Words, Receive(r, i, kind, sid, w)
  PROVE  QuietStep \/ StartStep(r)
<1> DEFINE S == {s \in Requests : InFlight(s) /\ req[s].sid = sid}
<1>1. /\ req[r].pc = "idle" /\ now' \in {now, now + 1}
      /\ UNCHANGED <<logVars, ledgers, wrote>> /\ Meets(r, S)
  BY Receives
<1>2. PICK a \in AgendaOf(i, sid) : Over(r, "done") \/ Set(r, Received(i, kind, sid, w, a))
  BY Receives
<1>3. overlaps \subseteq overlaps' /\ \A s \in S : s # r => Met(r, s)'
  BY <1>1 DEF Meets, Met
<1>4. UNCHANGED <<opened, turns, wrote>>
  BY <1>1 DEF logVars
<1>5. CASE Over(r, "done")
  BY <1>1, <1>3, <1>4, <1>5, OverOne DEF QuietStep, Keeps
<1>6. CASE Set(r, Received(i, kind, sid, w, a))
  <2> DEFINE q == Received(i, kind, sid, w, a)
  <2>1. q.pc = "record" /\ q.sid = sid /\ q.list = Load(turns, sid) /\ q.at = now'
    BY DEF Received
  <2>2. req'[r] = q /\ \A s \in Requests : s # r => req'[s] = req[s]
    BY <1>6, SetOne
  <2> HIDE DEF q
  <2> QED
    BY <1>1, <1>3, <1>4, <2>1, <2>2 DEF StartStep
<1> QED
  BY <1>2, <1>5, <1>6

LEMMA WriteKind ==
  ASSUME SessionTypeOK, NEW r \in Requests, OpeningTurn(r) \/ Record(r) \/ Reply(r)
  PROVE  \E e : WriteStep(r, e)
<1>1. CASE OpeningTurn(r)
  <2>1. PICK e : Writes(r, e) /\ e.at = req[r].sid
    BY <1>1, OpeningWrites
  <2>2. req'[r].pc = "done" /\ \A s \in Requests : s # r => req'[s] = req[s]
    BY <1>1, OverOne DEF OpeningTurn
  <2>3. WriteStep(r, e)
    BY <1>1, <2>1, <2>2 DEF OpeningTurn, WriteStep
  <2> QED
    BY <2>3
<1>2. CASE Record(r)
  <2>1. PICK e : Recorded(r, e)
    BY <1>2, RecordWrites
  <2> DEFINE q == [req[r] EXCEPT !.pc = AfterRecord(r), !.list = Append(@, e)]
  <2>2. req[r] \in Request /\ req[r].pc = "record"
    BY <1>2 DEF SessionTypeOK, Record
  <2>3. AfterRecord(r) \in {"extract", "plan"}
    BY DEF AfterRecord
  <2>4. /\ q.pc \in {"extract", "plan"} /\ q.sid = req[r].sid /\ q.words = req[r].words
        /\ q.list = Append(req[r].list, e)
    BY <2>2, <2>3 DEF Request
  <2>5. Set(r, q)
    BY <2>1 DEF Recorded
  <2> HIDE DEF q
  <2>6. req'[r] = q /\ \A s \in Requests : s # r => req'[s] = req[s]
    BY <2>5, SetOne
  <2>7. WriteStep(r, e)
    BY <1>2, <2>1, <2>2, <2>4, <2>6 DEF Record, Recorded, WriteStep, IsOfficer
  <2> QED
    BY <2>7
<1>3. CASE Reply(r)
  <2>1. PICK e : Writes(r, e) /\ e.at = now'
    BY <1>3, ReplyWrites
  <2>2. now' \in {now, now + 1}
    BY <1>3, ReplyWrites
  <2>3. req'[r].pc = "done" /\ \A s \in Requests : s # r => req'[s] = req[s]
    BY <1>3, OverOne DEF Reply
  <2>4. WriteStep(r, e)
    BY <1>3, <2>1, <2>2, <2>3 DEF Reply, WriteStep
  <2> QED
    BY <2>4
<1> QED
  BY <1>1, <1>2, <1>3

LEMMA InnerKind ==
  ASSUME SessionTypeOK, NEW r \in Requests, Extract(r) \/ Detect(r) \/ Plan(r)
  PROVE  QuietStep
<1>1. req[r] \in Request /\ req[r].sid \in Int
  BY DEF SessionTypeOK, Request
<1>2. ASSUME NEW to, to \in {"detect", "plan"}, Step(r, to), req[r].pc \in {"extract", "detect"}
      PROVE  \A s \in Requests : Keeps(s)
  <2> DEFINE q == [req[r] EXCEPT !.pc = to]
  <2>1. q.pc = to /\ q.sid = req[r].sid /\ q.list = req[r].list /\ q.words = req[r].words
    BY <1>1 DEF Request
  <2>2. Set(r, q)
    BY <1>2 DEF Step
  <2> HIDE DEF q
  <2>3. req'[r] = q /\ \A s \in Requests : s # r => req'[s] = req[s]
    BY <2>2, SetOne
  <2> QED
    BY <1>2, <2>1, <2>3 DEF Keeps
<1>3. CASE Extract(r)
  BY <1>2, <1>3 DEF Extract, QuietStep, histVars
<1>4. CASE Detect(r)
  BY <1>2, <1>4 DEF Detect, QuietStep, histVars, logVars
<1>5. CASE Plan(r)
  <2>1. PICK p \in Question : Set(r, Replying(req[r], p))
    BY <1>5, Planned
  <2>2. req[r].pc = "plan" /\ Holds(req[r])
    BY <1>5 DEF Plan, SessionTypeOK
  <2>3. req[r].sid \in Nat
    BY <2>2 DEF Holds
  <2>4. /\ Replying(req[r], p).pc = "reply" /\ Replying(req[r], p).sid = req[r].sid
        /\ Replying(req[r], p).list = req[r].list
    BY <1>1, <2>3, ReplyingType
  <2>5. req'[r] = Replying(req[r], p) /\ \A s \in Requests : s # r => req'[s] = req[s]
    BY <2>1, SetOne
  <2>6. \A s \in Requests : Keeps(s)
    BY <2>2, <2>4, <2>5 DEF Keeps
  <2> QED
    BY <1>5, <2>6 DEF Plan, QuietStep, histVars
<1> QED
  BY <1>3, <1>4, <1>5

LEMMA EndKind ==
  ASSUME SessionTypeOK, NEW r \in Requests,
         NothingToAsk(r) \/ Unreachable(r) \/ (\E sid \in opened : Close(r, sid))
  PROVE  QuietStep
<1>1. Over(r, "done")
  BY DEF NothingToAsk, Unreachable, Close
<1>2. \A s \in Requests : Keeps(s)
  BY <1>1, OverOne DEF Keeps
<1>3. UNCHANGED <<opened, turns, wrote, overlaps>> /\ now' \in {now, now + 1}
  BY DEF NothingToAsk, Unreachable, Close, logVars, histVars
<1> QED
  BY <1>2, <1>3 DEF QuietStep

LEMMA KillKind ==
  ASSUME SessionTypeOK, NEW i \in Instances, Kill(i)
  PROVE  QuietStep
<1> DEFINE q == [Idle EXCEPT !.pc = "dead"]
<1>1. q.pc = "dead"
  BY DEF Idle
<1>2. req' = [r \in Requests |-> IF InFlight(r) /\ req[r].inst = i THEN q ELSE req[r]]
  BY DEF Kill
<1> HIDE DEF q
<1> QED
  BY <1>1, <1>2 DEF Kill, QuietStep, Keeps, logVars, histVars

LEMMA StepKinds ==
  ASSUME SessionTypeOK, [Next]_vars
  PROVE  \/ QuietStep
         \/ \E r \in Requests : StartStep(r)
         \/ \E r \in Requests : \E e : WriteStep(r, e)
<1>1. CASE UNCHANGED vars \/ Retire
  BY <1>1 DEF vars, Retire, QuietStep, Keeps, logVars, histVars
<1>2. CASE Next
  BY <1>1, <1>2, OpenKind, ReceiveKind, WriteKind, InnerKind, EndKind, KillKind DEF Next
<1> QED
  BY <1>1, <1>2

LEMMA InFlightRequest ==
  ASSUME SessionTypeOK, NEW r \in Requests
  PROVE  /\ req[r] \in Request /\ Holds(req[r])
         /\ req[r].list \in Seq(Turn) /\ Len(req[r].list) \in Nat
         /\ InFlight(r) <=> req[r].pc \in {"opening", "record"} \cup Working
         /\ InFlight(r) => req[r].sid \in Nat
<1>1. req[r] \in Request /\ Holds(req[r])
  BY DEF SessionTypeOK
<1>2. req[r].list \in Seq(Turn) /\ req[r].pc \in Stages
  BY <1>1 DEF Request
<1>3. Len(req[r].list) \in Nat
  BY <1>2
<1>4. InFlight(r) <=> req[r].pc \in {"opening", "record"} \cup Working
  BY <1>2 DEF InFlight, Working, Stages
<1>5. InFlight(r) => req[r].sid \in Nat
  BY <1>1, <1>4 DEF Holds, Working
<1> QED
  BY <1>1, <1>2, <1>3, <1>4, <1>5

\* What is written is written by a request in flight, and its index is new but
\* for the turns of those that it has met.
LEMMA Writer ==
  ASSUME SessionTypeOK, LogWritten, RequestsSound, NEW r \in Requests, NEW e, WriteStep(r, e)
  PROVE  /\ InFlight(r) /\ e \in Turn /\ e.sid = req[r].sid /\ e.sid \in opened
         /\ e.index = Len(req[r].list) /\ e.at <= now'
         /\ turns' = turns \cup {e} /\ wrote'[r] = wrote[r] \cup {e}
         /\ \A s \in Requests : s # r => wrote'[s] = wrote[s]
<1>1. InFlight(r) /\ RequestSound(r)
  BY InFlightRequest DEF WriteStep, RequestsSound, Working
<1>2. e \in Turn /\ e.sid = req[r].sid /\ e.index = Len(req[r].list) /\ turns' = turns \cup {e}
      /\ wrote' = [wrote EXCEPT ![r] = @ \cup {e}]
  BY DEF WriteStep, Writes
<1>3. req[r].sid \in opened
  BY <1>1 DEF RequestSound
<1>4. e.at <= now'
  <2>1. now \in Nat /\ now <= now' /\ now' \in Nat /\ e.at \in Nat
    BY <1>2 DEF SessionTypeOK, WriteStep, Turn
  <2>2. CASE req[r].pc = "record" /\ e.at = req[r].at
    BY <1>1, <2>1, <2>2 DEF RequestSound
  <2>3. CASE e.at = req[r].sid
    <3>1. req[r].sid <= now
      BY <1>3 DEF LogWritten
    <3> QED
      BY <2>1, <2>3, <3>1
  <2>4. CASE e.at = now'
    BY <2>1, <2>4
  <2> QED
    BY <2>2, <2>3, <2>4 DEF WriteStep
<1> QED
  BY <1>1, <1>2, <1>3, <1>4 DEF SessionTypeOK

LEMMA LogWrittenStep ==
  ASSUME SessionTypeOK, LogWritten, RequestsSound, [Next]_vars
  PROVE  LogWritten'
<1>1. CASE QuietStep
  BY <1>1 DEF QuietStep, LogWritten, SessionTypeOK, Contiguous, Own, TurnsOK, Turn
<1>2. ASSUME NEW r \in Requests, StartStep(r)
      PROVE  LogWritten'
  <2>1. UNCHANGED <<turns, wrote>> /\ opened' \subseteq opened \cup {now'} /\ opened \subseteq opened'
        /\ now \in Nat /\ now' \in {now, now + 1}
    BY <1>2 DEF StartStep, SessionTypeOK
  <2>2. now \in Nat /\ now <= now' /\ now' \in Nat
    BY <2>1
  <2>3. \A t \in turns : t.sid \in opened' /\ t.at <= now'
    BY <2>1, <2>2 DEF LogWritten, SessionTypeOK, TurnsOK, Turn
  <2>4. ASSUME NEW sid \in opened'
        PROVE  Contiguous(turns, sid) /\ sid <= now'
    <3>1. CASE sid \in opened
      <4>1. Contiguous(turns, sid) /\ sid <= now /\ sid \in Nat
        BY <3>1 DEF LogWritten, SessionTypeOK
      <4> QED
        BY <2>2, <4>1
    <3>2. CASE sid \notin opened
      <4>1. sid = now' /\ Own(turns, sid) = {}
        BY <2>1, <3>2 DEF LogWritten, Own
      <4> QED
        BY <2>2, <4>1 DEF Contiguous
    <3> QED
      BY <3>1, <3>2
  <2> QED
    BY <2>1, <2>3, <2>4 DEF LogWritten, Contiguous, Own
<1>3. ASSUME NEW r \in Requests, NEW e, WriteStep(r, e)
      PROVE  LogWritten'
  <2>1. /\ InFlight(r) /\ e \in Turn /\ e.sid = req[r].sid /\ e.sid \in opened
        /\ e.index = Len(req[r].list) /\ e.at <= now'
        /\ turns' = turns \cup {e} /\ wrote'[r] = wrote[r] \cup {e}
        /\ \A s \in Requests : s # r => wrote'[s] = wrote[s]
    BY <1>3, Writer
  <2>2. opened' = opened /\ now \in Nat /\ now <= now' /\ now' \in Nat
    BY <1>3 DEF WriteStep, SessionTypeOK
  <2>3. turns' = UNION {wrote'[s] : s \in Requests}
    <3>1. \A t \in turns' : \E s \in Requests : t \in wrote'[s]
      BY <2>1 DEF LogWritten
    <3>2. \A s \in Requests : wrote'[s] \subseteq turns'
      BY <2>1 DEF LogWritten
    <3> QED
      BY <3>1, <3>2
  <2>4. \A t \in turns' : t.sid \in opened' /\ t.at <= now'
    BY <2>1, <2>2 DEF LogWritten, SessionTypeOK, TurnsOK, Turn
  <2>5. ASSUME NEW sid \in opened
        PROVE  Contiguous(turns', sid) /\ sid <= now'
    <3>1. \A m \in Nat : m < Len(req[r].list) => \E t \in Own(turns, req[r].sid) : t.index = m
      BY <2>1 DEF RequestsSound, RequestSound
    <3>2. Own(turns', sid) = IF sid = e.sid THEN Own(turns, sid) \cup {e} ELSE Own(turns, sid)
      BY <2>1 DEF Own
    <3>3. Contiguous(turns, sid) /\ sid <= now /\ sid \in Nat
      BY DEF LogWritten, SessionTypeOK
    <3>4. ASSUME NEW t \in Own(turns', sid), NEW m \in Nat, m < t.index
          PROVE  \E u \in Own(turns', sid) : u.index = m
      <4>1. CASE t \in Own(turns, sid)
        BY <3>2, <3>3, <3>4, <4>1 DEF Contiguous
      <4>2. CASE t = e /\ sid = e.sid
        BY <2>1, <3>1, <3>2, <3>4, <4>2
      <4> QED
        BY <3>2, <4>1, <4>2
    <3>5. sid <= now'
      BY <2>2, <3>3
    <3> QED
      BY <3>4, <3>5 DEF Contiguous
  <2> QED
    BY <2>2, <2>3, <2>4, <2>5 DEF LogWritten
<1> QED
  BY <1>1, <1>2, <1>3, StepKinds

\* A request that stays where it is stays sound.
LEMMA SoundStays ==
  ASSUME SessionTypeOK, NEW r \in Requests, RequestSound(r), req'[r] = req[r],
         wrote'[r] = wrote[r], turns \subseteq turns', opened \subseteq opened',
         now' \in {now, now + 1}
  PROVE  RequestSound(r)'
<1>1. now \in Nat /\ now <= now' /\ now' \in Nat
  BY DEF SessionTypeOK
<1>2. InFlight(r)' <=> InFlight(r)
  BY DEF InFlight
<1>3. \A sid : Own(turns, sid) \subseteq Own(turns', sid)
  BY DEF Own
<1>4. req[r] \in Request /\ req[r].at \in Nat
  BY DEF SessionTypeOK, Request
<1>5. \A t : OwnTurn(r, t) => OwnTurn(r, t)'
  BY DEF OwnTurn
<1>6. InFlight(r)' =>
        /\ req'[r].sid \in opened'
        /\ \A m \in Nat : m < Len(req'[r].list) => \E t \in Own(turns', req'[r].sid) : t.index = m
  BY <1>2, <1>3 DEF RequestSound
<1>7. req'[r].pc = "record" => req'[r].at <= now'
  BY <1>1, <1>4 DEF RequestSound
<1>8. req'[r].pc \in Working => \E t \in turns' : OwnTurn(r, t)'
  BY <1>5 DEF RequestSound
<1> QED
  BY <1>6, <1>7, <1>8 DEF RequestSound

LEMMA SoundQuiet ==
  ASSUME SessionTypeOK, NEW r \in Requests, RequestSound(r), QuietStep
  PROVE  RequestSound(r)'
<1>1. UNCHANGED <<opened, turns, wrote>> /\ now' \in {now, now + 1} /\ Keeps(r)
  BY DEF QuietStep
<1>2. CASE req'[r] = req[r]
  BY <1>1, <1>2, SoundStays
<1>3. CASE req'[r].pc \in {"done", "dead"}
  BY <1>1, <1>3 DEF RequestSound, InFlight, Working
<1>4. CASE /\ req[r].pc \in {"extract", "detect", "plan"} /\ req'[r].pc \in {"detect", "plan", "reply"}
           /\ req'[r].sid = req[r].sid /\ req'[r].list = req[r].list
           /\ req'[r].pc # "reply" => req'[r].words = req[r].words
  <2>1. InFlight(r) /\ req[r].pc \in Working
    BY <1>4 DEF InFlight, Working
  <2>2. \A t : OwnTurn(r, t) => OwnTurn(r, t)'
    BY <1>1, <1>4 DEF OwnTurn
  <2> QED
    BY <1>1, <1>4, <2>1, <2>2 DEF RequestSound
<1> QED
  BY <1>1, <1>2, <1>3, <1>4 DEF Keeps

LEMMA SoundStart ==
  ASSUME SessionTypeOK, LogWritten, NEW r \in Requests, RequestSound(r), StartStep(r)
  PROVE  RequestSound(r)'
<1>1. UNCHANGED <<turns, wrote>> /\ req[r].pc = "idle" /\ req'[r].sid \in opened' /\ wrote'[r] = {}
      /\ now' \in Nat
  BY DEF StartStep, RequestSound, SessionTypeOK
<1>2. CASE req'[r].pc = "opening" /\ req'[r].list = <<>>
  <2>1. \A m \in Nat : ~(m < Len(req'[r].list))
    BY <1>2
  <2> QED
    BY <1>1, <1>2, <2>1 DEF RequestSound, Working
<1>3. CASE /\ req'[r].pc = "record" /\ req'[r].list = Load(turns, req'[r].sid)
           /\ req'[r].at = now' /\ req'[r].sid \in opened
  <2>1. Contiguous(turns, req'[r].sid) /\ TurnsOK(turns)
    BY <1>3 DEF LogWritten, SessionTypeOK
  <2>2. \A m \in Nat : m < Len(req'[r].list) => \E t \in Own(turns', req'[r].sid) : t.index = m
    BY <1>1, <1>3, <2>1, LoadLength
  <2>3. req'[r].at <= now'
    BY <1>1, <1>3
  <2> QED
    BY <1>1, <1>3, <2>2, <2>3 DEF RequestSound, Working
<1> QED
  BY <1>2, <1>3 DEF StartStep

LEMMA SoundWrite ==
  ASSUME SessionTypeOK, SessionTypeOK', LogWritten, RequestsSound, NEW r \in Requests, NEW e,
         WriteStep(r, e)
  PROVE  RequestSound(r)'
<1>1. /\ InFlight(r) /\ e \in Turn /\ e.sid = req[r].sid /\ e.sid \in opened
      /\ e.index = Len(req[r].list) /\ turns' = turns \cup {e} /\ wrote'[r] = wrote[r] \cup {e}
      /\ opened' = opened
  BY Writer DEF WriteStep
<1>2. RequestSound(r) /\ req[r].list \in Seq(Turn) /\ Len(req[r].list) \in Nat
  BY InFlightRequest DEF RequestsSound
<1>3. CASE /\ req[r].pc = "record" /\ req'[r].pc \in {"extract", "plan"}
           /\ req'[r].sid = req[r].sid /\ req'[r].list = Append(req[r].list, e)
           /\ req'[r].words = req[r].words /\ IsOfficer(e) /\ e.words = req[r].words
  <2>1. wrote'[r] = {e} /\ e \in turns'
    BY <1>1, <1>2, <1>3 DEF RequestSound
  <2>2. Len(req'[r].list) = Len(req[r].list) + 1
    BY <1>1, <1>2, <1>3
  <2>3. OwnTurn(r, e)'
    BY <1>1, <1>2, <1>3, <2>1, <2>2 DEF OwnTurn, IsOfficer
  <2>4. ASSUME NEW m \in Nat, m < Len(req'[r].list)
        PROVE  \E t \in Own(turns', req'[r].sid) : t.index = m
    <3>1. CASE m < Len(req[r].list)
      BY <1>1, <1>2, <1>3, <3>1 DEF RequestSound, Own
    <3>2. CASE m = Len(req[r].list)
      BY <1>1, <1>3, <3>2 DEF Own
    <3> QED
      BY <1>2, <2>2, <2>4, <3>1, <3>2
  <2> QED
    BY <1>1, <1>3, <2>1, <2>3, <2>4 DEF RequestSound, Working
<1>4. CASE req'[r].pc = "done"
  <2>1. \A t, u \in wrote'[r] : t.sid = u.sid /\ t.index = u.index => t = u
    <3>1. CASE req[r].pc = "opening"
      BY <1>1, <1>2, <3>1 DEF RequestSound
    <3>2. CASE req[r].pc = "reply"
      <4>1. PICK t \in turns : OwnTurn(r, t)
        BY <1>2, <3>2 DEF RequestSound, Working
      <4>2. wrote'[r] = {t, e} /\ t.index # e.index
        BY <1>1, <1>2, <4>1 DEF OwnTurn
      <4> QED
        BY <4>2
    <3> QED
      BY <1>4, <3>1, <3>2 DEF WriteStep
  <2> QED
    BY <1>4, <2>1 DEF RequestSound, InFlight, Working
<1> QED
  BY <1>3, <1>4 DEF WriteStep

LEMMA RequestsSoundStep ==
  ASSUME SessionTypeOK, SessionTypeOK', LogWritten, RequestsSound, [Next]_vars
  PROVE  RequestsSound'
<1>1. CASE QuietStep
  BY <1>1, SoundQuiet DEF RequestsSound
<1>2. ASSUME NEW r \in Requests, StartStep(r)
      PROVE  RequestsSound'
  <2>1. ASSUME NEW s \in Requests, s # r
        PROVE  RequestSound(s)'
    BY <1>2, <2>1, SoundStays DEF StartStep, RequestsSound
  <2> QED
    BY <1>2, <2>1, SoundStart DEF RequestsSound
<1>3. ASSUME NEW r \in Requests, NEW e, WriteStep(r, e)
      PROVE  RequestsSound'
  <2>1. ASSUME NEW s \in Requests, s # r
        PROVE  RequestSound(s)'
    <3>1. /\ turns \subseteq turns' /\ wrote'[s] = wrote[s]
          /\ opened' = opened /\ req'[s] = req[s] /\ now' \in {now, now + 1}
      BY <1>3, <2>1, Writer DEF WriteStep
    <3> QED
      BY <3>1, SoundStays DEF RequestsSound
  <2> QED
    BY <1>3, <2>1, SoundWrite DEF RequestsSound
<1> QED
  BY <1>1, <1>2, <1>3, StepKinds

LEMMA MetSymmetric ==
  ASSUME NEW r, NEW s
  PROVE  (Met(r, s) <=> Met(s, r)) /\ (overlaps = {} => ~Met(r, s))
<1>1. {r, s} = {s, r}
  OBVIOUS
<1> QED
  BY <1>1 DEF Met

\* Nobody but the one that starts comes to be in flight.
LEMMA StillInFlight ==
  ASSUME SessionTypeOK, SessionTypeOK', NEW s \in Requests, InFlight(s)',
         \/ QuietStep
         \/ \E r \in Requests : StartStep(r) /\ s # r
         \/ \E r \in Requests : \E e : WriteStep(r, e)
  PROVE  /\ InFlight(s) /\ req'[s].sid = req[s].sid /\ Base(s)' = Base(s)
         /\ req'[s].pc = "record" => req'[s] = req[s]
<1>1. CASE req'[s] = req[s]
  BY <1>1 DEF InFlight, Base
<1>2. CASE /\ req[s].pc \in {"extract", "detect", "plan"} /\ req'[s].pc \in {"detect", "plan", "reply"}
           /\ req'[s].sid = req[s].sid /\ req'[s].list = req[s].list
  BY <1>2 DEF InFlight, Base, Working
<1>3. ASSUME NEW e \in Turn, req[s].pc = "record", req'[s].pc \in {"extract", "plan"},
             req'[s].sid = req[s].sid, req'[s].list = Append(req[s].list, e)
      PROVE  InFlight(s) /\ Base(s)' = Base(s) /\ req'[s].pc # "record"
  <2>1. req[s].list \in Seq(Turn) /\ Len(req[s].list) \in Nat
    BY InFlightRequest
  <2>2. Len(req'[s].list) = Len(req[s].list) + 1
    BY <1>3, <2>1
  <2> QED
    BY <1>3, <2>1, <2>2 DEF InFlight, Base, Working
<1>4. req'[s].pc \notin {"done", "dead"}
  BY DEF InFlight
<1>5. CASE QuietStep
  <2>1. Keeps(s)
    BY <1>5 DEF QuietStep
  <2> QED
    BY <1>1, <1>2, <1>4, <2>1 DEF Keeps
<1>6. CASE \E r \in Requests : StartStep(r) /\ s # r
  <2>1. req'[s] = req[s]
    BY <1>6 DEF StartStep
  <2> QED
    BY <1>1, <2>1
<1>7. ASSUME NEW r \in Requests, NEW e, WriteStep(r, e)
      PROVE  /\ InFlight(s) /\ req'[s].sid = req[s].sid /\ Base(s)' = Base(s)
             /\ req'[s].pc = "record" => req'[s] = req[s]
  <2>1. CASE s # r
    <3>1. req'[s] = req[s]
      BY <1>7, <2>1 DEF WriteStep
    <3> QED
      BY <1>1, <3>1
  <2>2. CASE s = r
    <3>1. /\ e \in Turn /\ req[s].pc = "record" /\ req'[s].pc \in {"extract", "plan"}
          /\ req'[s].sid = req[s].sid /\ req'[s].list = Append(req[s].list, e)
      <4>1. e \in Turn
        BY <1>7 DEF WriteStep, Writes
      <4>2. req'[r].pc # "done"
        BY <1>4, <2>2
      <4> QED
        BY <1>7, <2>2, <4>1, <4>2 DEF WriteStep
    <3> QED
      BY <1>3, <2>2, <3>1
  <2> QED
    BY <2>1, <2>2
<1> QED
  BY <1>5, <1>6, <1>7

LEMMA OverlapsGrow ==
  ASSUME SessionTypeOK, [Next]_vars
  PROVE  /\ overlaps \subseteq overlaps'
         /\ \A r, s \in Requests : Met(r, s) => Met(r, s)'
<1>1. overlaps \subseteq overlaps'
  BY StepKinds DEF QuietStep, StartStep, WriteStep
<1> QED
  BY <1>1 DEF Met

LEMMA InFlightMetStep ==
  ASSUME SessionTypeOK, SessionTypeOK', InFlightMet, [Next]_vars
  PROVE  InFlightMet'
<1> SUFFICES ASSUME NEW r \in Requests, NEW s \in Requests, r # s,
                    InFlight(r)', InFlight(s)', req'[r].sid = req'[s].sid
             PROVE  Met(r, s)'
  BY DEF InFlightMet
<1>1. CASE QuietStep \/ \E q \in Requests : \E e : WriteStep(q, e)
  BY <1>1, StillInFlight, OverlapsGrow DEF InFlightMet
<1>2. ASSUME NEW q \in Requests, StartStep(q)
      PROVE  Met(r, s)'
  <2>1. CASE q # r /\ q # s
    BY <1>2, <2>1, StillInFlight, OverlapsGrow DEF InFlightMet
  <2>2. CASE q = r
    BY <1>2, <2>2, StillInFlight DEF StartStep
  <2>3. CASE q = s
    <3>1. Met(s, r)'
      BY <1>2, <2>3, StillInFlight DEF StartStep
    <3>2. {r, s} = {s, r}
      OBVIOUS
    <3> QED
      BY <3>1, <3>2 DEF Met
  <2> QED
    BY <2>1, <2>2, <2>3
<1> QED
  BY <1>1, <1>2, StepKinds

LEMMA SeenOrMetStep ==
  ASSUME SessionTypeOK, SessionTypeOK', LogWritten, RequestsSound, InFlightMet, SeenOrMet,
         [Next]_vars
  PROVE  SeenOrMet'
<1> SUFFICES ASSUME NEW r \in Requests, NEW s \in Requests, NEW t \in wrote'[s],
                    r # s, InFlight(r)', t.sid = req'[r].sid
             PROVE  t.index < Base(r)' \/ Met(r, s)'
  BY DEF SeenOrMet
<1>1. CASE QuietStep
  <2>1. t \in wrote[s]
    BY <1>1 DEF QuietStep
  <2> QED
    BY <1>1, <2>1, StillInFlight, OverlapsGrow DEF SeenOrMet
<1>2. ASSUME NEW q \in Requests, StartStep(q)
      PROVE  t.index < Base(r)' \/ Met(r, s)'
  <2>1. t \in wrote[s] /\ turns' = turns
    BY <1>2 DEF StartStep
  <2>2. CASE q # r
    BY <1>2, <2>1, <2>2, StillInFlight, OverlapsGrow DEF SeenOrMet
  <2>3. CASE q = r /\ req'[r].pc = "opening"
    BY <1>2, <2>1, <2>3 DEF StartStep
  <2>4. CASE q = r /\ req'[r].pc # "opening"
    <3>1. req'[r].pc = "record" /\ req'[r].list = Load(turns, req'[r].sid) /\ req'[r].sid \in opened
      BY <1>2, <2>4 DEF StartStep
    <3>2. TurnsOK(turns) /\ Contiguous(turns, req'[r].sid)
      BY <3>1 DEF SessionTypeOK, LogWritten
    <3>3. t \in Own(turns, req'[r].sid) /\ t \in Turn
      BY <2>1 DEF LogWritten, Own, SessionTypeOK
    <3>4. t.index \in Nat
      BY <3>3 DEF Turn
    <3>5. t.index < Len(req'[r].list)
      BY <3>1, <3>2, <3>3, <3>4, LoadLength
    <3> QED
      BY <3>1, <3>5 DEF Base, Working
  <2> QED
    BY <2>2, <2>3, <2>4
<1>3. ASSUME NEW q \in Requests, NEW e, WriteStep(q, e)
      PROVE  t.index < Base(r)' \/ Met(r, s)'
  <2>1. InFlight(r) /\ req'[r].sid = req[r].sid /\ Base(r)' = Base(r)
    BY <1>3, StillInFlight
  <2>2. /\ InFlight(q) /\ e.sid = req[q].sid /\ wrote'[q] = wrote[q] \cup {e}
        /\ \A p \in Requests : p # q => wrote'[p] = wrote[p]
    BY <1>3, Writer
  <2>3. CASE t \in wrote[s]
    BY <2>1, <2>3, OverlapsGrow DEF SeenOrMet
  <2>4. CASE t \notin wrote[s]
    <3>1. s = q /\ t = e
      BY <2>2, <2>4
    <3> QED
      BY <2>1, <2>2, <3>1, OverlapsGrow DEF InFlightMet
  <2> QED
    BY <2>3, <2>4
<1> QED
  BY <1>1, <1>2, <1>3, StepKinds

\* An index is taken twice only among those that have met.
LEMMA NewIndex ==
  ASSUME SessionTypeOK, LogWritten, RequestsSound, SeenOrMet,
         NEW r \in Requests, NEW e, WriteStep(r, e)
  PROVE  /\ \A s \in Requests : \A t \in wrote[s] :
              t.sid = e.sid /\ t.index >= e.index => s # r /\ Met(r, s)
         /\ overlaps = {} => \A t \in turns : t.sid = e.sid => t.index < e.index
<1>1. /\ InFlight(r) /\ e \in Turn /\ e.sid = req[r].sid /\ e.index = Len(req[r].list)
      /\ req[r].pc \in {"opening", "record", "reply"}
  BY Writer DEF WriteStep
<1>2. Len(req[r].list) \in Nat /\ Base(r) \in Int /\ Base(r) <= e.index
  BY <1>1, InFlightRequest DEF Base
<1>3. \A s \in Requests : \A t \in wrote[s] : t.index \in Nat
  BY DEF SessionTypeOK, Turn
<1>4. ASSUME NEW s \in Requests, NEW t \in wrote[s], t.sid = e.sid, t.index >= e.index
      PROVE  s # r /\ Met(r, s)
  <2>1. CASE s = r
    <3>1. RequestSound(r)
      BY DEF RequestsSound
    <3>2. CASE req[r].pc \in {"opening", "record"}
      BY <1>4, <2>1, <3>1, <3>2 DEF RequestSound
    <3>3. CASE req[r].pc = "reply"
      <4>1. PICK u \in turns : OwnTurn(r, u)
        BY <3>1, <3>3 DEF RequestSound, Working
      <4>2. t.index = Len(req[r].list) - 1
        BY <2>1, <4>1 DEF OwnTurn
      <4> QED
        BY <1>1, <1>2, <1>4, <4>2
    <3> QED
      BY <1>1, <3>2, <3>3
  <2>2. CASE s # r
    <3>1. t.index < Base(r) \/ Met(r, s)
      BY <1>1, <1>4, <2>2 DEF SeenOrMet
    <3> QED
      BY <1>1, <1>2, <1>3, <1>4, <2>2, <3>1
  <2> QED
    BY <2>1, <2>2
<1>5. ASSUME overlaps = {}, NEW t \in turns, t.sid = e.sid
      PROVE  t.index < e.index
  <2>1. PICK s \in Requests : t \in wrote[s]
    BY DEF LogWritten
  <2>2. t.index \in Nat /\ e.index \in Nat
    BY <1>1, <1>2, <1>3, <2>1
  <2> QED
    BY <1>4, <1>5, <2>1, <2>2, MetSymmetric
<1> QED
  BY <1>4, <1>5

LEMMA ClashesMetStep ==
  ASSUME SessionTypeOK, SessionTypeOK', LogWritten, RequestsSound, SeenOrMet, ClashesMet,
         [Next]_vars
  PROVE  ClashesMet'
<1> SUFFICES ASSUME NEW r \in Requests, NEW s \in Requests,
                    NEW t \in wrote'[r], NEW u \in wrote'[s],
                    t # u, t.sid = u.sid, t.index = u.index
             PROVE  Met(r, s)'
  BY DEF ClashesMet
<1>1. CASE t \in wrote[r] /\ u \in wrote[s]
  BY <1>1, OverlapsGrow DEF ClashesMet
<1>2. CASE ~(t \in wrote[r] /\ u \in wrote[s])
  <2>1. PICK q \in Requests : \E e : WriteStep(q, e)
    BY <1>2, StepKinds DEF QuietStep, StartStep
  <2>2. PICK e : WriteStep(q, e)
    BY <2>1
  <2>3. /\ wrote'[q] = wrote[q] \cup {e} /\ \A p \in Requests : p # q => wrote'[p] = wrote[p]
        /\ e \in Turn /\ overlaps' = overlaps /\ e.index \in Nat
    BY <2>2, Writer DEF WriteStep, Turn
  <2>4. CASE r = q /\ t = e /\ u \in wrote[s]
    <3>1. s # r /\ Met(r, s)
      BY <2>2, <2>3, <2>4, NewIndex
    <3> QED
      BY <2>3, <3>1 DEF Met
  <2>5. CASE s = q /\ u = e /\ t \in wrote[r]
    <3>1. Met(s, r)
      BY <2>2, <2>3, <2>5, NewIndex
    <3> QED
      BY <2>3, <3>1, MetSymmetric DEF Met
  <2> QED
    BY <1>2, <2>3, <2>4, <2>5
<1> QED
  BY <1>1, <1>2

LEMMA InTimeOrderStep ==
  ASSUME SessionTypeOK, SessionTypeOK', LogWritten, RequestsSound, InFlightMet, SeenOrMet,
         InTimeOrder, [Next]_vars
  PROVE  InTimeOrder'
<1> SUFFICES ASSUME overlaps' = {}
             PROVE  /\ \A t, u \in turns' : t.sid = u.sid /\ t.index < u.index => t.at <= u.at
                    /\ \A r \in Requests : req'[r].pc = "record" =>
                         \A t \in turns' : t.sid = req'[r].sid => t.at <= req'[r].at
  BY DEF InTimeOrder
<1>1. overlaps = {}
  BY OverlapsGrow
<1>2. CASE QuietStep
  <2>1. turns' = turns /\ \A r \in Requests : req'[r].pc = "record" => req'[r] = req[r]
    BY <1>2 DEF QuietStep, Keeps
  <2> QED
    BY <1>1, <2>1 DEF InTimeOrder
<1>3. ASSUME NEW q \in Requests, StartStep(q)
      PROVE  /\ \A t, u \in turns' : t.sid = u.sid /\ t.index < u.index => t.at <= u.at
             /\ \A r \in Requests : req'[r].pc = "record" =>
                  \A t \in turns' : t.sid = req'[r].sid => t.at <= req'[r].at
  <2>1. turns' = turns /\ \A r \in Requests : r # q => req'[r] = req[r]
    BY <1>3 DEF StartStep
  <2>2. req'[q].pc = "record" => \A t \in turns : t.at <= req'[q].at
    <3>1. now \in Nat /\ now' \in {now, now + 1} /\ \A t \in turns : t.at \in Nat /\ t.at <= now
      BY <1>3 DEF StartStep, SessionTypeOK, LogWritten, TurnsOK, Turn
    <3> QED
      BY <1>3, <3>1 DEF StartStep
  <2> QED
    BY <1>1, <2>1, <2>2 DEF InTimeOrder
<1>4. ASSUME NEW q \in Requests, NEW e, WriteStep(q, e)
      PROVE  /\ \A t, u \in turns' : t.sid = u.sid /\ t.index < u.index => t.at <= u.at
             /\ \A r \in Requests : req'[r].pc = "record" =>
                  \A t \in turns' : t.sid = req'[r].sid => t.at <= req'[r].at
  <2>1. /\ InFlight(q) /\ e \in Turn /\ e.sid = req[q].sid /\ turns' = turns \cup {e}
        /\ e.at <= now' /\ turns \subseteq Turn
        /\ e.index = Len(req[q].list) /\ \A r \in Requests : r # q => req'[r] = req[r]
    BY <1>4, Writer DEF SessionTypeOK, TurnsOK, WriteStep
  <2>2. \A t \in turns : t.sid = e.sid => t.index < e.index
    BY <1>1, <1>4, NewIndex
  <2>3. ASSUME NEW t \in turns, t.sid = e.sid
        PROVE  t.at <= e.at
    <3>1. CASE req[q].pc = "record" /\ e.at = req[q].at
      BY <1>1, <2>1, <2>3, <3>1 DEF InTimeOrder
    <3>2. CASE req[q].pc = "opening"
      <4>1. req[q].list = <<>>
        BY <3>2, InFlightRequest DEF Holds
      <4>2. t.index < 0 /\ t.index \in Nat
        BY <2>1, <2>2, <2>3, <4>1 DEF Turn
      <4> QED
        BY <4>2
    <3>3. CASE e.at = now'
      <4>1. t.at <= now /\ t.at \in Nat /\ now \in Nat /\ now' \in {now, now + 1}
        BY <1>4, <2>1 DEF LogWritten, SessionTypeOK, WriteStep, Turn
      <4> QED
        BY <3>3, <4>1
    <3> QED
      BY <1>4, <3>1, <3>2, <3>3 DEF WriteStep
  <2>4. \A t, u \in turns' : t.sid = u.sid /\ t.index < u.index => t.at <= u.at
    <3> SUFFICES ASSUME NEW t \in turns', NEW u \in turns', t.sid = u.sid, t.index < u.index
                 PROVE  t.at <= u.at
      OBVIOUS
    <3>1. CASE t \in turns /\ u \in turns
      BY <1>1, <3>1 DEF InTimeOrder
    <3>2. CASE t \in turns /\ u = e
      BY <2>3, <3>2
    <3>3. CASE t = e /\ u \in turns
      <4>1. u.index < e.index /\ u.index \in Nat /\ e.index \in Nat
        BY <2>1, <2>2, <3>3 DEF Turn
      <4> QED
        BY <3>3, <4>1
    <3>4. CASE t = e /\ u = e
      BY <2>1, <3>4 DEF Turn
    <3> QED
      BY <2>1, <3>1, <3>2, <3>3, <3>4
  <2>5. ASSUME NEW r \in Requests, req'[r].pc = "record", NEW t \in turns', t.sid = req'[r].sid
        PROVE  t.at <= req'[r].at
    <3>1. r # q /\ req'[r] = req[r] /\ InFlight(r)
      BY <1>4, <2>1, <2>5 DEF WriteStep, InFlight
    <3>2. CASE t = e
      <4>1. Met(r, q)
        BY <2>1, <2>5, <3>1, <3>2 DEF InFlightMet
      <4> QED
        BY <1>1, <4>1, MetSymmetric
    <3>3. CASE t \in turns
      BY <1>1, <2>5, <3>1, <3>3 DEF InTimeOrder
    <3> QED
      BY <2>1, <3>2, <3>3
  <2> QED
    BY <2>4, <2>5
<1> QED
  BY <1>2, <1>3, <1>4, StepKinds

\* A claim is minted by a request that has recorded what was said.
LEMMA Minted ==
  ASSUME SessionTypeOK, RequestsSound, [Next]_vars, NEW c \in claims', c \notin claims
  PROVE  \E r \in Requests :
           /\ req[r].pc \in {"extract", "plan"} /\ req'[r].pc # "record"
           /\ c.sid = req[r].sid /\ c.turn = Len(req[r].list) - 1 /\ c.words = req[r].words
           /\ c.by = "interview" =>
                /\ Plan(r) /\ req[r].item \in DOMAIN req[r].items
                /\ c.row = req[r].items[req[r].item]
<1>1. PICK r \in Requests : Extract(r) \/ Plan(r)
  <2> SUFFICES ASSUME \A r \in Requests : ~Extract(r) /\ ~Plan(r)
               PROVE  claims' = claims
    OBVIOUS
  <2>1. ASSUME NEW r \in Requests, NEW i \in Instances, Open(r, i) PROVE claims' = claims
    BY <2>1 DEF Open
  <2>2. ASSUME NEW r \in Requests, NEW i \in Instances, NEW kind, NEW sid, NEW w,
               Receive(r, i, kind, sid, w)
        PROVE  claims' = claims
    BY <2>2 DEF Receive, logVars
  <2>3. ASSUME NEW r \in Requests, OpeningTurn(r) \/ Record(r) \/ Reply(r) PROVE claims' = claims
    BY <2>3 DEF OpeningTurn, Record, Reply
  <2>4. ASSUME NEW r \in Requests, Detect(r) \/ NothingToAsk(r) \/ Unreachable(r)
        PROVE  claims' = claims
    BY <2>4 DEF Detect, NothingToAsk, Unreachable, logVars
  <2>5. ASSUME NEW r \in Requests, NEW sid, Close(r, sid) PROVE claims' = claims
    BY <2>5 DEF Close
  <2>6. ASSUME NEW i \in Instances, Kill(i) PROVE claims' = claims
    BY <2>6 DEF Kill, logVars
  <2>7. ASSUME Retire \/ UNCHANGED vars PROVE claims' = claims
    BY <2>7 DEF Retire, vars, logVars
  <2> QED
    BY <2>1, <2>2, <2>3, <2>4, <2>5, <2>6, <2>7 DEF Next
<1>2. CASE Extract(r)
  <2>1. c = ClaimOf(r, NoRow, "extract") /\ req[r].pc = "extract"
    BY <1>2 DEF Extract
  <2>2. req'[r].pc # "record"
    <3>1. PICK to \in {"plan", "detect"} : Set(r, [req[r] EXCEPT !.pc = to])
      BY <1>2 DEF Extract, Step
    <3>2. req[r] \in Request
      BY DEF SessionTypeOK
    <3> QED
      BY <3>1, <3>2, SetOne DEF Request
  <2> QED
    BY <2>1, <2>2 DEF ClaimOf, NextIndex
<1>3. CASE Plan(r)
  <2>1. PICK p \in Question :
          /\ p.item \in DOMAIN req[r].items /\ p.row = req[r].items[p.item]
          /\ p.kind = "divergence" => p.item = req[r].item
          /\ Set(r, Replying(req[r], p))
          /\ claims' = IF p.kind = "divergence" /\ req[r].kind = "turn"
                         THEN claims \cup {ClaimOf(r, p.row, "interview")} ELSE claims
    BY <1>3, Planned
  <2>2. p.kind = "divergence" /\ c = ClaimOf(r, p.row, "interview")
    BY <2>1
  <2>3. req[r].pc = "plan" /\ req[r] \in Request /\ Holds(req[r]) /\ req[r].sid \in Nat
    BY <1>3 DEF Plan, SessionTypeOK, Holds
  <2>4. req'[r].pc = "reply"
    BY <2>1, <2>3, ReplyingType, SetOne
  <2> QED
    BY <1>3, <2>1, <2>2, <2>3, <2>4 DEF ClaimOf, NextIndex
<1> QED
  BY <1>1, <1>2, <1>3

LEMMA TurnsGrow ==
  ASSUME [Next]_vars, SessionTypeOK
  PROVE  turns \subseteq turns'
  BY StepKinds DEF QuietStep, StartStep, WriteStep, Writes

LEMMA ClaimsCitedStep ==
  ASSUME SessionTypeOK, RequestsSound, ClaimsCited, [Next]_vars
  PROVE  ClaimsCited'
<1> SUFFICES ASSUME NEW c \in claims'
             PROVE  \E t \in turns' :
                      t.sid = c.sid /\ t.index = c.turn /\ IsOfficer(t) /\ t.words = c.words
  BY DEF ClaimsCited, IsOfficer
<1>1. CASE c \in claims
  BY <1>1, TurnsGrow DEF ClaimsCited
<1>2. CASE c \notin claims
  <2>1. PICK r \in Requests :
          /\ req[r].pc \in {"extract", "plan"}
          /\ c.sid = req[r].sid /\ c.turn = Len(req[r].list) - 1 /\ c.words = req[r].words
    BY <1>2, Minted
  <2>2. PICK t \in turns : OwnTurn(r, t)
    BY <2>1 DEF RequestsSound, RequestSound, Working
  <2> QED
    BY <2>1, <2>2, TurnsGrow DEF OwnTurn
<1> QED
  BY <1>1, <1>2

LEMMA SessionInvInit == Init => SessionInv
<1> SUFFICES ASSUME Init PROVE SessionInv
  OBVIOUS
<1>1. \A r \in Requests : req[r].pc = "idle" /\ wrote[r] = {}
  BY DEF Init, Idle
<1>2. SessionTypeOK
  BY SessionTypeInit
<1>3. LogWritten
  BY <1>1 DEF Init, LogWritten
<1>4. RequestsSound
  BY <1>1 DEF RequestsSound, RequestSound, InFlight, Working
<1>5. InFlightMet /\ SeenOrMet /\ ClashesMet
  BY <1>1 DEF InFlightMet, SeenOrMet, ClashesMet, InFlight
<1>6. InTimeOrder /\ ClaimsCited
  BY <1>1 DEF Init, InTimeOrder, ClaimsCited
<1> QED
  BY <1>2, <1>3, <1>4, <1>5, <1>6 DEF SessionInv

LEMMA SessionInvStep == SessionInv /\ [Next]_vars => SessionInv'
<1> SUFFICES ASSUME SessionInv, [Next]_vars PROVE SessionInv'
  OBVIOUS
<1>1. /\ SessionTypeOK /\ LogWritten /\ RequestsSound
      /\ InFlightMet /\ SeenOrMet /\ ClashesMet /\ InTimeOrder /\ ClaimsCited
  BY DEF SessionInv
<1>2. SessionTypeOK'
  BY <1>1, SessionTypeStep
<1>3. LogWritten' /\ RequestsSound'
  BY <1>1, <1>2, LogWrittenStep, RequestsSoundStep
<1>4. InFlightMet' /\ SeenOrMet' /\ ClashesMet'
  BY <1>1, <1>2, InFlightMetStep, SeenOrMetStep, ClashesMetStep
<1>5. InTimeOrder' /\ ClaimsCited'
  BY <1>1, <1>2, InTimeOrderStep, ClaimsCitedStep
<1> QED
  BY <1>2, <1>3, <1>4, <1>5 DEF SessionInv

LEMMA SessionInvAlways == Spec => []SessionInv
  BY SessionInvInit, SessionInvStep, PTL DEF Spec

-----------------------------------------------------------------------------
(* What the invariant says of the sessions as they are loaded.             *)

\* While no two requests have met, an index names one turn.
LEMMA OneTurnPerIndex ==
  ASSUME LogWritten, ClashesMet, overlaps = {}, NEW t \in turns, NEW u \in turns,
         t.sid = u.sid, t.index = u.index
  PROVE  t = u
<1>1. PICK r \in Requests : t \in wrote[r]
  BY DEF LogWritten
<1>2. PICK s \in Requests : u \in wrote[s]
  BY DEF LogWritten
<1> QED
  BY <1>1, <1>2, MetSymmetric DEF ClashesMet

LEMMA OpenedInSequence ==
  ASSUME SessionInv, overlaps = {}, NEW sid \in opened
  PROVE  InSequence(turns, sid)
<1>1. LogWritten /\ ClashesMet /\ InTimeOrder
  BY DEF SessionInv
<1>2. Contiguous(turns, sid)
  BY <1>1 DEF LogWritten
<1>3. \A t, u \in Own(turns, sid) : t.index = u.index => t = u
  BY <1>1, OneTurnPerIndex DEF Own
<1>4. \A t, u \in Own(turns, sid) : t.index < u.index => t.at <= u.at
  BY <1>1 DEF Own, InTimeOrder
<1> QED
  BY <1>2, <1>3, <1>4 DEF InSequence

\* A claim quotes a turn of the partner that is in the log when the claim is,
\* whatever was killed since (partner_turn's order: recording first).
THEOREM AlwaysAnchored == Spec => []AnchoredInTheLog
<1>1. SessionInv => AnchoredInTheLog
  <2> SUFFICES ASSUME SessionInv, NEW c \in claims
               PROVE  LET cited == {t \in Testimony(c.sid, c.turn) :
                                      IsOfficer(t) /\ t.words = c.words}
                      IN  /\ cited # {}
                          /\ overlaps = {} => cited = Testimony(c.sid, c.turn)
    BY DEF AnchoredInTheLog
  <2>1. LogWritten /\ ClashesMet /\ ClaimsCited
    BY DEF SessionInv
  <2>2. PICK t \in turns : t.sid = c.sid /\ t.index = c.turn /\ IsOfficer(t) /\ t.words = c.words
    BY <2>1 DEF ClaimsCited
  <2>3. ASSUME overlaps = {}, NEW u \in Testimony(c.sid, c.turn)
        PROVE  u = t
    BY <2>1, <2>2, <2>3, OneTurnPerIndex DEF Testimony
  <2> QED
    BY <2>2, <2>3 DEF Testimony
<1> QED
  BY <1>1, SessionInvAlways, PTL

\* Kills, retries, other instances and equal instants lose no recorded turn:
\* only a request in flight at the same time does (load folds by turn id).
THEOREM AlwaysLostOnlyByOverlap == Spec => []LostOnlyByOverlap
<1>1. SessionInv => LostOnlyByOverlap
  <2> DEFINE loaded == UNION {ToSet(Load(turns, sid)) : sid \in opened}
  <2> SUFFICES ASSUME SessionInv, NEW r \in Requests, NEW t \in wrote[r], t \notin loaded
               PROVE  \E s \in Requests :
                        /\ {r, s} \in overlaps
                        /\ \E u \in wrote[s] : u.sid = t.sid /\ u.index = t.index
    BY DEF LostOnlyByOverlap
  <2>1. LogWritten /\ ClashesMet /\ TurnsOK(turns)
    BY DEF SessionInv, SessionTypeOK
  <2>2. t \in turns /\ t.sid \in opened
    BY <2>1 DEF LogWritten
  <2>3. t \in Own(turns, t.sid) /\ t \notin Kept(turns, t.sid)
    BY <2>1, <2>2, Loaded DEF Own
  <2>4. PICK u \in Kept(turns, t.sid) : u.index = t.index
    BY <2>1, <2>3, OneIsKept
  <2>5. u \in turns /\ u.sid = t.sid /\ u # t
    BY <2>3, <2>4 DEF Kept, Own
  <2>6. PICK s \in Requests : u \in wrote[s]
    BY <2>1, <2>5 DEF LogWritten
  <2>7. Met(r, s)
    BY <2>1, <2>4, <2>5, <2>6 DEF ClashesMet
  <2> QED
    BY <2>4, <2>5, <2>6, <2>7 DEF Met
<1> QED
  BY <1>1, SessionInvAlways, PTL

\* The question asked again is the last one recorded, and is open.
LEMMA LastIsAskedAgain ==
  ASSUME NEW all, TurnsOK(all), NEW sid, InSequence(all, sid)
  PROVE  NextUnanswered(Load(all, sid)) =
           {q \in Own(all, sid) :
              IsAgent(q) /\ \A t \in Own(all, sid) : t = q \/ t.index < q.index}
<1> DEFINE S == Own(all, sid)
           list == Load(all, sid)
<1>1. S \subseteq Turn
  BY KeptAreOwn DEF TurnsOK
<1>2. /\ \A n \in DOMAIN list : list[n] \in S /\ list[n].index = n - 1
      /\ \A t \in S : t.index + 1 \in DOMAIN list /\ list[t.index + 1] = t
      /\ DOMAIN list = 1..Len(list) /\ Len(list) \in Nat
  <2>1. list \in Seq(Kept(all, sid))
    BY Loaded
  <2> QED
    BY <2>1, LoadInSequence
<1>3. list \in Seq(Turn) /\ ToSet(list) = S
  <2>1. Kept(all, sid) \subseteq S /\ list \in Seq(Kept(all, sid))
    BY KeptAreOwn, Loaded
  <2>2. ToSet(list) = S
    BY <1>2 DEF ToSet
  <2> QED
    BY <1>1, <2>1, <2>2
<1> HIDE DEF list, S
<1>4. ASSUME NEW p \in Asked(list), p = Max(Asked(list)),
             ~\E t \in ToSet(list) : IsOfficer(t) /\ t.index > list[p].index
      PROVE  /\ list[p] \in S /\ IsAgent(list[p])
             /\ \A t \in S : t = list[p] \/ t.index < list[p].index
  <2>1. p \in DOMAIN list /\ IsAgent(list[p]) /\ list[p] \in S /\ list[p].index = p - 1 /\ p \in Nat
    BY <1>2, <1>4 DEF Asked
  <2>2. \A n \in Asked(list) : n <= p
    BY <1>3, <1>4, AskedPositions
  <2>3. ASSUME NEW t \in S, t # list[p], ~(t.index < list[p].index)
        PROVE  FALSE
    <3>1. t \in Turn /\ t.index \in Nat
      BY <1>1 DEF Turn
    <3>2. t.index + 1 \in DOMAIN list /\ list[t.index + 1] = t
      BY <1>2
    <3>3. t.index > p - 1
      BY <2>1, <2>3, <3>1, <3>2
    <3>4. CASE IsAgent(t)
      <4>1. t.index + 1 \in Asked(list)
        BY <3>2, <3>4 DEF Asked
      <4> QED
        BY <2>1, <2>2, <3>1, <3>3, <4>1
    <3>5. CASE IsOfficer(t)
      BY <1>3, <1>4, <2>1, <3>3, <3>5
    <3> QED
      BY <3>1, <3>4, <3>5 DEF Turn, IsAgent, IsOfficer
  <2> QED
    BY <2>1, <2>3
<1>5. ASSUME NEW q \in S, IsAgent(q), \A t \in S : t = q \/ t.index < q.index
      PROVE  \E p \in Asked(list) :
               /\ p = Max(Asked(list)) /\ list[p] = q
               /\ ~\E t \in ToSet(list) : IsOfficer(t) /\ t.index > list[p].index
  <2> DEFINE p == q.index + 1
  <2>1. p \in Asked(list) /\ list[p] = q /\ q.index \in Nat
    BY <1>1, <1>2, <1>5 DEF Asked, Turn
  <2>2. Max(Asked(list)) \in Asked(list) /\ p <= Max(Asked(list))
    BY <1>3, <2>1, AskedPositions
  <2>3. Max(Asked(list)) <= p
    <3>1. ASSUME NEW n \in Asked(list) PROVE n <= p /\ n \in Nat
      <4>1. list[n] \in S /\ list[n].index = n - 1 /\ n \in Nat
        BY <1>2 DEF Asked
      <4> QED
        BY <1>5, <2>1, <4>1
    <3> QED
      BY <2>2, <3>1
  <2>4. Max(Asked(list)) = p
    <3>1. Max(Asked(list)) \in Nat
      BY <1>2, <2>2 DEF Asked
    <3> QED
      BY <2>1, <2>2, <2>3, <3>1
  <2>5. ASSUME NEW t \in ToSet(list), IsOfficer(t), t.index > q.index
        PROVE  FALSE
    <3>1. t \in S /\ t.index \in Nat
      BY <1>1, <1>3 DEF Turn
    <3>2. t # q
      BY <1>5, <2>5 DEF IsAgent, IsOfficer
    <3>3. t.index < q.index
      BY <1>5, <3>1, <3>2
    <3> QED
      BY <2>1, <2>5, <3>1, <3>3
  <2> QED
    BY <2>1, <2>4, <2>5
<1> QED
  BY <1>4, <1>5 DEF NextUnanswered, S, list

\* A question is asked again exactly when it is the last turn of the session
\* (next_unanswered over the events), whatever was killed in between.
THEOREM AlwaysReaskedExactlyWhenOpen == Spec => []ReaskedExactlyWhenOpen
<1>1. SessionInv => ReaskedExactlyWhenOpen
  BY OpenedInSequence, LastIsAskedAgain DEF SessionInv, SessionTypeOK, ReaskedExactlyWhenOpen
<1> QED
  BY <1>1, SessionInvAlways, PTL

\* More turns in the log, all in sequence: the session grew at its end.
LEMMA LoadGrows ==
  ASSUME NEW all, TurnsOK(all), NEW more, TurnsOK(more), all \subseteq more,
         NEW sid, InSequence(all, sid), InSequence(more, sid)
  PROVE  IsPrefix(Load(all, sid), Load(more, sid))
<1> DEFINE s == Load(all, sid)
           t == Load(more, sid)
<1>1. s \in Seq(Kept(all, sid)) /\ t \in Seq(Kept(more, sid))
  BY Loaded
<1>2. Len(s) \in Nat /\ Len(t) \in Nat
  BY <1>1
<1>3. ASSUME NEW n \in 1..Len(s)
      PROVE  n \in 1..Len(t) /\ s[n] = t[n]
  <2>1. s[n] \in Own(all, sid) /\ s[n].index = n - 1
    BY <1>1, LoadInSequence
  <2>2. s[n] \in Own(more, sid)
    BY <2>1 DEF Own
  <2> QED
    BY <2>1, <2>2, LoadInSequence
<1>4. Len(s) <= Len(t)
  <2>1. CASE Len(s) = 0
    BY <1>2, <2>1
  <2>2. CASE Len(s) # 0
    <3>1. Len(s) \in 1..Len(s)
      BY <1>2, <2>2
    <3> QED
      BY <1>2, <1>3, <3>1
  <2> QED
    BY <2>1, <2>2
<1>5. SubSeq(s, 1, Len(s)) = SubSeq(t, 1, Len(s))
  <2>1. SubSeq(s, 1, Len(s)) = [n \in 1..Len(s) |-> s[n]]
    BY <1>2
  <2>2. SubSeq(t, 1, Len(s)) = [n \in 1..Len(s) |-> t[n]]
    BY <1>2
  <2> QED
    BY <1>3, <2>1, <2>2
<1> QED
  BY <1>4, <1>5 DEF IsPrefix

SessionsInSequence ==
  /\ TurnsOK(turns)
  /\ overlaps = {} => \A sid \in opened : InSequence(turns, sid)

\* What was said is never rewritten while requests come one by one: a loaded
\* session is a prefix of what is loaded later.
THEOREM AlwaysSpokenOnly == Spec => SpokenOnly
<1>1. SessionInv => SessionsInSequence
  BY OpenedInSequence DEF SessionInv, SessionTypeOK, SessionsInSequence
<1>2. ASSUME SessionInv, SessionsInSequence, SessionsInSequence', [Next]_vars,
             overlaps' = {}, NEW sid \in opened
      PROVE  IsPrefix(Load(turns, sid), Load(turns', sid))
  <2>1. overlaps = {} /\ turns \subseteq turns'
    BY <1>2, OverlapsGrow, TurnsGrow DEF SessionInv
  <2>2. sid \in opened'
    BY <1>2, StepKinds DEF SessionInv, QuietStep, StartStep, WriteStep
  <2>3. InSequence(turns, sid) /\ TurnsOK(turns)
    BY <1>2, <2>1 DEF SessionsInSequence
  <2>4. InSequence(turns', sid) /\ TurnsOK(turns')
    BY <1>2, <2>2 DEF SessionsInSequence
  <2> QED
    BY <2>1, <2>3, <2>4, LoadGrows
<1>3. SessionInv /\ SessionsInSequence /\ SessionsInSequence' /\ [Next]_vars =>
        [overlaps' = {} =>
           \A sid \in opened : IsPrefix(Load(turns, sid), Load(turns', sid))]_vars
  BY <1>2
<1> QED
  BY <1>1, <1>3, SessionInvAlways, PTL DEF Spec, SpokenOnly

-----------------------------------------------------------------------------
(* The place on the agenda.                                                *)

\* An agenda is that of a ledger so far.
Among(all, items)  == \E v \in DOMAIN all : items = all[v]
FromLedger(items) == Among(ledgers, items)

Named(item, row) == item \in DOMAIN FirstLedger /\ row = FirstLedger[item]

OneLedger == Len(ledgers) = 1

AtItem == {"record", "extract", "detect", "plan"}

AgendasFromLedgers ==
  /\ ledgers[1] = FirstLedger
  /\ \A i \in Instances : \A a \in agendas[i] : FromLedger(a.items)
  /\ \A r \in Requests : req[r].pc \in AtItem \cup {"opening"} => FromLedger(req[r].items)
  /\ OneLedger =>
       /\ \A r \in Requests : req[r].pc = "reply" => Named(req[r].plan.item, req[r].plan.row)
       /\ \A t \in turns : IsAgent(t) => Named(t.item, t.row)

\* The last question before an index.
LastQuestion(sid, n, q) ==
  /\ q \in turns /\ q.sid = sid /\ IsAgent(q) /\ q.index < n
  /\ \A t \in turns : t.sid = sid /\ IsAgent(t) /\ t.index < n => t.index <= q.index

\* While requests come one by one and the ledger stays, a request is at the
\* item of the last question, and a claim is filed under that of its own.
AtLastQuestion ==
  overlaps = {} /\ OneLedger =>
    /\ \A r \in Requests : req[r].pc \in AtItem =>
         \A q \in turns : LastQuestion(req[r].sid, Base(r), q) => req[r].item = q.item
    /\ \A c \in claims : c.by = "interview" =>
         \A q \in turns : LastQuestion(c.sid, c.turn, q) => c.row = q.row

FilingInv == SessionInv /\ AgendasFromLedgers /\ AtLastQuestion

\* The steps, by what they do to the place of a request.
KeepsPlace(r) ==
  \/ req'[r] = req[r]
  \/ req'[r].pc \in {"done", "dead"}
  \/ /\ req[r].pc \in AtItem /\ req'[r].pc \in AtItem /\ req'[r].sid = req[r].sid
     /\ req'[r].items = req[r].items /\ req'[r].item = req[r].item

Opens(r) == req'[r].pc = "opening" /\ req'[r].items = Ledger

TakesPlace(r) ==
  \E i \in Instances, sid \in opened : \E a \in AgendaOf(i, sid) :
    /\ req'[r].pc = "record" /\ req'[r].sid = sid /\ req'[r].list = Load(turns, sid)
    /\ req'[r].items = a.items /\ req'[r].item = CurrentItem(a.items, Load(turns, sid))

Asks(r) ==
  /\ req[r].pc = "plan" /\ req'[r].pc = "reply"
  /\ req'[r].plan.item \in DOMAIN req[r].items
  /\ req'[r].plan.row = req[r].items[req'[r].plan.item]

Place(r) == KeepsPlace(r) \/ Opens(r) \/ TakesPlace(r) \/ Asks(r)

LEMMA StepPlace ==
  ASSUME SessionTypeOK, NEW r \in Requests, NEW to, to \in {"plan", "detect"},
         req[r].pc \in {"extract", "detect"}, Step(r, to)
  PROVE  \A s \in Requests : KeepsPlace(s)
<1> DEFINE q == [req[r] EXCEPT !.pc = to]
<1>1. req[r] \in Request
  BY DEF SessionTypeOK
<1>2. q.pc = to /\ q.sid = req[r].sid /\ q.items = req[r].items /\ q.item = req[r].item
  BY <1>1 DEF Request
<1>3. Set(r, q)
  BY DEF Step
<1> HIDE DEF q
<1>4. req'[r] = q /\ \A s \in Requests : s # r => req'[s] = req[s]
  BY <1>3, SetOne
<1> QED
  BY <1>2, <1>4 DEF KeepsPlace, AtItem

LEMMA RecordPlace ==
  ASSUME SessionTypeOK, NEW r \in Requests, Record(r)
  PROVE  \A s \in Requests : KeepsPlace(s)
<1>1. PICK e : Recorded(r, e)
  BY RecordWrites
<1> DEFINE q == [req[r] EXCEPT !.pc = AfterRecord(r), !.list = Append(@, e)]
<1>2. req[r] \in Request /\ req[r].pc = "record"
  BY DEF SessionTypeOK, Record
<1>3. AfterRecord(r) \in {"extract", "plan"}
  BY DEF AfterRecord
<1>4. /\ q.pc \in {"extract", "plan"} /\ q.sid = req[r].sid
      /\ q.items = req[r].items /\ q.item = req[r].item
  BY <1>2, <1>3 DEF Request
<1>5. Set(r, q)
  BY <1>1 DEF Recorded
<1> HIDE DEF q
<1>6. req'[r] = q /\ \A s \in Requests : s # r => req'[s] = req[s]
  BY <1>5, SetOne
<1> QED
  BY <1>2, <1>4, <1>6 DEF KeepsPlace, AtItem

LEMMA OverPlace ==
  ASSUME SessionTypeOK, NEW r \in Requests, Over(r, "done")
  PROVE  \A s \in Requests : KeepsPlace(s)
  BY OverOne DEF KeepsPlace

LEMMA OpenPlace ==
  ASSUME SessionTypeOK, NEW r \in Requests, NEW i \in Instances, Open(r, i)
  PROVE  \A s \in Requests : KeepsPlace(s) \/ Opens(s)
<1>1. CASE Ledger = <<>>
  BY <1>1, OverPlace DEF Open
<1>2. CASE Ledger # <<>>
  <2> DEFINE q == Opening(i, now', Ledger)
  <2>1. Set(r, q)
    BY <1>2 DEF Open, Opening
  <2>2. q.pc = "opening" /\ q.items = Ledger
    BY DEF Opening, Idle
  <2> HIDE DEF q
  <2>3. req'[r] = q /\ \A s \in Requests : s # r => req'[s] = req[s]
    BY <2>1, SetOne
  <2> QED
    BY <2>2, <2>3 DEF KeepsPlace, Opens
<1> QED
  BY <1>1, <1>2

LEMMA ReceivePlace ==
  ASSUME SessionTypeOK, NEW r \in Requests, NEW i \in Instances, NEW sid \in opened,
         NEW kind \in {"turn", "answer"}, NEW w \in Words, Receive(r, i, kind, sid, w)
  PROVE  \A s \in Requests : KeepsPlace(s) \/ TakesPlace(s)
<1>1. PICK a \in AgendaOf(i, sid) : Over(r, "done") \/ Set(r, Received(i, kind, sid, w, a))
  BY Receives
<1>2. CASE Over(r, "done")
  BY <1>2, OverPlace
<1>3. CASE Set(r, Received(i, kind, sid, w, a))
  <2> DEFINE q == Received(i, kind, sid, w, a)
  <2>1. /\ q.pc = "record" /\ q.sid = sid /\ q.list = Load(turns, sid) /\ q.items = a.items
        /\ q.item = CurrentItem(a.items, Load(turns, sid))
    BY DEF Received
  <2>2. req'[r] = q /\ \A s \in Requests : s # r => req'[s] = req[s]
    BY <1>3, SetOne
  <2> HIDE DEF q
  <2> QED
    BY <1>1, <2>1, <2>2 DEF KeepsPlace, TakesPlace
<1> QED
  BY <1>1, <1>2, <1>3

LEMMA PlanPlace ==
  ASSUME SessionTypeOK, NEW r \in Requests, Plan(r)
  PROVE  \A s \in Requests : KeepsPlace(s) \/ Asks(s)
<1>1. PICK p \in Question :
        /\ p.item \in DOMAIN req[r].items /\ p.row = req[r].items[p.item]
        /\ Set(r, Replying(req[r], p))
  BY Planned
<1>2. req[r].pc = "plan" /\ req[r] \in Request /\ Holds(req[r])
  BY DEF Plan, SessionTypeOK
<1>3. req[r].sid \in Nat
  BY <1>2 DEF Holds
<1>4. Replying(req[r], p).pc = "reply" /\ Replying(req[r], p).plan = p
  BY <1>2, <1>3, ReplyingType
<1>5. req'[r] = Replying(req[r], p) /\ \A s \in Requests : s # r => req'[s] = req[s]
  BY <1>1, SetOne
<1> QED
  BY <1>1, <1>2, <1>4, <1>5 DEF KeepsPlace, Asks

LEMMA PlaceKinds ==
  ASSUME SessionTypeOK, [Next]_vars
  PROVE  \A s \in Requests : Place(s)
<1>1. ASSUME NEW r \in Requests, Extract(r) \/ Detect(r)
      PROVE  \A s \in Requests : KeepsPlace(s)
  BY <1>1, StepPlace DEF Extract, Detect
<1>2. ASSUME NEW r \in Requests, OpeningTurn(r) \/ Reply(r) \/ NothingToAsk(r) \/ Unreachable(r)
      PROVE  \A s \in Requests : KeepsPlace(s)
  <2>1. Over(r, "done")
    BY <1>2 DEF OpeningTurn, Reply, NothingToAsk, Unreachable
  <2> QED
    BY <2>1, OverPlace
<1>3. ASSUME NEW r \in Requests, NEW sid \in opened, Close(r, sid)
      PROVE  \A s \in Requests : KeepsPlace(s)
  <2>1. Over(r, "done")
    BY <1>3 DEF Close
  <2> QED
    BY <2>1, OverPlace
<1>4. ASSUME NEW i \in Instances, Kill(i)
      PROVE  \A s \in Requests : KeepsPlace(s)
  <2> DEFINE q == [Idle EXCEPT !.pc = "dead"]
  <2>1. q.pc = "dead"
    BY DEF Idle
  <2>2. req' = [r \in Requests |-> IF InFlight(r) /\ req[r].inst = i THEN q ELSE req[r]]
    BY <1>4 DEF Kill
  <2> HIDE DEF q
  <2> QED
    BY <2>1, <2>2 DEF KeepsPlace
<1>5. CASE UNCHANGED vars \/ Retire
  BY <1>5 DEF vars, Retire, KeepsPlace, Place
<1> QED
  BY <1>1, <1>2, <1>3, <1>4, <1>5, OpenPlace, ReceivePlace, RecordPlace, PlanPlace DEF Next, Place

\* The ledgers so far stay, and agendas come from them.
LEMMA LedgersGrow ==
  ASSUME SessionTypeOK, [Next]_vars
  PROVE  /\ ledgers' = ledgers \/ \E list \in Seq(Rows) : ledgers' = Append(ledgers, list)
         /\ ledgers'[1] = ledgers[1] /\ Len(ledgers) \in Nat /\ Len(ledgers) <= Len(ledgers')
         /\ OneLedger' => OneLedger
         /\ \A items : Among(ledgers, items) => Among(ledgers', items)
<1>1. LedgersOK
  BY DEF SessionTypeOK
<1>2. ledgers' = ledgers \/ \E list \in Seq(Rows) : ledgers' = Append(ledgers, list)
  <2>1. ASSUME NEW r \in Requests, Detect(r)
        PROVE  ledgers' = ledgers \/ \E list \in Seq(Rows) : ledgers' = Append(ledgers, list)
    BY <1>1, <2>1, LedgerEdits DEF Detect
  <2>2. ASSUME Retire
        PROVE  \E list \in Seq(Rows) : ledgers' = Append(ledgers, list)
    BY <1>1, <2>2, LedgerEdits DEF Retire
  <2>3. ASSUME NEW r \in Requests, NEW i \in Instances, Open(r, i) PROVE ledgers' = ledgers
    BY <2>3 DEF Open
  <2>4. ASSUME NEW r \in Requests, NEW i \in Instances, NEW kind, NEW sid, NEW w,
               Receive(r, i, kind, sid, w)
        PROVE  ledgers' = ledgers
    BY <2>4 DEF Receive
  <2>5. ASSUME NEW r \in Requests, OpeningTurn(r) \/ Record(r) \/ Reply(r)
        PROVE  ledgers' = ledgers
    BY <2>5 DEF OpeningTurn, Record, Reply
  <2>6. ASSUME NEW r \in Requests, Extract(r) \/ Plan(r) \/ NothingToAsk(r) \/ Unreachable(r)
        PROVE  ledgers' = ledgers
    BY <2>6 DEF Extract, Plan, NothingToAsk, Unreachable
  <2>7. ASSUME NEW r \in Requests, NEW sid, Close(r, sid) PROVE ledgers' = ledgers
    BY <2>7 DEF Close
  <2>8. ASSUME NEW i \in Instances, Kill(i) PROVE ledgers' = ledgers
    BY <2>8 DEF Kill
  <2>9. ASSUME UNCHANGED vars PROVE ledgers' = ledgers
    BY <2>9 DEF vars
  <2> QED
    BY <2>1, <2>2, <2>3, <2>4, <2>5, <2>6, <2>7, <2>8, <2>9 DEF Next
<1>3. ledgers \in Seq(Seq(Rows)) /\ Len(ledgers) > 0 /\ Len(ledgers) \in Nat
  BY <1>1 DEF LedgersOK
<1>4. ASSUME NEW list \in Seq(Rows), ledgers' = Append(ledgers, list)
      PROVE  /\ ledgers'[1] = ledgers[1] /\ Len(ledgers') = Len(ledgers) + 1
             /\ \A v \in DOMAIN ledgers : v \in DOMAIN ledgers' /\ ledgers'[v] = ledgers[v]
  BY <1>3, <1>4
<1>5. \A items : Among(ledgers, items) => Among(ledgers', items)
  BY <1>2, <1>4 DEF Among
<1> QED
  BY <1>2, <1>3, <1>4, <1>5 DEF OneLedger

LEMMA LastIsLedger ==
  ASSUME SessionTypeOK
  PROVE  FromLedger(Ledger)
<1>1. ledgers \in Seq(Seq(Rows)) /\ Len(ledgers) > 0
  BY DEF SessionTypeOK, LedgersOK
<1>2. Len(ledgers) \in DOMAIN ledgers
  BY <1>1
<1> QED
  BY <1>2 DEF FromLedger, Among, Ledger, Last

LEMMA AgendaFromLedger ==
  ASSUME AgendasFromLedgers, NEW i \in Instances, NEW sid, NEW a \in AgendaOf(i, sid)
  PROVE  FromLedger(a.items)
  BY DEF AgendasFromLedgers, AgendaOf, Cached, Regenerated, FromLedger, Among

LEMMA AgendasStep ==
  ASSUME SessionTypeOK, AgendasFromLedgers, [Next]_vars,
         NEW i \in Instances, NEW b \in agendas'[i]
  PROVE  FromLedger(b.items)
<1>0. agendas \in [Instances -> SUBSET [sid : Nat, items : Seq(Rows)]]
  BY DEF SessionTypeOK
<1>1. ASSUME NEW j \in Instances, NEW a, PutAgenda(j, a), FromLedger(a.items)
      PROVE  FromLedger(b.items)
  BY <1>0, <1>1 DEF PutAgenda, AgendasFromLedgers
<1>2. ASSUME agendas' = agendas
      PROVE  FromLedger(b.items)
  BY <1>2 DEF AgendasFromLedgers
<1>3. ASSUME NEW r \in Requests, NEW j \in Instances, Open(r, j)
      PROVE  FromLedger(b.items)
  <2> DEFINE a == [sid |-> now', items |-> Ledger]
  <2>1. agendas' = agendas \/ PutAgenda(j, a)
    BY <1>3 DEF Open
  <2>2. FromLedger(a.items)
    BY LastIsLedger
  <2> HIDE DEF a
  <2> QED
    BY <1>1, <1>2, <2>1, <2>2
<1>4. ASSUME NEW r \in Requests, NEW j \in Instances, NEW sid \in opened,
             NEW kind \in {"turn", "answer"}, NEW w \in Words, Receive(r, j, kind, sid, w)
      PROVE  FromLedger(b.items)
  <2>1. PICK a \in AgendaOf(j, sid) : PutAgenda(j, a)
    BY <1>4, Receives
  <2> QED
    BY <1>1, <2>1, AgendaFromLedger
<1>5. ASSUME NEW r \in Requests, OpeningTurn(r) \/ Record(r) \/ Reply(r)
      PROVE  agendas' = agendas
  BY <1>5 DEF OpeningTurn, Record, Reply
<1>6. ASSUME NEW r \in Requests,
             Extract(r) \/ Detect(r) \/ Plan(r) \/ NothingToAsk(r) \/ Unreachable(r)
      PROVE  agendas' = agendas
  BY <1>6 DEF Extract, Detect, Plan, NothingToAsk, Unreachable
<1>7. ASSUME NEW r \in Requests, NEW sid, Close(r, sid) PROVE agendas' = agendas
  BY <1>7 DEF Close
<1>8. ASSUME NEW j \in Instances, Kill(j) PROVE FromLedger(b.items)
  BY <1>0, <1>8 DEF Kill, AgendasFromLedgers
<1>9. ASSUME Retire \/ UNCHANGED vars PROVE agendas' = agendas
  BY <1>9 DEF Retire, vars
<1> QED
  BY <1>2, <1>3, <1>4, <1>5, <1>6, <1>7, <1>8, <1>9 DEF Next

\* A new question names its row.
LEMMA NewQuestions ==
  ASSUME SessionTypeOK, AgendasFromLedgers, OneLedger, [Next]_vars,
         NEW t \in turns', IsAgent(t)
  PROVE  Named(t.item, t.row)
<1>0. ledgers \in Seq(Seq(Rows)) /\ DOMAIN ledgers = {1} /\ ledgers[1] = FirstLedger
  BY DEF SessionTypeOK, LedgersOK, OneLedger, AgendasFromLedgers
<1>1. CASE t \in turns
  BY <1>1 DEF AgendasFromLedgers
<1>2. ASSUME NEW r \in Requests, OpeningTurn(r), t \notin turns
      PROVE  Named(t.item, t.row)
  <2>1. PICK e : /\ Writes(r, e) /\ e.item = 1 /\ e.item \in DOMAIN req[r].items
                 /\ e.row = req[r].items[1]
    BY <1>2, OpeningWrites
  <2>2. t = e
    BY <1>2, <2>1 DEF Writes
  <2>3. req[r].items = FirstLedger
    BY <1>0, <1>2 DEF OpeningTurn, AgendasFromLedgers, FromLedger, Among
  <2> QED
    BY <2>1, <2>2, <2>3 DEF Named
<1>3. ASSUME NEW r \in Requests, Reply(r), t \notin turns
      PROVE  Named(t.item, t.row)
  <2>1. PICK e : Writes(r, e) /\ e.item = req[r].plan.item /\ e.row = req[r].plan.row
    BY <1>3, ReplyWrites
  <2>2. t = e
    BY <1>3, <2>1 DEF Writes
  <2> QED
    BY <1>3, <2>1, <2>2 DEF Reply, AgendasFromLedgers
<1>4. ASSUME NEW r \in Requests, Record(r), t \notin turns
      PROVE  FALSE
  <2>1. PICK e : Recorded(r, e)
    BY <1>4, RecordWrites
  <2>2. t = e /\ e.role = "officer"
    BY <1>4, <2>1 DEF Recorded, Writes
  <2> QED
    BY <2>2 DEF IsAgent
<1>5. ASSUME NEW r \in Requests, NEW i \in Instances, Open(r, i) PROVE turns' = turns
  BY <1>5 DEF Open
<1>6. ASSUME NEW r \in Requests, NEW i \in Instances, NEW kind, NEW sid, NEW w,
             Receive(r, i, kind, sid, w)
      PROVE  turns' = turns
  BY <1>6 DEF Receive, logVars
<1>7. ASSUME NEW r \in Requests,
             Extract(r) \/ Detect(r) \/ Plan(r) \/ NothingToAsk(r) \/ Unreachable(r)
      PROVE  turns' = turns
  BY <1>7 DEF Extract, Detect, Plan, NothingToAsk, Unreachable, logVars
<1>8. ASSUME NEW r \in Requests, NEW sid, Close(r, sid) PROVE turns' = turns
  BY <1>8 DEF Close
<1>9. ASSUME NEW i \in Instances, Kill(i) PROVE turns' = turns
  BY <1>9 DEF Kill, logVars
<1>10. ASSUME Retire \/ UNCHANGED vars PROVE turns' = turns
  BY <1>10 DEF Retire, vars, logVars
<1> QED
  BY <1>1, <1>2, <1>3, <1>4, <1>5, <1>6, <1>7, <1>8, <1>9, <1>10 DEF Next

LEMMA AgendasFromLedgersStep ==
  ASSUME SessionTypeOK, AgendasFromLedgers, [Next]_vars
  PROVE  AgendasFromLedgers'
<1>1. ledgers'[1] = FirstLedger
  BY LedgersGrow DEF AgendasFromLedgers
<1>2. ASSUME NEW i \in Instances, NEW a \in agendas'[i]
      PROVE  Among(ledgers', a.items)
  BY <1>2, AgendasStep, LedgersGrow DEF FromLedger
<1>3. ASSUME NEW r \in Requests, req'[r].pc \in AtItem \cup {"opening"}
      PROVE  Among(ledgers', req'[r].items)
  <2>1. FromLedger(req'[r].items)
    <3>1. CASE KeepsPlace(r)
      BY <1>3, <3>1 DEF KeepsPlace, AgendasFromLedgers, AtItem
    <3>2. CASE Opens(r)
      BY <3>2, LastIsLedger DEF Opens
    <3>3. CASE TakesPlace(r)
      BY <3>3, AgendaFromLedger DEF TakesPlace
    <3>4. CASE Asks(r)
      BY <1>3, <3>4 DEF Asks, AtItem
    <3> QED
      BY <3>1, <3>2, <3>3, <3>4, PlaceKinds DEF Place
  <2> QED
    BY <2>1, LedgersGrow DEF FromLedger
<1>4. ASSUME OneLedger', NEW r \in Requests, req'[r].pc = "reply"
      PROVE  Named(req'[r].plan.item, req'[r].plan.row)
  <2>0. ledgers \in Seq(Seq(Rows)) /\ OneLedger /\ ledgers[1] = FirstLedger
    BY <1>4, LedgersGrow DEF AgendasFromLedgers, SessionTypeOK, LedgersOK
  <2>1. CASE KeepsPlace(r)
    BY <1>4, <2>0, <2>1 DEF KeepsPlace, AgendasFromLedgers, AtItem
  <2>2. CASE Asks(r)
    <3>1. req[r].items = FirstLedger
      BY <2>0, <2>2 DEF Asks, AgendasFromLedgers, AtItem, FromLedger, Among, OneLedger
    <3> QED
      BY <2>2, <3>1 DEF Asks, Named
  <2> QED
    BY <1>4, <2>1, <2>2, PlaceKinds DEF Place, Opens, TakesPlace
<1>5. ASSUME OneLedger', NEW t \in turns', IsAgent(t)
      PROVE  Named(t.item, t.row)
  BY <1>5, LedgersGrow, NewQuestions
<1> QED
  BY <1>1, <1>2, <1>3, <1>4, <1>5 DEF AgendasFromLedgers, FromLedger

\* In a session in sequence the current item is that of its last question.
LEMMA ItemOfLast ==
  ASSUME SessionTypeOK, NEW sid, InSequence(turns, sid), NEW items,
         \A t \in turns : IsAgent(t) => t.item \in DOMAIN items,
         NEW q, LastQuestion(sid, Len(Load(turns, sid)), q)
  PROVE  CurrentItem(items, Load(turns, sid)) = q.item
<1> DEFINE list == Load(turns, sid)
           known == {n \in Asked(list) : list[n].item \in DOMAIN items}
           p == q.index + 1
<1>1. TurnsOK(turns) /\ list \in Seq(Turn)
  BY LoadType DEF SessionTypeOK
<1>2. /\ \A n \in DOMAIN list : list[n] \in Own(turns, sid) /\ list[n].index = n - 1
      /\ \A t \in Own(turns, sid) : t.index + 1 \in DOMAIN list /\ list[t.index + 1] = t
      /\ DOMAIN list = 1..Len(list) /\ Len(list) \in Nat
  BY <1>1, LoadInSequence
<1>3. q \in Own(turns, sid) /\ IsAgent(q) /\ q \in turns /\ q.index \in Nat
  BY <1>1 DEF LastQuestion, Own, TurnsOK, Turn
<1> HIDE DEF list
<1>4. p \in known /\ list[p] = q
  BY <1>2, <1>3 DEF Asked
<1>5. known \subseteq Asked(list)
  OBVIOUS
<1>6. ASSUME NEW n \in known
      PROVE  n <= p /\ n \in Nat
  <2>1. /\ n \in DOMAIN list /\ IsAgent(list[n]) /\ list[n] \in Own(turns, sid)
        /\ list[n].index = n - 1
    BY <1>2 DEF Asked
  <2>2. list[n] \in turns /\ list[n].sid = sid /\ list[n].index < Len(list) /\ n \in Nat
    BY <1>2, <2>1 DEF Own
  <2>3. list[n].index <= q.index
    BY <2>1, <2>2 DEF LastQuestion, list
  <2> QED
    BY <1>3, <2>1, <2>2, <2>3
<1>7. Max(known) \in known /\ p <= Max(known)
  <2> HIDE DEF known, p
  <2> QED
    BY <1>1, <1>4, <1>5, AskedPositions
<1>8. Max(known) = p
  <2>1. Max(known) <= p /\ Max(known) \in Nat /\ p \in Nat
    BY <1>3, <1>6, <1>7
  <2> QED
    BY <1>7, <2>1
<1>9. CurrentItem(items, list) = list[Max(known)].item
  BY <1>4 DEF CurrentItem
<1> QED
  BY <1>4, <1>8, <1>9 DEF list

\* What is written now comes after the last question before an index that is
\* taken, or loaded.
LEMMA LastQuestionStays ==
  ASSUME SessionInv, overlaps = {}, [Next]_vars, NEW sid, NEW n \in Int, NEW q \in turns',
         q.sid = sid, IsAgent(q), q.index < n,
         \A t \in turns' : t.sid = sid /\ IsAgent(t) /\ t.index < n => t.index <= q.index,
         \A t \in turns' \ turns : t.sid = sid => t.index >= n
  PROVE  LastQuestion(sid, n, q)
<1>1. turns \subseteq turns'
  BY TurnsGrow DEF SessionInv
<1>2. SessionTypeOK'
  BY SessionTypeStep DEF SessionInv
<1>3. \A t \in turns' : t.index \in Nat
  BY <1>2 DEF SessionTypeOK, TurnsOK, Turn
<1>4. q \in turns
  BY <1>3
<1> QED
  BY <1>1, <1>4 DEF LastQuestion

\* What is written, while no two requests have met, comes after everything.
LEMMA NewTurnIsLast ==
  ASSUME SessionInv, overlaps = {}, [Next]_vars, NEW e \in turns', e \notin turns
  PROVE  /\ \A t \in turns : t.sid = e.sid => t.index < e.index
         /\ \A r \in Requests : InFlight(r) /\ req[r].sid = e.sid => Base(r) <= e.index
<1>1. SessionTypeOK /\ LogWritten /\ RequestsSound /\ SeenOrMet /\ InFlightMet
  BY DEF SessionInv
<1>2. PICK s \in Requests : WriteStep(s, e)
  <2>1. turns' # turns
    OBVIOUS
  <2>2. PICK s \in Requests : \E u : WriteStep(s, u)
    BY <1>1, <2>1, StepKinds DEF QuietStep, StartStep
  <2>3. PICK u : WriteStep(s, u)
    BY <2>2
  <2>4. turns' = turns \cup {u}
    BY <2>3 DEF WriteStep, Writes
  <2>5. u = e
    BY <2>4
  <2> QED
    BY <2>3, <2>5
<1>3. \A t \in turns : t.sid = e.sid => t.index < e.index
  BY <1>1, <1>2, NewIndex
<1>4. /\ InFlight(s) /\ e.sid = req[s].sid /\ e.index = Len(req[s].list)
  BY <1>1, <1>2, Writer
<1>5. ASSUME NEW r \in Requests, InFlight(r), req[r].sid = e.sid
      PROVE  Base(r) <= e.index
  <2>1. r = s
    BY <1>1, <1>4, <1>5, MetSymmetric DEF InFlightMet
  <2>2. Len(req[s].list) \in Nat
    BY <1>1, InFlightRequest
  <2> QED
    BY <1>4, <2>1, <2>2 DEF Base
<1> QED
  BY <1>3, <1>5

\* A request comes to be at the item of the last question, and stays there.
LEMMA ItemStep ==
  ASSUME FilingInv, SessionTypeOK', overlaps' = {}, OneLedger', [Next]_vars,
         NEW r \in Requests, req'[r].pc \in AtItem, NEW q \in turns',
         q.sid = req'[r].sid, IsAgent(q), q.index < Base(r)',
         \A t \in turns' :
           t.sid = req'[r].sid /\ IsAgent(t) /\ t.index < Base(r)' => t.index <= q.index
  PROVE  req'[r].item = q.item
<1>1. /\ SessionInv /\ SessionTypeOK /\ AgendasFromLedgers /\ AtLastQuestion
  BY DEF FilingInv, SessionInv
<1>2. overlaps = {} /\ OneLedger
  BY <1>1, OverlapsGrow, LedgersGrow
<1>3. CASE /\ req[r].pc \in AtItem /\ req'[r].sid = req[r].sid /\ req'[r].item = req[r].item
  <2>1. InFlight(r) /\ InFlight(r)' /\ Base(r) \in Int
    BY <1>1, <1>3, InFlightRequest DEF InFlight, AtItem, Base
  <2>2. Base(r)' = Base(r)
    <3>1. CASE QuietStep \/ \E s \in Requests : \E e : WriteStep(s, e)
      BY <1>1, <2>1, <3>1, StillInFlight
    <3>2. ASSUME NEW s \in Requests, StartStep(s)
          PROVE  Base(r)' = Base(r)
      <4>1. s # r
        BY <1>3, <3>2 DEF StartStep, AtItem
      <4> QED
        BY <1>1, <2>1, <3>2, <4>1, StillInFlight
    <3> QED
      BY <1>1, <3>1, <3>2, StepKinds
  <2>3. \A t \in turns' \ turns : t.sid = req[r].sid => t.index >= Base(r)
    <3> SUFFICES ASSUME NEW t \in turns', t \notin turns, t.sid = req[r].sid
                 PROVE  t.index >= Base(r)
      OBVIOUS
    <3>1. Base(r) <= t.index /\ t.index \in Nat
      BY <1>1, <1>2, <2>1, NewTurnIsLast DEF SessionTypeOK, TurnsOK, Turn
    <3> QED
      BY <2>1, <3>1
  <2>4. LastQuestion(req[r].sid, Base(r), q)
    BY <1>1, <1>2, <1>3, <2>1, <2>2, <2>3, LastQuestionStays
  <2> QED
    BY <1>1, <1>2, <1>3, <2>4 DEF AtLastQuestion, LastQuestion
<1>4. CASE TakesPlace(r) /\ req'[r] # req[r]
  <2>1. PICK i \in Instances, sid \in opened :
          \E a \in AgendaOf(i, sid) :
            /\ req'[r].pc = "record" /\ req'[r].sid = sid /\ req'[r].list = Load(turns, sid)
            /\ req'[r].items = a.items /\ req'[r].item = CurrentItem(a.items, Load(turns, sid))
    BY <1>4 DEF TakesPlace
  <2>2. PICK a \in AgendaOf(i, sid) :
            /\ req'[r].pc = "record" /\ req'[r].sid = sid /\ req'[r].list = Load(turns, sid)
            /\ req'[r].items = a.items /\ req'[r].item = CurrentItem(a.items, Load(turns, sid))
    BY <2>1
  <2>3. FromLedger(a.items)
    BY <1>1, AgendaFromLedger
  <2>4. a.items = FirstLedger
    BY <1>1, <1>2, <2>3 DEF FromLedger, Among, OneLedger, AgendasFromLedgers, SessionTypeOK,
                            LedgersOK
  <2>5. \A t \in turns : IsAgent(t) => t.item \in DOMAIN a.items
    BY <1>1, <1>2, <2>4 DEF AgendasFromLedgers, Named
  <2>6. InSequence(turns, sid)
    BY <1>1, <1>2, OpenedInSequence
  <2>7. Base(r)' = Len(Load(turns, sid)) /\ Len(Load(turns, sid)) \in Nat
    BY <1>1, <2>2, LoadType DEF Base, Working
  <2>8. turns' = turns
    <3>1. ASSUME NEW s \in Requests, NEW e, WriteStep(s, e)
          PROVE  FALSE
      BY <1>4, <2>2, <3>1 DEF WriteStep
    <3> QED
      BY <1>1, <3>1, StepKinds DEF QuietStep, StartStep
  <2>9. LastQuestion(sid, Len(Load(turns, sid)), q)
    BY <2>2, <2>7, <2>8 DEF LastQuestion
  <2> QED
    BY <1>1, <2>2, <2>5, <2>6, <2>9, ItemOfLast
<1>5. KeepsPlace(r) \/ TakesPlace(r)
  BY <1>1, PlaceKinds DEF Place, Opens, Asks, AtItem
<1> QED
  BY <1>3, <1>4, <1>5 DEF KeepsPlace, AtItem

\* A minted claim is filed where its request is.
LEMMA MintedAtItem ==
  ASSUME FilingInv, overlaps = {}, OneLedger, [Next]_vars,
         NEW c \in claims', c \notin claims, c.by = "interview", NEW q \in turns,
         LastQuestion(c.sid, c.turn, q)
  PROVE  c.row = q.row
<1>1. /\ SessionTypeOK /\ RequestsSound /\ AgendasFromLedgers /\ AtLastQuestion
  BY DEF FilingInv, SessionInv
<1>2. PICK r \in Requests :
        /\ c.sid = req[r].sid /\ c.turn = Len(req[r].list) - 1
        /\ Plan(r) /\ req[r].item \in DOMAIN req[r].items /\ c.row = req[r].items[req[r].item]
  BY <1>1, Minted
<1>3. req[r].pc = "plan"
  BY <1>2 DEF Plan
<1>4. Base(r) = c.turn
  BY <1>2, <1>3 DEF Base, Working
<1>5. req[r].items = FirstLedger
  BY <1>1, <1>3 DEF FromLedger, Among, OneLedger, AgendasFromLedgers, SessionTypeOK, LedgersOK, AtItem
<1>6. req[r].item = q.item
  BY <1>1, <1>2, <1>3, <1>4 DEF AtLastQuestion, AtItem
<1>7. q.row = FirstLedger[q.item]
  BY <1>1 DEF AgendasFromLedgers, Named, LastQuestion
<1> QED
  BY <1>2, <1>5, <1>6, <1>7

LEMMA AtLastQuestionStep ==
  ASSUME FilingInv, SessionTypeOK', [Next]_vars
  PROVE  AtLastQuestion'
<1> SUFFICES ASSUME overlaps' = {}, OneLedger'
             PROVE  /\ \A r \in Requests : req'[r].pc \in AtItem =>
                         \A q \in turns' : LastQuestion(req[r].sid, Base(r), q)' =>
                                             req'[r].item = q.item
                    /\ \A c \in claims' : c.by = "interview" =>
                         \A q \in turns' : LastQuestion(c.sid, c.turn, q)' => c.row = q.row
  BY DEF AtLastQuestion
<1>1. /\ SessionInv /\ SessionTypeOK /\ LogWritten /\ ClaimsCited /\ AtLastQuestion
  BY DEF FilingInv, SessionInv
<1>2. overlaps = {} /\ OneLedger
  BY <1>1, OverlapsGrow, LedgersGrow
<1>3. ASSUME NEW r \in Requests, req'[r].pc \in AtItem, NEW q \in turns',
             LastQuestion(req[r].sid, Base(r), q)'
      PROVE  req'[r].item = q.item
  BY <1>3, ItemStep DEF LastQuestion
<1>4. ASSUME NEW c \in claims', c.by = "interview", NEW q \in turns',
             LastQuestion(c.sid, c.turn, q)'
      PROVE  c.row = q.row
  <2>1. \E t \in turns : t.sid = c.sid /\ t.index = c.turn
    <3>1. CASE c \in claims
      BY <1>1, <3>1 DEF ClaimsCited
    <3>2. CASE c \notin claims
      <4>1. RequestsSound
        BY <1>1 DEF SessionInv
      <4>2. PICK r \in Requests :
              req[r].pc \in {"extract", "plan"} /\ c.sid = req[r].sid
              /\ c.turn = Len(req[r].list) - 1
        BY <1>1, <3>2, <4>1, Minted
      <4>3. PICK t \in turns : OwnTurn(r, t)
        BY <4>1, <4>2 DEF RequestsSound, RequestSound, Working
      <4> QED
        BY <4>2, <4>3 DEF OwnTurn
    <3> QED
      BY <3>1, <3>2
  <2>2. PICK u \in turns : u.sid = c.sid /\ u.index = c.turn
    BY <2>1
  <2>3. c.turn \in Nat
    BY <1>1, <2>2 DEF SessionTypeOK, TurnsOK, Turn
  <2>4. \A t \in turns' \ turns : t.sid = c.sid => t.index >= c.turn
    <3> SUFFICES ASSUME NEW t \in turns', t \notin turns, t.sid = c.sid
                 PROVE  t.index >= c.turn
      OBVIOUS
    <3>1. u.index < t.index /\ t.index \in Nat
      BY <1>1, <1>2, <2>2, NewTurnIsLast DEF SessionTypeOK, TurnsOK, Turn
    <3> QED
      BY <2>2, <2>3, <3>1
  <2>5. LastQuestion(c.sid, c.turn, q)
    BY <1>1, <1>2, <1>4, <2>3, <2>4, LastQuestionStays DEF LastQuestion
  <2>6. q \in turns
    BY <2>5 DEF LastQuestion
  <2>7. CASE c \in claims
    BY <1>1, <1>2, <1>4, <2>5, <2>6, <2>7 DEF AtLastQuestion
  <2>8. CASE c \notin claims
    BY <1>2, <1>4, <2>5, <2>6, <2>8, MintedAtItem
  <2> QED
    BY <2>7, <2>8
<1> QED
  BY <1>3, <1>4

LEMMA FilingInvInit == Init => FilingInv
<1> SUFFICES ASSUME Init PROVE FilingInv
  OBVIOUS
<1>1. \A r \in Requests : req[r].pc = "idle"
  BY DEF Init, Idle
<1>2. ledgers[1] = FirstLedger /\ turns = {} /\ claims = {} /\ \A i \in Instances : agendas[i] = {}
  BY DEF Init
<1>3. AgendasFromLedgers
  BY <1>1, <1>2 DEF AgendasFromLedgers, AtItem
<1>4. AtLastQuestion
  BY <1>1, <1>2 DEF AtLastQuestion, AtItem
<1> QED
  BY <1>3, <1>4, SessionInvInit DEF FilingInv

LEMMA FilingInvStep == FilingInv /\ [Next]_vars => FilingInv'
<1> SUFFICES ASSUME FilingInv, [Next]_vars PROVE FilingInv'
  OBVIOUS
<1>1. SessionInv' /\ SessionTypeOK /\ AgendasFromLedgers
  BY SessionInvStep DEF FilingInv, SessionInv
<1>2. SessionTypeOK'
  BY <1>1 DEF SessionInv
<1> QED
  BY <1>1, <1>2, AgendasFromLedgersStep, AtLastQuestionStep DEF FilingInv

\* The claim minted from an answer is filed under the disagreement whose
\* question was answered, on whatever instance, with whatever agenda
\* regenerated, while the ledger stays (the service's docstring).
THEOREM AlwaysFiledUnderItsQuestion == Spec => []FiledUnderItsQuestion
<1>1. FilingInv => FiledUnderItsQuestion
  <2> SUFFICES ASSUME FilingInv, overlaps = {}, OneLedger, NEW c \in claims, c.by = "interview"
               PROVE  FiledRightly(c)
    BY DEF FiledUnderItsQuestion, OneLedger
  <2>1. SessionInv /\ SessionTypeOK /\ LogWritten /\ ClaimsCited /\ AtLastQuestion
    BY DEF FilingInv, SessionInv
  <2> DEFINE list == Load(turns, c.sid)
             asked == {n \in Asked(list) : list[n].index < c.turn}
             m == Max(asked)
  <2> SUFFICES ASSUME asked # {} PROVE c.row = list[m].row
    BY DEF FiledRightly
  <2>2. PICK u \in turns : u.sid = c.sid /\ u.index = c.turn
    BY <2>1 DEF ClaimsCited
  <2>3. c.sid \in opened /\ TurnsOK(turns)
    BY <2>1, <2>2 DEF LogWritten, SessionTypeOK
  <2>4. InSequence(turns, c.sid)
    BY <2>1, <2>3, OpenedInSequence
  <2>5. /\ \A n \in DOMAIN list : list[n] \in Own(turns, c.sid) /\ list[n].index = n - 1
        /\ \A t \in Own(turns, c.sid) : t.index + 1 \in DOMAIN list /\ list[t.index + 1] = t
        /\ list \in Seq(Turn)
    BY <2>1, <2>3, <2>4, LoadInSequence, LoadType
  <2> HIDE DEF list
  <2>6. asked \subseteq Asked(list)
    OBVIOUS
  <2>7. m \in asked /\ m \in DOMAIN list /\ IsAgent(list[m]) /\ \A n \in asked : n <= m
    <3> HIDE DEF asked
    <3> QED
      BY <2>5, <2>6, AskedPositions
  <2>8. list[m] \in turns /\ list[m].sid = c.sid /\ list[m].index = m - 1 /\ list[m].index < c.turn
    BY <2>5, <2>7 DEF Own
  <2>9. ASSUME NEW t \in turns, t.sid = c.sid, IsAgent(t), t.index < c.turn
        PROVE  t.index <= list[m].index
    <3>1. t \in Own(turns, c.sid) /\ t.index \in Nat
      BY <2>3, <2>9 DEF Own, TurnsOK, Turn
    <3>2. t.index + 1 \in asked
      BY <2>5, <2>9, <3>1 DEF Asked
    <3>3. m \in Nat
      <4>1. DOMAIN list = 1..Len(list) /\ Len(list) \in Nat
        BY <2>5
      <4> QED
        BY <2>7, <4>1
    <3> QED
      BY <2>7, <2>8, <3>1, <3>2, <3>3
  <2>10. LastQuestion(c.sid, c.turn, list[m])
    BY <2>7, <2>8, <2>9 DEF LastQuestion
  <2> QED
    BY <2>1, <2>8, <2>10 DEF AtLastQuestion
<1> QED
  BY <1>1, FilingInvInit, FilingInvStep, PTL DEF Spec

-----------------------------------------------------------------------------
(* The cached state.                                                       *)

Locations == {"idle", "test", "read", "assign", "stamp", "return", "use", "invalidate"}

CacheTypeOK ==
  /\ log \subseteq Events
  /\ state \in (SUBSET Events) \cup {None}
  /\ pc \in [Threads -> Locations]
  /\ snap \in [Threads -> SUBSET Events]
  /\ got \in [Threads -> (SUBSET Events) \cup {None}]
  /\ event \in [Threads -> Events \cup {None}]
  /\ dropped \subseteq Events \cup {None}
  /\ due \in [Threads -> SUBSET (Events \cup {None})]

\* The writer of an event that is about to drop the cache has appended it.
DropsWritten == \A t \in Threads : pc[t] = "invalidate" => event[t] \in log

\* What a writer has dropped the cache for is, but for the races, in the
\* cached state and in every fold that is about to be cached.
CacheFollows ==
  /\ dropped \subseteq log
  /\ state # None => dropped \ raced \subseteq state
  /\ \A t \in Threads : pc[t] = "assign" => dropped \ raced \subseteq snap[t]

\* What a call may expect to see was dropped by then.
DueDropped == \A t \in Threads : due[t] \subseteq dropped

CacheInv == CacheTypeOK /\ DropsWritten /\ CacheFollows /\ DueDropped /\ NextReadSeesIt

-----------------------------------------------------------------------------
LEMMA CacheInvInit == CacheInit => CacheInv
<1> SUFFICES ASSUME CacheInit PROVE CacheInv
  OBVIOUS
<1>1. CacheTypeOK
  BY DEF CacheInit, CacheTypeOK, Locations
<1>2. DropsWritten /\ CacheFollows /\ DueDropped /\ NextReadSeesIt
  BY DEF CacheInit, DropsWritten, CacheFollows, DueDropped, NextReadSeesIt
<1> QED
  BY <1>1, <1>2 DEF CacheInv

LEMMA CacheTypeStep == CacheTypeOK /\ [CacheNext]_cacheVars => CacheTypeOK'
<1> SUFFICES ASSUME CacheTypeOK, [CacheNext]_cacheVars PROVE CacheTypeOK'
  OBVIOUS
<1> USE DEF CacheTypeOK, Locations, Go, Finish
<1>1. ASSUME NEW t \in Threads, NEW f \in BOOLEAN, Call(t, f) PROVE CacheTypeOK'
  BY <1>1 DEF Call
<1>2. ASSUME NEW t \in Threads, Test(t) PROVE CacheTypeOK'
  BY <1>2 DEF Test
<1>3. ASSUME NEW t \in Threads, Read(t) PROVE CacheTypeOK'
  BY <1>3 DEF Read
<1>4. ASSUME NEW t \in Threads, Assign(t) PROVE CacheTypeOK'
  BY <1>4 DEF Assign
<1>5. ASSUME NEW t \in Threads, Stamp(t) PROVE CacheTypeOK'
  BY <1>5 DEF Stamp
<1>6. ASSUME NEW t \in Threads, Return(t) PROVE CacheTypeOK'
  BY <1>6 DEF Return
<1>7. ASSUME NEW t \in Threads, Answer(t) PROVE CacheTypeOK'
  BY <1>7 DEF Answer
<1>8. ASSUME NEW t \in Threads, NEW e \in Events, AppendEvent(t, e) PROVE CacheTypeOK'
  BY <1>8 DEF AppendEvent
<1>9. ASSUME NEW t \in Threads, Invalidate(t) PROVE CacheTypeOK'
  BY <1>9 DEF Invalidate
<1>10. ASSUME NEW e \in Events, AppendElsewhere(e) PROVE CacheTypeOK'
  BY <1>10 DEF AppendElsewhere
<1>11. CASE Expire \/ UNCHANGED cacheVars
  BY <1>11 DEF Expire, cacheVars
<1> QED
  BY <1>1, <1>2, <1>3, <1>4, <1>5, <1>6, <1>7, <1>8, <1>9, <1>10, <1>11 DEF CacheNext, CacheStep

\* The type invariant of the cache and of its threads' variables.
THEOREM CacheTypeCorrect == CacheSpec => []CacheTypeOK
<1>1. CacheInit => CacheTypeOK
  BY CacheInvInit DEF CacheInv
<1> QED
  BY <1>1, CacheTypeStep, PTL DEF CacheSpec

-----------------------------------------------------------------------------
(* The safety of the cache.                                                *)

LEMMA DropsWrittenStep == CacheTypeOK /\ DropsWritten /\ [CacheNext]_cacheVars => DropsWritten'
<1> SUFFICES ASSUME CacheTypeOK, DropsWritten, [CacheNext]_cacheVars PROVE DropsWritten'
  OBVIOUS
<1> USE DEF DropsWritten, CacheTypeOK, Go, Finish
<1>1. ASSUME NEW t \in Threads, NEW f \in BOOLEAN, Call(t, f) PROVE DropsWritten'
  BY <1>1 DEF Call
<1>2. ASSUME NEW t \in Threads, CacheStep(t) PROVE DropsWritten'
  BY <1>2 DEF CacheStep, Test, Read, Assign, Stamp, Return, Answer, AppendEvent, Invalidate
<1>3. ASSUME NEW e \in Events, AppendElsewhere(e) PROVE DropsWritten'
  BY <1>3 DEF AppendElsewhere
<1>4. CASE Expire \/ UNCHANGED cacheVars
  BY <1>4 DEF Expire, cacheVars
<1> QED
  BY <1>1, <1>2, <1>3, <1>4 DEF CacheNext

LEMMA CacheFollowsStep ==
  CacheTypeOK /\ DropsWritten /\ CacheFollows /\ [CacheNext]_cacheVars => CacheFollows'
<1> SUFFICES ASSUME CacheTypeOK, DropsWritten, CacheFollows, [CacheNext]_cacheVars PROVE CacheFollows'
  OBVIOUS
<1> USE DEF CacheFollows, CacheTypeOK, Go, Finish
<1>1. ASSUME NEW t \in Threads, NEW f \in BOOLEAN, Call(t, f) PROVE CacheFollows'
  BY <1>1 DEF Call
<1>2. ASSUME NEW t \in Threads, Test(t) \/ Stamp(t) \/ Return(t) \/ Answer(t) PROVE CacheFollows'
  BY <1>2 DEF Test, Stamp, Return, Answer
<1>3. ASSUME NEW t \in Threads, Read(t) PROVE CacheFollows'
  BY <1>3 DEF Read
<1>4. ASSUME NEW t \in Threads, Assign(t) PROVE CacheFollows'
  BY <1>4 DEF Assign
<1>5. ASSUME NEW t \in Threads, NEW e \in Events, AppendEvent(t, e) PROVE CacheFollows'
  BY <1>5 DEF AppendEvent
<1>6. ASSUME NEW t \in Threads, Invalidate(t) PROVE CacheFollows'
  BY <1>6 DEF Invalidate, DropsWritten
<1>7. ASSUME NEW e \in Events, AppendElsewhere(e) PROVE CacheFollows'
  BY <1>7 DEF AppendElsewhere
<1>8. CASE Expire \/ UNCHANGED cacheVars
  BY <1>8 DEF Expire, cacheVars
<1> QED
  BY <1>1, <1>2, <1>3, <1>4, <1>5, <1>6, <1>7, <1>8 DEF CacheNext, CacheStep

LEMMA DueDroppedStep == CacheTypeOK /\ DueDropped /\ [CacheNext]_cacheVars => DueDropped'
<1> SUFFICES ASSUME CacheTypeOK, DueDropped, [CacheNext]_cacheVars PROVE DueDropped'
  OBVIOUS
<1> USE DEF DueDropped, CacheTypeOK, Go, Finish
<1>1. ASSUME NEW t \in Threads, NEW f \in BOOLEAN, Call(t, f) PROVE DueDropped'
  BY <1>1 DEF Call
<1>2. ASSUME NEW t \in Threads, CacheStep(t) PROVE DueDropped'
  BY <1>2 DEF CacheStep, Test, Read, Assign, Stamp, Return, Answer, AppendEvent, Invalidate
<1>3. ASSUME NEW e \in Events, AppendElsewhere(e) PROVE DueDropped'
  BY <1>3 DEF AppendElsewhere
<1>4. CASE Expire \/ UNCHANGED cacheVars
  BY <1>4 DEF Expire, cacheVars
<1> QED
  BY <1>1, <1>2, <1>3, <1>4 DEF CacheNext

\* A state is handed out when it is returned: what is due was dropped before
\* the call, and so is in the cached state but for the races.
LEMMA NextReadStep ==
  CacheTypeOK /\ CacheFollows /\ DueDropped /\ NextReadSeesIt /\ [CacheNext]_cacheVars => NextReadSeesIt'
<1> SUFFICES ASSUME CacheTypeOK, CacheFollows, DueDropped, NextReadSeesIt, [CacheNext]_cacheVars
             PROVE  NextReadSeesIt'
  OBVIOUS
<1> USE DEF NextReadSeesIt, CacheTypeOK, Go, Finish
<1>1. ASSUME NEW t \in Threads, NEW f \in BOOLEAN, Call(t, f) PROVE NextReadSeesIt'
  BY <1>1 DEF Call
<1>2. ASSUME NEW t \in Threads, Return(t) PROVE NextReadSeesIt'
  BY <1>2 DEF Return, CacheFollows, DueDropped
<1>3. ASSUME NEW t \in Threads, Test(t) \/ Read(t) \/ Assign(t) \/ Stamp(t) \/ Answer(t)
      PROVE  NextReadSeesIt'
  BY <1>3 DEF Test, Read, Assign, Stamp, Answer
<1>4. ASSUME NEW t \in Threads, NEW e \in Events, AppendEvent(t, e) PROVE NextReadSeesIt'
  BY <1>4 DEF AppendEvent
<1>5. ASSUME NEW t \in Threads, Invalidate(t) PROVE NextReadSeesIt'
  BY <1>5 DEF Invalidate
<1>6. ASSUME NEW e \in Events, AppendElsewhere(e) PROVE NextReadSeesIt'
  BY <1>6 DEF AppendElsewhere
<1>7. CASE Expire \/ UNCHANGED cacheVars
  BY <1>7 DEF Expire, cacheVars
<1> QED
  BY <1>1, <1>2, <1>3, <1>4, <1>5, <1>6, <1>7 DEF CacheNext, CacheStep

\* However many threads share the cache and whoever else appends, the next read
\* after a write sees it, unless an older fold was under way (_Runtime.state
\* and _Runtime.invalidate).
THEOREM NextReadAlwaysSeesIt == CacheSpec => []NextReadSeesIt
<1>1. CacheInv /\ [CacheNext]_cacheVars => CacheInv'
  BY CacheTypeStep, DropsWrittenStep, CacheFollowsStep, DueDroppedStep, NextReadStep DEF CacheInv
<1>2. CacheInv => NextReadSeesIt
  BY DEF CacheInv
<1> QED
  BY CacheInvInit, <1>1, <1>2, PTL DEF CacheSpec
=============================================================================
