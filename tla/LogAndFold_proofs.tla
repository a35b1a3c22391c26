-------------------------- MODULE LogAndFold_proofs --------------------------
(***************************************************************************)
(* The production log and the fold of what is read from it.  For any       *)
(* number of callers and events: the collection is an append-only log      *)
(* whose answered appends are readable, and an event is answered True at   *)
(* most once.  For any events, however many and in whatever order they     *)
(* are read: sorting and applying them one at a time gives the graph that  *)
(* EventFold declares of their set, a late event overturns no decision,    *)
(* and a resolved row stays resolved.                                      *)
(***************************************************************************)
EXTENDS FirestoreEventStore, Fold, FiniteSetTheorems, TLAPS

-----------------------------------------------------------------------------
(* The production store.                                                    *)

\* What the refinement rests on: an event whose create the server has
\* answered is a document, and so is every event append has answered for.
Answered ==
  /\ told \subseteq docs
  /\ \A c \in Callers : pc[c] = "replied" => event[c] \in docs

IInv == TypeOK /\ Answered /\ TrueAtMostOnce

\* Documents, answers and callers stay within their types, for every set of
\* callers and events.
THEOREM TypeCorrect == Spec => []TypeOK
<1>1. Init => TypeOK
  BY DEF Init, TypeOK
<1>2. TypeOK /\ [Next]_vars => TypeOK'
  <2> SUFFICES ASSUME TypeOK, [Next]_vars
               PROVE  TypeOK'
    OBVIOUS
  <2>1. ASSUME NEW c \in Callers, NEW e \in Events, Send(c, e)
        PROVE  TypeOK'
    BY <2>1 DEF Send, TypeOK
  <2>2. ASSUME NEW c \in Callers, Create(c)
        PROVE  TypeOK'
    BY <2>2 DEF Create, TypeOK
  <2>3. ASSUME NEW c \in Callers, Resend(c)
        PROVE  TypeOK'
    BY <2>3 DEF Resend, TypeOK
  <2>4. ASSUME NEW c \in Callers, Return(c)
        PROVE  TypeOK'
    BY <2>4 DEF Return, TypeOK
  <2>5. ASSUME NEW c \in Callers, Raise(c)
        PROVE  TypeOK'
    BY <2>5 DEF Raise, TypeOK
  <2>6. CASE UNCHANGED vars
    BY <2>6 DEF vars, TypeOK
  <2> QED
    BY <2>1, <2>2, <2>3, <2>4, <2>5, <2>6 DEF Next
<1> QED
  BY <1>1, <1>2, PTL DEF Spec

\* The inductive invariant holds in every behaviour.
LEMMA Inductive == Spec => []IInv
<1>1. Init => IInv
  BY DEF Init, IInv, TypeOK, Answered, TrueAtMostOnce, HoldsCreated
<1>2. IInv /\ TypeOK' /\ [Next]_vars => IInv'
  <2> SUFFICES ASSUME IInv, TypeOK', [Next]_vars
               PROVE  Answered' /\ TrueAtMostOnce'
    BY DEF IInv
  <2> USE DEF IInv, TypeOK, Answered, TrueAtMostOnce, HoldsCreated
  <2>1. ASSUME NEW c \in Callers, NEW e \in Events, Send(c, e)
        PROVE  Answered' /\ TrueAtMostOnce'
    BY <2>1 DEF Send
  <2>2. ASSUME NEW c \in Callers, Create(c)
        PROVE  Answered' /\ TrueAtMostOnce'
    <3>1. Answered'
      BY <2>2 DEF Create
    <3>2. ASSUME NEW d \in Callers, HoldsCreated(d)', d # c
          PROVE  /\ HoldsCreated(d)
                 /\ event'[d] \notin wrote'
                 /\ reply'[c] = "created" => event'[c] # event'[d]
      BY <2>2, <3>2 DEF Create
    <3>3. HoldsCreated(c)' => event'[c] \notin wrote'
      BY <2>2 DEF Create
    <3>4. TrueAtMostOnce'
      BY <2>2, <3>2, <3>3 DEF Create
    <3> QED
      BY <3>1, <3>4
  <2>3. ASSUME NEW c \in Callers, Resend(c)
        PROVE  Answered' /\ TrueAtMostOnce'
    BY <2>3 DEF Resend
  <2>4. ASSUME NEW c \in Callers, Return(c)
        PROVE  Answered' /\ TrueAtMostOnce'
    <3>1. Answered'
      BY <2>4 DEF Return
    <3>2. ASSUME NEW d \in Callers, HoldsCreated(d)'
          PROVE  /\ HoldsCreated(d) /\ d # c
                 /\ event'[d] \notin wrote'
      BY <2>4, <3>2 DEF Return
    <3>3. TrueAtMostOnce'
      BY <2>4, <3>2 DEF Return
    <3> QED
      BY <3>1, <3>3
  <2>5. ASSUME NEW c \in Callers, Raise(c)
        PROVE  Answered' /\ TrueAtMostOnce'
    BY <2>5 DEF Raise
  <2>6. CASE UNCHANGED vars
    BY <2>6 DEF vars
  <2> QED
    BY <2>1, <2>2, <2>3, <2>4, <2>5, <2>6 DEF Next
<1> QED
  BY <1>1, <1>2, TypeCorrect, PTL DEF Spec

\* Whatever create calls, lost replies and resends interleave, no event is
\* answered True twice.
THEOREM TrueAtMostOnceAlways == Spec => []TrueAtMostOnce
<1>1. IInv => TrueAtMostOnce
  BY DEF IInv
<1> QED
  BY <1>1, Inductive, PTL

\* The collection implements the append-only log: every step writes, answers
\* for an event of the log, or leaves log and answers alone.
THEOREM Refinement == Spec => ImplementsLog
<1>1. Init => Log!Init
  BY DEF Init, Log!Init
<1>2. IInv /\ [Next]_vars => [Log!Next]_<<docs, told>>
  <2> SUFFICES ASSUME IInv, Next
               PROVE  Log!Next \/ UNCHANGED <<docs, told>>
    BY DEF vars
  <2> USE DEF IInv, TypeOK
  <2>1. ASSUME NEW c \in Callers, Create(c)
        PROVE  Log!Next
    BY <2>1 DEF Create, Log!Next, Log!Write
  <2>2. ASSUME NEW c \in Callers, Return(c)
        PROVE  Log!Next
    BY <2>2 DEF Return, Answered, Log!Next, Log!Answer
  <2>3. ASSUME NEW c \in Callers,
               \/ \E e \in Events : Send(c, e)
               \/ Resend(c)
               \/ Raise(c)
        PROVE  UNCHANGED <<docs, told>>
    BY <2>3 DEF Send, Resend, Raise
  <2> QED
    BY <2>1, <2>2, <2>3 DEF Next
<1> QED
  BY <1>1, <1>2, Inductive, PTL DEF Spec, ImplementsLog, Log!Spec

\* An answered append is never lost.
THEOREM AnsweredIsDurable == Spec => []Log!Durable
<1>1. IInv => Log!Durable
  BY DEF IInv, Answered, Log!Durable
<1> QED
  BY <1>1, Inductive, PTL

-----------------------------------------------------------------------------
(* sorted: finite sets in a strict linear order.                           *)

StrictLinear(R, S) ==
  /\ \A t \in S : <<t, t>> \notin R
  /\ \A t, u, v \in S : <<t, u>> \in R /\ <<u, v>> \in R => <<t, v>> \in R
  /\ \A t, u \in S : t # u => <<t, u>> \in R \/ <<u, t>> \in R

Preceding(R, S, t) == {u \in S : <<u, t>> \in R}

\* Who comes before another has fewer before it.
LEMMA FewerPrecede ==
  ASSUME NEW S, IsFiniteSet(S), NEW R, StrictLinear(R, S),
         NEW t \in S, NEW u \in S, <<t, u>> \in R
  PROVE  Cardinality(Preceding(R, S, t)) < Cardinality(Preceding(R, S, u))
<1>1. /\ Preceding(R, S, t) \subseteq Preceding(R, S, u)
      /\ t \in Preceding(R, S, u) /\ t \notin Preceding(R, S, t)
  BY DEF StrictLinear, Preceding
<1>2. IsFiniteSet(Preceding(R, S, u)) /\ Cardinality(Preceding(R, S, u)) \in Nat
  BY FS_Subset, FS_CardinalityType DEF Preceding
<1>3. /\ IsFiniteSet(Preceding(R, S, t))
      /\ Cardinality(Preceding(R, S, t)) <= Cardinality(Preceding(R, S, u))
      /\ Cardinality(Preceding(R, S, t)) # Cardinality(Preceding(R, S, u))
  BY <1>1, <1>2, FS_Subset
<1> QED
  BY <1>2, <1>3, FS_CardinalityType

\* Every place is taken, and by one element.
EachInItsPlace(R, S, N) ==
  /\ \A t \in S : Cardinality(Preceding(R, S, t)) + 1 \in 1..N
  /\ \A n \in 1..N : \E t \in S : Cardinality(Preceding(R, S, t)) = n - 1
  /\ \A t, u \in S :
       Cardinality(Preceding(R, S, t)) = Cardinality(Preceding(R, S, u)) => t = u

LEMMA OneInEachPlace ==
  ASSUME NEW S, IsFiniteSet(S), NEW R, StrictLinear(R, S)
  PROVE  EachInItsPlace(R, S, Cardinality(S))
<1> DEFINE N == Cardinality(S)
           place == [t \in S |-> Cardinality(Preceding(R, S, t)) + 1]
<1>1. N \in Nat
  BY FS_CardinalityType
<1>2. ASSUME NEW t \in S
      PROVE  Cardinality(Preceding(R, S, t)) \in Nat /\ Cardinality(Preceding(R, S, t)) < N
  <2>1. Preceding(R, S, t) \subseteq S /\ t \notin Preceding(R, S, t)
    BY DEF StrictLinear, Preceding
  <2>2. IsFiniteSet(Preceding(R, S, t)) /\ Cardinality(Preceding(R, S, t)) <= N
        /\ Cardinality(Preceding(R, S, t)) # N
    BY <2>1, FS_Subset
  <2> QED
    BY <2>2, <1>1, FS_CardinalityType
<1>3. \A t, u \in S : Cardinality(Preceding(R, S, t)) = Cardinality(Preceding(R, S, u)) => t = u
  <2> SUFFICES ASSUME NEW t \in S, NEW u \in S, t # u
               PROVE  Cardinality(Preceding(R, S, t)) # Cardinality(Preceding(R, S, u))
    OBVIOUS
  <2>1. <<t, u>> \in R \/ <<u, t>> \in R
    BY DEF StrictLinear
  <2> QED
    BY <2>1, <1>2, FewerPrecede
<1>4. place \in [S -> 1..N]
  BY <1>1, <1>2
<1>5. place \in Injection(S, 1..N)
  BY <1>2, <1>3, <1>4 DEF Injection, IsInjective
<1>6. IsFiniteSet(1..N) /\ Cardinality(1..N) = N
  BY <1>1, FS_Interval
<1>7. place \in Surjection(S, 1..N)
  BY <1>5, <1>6, FS_Injection
<1>8. ASSUME NEW n \in 1..N
      PROVE  \E t \in S : Cardinality(Preceding(R, S, t)) = n - 1
  <2>1. PICK t \in S : place[t] = n
    BY <1>7 DEF Surjection
  <2> QED
    BY <2>1, <1>2
<1> QED
  BY <1>1, <1>2, <1>3, <1>8 DEF EachInItsPlace

\* Some of the first numbers have a least one.
LEMMA LeastNumber ==
  ASSUME NEW N \in Nat, NEW P, P \subseteq 0..N, P # {}
  PROVE  \E n \in P : \A m \in P : n <= m
<1> DEFINE R == {p \in Nat \X Nat : p[1] < p[2]}
<1>1. P \subseteq Nat /\ IsFiniteSet(0..N)
  BY FS_Interval
<1>2. IsFiniteSet(P)
  BY <1>1, FS_Subset
<1>3. StrictLinear(R, P)
  BY <1>1 DEF StrictLinear
<1>4. \A m, n \in P : <<m, n>> \in R <=> m < n
  BY <1>1
<1> HIDE DEF R
<1>5. Cardinality(P) \in Nat /\ Cardinality(P) # 0
  BY <1>2, FS_CardinalityType, FS_EmptySet
<1>6. 1 \in 1..Cardinality(P) /\ 1 - 1 = 0
  BY <1>5
<1>7. EachInItsPlace(R, P, Cardinality(P))
  BY <1>2, <1>3, OneInEachPlace
<1>7a. PICK n \in P : Cardinality(Preceding(R, P, n)) = 0
  BY <1>6, <1>7 DEF EachInItsPlace
<1>8. IsFiniteSet(Preceding(R, P, n))
  BY <1>2, FS_Subset DEF Preceding
<1>9. Preceding(R, P, n) = {}
  BY <1>7a, <1>8, FS_EmptySet
<1>10. \A m \in P : ~(m < n)
  BY <1>4, <1>9 DEF Preceding
<1> QED
  BY <1>1, <1>10

Timed(e) == e.at \in Int /\ e.h \in Int

LEMMA KeysCompare ==
  ASSUME NEW e, NEW f, NEW g, Timed(e), Timed(f), Timed(g)
  PROVE  /\ ~Before(e, e)
         /\ Before(e, f) => ~Before(f, e)
         /\ Before(e, f) /\ Before(f, g) => Before(e, g)
         /\ ~Before(e, f) /\ ~Before(f, g) => ~Before(e, g)
         /\ ~Before(e, f) /\ ~Before(f, e) => e.at = f.at /\ e.h = f.h
  BY DEF Timed, Before

\* A sorted list holds what the list holds, and nothing before what precedes it.
LEMMA SortedInOrder ==
  ASSUME NEW seq, NEW N \in Nat, DOMAIN seq = 1..N, \A i \in 1..N : Timed(seq[i])
  PROVE  /\ DOMAIN Sorted(seq) = 1..N
         /\ \A n \in 1..N : \E i \in 1..N : Sorted(seq)[n] = seq[i]
         /\ \A i \in 1..N : \E n \in 1..N : Sorted(seq)[n] = seq[i]
         /\ \A m, n \in 1..N : m < n => ~Before(Sorted(seq)[n], Sorted(seq)[m])
<1> DEFINE R == {p \in (1..N) \X (1..N) : ComesFirst(seq, p[1], p[2])}
           Ahead(i) == {j \in 1..N : ComesFirst(seq, j, i)}
           who(n) == CHOOSE i \in 1..N : Cardinality(Ahead(i)) = n - 1
<1>1. IsFiniteSet(1..N) /\ Cardinality(1..N) = N
  BY FS_Interval
<1>2. \A i, j \in 1..N : <<j, i>> \in R <=> ComesFirst(seq, j, i)
  OBVIOUS
<1>3. StrictLinear(R, 1..N)
  <2>1. \A i \in 1..N : ~ComesFirst(seq, i, i)
    BY KeysCompare DEF ComesFirst
  <2>2. ASSUME NEW i \in 1..N, NEW j \in 1..N, NEW k \in 1..N,
               ComesFirst(seq, i, j), ComesFirst(seq, j, k)
        PROVE  ComesFirst(seq, i, k)
    <3>1. PICK e, f, g : e = seq[i] /\ f = seq[j] /\ g = seq[k]
      OBVIOUS
    <3>2. Timed(e) /\ Timed(f) /\ Timed(g)
      BY <3>1
    <3>3. /\ Before(e, f) /\ Before(f, g) => Before(e, g)
          /\ ~Before(g, f) /\ ~Before(f, e) => ~Before(g, e)
          /\ ~Before(f, e) /\ ~Before(e, g) => ~Before(f, g)
          /\ ~Before(e, g) /\ ~Before(g, f) => ~Before(e, f)
      BY <3>2, KeysCompare
    <3>4. i < j /\ j < k => i < k
      OBVIOUS
    <3> QED
      BY <2>2, <3>1, <3>3, <3>4 DEF ComesFirst
  <2>3. ASSUME NEW i \in 1..N, NEW j \in 1..N, i # j
        PROVE  ComesFirst(seq, i, j) \/ ComesFirst(seq, j, i)
    BY <2>3 DEF ComesFirst
  <2> HIDE DEF R
  <2> QED
    BY <1>2, <2>1, <2>2, <2>3 DEF StrictLinear
<1>4. \A i \in 1..N : Preceding(R, 1..N, i) = Ahead(i)
  BY <1>2 DEF Preceding
<1> HIDE DEF R
<1>5. /\ \A n \in 1..N : \E i \in 1..N : Cardinality(Ahead(i)) = n - 1
      /\ \A i \in 1..N : Cardinality(Ahead(i)) + 1 \in 1..N
      /\ \A i, j \in 1..N : Cardinality(Ahead(i)) = Cardinality(Ahead(j)) => i = j
      /\ \A i, j \in 1..N : ComesFirst(seq, i, j) => Cardinality(Ahead(i)) < Cardinality(Ahead(j))
  <2> HIDE DEF Ahead
  <2>1. /\ \A n \in 1..N : \E i \in 1..N : Cardinality(Preceding(R, 1..N, i)) = n - 1
        /\ \A i \in 1..N : Cardinality(Preceding(R, 1..N, i)) + 1 \in 1..N
        /\ \A i, j \in 1..N :
             Cardinality(Preceding(R, 1..N, i)) = Cardinality(Preceding(R, 1..N, j)) => i = j
    <3>1. EachInItsPlace(R, 1..N, N)
      BY <1>1, <1>3, OneInEachPlace
    <3> QED
      BY <3>1 DEF EachInItsPlace
  <2>2. \A i, j \in 1..N : <<i, j>> \in R =>
          Cardinality(Preceding(R, 1..N, i)) < Cardinality(Preceding(R, 1..N, j))
    BY <1>1, <1>3, FewerPrecede
  <2> QED
    BY <1>2, <1>4, <2>1, <2>2
<1>6. Sorted(seq) = [n \in 1..N |-> seq[who(n)]]
  BY DEF Sorted
<1>7. \A n \in 1..N : who(n) \in 1..N /\ Cardinality(Ahead(who(n))) = n - 1
  BY <1>5
<1>8. \A n \in 1..N : Sorted(seq)[n] = seq[who(n)]
  BY <1>6
<1> HIDE DEF who, Ahead
<1>9. ASSUME NEW i \in 1..N
      PROVE  \E n \in 1..N : Sorted(seq)[n] = seq[i]
  <2>1. PICK n \in 1..N : n = Cardinality(Ahead(i)) + 1
    BY <1>5
  <2>2. IsFiniteSet(Ahead(i))
    BY <1>1, FS_Subset DEF Ahead
  <2>3. Cardinality(Ahead(i)) = n - 1
    BY <2>1, <2>2, FS_CardinalityType
  <2>4. who(n) = i
    BY <2>3, <1>5, <1>7
  <2> QED
    BY <2>4, <1>8
<1>10. ASSUME NEW m \in 1..N, NEW n \in 1..N, m < n, Before(seq[who(n)], seq[who(m)])
       PROVE  FALSE
  <2>1. ComesFirst(seq, who(n), who(m))
    BY <1>10 DEF ComesFirst
  <2>2. Cardinality(Ahead(who(n))) < Cardinality(Ahead(who(m)))
    BY <2>1, <1>5, <1>7
  <2>3. n - 1 < m - 1
    BY <2>2, <1>7
  <2> QED
    BY <2>3, <1>10
<1> QED
  BY <1>6, <1>7, <1>8, <1>9, <1>10

-----------------------------------------------------------------------------
(* fold: a list is folded from left to right.                              *)

LEMMA LastOfInterval ==
  ASSUME NEW n \in Nat, n > 0, NEW s, s \subseteq 1..n, n \in s
  PROVE  Max(s) = n
<1>1. \A x \in s : x >= n => x = n
  OBVIOUS
<1>2. \E x \in s : \A y \in s : x >= y
  OBVIOUS
<1>3. Max(s) \in s /\ \A y \in s : Max(s) >= y
  BY <1>2 DEF Max
<1> QED
  BY <1>1, <1>3

Body(f, seq, s) == IF s = {} THEN EmptyState ELSE Apply(f[s \ {Max(s)}], seq[Max(s)])

Iterates(f, seq, n) == f = [s \in SUBSET (1..n) |-> Body(f, seq, s)]

\* The function that FoldLeft recurses with exists on the first n positions if
\* it does on those before.
LEMMA IterateNext ==
  ASSUME NEW seq, NEW n \in Nat, n > 0, NEW f, Iterates(f, seq, n - 1)
  PROVE  \E g : Iterates(g, seq, n)
<1> DEFINE g == [s \in SUBSET (1..n) |-> IF n \in s THEN Apply(f[s \ {n}], seq[n]) ELSE f[s]]
<1>1. \A s \in SUBSET (1..(n - 1)) : g[s] = f[s]
  OBVIOUS
<1>2. ASSUME NEW s \in SUBSET (1..n)
      PROVE  g[s] = Body(g, seq, s)
  <2>1. CASE n \in s
    <3>1. Max(s) = n
      BY <2>1, LastOfInterval
    <3>2. s \ {n} \in SUBSET (1..(n - 1))
      OBVIOUS
    <3>3. g[s \ {n}] = f[s \ {n}]
      BY <1>1, <3>2
    <3>4. g[s] = Apply(f[s \ {n}], seq[n])
      BY <2>1
    <3> HIDE DEF g
    <3> QED
      BY <2>1, <3>1, <3>3, <3>4 DEF Body
  <2>2. CASE n \notin s /\ s # {}
    <3>1. s \in SUBSET (1..(n - 1))
      BY <2>2
    <3>1a. s \ {Max(s)} \in SUBSET (1..(n - 1))
      BY <3>1
    <3>2. f[s] = Body(f, seq, s)
      BY <3>1 DEF Iterates
    <3>3. g[s] = f[s] /\ g[s \ {Max(s)}] = f[s \ {Max(s)}]
      BY <1>1, <3>1, <3>1a
    <3> HIDE DEF g
    <3> QED
      BY <2>2, <3>2, <3>3 DEF Body
  <2>3. CASE s = {}
    <3>1. s \in SUBSET (1..(n - 1))
      BY <2>3
    <3>2. f[s] = Body(f, seq, s)
      BY <3>1 DEF Iterates
    <3>3. g[s] = f[s]
      BY <1>1, <3>1
    <3> HIDE DEF g
    <3> QED
      BY <2>3, <3>2, <3>3 DEF Body
  <2> QED
    BY <2>1, <2>2, <2>3
<1>3. g = [s \in SUBSET (1..n) |-> g[s]]
  OBVIOUS
<1> HIDE DEF g
<1>4. Iterates(g, seq, n)
  BY <1>2, <1>3 DEF Iterates
<1> QED
  BY <1>4

LEMMA IterateFirst ==
  ASSUME NEW seq
  PROVE  \E f : Iterates(f, seq, 0)
<1> DEFINE f == [s \in SUBSET (1..0) |-> EmptyState]
<1>1. \A s \in SUBSET (1..0) : f[s] = Body(f, seq, s)
  <2>1. \A s \in SUBSET (1..0) : s = {}
    OBVIOUS
  <2> QED
    BY <2>1 DEF Body
<1>2. f = [s \in SUBSET (1..0) |-> f[s]]
  OBVIOUS
<1> HIDE DEF f
<1> QED
  BY <1>1, <1>2 DEF Iterates

\* It exists for a list of any length: else there is a shortest one without.
LEMMA IterateExists ==
  ASSUME NEW seq, NEW N \in Nat
  PROVE  \E f : Iterates(f, seq, N)
<1> DEFINE P == {n \in 0..N : ~\E f : Iterates(f, seq, n)}
<1> SUFFICES ASSUME P # {} PROVE FALSE
  OBVIOUS
<1>1. PICK n \in P : \A m \in P : n <= m
  BY LeastNumber
<1>2. n # 0
  BY IterateFirst
<1>3. n - 1 \in 0..N /\ n - 1 \notin P /\ n \in Nat /\ n > 0
  BY <1>1, <1>2
<1>4. PICK f : Iterates(f, seq, n - 1)
  BY <1>3
<1> QED
  BY <1>3, <1>4, IterateNext

\* The states a list is folded through.
Through(f, seq, N) ==
  /\ f[0] = EmptyState
  /\ \A n \in 1..N : f[n] = Apply(f[n - 1], seq[n])

LEMMA FoldedThrough ==
  ASSUME NEW seq, NEW N \in Nat, DOMAIN seq = 1..N
  PROVE  \E f : Through(f, seq, N) /\ f[N] = FoldLeft(Apply, EmptyState, seq)
<1> DEFINE iter == CHOOSE f : f = [s \in SUBSET (1..N) |->
                             IF s = {} THEN EmptyState
                             ELSE Apply(f[s \ {Max(s)}], seq[Max(s)])]
           f == [n \in 0..N |-> iter[1..n]]
<1>1. FoldLeft(Apply, EmptyState, seq) = iter[1..N]
  BY DEF FoldLeft, MapThenFoldSet
<1>2. iter = CHOOSE g : Iterates(g, seq, N)
  BY DEF Iterates, Body
<1> HIDE DEF iter
<1>3. Iterates(iter, seq, N)
  BY <1>2, IterateExists
<1>4. f[0] = EmptyState
  <2>1. 1..0 = {} /\ {} \in SUBSET (1..N)
    OBVIOUS
  <2>2. iter[{}] = EmptyState
    BY <1>3, <2>1 DEF Iterates, Body
  <2> QED
    BY <2>1, <2>2
<1>5. ASSUME NEW n \in 1..N
      PROVE  f[n] = Apply(f[n - 1], seq[n])
  <2>1. 1..n \subseteq 1..N /\ n \in 1..n
    OBVIOUS
  <2>1a. (1..n) \ {n} = 1..(n - 1)
    OBVIOUS
  <2>2. Max(1..n) = n
    BY <2>1, LastOfInterval
  <2>3. iter[1..n] = Apply(iter[1..(n - 1)], seq[n])
    BY <1>3, <2>1, <2>1a, <2>2 DEF Iterates, Body
  <2> QED
    BY <2>3
<1>6. f[N] = iter[1..N]
  OBVIOUS
<1> HIDE DEF f
<1> QED
  BY <1>1, <1>4, <1>5, <1>6 DEF Through

-----------------------------------------------------------------------------
(* What one more event, the latest of all, changes in the meaning of a log. *)

Ordered(S) ==
  /\ \A e \in S : Timed(e)
  /\ \A e, f \in S : e.at = f.at /\ e.h = f.h => e = f

ComesLast(e, S) == Ordered(S \cup {e}) /\ \A f \in S : ~Before(e, f)

LEMMA OthersBefore ==
  ASSUME NEW S, NEW e, ComesLast(e, S)
  PROVE  \A f \in S : f = e \/ Before(f, e)
  BY KeysCompare DEF ComesLast, Ordered

LEMMA OneLatest ==
  ASSUME NEW S, Ordered(S), NEW T, T \subseteq S, NEW e, NEW f, IsLatest(e, T), IsLatest(f, T)
  PROVE  e = f
<1>1. e \in S /\ f \in S /\ Timed(e) /\ Timed(f)
  BY DEF IsLatest, Ordered
<1>2. Before(e, f) => ~Before(f, e)
  BY <1>1, KeysCompare
<1> QED
  BY <1>2 DEF IsLatest

LEMMA OtherTypesStay ==
  ASSUME NEW L, NEW e, NEW T, e.type \notin T
  PROVE  OfType(L \cup {e}, T) = OfType(L, T)
  BY DEF OfType

\* What e adds to the events that count for c: itself, if c is known.
Added(e, L, c, T) == {f \in {e} : f.type \in T /\ f.claim = c /\ c \in KnownClaims(L)}

LEMMA EffectiveAfter ==
  ASSUME NEW L, NEW e, ComesLast(e, L), NEW c, NEW T, "claim.asserted" \notin T
  PROVE  EffectiveOn(L \cup {e}, c, T) = EffectiveOn(L, c, T) \cup Added(e, L, c, T)
<1> DEFINE M == L \cup {e}
<1>1. ASSUME NEW f \in EffectiveOn(M, c, T)
      PROVE  f \in EffectiveOn(L, c, T) \/
             (f = e /\ e.type \in T /\ e.claim = c /\ c \in KnownClaims(L))
  <2>1. f \in M /\ f.type \in T /\ f.claim = c
    BY DEF EffectiveOn, OfType
  <2>2. PICK a \in M : a.type = "claim.asserted" /\ a.claim = c /\ Before(a, f)
    BY DEF EffectiveOn, OfType
  <2>3. ~Before(e, f)
    BY <2>1, KeysCompare DEF ComesLast, Ordered
  <2>4. a \in L
    BY <2>2, <2>3
  <2>5. c \in KnownClaims(L)
    BY <2>2, <2>4 DEF KnownClaims, OfType
  <2>6. CASE f \in L
    BY <2>1, <2>2, <2>4, <2>6 DEF EffectiveOn, OfType
  <2> QED
    BY <2>1, <2>5, <2>6
<1>2. ASSUME NEW f \in EffectiveOn(L, c, T)
      PROVE  f \in EffectiveOn(M, c, T)
  BY DEF EffectiveOn, OfType
<1>3. ASSUME e.type \in T, e.claim = c, c \in KnownClaims(L)
      PROVE  e \in EffectiveOn(M, c, T)
  <2>1. PICK a \in L : a.type = "claim.asserted" /\ a.claim = c
    BY <1>3 DEF KnownClaims, OfType
  <2>2. a # e
    BY <1>3, <2>1
  <2>3. Before(a, e)
    BY <2>1, <2>2, OthersBefore
  <2> QED
    BY <1>3, <2>1, <2>3 DEF EffectiveOn, OfType
<1> QED
  BY <1>1, <1>2, <1>3 DEF Added

SoleLatest(e, S) == IsLatest(e, S) /\ \A f : IsLatest(f, S) => f = e

LEMMA LastIsLatest ==
  ASSUME NEW L, NEW e, ComesLast(e, L), NEW D, D \subseteq L
  PROVE  SoleLatest(e, D \cup {e})
<1>1. IsLatest(e, D \cup {e})
  BY OthersBefore DEF IsLatest
<1>2. D \cup {e} \subseteq L \cup {e} /\ Ordered(L \cup {e})
  BY DEF ComesLast
<1> QED
  BY <1>1, <1>2, OneLatest DEF SoleLatest

\* The event that settles c: one of these types, on a claim that is known.
Settles(e, L, c, T) == e.type \in T /\ e.claim = c /\ c \in KnownClaims(L)

LEMMA EffectiveInLog ==
  ASSUME NEW L, NEW c, NEW T
  PROVE  EffectiveOn(L, c, T) \subseteq L /\ (c \notin KnownClaims(L) => EffectiveOn(L, c, T) = {})
  BY DEF EffectiveOn, OfType, KnownClaims

LEMMA SettledAfter ==
  ASSUME NEW L, NEW e, ComesLast(e, L), NEW c, NEW T, "claim.asserted" \notin T
  PROVE  /\ ~Settles(e, L, c, T) => EffectiveOn(L \cup {e}, c, T) = EffectiveOn(L, c, T)
         /\ Settles(e, L, c, T) => SoleLatest(e, EffectiveOn(L \cup {e}, c, T))
<1>1. CASE ~Settles(e, L, c, T)
  <2>1. Added(e, L, c, T) = {}
    BY <1>1 DEF Settles, Added
  <2> QED
    BY <1>1, <2>1, EffectiveAfter
<1>2. CASE Settles(e, L, c, T)
  <2>1. Added(e, L, c, T) = {e}
    BY <1>2 DEF Settles, Added
  <2>2. EffectiveOn(L \cup {e}, c, T) = EffectiveOn(L, c, T) \cup {e}
    BY <2>1, EffectiveAfter
  <2> QED
    BY <1>2, <2>2, LastIsLatest, EffectiveInLog
<1> QED
  BY <1>1, <1>2

DecidedTier(type) == IF type = "claim.committed" THEN "committed" ELSE "rejected"

\* A log in which g is the last decision on c.
LEMMA TierOfLatest ==
  ASSUME NEW L, NEW c, NEW g, SoleLatest(g, Decisions(L, c))
  PROVE  Tier(L, c) = DecidedTier(g.type)
<1>1. g.type \in DecisionTypes
  BY DEF SoleLatest, IsLatest, Decisions, EffectiveOn, OfType
<1>2. \A type : DecidedAs(L, c, type) <=> g.type = type
  BY DEF DecidedAs, SoleLatest, IsLatest
<1> QED
  BY <1>1, <1>2 DEF Tier, DecidedTier, DecisionTypes

LEMMA TierAfter ==
  ASSUME NEW L, NEW e, ComesLast(e, L), NEW c
  PROVE  /\ ~Settles(e, L, c, DecisionTypes) => Tier(L \cup {e}, c) = Tier(L, c)
         /\ Settles(e, L, c, DecisionTypes) => Tier(L \cup {e}, c) = DecidedTier(e.type)
<1>1. "claim.asserted" \notin DecisionTypes
  BY DEF DecisionTypes
<1>2. CASE ~Settles(e, L, c, DecisionTypes)
  <2>1. Decisions(L \cup {e}, c) = Decisions(L, c)
    BY <1>1, <1>2, SettledAfter DEF Decisions
  <2>2. \A type : DecidedAs(L \cup {e}, c, type) <=> DecidedAs(L, c, type)
    BY <2>1 DEF DecidedAs
  <2> QED
    BY <1>2, <2>2 DEF Tier
<1>3. CASE Settles(e, L, c, DecisionTypes)
  <2>1. SoleLatest(e, Decisions(L \cup {e}, c))
    BY <1>1, <1>3, SettledAfter DEF Decisions
  <2> QED
    BY <1>3, <2>1, TierOfLatest
<1> QED
  BY <1>2, <1>3

ChoiceTypes == {"claim.visibility_set"}

LEMMA VisibilityAfter ==
  ASSUME NEW L, NEW e, ComesLast(e, L), NEW c
  PROVE  /\ ~Settles(e, L, c, ChoiceTypes) => Visibility(L \cup {e}, c) = Visibility(L, c)
         /\ Settles(e, L, c, ChoiceTypes) => Visibility(L \cup {e}, c) = ParsedVisibility(e.vis)
<1> DEFINE before == EffectiveOn(L, c, ChoiceTypes)
           after == EffectiveOn(L \cup {e}, c, ChoiceTypes)
<1>1. "claim.asserted" \notin ChoiceTypes
  BY DEF ChoiceTypes
<1>2. /\ Visibility(L, c) = IF before = {} THEN "private"
                            ELSE ParsedVisibility((CHOOSE f \in before : IsLatest(f, before)).vis)
      /\ Visibility(L \cup {e}, c) =
                            IF after = {} THEN "private"
                            ELSE ParsedVisibility((CHOOSE f \in after : IsLatest(f, after)).vis)
  BY DEF Visibility, ChoiceTypes
<1>3. CASE ~Settles(e, L, c, ChoiceTypes)
  <2>1. after = before
    BY <1>1, <1>3, SettledAfter
  <2> HIDE DEF after, before
  <2> QED
    BY <1>2, <1>3, <2>1
<1>4. CASE Settles(e, L, c, ChoiceTypes)
  <2>1. SoleLatest(e, after)
    BY <1>1, <1>4, SettledAfter
  <2> HIDE DEF after, before
  <2>2. e \in after
    BY <2>1 DEF IsLatest, SoleLatest
  <2>3. (CHOOSE f \in after : IsLatest(f, after)) = e
    BY <2>1, <2>2 DEF SoleLatest
  <2> QED
    BY <1>2, <1>4, <2>2, <2>3
<1> QED
  BY <1>3, <1>4

LEMMA UnknownIsPending ==
  ASSUME NEW L, NEW c, c \notin KnownClaims(L)
  PROVE  Tier(L, c) = "pending" /\ Visibility(L, c) = "private"
<1>1. \A T : EffectiveOn(L, c, T) = {}
  BY EffectiveInLog
<1>2. Decisions(L, c) = {}
  BY <1>1 DEF Decisions
<1>3. \A type : ~DecidedAs(L, c, type)
  BY <1>2 DEF DecidedAs
<1> QED
  BY <1>1, <1>3 DEF Tier, Visibility

LEMMA KnownAfter ==
  ASSUME NEW L, NEW e
  PROVE  KnownClaims(L \cup {e}) =
           IF e.type = "claim.asserted" THEN KnownClaims(L) \cup {e.claim} ELSE KnownClaims(L)
  BY DEF KnownClaims, OfType

LEMMA RowsAfter ==
  ASSUME NEW L, NEW e
  PROVE  Rows(L \cup {e}) =
           IF e.type = "contradiction.detected" THEN Rows(L) \cup {e.row} ELSE Rows(L)
  BY DEF Rows, OfType

LEMMA ResolvedAfter ==
  ASSUME NEW L, NEW e, ComesLast(e, L)
  PROVE  \A k : k \in Resolved(L \cup {e}) <=>
           k \in Resolved(L) \/ (e.type = "contradiction.resolved" /\ k = e.row /\ k \in Rows(L))
<1> DEFINE M == L \cup {e}
<1>1. ASSUME NEW k \in Resolved(M)
      PROVE  k \in Resolved(L) \/
             (e.type = "contradiction.resolved" /\ k = e.row /\ k \in Rows(L))
  <2>1. \E r, d \in M : /\ r.type = "contradiction.resolved" /\ d.type = "contradiction.detected"
                        /\ r.row = k /\ d.row = k /\ Before(d, r)
    BY DEF Resolved, OfType
  <2>2. PICK r, d \in M : /\ r.type = "contradiction.resolved"
                          /\ d.type = "contradiction.detected"
                          /\ r.row = k /\ d.row = k /\ Before(d, r)
    BY <2>1
  <2>3. d \in L
    BY <2>2, KeysCompare DEF ComesLast, Ordered
  <2>4. k \in Rows(L)
    BY <2>2, <2>3 DEF Rows, OfType
  <2>5. CASE r \in L
    BY <2>2, <2>3, <2>4, <2>5 DEF Resolved, OfType
  <2> QED
    BY <2>2, <2>4, <2>5
<1>2. ASSUME NEW k \in Resolved(L)
      PROVE  k \in Resolved(M)
  BY DEF Resolved, Rows, OfType
<1>3. ASSUME e.type = "contradiction.resolved", e.row \in Rows(L)
      PROVE  e.row \in Resolved(M)
  <2>1. PICK d \in L : d.type = "contradiction.detected" /\ d.row = e.row
    BY <1>3 DEF Rows, OfType
  <2>2. Before(d, e)
    BY <1>3, <2>1, OthersBefore
  <2> QED
    BY <1>3, <2>1, <2>2 DEF Resolved, Rows, OfType
<1> QED
  BY <1>1, <1>2, <1>3

Links(L) == OfType(L, {"entity.alias_linked"})
Own(L, a) == {f \in Links(L) : f.alias = a}
LinkTo(L, a) == (CHOOSE f \in Own(L, a) : IsLatest(f, Own(L, a))).canonical
Linked(L) == {f.alias : f \in Links(L)}

LEMMA AliasesMean ==
  ASSUME NEW L
  PROVE  Aliases(L) = [a \in Linked(L) |-> LinkTo(L, a)]
  BY DEF Aliases, Linked, LinkTo, Own, Links

LEMMA LinksAfter ==
  ASSUME NEW L, NEW e, ComesLast(e, L), e.type = "entity.alias_linked"
  PROVE  /\ Linked(L \cup {e}) = Linked(L) \cup {e.alias}
         /\ LinkTo(L \cup {e}, e.alias) = e.canonical
         /\ \A a \in Linked(L) : a # e.alias => LinkTo(L \cup {e}, a) = LinkTo(L, a)
<1>1. Links(L \cup {e}) = Links(L) \cup {e}
  BY DEF Links, OfType
<1>2. Linked(L \cup {e}) = Linked(L) \cup {e.alias}
  BY <1>1 DEF Linked
<1>3. Own(L \cup {e}, e.alias) = Own(L, e.alias) \cup {e}
  BY <1>1 DEF Own
<1>4. Own(L, e.alias) \subseteq L
  BY DEF Own, Links, OfType
<1>5. SoleLatest(e, Own(L \cup {e}, e.alias))
  BY <1>3, <1>4, LastIsLatest
<1>6. e \in Own(L \cup {e}, e.alias)
  BY <1>3
<1>7. LinkTo(L \cup {e}, e.alias) = e.canonical
  BY <1>5, <1>6 DEF LinkTo, SoleLatest
<1>8. ASSUME NEW a, a # e.alias
      PROVE  LinkTo(L \cup {e}, a) = LinkTo(L, a)
  <2>1. Own(L \cup {e}, a) = Own(L, a)
    BY <1>1, <1>8 DEF Own
  <2> QED
    BY <2>1 DEF LinkTo
<1> QED
  BY <1>2, <1>7, <1>8

-----------------------------------------------------------------------------
(* The state a log means, and that one more event, applied, means one more. *)

ClaimState(L, c) == [tier |-> Tier(L, c), visibility |-> Visibility(L, c)]
ClaimsOf(L) == [c \in KnownClaims(L) |-> ClaimState(L, c)]
RowState(L, k) == IF k \in Resolved(L) THEN "resolved" ELSE "open"
RowsOf(L) == [k \in Rows(L) |-> RowState(L, k)]
NightsOf(L) == {e.at : e \in Heartbeats(L)}

State(claims, rows, aliases, adjudicated, nights) ==
  [claims |-> claims, rows |-> rows, aliases |-> aliases,
   adjudicated |-> adjudicated, heartbeats |-> nights]

Means(state, L) ==
  \E nights \in Seq(Int) :
    /\ ToSet(nights) = NightsOf(L)
    /\ state = State(ClaimsOf(L), RowsOf(L), Aliases(L), Adjudicated(L), nights)

ClaimTypes == {"claim.asserted", "claim.visibility_set"} \cup DecisionTypes
RowTypes == {"contradiction.detected", "contradiction.resolved"}

LEMMA ClaimsStay ==
  ASSUME NEW L, NEW e, ComesLast(e, L), e.type \notin ClaimTypes
  PROVE  ClaimsOf(L \cup {e}) = ClaimsOf(L)
<1>1. KnownClaims(L \cup {e}) = KnownClaims(L)
  BY KnownAfter DEF ClaimTypes
<1>2. ASSUME NEW c
      PROVE  ClaimState(L \cup {e}, c) = ClaimState(L, c)
  <2>1. ~Settles(e, L, c, DecisionTypes) /\ ~Settles(e, L, c, ChoiceTypes)
    BY DEF Settles, ClaimTypes, ChoiceTypes
  <2>2. Tier(L \cup {e}, c) = Tier(L, c) /\ Visibility(L \cup {e}, c) = Visibility(L, c)
    BY <2>1, TierAfter, VisibilityAfter
  <2> QED
    BY <2>2 DEF ClaimState
<1> QED
  BY <1>1, <1>2, Zenon DEF ClaimsOf

LEMMA RowsStay ==
  ASSUME NEW L, NEW e, ComesLast(e, L), e.type \notin RowTypes
  PROVE  RowsOf(L \cup {e}) = RowsOf(L)
<1>1. Rows(L \cup {e}) = Rows(L)
  BY RowsAfter DEF RowTypes
<1>2. \A k : RowState(L \cup {e}, k) = RowState(L, k)
  BY ResolvedAfter DEF RowState, RowTypes
<1> QED
  BY <1>1, <1>2, Zenon DEF RowsOf

LEMMA AliasesStay ==
  ASSUME NEW L, NEW e, e.type # "entity.alias_linked"
  PROVE  Aliases(L \cup {e}) = Aliases(L)
<1>1. Links(L \cup {e}) = Links(L)
  BY OtherTypesStay DEF Links
<1>2. Linked(L \cup {e}) = Linked(L) /\ \A a : Own(L \cup {e}, a) = Own(L, a)
  BY <1>1, Zenon DEF Linked, Own
<1>3. ASSUME NEW a
      PROVE  LinkTo(L \cup {e}, a) = LinkTo(L, a)
  <2>1. Own(L \cup {e}, a) = Own(L, a)
    BY <1>2
  <2> QED
    BY <2>1 DEF LinkTo
<1>4. /\ Aliases(L) = [a \in Linked(L) |-> LinkTo(L, a)]
      /\ Aliases(L \cup {e}) = [a \in Linked(L \cup {e}) |-> LinkTo(L \cup {e}, a)]
  BY AliasesMean
<1> QED
  BY <1>2, <1>3, <1>4, Zenon

LEMMA AdjudicatedAfter ==
  ASSUME NEW L, NEW e
  PROVE  Adjudicated(L \cup {e}) =
           IF e.type = "claim.adjudicated" THEN Adjudicated(L) \cup {e.claim} ELSE Adjudicated(L)
  BY DEF Adjudicated, OfType

LEMMA NightsAfter ==
  ASSUME NEW L, NEW e
  PROVE  NightsOf(L \cup {e}) =
           IF e.type = "heartbeat" THEN NightsOf(L) \cup {e.at} ELSE NightsOf(L)
  BY DEF NightsOf, Heartbeats, OfType

(* What one event does to the state. *)

Retiered(claims, c, tier) ==
  IF c \notin DOMAIN claims THEN claims
  ELSE [x \in DOMAIN claims |->
          IF x = c THEN [tier |-> tier, visibility |-> claims[x].visibility] ELSE claims[x]]

Reopened(claims, c, visibility) ==
  IF c \notin DOMAIN claims THEN claims
  ELSE [x \in DOMAIN claims |->
          IF x = c THEN [tier |-> claims[x].tier, visibility |-> visibility] ELSE claims[x]]

Fresh == [tier |-> "pending", visibility |-> "private"]

\* claims is a function to records of a tier and a visibility.
IsClaims(claims) ==
  \A c \in DOMAIN claims :
    claims[c] = [tier |-> claims[c].tier, visibility |-> claims[c].visibility]

LEMMA RetierFields ==
  ASSUME NEW cl, cl = [c \in DOMAIN cl |-> cl[c]], IsClaims(cl),
         NEW rw, NEW al, NEW ad, NEW hb, NEW c, NEW tier
  PROVE  Retier(State(cl, rw, al, ad, hb), c, tier) = State(Retiered(cl, c, tier), rw, al, ad, hb)
<1>1. State(cl, rw, al, ad, hb).claims = cl
  BY DEF State
<1>2. CASE c \notin DOMAIN cl
  BY <1>1, <1>2 DEF Retier, Retiered
<1>3. CASE c \in DOMAIN cl
  <2>1. [cl[c] EXCEPT !.tier = tier] = [tier |-> tier, visibility |-> cl[c].visibility]
    BY <1>3 DEF IsClaims
  <2>2. [cl EXCEPT ![c] = [tier |-> tier, visibility |-> cl[c].visibility]] = Retiered(cl, c, tier)
    BY <1>3 DEF Retiered
  <2>3. [cl EXCEPT ![c].tier = tier] = Retiered(cl, c, tier)
    BY <2>1, <2>2
  <2>4. [State(cl, rw, al, ad, hb) EXCEPT !.claims[c].tier = tier]
          = State([cl EXCEPT ![c].tier = tier], rw, al, ad, hb)
    BY DEF State
  <2> QED
    BY <1>1, <1>3, <2>3, <2>4 DEF Retier
<1> QED
  BY <1>2, <1>3

LEMMA VisibilityFields ==
  ASSUME NEW cl, cl = [c \in DOMAIN cl |-> cl[c]], IsClaims(cl),
         NEW rw, NEW al, NEW ad, NEW hb, NEW c, NEW raw
  PROVE  SetVisibility(State(cl, rw, al, ad, hb), c, raw)
           = State(Reopened(cl, c, ParsedVisibility(raw)), rw, al, ad, hb)
<1> DEFINE v == ParsedVisibility(raw)
<1> HIDE DEF v
<1>1. State(cl, rw, al, ad, hb).claims = cl
  BY DEF State
<1>2. CASE c \notin DOMAIN cl
  BY <1>1, <1>2 DEF SetVisibility, Reopened
<1>3. CASE c \in DOMAIN cl
  <2>1. [cl[c] EXCEPT !.visibility = v] = [tier |-> cl[c].tier, visibility |-> v]
    BY <1>3 DEF IsClaims
  <2>2. [cl EXCEPT ![c] = [tier |-> cl[c].tier, visibility |-> v]] = Reopened(cl, c, v)
    BY <1>3 DEF Reopened
  <2>3. [cl EXCEPT ![c].visibility = v] = Reopened(cl, c, v)
    BY <2>1, <2>2
  <2>4. [State(cl, rw, al, ad, hb) EXCEPT !.claims[c].visibility = v]
          = State([cl EXCEPT ![c].visibility = v], rw, al, ad, hb)
    BY DEF State
  <2> QED
    BY <1>1, <1>3, <2>3, <2>4 DEF SetVisibility, v
<1> QED
  BY <1>2, <1>3

\* The state after e.
Applied(cl, rw, al, ad, hb, e) ==
  LET state == State(cl, rw, al, ad, hb)
  IN  /\ e.type = "claim.asserted" =>
           Apply(state, e) = State(SetDefault(cl, e.claim, Fresh), rw, al, ad, hb)
      /\ e.type \in DecisionTypes =>
           Apply(state, e) = State(Retiered(cl, e.claim, DecidedTier(e.type)), rw, al, ad, hb)
      /\ e.type = "claim.visibility_set" =>
           Apply(state, e) = State(Reopened(cl, e.claim, ParsedVisibility(e.vis)), rw, al, ad, hb)
      /\ e.type = "claim.adjudicated" =>
           Apply(state, e) = State(cl, rw, al, ad \cup {e.claim}, hb)
      /\ e.type = "contradiction.detected" =>
           Apply(state, e) = State(cl, SetDefault(rw, e.row, "open"), al, ad, hb)
      /\ e.type = "contradiction.resolved" =>
           Apply(state, e) = State(cl, SetKnown(rw, e.row, "resolved"), al, ad, hb)
      /\ e.type = "entity.alias_linked" =>
           Apply(state, e) = State(cl, rw, SetItem(al, e.alias, e.canonical), ad, hb)
      /\ e.type = "heartbeat" =>
           Apply(state, e) = State(cl, rw, al, ad, Append(hb, e.at))
      /\ e.type \in {"session.opened", "session.turn", "session.closed", "session.proposed"} =>
           Apply(state, e) = state

LEMMA ApplyFields ==
  ASSUME NEW cl, cl = [c \in DOMAIN cl |-> cl[c]], IsClaims(cl),
         NEW rw, NEW al, NEW ad, NEW hb, NEW e
  PROVE  Applied(cl, rw, al, ad, hb, e)
<1> DEFINE state == State(cl, rw, al, ad, hb)
<1>1. CASE e.type = "claim.asserted"
  <2>1. Apply(state, e) = [state EXCEPT !.claims = SetDefault(state.claims, e.claim, Fresh)]
    BY <1>1 DEF Apply, Fresh
  <2> QED
    BY <1>1, <2>1 DEF Applied, State, DecisionTypes
<1>2. CASE e.type \in DecisionTypes
  <2>1. Apply(state, e) = Retier(state, e.claim, DecidedTier(e.type))
    BY <1>2 DEF Apply, DecisionTypes, DecidedTier
  <2> QED
    BY <1>2, <2>1, RetierFields DEF Applied, DecisionTypes
<1>3. CASE e.type = "claim.visibility_set"
  <2>1. Apply(state, e) = SetVisibility(state, e.claim, e.vis)
    BY <1>3 DEF Apply
  <2> QED
    BY <1>3, <2>1, VisibilityFields DEF Applied, DecisionTypes
<1>4. CASE e.type = "claim.adjudicated"
  <2>1. Apply(state, e) = [state EXCEPT !.adjudicated = @ \cup {e.claim}]
    BY <1>4 DEF Apply
  <2> QED
    BY <1>4, <2>1 DEF Applied, State, DecisionTypes
<1>5. CASE e.type = "contradiction.detected"
  <2>1. Apply(state, e) = [state EXCEPT !.rows = SetDefault(@, e.row, "open")]
    BY <1>5 DEF Apply
  <2> QED
    BY <1>5, <2>1 DEF Applied, State, DecisionTypes
<1>6. CASE e.type = "contradiction.resolved"
  <2>1. Apply(state, e) = [state EXCEPT !.rows = SetKnown(@, e.row, "resolved")]
    BY <1>6 DEF Apply
  <2> QED
    BY <1>6, <2>1 DEF Applied, State, DecisionTypes
<1>7. CASE e.type = "entity.alias_linked"
  <2>1. Apply(state, e) = [state EXCEPT !.aliases = SetItem(@, e.alias, e.canonical)]
    BY <1>7 DEF Apply
  <2> QED
    BY <1>7, <2>1 DEF Applied, State, DecisionTypes
<1>8. CASE e.type = "heartbeat"
  <2>1. Apply(state, e) = [state EXCEPT !.heartbeats = Append(@, e.at)]
    BY <1>8 DEF Apply
  <2> QED
    BY <1>8, <2>1 DEF Applied, State, DecisionTypes
<1>9. CASE e.type \in {"session.opened", "session.turn", "session.closed", "session.proposed"}
  <2>1. Apply(state, e) = state
    BY <1>9 DEF Apply
  <2> QED
    BY <1>9, <2>1 DEF Applied, DecisionTypes
<1>10. CASE e.type \notin {"claim.asserted", "claim.visibility_set", "claim.adjudicated",
                           "contradiction.detected", "contradiction.resolved",
                           "entity.alias_linked", "heartbeat", "session.opened", "session.turn",
                           "session.closed", "session.proposed"} \cup DecisionTypes
  BY <1>10 DEF Applied
<1> HIDE DEF state
<1> QED
  BY <1>1, <1>2, <1>3, <1>4, <1>5, <1>6, <1>7, <1>8, <1>9, <1>10 DEF DecisionTypes

LEMMA FunctionsOfLog ==
  ASSUME NEW L
  PROVE  /\ DOMAIN ClaimsOf(L) = KnownClaims(L)
         /\ \A c \in KnownClaims(L) : ClaimsOf(L)[c] = ClaimState(L, c)
         /\ ClaimsOf(L) = [c \in DOMAIN ClaimsOf(L) |-> ClaimsOf(L)[c]]
         /\ IsClaims(ClaimsOf(L))
         /\ DOMAIN RowsOf(L) = Rows(L)
         /\ \A k \in Rows(L) : RowsOf(L)[k] = RowState(L, k)
         /\ DOMAIN Aliases(L) = Linked(L)
         /\ \A a \in Linked(L) : Aliases(L)[a] = LinkTo(L, a)
<1>1. DOMAIN ClaimsOf(L) = KnownClaims(L)
      /\ \A c \in KnownClaims(L) : ClaimsOf(L)[c] = ClaimState(L, c)
  BY DEF ClaimsOf
<1>2. ClaimsOf(L) = [c \in DOMAIN ClaimsOf(L) |-> ClaimsOf(L)[c]]
  BY DEF ClaimsOf
<1>3. IsClaims(ClaimsOf(L))
  BY <1>1 DEF IsClaims, ClaimState
<1>4. DOMAIN RowsOf(L) = Rows(L) /\ \A k \in Rows(L) : RowsOf(L)[k] = RowState(L, k)
  BY DEF RowsOf
<1>5. DOMAIN Aliases(L) = Linked(L) /\ \A a \in Linked(L) : Aliases(L)[a] = LinkTo(L, a)
  BY AliasesMean
<1> QED
  BY <1>1, <1>2, <1>3, <1>4, <1>5

\* The table of claims after an event about a claim.
LEMMA ClaimsAfter ==
  ASSUME NEW L, NEW e, ComesLast(e, L)
  PROVE  /\ e.type = "claim.asserted" =>
              ClaimsOf(L \cup {e}) = SetDefault(ClaimsOf(L), e.claim, Fresh)
         /\ e.type \in DecisionTypes =>
              ClaimsOf(L \cup {e}) = Retiered(ClaimsOf(L), e.claim, DecidedTier(e.type))
         /\ e.type = "claim.visibility_set" =>
              ClaimsOf(L \cup {e}) = Reopened(ClaimsOf(L), e.claim, ParsedVisibility(e.vis))
<1> DEFINE M == L \cup {e}
<1>0. /\ DOMAIN ClaimsOf(L) = KnownClaims(L)
      /\ \A c \in KnownClaims(L) : ClaimsOf(L)[c] = ClaimState(L, c)
      /\ ClaimsOf(M) = [c \in KnownClaims(M) |-> ClaimState(M, c)]
  BY FunctionsOfLog DEF ClaimsOf
<1>a. \A c : /\ ~Settles(e, L, c, DecisionTypes) => Tier(M, c) = Tier(L, c)
             /\ Settles(e, L, c, DecisionTypes) => Tier(M, c) = DecidedTier(e.type)
             /\ ~Settles(e, L, c, ChoiceTypes) => Visibility(M, c) = Visibility(L, c)
             /\ Settles(e, L, c, ChoiceTypes) => Visibility(M, c) = ParsedVisibility(e.vis)
  BY TierAfter, VisibilityAfter
<1>b. KnownClaims(M) =
        IF e.type = "claim.asserted" THEN KnownClaims(L) \cup {e.claim} ELSE KnownClaims(L)
  BY KnownAfter
<1> HIDE DEF M
<1>1. CASE e.type = "claim.asserted"
  <2>1. \A c : ClaimState(M, c) = ClaimState(L, c)
    BY <1>a, <1>1 DEF Settles, DecisionTypes, ChoiceTypes, ClaimState
  <2>2. e.claim \notin KnownClaims(L) => ClaimState(L, e.claim) = Fresh
    BY UnknownIsPending DEF ClaimState, Fresh
  <2>3. KnownClaims(M) = KnownClaims(L) \cup {e.claim}
    BY <1>b, <1>1
  <2>4. CASE e.claim \in KnownClaims(L)
    <3>1. KnownClaims(M) = KnownClaims(L)
      BY <2>3, <2>4
    <3>2. ClaimsOf(M) = ClaimsOf(L)
      BY <2>1, <3>1, Zenon DEF ClaimsOf
    <3> QED
      BY <3>2, <2>4, <1>0, <1>1 DEF SetDefault, DecisionTypes, M
  <2>5. CASE e.claim \notin KnownClaims(L)
    <3>1. SetDefault(ClaimsOf(L), e.claim, Fresh)
            = [c \in KnownClaims(M) |-> IF c = e.claim THEN Fresh ELSE ClaimsOf(L)[c]]
      BY <1>0, <2>3, <2>5 DEF SetDefault, SetItem
    <3>2. \A c \in KnownClaims(M) :
            ClaimState(M, c) = IF c = e.claim THEN Fresh ELSE ClaimsOf(L)[c]
      BY <1>0, <2>1, <2>2, <2>3, <2>5
    <3>3. ClaimsOf(M) = SetDefault(ClaimsOf(L), e.claim, Fresh)
      BY <3>1, <3>2, <1>0
    <3> QED
      BY <3>3, <1>1 DEF DecisionTypes, M
  <2> QED
    BY <2>4, <2>5
<1>2. CASE e.type \in DecisionTypes
  <2>1. KnownClaims(M) = KnownClaims(L)
    BY <1>b, <1>2 DEF DecisionTypes
  <2>2. \A c \in KnownClaims(L) :
          /\ Tier(M, c) = IF c = e.claim THEN DecidedTier(e.type) ELSE Tier(L, c)
          /\ Visibility(M, c) = Visibility(L, c)
    BY <1>a, <1>2 DEF Settles, ChoiceTypes, DecisionTypes
  <2>3. \A c \in KnownClaims(L) :
          ClaimState(M, c) = IF c = e.claim
                             THEN [tier |-> DecidedTier(e.type), visibility |-> ClaimsOf(L)[c].visibility]
                             ELSE ClaimsOf(L)[c]
    BY <1>0, <2>2 DEF ClaimState
  <2>4. CASE e.claim \in KnownClaims(L)
    <3>1. Retiered(ClaimsOf(L), e.claim, DecidedTier(e.type))
            = [c \in KnownClaims(L) |->
                 IF c = e.claim
                 THEN [tier |-> DecidedTier(e.type), visibility |-> ClaimsOf(L)[c].visibility]
                 ELSE ClaimsOf(L)[c]]
      BY <1>0, <2>4, Zenon DEF Retiered
    <3>2. ClaimsOf(M) = Retiered(ClaimsOf(L), e.claim, DecidedTier(e.type))
      BY <3>1, <2>1, <2>3, <1>0
    <3> QED
      BY <3>2, <1>2 DEF DecisionTypes, M
  <2>5. CASE e.claim \notin KnownClaims(L)
    <3>1. \A c \in KnownClaims(L) : ClaimState(M, c) = ClaimState(L, c)
      BY <1>0, <2>3, <2>5
    <3>2. ClaimsOf(M) = ClaimsOf(L)
      BY <2>1, <3>1, Zenon DEF ClaimsOf
    <3> QED
      BY <3>2, <2>5, <1>0, <1>2 DEF Retiered, DecisionTypes, M
  <2> QED
    BY <2>4, <2>5
<1>3. CASE e.type = "claim.visibility_set"
  <2>1. KnownClaims(M) = KnownClaims(L)
    BY <1>b, <1>3
  <2>2. \A c \in KnownClaims(L) :
          /\ Tier(M, c) = Tier(L, c)
          /\ Visibility(M, c) = IF c = e.claim THEN ParsedVisibility(e.vis) ELSE Visibility(L, c)
    BY <1>a, <1>3 DEF Settles, ChoiceTypes, DecisionTypes
  <2>3. \A c \in KnownClaims(L) :
          ClaimState(M, c) = IF c = e.claim
                             THEN [tier |-> ClaimsOf(L)[c].tier, visibility |-> ParsedVisibility(e.vis)]
                             ELSE ClaimsOf(L)[c]
    BY <1>0, <2>2 DEF ClaimState
  <2>4. CASE e.claim \in KnownClaims(L)
    <3>1. Reopened(ClaimsOf(L), e.claim, ParsedVisibility(e.vis))
            = [c \in KnownClaims(L) |->
                 IF c = e.claim
                 THEN [tier |-> ClaimsOf(L)[c].tier, visibility |-> ParsedVisibility(e.vis)]
                 ELSE ClaimsOf(L)[c]]
      BY <1>0, <2>4, Zenon DEF Reopened
    <3>2. ClaimsOf(M) = Reopened(ClaimsOf(L), e.claim, ParsedVisibility(e.vis))
      BY <3>1, <2>1, <2>3, <1>0
    <3> QED
      BY <3>2, <1>3 DEF DecisionTypes, M
  <2>5. CASE e.claim \notin KnownClaims(L)
    <3>1. \A c \in KnownClaims(L) : ClaimState(M, c) = ClaimState(L, c)
      BY <1>0, <2>3, <2>5
    <3>2. ClaimsOf(M) = ClaimsOf(L)
      BY <2>1, <3>1, Zenon DEF ClaimsOf
    <3> QED
      BY <3>2, <2>5, <1>0, <1>3 DEF Reopened, DecisionTypes, M
  <2> QED
    BY <2>4, <2>5
<1> QED
  BY <1>1, <1>2, <1>3 DEF DecisionTypes

\* The ledger after a detection or a resolution, the edges after a link.
LEMMA RowsOfAfter ==
  ASSUME NEW L, NEW e, ComesLast(e, L)
  PROVE  /\ e.type = "contradiction.detected" =>
              RowsOf(L \cup {e}) = SetDefault(RowsOf(L), e.row, "open")
         /\ e.type = "contradiction.resolved" =>
              RowsOf(L \cup {e}) = SetKnown(RowsOf(L), e.row, "resolved")
<1> DEFINE M == L \cup {e}
<1>0. /\ DOMAIN RowsOf(L) = Rows(L) /\ \A k \in Rows(L) : RowsOf(L)[k] = RowState(L, k)
      /\ RowsOf(L) = [k \in Rows(L) |-> RowState(L, k)]
      /\ RowsOf(M) = [k \in Rows(M) |-> RowState(M, k)]
  BY FunctionsOfLog DEF RowsOf
<1>a. /\ \A k : k \in Resolved(M) <=> k \in Resolved(L) \/
                     (e.type = "contradiction.resolved" /\ k = e.row /\ k \in Rows(L))
      /\ Rows(M) = IF e.type = "contradiction.detected" THEN Rows(L) \cup {e.row} ELSE Rows(L)
      /\ Resolved(L) \subseteq Rows(L)
  BY ResolvedAfter, RowsAfter DEF Resolved
<1> HIDE DEF M
<1>1. CASE e.type = "contradiction.detected"
  <2>1. \A k : RowState(M, k) = RowState(L, k)
    BY <1>a, <1>1 DEF RowState
  <2>2. CASE e.row \in Rows(L)
    <3>1. RowsOf(M) = RowsOf(L)
      BY <1>0, <1>a, <1>1, <2>1, <2>2
    <3> QED
      BY <3>1, <2>2, <1>0, <1>1 DEF SetDefault, M
  <2>3. CASE e.row \notin Rows(L)
    <3>1. SetDefault(RowsOf(L), e.row, "open")
            = [k \in Rows(M) |-> IF k = e.row THEN "open" ELSE RowsOf(L)[k]]
      BY <1>0, <1>a, <1>1, <2>3 DEF SetDefault, SetItem
    <3>2. \A k \in Rows(M) :
            RowState(M, k) = IF k = e.row THEN "open" ELSE RowsOf(L)[k]
      BY <1>0, <1>a, <1>1, <2>1, <2>3 DEF RowState
    <3>3. RowsOf(M) = SetDefault(RowsOf(L), e.row, "open")
      BY <3>1, <3>2, <1>0
    <3> QED
      BY <3>3, <1>1 DEF M
  <2> QED
    BY <2>2, <2>3
<1>2. CASE e.type = "contradiction.resolved"
  <2>1. CASE e.row \notin Rows(L)
    <3>1. \A k : RowState(M, k) = RowState(L, k)
      BY <1>a, <2>1 DEF RowState
    <3>2. RowsOf(M) = RowsOf(L)
      BY <1>0, <1>a, <1>2, <3>1
    <3> QED
      BY <3>2, <2>1, <1>0, <1>2 DEF SetKnown, M
  <2>2. CASE e.row \in Rows(L)
    <3>1. SetKnown(RowsOf(L), e.row, "resolved")
            = [k \in Rows(M) |-> IF k = e.row THEN "resolved" ELSE RowsOf(L)[k]]
      BY <1>0, <1>a, <1>2, <2>2 DEF SetKnown, SetItem
    <3>2. \A k \in Rows(M) :
            RowState(M, k) = IF k = e.row THEN "resolved" ELSE RowsOf(L)[k]
      BY <1>0, <1>a, <1>2, <2>2 DEF RowState
    <3>3. RowsOf(M) = SetKnown(RowsOf(L), e.row, "resolved")
      BY <3>1, <3>2, <1>0
    <3> QED
      BY <3>3, <1>2 DEF M
  <2> QED
    BY <2>1, <2>2
<1> QED
  BY <1>1, <1>2

LEMMA AliasesAfter ==
  ASSUME NEW L, NEW e, ComesLast(e, L), e.type = "entity.alias_linked"
  PROVE  Aliases(L \cup {e}) = SetItem(Aliases(L), e.alias, e.canonical)
<1> DEFINE M == L \cup {e}
<1>1. /\ Linked(M) = Linked(L) \cup {e.alias}
      /\ LinkTo(M, e.alias) = e.canonical
      /\ \A a \in Linked(L) : a # e.alias => LinkTo(M, a) = LinkTo(L, a)
  BY LinksAfter
<1>2. /\ DOMAIN Aliases(L) = Linked(L) /\ \A a \in Linked(L) : Aliases(L)[a] = LinkTo(L, a)
      /\ Aliases(M) = [a \in Linked(M) |-> LinkTo(M, a)]
  BY FunctionsOfLog, AliasesMean
<1> HIDE DEF M
<1>3. SetItem(Aliases(L), e.alias, e.canonical)
        = [a \in Linked(M) |-> IF a = e.alias THEN e.canonical ELSE Aliases(L)[a]]
  BY <1>1, <1>2 DEF SetItem
<1>4. \A a \in Linked(M) : LinkTo(M, a) = IF a = e.alias THEN e.canonical ELSE Aliases(L)[a]
  BY <1>1, <1>2
<1>5. Aliases(M) = SetItem(Aliases(L), e.alias, e.canonical)
  BY <1>2, <1>3, <1>4
<1> QED
  BY <1>5 DEF M

LEMMA AppendedTo ==
  ASSUME NEW s \in Seq(Int), NEW x \in Int
  PROVE  Append(s, x) \in Seq(Int) /\ ToSet(Append(s, x)) = ToSet(s) \cup {x}
<1>1. Append(s, x) \in Seq(Int)
  OBVIOUS
<1>2. /\ DOMAIN s = 1..Len(s) /\ Len(s) \in Nat
      /\ DOMAIN Append(s, x) = 1..(Len(s) + 1)
      /\ \A i \in 1..Len(s) : Append(s, x)[i] = s[i]
      /\ Append(s, x)[Len(s) + 1] = x
  OBVIOUS
<1>3. \A i \in 1..(Len(s) + 1) : i \in 1..Len(s) \/ i = Len(s) + 1
  BY <1>2
<1>4. \A i \in 1..Len(s) : i \in 1..(Len(s) + 1)
  BY <1>2
<1>5. Len(s) + 1 \in 1..(Len(s) + 1)
  BY <1>2
<1> QED
  BY <1>1, <1>2, <1>3, <1>4, <1>5 DEF ToSet

\* Applied to the state a log means, its next event gives what they mean together.
LEMMA ApplyMeans ==
  ASSUME NEW L, NEW e, ComesLast(e, L), e.type \in EventTypes, NEW state, Means(state, L)
  PROVE  Means(Apply(state, e), L \cup {e})
<1> DEFINE M == L \cup {e}
<1>1. PICK hb \in Seq(Int) :
        /\ ToSet(hb) = NightsOf(L)
        /\ state = State(ClaimsOf(L), RowsOf(L), Aliases(L), Adjudicated(L), hb)
  BY DEF Means
<1>2. e.at \in Int
  BY DEF ComesLast, Ordered, Timed
<1>3. Applied(ClaimsOf(L), RowsOf(L), Aliases(L), Adjudicated(L), hb, e)
  BY FunctionsOfLog, ApplyFields
<1>4. /\ e.type \notin ClaimTypes => ClaimsOf(M) = ClaimsOf(L)
      /\ e.type \notin RowTypes => RowsOf(M) = RowsOf(L)
      /\ e.type # "entity.alias_linked" => Aliases(M) = Aliases(L)
  BY ClaimsStay, RowsStay, AliasesStay
<1>5. /\ Adjudicated(M) =
           IF e.type = "claim.adjudicated" THEN Adjudicated(L) \cup {e.claim} ELSE Adjudicated(L)
      /\ NightsOf(M) = IF e.type = "heartbeat" THEN NightsOf(L) \cup {e.at} ELSE NightsOf(L)
  BY AdjudicatedAfter, NightsAfter
<1> HIDE DEF M
<1> SUFFICES \E nights \in Seq(Int) :
               /\ ToSet(nights) = NightsOf(M)
               /\ Apply(state, e)
                    = State(ClaimsOf(M), RowsOf(M), Aliases(M), Adjudicated(M), nights)
  BY DEF Means, M
<1>6. CASE e.type = "claim.asserted"
  <2>1. Apply(state, e)
          = State(SetDefault(ClaimsOf(L), e.claim, Fresh), RowsOf(L), Aliases(L), Adjudicated(L), hb)
    BY <1>1, <1>3, <1>6 DEF Applied
  <2>2. ClaimsOf(M) = SetDefault(ClaimsOf(L), e.claim, Fresh)
    BY <1>6, ClaimsAfter DEF M
  <2> QED
    BY <1>1, <1>4, <1>5, <1>6, <2>1, <2>2 DEF RowTypes
<1>7. CASE e.type \in DecisionTypes
  <2>1. Apply(state, e)
          = State(Retiered(ClaimsOf(L), e.claim, DecidedTier(e.type)),
                  RowsOf(L), Aliases(L), Adjudicated(L), hb)
    BY <1>1, <1>3, <1>7 DEF Applied
  <2>2. ClaimsOf(M) = Retiered(ClaimsOf(L), e.claim, DecidedTier(e.type))
    BY <1>7, ClaimsAfter DEF M
  <2> QED
    BY <1>1, <1>4, <1>5, <1>7, <2>1, <2>2 DEF RowTypes, DecisionTypes
<1>8. CASE e.type = "claim.visibility_set"
  <2>1. Apply(state, e)
          = State(Reopened(ClaimsOf(L), e.claim, ParsedVisibility(e.vis)),
                  RowsOf(L), Aliases(L), Adjudicated(L), hb)
    BY <1>1, <1>3, <1>8 DEF Applied
  <2>2. ClaimsOf(M) = Reopened(ClaimsOf(L), e.claim, ParsedVisibility(e.vis))
    BY <1>8, ClaimsAfter DEF M
  <2> QED
    BY <1>1, <1>4, <1>5, <1>8, <2>1, <2>2 DEF RowTypes
<1>9. CASE e.type = "contradiction.detected"
  <2>1. Apply(state, e)
          = State(ClaimsOf(L), SetDefault(RowsOf(L), e.row, "open"), Aliases(L), Adjudicated(L), hb)
    BY <1>1, <1>3, <1>9 DEF Applied
  <2>2. RowsOf(M) = SetDefault(RowsOf(L), e.row, "open")
    BY <1>9, RowsOfAfter DEF M
  <2> QED
    BY <1>1, <1>4, <1>5, <1>9, <2>1, <2>2 DEF ClaimTypes, DecisionTypes
<1>10. CASE e.type = "contradiction.resolved"
  <2>1. Apply(state, e)
          = State(ClaimsOf(L), SetKnown(RowsOf(L), e.row, "resolved"),
                  Aliases(L), Adjudicated(L), hb)
    BY <1>1, <1>3, <1>10 DEF Applied
  <2>2. RowsOf(M) = SetKnown(RowsOf(L), e.row, "resolved")
    BY <1>10, RowsOfAfter DEF M
  <2> QED
    BY <1>1, <1>4, <1>5, <1>10, <2>1, <2>2 DEF ClaimTypes, DecisionTypes
<1>11. CASE e.type = "entity.alias_linked"
  <2>1. Apply(state, e)
          = State(ClaimsOf(L), RowsOf(L), SetItem(Aliases(L), e.alias, e.canonical),
                  Adjudicated(L), hb)
    BY <1>1, <1>3, <1>11 DEF Applied
  <2>2. Aliases(M) = SetItem(Aliases(L), e.alias, e.canonical)
    BY <1>11, AliasesAfter DEF M
  <2> QED
    BY <1>1, <1>4, <1>5, <1>11, <2>1, <2>2 DEF ClaimTypes, RowTypes, DecisionTypes
<1>12. CASE e.type = "claim.adjudicated"
  <2>1. Apply(state, e)
          = State(ClaimsOf(L), RowsOf(L), Aliases(L), Adjudicated(L) \cup {e.claim}, hb)
    BY <1>1, <1>3, <1>12 DEF Applied
  <2> QED
    BY <1>1, <1>4, <1>5, <1>12, <2>1 DEF ClaimTypes, RowTypes, DecisionTypes
<1>13. CASE e.type = "heartbeat"
  <2>1. Apply(state, e)
          = State(ClaimsOf(L), RowsOf(L), Aliases(L), Adjudicated(L), Append(hb, e.at))
    BY <1>1, <1>3, <1>13 DEF Applied
  <2>2. Append(hb, e.at) \in Seq(Int) /\ ToSet(Append(hb, e.at)) = ToSet(hb) \cup {e.at}
    BY <1>2, AppendedTo
  <2> QED
    BY <1>1, <1>4, <1>5, <1>13, <2>1, <2>2 DEF ClaimTypes, RowTypes, DecisionTypes
<1>14. CASE e.type \in {"session.opened", "session.turn", "session.closed", "session.proposed"}
  <2>1. Apply(state, e) = state
    BY <1>1, <1>3, <1>14 DEF Applied
  <2> QED
    BY <1>1, <1>4, <1>5, <1>14, <2>1 DEF ClaimTypes, RowTypes, DecisionTypes
<1> QED
  BY <1>6, <1>7, <1>8, <1>9, <1>10, <1>11, <1>12, <1>13, <1>14 DEF EventTypes

LEMMA EmptyFunction ==
  ASSUME NEW f, NEW S, S = {}, f = [x \in S |-> f[x]]
  PROVE  f = <<>>
  OBVIOUS

LEMMA EmptyMeans == Means(EmptyState, {})
<1>1. /\ KnownClaims({}) = {} /\ Rows({}) = {} /\ Linked({}) = {} /\ Adjudicated({}) = {}
      /\ NightsOf({}) = {}
  BY DEF KnownClaims, Rows, Linked, Links, Adjudicated, NightsOf, Heartbeats, OfType
<1>2. <<>> \in Seq(Int) /\ ToSet(<<>>) = {} /\ DOMAIN <<>> = {}
  BY DEF ToSet
<1>a. /\ ClaimsOf({}) = [c \in KnownClaims({}) |-> ClaimsOf({})[c]]
      /\ RowsOf({}) = [k \in Rows({}) |-> RowsOf({})[k]]
      /\ Aliases({}) = [a \in Linked({}) |-> Aliases({})[a]]
  BY AliasesMean DEF ClaimsOf, RowsOf
<1>3. ClaimsOf({}) = <<>> /\ RowsOf({}) = <<>> /\ Aliases({}) = <<>>
  BY <1>1, <1>a, EmptyFunction
<1> QED
  BY <1>1, <1>2, <1>3 DEF Means, State, EmptyState

\* A list of events, folded, is in the state that the set of its events means.
LEMMA FoldedMeans ==
  ASSUME NEW seq, NEW N \in Nat, DOMAIN seq = 1..N, NEW S, S = {seq[i] : i \in 1..N},
         Ordered(S), \A e \in S : e.type \in EventTypes
  PROVE  Means(Folded(seq), S)
<1> DEFINE sorted == Sorted(seq)
           Prefix(n) == {sorted[i] : i \in 1..n}
<1>1. \A i \in 1..N : Timed(seq[i])
  BY DEF Ordered
<1>2. /\ DOMAIN sorted = 1..N
      /\ \A n \in 1..N : \E i \in 1..N : sorted[n] = seq[i]
      /\ \A i \in 1..N : \E n \in 1..N : sorted[n] = seq[i]
      /\ \A m, n \in 1..N : m < n => ~Before(sorted[n], sorted[m])
  BY <1>1, SortedInOrder
<1> HIDE DEF sorted
<1>3. Prefix(N) = S
  BY <1>2
<1>4. \E f : Through(f, sorted, N) /\ f[N] = FoldLeft(Apply, EmptyState, sorted)
  BY <1>2, FoldedThrough
<1>5. PICK f : Through(f, sorted, N) /\ f[N] = FoldLeft(Apply, EmptyState, sorted)
  BY <1>4
<1> DEFINE P == {n \in 0..N : ~Means(f[n], Prefix(n))}
<1>6. P = {}
  <2> SUFFICES ASSUME P # {} PROVE FALSE
    OBVIOUS
  <2>1. P \subseteq 0..N
    OBVIOUS
  <2>2. \E n \in P : \A m \in P : n <= m
    <3> HIDE DEF P
    <3> QED
      BY <2>1, LeastNumber
  <2>3. PICK n \in P : \A m \in P : n <= m
    BY <2>2
  <2>4. n \in 0..N /\ ~Means(f[n], Prefix(n))
    OBVIOUS
  <2>5. n # 0
    <3>1. Prefix(0) = {}
      OBVIOUS
    <3>2. Means(f[0], {})
      BY <1>5, EmptyMeans DEF Through
    <3> QED
      BY <2>4, <3>1, <3>2
  <2>6. n \in 1..N /\ n - 1 \in 0..N /\ ~(n <= n - 1)
    BY <2>4, <2>5
  <2>7. Means(f[n - 1], Prefix(n - 1))
    <3>1. n - 1 \notin P
      BY <2>3, <2>6
    <3> QED
      BY <3>1, <2>6
  <2>8. Prefix(n) = Prefix(n - 1) \cup {sorted[n]}
    <3>1. ASSUME NEW i \in 1..n PROVE i \in 1..(n - 1) \/ i = n
      BY <2>6
    <3>2. ASSUME NEW i \in 1..(n - 1) PROVE i \in 1..n
      BY <2>6
    <3>3. n \in 1..n
      BY <2>6
    <3> QED
      BY <3>1, <3>2, <3>3
  <2>9. ComesLast(sorted[n], Prefix(n - 1))
    <3>1. ASSUME NEW i \in 1..(n - 1) PROVE i \in 1..N /\ i < n
      BY <2>6
    <3>2. Prefix(n - 1) \cup {sorted[n]} \subseteq S
      BY <1>2, <2>6, <3>1
    <3>3. \A g \in Prefix(n - 1) : ~Before(sorted[n], g)
      BY <1>2, <2>6, <3>1
    <3> HIDE DEF Prefix
    <3> QED
      BY <3>2, <3>3 DEF ComesLast, Ordered
  <2>10. f[n] = Apply(f[n - 1], sorted[n])
    BY <1>5, <2>6 DEF Through
  <2>11. sorted[n].type \in EventTypes
    BY <1>2, <2>6
  <2> HIDE DEF Prefix
  <2> QED
    BY <2>4, <2>7, <2>8, <2>9, <2>10, <2>11, ApplyMeans
<1>7. Means(f[N], Prefix(N))
  <2>1. N \in 0..N
    OBVIOUS
  <2> HIDE DEF Prefix
  <2> QED
    BY <1>6, <2>1
<1> QED
  BY <1>3, <1>5, <1>7 DEF Folded, sorted

-----------------------------------------------------------------------------
(* The events that arrive.                                                  *)

Arrivals(seq) ==
  /\ seq \in Seq({Hashed(content, h) : content \in Contents, h \in Hashes})
  /\ \A i, j \in DOMAIN seq :
       seq[i].at = seq[j].at /\ seq[i].h = seq[j].h => seq[i] = seq[j]

FoldInv == Arrivals(arrived)

LEMMA HashedFields ==
  ASSUME NEW content \in Contents, NEW h \in Hashes
  PROVE  LET e == Hashed(content, h)
         IN  /\ e.type = content.type /\ e.at = content.at /\ e.h = h
             /\ Content(e) = content
             /\ e = Hashed(Content(e), e.h)
             /\ e.type \in EventTypes /\ Timed(e)
<1> DEFINE e == Hashed(content, h)
<1>1. /\ {"type", "at"} \subseteq DOMAIN content /\ "h" \notin DOMAIN content
      /\ content.type \in EventTypes /\ content.at \in Int
      /\ content = [f \in DOMAIN content |-> content[f]]
      /\ h \in Int
  BY FoldAssumption
<1>2. e.type = content.type /\ e.at = content.at /\ e.h = h /\ DOMAIN e = DOMAIN content \cup {"h"}
  BY <1>1 DEF Hashed
<1>3. Content(e) = content
  <2>1. DOMAIN e \ {"h"} = DOMAIN content
    BY <1>1, <1>2
  <2>2. \A f \in DOMAIN content : e[f] = content[f]
    BY <1>1 DEF Hashed
  <2>3. Content(e) = [f \in DOMAIN content |-> e[f]]
    BY <2>1, Zenon DEF Content
  <2>4. Content(e) = [f \in DOMAIN content |-> content[f]]
    BY <2>2, <2>3
  <2> QED
    BY <1>1, <2>4
<1> QED
  BY <1>1, <1>2, <1>3 DEF Timed

LEMMA FoldInvStart == FoldInit => FoldInv
  BY DEF FoldInit, FoldInv, Arrivals

LEMMA FoldInvStep == FoldInv /\ [FoldNext]_arrived => FoldInv'
<1> SUFFICES ASSUME FoldInv, [FoldNext]_arrived PROVE FoldInv'
  OBVIOUS
<1> DEFINE E == {Hashed(content, h) : content \in Contents, h \in Hashes}
<1>1. CASE UNCHANGED arrived
  BY <1>1 DEF FoldInv, Arrivals
<1>2. ASSUME NEW content \in Contents, NEW h \in Hashes, Arrive(content, h)
      PROVE  FoldInv'
  <2> DEFINE e == Hashed(content, h)
  <2>1. arrived \in Seq(E) /\ e \in E
    BY DEF FoldInv, Arrivals
  <2>2. e.at = content.at /\ e.h = h /\ Content(e) = content
    BY HashedFields
  <2>3. /\ arrived' = Append(arrived, e)
        /\ \A i \in DOMAIN arrived :
             arrived[i].at = content.at => (arrived[i].h = h <=> Content(arrived[i]) = content)
    BY <1>2 DEF Arrive
  <2>4. ASSUME NEW i \in DOMAIN arrived, arrived[i].at = e.at, arrived[i].h = e.h
        PROVE  arrived[i] = e
    <3>1. Content(arrived[i]) = content
      BY <2>2, <2>3, <2>4
    <3>2. arrived[i] \in E
      BY <2>1
    <3>3. PICK d \in Contents, k \in Hashes : arrived[i] = Hashed(d, k)
      BY <3>2
    <3>4. Content(arrived[i]) = d /\ arrived[i].h = k
      BY <3>3, HashedFields
    <3> QED
      BY <2>2, <2>4, <3>1, <3>3, <3>4
  <2> HIDE DEF e, E
  <2>5. /\ arrived' \in Seq(E) /\ Len(arrived) \in Nat
        /\ DOMAIN arrived = 1..Len(arrived) /\ DOMAIN arrived' = 1..(Len(arrived) + 1)
        /\ \A i \in DOMAIN arrived : arrived'[i] = arrived[i]
        /\ arrived'[Len(arrived) + 1] = e
    BY <2>1, <2>3
  <2>6. \A i \in DOMAIN arrived' : i \in DOMAIN arrived \/ i = Len(arrived) + 1
    BY <2>5
  <2>7. \A i, j \in DOMAIN arrived' :
          arrived'[i].at = arrived'[j].at /\ arrived'[i].h = arrived'[j].h
            => arrived'[i] = arrived'[j]
    BY <2>4, <2>5, <2>6 DEF FoldInv, Arrivals
  <2> QED
    BY <2>5, <2>7 DEF FoldInv, Arrivals, E
<1> QED
  BY <1>1, <1>2 DEF FoldNext

LEMMA ArrivalsMean ==
  ASSUME NEW seq, Arrivals(seq)
  PROVE  /\ Ordered(ToSet(seq))
         /\ \A e \in ToSet(seq) : e.type \in EventTypes
         /\ Means(Folded(seq), ToSet(seq))
<1> DEFINE E == {Hashed(content, h) : content \in Contents, h \in Hashes}
<1>1. seq \in Seq(E) /\ DOMAIN seq = 1..Len(seq) /\ Len(seq) \in Nat
  BY DEF Arrivals
<1>2. ToSet(seq) = {seq[i] : i \in 1..Len(seq)}
  BY <1>1 DEF ToSet
<1>3. ASSUME NEW e \in ToSet(seq)
      PROVE  e.type \in EventTypes /\ Timed(e)
  <2>1. e \in E
    BY <1>1, <1>2
  <2>2. PICK content \in Contents, h \in Hashes : e = Hashed(content, h)
    BY <2>1
  <2> QED
    BY <2>2, HashedFields
<1>4. Ordered(ToSet(seq))
  BY <1>1, <1>2, <1>3 DEF Ordered, Arrivals
<1> QED
  BY <1>1, <1>2, <1>3, <1>4, FoldedMeans

LEMMA FoldInvAlways == FoldSpec => []FoldInv
  BY FoldInvStart, FoldInvStep, PTL DEF FoldSpec

-----------------------------------------------------------------------------
(* FoldAgrees: the state that a log means is read field by field.           *)

LEMMA OneTierEach ==
  ASSUME NEW L, Ordered(L), NEW c
  PROVE  Tier(L, c) = "rejected" <=> DecidedAs(L, c, "claim.rejected")
<1>1. Decisions(L, c) \subseteq L
  BY EffectiveInLog DEF Decisions
<1>2. ~(DecidedAs(L, c, "claim.committed") /\ DecidedAs(L, c, "claim.rejected"))
  <2> SUFFICES ASSUME DecidedAs(L, c, "claim.committed"), DecidedAs(L, c, "claim.rejected")
               PROVE  FALSE
    OBVIOUS
  <2>1. PICK d \in Decisions(L, c) : d.type = "claim.committed" /\ IsLatest(d, Decisions(L, c))
    BY DEF DecidedAs
  <2>2. PICK g \in Decisions(L, c) : g.type = "claim.rejected" /\ IsLatest(g, Decisions(L, c))
    BY DEF DecidedAs
  <2>3. d = g
    BY <1>1, <2>1, <2>2, OneLatest
  <2> QED
    BY <2>1, <2>2, <2>3
<1> QED
  BY <1>2 DEF Tier

LEMMA MeansAgrees ==
  ASSUME FoldInv
  PROVE  FoldAgrees
<1> DEFINE state == Folded(arrived)
<1>1. Ordered(Arrived) /\ Means(state, Arrived)
  BY ArrivalsMean DEF FoldInv, Arrived
<1>2. PICK hb \in Seq(Int) :
        /\ ToSet(hb) = NightsOf(Arrived)
        /\ state = State(ClaimsOf(Arrived), RowsOf(Arrived), Aliases(Arrived),
                         Adjudicated(Arrived), hb)
  BY <1>1 DEF Means
<1> HIDE DEF state
<1>3. /\ state.claims = ClaimsOf(Arrived) /\ state.rows = RowsOf(Arrived)
      /\ state.aliases = Aliases(Arrived) /\ state.adjudicated = Adjudicated(Arrived)
      /\ state.heartbeats = hb
  BY <1>2 DEF State
<1>4. /\ DOMAIN ClaimsOf(Arrived) = KnownClaims(Arrived)
      /\ \A c \in KnownClaims(Arrived) : ClaimsOf(Arrived)[c] = ClaimState(Arrived, c)
      /\ DOMAIN RowsOf(Arrived) = Rows(Arrived)
      /\ \A k \in Rows(Arrived) : RowsOf(Arrived)[k] = RowState(Arrived, k)
  BY FunctionsOfLog
<1>5. /\ DOMAIN state.claims = KnownClaims(Arrived)
      /\ \A c \in KnownClaims(Arrived) : state.claims[c] = ClaimState(Arrived, c)
      /\ DOMAIN state.rows = Rows(Arrived)
      /\ \A k \in Rows(Arrived) : state.rows[k] = RowState(Arrived, k)
  BY <1>3, <1>4
<1>6. Resolved(Arrived) \subseteq Rows(Arrived)
  BY DEF Resolved
<1>7. {k \in DOMAIN state.rows : state.rows[k] = "resolved"} = Resolved(Arrived)
  BY <1>5, <1>6 DEF RowState
<1>8. \A c : InRetrievalPool(state, c) <=> c \in Retrievable(Arrived)
  <2>1. \A c \in KnownClaims(Arrived) : ClaimState(Arrived, c).tier = Tier(Arrived, c)
    BY DEF ClaimState
  <2>2. \A c \in KnownClaims(Arrived) :
          Tier(Arrived, c) = "rejected" <=> DecidedAs(Arrived, c, "claim.rejected")
    BY <1>1, OneTierEach
  <2> QED
    BY <1>5, <2>1, <2>2 DEF InRetrievalPool, Retrievable
<1>9. OpenContradictions(state) = OpenRows(Arrived)
  <2>1. \A k \in Rows(Arrived) : state.rows[k] = "open" <=> k \notin Resolved(Arrived)
    BY <1>5 DEF RowState
  <2> QED
    BY <1>5, <1>8, <2>1 DEF OpenContradictions, OpenRows
<1>10. /\ ToSet(state.heartbeats) = {e.at : e \in Heartbeats(Arrived)}
       /\ state.aliases = Aliases(Arrived)
       /\ state.adjudicated = Adjudicated(Arrived)
  BY <1>2, <1>3 DEF NightsOf
<1>11. \A c \in KnownClaims(Arrived) :
         state.claims[c] = [tier |-> Tier(Arrived, c), visibility |-> Visibility(Arrived, c)]
  BY <1>5 DEF ClaimState
<1> QED
  BY <1>5, <1>7, <1>9, <1>10, <1>11 DEF FoldAgrees, state

\* Whatever order the events arrive in and however often, for any contents,
\* hashes and length of the log, sorting and applying them one at a time
\* (fold/graph.py) gives the graph that EventFold declares of their set.
THEOREM FoldAlwaysAgrees == FoldSpec => []FoldAgrees
<1>1. FoldInv => FoldAgrees
  BY MeansAgrees
<1> QED
  BY <1>1, FoldInvAlways, PTL

-----------------------------------------------------------------------------
(* What one more event may change, wherever it sorts.                       *)

\* A decision that counted stays the last one, unless the new event is a
\* later decision on the same claim: an assertion that makes more decisions
\* count sorts before every assertion there was, and so do they.
LEMMA DecisionHolds ==
  ASSUME NEW L, NEW e, Ordered(L \cup {e}), NEW c, NEW g, SoleLatest(g, Decisions(L, c)),
         ~(e.type \in DecisionTypes /\ e.claim = c /\ IsLatest(e, Decisions(L \cup {e}, c)))
  PROVE  SoleLatest(g, Decisions(L \cup {e}, c))
<1> DEFINE M == L \cup {e}
<1>1. /\ g \in L /\ g.type \in DecisionTypes /\ g.claim = c
      /\ \A f \in Decisions(L, c) : f = g \/ Before(f, g)
  BY DEF SoleLatest, IsLatest, Decisions, EffectiveOn, OfType
<1>2. \E a \in L : a.type = "claim.asserted" /\ a.claim = c /\ Before(a, g)
  BY DEF SoleLatest, IsLatest, Decisions, EffectiveOn, OfType
<1>3. PICK a \in L : a.type = "claim.asserted" /\ a.claim = c /\ Before(a, g)
  BY <1>2
<1>4. g \in Decisions(M, c)
  BY <1>1, <1>3 DEF Decisions, EffectiveOn, OfType
<1>5. \A f \in M : Timed(f)
  BY DEF Ordered
<1>6. ASSUME NEW f \in L, f \in Decisions(M, c)
      PROVE  f = g \/ Before(f, g)
  <2>1. f.type \in DecisionTypes /\ f.claim = c
    BY <1>6 DEF Decisions, EffectiveOn, OfType
  <2>2. CASE Before(a, f)
    <3>1. f \in Decisions(L, c)
      BY <1>3, <2>1, <2>2 DEF Decisions, EffectiveOn, OfType
    <3> QED
      BY <1>1, <3>1
  <2>3. CASE ~Before(a, f)
    <3>1. a # f
      BY <1>3, <2>1 DEF DecisionTypes
    <3>2. Before(f, a)
      BY <1>5, <2>3, <3>1, KeysCompare DEF Ordered
    <3> QED
      BY <1>1, <1>3, <1>5, <3>2, KeysCompare
  <2> QED
    BY <2>2, <2>3
<1>7. ASSUME e \in Decisions(M, c), e # g, ~Before(e, g)
      PROVE  FALSE
  <2>1. e.type \in DecisionTypes /\ e.claim = c
    BY <1>7 DEF Decisions, EffectiveOn, OfType
  <2>2. Before(g, e)
    BY <1>1, <1>5, <1>7, KeysCompare DEF Ordered
  <2>3. ASSUME NEW f \in Decisions(M, c)
        PROVE  f = e \/ Before(f, e)
    <3>1. f \in M
      BY DEF Decisions, EffectiveOn, OfType
    <3> HIDE DEF M
    <3>2. f = e \/ f = g \/ Before(f, g)
      BY <1>6, <3>1 DEF M
    <3> QED
      BY <1>1, <1>5, <2>2, <3>1, <3>2, KeysCompare DEF M
  <2> QED
    BY <1>7, <2>1, <2>3 DEF IsLatest
<1>8. IsLatest(g, Decisions(M, c))
  <2>1. Decisions(M, c) \subseteq M
    BY DEF Decisions, EffectiveOn, OfType
  <2> QED
    BY <1>4, <1>6, <1>7, <2>1 DEF IsLatest
<1>9. Decisions(M, c) \subseteq M
  BY DEF Decisions, EffectiveOn, OfType
<1> QED
  BY <1>8, <1>9, OneLatest DEF SoleLatest

LEMMA DecidedByLatest ==
  ASSUME NEW L, Ordered(L), NEW c, Tier(L, c) # "pending"
  PROVE  \E g : SoleLatest(g, Decisions(L, c))
<1>1. Decisions(L, c) \subseteq L
  BY EffectiveInLog DEF Decisions
<1>2. \E type : DecidedAs(L, c, type)
  BY DEF Tier
<1>3. PICK g \in Decisions(L, c) : IsLatest(g, Decisions(L, c))
  BY <1>2 DEF DecidedAs
<1> QED
  BY <1>1, <1>3, OneLatest DEF SoleLatest

\* The step: one event more, and the fold agrees before and after it.
OneMore(L, M, e) == M = L \cup {e} /\ Ordered(L) /\ Ordered(M)

LEMMA ArrivalAddsOne ==
  ASSUME FoldInv, FoldInv', NEW content \in Contents, NEW h \in Hashes, Arrive(content, h)
  PROVE  OneMore(Arrived, Arrived', Last(arrived'))
<1> DEFINE e == Hashed(content, h)
<1>1. arrived' = Append(arrived, e)
  BY DEF Arrive
<1>2. \E E : arrived \in Seq(E) /\ e \in E
  BY DEF FoldInv, Arrivals
<1>3. PICK E : arrived \in Seq(E) /\ e \in E
  BY <1>2
<1> HIDE DEF e
<1>4. /\ Len(arrived) \in Nat /\ DOMAIN arrived = 1..Len(arrived)
      /\ Len(arrived') = Len(arrived) + 1 /\ DOMAIN arrived' = 1..(Len(arrived) + 1)
      /\ \A i \in 1..Len(arrived) : arrived'[i] = arrived[i]
      /\ arrived'[Len(arrived) + 1] = e
  BY <1>1, <1>3
<1>5. Last(arrived') = e
  BY <1>4 DEF Last
<1>6. \A i \in 1..(Len(arrived) + 1) : i \in 1..Len(arrived) \/ i = Len(arrived) + 1
  BY <1>4
<1>7. \A i \in 1..Len(arrived) : i \in 1..(Len(arrived) + 1)
  BY <1>4
<1>8. Len(arrived) + 1 \in 1..(Len(arrived) + 1)
  BY <1>4
<1>9. Arrived' = Arrived \cup {e}
  BY <1>4, <1>6, <1>7, <1>8 DEF Arrived, ToSet
<1>10. Ordered(Arrived) /\ Ordered(Arrived')
  BY ArrivalsMean DEF FoldInv, Arrived
<1> QED
  BY <1>5, <1>9, <1>10 DEF OneMore

LEMMA OnlyALaterStep ==
  ASSUME NEW L, NEW M, NEW e, OneMore(L, M, e), NEW c,
         Tier(L, c) # "pending", Tier(M, c) # Tier(L, c)
  PROVE  e.type \in DecisionTypes /\ e.claim = c /\ IsLatest(e, Decisions(M, c))
<1>1. M = L \cup {e} /\ Ordered(L) /\ Ordered(M)
  BY DEF OneMore
<1>2. PICK g : SoleLatest(g, Decisions(L, c))
  BY <1>1, DecidedByLatest
<1>3. Tier(L, c) = DecidedTier(g.type)
  BY <1>2, TierOfLatest
<1> SUFFICES ASSUME ~(e.type \in DecisionTypes /\ e.claim = c /\ IsLatest(e, Decisions(M, c)))
             PROVE  FALSE
  OBVIOUS
<1>4. SoleLatest(g, Decisions(M, c))
  BY <1>1, <1>2, DecisionHolds
<1>5. Tier(M, c) = DecidedTier(g.type)
  BY <1>4, TierOfLatest
<1> QED
  BY <1>3, <1>5

TiersAgree ==
  \A c \in KnownClaims(Arrived) : Folded(arrived).claims[c].tier = Tier(Arrived, c)

LEMMA TiersAlwaysAgree == FoldSpec => []TiersAgree
<1>1. FoldAgrees => TiersAgree
  <2> SUFFICES ASSUME FoldAgrees, NEW c \in KnownClaims(Arrived)
               PROVE  Folded(arrived).claims[c].tier = Tier(Arrived, c)
    BY DEF TiersAgree
  <2>1. Folded(arrived).claims[c] =
          [tier |-> Tier(Arrived, c), visibility |-> Visibility(Arrived, c)]
    BY Zenon DEF FoldAgrees
  <2> QED
    BY <2>1
<1> QED
  BY <1>1, FoldAlwaysAgrees, PTL

\* Once a claim is decided, only a decision on it that sorts after every one
\* that counted changes the tier the replay gives it (graph._retier), whatever
\* arrives late, backdated or twice.
THEOREM LateEventsOverturnNothing == FoldSpec => OnlyALaterDecisionOverturns
<1> DEFINE Overturns(c) ==
             Tier(Arrived, c) # "pending" /\ Folded(arrived').claims[c].tier # Tier(Arrived, c)
               => LET e == Last(arrived')
                  IN  e.type \in DecisionTypes /\ e.claim = c /\ IsLatest(e, Decisions(Arrived', c))
           A == \A c \in KnownClaims(Arrived) : Overturns(c)
<1>1. FoldInv /\ FoldInv' /\ TiersAgree' /\ [FoldNext]_arrived => [A]_arrived
  <2> SUFFICES ASSUME FoldInv, FoldInv', TiersAgree', FoldNext, NEW c \in KnownClaims(Arrived)
               PROVE  Overturns(c)
    OBVIOUS
  <2>1. PICK content \in Contents, h \in Hashes : Arrive(content, h)
    BY DEF FoldNext
  <2>2. OneMore(Arrived, Arrived', Last(arrived'))
    BY <2>1, ArrivalAddsOne
  <2>3. c \in KnownClaims(Arrived')
    BY <2>2 DEF OneMore, KnownClaims, OfType
  <2>4. Folded(arrived').claims[c].tier = Tier(Arrived', c)
    BY <2>3 DEF TiersAgree
  <2>5. ASSUME Tier(Arrived, c) # "pending", Tier(Arrived', c) # Tier(Arrived, c)
        PROVE  /\ Last(arrived').type \in DecisionTypes /\ Last(arrived').claim = c
               /\ IsLatest(Last(arrived'), Decisions(Arrived', c))
    BY <2>2, <2>5, OnlyALaterStep
  <2> QED
    BY <2>4, <2>5
<1> QED
  BY <1>1, FoldInvAlways, TiersAlwaysAgree, PTL DEF FoldSpec, OnlyALaterDecisionOverturns

\* A resolved row stays resolved in the replay, whatever arrives later: a
\* detection is setdefault and never reopens it.
THEOREM ResolvedStaysResolved == FoldSpec => ResolvedNeverReopens
<1> DEFINE A == \A k \in Rows(Arrived) :
                  Folded(arrived).rows[k] = "resolved" => Folded(arrived').rows[k] = "resolved"
<1>1. FoldInv /\ FoldInv' /\ FoldAgrees /\ FoldAgrees' /\ [FoldNext]_arrived => [A]_arrived
  <2> SUFFICES ASSUME FoldInv, FoldInv', FoldAgrees, FoldAgrees', FoldNext,
                      NEW k \in Rows(Arrived), Folded(arrived).rows[k] = "resolved"
               PROVE  Folded(arrived').rows[k] = "resolved"
    OBVIOUS
  <2>1. PICK content \in Contents, h \in Hashes : Arrive(content, h)
    BY DEF FoldNext
  <2>2. OneMore(Arrived, Arrived', Last(arrived'))
    BY <2>1, ArrivalAddsOne
  <2>3. k \in Resolved(Arrived)
    BY DEF FoldAgrees
  <2>4. k \in Resolved(Arrived')
    BY <2>2, <2>3 DEF OneMore, Resolved, Rows, OfType
  <2> QED
    BY <2>4 DEF FoldAgrees
<1> QED
  BY <1>1, FoldInvAlways, FoldAlwaysAgrees, PTL DEF FoldSpec, ResolvedNeverReopens
=============================================================================
