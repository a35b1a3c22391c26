----------------------------- MODULE Partner_proofs -----------------------------
(***************************************************************************)
(* For any agenda, script, answers and bounds: no two beliefs enter the    *)
(* pool without having been held against each other, unless a prompt was   *)
(* full; at most one belief is in the log and nowhere else; a session that *)
(* is done with its agenda has worked all of it; a replay that comes to    *)
(* its end left what one run of it would; and what the demo approves takes *)
(* effect.                                                                 *)
(***************************************************************************)
EXTENDS Partner, FiniteSetTheorems, TLAPS

-----------------------------------------------------------------------------
(* The pool.                                                               *)

beliefVars == <<turns, pool, blocked, todo, compared, raised>>

BothSequences == (\E S : turns \in Seq(S)) /\ (\E S : todo \in Seq(S))

\* A belief is pooled or blocked, and a collision has a blocked side.
Separate == pool \cap blocked = {} /\ \A k \in raised : k \cap blocked # {}

\* The beliefs still to be asserted are of the last turn, each once, and are
\* not yet pooled or blocked.
TodoFresh ==
  /\ pc \in {"assert", "detect"} => todo # <<>>
  /\ \A n \in DOMAIN todo : todo[n] \notin pool \cup blocked /\ todo[n].turn \in 0..(Len(turns) - 1)
  /\ \A m, n \in DOMAIN todo : todo[m] = todo[n] => m = n

\* Before an answer is read, all beliefs are of earlier turns.
Past ==
  /\ \A c \in pool \cup blocked : c.turn \in 0..(Len(turns) - 1)
  /\ pc = "extract" =>
       Len(turns) > 0 /\ \A c \in pool \cup blocked : c.turn # Len(turns) - 1

\* Beliefs are asserted in the order they were said: what is in the pool came
\* before all that is still to be asserted.
Ordered ==
  /\ IsFiniteSet(pool)
  /\ \A c \in pool : c.n \in Nat
  /\ \A n \in DOMAIN todo : todo[n].n \in Nat
  /\ \A m, n \in DOMAIN todo : m < n => Earlier(todo[m], todo[n])
  /\ \A n \in DOMAIN todo : \A e \in pool : Earlier(e, todo[n])

\* What came before d in the block of d and ranks above c in its prompt.
Ahead(S, c, d) == {e \in S : e.hint = d.hint /\ Earlier(e, d) /\ RanksAbove(e, c)}

Compared ==
  \A c, d \in pool :
    c.hint = d.hint /\ Earlier(c, d) =>
      {c, d} \in compared \/ MaxRetrieved <= Cardinality(Ahead(pool, c, d))

PoolInv == BothSequences /\ Separate /\ TodoFresh /\ Past /\ Ordered /\ Compared

LEMMA PoolInit == Init => PoolInv
<1> SUFFICES ASSUME Init PROVE PoolInv
  OBVIOUS
<1>1. <<>> \in Seq({})
  OBVIOUS
<1> QED
  BY <1>1, FS_EmptySet DEF Init, PoolInv, BothSequences, Separate, TodoFresh, Past, Ordered, Compared

\* A step that leaves the beliefs alone and starts no work on them.
LEMMA PoolStutter ==
  ASSUME PoolInv, UNCHANGED beliefVars, pc' \in {"assert", "detect", "extract"} => pc' = pc
  PROVE  PoolInv'
  BY DEF PoolInv, BothSequences, Separate, TodoFresh, Past, Ordered, Compared, Ahead, beliefVars

LEMMA PoolFresh ==
  ASSUME NEW at \in {"start", "killed"}, Fresh(at)
  PROVE  PoolInv'
<1>1. <<>> \in Seq({})
  OBVIOUS
<1> QED
  BY <1>1, FS_EmptySet DEF Fresh, PoolInv, BothSequences, Separate, TodoFresh, Past, Ordered, Compared

\* A turn is added to the session.
LEMMA PoolAppendTurn ==
  ASSUME PoolInv, NEW t, NEW what, AppendTurn(t, what),
         UNCHANGED <<pool, blocked, todo, compared, raised>>,
         pc' \notin {"assert", "detect"}
  PROVE  PoolInv'
<1>1. PICK S : turns \in Seq(S)
  BY DEF PoolInv, BothSequences
<1>2. PICK u : turns' = Append(turns, u)
  BY DEF AppendTurn
<1>3. turns \in Seq(S \cup {u}) /\ u \in S \cup {u}
  BY <1>1
<1>4. turns' \in Seq(S \cup {u}) /\ Len(turns') = Len(turns) + 1 /\ Len(turns) \in Nat
  BY <1>2, <1>3
<1>5. BothSequences'
  BY <1>4 DEF PoolInv, BothSequences
<1>6. Past'
  <2>1. ASSUME NEW c \in pool \cup blocked PROVE c.turn \in 0..(Len(turns') - 1) /\ c.turn # Len(turns') - 1
    BY <1>4 DEF PoolInv, Past
  <2> QED
    BY <2>1, <1>4 DEF Past
<1> QED
  BY <1>4, <1>5, <1>6 DEF PoolInv, Separate, TodoFresh, Ordered, Compared, Ahead

\* The first of the beliefs to be asserted is pooled or blocked.
LEMMA TodoTail ==
  ASSUME PoolInv, pc \in {"assert", "detect"}, UNCHANGED turns, todo' = Tail(todo),
         pool' \cup blocked' = pool \cup blocked \cup {Head(todo)},
         pc' = IF Len(todo) = 1 THEN "plan" ELSE "assert"
  PROVE  BothSequences' /\ TodoFresh' /\ Past'
<1>1. PICK S : todo \in Seq(S)
  BY DEF PoolInv, BothSequences
<1>2. todo # <<>>
  BY DEF PoolInv, TodoFresh
<1>3. /\ todo' \in Seq(S) /\ Len(todo') = Len(todo) - 1
      /\ \A n \in DOMAIN todo' : n + 1 \in DOMAIN todo /\ todo'[n] = todo[n + 1]
      /\ Head(todo) = todo[1] /\ 1 \in DOMAIN todo
      /\ DOMAIN todo = 1..Len(todo) /\ DOMAIN todo' = 1..(Len(todo) - 1)
  BY <1>1, <1>2
<1>4. BothSequences'
  BY <1>3 DEF PoolInv, BothSequences
<1>5. pc' = "assert" => todo' # <<>>
  <2>1. Len(todo) \in Nat /\ Len(todo) # 0
    BY <1>1, <1>2
  <2> QED
    BY <1>3, <2>1
<1>6. \A n \in DOMAIN todo' : todo'[n] \notin pool' \cup blocked' /\ todo'[n].turn \in 0..(Len(turns') - 1)
  <2> SUFFICES ASSUME NEW n \in DOMAIN todo'
               PROVE  todo'[n] \notin pool' \cup blocked' /\ todo'[n].turn \in 0..(Len(turns') - 1)
    OBVIOUS
  <2>1. n \in Nat /\ n + 1 # 1
    BY <1>3
  <2>2. todo[n + 1] # todo[1]
    BY <1>3, <2>1 DEF PoolInv, TodoFresh
  <2>3. todo[n + 1] \notin pool \cup blocked /\ todo[n + 1].turn \in 0..(Len(turns) - 1)
    BY <1>3 DEF PoolInv, TodoFresh
  <2> QED
    BY <1>3, <2>2, <2>3
<1>7. \A m, n \in DOMAIN todo' : todo'[m] = todo'[n] => m = n
  <2> SUFFICES ASSUME NEW m \in DOMAIN todo', NEW n \in DOMAIN todo', todo'[m] = todo'[n]
               PROVE  m = n
    OBVIOUS
  <2>1. m + 1 = n + 1
    BY <1>3 DEF PoolInv, TodoFresh
  <2> QED
    BY <1>3, <2>1
<1>8. Past'
  BY <1>3 DEF PoolInv, TodoFresh, Past
<1> QED
  BY <1>4, <1>5, <1>6, <1>7, <1>8 DEF TodoFresh

LEMMA PoolExtract ==
  ASSUME PoolInv, Extract
  PROVE  PoolInv'
<1>1. PICK len \in 0..MaxBeliefs : \E hints \in [1..len -> Hints] :
        /\ todo' = [n \in 1..len |-> BeliefOf(hints, n)]
        /\ pc' = IF len = 0 THEN "plan" ELSE "assert"
  BY DEF Extract
<1>2. PICK hints \in [1..len -> Hints] :
        /\ todo' = [n \in 1..len |-> BeliefOf(hints, n)]
        /\ pc' = IF len = 0 THEN "plan" ELSE "assert"
  BY <1>1
<1>3. UNCHANGED <<turns, pool, blocked, compared, raised>> /\ pc = "extract"
  BY DEF Extract, histVars
<1>4. Len(turns) \in Nat
  BY DEF PoolInv, BothSequences
<1>5. len \in Nat /\ DOMAIN todo' = 1..len
  BY <1>2, PartnerAssumption
<1>6. \A n \in 1..len : todo'[n].turn = Len(turns) - 1 /\ todo'[n].n = n
  BY <1>2 DEF BeliefOf
<1>7. todo' \in Seq({BeliefOf(hints, n) : n \in 1..len})
  BY <1>2, <1>5
<1>8. BothSequences'
  BY <1>3, <1>7 DEF PoolInv, BothSequences
<1>9. TodoFresh'
  <2>1. pc' \in {"assert", "detect"} => todo' # <<>>
    BY <1>2, <1>5
  <2>2. \A n \in DOMAIN todo' : todo'[n] \notin pool' \cup blocked' /\ todo'[n].turn \in 0..(Len(turns') - 1)
    BY <1>3, <1>4, <1>5, <1>6 DEF PoolInv, Past
  <2>3. \A m, n \in DOMAIN todo' : todo'[m] = todo'[n] => m = n
    BY <1>5, <1>6
  <2> QED
    BY <2>1, <2>2, <2>3 DEF TodoFresh
<1>10. Ordered'
  <2>1. ASSUME NEW n \in 1..len, NEW e \in pool PROVE Earlier(e, todo'[n])
    <3>1. e.turn \in 0..(Len(turns) - 1) /\ e.turn # Len(turns) - 1
      BY <1>3 DEF PoolInv, Past
    <3> QED
      BY <1>4, <1>6, <3>1 DEF Earlier
  <2>2. \A m, n \in 1..len : m < n => Earlier(todo'[m], todo'[n])
    BY <1>4, <1>5, <1>6 DEF Earlier
  <2> QED
    BY <1>3, <1>5, <1>6, <2>1, <2>2 DEF PoolInv, Ordered
<1> QED
  BY <1>2, <1>3, <1>8, <1>9, <1>10 DEF PoolInv, Separate, Past, Compared, Ahead

\* The order stays when the belief at hand leaves the list.
LEMMA OrderTail ==
  ASSUME PoolInv, todo # <<>>, todo' = Tail(todo), pool' = pool \/ pool' = pool \cup {Head(todo)}
  PROVE  Ordered'
<1>1. PICK S : todo \in Seq(S)
  BY DEF PoolInv, BothSequences
<1>2. /\ \A n \in DOMAIN todo' : n + 1 \in DOMAIN todo /\ todo'[n] = todo[n + 1] /\ n \in Nat /\ n > 0
      /\ Head(todo) = todo[1] /\ 1 \in DOMAIN todo
  BY <1>1
<1>3. IsFiniteSet(pool')
  BY FS_AddElement DEF PoolInv, Ordered
<1>4. \A c \in pool' : c.n \in Nat
  BY <1>2 DEF PoolInv, Ordered
<1>5. \A n \in DOMAIN todo' : todo'[n].n \in Nat
  BY <1>2 DEF PoolInv, Ordered
<1>6. ASSUME NEW m \in DOMAIN todo', NEW n \in DOMAIN todo', m < n
      PROVE  Earlier(todo'[m], todo'[n])
  <2>1. m + 1 < n + 1 /\ m + 1 \in DOMAIN todo /\ n + 1 \in DOMAIN todo
    BY <1>2, <1>6
  <2>2. Earlier(todo[m + 1], todo[n + 1])
    BY <2>1 DEF PoolInv, Ordered
  <2> QED
    BY <1>2, <2>2
<1>7. ASSUME NEW n \in DOMAIN todo', NEW e \in pool' PROVE Earlier(e, todo'[n])
  <2>1. n + 1 \in DOMAIN todo /\ 1 < n + 1 /\ todo'[n] = todo[n + 1]
    BY <1>2
  <2>2. \A d \in pool : Earlier(d, todo[n + 1])
    BY <2>1 DEF PoolInv, Ordered
  <2>3. Earlier(todo[1], todo[n + 1])
    BY <1>2, <2>1 DEF PoolInv, Ordered
  <2> QED
    BY <1>2, <2>1, <2>2, <2>3
<1> QED
  BY <1>3, <1>4, <1>5, <1>6, <1>7 DEF Ordered

\* A belief is pooled that was held against the candidates of its prompt
\* without finding a collision.
LEMMA PoolAccept ==
  ASSUME PoolInv, pc \in {"assert", "detect"}, Accept(Head(todo)), UNCHANGED <<turns, blocked, raised>>,
         compared \subseteq compared',
         \A d \in Submitted(Head(todo)) : {Head(todo), d} \in compared'
  PROVE  PoolInv'
<1> DEFINE c == Head(todo)
<1>1. PICK S : todo \in Seq(S)
  BY DEF PoolInv, BothSequences
<1>2. todo # <<>>
  BY DEF PoolInv, TodoFresh
<1>7. c = todo[1] /\ 1 \in DOMAIN todo
  BY <1>1, <1>2
<1>8. c \notin pool \cup blocked /\ c.turn \in Int
  BY <1>7 DEF PoolInv, TodoFresh
<1>9. /\ c.n \in Nat
      /\ \A e \in pool : Earlier(e, c) /\ e.turn \in Int /\ e.n \in Nat
  BY <1>7 DEF PoolInv, Ordered, Past
<1>3. pool' = pool \cup {c} /\ todo' = Tail(todo) /\ pc' = IF Len(todo) = 1 THEN "plan" ELSE "assert"
  BY DEF Accept
<1>4. BothSequences' /\ TodoFresh' /\ Past'
  BY <1>3, TodoTail
<1>5. Separate'
  BY <1>3, <1>8 DEF PoolInv, Separate
<1>10. Ordered'
  BY <1>2, <1>3, OrderTail
<1>11. \A e \in pool' : ~Earlier(c, e)
  BY <1>3, <1>8, <1>9 DEF Earlier
<1> HIDE DEF c
<1>6. Compared'
  <2> SUFFICES ASSUME NEW a \in pool', NEW b \in pool', a.hint = b.hint, Earlier(a, b)
               PROVE  {a, b} \in compared' \/ MaxRetrieved <= Cardinality(Ahead(pool', a, b))
    BY DEF Compared, Ahead
  <2>1. a \in pool
    BY <1>3, <1>11
  <2>2. Ahead(pool', a, b) = Ahead(pool, a, b)
    BY <1>3, <1>11 DEF Ahead
  <2>3. CASE b \in pool
    BY <2>1, <2>2, <2>3 DEF PoolInv, Compared
  <2>4. CASE b = c
    <3>1. Ahead(pool, a, c) = {e \in Block(c) : RanksAbove(e, a)}
      BY <1>9 DEF Ahead, Block
    <3>2. a \in Block(c)
      BY <2>1, <2>4 DEF Block
    <3>3. CASE a \in Submitted(c)
      <4>1. {c, a} \in compared'
        BY <3>3 DEF c
      <4>2. {c, a} = {a, b}
        BY <2>4
      <4> QED
        BY <4>1, <4>2
    <3>4. CASE a \notin Submitted(c)
      <4>1. ~(Cardinality(Ahead(pool, a, c)) < MaxRetrieved)
        BY <3>1, <3>2, <3>4 DEF Submitted
      <4>2. IsFiniteSet(Ahead(pool, a, c))
        BY FS_Subset DEF Ahead, PoolInv, Ordered
      <4>3. Cardinality(Ahead(pool, a, c)) \in Nat
        BY <4>2, FS_CardinalityType
      <4> QED
        BY <2>2, <2>4, <4>1, <4>3, PartnerAssumption
    <3> QED
      BY <3>3, <3>4
  <2> QED
    BY <1>3, <2>3, <2>4
<1> QED
  BY <1>4, <1>5, <1>6, <1>10 DEF PoolInv

LEMMA PoolAssert ==
  ASSUME PoolInv, AssertBelief
  PROVE  PoolInv'
<1>1. CASE Block(Head(todo)) = {}
  <2>1. Submitted(Head(todo)) = {}
    BY <1>1 DEF Submitted
  <2> QED
    BY <1>1, <2>1, PoolAccept DEF AssertBelief, histVars
<1>2. CASE Block(Head(todo)) # {}
  BY <1>2 DEF AssertBelief, histVars, PoolInv, BothSequences, Separate, TodoFresh, Past, Ordered,
              Compared, Ahead
<1> QED
  BY <1>1, <1>2

LEMMA PoolDetect ==
  ASSUME PoolInv, Detect
  PROVE  PoolInv'
<1> DEFINE c == Head(todo)
<1>1. /\ pc = "detect" /\ UNCHANGED turns
      /\ compared' = compared \cup {{c, d} : d \in Submitted(c)}
  BY DEF Detect
<1>2. PICK found \in SUBSET Submitted(c) :
        IF found = {}
          THEN Accept(c) /\ UNCHANGED <<blocked, pending, raised>>
          ELSE /\ blocked' = blocked \cup {c}
               /\ raised' = raised \cup ToSet(Cards(c, found))
               /\ todo' = Tail(todo)
               /\ pc' = IF Len(todo) = 1 THEN "plan" ELSE "assert"
               /\ UNCHANGED pool
  BY DEF Detect
<1>3. CASE found = {}
  BY <1>1, <1>2, <1>3, PoolAccept
<1>4. CASE found # {}
  <2>1. BothSequences' /\ TodoFresh' /\ Past'
    BY <1>1, <1>2, <1>4, TodoTail
  <2>2. c \notin pool
    <3>1. PICK S : todo \in Seq(S)
      BY DEF PoolInv, BothSequences
    <3>2. todo # <<>>
      BY <1>1 DEF PoolInv, TodoFresh
    <3>3. c = todo[1] /\ 1 \in DOMAIN todo
      BY <3>1, <3>2
    <3> QED
      BY <3>3 DEF PoolInv, TodoFresh
  <2>6. todo # <<>>
    BY <1>1 DEF PoolInv, TodoFresh
  <2>7. Ordered'
    BY <1>2, <1>4, <2>6, OrderTail
  <2>3. \A k \in ToSet(Cards(c, found)) : c \in k
    BY DEF ToSet, Cards
  <2>4. Separate'
    BY <1>2, <1>4, <2>2, <2>3 DEF PoolInv, Separate
  <2>5. Compared'
    BY <1>1, <1>2, <1>4 DEF PoolInv, Compared, Ahead
  <2> QED
    BY <2>1, <2>4, <2>5, <2>7 DEF PoolInv
<1> QED
  BY <1>3, <1>4

LEMMA PoolStep == PoolInv /\ [Next]_vars => PoolInv'
<1> SUFFICES ASSUME PoolInv, [Next]_vars PROVE PoolInv'
  OBVIOUS
<1>1. CASE Backoff
  BY <1>1, PoolStutter DEF Backoff, beliefVars, sessionVars, histVars
<1>2. CASE Open
  BY <1>2, PoolStutter DEF Open, PlanItem, beliefVars, histVars
<1>3. CASE Work
  BY <1>3, PoolStutter DEF Work, Checked, beliefVars, histVars
<1>4. CASE Speak
  <2>1. pc' \notin {"assert", "detect"}
    BY <1>4 DEF Speak, Checked
  <2>2. PICK t : AppendTurn(t, plan)
    BY <1>4 DEF Speak
  <2> QED
    BY <1>4, <2>1, <2>2, PoolAppendTurn DEF Speak, histVars
<1>5. CASE Stop
  BY <1>5, PoolStutter DEF Stop, beliefVars, sessionVars, histVars
<1>6. ASSUME NEW a \in Answers, Observe(a) PROVE PoolInv'
  BY <1>6, PoolAppendTurn DEF Observe, histVars
<1>7. CASE Extract
  BY <1>7, PoolExtract
<1>8. CASE Crash
  BY <1>8, PoolStutter DEF Crash, beliefVars, sessionVars, histVars
<1>9. CASE AssertBelief
  BY <1>9, PoolAssert
<1>10. CASE Detect
  BY <1>10, PoolDetect
<1>11. CASE Plan
  BY <1>11, PoolStutter DEF Plan, MoveOn, PlanItem, Checked, beliefVars, histVars
<1>12. CASE FollowUp
  BY <1>12, PoolStutter DEF FollowUp, MoveOn, PlanItem, Checked, beliefVars, histVars
<1>13. CASE Close
  BY <1>13, PoolStutter DEF Close, Checked, beliefVars, histVars
<1>14. CASE Approve
  BY <1>14, PoolStutter DEF Approve, beliefVars, sessionVars
<1>15. CASE AppendNext
  BY <1>15, PoolStutter DEF AppendNext, beliefVars, sessionVars, histVars
<1>16. CASE Kill
  BY <1>16, PoolFresh DEF Kill
<1>17. CASE Rerun
  BY <1>17, PoolFresh DEF Rerun
<1>18. CASE UNCHANGED vars
  BY <1>18, PoolStutter DEF vars, beliefVars, sessionVars, histVars
<1> QED
  BY <1>1, <1>2, <1>3, <1>4, <1>5, <1>6, <1>7, <1>8, <1>9, <1>10, <1>11, <1>12, <1>13, <1>14,
     <1>15, <1>16, <1>17, <1>18 DEF Next

\* Any two beliefs of the pool that share a hint were put to the model together
\* and not found to collide, but for a pair that a full prompt kept apart, in a
\* session of any length, with any answers and any cap, at the terminal or
\* replayed, whatever failed or was killed before
\* (PartnerSession.observe_user_turn, build_block).
THEOREM PoolIsCompared == Spec => []PoolCompared
<1>1. PoolInv => PoolCompared
  <2> SUFFICES ASSUME PoolInv, NEW c \in pool, NEW d \in pool, c.hint = d.hint, Earlier(c, d)
               PROVE  /\ {c, d} \notin raised
                      /\ {c, d} \in compared \/ MaxRetrieved <= Cardinality(Ahead(pool, c, d))
    BY DEF PoolCompared, Ahead
  <2>1. {c, d} \in compared \/ MaxRetrieved <= Cardinality(Ahead(pool, c, d))
    BY DEF PoolInv, Compared
  <2>2. {c, d} \cap blocked = {}
    BY DEF PoolInv, Separate
  <2> QED
    BY <2>1, <2>2 DEF PoolInv, Separate
<1> QED
  BY <1>1, PoolInit, PoolStep, PTL DEF Spec

-----------------------------------------------------------------------------
(* What is queued.                                                         *)

\* The cards are a sequence and the pool is finite.
Listed == (\E S : pending \in Seq(S)) /\ IsFiniteSet(pool)

\* What a turn that is added leaves.
LEMMA TurnAdded ==
  ASSUME BothSequences, NEW t, NEW what, AppendTurn(t, what)
  PROVE  /\ Len(turns) \in Nat /\ DOMAIN turns = 1..Len(turns)
         /\ DOMAIN turns' = 1..(Len(turns) + 1) /\ Len(turns') = Len(turns) + 1 /\ turns' # <<>>
         /\ \A n \in DOMAIN turns : turns'[n] = turns[n]
         /\ \E S : turns' \in Seq(S)
         /\ LET new == turns'[Len(turns) + 1]
            IN  /\ new.kind = what.kind /\ new.item = what.item /\ new.card = what.card
                /\ new.said = what.said /\ new.index = Len(turns) /\ new.at = t
<1>1. PICK S : turns \in Seq(S)
  BY DEF BothSequences
<1> DEFINE new == [type |-> "session.turn", at |-> t, h |-> 0, index |-> Len(turns), kind |-> what.kind,
                   item |-> what.item, depth |-> what.depth, said |-> what.said, card |-> what.card]
<1>2. turns' = Append(turns, new)
  BY DEF AppendTurn
<1>3. /\ new.kind = what.kind /\ new.item = what.item /\ new.card = what.card
      /\ new.said = what.said /\ new.index = Len(turns) /\ new.at = t
  OBVIOUS
<1> HIDE DEF new
<1>4. turns \in Seq(S \cup {new}) /\ new \in S \cup {new}
  BY <1>1
<1>5. turns' \in Seq(S \cup {new}) /\ Len(turns') = Len(turns) + 1
  BY <1>2, <1>4
<1>6. Len(turns) \in Nat /\ DOMAIN turns = 1..Len(turns)
  BY <1>1
<1>7. DOMAIN turns' = 1..(Len(turns) + 1)
  BY <1>5
<1>8. (\A n \in DOMAIN turns : turns'[n] = turns[n]) /\ turns'[Len(turns) + 1] = new
  BY <1>2, <1>4, <1>6
<1>9. turns' # <<>>
  BY <1>5, <1>6
<1> QED
  BY <1>3, <1>5, <1>6, <1>7, <1>8, <1>9

LEMMA ListedInit == Init => Listed
<1>1. <<>> \in Seq({})
  OBVIOUS
<1> QED
  BY <1>1, FS_EmptySet DEF Init, Listed

LEMMA ListedStutter ==
  ASSUME Listed, UNCHANGED <<pending, pool>>
  PROVE  Listed'
BY DEF Listed

LEMMA ListedFresh ==
  ASSUME NEW at, Fresh(at)
  PROVE  Listed'
<1>1. <<>> \in Seq({})
  OBVIOUS
<1> QED
  BY <1>1, FS_EmptySet DEF Fresh, Listed

LEMMA TailListed ==
  ASSUME NEW S, NEW s \in Seq(S)
  PROVE  s # <<>> => Tail(s) \in Seq(S)
OBVIOUS

LEMMA CardsListed ==
  ASSUME NEW c, NEW found, IsFiniteSet(found)
  PROVE  \E S : Cards(c, found) \in Seq(S)
<1>1. Cardinality(found) \in Nat
  BY FS_CardinalityType
<1> DEFINE cards == Cards(c, found)
<1>2. DOMAIN cards = 1..Cardinality(found) /\ cards = [n \in 1..Cardinality(found) |-> cards[n]]
  BY DEF Cards
<1> HIDE DEF cards
<1>3. cards \in Seq({cards[n] : n \in 1..Cardinality(found)})
  BY <1>1, <1>2
<1> QED
  BY <1>3 DEF cards

LEMMA ListedStep ==
  ASSUME Listed, [Next]_vars
  PROVE  Listed'
<1>1. CASE Backoff \/ Open \/ Work \/ Stop \/ Crash \/ FollowUp \/ Close \/ Approve \/ AppendNext
  <2>1. UNCHANGED <<pending, pool>>
    BY <1>1 DEF Backoff, Open, Work, Stop, Crash, FollowUp, Close, Approve, AppendNext, sessionVars
  <2> QED
    BY <2>1, ListedStutter
<1>2. CASE Speak \/ Extract \/ \E a \in Answers : Observe(a)
  <2>1. UNCHANGED <<pending, pool>>
    BY <1>2 DEF Speak, Extract, Observe
  <2> QED
    BY <2>1, ListedStutter
<1>7. ASSUME IsFiniteSet(pool) PROVE IsFiniteSet(pool \cup {Head(todo)})
  BY <1>7, FS_AddElement
<1>8. CASE AssertBelief
  <2>1. CASE Block(Head(todo)) = {}
    BY <1>7, <1>8, <2>1 DEF AssertBelief, Accept, Listed
  <2>2. CASE Block(Head(todo)) # {}
    BY <1>8, <2>2, ListedStutter DEF AssertBelief
  <2> QED
    BY <2>1, <2>2
<1>9. CASE Detect
  <2>1. PICK found \in SUBSET Submitted(Head(todo)) :
          IF found = {} THEN Accept(Head(todo)) /\ UNCHANGED pending
          ELSE pending' = pending \o Cards(Head(todo), found) /\ UNCHANGED pool
    BY <1>9 DEF Detect
  <2>3. CASE found = {}
    BY <1>7, <2>1, <2>3 DEF Accept, Listed
  <2>4. CASE found # {}
    <3>1. IsFiniteSet(found)
      <4>1. found \subseteq pool /\ IsFiniteSet(pool)
        BY DEF Submitted, Block, Listed
      <4> QED
        BY <4>1, FS_Subset
    <3>2. PICK A : Cards(Head(todo), found) \in Seq(A)
      BY <3>1, CardsListed
    <3>3. PICK B : pending \in Seq(B)
      BY DEF Listed
    <3>4. pending \in Seq(A \cup B) /\ Cards(Head(todo), found) \in Seq(A \cup B)
      BY <3>2, <3>3
    <3>7. pending' = pending \o Cards(Head(todo), found)
      BY <2>1, <2>4
    <3>8. ASSUME NEW T, NEW r \in Seq(T), NEW s \in Seq(T) PROVE r \o s \in Seq(T)
      OBVIOUS
    <3>5. pending' \in Seq(A \cup B)
      BY <3>4, <3>7, <3>8
    <3>6. \E S : pending' \in Seq(S)
      BY <3>5
    <3> QED
      BY <2>1, <2>4, <3>6 DEF Listed
  <2> QED
    BY <2>3, <2>4
<1>10. CASE Plan
  <2>1. CASE pending # <<>>
    BY <1>10, <2>1, TailListed DEF Plan, Listed
  <2>2. CASE pending = <<>>
    BY <1>10, <2>2, ListedStutter DEF Plan
  <2> QED
    BY <2>1, <2>2
<1>11. CASE Kill \/ Rerun
  BY <1>11, ListedFresh DEF Kill, Rerun
<1>12. CASE UNCHANGED vars
  BY <1>12, ListedStutter DEF vars, sessionVars
<1> QED
  BY <1>1, <1>2, <1>8, <1>9, <1>10, <1>11, <1>12 DEF Next

-----------------------------------------------------------------------------
(* What is detected.                                                       *)

\* The known beliefs, the claims of answers apart.
KnownBeliefs == {c \in KnownClaims(log) : c.n > 0}

\* The belief at hand is the only one that may be in the log and nowhere else; in
\* a run that ended on it, it still is.
AtHand == IF pc \in {"detect", "refused"} /\ todo # <<>> THEN {Head(todo)} ELSE {}

UndetectedInv ==
  /\ run \in Nat \ {0}
  /\ pool \cup blocked \subseteq KnownBeliefs
  /\ run = 1 /\ pc # "killed" => KnownBeliefs \ (pool \cup blocked) \subseteq AtHand
  /\ pc = "detect" => Head(todo) \in KnownBeliefs
  /\ \A n \in DOMAIN todo : todo[n].n \in Nat \ {0}
  /\ \A x \in queue : x.event.type = "claim.asserted" => x.event.claim.n = 0

LEMMA KnownAppended ==
  ASSUME NEW e, log' = log \cup {e}
  PROVE  KnownClaims(log') = KnownClaims(log) \cup (IF e.type = "claim.asserted" THEN {e.claim} ELSE {})
BY DEF KnownClaims, OfType

\* A step that asserts no belief and works on none.
LEMMA UndetectedStutter ==
  ASSUME UndetectedInv,
         \/ UNCHANGED log
         \/ \E e : log' = log \cup {e} /\ (e.type = "claim.asserted" => e.claim.n = 0),
         UNCHANGED <<pool, blocked, todo, queue, run>>,
         pc # "detect", pc = "refused" => pc' = "refused", pc' \notin {"detect", "killed"}, pc # "killed"
  PROVE  UndetectedInv'
<1>1. KnownBeliefs' = KnownBeliefs
  <2>1. CASE UNCHANGED log
    BY <2>1 DEF KnownBeliefs, KnownClaims, OfType
  <2>2. CASE \E e : log' = log \cup {e} /\ (e.type = "claim.asserted" => e.claim.n = 0)
    <3>1. PICK e : log' = log \cup {e} /\ (e.type = "claim.asserted" => e.claim.n = 0)
      BY <2>2
    <3> QED
      BY <3>1, KnownAppended DEF KnownBeliefs
  <2> QED
    BY <2>1, <2>2
<1>2. AtHand = {} \/ AtHand \subseteq AtHand'
  BY DEF AtHand
<1> QED
  BY <1>1, <1>2 DEF UndetectedInv

LEMMA UndetectedInit == Init => UndetectedInv
<1> SUFFICES ASSUME Init PROVE UndetectedInv
  OBVIOUS
<1>1. KnownBeliefs = {}
  BY DEF Init, KnownBeliefs, KnownClaims, OfType
<1>2. run = 1 /\ pc = "start" /\ pool = {} /\ blocked = {} /\ todo = <<>> /\ queue = {}
  BY DEF Init
<1> QED
  BY <1>1, <1>2 DEF UndetectedInv

LEMMA UndetectedFresh ==
  ASSUME UndetectedInv, NEW at, Fresh(at), UNCHANGED log,
         (run' = run /\ at = "killed") \/ run' = run + 1, at # "detect"
  PROVE  UndetectedInv'
<1>1. pool' = {} /\ blocked' = {} /\ todo' = <<>> /\ queue' = {} /\ pc' = at
  BY DEF Fresh
<1>2. run' \in Nat \ {0} /\ (run' = 1 => pc' = "killed")
  BY <1>1 DEF UndetectedInv
<1> QED
  BY <1>1, <1>2 DEF UndetectedInv

\* The beliefs still to come are those of the answer, counted from one.
LEMMA UndetectedExtract ==
  ASSUME UndetectedInv, Extract
  PROVE  UndetectedInv'
<1>1. PICK len \in 0..MaxBeliefs : \E hints \in [1..len -> Hints] :
        /\ todo' = [n \in 1..len |-> BeliefOf(hints, n)]
        /\ pc' = IF len = 0 THEN "plan" ELSE "assert"
  BY DEF Extract
<1>2. \A n \in DOMAIN todo' : todo'[n].n \in Nat \ {0}
  BY <1>1 DEF BeliefOf
<1>3. pc = "extract" /\ UNCHANGED <<log, pool, blocked, queue, run>> /\ pc' \notin {"detect", "killed"}
  BY <1>1 DEF Extract
<1>4. KnownBeliefs' = KnownBeliefs /\ AtHand = {}
  BY <1>3 DEF KnownBeliefs, AtHand
<1> QED
  BY <1>2, <1>3, <1>4 DEF UndetectedInv

LEMMA TailTodo ==
  ASSUME PoolInv, UndetectedInv, pc \in {"assert", "detect"}
  PROVE  /\ Head(todo).n \in Nat \ {0}
         /\ \A n \in DOMAIN Tail(todo) : Tail(todo)[n].n \in Nat \ {0}
<1>1. PICK S : todo \in Seq(S)
  BY DEF PoolInv, BothSequences
<1>2. todo # <<>>
  BY DEF PoolInv, TodoFresh
<1>3. Head(todo) = todo[1] /\ 1 \in DOMAIN todo
  BY <1>1, <1>2
<1>4. \A n \in DOMAIN Tail(todo) : n + 1 \in DOMAIN todo /\ Tail(todo)[n] = todo[n + 1]
  BY <1>1, <1>2
<1> QED
  BY <1>3, <1>4 DEF UndetectedInv

\* The belief at hand joins the log, and then the pool or, held against it, the
\* blocked ones.
LEMMA UndetectedAssert ==
  ASSUME PoolInv, UndetectedInv, AssertBelief
  PROVE  UndetectedInv'
<1> DEFINE c == Head(todo)
<1>1. /\ pc = "assert" /\ UNCHANGED <<run, blocked, queue>>
      /\ log' = log \cup {Asserted(c, last)}
      /\ IF Block(c) = {} THEN Accept(c) ELSE pc' = "detect" /\ UNCHANGED <<pool, todo>>
  BY DEF AssertBelief
<1>2. c.n \in Nat \ {0} /\ (\A n \in DOMAIN Tail(todo) : Tail(todo)[n].n \in Nat \ {0}) /\ todo # <<>>
  BY <1>1, TailTodo DEF PoolInv, TodoFresh
<1>3. Asserted(c, last).type = "claim.asserted" /\ Asserted(c, last).claim = c
  BY DEF Asserted
<1>4. KnownBeliefs' = KnownBeliefs \cup {c}
  <2>1. KnownClaims(log)' = KnownClaims(log) \cup {c}
    BY <1>1, <1>3, KnownAppended
  <2>2. c.n > 0
    BY <1>2
  <2> HIDE DEF c
  <2> QED
    BY <2>1, <2>2 DEF KnownBeliefs
<1>5. AtHand = {}
  BY <1>1 DEF AtHand
<1>6. CASE Block(c) = {}
  <2>1. pool' = pool \cup {c} /\ todo' = Tail(todo) /\ pc' \in {"plan", "assert"}
    BY <1>1, <1>6 DEF Accept
  <2> QED
    BY <1>1, <1>2, <1>4, <1>5, <2>1 DEF UndetectedInv
<1>7. CASE Block(c) # {}
  <2>1. AtHand' = {c}
    BY <1>1, <1>2, <1>7 DEF AtHand
  <2> QED
    BY <1>1, <1>2, <1>4, <1>5, <1>7, <2>1 DEF UndetectedInv
<1> QED
  BY <1>6, <1>7

LEMMA UndetectedDetect ==
  ASSUME PoolInv, UndetectedInv, Detect
  PROVE  UndetectedInv'
<1> DEFINE c == Head(todo)
<1>1. pc = "detect" /\ UNCHANGED <<run, log, queue>>
  BY DEF Detect
<1>2. PICK found \in SUBSET Submitted(c) :
        IF found = {}
          THEN Accept(c) /\ UNCHANGED blocked
          ELSE /\ blocked' = blocked \cup {c}
               /\ todo' = Tail(todo)
               /\ pc' = IF Len(todo) = 1 THEN "plan" ELSE "assert"
               /\ UNCHANGED pool
  BY DEF Detect
<1>3. /\ pool' \cup blocked' = pool \cup blocked \cup {c}
      /\ todo' = Tail(todo) /\ pc' \in {"plan", "assert"}
  BY <1>2 DEF Accept
<1>4. c.n \in Nat \ {0} /\ \A n \in DOMAIN Tail(todo) : Tail(todo)[n].n \in Nat \ {0}
  BY <1>1, TailTodo
<1>5. KnownBeliefs' = KnownBeliefs
  BY <1>1 DEF KnownBeliefs
<1>6. AtHand \subseteq {c}
  BY DEF AtHand
<1> QED
  BY <1>1, <1>3, <1>4, <1>5, <1>6 DEF UndetectedInv

\* An approval asserts nothing.
LEMMA ApprovalAssertsNothing ==
  ASSUME NEW c, NEW rows, NEW t, NEW place, NEW x \in Approval(c, rows, t, place)
  PROVE  x.event.type # "claim.asserted"
BY DEF Approval

\* What is queued asserts no belief, only the claims of answers.
LEMMA UndetectedApprove ==
  ASSUME UndetectedInv, Approve
  PROVE  UndetectedInv'
<1>1. /\ pc = "done" /\ pc' = "approving" /\ UNCHANGED <<run, log, pool, blocked, todo>>
  BY DEF Approve, sessionVars
<1>2. PICK t : queue' = IF Claimed = {} THEN {} ELSE Answering \cup Ratifying(t) \cup Beliefs(t)
  BY DEF Approve
<1>3. ASSUME NEW x \in queue', x.event.type = "claim.asserted" PROVE x.event.claim.n = 0
  <2>1. x \notin Ratifying(t)
    BY <1>3, ApprovalAssertsNothing DEF Ratifying
  <2>2. x \notin Beliefs(t)
    BY <1>3, ApprovalAssertsNothing DEF Beliefs
  <2>3. x \in Answering
    BY <1>2, <1>3, <2>1, <2>2
  <2>4. \E n : x.event = Asserted(AnswerClaim(n), turns[n].at)
    BY <2>3 DEF Answering
  <2> QED
    BY <2>4 DEF Asserted, AnswerClaim
<1>4. KnownBeliefs' = KnownBeliefs /\ AtHand = {}
  BY <1>1 DEF KnownBeliefs, AtHand
<1> QED
  BY <1>1, <1>3, <1>4 DEF UndetectedInv

LEMMA UndetectedAppend ==
  ASSUME UndetectedInv, AppendNext
  PROVE  UndetectedInv'
<1>1. pc = "approving" /\ pc' \in {"approving", "approved"} /\ UNCHANGED <<run, pool, blocked, todo>>
  BY DEF AppendNext, sessionVars
<1>2. CASE queue = {}
  <2>1. UNCHANGED <<log, queue>>
    BY <1>2 DEF AppendNext
  <2> QED
    BY <1>1, <2>1, UndetectedStutter
<1>3. CASE queue # {}
  <2>1. PICK x \in queue : log' = log \cup {x.event} /\ queue' = queue \ {x}
    BY <1>3 DEF AppendNext
  <2>2. x.event.type = "claim.asserted" => x.event.claim.n = 0
    BY DEF UndetectedInv
  <2>3. KnownBeliefs' = KnownBeliefs
    BY <2>1, <2>2, KnownAppended DEF KnownBeliefs
  <2>4. AtHand = {}
    BY <1>1 DEF AtHand
  <2> QED
    BY <1>1, <2>1, <2>3, <2>4 DEF UndetectedInv
<1> QED
  BY <1>2, <1>3

\* A turn joins the log.
LEMMA TurnAsserts ==
  ASSUME NEW t, NEW what, AppendTurn(t, what)
  PROVE  \E e : log' = log \cup {e} /\ (e.type = "claim.asserted" => e.claim.n = 0)
<1> DEFINE turn == [type |-> "session.turn", at |-> t, h |-> 0, index |-> Len(turns), kind |-> what.kind,
                    item |-> what.item, depth |-> what.depth, said |-> what.said, card |-> what.card]
<1>1. turn.type # "claim.asserted"
  OBVIOUS
<1>2. log' = log \cup {turn}
  BY DEF AppendTurn
<1> QED
  BY <1>1, <1>2

LEMMA UndetectedStep == PoolInv /\ UndetectedInv /\ [Next]_vars => UndetectedInv'
<1> SUFFICES ASSUME PoolInv, UndetectedInv, [Next]_vars PROVE UndetectedInv'
  OBVIOUS
<1> DEFINE Kept == UNCHANGED <<pool, blocked, todo, queue, run>>
<1> DEFINE Calm == pc # "detect" /\ (pc = "refused" => pc' = "refused") /\ pc' \notin {"detect", "killed"} /\ pc # "killed"
<1>1. CASE Backoff
  <2>1. UNCHANGED <<log, pc, pool, blocked, todo, queue, run>>
    BY <1>1 DEF Backoff, sessionVars
  <2> QED
    BY <2>1 DEF UndetectedInv, KnownBeliefs, AtHand
<1>2. CASE Open \/ Close
  <2>1. \E e : log' = log \cup {e} /\ (e.type = "claim.asserted" => e.claim.n = 0)
    <3>1. CASE Open
      <4>1. PICK t : log' = log \cup {[type |-> "session.opened", at |-> t, h |-> 0]}
        BY <3>1 DEF Open
      <4>2. [type |-> "session.opened", at |-> t, h |-> 0].type # "claim.asserted"
        OBVIOUS
      <4> QED
        BY <4>1, <4>2
    <3>2. CASE Close
      <4>1. PICK t : log' = log \cup {[type |-> "session.closed", at |-> t, h |-> 0]}
        BY <3>2 DEF Close
      <4>2. [type |-> "session.closed", at |-> t, h |-> 0].type # "claim.asserted"
        OBVIOUS
      <4> QED
        BY <4>1, <4>2
    <3> QED
      BY <1>2, <3>1, <3>2
  <2>2. Kept /\ Calm
    BY <1>2 DEF Open, PlanItem, Close, Checked
  <2> QED
    BY <2>1, <2>2, UndetectedStutter
<1>3. CASE Speak
  <2>1. \E e : log' = log \cup {e} /\ (e.type = "claim.asserted" => e.claim.n = 0)
    BY <1>3, TurnAsserts DEF Speak
  <2>2. Kept /\ Calm
    BY <1>3 DEF Speak, Checked
  <2> QED
    BY <2>1, <2>2, UndetectedStutter
<1>4. CASE Work \/ Stop \/ Plan \/ FollowUp
  <2>1. UNCHANGED log
    BY <1>4 DEF Work, Stop, Plan, FollowUp
  <2>2. Kept
    BY <1>4 DEF Work, Stop, Plan, FollowUp, sessionVars
  <2>3. pc \in {"work", "wait", "plan", "followup"}
    BY <1>4 DEF Work, Stop, Plan, FollowUp
  <2>4. pc' \in {"speak", "refused", "close", "followup", "work"}
    BY <1>4 DEF Work, Stop, Plan, FollowUp, MoveOn, PlanItem, Checked
  <2> QED
    BY <2>1, <2>2, <2>3, <2>4, UndetectedStutter
<1>5. ASSUME NEW a \in Answers, Observe(a) PROVE UndetectedInv'
  <2>1. \E e : log' = log \cup {e} /\ (e.type = "claim.asserted" => e.claim.n = 0)
    BY <1>5, TurnAsserts DEF Observe
  <2>2. Kept /\ Calm
    BY <1>5 DEF Observe
  <2> QED
    BY <2>1, <2>2, UndetectedStutter
<1>6. CASE Extract
  BY <1>6, UndetectedExtract
<1>7. CASE Crash
  <2>1. UNCHANGED <<log, pool, blocked, todo, queue, run>> /\ pc \in {"extract", "detect"} /\ pc' = "refused"
    BY <1>7 DEF Crash, sessionVars
  <2>2. KnownBeliefs' = KnownBeliefs /\ AtHand \subseteq AtHand' /\ pc # "killed" /\ pc' \notin {"detect", "killed"}
    BY <2>1 DEF KnownBeliefs, AtHand
  <2> QED
    BY <2>1, <2>2 DEF UndetectedInv
<1>8. CASE AssertBelief
  BY <1>8, UndetectedAssert
<1>9. CASE Detect
  BY <1>9, UndetectedDetect
<1>10. CASE Approve
  BY <1>10, UndetectedApprove
<1>11. CASE AppendNext
  BY <1>11, UndetectedAppend
<1>12. CASE Kill
  BY <1>12, UndetectedFresh DEF Kill
<1>13. CASE Rerun
  BY <1>13, UndetectedFresh DEF Rerun
<1>14. CASE UNCHANGED vars
  <2>1. UNCHANGED <<log, pc, pool, blocked, todo, queue, run>>
    BY <1>14 DEF vars, sessionVars
  <2> QED
    BY <2>1 DEF UndetectedInv, KnownBeliefs, AtHand
<1> QED
  BY <1>1, <1>2, <1>3, <1>4, <1>5, <1>6, <1>7, <1>8, <1>9, <1>10, <1>11, <1>12, <1>13, <1>14 DEF Next

\* At any moment of any session, whatever the answers, the retries and the
\* failures, at most one belief is in the log that the session neither pooled nor
\* blocked, and all that it pooled or blocked are in the log
\* (PartnerSession.observe_user_turn: assert, block, detect, belief by belief).
THEOREM AlwaysOneUndetected == Spec => []OneUndetected
<1>1. UndetectedInv => OneUndetected
  <2> SUFFICES ASSUME UndetectedInv PROVE OneUndetected
    OBVIOUS
  <2>1. ASSUME run = 1, pc # "killed" PROVE Cardinality(KnownBeliefs \ (pool \cup blocked)) <= 1
    <3>1. KnownBeliefs \ (pool \cup blocked) \subseteq AtHand
      BY <2>1 DEF UndetectedInv
    <3>2. KnownBeliefs \ (pool \cup blocked) \subseteq {Head(todo)}
      BY <3>1 DEF AtHand
    <3>3. IsFiniteSet({Head(todo)}) /\ Cardinality({Head(todo)}) = 1
      BY FS_Singleton
    <3>4. Cardinality(KnownBeliefs \ (pool \cup blocked)) <= Cardinality({Head(todo)})
      BY <3>2, <3>3, FS_Subset
    <3> QED
      BY <3>3, <3>4
  <2> QED
    BY <2>1 DEF OneUndetected, UndetectedInv, KnownBeliefs
<1> QED
  BY <1>1, PoolInit, PoolStep, UndetectedInit, UndetectedStep, PTL DEF Spec

-----------------------------------------------------------------------------
(* The agenda.                                                             *)

Underway == {"wait", "extract", "assert", "detect", "plan", "followup", "close", "done"}

OfKind(k) == {n \in DOMAIN turns : turns[n].kind = k}

FollowUpsOf(i) == {n \in OfKind("follow_up") : turns[n].item = i}

\* What is about to be spoken.
PlanSound ==
  pc \in {"work", "speak"} =>
    /\ plan.kind \in {"agenda", "follow_up", "divergence"}
    /\ plan.kind = "agenda" =>
         /\ plan.item = IF turns = <<>> THEN 1 ELSE item + 1
         /\ plan.item \in DOMAIN Agenda /\ plan.depth = 0
    /\ plan.kind = "follow_up" => plan.item = item /\ plan.depth = depth + 1 /\ depth < DepthLimit
    /\ plan.kind = "divergence" => plan.item = item /\ plan.depth = depth
    /\ plan.kind # "agenda" => pc = "speak" /\ turns # <<>>

\* The agenda has been asked up to the item at hand.
AskedSoFar ==
  /\ item \in DOMAIN Agenda
  /\ {turns[n].item : n \in OfKind("agenda")} = IF turns = <<>> THEN {} ELSE 1..item
  /\ \A m, n \in OfKind("agenda") : m < n => turns[m].item < turns[n].item
  /\ \A n \in DOMAIN turns : turns[n].item \in 1..item
  /\ pc \in Underway => turns # <<>>

\* The follow-ups of each item are within the budget, and those of the item at hand
\* are counted in depth.
FollowedUp ==
  /\ depth \in 0..DepthLimit
  /\ \A i \in DOMAIN Agenda : Cardinality(FollowUpsOf(i)) <= DepthLimit
  /\ Cardinality(FollowUpsOf(item)) <= depth
  /\ pc = "followup" => depth < DepthLimit /\ pending = <<>>

\* A collision is spoken, about to be, or queued.
SpokenOrQueued ==
  raised \subseteq {turns[n].card : n \in DOMAIN turns} \cup ToSet(pending)
                     \cup (IF pc = "speak" THEN {plan.card} ELSE {})

LeftWhenDone ==
  /\ why = "none" \/ pc \in {"close", "done", "refused", "approving", "approved"}
  /\ why = "agenda" =>
       item = Len(Agenda) /\ turns # <<>> /\ raised \subseteq {turns[n].card : n \in DOMAIN turns}

\* Nothing of a session before it is opened.
AtStart == pc = "start" => turns = <<>> /\ why = "none"

AgendaInv == AtStart /\ PlanSound /\ AskedSoFar /\ FollowedUp /\ SpokenOrQueued /\ LeftWhenDone

LEMMA AgendaFacts ==
  /\ Len(Agenda) \in Nat /\ DOMAIN Agenda = 1..Len(Agenda)
  /\ DepthLimit \in Nat
BY PartnerAssumption DEF DepthLimit

\* A step that neither speaks nor plans.
LEMMA AgendaQuiet ==
  ASSUME AgendaInv, UNCHANGED <<turns, item, depth, plan, pending, raised>>,
         pc' \in {"start", "work", "speak", "followup"} => pc' = pc,
         pc = "speak" => pc' = "speak",
         pc' \in Underway => pc \in Underway,
         \/ why' = why /\ (why = "none" \/ pc' \in {"close", "done", "refused", "approving", "approved"})
         \/ why' = "no_answer" /\ pc' = "close"
  PROVE  AgendaInv'
<1>1. AtStart'
  BY DEF AgendaInv, AtStart
<1>2. PlanSound'
  BY DEF AgendaInv, PlanSound
<1>3. AskedSoFar' /\ FollowedUp'
  BY DEF AgendaInv, AskedSoFar, FollowedUp, FollowUpsOf, OfKind
<1>4. SpokenOrQueued'
  BY DEF AgendaInv, SpokenOrQueued
<1>5. LeftWhenDone'
  BY DEF AgendaInv, LeftWhenDone
<1> QED
  BY <1>1, <1>2, <1>3, <1>4, <1>5 DEF AgendaInv

\* A session before anything is said.
LEMMA AgendaClean ==
  ASSUME NEW at \in {"start", "killed"}, 1 \in DOMAIN Agenda,
         pc' = at, why' = "none", turns' = <<>>, item' = 1, depth' = 0, pending' = <<>>, raised' = {}
  PROVE  AgendaInv'
<1>1. DOMAIN turns' = {} /\ OfKind("agenda")' = {} /\ OfKind("follow_up")' = {}
  BY DEF OfKind
<1>2. AtStart' /\ PlanSound' /\ LeftWhenDone' /\ SpokenOrQueued'
  BY DEF AtStart, PlanSound, LeftWhenDone, SpokenOrQueued
<1>3. AskedSoFar'
  BY <1>1 DEF AskedSoFar, Underway
<1>4. FollowedUp'
  <2>1. \A i : {n \in OfKind("follow_up")' : turns'[n].item = i} = {}
    BY <1>1
  <2>2. Cardinality({}) = 0
    BY FS_EmptySet
  <2>3. Cardinality(FollowUpsOf(item))' = 0
    BY <2>1, <2>2 DEF FollowUpsOf
  <2>4. \A i \in DOMAIN Agenda : Cardinality(FollowUpsOf(i))' = 0
    BY <2>1, <2>2 DEF FollowUpsOf
  <2> QED
    BY <2>3, <2>4, AgendaFacts DEF FollowedUp
<1> QED
  BY <1>2, <1>3, <1>4 DEF AgendaInv

LEMMA AgendaFresh ==
  ASSUME AgendaInv, NEW at \in {"start", "killed"}, Fresh(at)
  PROVE  AgendaInv'
<1>1. 1 \in DOMAIN Agenda
  BY AgendaFacts DEF AgendaInv, AskedSoFar
<1> QED
  BY <1>1, AgendaClean DEF Fresh

LEMMA AgendaInit == Init => AgendaInv
<1> SUFFICES ASSUME Init PROVE AgendaInv
  OBVIOUS
<1>1. 1 \in DOMAIN Agenda
  <2>1. Agenda # <<>> /\ Agenda \in Seq(ToSet(Agenda))
    BY PartnerAssumption DEF Init, AgendaResolved
  <2> QED
    BY <2>1
<1>2. pc = "start" /\ why = "none" /\ turns = <<>> /\ item = 1 /\ depth = 0 /\ pending = <<>> /\ raised = {}
  BY DEF Init
<1>3. DOMAIN turns = {} /\ OfKind("agenda") = {} /\ OfKind("follow_up") = {}
  BY <1>2 DEF OfKind
<1>4. AtStart /\ PlanSound /\ LeftWhenDone /\ SpokenOrQueued
  BY <1>2 DEF AtStart, PlanSound, LeftWhenDone, SpokenOrQueued
<1>5. AskedSoFar
  BY <1>1, <1>2, <1>3 DEF AskedSoFar, Underway
<1>6. FollowedUp
  <2>1. \A i : {n \in OfKind("follow_up") : turns[n].item = i} = {}
    BY <1>3
  <2>2. Cardinality({}) = 0
    BY FS_EmptySet
  <2>3. Cardinality(FollowUpsOf(item)) = 0
    BY <2>1, <2>2 DEF FollowUpsOf
  <2>4. \A i \in DOMAIN Agenda : Cardinality(FollowUpsOf(i)) = 0
    BY <2>1, <2>2 DEF FollowUpsOf
  <2> QED
    BY <1>2, <2>3, <2>4, AgendaFacts DEF FollowedUp
<1> QED
  BY <1>4, <1>5, <1>6 DEF AgendaInv

LEMMA AgendaPlanFields ==
  ASSUME NEW i, NEW said
  PROVE  LET p == AgendaPlan(i, said) IN p.kind = "agenda" /\ p.item = i /\ p.depth = 0
BY DEF AgendaPlan, NoPlan

\* An item of the agenda is planned.
LEMMA AgendaPlanned ==
  ASSUME AgendaInv, UNCHANGED <<turns, item, depth, pending, raised, why>>,
         why = "none", pc # "speak", pending = <<>>,
         NEW i \in DOMAIN Agenda, i = IF turns = <<>> THEN 1 ELSE item + 1,
         NEW said, plan' = AgendaPlan(i, said), pc' \in {"work", "speak", "refused"}
  PROVE  AgendaInv'
<1>1. AtStart' /\ LeftWhenDone'
  BY DEF AgendaInv, AtStart, LeftWhenDone
<1>2. plan'.kind = "agenda" /\ plan'.item = i /\ plan'.depth = 0
  BY AgendaPlanFields
<1>3. PlanSound'
  BY <1>2 DEF PlanSound
<1>4. AskedSoFar' /\ FollowedUp'
  BY DEF AgendaInv, AskedSoFar, FollowedUp, FollowUpsOf, OfKind, Underway
<1>5. SpokenOrQueued'
  BY DEF AgendaInv, SpokenOrQueued
<1> QED
  BY <1>1, <1>3, <1>4, <1>5 DEF AgendaInv

LEMMA AgendaMoveOn ==
  ASSUME AgendaInv, UNCHANGED <<turns, item, depth, pending, raised>>,
         pc \in {"plan", "followup"}, pending = <<>>, MoveOn
  PROVE  AgendaInv'
<1>1. turns # <<>> /\ why = "none" /\ item \in 1..Len(Agenda) /\ Len(Agenda) \in Nat
  BY AgendaFacts DEF AgendaInv, AskedSoFar, Underway, LeftWhenDone
<1>2. CASE NextItem(item) = {}
  <2>1. pc' \in {"close", "refused"} /\ why' = "agenda" /\ UNCHANGED plan
    BY <1>2 DEF MoveOn, Checked
  <2>2. item = Len(Agenda)
    <3>1. item + 1 \notin DOMAIN Agenda
      BY <1>2 DEF NextItem
    <3>2. ASSUME NEW n \in Nat, NEW i \in 1..n, i + 1 \notin 1..n PROVE i = n
      BY <3>2
    <3> QED
      <4>1. item + 1 \notin 1..Len(Agenda)
        BY <3>1, AgendaFacts, Zenon
      <4>2. item \in 1..Len(Agenda) /\ Len(Agenda) \in Nat
        BY <1>1
      <4> QED
        BY <3>2, <4>1, <4>2, Zenon
  <2>3. ToSet(pending) = {}
    BY DEF ToSet
  <2>4. raised \subseteq {turns[n].card : n \in DOMAIN turns}
    BY <2>3 DEF AgendaInv, SpokenOrQueued
  <2>5. LeftWhenDone'
    BY <1>1, <2>1, <2>2, <2>4 DEF LeftWhenDone
  <2>6. AtStart' /\ PlanSound' /\ SpokenOrQueued'
    BY <2>1, <2>4 DEF AtStart, PlanSound, SpokenOrQueued
  <2>7. AskedSoFar' /\ FollowedUp'
    BY <1>1, <2>1 DEF AgendaInv, AskedSoFar, FollowedUp, FollowUpsOf, OfKind
  <2> QED
    BY <2>5, <2>6, <2>7 DEF AgendaInv
<1>3. CASE NextItem(item) # {}
  <2>1. PICK i \in NextItem(item) : IF failed' THEN PlanItem(i, "refused") ELSE PlanItem(i, "speak")
    BY <1>3 DEF MoveOn
  <2>2. UNCHANGED why
    BY <1>3 DEF MoveOn
  <2>3. i = item + 1 /\ i \in DOMAIN Agenda
    BY DEF NextItem
  <2>4. pc' \in {"work", "speak", "refused"} /\ \E said : plan' = AgendaPlan(i, said)
    BY <2>1 DEF PlanItem
  <2> QED
    BY <1>1, <2>2, <2>3, <2>4, AgendaPlanned
<1> QED
  BY <1>2, <1>3

LEMMA AgendaOpen ==
  ASSUME AgendaInv, Open
  PROVE  AgendaInv'
<1>1. /\ pc = "start" /\ pc' \in {"work", "speak"} /\ UNCHANGED <<why, turns, item, depth, pending, raised>>
      /\ \E said : plan' = AgendaPlan(1, said)
  BY DEF Open, PlanItem, histVars
<1>2. turns = <<>> /\ why = "none" /\ 1 \in DOMAIN Agenda
  BY <1>1, AgendaFacts DEF AgendaInv, AtStart, AskedSoFar
<1>3. PICK said : plan' = AgendaPlan(1, said)
  BY <1>1
<1>4. plan'.kind = "agenda" /\ plan'.item = 1 /\ plan'.depth = 0
  BY <1>3, AgendaPlanFields
<1>5. AtStart' /\ LeftWhenDone' /\ PlanSound'
  BY <1>1, <1>2, <1>4 DEF AtStart, LeftWhenDone, PlanSound
<1>6. AskedSoFar' /\ FollowedUp'
  BY <1>1, <1>2 DEF AgendaInv, AskedSoFar, FollowedUp, FollowUpsOf, OfKind, Underway
<1>7. SpokenOrQueued'
  BY <1>1 DEF AgendaInv, SpokenOrQueued
<1> QED
  BY <1>5, <1>6, <1>7 DEF AgendaInv

LEMMA AgendaWork ==
  ASSUME AgendaInv, Work
  PROVE  AgendaInv'
<1>1. /\ pc = "work" /\ pc' \in {"speak", "refused"}
      /\ UNCHANGED <<why, turns, item, depth, pending, raised>>
      /\ \E said : plan' = AgendaPlan(plan.item, said)
  BY DEF Work, Checked, histVars
<1>2. PICK said : plan' = AgendaPlan(plan.item, said)
  BY <1>1
<1>3. plan'.kind = "agenda" /\ plan'.item = plan.item /\ plan'.depth = 0
  BY <1>2, AgendaPlanFields
<1>4. AtStart' /\ LeftWhenDone' /\ PlanSound'
  BY <1>1, <1>3 DEF AgendaInv, AtStart, LeftWhenDone, PlanSound
<1>5. AskedSoFar' /\ FollowedUp'
  BY <1>1 DEF AgendaInv, AskedSoFar, FollowedUp, FollowUpsOf, OfKind, Underway
<1>6. SpokenOrQueued'
  BY <1>1 DEF AgendaInv, SpokenOrQueued
<1> QED
  BY <1>4, <1>5, <1>6 DEF AgendaInv

\* One more turn of another kind leaves the count of follow-ups.
LEMMA FollowUpsAdded ==
  ASSUME BothSequences, NEW t, NEW what, AppendTurn(t, what), NEW i
  PROVE  FollowUpsOf(i)' = IF what.kind = "follow_up" /\ what.item = i
                             THEN FollowUpsOf(i) \cup {Len(turns) + 1} ELSE FollowUpsOf(i)
<1> DEFINE L == Len(turns)
<1>1. /\ L \in Nat /\ DOMAIN turns = 1..L /\ DOMAIN turns' = 1..(L + 1)
      /\ \A n \in DOMAIN turns : turns'[n] = turns[n]
      /\ turns'[L + 1].kind = what.kind /\ turns'[L + 1].item = what.item
  BY TurnAdded
<1> HIDE DEF L
<1>2. DOMAIN turns' = DOMAIN turns \cup {L + 1} /\ L + 1 \notin DOMAIN turns
  BY <1>1
<1>3. FollowUpsOf(i)' = {n \in DOMAIN turns' : turns'[n].kind = "follow_up" /\ turns'[n].item = i}
  BY DEF FollowUpsOf, OfKind
<1>4. FollowUpsOf(i) = {n \in DOMAIN turns : turns[n].kind = "follow_up" /\ turns[n].item = i}
  BY DEF FollowUpsOf, OfKind
<1> QED
  BY <1>1, <1>2, <1>3, <1>4 DEF L

LEMMA FollowUpsFinite ==
  ASSUME BothSequences, NEW i
  PROVE  IsFiniteSet(FollowUpsOf(i)) /\ Cardinality(FollowUpsOf(i)) \in Nat
<1>1. PICK S : turns \in Seq(S)
  BY DEF BothSequences
<1>2. DOMAIN turns = 1..Len(turns) /\ Len(turns) \in Nat
  BY <1>1
<1>3. IsFiniteSet(1..Len(turns))
  BY <1>2, FS_Interval
<1>4. FollowUpsOf(i) \subseteq 1..Len(turns)
  BY <1>2 DEF FollowUpsOf, OfKind
<1> QED
  BY <1>3, <1>4, FS_Subset, FS_CardinalityType

\* The questions of the agenda that have been asked, with one more turn.
LEMMA AgendaTurnAdded ==
  ASSUME BothSequences, NEW t, NEW what, AppendTurn(t, what)
  PROVE  /\ OfKind("agenda")' = IF what.kind = "agenda" THEN OfKind("agenda") \cup {Len(turns) + 1}
                                                        ELSE OfKind("agenda")
         /\ \A n \in OfKind("agenda") : n \in Nat /\ n < Len(turns) + 1 /\ turns'[n] = turns[n]
<1> DEFINE L == Len(turns)
<1>1. /\ L \in Nat /\ DOMAIN turns = 1..L /\ DOMAIN turns' = 1..(L + 1)
      /\ \A n \in DOMAIN turns : turns'[n] = turns[n]
      /\ turns'[L + 1].kind = what.kind
  BY TurnAdded
<1> HIDE DEF L
<1>2. DOMAIN turns' = DOMAIN turns \cup {L + 1} /\ L + 1 \notin DOMAIN turns
  BY <1>1
<1>3. OfKind("agenda")' = {n \in DOMAIN turns' : turns'[n].kind = "agenda"}
  BY DEF OfKind
<1>4. OfKind("agenda") = {n \in DOMAIN turns : turns[n].kind = "agenda"}
  BY DEF OfKind
<1>5. OfKind("agenda")' = IF what.kind = "agenda" THEN OfKind("agenda") \cup {L + 1} ELSE OfKind("agenda")
  BY <1>1, <1>2, <1>3, <1>4
<1>6. \A n \in OfKind("agenda") : n \in Nat /\ n < L + 1 /\ turns'[n] = turns[n]
  BY <1>1, <1>4
<1> QED
  BY <1>5, <1>6 DEF L

\* The agenda is asked on: a turn of the item at hand, or the question of the next.
LEMMA AskedOn ==
  ASSUME BothSequences, AgendaInv, NEW t, NEW what, AppendTurn(t, what),
         item' = what.item, what.item \in DOMAIN Agenda,
         what.kind = "agenda" => what.item = IF turns = <<>> THEN 1 ELSE item + 1,
         what.kind # "agenda" => what.item = item /\ turns # <<>>
  PROVE  AskedSoFar'
<1> DEFINE L == Len(turns)
<1> DEFINE Items == {turns[n].item : n \in OfKind("agenda")}
<1>1. /\ L \in Nat /\ DOMAIN turns = 1..L /\ DOMAIN turns' = 1..(L + 1) /\ turns' # <<>>
      /\ \A n \in DOMAIN turns : turns'[n] = turns[n]
      /\ turns'[L + 1].kind = what.kind /\ turns'[L + 1].item = what.item
  BY TurnAdded
<1>2. /\ OfKind("agenda")' = IF what.kind = "agenda" THEN OfKind("agenda") \cup {L + 1} ELSE OfKind("agenda")
      /\ \A n \in OfKind("agenda") : n \in Nat /\ n < L + 1 /\ turns'[n] = turns[n]
  BY AgendaTurnAdded
<1>3. /\ item \in Nat \ {0} /\ what.item \in Nat \ {0}
      /\ Items = IF turns = <<>> THEN {} ELSE 1..item
      /\ \A m, n \in OfKind("agenda") : m < n => turns[m].item < turns[n].item
      /\ \A n \in DOMAIN turns : turns[n].item \in 1..item
  <2>1. item \in DOMAIN Agenda
    BY DEF AgendaInv, AskedSoFar
  <2>2. item \in Nat \ {0} /\ what.item \in Nat \ {0}
    BY <2>1, AgendaFacts
  <2> QED
    BY <2>2 DEF AgendaInv, AskedSoFar
<1>4. turns = <<>> => DOMAIN turns = {}
  OBVIOUS
<1>5. \A n \in OfKind("agenda") : n \in DOMAIN turns
  BY DEF OfKind
<1> HIDE DEF L, Items
<1>6. {turns'[n].item : n \in OfKind("agenda")'} = 1..what.item
  <2>1. CASE what.kind = "agenda"
    <3>1. {turns'[n].item : n \in OfKind("agenda")'} = Items \cup {what.item}
      BY <1>1, <1>2, <2>1 DEF Items
    <3>2. CASE turns = <<>>
      BY <3>1, <3>2, <1>3, <2>1
    <3>3. CASE turns # <<>>
      BY <3>1, <3>3, <1>3, <2>1
    <3> QED
      BY <3>2, <3>3
  <2>2. CASE what.kind # "agenda"
    <3>1. {turns'[n].item : n \in OfKind("agenda")'} = Items
      BY <1>2, <2>2 DEF Items
    <3> QED
      BY <3>1, <1>3, <2>2
  <2> QED
    BY <2>1, <2>2
<1>7. \A n \in DOMAIN turns : turns[n].item \in 1..what.item /\ (what.kind = "agenda" => turns[n].item < what.item)
  <2> SUFFICES ASSUME NEW n \in DOMAIN turns
               PROVE  turns[n].item \in 1..what.item /\ (what.kind = "agenda" => turns[n].item < what.item)
    OBVIOUS
  <2>1. turns # <<>> /\ turns[n].item \in 1..item
    BY <1>3, <1>4
  <2> QED
    BY <2>1, <1>3
<1>8. ASSUME NEW m \in OfKind("agenda")', NEW n \in OfKind("agenda")', m < n
      PROVE  turns'[m].item < turns'[n].item
  <2>1. m \in OfKind("agenda")
    BY <1>1, <1>2, <1>8
  <2>2. CASE n \in OfKind("agenda")
    BY <1>2, <1>3, <1>8, <2>1, <2>2
  <2>3. CASE n \notin OfKind("agenda")
    <3>1. n = L + 1 /\ what.kind = "agenda"
      BY <1>2, <2>3
    <3> QED
      BY <1>1, <1>2, <1>5, <1>7, <2>1, <3>1
  <2> QED
    BY <2>2, <2>3
<1>9. \A n \in DOMAIN turns' : turns'[n].item \in 1..what.item
  <2> SUFFICES ASSUME NEW n \in DOMAIN turns' PROVE turns'[n].item \in 1..what.item
    OBVIOUS
  <2>1. n \in DOMAIN turns \/ n = L + 1
    BY <1>1
  <2> QED
    BY <1>1, <1>3, <1>7, <2>1
<1> QED
  BY <1>1, <1>6, <1>8, <1>9 DEF AskedSoFar

LEMMA AgendaSpeak ==
  ASSUME BothSequences, AgendaInv, Speak
  PROVE  AgendaInv'
<1>1. PICK t : AppendTurn(t, plan)
  BY DEF Speak
<1>2. /\ pc = "speak" /\ pc' \in {"close", "refused", "wait"} /\ why' \in {"cap", why}
      /\ (why' = "cap" => pc' = "close")
      /\ item' = plan.item /\ depth' = plan.depth /\ UNCHANGED <<pending, raised>>
  <2>1. pc = "speak" /\ item' = plan.item /\ depth' = plan.depth /\ UNCHANGED <<pending, raised>>
    BY DEF Speak, histVars
  <2>2. (pc' = "close" /\ why' = "cap") \/ (pc' = Checked(failed, "wait") /\ why' = why)
    BY Zenon DEF Speak
  <2>3. Checked(failed, "wait") \in {"refused", "wait"}
    BY DEF Checked
  <2>4. why = "none"
    BY <2>1 DEF AgendaInv, LeftWhenDone
  <2> QED
    BY <2>1, <2>2, <2>3, <2>4
<1>3. /\ why = "none" /\ plan.kind \in {"agenda", "follow_up", "divergence"}
      /\ plan.kind = "agenda" => plan.item = (IF turns = <<>> THEN 1 ELSE item + 1) /\ plan.item \in DOMAIN Agenda /\ plan.depth = 0
      /\ plan.kind = "follow_up" => plan.item = item /\ plan.depth = depth + 1 /\ depth < DepthLimit
      /\ plan.kind = "divergence" => plan.item = item /\ plan.depth = depth
      /\ plan.kind # "agenda" => turns # <<>>
      /\ item \in DOMAIN Agenda /\ \A n \in DOMAIN turns : turns[n].item \in 1..item
      /\ turns = <<>> => DOMAIN turns = {}
  BY <1>2 DEF AgendaInv, LeftWhenDone, PlanSound, AskedSoFar
<1>4. AskedSoFar'
  BY <1>1, <1>2, <1>3, AskedOn
<1>5. AtStart' /\ PlanSound' /\ LeftWhenDone'
  BY <1>2, <1>3 DEF AtStart, PlanSound, LeftWhenDone
<1>6. FollowedUp'
  <2>1. \A i : FollowUpsOf(i)' = IF plan.kind = "follow_up" /\ plan.item = i
                                   THEN FollowUpsOf(i) \cup {Len(turns) + 1} ELSE FollowUpsOf(i)
    BY <1>1, FollowUpsAdded
  <2>2. depth \in Nat /\ item \in Nat /\ DepthLimit \in Nat /\ depth <= DepthLimit
    BY <1>3, AgendaFacts DEF AgendaInv, FollowedUp
  <2>3. \A i \in DOMAIN Agenda : Cardinality(FollowUpsOf(i)) <= DepthLimit
    BY DEF AgendaInv, FollowedUp
  <2>4. Cardinality(FollowUpsOf(item)) <= depth
    BY DEF AgendaInv, FollowedUp
  <2>5. CASE plan.kind = "follow_up"
    <3>1. Cardinality(FollowUpsOf(item) \cup {Len(turns) + 1}) <= depth + 1
      <4>1. IsFiniteSet(FollowUpsOf(item)) /\ Cardinality(FollowUpsOf(item)) \in Nat
        BY FollowUpsFinite
      <4>2. Cardinality(FollowUpsOf(item) \cup {Len(turns) + 1}) <= Cardinality(FollowUpsOf(item)) + 1
        <5>1. \/ Cardinality(FollowUpsOf(item) \cup {Len(turns) + 1}) = Cardinality(FollowUpsOf(item)) + 1
              \/ Cardinality(FollowUpsOf(item) \cup {Len(turns) + 1}) = Cardinality(FollowUpsOf(item))
          BY <4>1, FS_AddElement, Zenon
        <5> QED
          BY <4>1, <5>1
      <4>3. Cardinality(FollowUpsOf(item) \cup {Len(turns) + 1}) \in Nat
        BY <4>1, FS_AddElement, FS_CardinalityType
      <4> QED
        BY <4>1, <4>2, <4>3, <2>2, <2>4
    <3>2. item' = item /\ depth' = depth + 1 /\ depth + 1 <= DepthLimit
      BY <1>2, <1>3, <2>2, <2>5
    <3>3. \A i : FollowUpsOf(i)' = IF i = item THEN FollowUpsOf(i) \cup {Len(turns) + 1} ELSE FollowUpsOf(i)
      BY <2>1, <1>3, <2>5
    <3>4. ASSUME NEW i \in DOMAIN Agenda PROVE Cardinality(FollowUpsOf(i)') <= DepthLimit
      <4>1. CASE i = item
        <5>1. Cardinality(FollowUpsOf(i)') <= depth + 1
          BY <3>1, <3>3, <4>1
        <5>2. Cardinality(FollowUpsOf(i)') \in Nat
          BY <3>3, FollowUpsFinite, FS_AddElement, FS_CardinalityType
        <5> QED
          BY <5>1, <5>2, <2>2, <3>2
      <4>2. CASE i # item
        BY <2>3, <3>3, <4>2
      <4> QED
        BY <4>1, <4>2
    <3>5. Cardinality({n \in OfKind("follow_up")' : turns'[n].item = item'}) <= depth'
      <4>1. FollowUpsOf(item)' = {n \in OfKind("follow_up")' : turns'[n].item = item'}
        BY DEF FollowUpsOf
      <4>2. \A i : FollowUpsOf(i)' = {n \in OfKind("follow_up")' : turns'[n].item = i}
        BY DEF FollowUpsOf
      <4> QED
        BY <3>1, <3>2, <3>3, <4>2
    <3> QED
      BY <1>2, <2>2, <3>2, <3>4, <3>5 DEF FollowedUp, FollowUpsOf
  <2>6. CASE plan.kind # "follow_up"
    <3>1. \A i : FollowUpsOf(i)' = FollowUpsOf(i)
      BY <2>1, <2>6
    <3>3. \A i : FollowUpsOf(i)' = {n \in OfKind("follow_up")' : turns'[n].item = i}
      BY DEF FollowUpsOf
    <3>2. Cardinality({n \in OfKind("follow_up")' : turns'[n].item = item'}) <= depth' /\ depth' \in 0..DepthLimit
      <4>1. CASE plan.kind = "divergence"
        <5>1. item' = item /\ depth' = depth
          BY <1>2, <1>3, <4>1
        <5>2. FollowUpsOf(item) = {n \in OfKind("follow_up")' : turns'[n].item = item}
          BY <3>1, <3>3
        <5> QED
          BY <2>2, <2>4, <5>1, <5>2
      <4>2. CASE plan.kind = "agenda"
        <5>1. FollowUpsOf(plan.item) = {}
          BY <1>3, <2>2, <4>2, AgendaFacts DEF FollowUpsOf, OfKind
        <5> QED
          <6>1. item' = plan.item /\ depth' = 0
            BY <1>2, <1>3, <4>2
          <6>2. FollowUpsOf(plan.item) = {n \in OfKind("follow_up")' : turns'[n].item = plan.item}
            BY <3>1, <3>3
          <6>3. {n \in OfKind("follow_up")' : turns'[n].item = item'} = {}
            BY <5>1, <6>1, <6>2
          <6> QED
            BY <2>2, <6>1, <6>3, FS_EmptySet
      <4> QED
        BY <1>3, <2>6, <4>1, <4>2
    <3> QED
      <4>1. \A i \in DOMAIN Agenda : Cardinality(FollowUpsOf(i)') <= DepthLimit
        BY <2>3, <3>1
      <4> QED
        BY <1>2, <3>2, <4>1 DEF FollowedUp, FollowUpsOf
  <2> QED
    BY <2>5, <2>6
<1>7. SpokenOrQueued'
  <2>1. /\ DOMAIN turns' = 1..(Len(turns) + 1) /\ DOMAIN turns = 1..Len(turns) /\ Len(turns) \in Nat
        /\ \A n \in DOMAIN turns : turns'[n] = turns[n]
        /\ turns'[Len(turns) + 1].card = plan.card
    BY <1>1, TurnAdded
  <2>2. {turns[n].card : n \in DOMAIN turns} \cup {plan.card} \subseteq {turns'[n].card : n \in DOMAIN turns'}
    BY <2>1
  <2> QED
    BY <1>2, <2>2 DEF AgendaInv, SpokenOrQueued
<1> QED
  BY <1>4, <1>5, <1>6, <1>7 DEF AgendaInv

LEMMA AgendaObserve ==
  ASSUME BothSequences, AgendaInv, NEW a \in Answers, Observe(a)
  PROVE  AgendaInv'
<1> DEFINE what == [kind |-> "answer", item |-> item, depth |-> depth, said |-> a, card |-> {}]
<1>1. PICK t : AppendTurn(t, what)
  BY DEF Observe
<1>2. /\ pc = "wait" /\ pc' = "extract"
      /\ UNCHANGED <<why, item, depth, pending, raised>>
  BY DEF Observe, histVars
<1>3. what.kind = "answer" /\ what.item = item
  OBVIOUS
<1> HIDE DEF what
<1>4. turns # <<>> /\ why = "none" /\ item \in DOMAIN Agenda
  BY <1>2 DEF AgendaInv, AskedSoFar, Underway, LeftWhenDone
<1>5. AskedSoFar'
  BY <1>1, <1>2, <1>3, <1>4, AskedOn
<1>6. AtStart' /\ PlanSound' /\ LeftWhenDone'
  BY <1>2, <1>4 DEF AtStart, PlanSound, LeftWhenDone
<1>7. FollowedUp'
  <2>1. \A i : FollowUpsOf(i)' = FollowUpsOf(i)
    BY <1>1, <1>3, FollowUpsAdded
  <2>2. \A i : FollowUpsOf(i)' = {n \in OfKind("follow_up")' : turns'[n].item = i}
    BY DEF FollowUpsOf
  <2>3. {n \in OfKind("follow_up")' : turns'[n].item = item'} = FollowUpsOf(item)
    BY <1>2, <2>1, <2>2
  <2>4. \A i \in DOMAIN Agenda : Cardinality(FollowUpsOf(i)') <= DepthLimit
    BY <2>1 DEF AgendaInv, FollowedUp
  <2>5. Cardinality(FollowUpsOf(item)) <= depth /\ depth \in 0..DepthLimit
    BY DEF AgendaInv, FollowedUp
  <2> QED
    BY <1>2, <2>3, <2>4, <2>5 DEF FollowedUp, FollowUpsOf
<1>8. SpokenOrQueued'
  <2>1. /\ DOMAIN turns' = 1..(Len(turns) + 1) /\ DOMAIN turns = 1..Len(turns) /\ Len(turns) \in Nat
        /\ \A n \in DOMAIN turns : turns'[n] = turns[n]
    BY <1>1, TurnAdded
  <2>2. {turns[n].card : n \in DOMAIN turns} \subseteq {turns'[n].card : n \in DOMAIN turns'}
    BY <2>1
  <2> QED
    BY <1>2, <2>2 DEF AgendaInv, SpokenOrQueued
<1> QED
  BY <1>5, <1>6, <1>7, <1>8 DEF AgendaInv

\* Every card a detection raises is queued.
LEMMA AgendaDetect ==
  ASSUME Listed, AgendaInv, Detect
  PROVE  AgendaInv'
<1> DEFINE cards(found) == Cards(Head(todo), found)
<1>1. /\ pc = "detect" /\ UNCHANGED <<turns, item, depth, why>>
  BY DEF Detect
<1>2. PICK found \in SUBSET Submitted(Head(todo)) :
        IF found = {} THEN Accept(Head(todo)) /\ UNCHANGED <<pending, raised>>
        ELSE /\ pending' = pending \o cards(found)
             /\ raised' = raised \cup ToSet(cards(found))
             /\ pc' = IF Len(todo) = 1 THEN "plan" ELSE "assert"
  BY DEF Detect
<1>3. pc' \in {"plan", "assert"}
  BY <1>2 DEF Accept
<1>4. why = "none" /\ turns # <<>>
  BY <1>1 DEF AgendaInv, LeftWhenDone, AskedSoFar, Underway
<1>5. AtStart' /\ PlanSound' /\ LeftWhenDone'
  BY <1>1, <1>3, <1>4 DEF AtStart, PlanSound, LeftWhenDone
<1>6. AskedSoFar' /\ FollowedUp'
  BY <1>1, <1>3, <1>4 DEF AgendaInv, AskedSoFar, FollowedUp, FollowUpsOf, OfKind
<1>7. SpokenOrQueued'
  <2>1. raised \subseteq {turns[n].card : n \in DOMAIN turns} \cup ToSet(pending)
    BY <1>1 DEF AgendaInv, SpokenOrQueued
  <2>2. CASE found = {}
    BY <1>1, <1>2, <1>3, <2>1, <2>2 DEF SpokenOrQueued
  <2>3. CASE found # {}
    <3>1. IsFiniteSet(found)
      <4>1. found \subseteq pool /\ IsFiniteSet(pool)
        BY DEF Submitted, Block, Listed
      <4> QED
        BY <4>1, FS_Subset
    <3>2. PICK A : cards(found) \in Seq(A)
      BY <3>1, CardsListed
    <3>3. PICK B : pending \in Seq(B)
      BY DEF Listed
    <3>4. ASSUME NEW r \in Seq(B), NEW s \in Seq(A)
          PROVE  ToSet(r \o s) = ToSet(r) \cup ToSet(s)
      <4> DEFINE m == Len(r)
      <4> DEFINE n == Len(s)
      <4> DEFINE q == r \o s
      <4>1. /\ m \in Nat /\ n \in Nat /\ DOMAIN r = 1..m /\ DOMAIN s = 1..n /\ DOMAIN q = 1..(m + n)
            /\ \A i \in 1..(m + n) : q[i] = IF i <= m THEN r[i] ELSE s[i - m]
        <5>1. r \in Seq(A \cup B) /\ s \in Seq(A \cup B)
          OBVIOUS
        <5> QED
          BY <5>1
      <4> HIDE DEF m, n, q
      <4>2. ASSUME NEW x \in ToSet(q) PROVE x \in ToSet(r) \cup ToSet(s)
        <5>1. PICK i \in 1..(m + n) : x = q[i]
          BY <4>1 DEF ToSet
        <5>2. CASE i <= m
          BY <4>1, <5>1, <5>2 DEF ToSet
        <5>3. CASE ~(i <= m)
          <6>1. i - m \in 1..n
            BY <4>1, <5>3
          <6> QED
            BY <4>1, <5>1, <5>3, <6>1 DEF ToSet
        <5> QED
          BY <5>2, <5>3
      <4>3. ASSUME NEW i \in 1..m PROVE r[i] \in ToSet(q)
        <5>1. i \in 1..(m + n) /\ q[i] = r[i]
          BY <4>1
        <5> QED
          BY <4>1, <5>1 DEF ToSet
      <4>4. ASSUME NEW i \in 1..n PROVE s[i] \in ToSet(q)
        <5>1. m + i \in 1..(m + n) /\ q[m + i] = s[i]
          BY <4>1
        <5> QED
          BY <4>1, <5>1 DEF ToSet
      <4>5. ToSet(r) \subseteq ToSet(q)
        <5>1. ToSet(r) = {r[i] : i \in 1..m}
          BY <4>1 DEF ToSet
        <5> QED
          BY <4>3, <5>1
      <4>6. ToSet(s) \subseteq ToSet(q)
        <5>1. ToSet(s) = {s[i] : i \in 1..n}
          BY <4>1 DEF ToSet
        <5> QED
          BY <4>4, <5>1
      <4> QED
        BY <4>2, <4>5, <4>6 DEF q
    <3> HIDE DEF cards
    <3>5. ToSet(pending') = ToSet(pending) \cup ToSet(cards(found))
      BY <1>2, <2>3, <3>2, <3>3, <3>4
    <3>6. raised' \subseteq {turns[n].card : n \in DOMAIN turns} \cup ToSet(pending')
      BY <1>2, <2>1, <2>3, <3>5
    <3>7. ToSet(pending)' = ToSet(pending')
      BY DEF ToSet
    <3> QED
      BY <1>1, <1>3, <3>6, <3>7 DEF SpokenOrQueued
  <2> QED
    BY <2>2, <2>3
<1> QED
  BY <1>5, <1>6, <1>7 DEF AgendaInv

\* A queued card comes before anything else.
LEMMA AgendaCard ==
  ASSUME Listed, AgendaInv, pc = "plan", pending # <<>>, UNCHANGED <<turns, item, depth, raised, why>>,
         plan' = [kind |-> "divergence", item |-> item, depth |-> depth, said |-> "card", card |-> Head(pending)],
         pending' = Tail(pending), pc' = "speak"
  PROVE  AgendaInv'
<1>1. why = "none" /\ turns # <<>>
  BY DEF AgendaInv, LeftWhenDone, AskedSoFar, Underway
<1>2. /\ plan'.kind = "divergence" /\ plan'.item = item /\ plan'.depth = depth /\ plan'.card = Head(pending)
  OBVIOUS
<1>3. AtStart' /\ PlanSound' /\ LeftWhenDone'
  BY <1>1, <1>2 DEF AtStart, PlanSound, LeftWhenDone
<1>4. AskedSoFar' /\ FollowedUp'
  BY <1>1 DEF AgendaInv, AskedSoFar, FollowedUp, FollowUpsOf, OfKind
<1>5. SpokenOrQueued'
  <2>1. PICK S : pending \in Seq(S)
    BY DEF Listed
  <2>2. ASSUME NEW x \in ToSet(pending) PROVE x = Head(pending) \/ x \in ToSet(Tail(pending))
    <3>1. /\ Len(pending) \in Nat \ {0} /\ DOMAIN pending = 1..Len(pending) /\ Head(pending) = pending[1]
          /\ DOMAIN Tail(pending) = 1..(Len(pending) - 1)
          /\ \A i \in 1..(Len(pending) - 1) : Tail(pending)[i] = pending[i + 1]
      BY <2>1
    <3>2. PICK i \in 1..Len(pending) : x = pending[i]
      BY <3>1 DEF ToSet
    <3>3. CASE i = 1
      BY <3>1, <3>2, <3>3
    <3>4. CASE i # 1
      <4>1. i - 1 \in 1..(Len(pending) - 1) /\ Tail(pending)[i - 1] = x
        BY <3>1, <3>2, <3>4
      <4> QED
        BY <3>1, <4>1 DEF ToSet
    <3> QED
      BY <3>3, <3>4
  <2>3. raised \subseteq {turns[n].card : n \in DOMAIN turns} \cup ToSet(pending)
    BY DEF AgendaInv, SpokenOrQueued
  <2>4. ToSet(pending)' = ToSet(Tail(pending))
    BY DEF ToSet
  <2> QED
    BY <1>2, <2>2, <2>3, <2>4 DEF SpokenOrQueued
<1> QED
  BY <1>3, <1>4, <1>5 DEF AgendaInv

LEMMA AgendaNext ==
  ASSUME Listed, AgendaInv, Plan
  PROVE  AgendaInv'
<1>1. pc = "plan" /\ UNCHANGED <<turns, item, depth, raised>>
  BY DEF Plan, histVars
<1>2. CASE pending # <<>>
  <2>1. /\ plan' = [kind |-> "divergence", item |-> item, depth |-> depth, said |-> "card", card |-> Head(pending)]
        /\ pending' = Tail(pending) /\ pc' = "speak" /\ why' = why
    BY <1>2 DEF Plan
  <2> QED
    BY <1>1, <1>2, <2>1, AgendaCard
<1>3. CASE pending = <<>> /\ depth < DepthLimit
  <2>1. pc' = "followup" /\ UNCHANGED <<plan, why, pending>>
    BY <1>3 DEF Plan
  <2>2. why = "none" /\ turns # <<>>
    BY <1>1 DEF AgendaInv, LeftWhenDone, AskedSoFar, Underway
  <2>3. AtStart' /\ PlanSound' /\ LeftWhenDone'
    BY <1>1, <2>1, <2>2 DEF AtStart, PlanSound, LeftWhenDone
  <2>4. AskedSoFar' /\ FollowedUp'
    BY <1>1, <1>3, <2>1, <2>2 DEF AgendaInv, AskedSoFar, FollowedUp, FollowUpsOf, OfKind
  <2>5. SpokenOrQueued'
    BY <1>1, <2>1 DEF AgendaInv, SpokenOrQueued
  <2> QED
    BY <2>3, <2>4, <2>5 DEF AgendaInv
<1>4. CASE pending = <<>> /\ ~(depth < DepthLimit)
  <2>1. MoveOn /\ UNCHANGED pending
    BY <1>4 DEF Plan
  <2> QED
    BY <1>1, <1>4, <2>1, AgendaMoveOn
<1> QED
  BY <1>2, <1>3, <1>4

LEMMA AgendaFollowUp ==
  ASSUME AgendaInv, FollowUp
  PROVE  AgendaInv'
<1>1. pc = "followup" /\ UNCHANGED <<turns, item, depth, pending, raised>>
  BY DEF FollowUp, histVars
<1>2. pending = <<>> /\ depth < DepthLimit /\ why = "none" /\ turns # <<>>
  BY <1>1 DEF AgendaInv, FollowedUp, LeftWhenDone, AskedSoFar, Underway
<1>3. CASE /\ plan' = [kind |-> "follow_up", item |-> item, depth |-> depth + 1, said |-> "question", card |-> {}]
           /\ pc' = "speak" /\ UNCHANGED why
  <2>1. plan'.kind = "follow_up" /\ plan'.item = item /\ plan'.depth = depth + 1
    BY <1>3
  <2>2. AtStart' /\ PlanSound' /\ LeftWhenDone'
    BY <1>1, <1>2, <1>3, <2>1 DEF AtStart, PlanSound, LeftWhenDone
  <2>3. AskedSoFar' /\ FollowedUp'
    BY <1>1, <1>2, <1>3 DEF AgendaInv, AskedSoFar, FollowedUp, FollowUpsOf, OfKind
  <2>4. SpokenOrQueued'
    BY <1>1, <1>3 DEF AgendaInv, SpokenOrQueued
  <2> QED
    BY <2>2, <2>3, <2>4 DEF AgendaInv
<1>4. CASE MoveOn
  BY <1>1, <1>2, <1>4, AgendaMoveOn
<1> QED
  BY <1>3, <1>4 DEF FollowUp

LEMMA AgendaStep ==
  ASSUME PoolInv, Listed, AgendaInv, [Next]_vars
  PROVE  AgendaInv'
<1>0. BothSequences
  BY DEF PoolInv
<1>1. CASE Backoff \/ Stop \/ Extract \/ Crash \/ AssertBelief
  <2>1. UNCHANGED <<turns, item, depth, plan, pending, raised>>
    BY <1>1 DEF Backoff, Stop, Extract, Crash, AssertBelief, Accept, sessionVars, histVars, BeliefOf
  <2>2. \/ pc \in {"work", "extract", "detect", "followup"} /\ pc' = pc /\ why' = why
        \/ pc = "wait" /\ pc' = "close" /\ why' = "no_answer"
        \/ pc \in {"extract", "detect", "assert"} /\ pc' \in {"plan", "assert", "refused", "detect"} /\ why' = why
    BY <1>1 DEF Backoff, Stop, Extract, Crash, AssertBelief, Accept
  <2>3. pc \in {"work", "extract", "detect", "followup", "assert"} => why = "none"
    BY DEF AgendaInv, LeftWhenDone
  <2> QED
    BY <2>1, <2>2, <2>3, AgendaQuiet DEF Underway
<1>2. CASE Close \/ Approve \/ AppendNext
  <2>1. UNCHANGED <<turns, item, depth, plan, pending, raised, why>>
    BY <1>2 DEF Close, Approve, AppendNext, sessionVars, histVars
  <2>2. \/ pc = "close" /\ pc' \in {"done", "refused"}
        \/ pc \in {"done", "approving"} /\ pc' \in {"approving", "approved"}
    BY <1>2 DEF Close, Approve, AppendNext, Checked
  <2> QED
    BY <2>1, <2>2, AgendaQuiet DEF Underway
<1>3. CASE Open
  BY <1>3, AgendaOpen
<1>4. CASE Work
  BY <1>4, AgendaWork
<1>5. CASE Speak
  BY <1>0, <1>5, AgendaSpeak
<1>6. ASSUME NEW a \in Answers, Observe(a) PROVE AgendaInv'
  BY <1>0, <1>6, AgendaObserve
<1>7. CASE Detect
  BY <1>7, AgendaDetect
<1>8. CASE Plan
  BY <1>8, AgendaNext
<1>9. CASE FollowUp
  BY <1>9, AgendaFollowUp
<1>10. CASE Kill \/ Rerun
  BY <1>10, AgendaFresh DEF Kill, Rerun
<1>11. CASE UNCHANGED vars
  <2>1. UNCHANGED <<turns, item, depth, plan, pending, raised, why, pc>>
    BY <1>11 DEF vars, sessionVars, histVars
  <2> QED
    BY <2>1 DEF AgendaInv, AtStart, PlanSound, AskedSoFar, FollowedUp, FollowUpsOf, OfKind, SpokenOrQueued, LeftWhenDone
<1> QED
  BY <1>1, <1>2, <1>3, <1>4, <1>5, <1>6, <1>7, <1>8, <1>9, <1>10, <1>11 DEF Next

\* A session that ends because its agenda is done has asked every item once and in
\* the agenda's order, has followed none up beyond the budget, and has spoken every
\* collision it found, for any agenda, any answers and any number of runs
\* (PartnerSession.plan_next, _next_item).
THEOREM AgendaAlwaysWorked == Spec => []AgendaWorked
<1>1. AgendaInv => AgendaWorked
  <2> SUFFICES ASSUME AgendaInv, why = "agenda" PROVE AgendaWorked
    BY DEF AgendaWorked
  <2>1. /\ item = Len(Agenda) /\ turns # <<>> /\ raised \subseteq {turns[n].card : n \in DOMAIN turns}
    BY DEF AgendaInv, LeftWhenDone
  <2>2. /\ {turns[n].item : n \in OfKind("agenda")} = DOMAIN Agenda
        /\ \A m, n \in OfKind("agenda") : m < n => turns[m].item < turns[n].item
    BY <2>1, AgendaFacts DEF AgendaInv, AskedSoFar
  <2>3. \A i \in DOMAIN Agenda : Cardinality(FollowUpsOf(i)) <= DepthLimit
    BY DEF AgendaInv, FollowedUp
  <2>4. \A i : FollowUpsOf(i) = {n \in DOMAIN turns : turns[n].kind = "follow_up" /\ turns[n].item = i}
    BY DEF FollowUpsOf, OfKind
  <2> QED
    BY <2>1, <2>2, <2>3, <2>4 DEF AgendaWorked, OfKind
<1> QED
  BY <1>1, PoolInit, PoolStep, ListedInit, ListedStep, AgendaInit, AgendaStep, PTL DEF Spec

-----------------------------------------------------------------------------
(* What is said.                                                           *)

\* The turns are numbered and told in the order of their instants, none later than
\* the session's own; while an answer is worked on, its instant is the last.
TurnsTold ==
  /\ last \in Int /\ last >= -1
  /\ \A n \in DOMAIN turns : turns[n].at \in Nat /\ turns[n].at <= last /\ turns[n].index = n - 1
  /\ \A m, n \in DOMAIN turns : m <= n => turns[m].at <= turns[n].at
  /\ pc \in {"extract", "assert", "detect"} =>
       turns # <<>> /\ last = turns[Len(turns)].at /\ turns[Len(turns)].kind = "answer"

\* Every belief is of an answer.
FromAnswers ==
  /\ \A c \in pool \cup blocked : turns[c.turn + 1].kind = "answer"
  /\ \A c \in ToSet(todo) : turns[c.turn + 1].kind = "answer"

ScriptOver == driver = "replay" /\ why = "no_answer" => Cardinality(UserTurns) = Len(Script)

SpeechInv == TurnsTold /\ FromAnswers /\ ScriptOver /\ IsFiniteSet(blocked)

LEMMA InstantsLater ==
  ASSUME last \in Int, last >= -1, NEW t \in Instants
  PROVE  t \in Nat /\ t > last
BY PartnerAssumption DEF Instants

LEMMA SpeechClean ==
  ASSUME turns' = <<>>, last' = -1, pool' = {}, blocked' = {}, todo' = <<>>, why' = "none",
         pc' \notin {"extract", "assert", "detect"}
  PROVE  SpeechInv'
<1>1. DOMAIN turns' = {} /\ ToSet(todo)' = {}
  BY DEF ToSet
<1>2. IsFiniteSet(blocked')
  BY FS_EmptySet
<1>3. TurnsTold' /\ FromAnswers' /\ ScriptOver'
  BY <1>1 DEF TurnsTold, FromAnswers, ScriptOver
<1> QED
  BY <1>2, <1>3 DEF SpeechInv

LEMMA SpeechInit == Init => SpeechInv
<1> SUFFICES ASSUME Init PROVE SpeechInv
  OBVIOUS
<1>0. turns = <<>> /\ last = -1 /\ pool = {} /\ blocked = {} /\ todo = <<>> /\ why = "none" /\ pc = "start"
  BY DEF Init
<1>1. DOMAIN turns = {} /\ ToSet(todo) = {}
  BY <1>0 DEF ToSet
<1>2. IsFiniteSet(blocked)
  BY <1>0, FS_EmptySet
<1>3. TurnsTold /\ FromAnswers /\ ScriptOver
  BY <1>0, <1>1 DEF TurnsTold, FromAnswers, ScriptOver
<1> QED
  BY <1>2, <1>3 DEF SpeechInv

\* A step that adds no turn and works on no belief.
LEMMA SpeechQuiet ==
  ASSUME SpeechInv, UNCHANGED <<driver, turns, pool, blocked, todo>>,
         \/ last' = last
         \/ last' \in Instants /\ pc' \notin {"extract", "assert", "detect"},
         pc' \in {"extract", "assert", "detect"} => pc' = pc,
         \/ why' \in {why, "cap", "agenda", "none"}
         \/ why' = "no_answer" /\ (driver = "replay" => Cardinality(UserTurns) = Len(Script))
  PROVE  SpeechInv'
<1>1. last' \in Int /\ last' >= last /\ last \in Int /\ last >= -1
  BY InstantsLater DEF SpeechInv, TurnsTold
<1>2. TurnsTold'
  <2>1. \A n \in DOMAIN turns : turns[n].at <= last'
    BY <1>1 DEF SpeechInv, TurnsTold
  <2> QED
    BY <1>1, <2>1 DEF SpeechInv, TurnsTold
<1>3. FromAnswers'
  BY DEF SpeechInv, FromAnswers, ToSet
<1>4. ScriptOver'
  BY DEF SpeechInv, ScriptOver, UserTurns
<1> QED
  BY <1>2, <1>3, <1>4 DEF SpeechInv

\* A turn is added.
LEMMA SpeechTurn ==
  ASSUME PoolInv, SpeechInv, NEW t \in Instants, NEW what, AppendTurn(t, what),
         UNCHANGED <<driver, pool, blocked, todo>>, pc' \notin {"assert", "detect"},
         pc' = "extract" => what.kind = "answer", why' \in {"none", "cap"}
  PROVE  SpeechInv'
<1> DEFINE L == Len(turns)
<1>1. /\ L \in Nat /\ DOMAIN turns = 1..L /\ DOMAIN turns' = 1..(L + 1) /\ Len(turns') = L + 1 /\ turns' # <<>>
      /\ \A n \in DOMAIN turns : turns'[n] = turns[n]
      /\ turns'[L + 1].kind = what.kind /\ turns'[L + 1].index = L /\ turns'[L + 1].at = t
  BY TurnAdded DEF PoolInv
<1> HIDE DEF L
<1>2. t \in Nat /\ t > last /\ last' = t
  BY InstantsLater DEF SpeechInv, TurnsTold, AppendTurn
<1>3. last \in Int /\ \A n \in DOMAIN turns : turns[n].at \in Nat /\ turns[n].at <= last /\ turns[n].index = n - 1
  BY DEF SpeechInv, TurnsTold
<1>4. ASSUME NEW n \in DOMAIN turns'
      PROVE  turns'[n].at \in Nat /\ turns'[n].at <= t /\ turns'[n].index = n - 1
  <2>1. n \in DOMAIN turns \/ n = L + 1
    BY <1>1
  <2> QED
    BY <1>1, <1>2, <1>3, <2>1
<1>5. ASSUME NEW m \in DOMAIN turns', NEW n \in DOMAIN turns', m <= n
      PROVE  turns'[m].at <= turns'[n].at
  <2>1. (m \in DOMAIN turns /\ n \in DOMAIN turns) \/ n = L + 1
    BY <1>1, <1>5
  <2>2. CASE n = L + 1
    BY <1>1, <1>4, <2>2
  <2>3. CASE m \in DOMAIN turns /\ n \in DOMAIN turns
    BY <1>1, <1>5, <2>3 DEF SpeechInv, TurnsTold
  <2> QED
    BY <2>1, <2>2, <2>3
<1>6. TurnsTold'
  BY <1>1, <1>2, <1>4, <1>5 DEF TurnsTold
<1>7. FromAnswers'
  <2>1. \A c \in pool \cup blocked \cup ToSet(todo) : c.turn + 1 \in DOMAIN turns
    BY <1>1 DEF PoolInv, Past, TodoFresh, ToSet, L
  <2>2. ToSet(todo)' = ToSet(todo)
    BY DEF ToSet
  <2> QED
    BY <1>1, <2>1, <2>2 DEF SpeechInv, FromAnswers
<1>8. ScriptOver'
  BY DEF ScriptOver
<1> QED
  BY <1>6, <1>7, <1>8 DEF SpeechInv

\* An answer is worked on: its beliefs are listed, asserted, pooled and blocked.
LEMMA SpeechBeliefs ==
  ASSUME PoolInv, SpeechInv, UNCHANGED <<driver, turns, last, why>>,
         pc \in {"extract", "assert", "detect"},
         \A c \in pool' \cup blocked' : c \in pool \cup blocked \cup ToSet(todo),
         blocked' = blocked \/ \E c : blocked' = blocked \cup {c},
         \A c \in ToSet(todo') : c \in ToSet(todo) \/ c.turn = Len(turns) - 1
  PROVE  SpeechInv'
<1>1. turns # <<>> /\ last = turns[Len(turns)].at /\ turns[Len(turns)].kind = "answer" /\ Len(turns) \in Nat
  <2>1. PICK S : turns \in Seq(S)
    BY DEF PoolInv, BothSequences
  <2> QED
    BY <2>1 DEF SpeechInv, TurnsTold
<1>2. TurnsTold' /\ ScriptOver'
  BY <1>1 DEF SpeechInv, TurnsTold, ScriptOver, UserTurns
<1>3. \A c \in pool' \cup blocked' : turns[c.turn + 1].kind = "answer"
  BY DEF SpeechInv, FromAnswers
<1>4. \A c \in ToSet(todo') : turns[c.turn + 1].kind = "answer"
  <2> SUFFICES ASSUME NEW c \in ToSet(todo'), c \notin ToSet(todo) PROVE turns[c.turn + 1].kind = "answer"
    BY DEF SpeechInv, FromAnswers
  <2>1. c.turn + 1 = Len(turns)
    BY <1>1
  <2> QED
    BY <1>1, <2>1
<1>5. ToSet(todo)' = ToSet(todo')
  BY DEF ToSet
<1>6. IsFiniteSet(blocked')
  BY FS_AddElement DEF SpeechInv
<1> QED
  BY <1>2, <1>3, <1>4, <1>5, <1>6 DEF SpeechInv, FromAnswers

\* What stands at the head of the beliefs is one of them, and the rest are others.
LEMMA TodoParts ==
  ASSUME PoolInv, pc \in {"assert", "detect"}
  PROVE  /\ todo # <<>> /\ Head(todo) \in ToSet(todo)
         /\ ToSet(Tail(todo)) \subseteq ToSet(todo)
<1>1. PICK S : todo \in Seq(S)
  BY DEF PoolInv, BothSequences
<1>2. todo # <<>>
  BY DEF PoolInv, TodoFresh
<1>3. Head(todo) = todo[1] /\ 1 \in DOMAIN todo
  BY <1>1, <1>2
<1>4. \A n \in DOMAIN Tail(todo) : n + 1 \in DOMAIN todo /\ Tail(todo)[n] = todo[n + 1]
  BY <1>1, <1>2
<1> QED
  BY <1>2, <1>3, <1>4 DEF ToSet

LEMMA SpeechStep == PoolInv /\ AgendaInv /\ SpeechInv /\ [Next]_vars => SpeechInv'
<1> SUFFICES ASSUME PoolInv, AgendaInv, SpeechInv, [Next]_vars PROVE SpeechInv'
  OBVIOUS
<1>1. CASE Backoff \/ Crash \/ Work \/ Plan \/ FollowUp \/ Approve \/ AppendNext
  <2>1. UNCHANGED <<driver, turns, pool, blocked, todo, last>>
    BY <1>1 DEF Backoff, Crash, Work, Plan, FollowUp, Approve, AppendNext, sessionVars
  <2>2. /\ pc' \in {"extract", "assert", "detect"} => pc' = pc
        /\ why' \in {why, "agenda"}
    BY <1>1 DEF Backoff, Crash, Work, Plan, FollowUp, Approve, AppendNext, MoveOn, PlanItem, Checked
  <2> QED
    BY <2>1, <2>2, SpeechQuiet
<1>2. CASE Open \/ Close
  <2>1. UNCHANGED <<driver, turns, pool, blocked, todo, why>> /\ last' \in Instants
    BY <1>2 DEF Open, Close
  <2>2. pc' \notin {"extract", "assert", "detect"}
    BY <1>2 DEF Open, PlanItem, Close, Checked
  <2> QED
    BY <2>1, <2>2, SpeechQuiet
<1>3. CASE Stop
  <2>1. /\ UNCHANGED <<driver, turns, pool, blocked, todo, last>> /\ pc' = "close" /\ why' = "no_answer"
        /\ driver = "replay" => Cardinality(UserTurns) = Len(Script)
    BY <1>3 DEF Stop, sessionVars
  <2> QED
    BY <2>1, SpeechQuiet
<1>4. CASE Speak
  <2>1. PICK t \in Instants : AppendTurn(t, plan)
    BY <1>4 DEF Speak
  <2>2. UNCHANGED <<driver, pool, blocked, todo>> /\ pc = "speak" /\ why' \in {why, "cap"}
    BY <1>4 DEF Speak
  <2>3. pc' \in {"close", "refused", "wait"}
    BY <1>4 DEF Speak, Checked
  <2>4. why = "none"
    BY <2>2 DEF AgendaInv, LeftWhenDone
  <2> QED
    BY <2>1, <2>2, <2>3, <2>4, SpeechTurn
<1>5. ASSUME NEW a \in Answers, Observe(a) PROVE SpeechInv'
  <2> DEFINE what == [kind |-> "answer", item |-> item, depth |-> depth, said |-> a, card |-> {}]
  <2>1. PICK t \in Instants : AppendTurn(t, what)
    BY <1>5 DEF Observe
  <2>2. UNCHANGED <<driver, pool, blocked, todo, why>> /\ pc = "wait" /\ pc' = "extract"
    BY <1>5 DEF Observe
  <2>3. what.kind = "answer"
    OBVIOUS
  <2> HIDE DEF what
  <2>4. why = "none"
    BY <2>2 DEF AgendaInv, LeftWhenDone
  <2> QED
    BY <2>1, <2>2, <2>3, <2>4, SpeechTurn
<1>6. CASE Extract
  <2>1. PICK len \in 0..MaxBeliefs : \E hints \in [1..len -> Hints] : todo' = [n \in 1..len |-> BeliefOf(hints, n)]
    BY <1>6 DEF Extract
  <2>2. PICK hints \in [1..len -> Hints] : todo' = [n \in 1..len |-> BeliefOf(hints, n)]
    BY <2>1
  <2>3. \A c \in ToSet(todo') : c.turn = Len(turns) - 1
    BY <2>2 DEF ToSet, BeliefOf
  <2>4. UNCHANGED <<driver, turns, last, why, pool, blocked>> /\ pc = "extract"
    BY <1>6 DEF Extract
  <2> QED
    BY <2>3, <2>4, SpeechBeliefs
<1>7. CASE AssertBelief
  <2>1. UNCHANGED <<driver, turns, last, why, blocked>> /\ pc = "assert"
    BY <1>7 DEF AssertBelief
  <2>2. (pool' = pool \cup {Head(todo)} /\ todo' = Tail(todo)) \/ UNCHANGED <<pool, todo>>
    BY <1>7 DEF AssertBelief, Accept
  <2>3. Head(todo) \in ToSet(todo) /\ ToSet(Tail(todo)) \subseteq ToSet(todo)
    BY <2>1, TodoParts
  <2> QED
    BY <2>1, <2>2, <2>3, SpeechBeliefs
<1>8. CASE Detect
  <2>1. UNCHANGED <<driver, turns, last, why>> /\ pc = "detect"
    BY <1>8 DEF Detect
  <2>2. \/ pool' = pool \cup {Head(todo)} /\ todo' = Tail(todo) /\ UNCHANGED blocked
        \/ blocked' = blocked \cup {Head(todo)} /\ todo' = Tail(todo) /\ UNCHANGED pool
    BY <1>8 DEF Detect, Accept
  <2>3. Head(todo) \in ToSet(todo) /\ ToSet(Tail(todo)) \subseteq ToSet(todo)
    BY <2>1, TodoParts
  <2> QED
    BY <2>1, <2>2, <2>3, SpeechBeliefs
<1>9. CASE Kill \/ Rerun
  <2>1. PICK at \in {"killed", "start"} : Fresh(at)
    BY <1>9 DEF Kill, Rerun
  <2> QED
    BY <2>1, SpeechClean DEF Fresh
<1>10. CASE UNCHANGED vars
  <2>1. UNCHANGED <<driver, turns, pool, blocked, todo, last, why, pc>>
    BY <1>10 DEF vars, sessionVars
  <2> QED
    BY <2>1, SpeechQuiet
<1> QED
  BY <1>1, <1>2, <1>3, <1>4, <1>5, <1>6, <1>7, <1>8, <1>9, <1>10 DEF Next

-----------------------------------------------------------------------------
(* Where a session goes from a state, given what the model answers.        *)

\* What a session of a replay goes on from.
State(p, w, tt, i, d, l, po, bl, pe, to, pl, n) ==
  [pc |-> p, why |-> w, turns |-> tt, item |-> i, depth |-> d, last |-> l, pool |-> po,
   blocked |-> bl, pending |-> pe, todo |-> to, plan |-> pl, played |-> n]

\* The session is there.
At(s) ==
  /\ pc = s.pc /\ why = s.why /\ turns = s.turns /\ item = s.item /\ depth = s.depth /\ last = s.last
  /\ pool = s.pool /\ blocked = s.blocked /\ pending = s.pending /\ todo = s.todo /\ plan = s.plan
  /\ played = s.played

Beginning == State("start", "none", <<>>, 1, 0, -1, {}, {}, <<>>, <<>>, NoPlan, 0)

\* The instant that a replay stamps next.
Instant(l) == IF Epoch > l THEN Epoch ELSE l + 1

\* The turns with one more.
With(s, what) ==
  Append(s.turns, [type |-> "session.turn", at |-> Instant(s.last), h |-> 0, index |-> Len(s.turns),
                   kind |-> what.kind, item |-> what.item, depth |-> what.depth, said |-> what.said,
                   card |-> what.card])

\* The plan of an item, and what is done about it first.
Working(i) == IF Agenda[i].row # NoRow THEN "speak" ELSE "work"

Planned(i) == AgendaPlan(i, IF Agenda[i].row # NoRow THEN "question" ELSE "none")

\* What each step makes of a state: n counts the calls.
AfterStart(s) ==
  State(Working(1), s.why, s.turns, s.item, s.depth, Instant(s.last), s.pool, s.blocked, s.pending,
        s.todo, Planned(1), s.played)

AfterWork(s, a) ==
  State("speak", s.why, s.turns, s.item, s.depth, s.last, s.pool, s.blocked, s.pending, s.todo,
        AgendaPlan(s.plan.item, a), s.played + 1)

Capped(s) ==
  s.turns # <<>> /\ Cardinality({n \in DOMAIN s.turns : s.turns[n].kind # "answer"}) + 1 >= MaxAgentTurns

AfterSpeak(s) ==
  State(IF Capped(s) THEN "close" ELSE "wait", IF Capped(s) THEN "cap" ELSE s.why, With(s, s.plan),
        s.plan.item, s.plan.depth, Instant(s.last), s.pool, s.blocked, s.pending, s.todo, NoPlan, s.played)

Given(s) == Cardinality({n \in DOMAIN s.turns : s.turns[n].kind = "answer"})

AnswerOf(s) ==
  [kind |-> "answer", item |-> s.item, depth |-> s.depth, said |-> Script[Given(s) + 1], card |-> {}]

AfterWait(s) ==
  IF Given(s) < Len(Script)
    THEN State("extract", s.why, With(s, AnswerOf(s)), s.item, s.depth, Instant(s.last), s.pool,
               s.blocked, s.pending, s.todo, s.plan, s.played)
    ELSE State("close", "no_answer", s.turns, s.item, s.depth, s.last, s.pool, s.blocked, s.pending,
               s.todo, s.plan, s.played)

AfterExtract(s, a) ==
  State(IF DOMAIN a = {} THEN "plan" ELSE "assert", s.why, s.turns, s.item, s.depth, s.last, s.pool,
        s.blocked, s.pending, [n \in DOMAIN a |-> [turn |-> Len(s.turns) - 1, n |-> n, hint |-> a[n]]],
        s.plan, s.played + 1)

AfterBelief(s) == IF Len(s.todo) = 1 THEN "plan" ELSE "assert"

AfterAccept(s, n) ==
  State(AfterBelief(s), s.why, s.turns, s.item, s.depth, s.last, s.pool \cup {Head(s.todo)}, s.blocked,
        s.pending, Tail(s.todo), s.plan, n)

\* The beliefs that the one at hand is held against.
BlockOf(s) == {d \in s.pool : d.hint = Head(s.todo).hint}

SubmittedOf(s) ==
  {d \in BlockOf(s) : Cardinality({e \in BlockOf(s) : RanksAbove(e, d)}) < MaxRetrieved}

AfterAssert(s) ==
  IF BlockOf(s) = {} THEN AfterAccept(s, s.played)
  ELSE State("detect", s.why, s.turns, s.item, s.depth, s.last, s.pool, s.blocked, s.pending, s.todo,
             s.plan, s.played)

AfterDetect(s, a) ==
  IF a = {} THEN AfterAccept(s, s.played + 1)
  ELSE State(AfterBelief(s), s.why, s.turns, s.item, s.depth, s.last, s.pool, s.blocked \cup {Head(s.todo)},
             s.pending \o Cards(Head(s.todo), a), Tail(s.todo), s.plan, s.played + 1)

AfterMove(s, n) ==
  IF NextItem(s.item) = {}
    THEN State("close", "agenda", s.turns, s.item, s.depth, s.last, s.pool, s.blocked, s.pending, s.todo,
               s.plan, n)
    ELSE State(Working(s.item + 1), s.why, s.turns, s.item, s.depth, s.last, s.pool, s.blocked, s.pending,
               s.todo, Planned(s.item + 1), n)

AfterPlan(s) ==
  IF s.pending # <<>>
    THEN State("speak", s.why, s.turns, s.item, s.depth, s.last, s.pool, s.blocked, Tail(s.pending), s.todo,
               [kind |-> "divergence", item |-> s.item, depth |-> s.depth, said |-> "card",
                card |-> Head(s.pending)], s.played)
  ELSE IF s.depth < DepthLimit
    THEN State("followup", s.why, s.turns, s.item, s.depth, s.last, s.pool, s.blocked, s.pending, s.todo,
               s.plan, s.played)
  ELSE AfterMove(s, s.played)

AfterFollowUp(s, a) ==
  IF a = "question"
    THEN State("speak", s.why, s.turns, s.item, s.depth, s.last, s.pool, s.blocked, s.pending, s.todo,
               [kind |-> "follow_up", item |-> s.item, depth |-> s.depth + 1, said |-> "question",
                card |-> {}], s.played + 1)
    ELSE AfterMove(s, s.played + 1)

AfterClose(s) ==
  State(IF s.played = 0 THEN "refused" ELSE "done", s.why, s.turns, s.item, s.depth, Instant(s.last),
        s.pool, s.blocked, s.pending, s.todo, s.plan, s.played)

\* Where a session goes from a state, when the model answers a.
Successor(s, a) ==
  CASE s.pc = "start"    -> AfterStart(s)
    [] s.pc = "work"     -> AfterWork(s, a)
    [] s.pc = "speak"    -> AfterSpeak(s)
    [] s.pc = "wait"     -> AfterWait(s)
    [] s.pc = "extract"  -> AfterExtract(s, a)
    [] s.pc = "assert"   -> AfterAssert(s)
    [] s.pc = "detect"   -> AfterDetect(s, a)
    [] s.pc = "plan"     -> AfterPlan(s)
    [] s.pc = "followup" -> AfterFollowUp(s, a)
    [] s.pc = "close"    -> AfterClose(s)

\* The steps that call the model, and what they ask.
Calls == {"work", "extract", "detect", "followup"}

PromptOf(s) ==
  CASE s.pc = "work"     -> <<"work", s.plan.item>>
    [] s.pc = "extract"  -> <<"extract", s.turns[Len(s.turns)].said>>
    [] s.pc = "detect"   -> <<"detect", Head(s.todo), SubmittedOf(s)>>
    [] s.pc = "followup" -> <<"followup", s.item, s.turns[Len(s.turns)].said>>

\* What the cassette answers there.
Heard(s, tp) == IF s.pc \in Calls THEN tp[PromptOf(s)] ELSE "none"

\* The fields of a state, and what it takes to be there.
LEMMA StateFields ==
  ASSUME NEW p, NEW w, NEW tt, NEW i, NEW d, NEW l, NEW po, NEW bl, NEW pe, NEW to, NEW pl, NEW n,
         NEW s, s = State(p, w, tt, i, d, l, po, bl, pe, to, pl, n)
  PROVE  /\ s.pc = p /\ s.why = w /\ s.turns = tt /\ s.item = i /\ s.depth = d /\ s.last = l
         /\ s.pool = po /\ s.blocked = bl /\ s.pending = pe /\ s.todo = to /\ s.plan = pl /\ s.played = n
BY DEF State

LEMMA ToState ==
  ASSUME NEW p, NEW w, NEW tt, NEW i, NEW d, NEW l, NEW po, NEW bl, NEW pe, NEW to, NEW pl, NEW n,
         NEW s, s = State(p, w, tt, i, d, l, po, bl, pe, to, pl, n),
         pc' = p, why' = w, turns' = tt, item' = i, depth' = d, last' = l, pool' = po,
         blocked' = bl, pending' = pe, todo' = to, plan' = pl, played' = n
  PROVE  At(s)'
BY StateFields DEF At

LEMMA ReplayInstants == driver = "replay" => Instants = {Instant(last)}
BY DEF Instants, Instant

\* Each step leads where its state says.
LEMMA OnStart ==
  ASSUME NEW s, NEW a, At(s), driver = "replay", Open
  PROVE  At(Successor(s, a))'
<1>1. Successor(s, a) = AfterStart(s)
  BY DEF At, Open, Successor
<1>2. /\ pc' = Working(1) /\ plan' = Planned(1) /\ last' = Instant(last)
      /\ UNCHANGED <<why, turns, item, depth, pool, blocked, pending, todo, played>>
  <2>1. last' = Instant(last)
    BY ReplayInstants DEF Open
  <2>2. pc' = Working(1) /\ plan' = Planned(1)
    BY DEF Open, PlanItem, Working, Planned
  <2> QED
    BY <2>1, <2>2 DEF Open, tapeVars
<1> DEFINE r == AfterStart(s)
<1>3. r = State(Working(1), why, turns, item, depth, Instant(last), pool, blocked, pending, todo, Planned(1), played)
  BY DEF AfterStart, At
<1> HIDE DEF r
<1>4. At(r)'
  BY <1>2, <1>3, ToState
<1> QED
  BY <1>1, <1>4 DEF r

\* A cassette holds what it held before.
Extends(tp, tq) == DOMAIN tp \subseteq DOMAIN tq /\ \A p \in DOMAIN tp : tq[p] = tp[p]

\* An answered call is on the cassette from then on, and nothing on it changes.
LEMMA AnswerKept ==
  ASSUME driver = "replay", NEW said, Answered(said)
  PROVE  /\ Prompt \in DOMAIN tape' /\ tape'[Prompt] = said /\ Extends(tape, tape')
         /\ played' = played + 1 /\ UNCHANGED failed
<1>1. CASE Prompt \in DOMAIN tape
  BY <1>1 DEF Answered, Extends
<1>2. CASE Prompt \notin DOMAIN tape
  <2>1. tape' = [p \in DOMAIN tape \cup {Prompt} |-> IF p = Prompt THEN said ELSE tape[p]]
    BY <1>2 DEF Answered
  <2> QED
    BY <1>2, <2>1 DEF Answered, Extends
<1> QED
  BY <1>1, <1>2

LEMMA PromptHere ==
  ASSUME NEW s, At(s), pc \in Calls
  PROVE  s.pc \in Calls /\ PromptOf(s) = Prompt
BY DEF At, Calls, PromptOf, Prompt, SubmittedOf, Submitted, BlockOf, Block

LEMMA OnWork ==
  ASSUME NEW s, NEW a, At(s), driver = "replay", ~failed, pc = "work", Answered(a),
         plan' = AgendaPlan(plan.item, a), pc' = IF turns = <<>> THEN "speak" ELSE Checked(failed', "speak"),
         UNCHANGED <<why, turns, item, depth, last, pool, blocked, pending, todo>>
  PROVE  At(Successor(s, a))'
<1>1. Successor(s, a) = AfterWork(s, a)
  BY DEF At, Successor
<1>2. pc' = "speak" /\ played' = played + 1
  BY AnswerKept DEF Checked
<1> DEFINE r == AfterWork(s, a)
<1>3. r = State("speak", why, turns, item, depth, last, pool, blocked, pending, todo, AgendaPlan(plan.item, a), played + 1)
  BY DEF AfterWork, At
<1> HIDE DEF r
<1>4. At(r)'
  BY <1>2, <1>3, ToState
<1> QED
  BY <1>1, <1>4 DEF r

LEMMA WithHere ==
  ASSUME NEW s, At(s), NEW what, AppendTurn(Instant(last), what)
  PROVE  turns' = With(s, what) /\ last' = Instant(last)
BY DEF At, AppendTurn, With

LEMMA OnSpeak ==
  ASSUME NEW s, NEW a, At(s), driver = "replay", ~failed, Speak
  PROVE  At(Successor(s, a))'
<1>1. Successor(s, a) = AfterSpeak(s)
  BY DEF At, Speak, Successor
<1>2. AppendTurn(Instant(last), plan)
  BY ReplayInstants DEF Speak
<1>3. turns' = With(s, plan) /\ last' = Instant(last)
  BY <1>2, WithHere
<1>4. Capped(s) <=> turns # <<>> /\ Cardinality(AgentTurns) + 1 >= MaxAgentTurns
  BY DEF Capped, At, AgentTurns
<1>5. /\ pc' = IF Capped(s) THEN "close" ELSE "wait"
      /\ why' = IF Capped(s) THEN "cap" ELSE why
  <2>1. CASE Capped(s)
    BY <1>4, <2>1, Zenon DEF Speak
  <2>2. CASE ~Capped(s)
    <3>1. pc' = Checked(failed, "wait") /\ UNCHANGED why
      BY <1>4, <2>2, Zenon DEF Speak
    <3> QED
      BY <2>2, <3>1 DEF Checked
  <2> QED
    BY <2>1, <2>2
<1>6. item' = plan.item /\ depth' = plan.depth /\ plan' = NoPlan /\ UNCHANGED <<pool, blocked, pending, todo, played>>
  BY DEF Speak, tapeVars
<1> DEFINE p == IF Capped(s) THEN "close" ELSE "wait"
<1> DEFINE w == IF Capped(s) THEN "cap" ELSE why
<1> DEFINE r == AfterSpeak(s)
<1>7. r = State(p, w, With(s, plan), plan.item, plan.depth, Instant(last), pool, blocked, pending, todo, NoPlan, played)
  BY DEF AfterSpeak, At
<1>8. pc' = p /\ why' = w
  BY <1>5
<1> HIDE DEF r, p, w
<1>9. At(r)'
  BY <1>3, <1>6, <1>7, <1>8, ToState
<1> QED
  BY <1>1, <1>9 DEF r

LEMMA GivenHere ==
  ASSUME NEW s, At(s)
  PROVE  Given(s) = Cardinality(UserTurns)
BY DEF At, Given, UserTurns

LEMMA OnStop ==
  ASSUME NEW s, NEW a, At(s), driver = "replay", Stop
  PROVE  At(Successor(s, a))'
<1>1. Given(s) = Len(Script) /\ Len(Script) \in Nat
  BY GivenHere, PartnerAssumption DEF Stop
<1> DEFINE r == AfterWait(s)
<1>2. Successor(s, a) = r
  BY DEF At, Stop, Successor
<1>3. r = State("close", "no_answer", turns, item, depth, last, pool, blocked, pending, todo, plan, played)
  BY <1>1 DEF AfterWait, At
<1>4. /\ pc' = "close" /\ why' = "no_answer"
      /\ UNCHANGED <<turns, item, depth, last, pool, blocked, pending, todo, plan, played>>
  BY DEF Stop, sessionVars, tapeVars
<1> HIDE DEF r
<1>5. At(r)'
  BY <1>3, <1>4, ToState
<1> QED
  BY <1>2, <1>5

LEMMA OnObserve ==
  ASSUME NEW s, NEW a, At(s), driver = "replay", NEW b \in Answers, Observe(b)
  PROVE  At(Successor(s, a))'
<1>1. Given(s) < Len(Script) /\ b = Script[Given(s) + 1]
  BY GivenHere DEF Observe
<1> DEFINE r == AfterWait(s)
<1>2. Successor(s, a) = r
  BY DEF At, Observe, Successor
<1>3. AnswerOf(s) = [kind |-> "answer", item |-> item, depth |-> depth, said |-> b, card |-> {}]
  BY <1>1 DEF AnswerOf, At
<1>4. AppendTurn(Instant(last), AnswerOf(s))
  BY <1>3, ReplayInstants DEF Observe
<1>5. turns' = With(s, AnswerOf(s)) /\ last' = Instant(last)
  BY <1>4, WithHere
<1>6. r = State("extract", why, With(s, AnswerOf(s)), item, depth, Instant(last), pool, blocked, pending, todo, plan, played)
  BY <1>1 DEF AfterWait, At
<1>7. pc' = "extract" /\ UNCHANGED <<why, item, depth, pool, blocked, pending, todo, plan, played>>
  BY DEF Observe, tapeVars
<1> HIDE DEF r
<1>8. At(r)'
  BY <1>5, <1>6, <1>7, ToState
<1> QED
  BY <1>2, <1>8

LEMMA OnExtract ==
  ASSUME NEW s, At(s), driver = "replay", Extract
  PROVE  \E a : Answered(a) /\ At(Successor(s, a))'
<1>1. PICK len \in 0..MaxBeliefs : \E hints \in [1..len -> Hints] :
         /\ Answered(hints)
         /\ todo' = [n \in 1..len |-> BeliefOf(hints, n)]
         /\ pc' = IF len = 0 THEN "plan" ELSE "assert"
  BY DEF Extract
<1>2. PICK a \in [1..len -> Hints] :
         /\ Answered(a)
         /\ todo' = [n \in 1..len |-> BeliefOf(a, n)]
         /\ pc' = IF len = 0 THEN "plan" ELSE "assert"
  BY <1>1
<1>3. pc = "extract" /\ UNCHANGED <<why, turns, item, depth, last, pool, blocked, pending, plan>>
  BY DEF Extract
<1>4. DOMAIN a = 1..len /\ (DOMAIN a = {} <=> len = 0)
  BY PartnerAssumption
<1> DEFINE to == [n \in DOMAIN a |-> [turn |-> Len(turns) - 1, n |-> n, hint |-> a[n]]]
<1> DEFINE p == IF DOMAIN a = {} THEN "plan" ELSE "assert"
<1> DEFINE r == AfterExtract(s, a)
<1>5. Successor(s, a) = r
  BY <1>3 DEF At, Successor
<1>6. r = State(p, why, turns, item, depth, last, pool, blocked, pending, to, plan, played + 1)
  BY DEF AfterExtract, At
<1>7. pc' = p
  BY <1>2, <1>4
<1>8. todo' = to
  BY <1>2, <1>4 DEF BeliefOf
<1>9. played' = played + 1
  BY <1>2, AnswerKept
<1> HIDE DEF r, p, to
<1>10. At(r)'
  BY <1>3, <1>6, <1>7, <1>8, <1>9, ToState
<1> QED
  BY <1>2, <1>5, <1>10

LEMMA OnAccept ==
  ASSUME NEW s, At(s), NEW n, played' = n, Accept(Head(todo)),
         UNCHANGED <<why, turns, item, depth, last, blocked, pending, plan>>
  PROVE  At(AfterAccept(s, n))'
<1> DEFINE r == AfterAccept(s, n)
<1> DEFINE p == IF Len(todo) = 1 THEN "plan" ELSE "assert"
<1>1. r = State(p, why, turns, item, depth, last, pool \cup {Head(todo)}, blocked, pending, Tail(todo), plan, n)
  BY DEF AfterAccept, At, AfterBelief
<1>2. pc' = p /\ pool' = pool \cup {Head(todo)} /\ todo' = Tail(todo)
  BY DEF Accept
<1> HIDE DEF r, p
<1>3. At(r)'
  BY <1>1, <1>2, ToState
<1> QED
  BY <1>3 DEF r

LEMMA BlockHere ==
  ASSUME NEW s, At(s)
  PROVE  BlockOf(s) = Block(Head(todo))
BY DEF At, BlockOf, Block

LEMMA OnAssert ==
  ASSUME NEW s, NEW a, At(s), driver = "replay", AssertBelief
  PROVE  At(Successor(s, a))'
<1>1. /\ pc = "assert" /\ UNCHANGED <<why, turns, item, depth, last, blocked, pending, plan, played>>
      /\ IF Block(Head(todo)) = {} THEN Accept(Head(todo)) ELSE pc' = "detect" /\ UNCHANGED <<pool, todo>>
  BY DEF AssertBelief, tapeVars
<1> DEFINE r == AfterAssert(s)
<1>2. Successor(s, a) = r
  BY <1>1 DEF At, Successor
<1>3. CASE Block(Head(todo)) = {}
  <2>1. PICK n : n = s.played
    OBVIOUS
  <2>2. r = AfterAccept(s, n)
    BY <1>3, <2>1, BlockHere DEF AfterAssert
  <2> HIDE DEF r
  <2>3. played' = n
    BY <1>1, <2>1 DEF At
  <2>4. Accept(Head(todo))
    BY <1>1, <1>3
  <2>5. At(AfterAccept(s, n))'
    BY <1>1, <2>3, <2>4, OnAccept
  <2> QED
    BY <1>2, <2>2, <2>5
<1>4. CASE Block(Head(todo)) # {}
  <2>1. r = State("detect", why, turns, item, depth, last, pool, blocked, pending, todo, plan, played)
    BY <1>4, BlockHere DEF AfterAssert, At
  <2> HIDE DEF r
  <2>2. At(r)'
    BY <1>1, <1>4, <2>1, ToState
  <2> QED
    BY <1>2, <2>2
<1> QED
  BY <1>3, <1>4

LEMMA OnDetect ==
  ASSUME NEW s, At(s), driver = "replay", Detect
  PROVE  \E a : Answered(a) /\ At(Successor(s, a))'
<1>1. PICK a \in SUBSET Submitted(Head(todo)) :
         /\ Answered(a)
         /\ IF a = {} THEN Accept(Head(todo)) /\ UNCHANGED <<blocked, pending, raised>>
            ELSE /\ blocked' = blocked \cup {Head(todo)}
                 /\ pending' = pending \o Cards(Head(todo), a)
                 /\ raised' = raised \cup ToSet(Cards(Head(todo), a))
                 /\ todo' = Tail(todo)
                 /\ pc' = IF Len(todo) = 1 THEN "plan" ELSE "assert"
                 /\ UNCHANGED pool
  BY Zenon DEF Detect
<1>2. pc = "detect" /\ UNCHANGED <<why, turns, item, depth, last, plan>>
  BY DEF Detect
<1>3. played' = played + 1
  BY <1>1, AnswerKept
<1> DEFINE r == AfterDetect(s, a)
<1>4. Successor(s, a) = r
  BY <1>2 DEF At, Successor
<1>5. CASE a = {}
  <2>1. PICK n : n = s.played + 1
    OBVIOUS
  <2>2. r = AfterAccept(s, n)
    BY <1>5, <2>1 DEF AfterDetect
  <2> HIDE DEF r
  <2>3. played' = n
    BY <1>3, <2>1 DEF At
  <2>4. Accept(Head(todo)) /\ UNCHANGED <<blocked, pending>>
    BY <1>1, <1>5
  <2>5. At(AfterAccept(s, n))'
    BY <1>2, <2>3, <2>4, OnAccept
  <2> QED
    BY <1>1, <1>4, <2>2, <2>5
<1>6. CASE a # {}
  <2> DEFINE p == IF Len(todo) = 1 THEN "plan" ELSE "assert"
  <2>1. r = State(p, why, turns, item, depth, last, pool, blocked \cup {Head(todo)},
                  pending \o Cards(Head(todo), a), Tail(todo), plan, played + 1)
    BY <1>6 DEF AfterDetect, At, AfterBelief
  <2>2. /\ blocked' = blocked \cup {Head(todo)} /\ pending' = pending \o Cards(Head(todo), a)
        /\ todo' = Tail(todo) /\ pc' = p /\ UNCHANGED pool
    BY <1>1, <1>6
  <2> HIDE DEF r, p
  <2>3. At(r)'
    BY <1>2, <1>3, <2>1, <2>2, ToState
  <2> QED
    BY <1>1, <1>4, <2>3
<1> QED
  BY <1>5, <1>6

\* plan_next moves on, and no call of the session has failed.
LEMMA OnMove ==
  ASSUME NEW s, At(s), AgendaInv, ~failed', MoveOn, NEW n, played' = n,
         UNCHANGED <<turns, item, depth, last, pool, blocked, pending, todo>>
  PROVE  At(AfterMove(s, n))'
<1> DEFINE r == AfterMove(s, n)
<1>1. NextItem(s.item) = NextItem(item)
  BY DEF At
<1>2. CASE NextItem(item) = {}
  <2>1. pc' = "close" /\ why' = "agenda" /\ UNCHANGED plan
    BY <1>2 DEF MoveOn, Checked
  <2>2. r = State("close", "agenda", turns, item, depth, last, pool, blocked, pending, todo, plan, n)
    BY <1>1, <1>2 DEF AfterMove, At
  <2> HIDE DEF r
  <2>3. At(r)'
    BY <2>1, <2>2, ToState
  <2> QED
    BY <2>3 DEF r
<1>3. CASE NextItem(item) # {}
  <2>1. PICK i \in NextItem(item) : PlanItem(i, "speak")
    BY <1>3 DEF MoveOn
  <2>2. i = s.item + 1
    BY <2>1 DEF NextItem, At
  <2>3. why' = why
    BY <1>3 DEF MoveOn
  <2>4. pc' = Working(i) /\ plan' = Planned(i)
    BY <2>1 DEF PlanItem, Working, Planned
  <2>5. r = State(Working(i), why, turns, item, depth, last, pool, blocked, pending, todo, Planned(i), n)
    BY <1>1, <1>3, <2>2 DEF AfterMove, At
  <2> HIDE DEF r
  <2>6. At(r)'
    BY <2>3, <2>4, <2>5, ToState
  <2> QED
    BY <2>6 DEF r
<1> QED
  BY <1>2, <1>3

LEMMA OnPlan ==
  ASSUME NEW s, NEW a, At(s), AgendaInv, driver = "replay", ~failed, Plan
  PROVE  At(Successor(s, a))'
<1> DEFINE r == AfterPlan(s)
<1>1. pc = "plan" /\ UNCHANGED <<turns, item, depth, last, pool, blocked, todo, played, failed>>
  BY DEF Plan, tapeVars
<1>2. Successor(s, a) = r
  BY <1>1 DEF At, Successor
<1>3. CASE pending # <<>>
  <2> DEFINE c == [kind |-> "divergence", item |-> item, depth |-> depth, said |-> "card", card |-> Head(pending)]
  <2>1. plan' = c /\ pending' = Tail(pending) /\ pc' = "speak" /\ UNCHANGED why
    BY <1>3 DEF Plan
  <2>2. r = State("speak", why, turns, item, depth, last, pool, blocked, Tail(pending), todo, c, played)
    BY <1>3 DEF AfterPlan, At
  <2> HIDE DEF r, c
  <2>3. At(r)'
    BY <1>1, <2>1, <2>2, ToState
  <2> QED
    BY <1>2, <2>3
<1>4. CASE pending = <<>> /\ depth < DepthLimit
  <2>1. pc' = "followup" /\ UNCHANGED <<pending, plan, why>>
    BY <1>4 DEF Plan
  <2>2. r = State("followup", why, turns, item, depth, last, pool, blocked, pending, todo, plan, played)
    BY <1>4 DEF AfterPlan, At
  <2> HIDE DEF r
  <2>3. At(r)'
    BY <1>1, <2>1, <2>2, ToState
  <2> QED
    BY <1>2, <2>3
<1>5. CASE pending = <<>> /\ ~(depth < DepthLimit)
  <2>1. MoveOn /\ UNCHANGED pending
    BY <1>5 DEF Plan
  <2>2. PICK n : n = s.played
    OBVIOUS
  <2>3. r = AfterMove(s, n)
    BY <1>5, <2>2 DEF AfterPlan, At
  <2> HIDE DEF r
  <2>4. played' = n /\ ~failed'
    BY <1>1, <2>2 DEF At
  <2>5. At(AfterMove(s, n))'
    BY <1>1, <2>1, <2>4, OnMove
  <2> QED
    BY <1>2, <2>3, <2>5
<1> QED
  BY <1>3, <1>4, <1>5

LEMMA OnFollowUp ==
  ASSUME NEW s, At(s), AgendaInv, driver = "replay", ~failed, FollowUp, ~failed'
  PROVE  \E a : Answered(a) /\ At(Successor(s, a))'
<1>1. pc = "followup" /\ UNCHANGED <<turns, item, depth, last, pool, blocked, pending, todo>>
  BY DEF FollowUp
<1>2. CASE Answered("question") /\ why' = why /\ pc' = "speak"
           /\ plan' = [kind |-> "follow_up", item |-> item, depth |-> depth + 1, said |-> "question", card |-> {}]
  <2> DEFINE c == [kind |-> "follow_up", item |-> item, depth |-> depth + 1, said |-> "question", card |-> {}]
  <2> DEFINE r == AfterFollowUp(s, "question")
  <2>1. plan' = c
    BY <1>2
  <2>2. played' = played + 1
    BY <1>2, AnswerKept
  <2>3. r = State("speak", why, turns, item, depth, last, pool, blocked, pending, todo, c, played + 1)
    BY DEF AfterFollowUp, At
  <2>4. Successor(s, "question") = r
    BY <1>1 DEF At, Successor
  <2> HIDE DEF r, c
  <2>5. At(r)'
    BY <1>1, <1>2, <2>1, <2>2, <2>3, ToState
  <2> QED
    BY <1>2, <2>4, <2>5
<1>3. CASE Answered("settled") /\ MoveOn
  <2>1. PICK n : n = s.played + 1
    OBVIOUS
  <2>2. Successor(s, "settled") = AfterMove(s, n)
    BY <1>1, <2>1 DEF At, Successor, AfterFollowUp
  <2>3. played' = n
    BY <1>3, <2>1, AnswerKept DEF At
  <2>4. At(AfterMove(s, n))'
    BY <1>1, <1>3, <2>3, OnMove
  <2> QED
    BY <1>3, <2>2, <2>4
<1>4. ~Raised
  BY DEF Raised
<1> QED
  BY <1>2, <1>3, <1>4 DEF FollowUp

LEMMA OnClose ==
  ASSUME NEW s, NEW a, At(s), driver = "replay", ~failed, Close
  PROVE  At(Successor(s, a))'
<1> DEFINE r == AfterClose(s)
<1> DEFINE p == IF played = 0 THEN "refused" ELSE "done"
<1>1. last' = Instant(last)
  BY ReplayInstants DEF Close
<1>2. /\ pc = "close" /\ pc' = p
      /\ UNCHANGED <<why, turns, item, depth, pool, blocked, pending, todo, plan, played>>
  BY DEF Close, Checked, tapeVars
<1>3. Successor(s, a) = r
  BY <1>2 DEF At, Successor
<1>4. r = State(p, why, turns, item, depth, Instant(last), pool, blocked, pending, todo, plan, played)
  BY DEF AfterClose, At
<1> HIDE DEF r, p
<1>5. At(r)'
  BY <1>1, <1>2, <1>4, ToState
<1> QED
  BY <1>3, <1>5

-----------------------------------------------------------------------------
(* What a step of a replay writes.                                         *)

\* The beliefs that a session has in the log, and the instant of its last turn.
HeldOf(s) == s.pool \cup s.blocked \cup (IF s.pc = "detect" THEN {Head(s.todo)} ELSE {})

TopOf(s) == IF s.turns = <<>> THEN -1 ELSE s.turns[Len(s.turns)].at

\* A session loses nothing of what it was.
Grown(s, r) ==
  /\ ToSet(s.turns) \subseteq ToSet(r.turns)
  /\ HeldOf(s) \subseteq HeldOf(r)
  /\ TopOf(s) \in Int /\ TopOf(r) \in Int /\ TopOf(s) <= TopOf(r)

\* What is written from s to r is what r has, and all that s had not.
Written(s, r, X) ==
  /\ \A e \in X :
       /\ e.type = "session.turn" => e \in ToSet(r.turns)
       /\ e.type = "claim.asserted" => e.claim \in HeldOf(r) /\ e.claim.n > 0 /\ e.at \in Int /\ e.at <= TopOf(r)
  /\ ToSet(r.turns) \subseteq ToSet(s.turns) \cup OfType(X, {"session.turn"})
  /\ HeldOf(r) \subseteq HeldOf(s) \cup KnownClaims(X)

LEMMA GrownTransitive ==
  ASSUME NEW s, NEW r, NEW q, Grown(s, r), Grown(r, q)
  PROVE  Grown(s, q)
BY DEF Grown

LEMMA TopHere ==
  ASSUME PoolInv, SpeechInv, NEW s, At(s)
  PROVE  /\ TopOf(s) \in Int
         /\ TopOf(s) <= last \/ TopOf(s) = -1
         /\ pc \in {"assert", "detect"} => TopOf(s) = last
<1>1. PICK S : turns \in Seq(S)
  BY DEF PoolInv, BothSequences
<1>2. turns = <<>> => TopOf(s) = -1
  BY DEF At, TopOf
<1>3. turns # <<>> => Len(turns) \in DOMAIN turns /\ TopOf(s) = turns[Len(turns)].at
  BY <1>1 DEF At, TopOf
<1> QED
  BY <1>2, <1>3 DEF SpeechInv, TurnsTold

\* A step that tells nothing and asserts nothing.
LEMMA NothingWritten ==
  ASSUME PoolInv, SpeechInv, NEW s, NEW r, At(s), At(r)', UNCHANGED <<turns, pool, blocked>>,
         pc # "detect", pc' # "detect", NEW X, log' = log \cup X,
         \A e \in X : e.type \notin {"session.turn", "claim.asserted"}
  PROVE  Grown(s, r) /\ \E Y : log' = log \cup Y /\ Written(s, r, Y)
<1>1. r.turns = s.turns /\ r.pool = s.pool /\ r.blocked = s.blocked /\ s.pc # "detect" /\ r.pc # "detect"
  BY DEF At
<1>2. TopOf(r) = TopOf(s) /\ HeldOf(r) = HeldOf(s)
  BY <1>1 DEF TopOf, HeldOf
<1>3. TopOf(s) \in Int
  BY TopHere
<1>4. Grown(s, r)
  BY <1>1, <1>2, <1>3 DEF Grown
<1>5. Written(s, r, X)
  BY <1>1, <1>2 DEF Written
<1> QED
  BY <1>4, <1>5

\* A step that tells a turn.
LEMMA TurnWritten ==
  ASSUME PoolInv, SpeechInv, NEW s, NEW r, At(s), At(r)', UNCHANGED <<pool, blocked>>,
         pc # "detect", pc' # "detect", NEW what, AppendTurn(Instant(last), what)
  PROVE  Grown(s, r) /\ \E Y : log' = log \cup Y /\ Written(s, r, Y)
<1> DEFINE L == Len(turns)
<1> DEFINE new == turns'[L + 1]
<1>1. /\ L \in Nat /\ DOMAIN turns = 1..L /\ DOMAIN turns' = 1..(L + 1) /\ Len(turns') = L + 1 /\ turns' # <<>>
      /\ \A n \in DOMAIN turns : turns'[n] = turns[n]
  BY TurnAdded DEF PoolInv
<1>2. log' = log \cup {new} /\ new.type = "session.turn" /\ new.at = Instant(last)
  <2> DEFINE turn == [type |-> "session.turn", at |-> Instant(last), h |-> 0, index |-> L, kind |-> what.kind,
                      item |-> what.item, depth |-> what.depth, said |-> what.said, card |-> what.card]
  <2>1. turns' = Append(turns, turn) /\ log' = log \cup {turn} /\ turn.type = "session.turn" /\ turn.at = Instant(last)
    BY DEF AppendTurn
  <2> HIDE DEF turn
  <2>2. PICK S : turns \in Seq(S)
    BY DEF PoolInv, BothSequences
  <2>3. turns \in Seq(S \cup {turn})
    BY <2>2
  <2>4. turns'[L + 1] = turn
    BY <2>1, <2>3
  <2> QED
    BY <2>1, <2>4
<1> HIDE DEF L, new
<1>3. new \in ToSet(turns') /\ ToSet(turns') = ToSet(turns) \cup {new}
  BY <1>1 DEF ToSet, new
<1>4. r.turns = turns' /\ s.turns = turns /\ r.pool = s.pool /\ r.blocked = s.blocked /\ s.pc # "detect" /\ r.pc # "detect"
  BY DEF At
<1>5. HeldOf(r) = HeldOf(s)
  BY <1>4 DEF HeldOf
<1>6. TopOf(r) = Instant(last)
  BY <1>1, <1>2, <1>4 DEF TopOf, new
<1>7. Instant(last) \in Int /\ Instant(last) > last /\ Instant(last) >= 0 /\ last \in Int
  BY PartnerAssumption DEF Instant, SpeechInv, TurnsTold
<1>8. TopOf(s) \in Int /\ TopOf(s) <= TopOf(r)
  BY <1>6, <1>7, TopHere
<1>9. Grown(s, r)
  BY <1>3, <1>4, <1>5, <1>6, <1>7, <1>8 DEF Grown
<1>10. OfType({new}, {"session.turn"}) = {new}
  BY <1>2 DEF OfType
<1>11. Written(s, r, {new})
  BY <1>2, <1>3, <1>4, <1>5, <1>10 DEF Written
<1> QED
  BY <1>2, <1>9, <1>11

\* A belief is asserted.
LEMMA BeliefWritten ==
  ASSUME PoolInv, UndetectedInv, SpeechInv, NEW s, NEW r, At(s), At(r)', AssertBelief
  PROVE  Grown(s, r) /\ \E Y : log' = log \cup Y /\ Written(s, r, Y)
<1> DEFINE c == Head(todo)
<1>1. /\ pc = "assert" /\ UNCHANGED <<turns, blocked>> /\ log' = log \cup {Asserted(c, last)}
      /\ IF Block(c) = {} THEN Accept(c) ELSE pc' = "detect" /\ UNCHANGED <<pool, todo>>
  BY DEF AssertBelief
<1>2. c.n > 0
  BY <1>1, TailTodo
<1> HIDE DEF c
<1>3. \/ pool' = pool \cup {c} /\ pc' # "detect"
      \/ pool' = pool /\ pc' = "detect" /\ todo' = todo
  BY <1>1 DEF Accept
<1>4. /\ s.turns = turns /\ r.turns = turns /\ s.pool = pool /\ r.pool = pool' /\ s.blocked = blocked /\ r.blocked = blocked
      /\ s.pc = "assert" /\ r.pc = pc' /\ r.todo = todo'
  BY <1>1 DEF At
<1>5. HeldOf(r) = HeldOf(s) \cup {c}
  BY <1>3, <1>4 DEF HeldOf, c
<1>6. TopOf(r) = TopOf(s)
  BY <1>4 DEF TopOf
<1>7. TopOf(s) = last /\ TopOf(s) \in Int
  BY <1>1, TopHere
<1>8. Grown(s, r)
  BY <1>4, <1>5, <1>6, <1>7 DEF Grown
<1> DEFINE e == Asserted(c, last)
<1>9. e.type = "claim.asserted" /\ e.claim = c /\ e.at = last
  BY DEF Asserted
<1> HIDE DEF e
<1>10. KnownClaims({e}) = {c}
  BY <1>9 DEF KnownClaims, OfType
<1>11. Written(s, r, {e})
  BY <1>2, <1>4, <1>5, <1>6, <1>7, <1>9, <1>10 DEF Written
<1> QED
  BY <1>1, <1>8, <1>11 DEF e

\* A belief is held against the pool.
LEMMA VerdictWritten ==
  ASSUME PoolInv, SpeechInv, NEW s, NEW r, At(s), At(r)', Detect
  PROVE  Grown(s, r) /\ \E Y : log' = log \cup Y /\ Written(s, r, Y)
<1>1. pc = "detect" /\ UNCHANGED <<log, turns>>
  BY DEF Detect
<1>2. /\ \/ pool' = pool \cup {Head(todo)} /\ blocked' = blocked
         \/ pool' = pool /\ blocked' = blocked \cup {Head(todo)}
      /\ pc' # "detect"
  BY DEF Detect, Accept
<1>3. /\ s.turns = turns /\ r.turns = turns /\ s.pool = pool /\ r.pool = pool' /\ s.blocked = blocked /\ r.blocked = blocked'
      /\ s.pc = "detect" /\ r.pc = pc' /\ s.todo = todo
  BY <1>1 DEF At
<1>4. HeldOf(r) = HeldOf(s)
  BY <1>2, <1>3 DEF HeldOf
<1>5. TopOf(r) = TopOf(s)
  BY <1>3 DEF TopOf
<1>6. TopOf(s) \in Int
  BY TopHere
<1>7. Grown(s, r)
  BY <1>3, <1>4, <1>5, <1>6 DEF Grown
<1>8. Written(s, r, {})
  BY <1>3, <1>4 DEF Written
<1> QED
  BY <1>1, <1>7, <1>8

\* The steps of a session that is not killed and does not crash.
Regular ==
  \/ Open \/ Work \/ Speak \/ Stop \/ \E b \in Answers : Observe(b)
  \/ Extract \/ AssertBelief \/ Detect \/ Plan \/ FollowUp \/ Close

LEMMA StepWritten ==
  ASSUME PoolInv, UndetectedInv, SpeechInv, driver = "replay", NEW s, NEW r, At(s), At(r)', Regular
  PROVE  Grown(s, r) /\ \E Y : log' = log \cup Y /\ Written(s, r, Y)
<1>1. CASE Open \/ Close
  <2>1. PICK e : log' = log \cup {e} /\ e.type \notin {"session.turn", "claim.asserted"}
    <3>1. CASE Open
      <4>1. PICK t : log' = log \cup {[type |-> "session.opened", at |-> t, h |-> 0]}
        BY <3>1 DEF Open
      <4>2. PICK e : e = [type |-> "session.opened", at |-> t, h |-> 0]
        OBVIOUS
      <4> QED
        BY <4>1, <4>2
    <3>2. CASE Close
      <4>1. PICK t : log' = log \cup {[type |-> "session.closed", at |-> t, h |-> 0]}
        BY <3>2 DEF Close
      <4>2. PICK e : e = [type |-> "session.closed", at |-> t, h |-> 0]
        OBVIOUS
      <4> QED
        BY <4>1, <4>2
    <3> QED
      BY <1>1, <3>1, <3>2
  <2>2. UNCHANGED <<turns, pool, blocked>> /\ pc # "detect" /\ pc' # "detect"
    BY <1>1 DEF Open, Close, PlanItem, Checked
  <2> QED
    BY <2>1, <2>2, NothingWritten
<1>2. CASE Work \/ Stop \/ Extract \/ Plan \/ FollowUp
  <2>1. UNCHANGED <<log, turns, pool, blocked>> /\ pc # "detect"
    BY <1>2 DEF Work, Stop, Extract, Plan, FollowUp, sessionVars
  <2>2. pc' # "detect"
    BY <1>2 DEF Work, Stop, Extract, Plan, FollowUp, MoveOn, PlanItem, Checked
  <2>3. PICK X : X = {}
    OBVIOUS
  <2>4. log' = log \cup X /\ \A e \in X : e.type \notin {"session.turn", "claim.asserted"}
    BY <2>1, <2>3
  <2> QED
    BY <2>1, <2>2, <2>4, NothingWritten
<1>3. CASE Speak
  <2>1. AppendTurn(Instant(last), plan)
    BY <1>3, ReplayInstants DEF Speak
  <2>2. UNCHANGED <<pool, blocked>> /\ pc # "detect" /\ pc' # "detect"
    BY <1>3 DEF Speak, Checked
  <2> QED
    BY <2>1, <2>2, TurnWritten
<1>4. ASSUME NEW b \in Answers, Observe(b)
      PROVE  Grown(s, r) /\ \E Y : log' = log \cup Y /\ Written(s, r, Y)
  <2> DEFINE what == [kind |-> "answer", item |-> item, depth |-> depth, said |-> b, card |-> {}]
  <2>1. AppendTurn(Instant(last), what)
    BY <1>4, ReplayInstants DEF Observe
  <2>2. UNCHANGED <<pool, blocked>> /\ pc # "detect" /\ pc' # "detect"
    BY <1>4 DEF Observe
  <2> HIDE DEF what
  <2> QED
    BY <2>1, <2>2, TurnWritten
<1>5. CASE AssertBelief
  BY <1>5, BeliefWritten
<1>6. CASE Detect
  BY <1>6, VerdictWritten
<1> QED
  BY <1>1, <1>2, <1>3, <1>4, <1>5, <1>6 DEF Regular

-----------------------------------------------------------------------------
(* Where a step of a replay goes.                                          *)

\* A step that answers a call goes where the cassette then says.
LEMMA AnswerLeads ==
  ASSUME driver = "replay", NEW s, At(s), pc \in Calls, \E a : Answered(a) /\ At(Successor(s, a))'
  PROVE  /\ \E r : r = Successor(s, Heard(s, tape')) /\ At(r)'
         /\ PromptOf(s) \in DOMAIN tape' /\ Extends(tape, tape')
<1>1. PICK a : Answered(a) /\ At(Successor(s, a))'
  OBVIOUS
<1>2. Prompt \in DOMAIN tape' /\ tape'[Prompt] = a /\ Extends(tape, tape')
  BY <1>1, AnswerKept
<1>3. s.pc \in Calls /\ PromptOf(s) = Prompt
  BY PromptHere
<1>4. Heard(s, tape') = a
  BY <1>2, <1>3 DEF Heard
<1>5. PICK r : r = Successor(s, a)
  OBVIOUS
<1>6. At(r)'
  BY <1>1, <1>5
<1> QED
  BY <1>2, <1>3, <1>4, <1>5, <1>6

\* A step that calls nothing.
LEMMA SilenceLeads ==
  ASSUME NEW s, At(s), pc \notin Calls, At(Successor(s, "none"))', UNCHANGED tape
  PROVE  /\ \E r : r = Successor(s, Heard(s, tape')) /\ At(r)'
         /\ s.pc \notin Calls /\ Extends(tape, tape')
<1>1. s.pc \notin Calls
  BY DEF At
<1>2. Heard(s, tape') = "none"
  BY <1>1 DEF Heard
<1>3. PICK r : r = Successor(s, "none")
  OBVIOUS
<1>4. At(r)'
  BY <1>3
<1>5. Extends(tape, tape')
  BY DEF Extends
<1> QED
  BY <1>1, <1>2, <1>3, <1>4, <1>5

LEMMA StepLeads ==
  ASSUME AgendaInv, driver = "replay", ~failed, ~failed', NEW s, At(s), Regular
  PROVE  /\ \E r : r = Successor(s, Heard(s, tape')) /\ At(r)'
         /\ s.pc \in Calls => PromptOf(s) \in DOMAIN tape'
         /\ Extends(tape, tape') /\ pc \notin {"done", "refused"}
<1>1. CASE Work
  <2>1. PICK said : Answered(said) /\ plan' = AgendaPlan(plan.item, said)
    BY <1>1 DEF Work, Raised
  <2>2. /\ pc = "work" /\ pc' = IF turns = <<>> THEN "speak" ELSE Checked(failed', "speak")
        /\ UNCHANGED <<why, turns, item, depth, last, pool, blocked, pending, todo>>
    BY <1>1 DEF Work
  <2>3. At(Successor(s, said))'
    BY <2>1, <2>2, OnWork
  <2> QED
    BY <2>1, <2>2, <2>3, AnswerLeads DEF Calls
<1>2. CASE Extract
  BY <1>2, OnExtract, AnswerLeads DEF Extract, Calls
<1>3. CASE Detect
  BY <1>3, OnDetect, AnswerLeads DEF Detect, Calls
<1>4. CASE FollowUp
  BY <1>4, OnFollowUp, AnswerLeads DEF FollowUp, Calls
<1>5. CASE Open
  BY <1>5, OnStart, SilenceLeads DEF Open, Calls, tapeVars
<1>6. CASE Speak
  BY <1>6, OnSpeak, SilenceLeads DEF Speak, Calls, tapeVars
<1>7. CASE Stop
  BY <1>7, OnStop, SilenceLeads DEF Stop, Calls, tapeVars
<1>8. ASSUME NEW b \in Answers, Observe(b)
      PROVE  /\ \E r : r = Successor(s, Heard(s, tape')) /\ At(r)'
             /\ s.pc \in Calls => PromptOf(s) \in DOMAIN tape'
             /\ Extends(tape, tape') /\ pc \notin {"done", "refused"}
  BY <1>8, OnObserve, SilenceLeads DEF Observe, Calls, tapeVars
<1>9. CASE AssertBelief
  BY <1>9, OnAssert, SilenceLeads DEF AssertBelief, Calls, tapeVars
<1>10. CASE Plan
  BY <1>10, OnPlan, SilenceLeads DEF Plan, Calls, tapeVars
<1>11. CASE Close
  BY <1>11, OnClose, SilenceLeads DEF Close, Calls, tapeVars
<1> QED
  BY <1>1, <1>2, <1>3, <1>4, <1>5, <1>6, <1>7, <1>8, <1>9, <1>10, <1>11 DEF Regular

-----------------------------------------------------------------------------
(* The way of a replay.                                                    *)

\* The log is that of the session s, but for opening steps that were refused.
LogFrom(s) ==
  /\ ToSet(s.turns) \subseteq OfType(log, {"session.turn"})
  /\ \A t \in OfType(log, {"session.turn"}) : t \in ToSet(s.turns) \/ (t.said = "bare" /\ t.index = 0)
  /\ KnownBeliefs = HeldOf(s)
  /\ \A e \in OfType(log, {"claim.asserted"}) : e.claim.n > 0 => e.at \in Int /\ e.at <= TopOf(s)

\* A session that hears the cassette goes through these states, to the last one
\* that a run has come to.
WayOf(m, path, tp) ==
  /\ m \in Nat \ {0} /\ path[1] = Beginning
  /\ \A k \in 1..(m - 1) :
       /\ path[k + 1] = Successor(path[k], Heard(path[k], tp))
       /\ path[k].pc \in Calls => PromptOf(path[k]) \in DOMAIN tp
       /\ path[k].pc \notin {"done", "refused"}
  /\ \A k \in 1..m : Grown(path[k], path[m])

\* The run has left the way: it ended, or it goes on to be refused.
Off ==
  \/ pc \in {"refused", "killed", "approving", "approved"}
  \/ failed /\ pc = "work" /\ turns # <<>>
  \/ failed /\ pc = "speak" /\ turns = <<>> /\ plan.said = "bare"

OnTheWay(m, path) ==
  WayOf(m, path, tape) /\ LogFrom(path[m]) /\ (Off \/ (~failed /\ \E j \in 1..m : At(path[j])))

BeliefsOnly == pc \notin {"killed", "approving", "approved"} => \A c \in KnownClaims(log) : c.n > 0

RepeatInv == driver = "replay" => BeliefsOnly /\ \E m, path : OnTheWay(m, path)

LEMMA HeardAgain ==
  ASSUME NEW s, NEW tp, NEW tq, Extends(tp, tq), s.pc \in Calls => PromptOf(s) \in DOMAIN tp
  PROVE  Heard(s, tq) = Heard(s, tp)
BY DEF Heard, Extends

\* A cassette that holds more leads the same way.
LEMMA WayKept ==
  ASSUME NEW m, NEW path, NEW tp, NEW tq, WayOf(m, path, tp), Extends(tp, tq)
  PROVE  WayOf(m, path, tq)
<1>1. ASSUME NEW k \in 1..(m - 1)
      PROVE  /\ path[k + 1] = Successor(path[k], Heard(path[k], tq))
             /\ path[k].pc \in Calls => PromptOf(path[k]) \in DOMAIN tq
  <2>1. /\ path[k + 1] = Successor(path[k], Heard(path[k], tp))
        /\ path[k].pc \in Calls => PromptOf(path[k]) \in DOMAIN tp
    BY DEF WayOf
  <2>2. Heard(path[k], tq) = Heard(path[k], tp)
    BY <2>1, HeardAgain
  <2> QED
    BY <2>1, <2>2 DEF Extends
<1> QED
  BY <1>1 DEF WayOf

LEMMA WayLonger ==
  ASSUME NEW m, NEW path, NEW tp, NEW r, WayOf(m, path, tp),
         r = Successor(path[m], Heard(path[m], tp)),
         path[m].pc \in Calls => PromptOf(path[m]) \in DOMAIN tp,
         path[m].pc \notin {"done", "refused"}, Grown(path[m], r)
  PROVE  \E way : WayOf(m + 1, way, tp) /\ way[m + 1] = r
<1> DEFINE way == [k \in 1..(m + 1) |-> IF k <= m THEN path[k] ELSE r]
<1>1. m \in Nat \ {0}
  BY DEF WayOf
<1>2. way[m + 1] = r /\ \A k \in 1..m : way[k] = path[k]
  BY <1>1
<1> HIDE DEF way
<1>3. way[1] = Beginning
  BY <1>1, <1>2 DEF WayOf
<1>4. ASSUME NEW k \in 1..m
      PROVE  /\ way[k + 1] = Successor(way[k], Heard(way[k], tp))
             /\ way[k].pc \in Calls => PromptOf(way[k]) \in DOMAIN tp
             /\ way[k].pc \notin {"done", "refused"}
  <2>1. CASE k = m
    BY <1>1, <1>2, <2>1
  <2>2. CASE k # m
    <3>1. k \in 1..(m - 1) /\ k + 1 \in 1..m
      BY <1>1, <2>2
    <3>2. way[k + 1] = path[k + 1] /\ way[k] = path[k]
      BY <1>2, <3>1
    <3> QED
      BY <3>1, <3>2 DEF WayOf
  <2> QED
    BY <2>1, <2>2
<1>5. ASSUME NEW k \in 1..(m + 1) PROVE Grown(way[k], way[m + 1])
  <2>1. CASE k = m + 1
    BY <1>2, <2>1 DEF Grown
  <2>2. CASE k # m + 1
    <3>1. k \in 1..m
      BY <1>1, <2>2
    <3>2. Grown(path[k], path[m])
      BY <3>1 DEF WayOf
    <3> QED
      BY <1>2, <3>1, <3>2, GrownTransitive
  <2> QED
    BY <2>1, <2>2
<1>6. m + 1 \in Nat \ {0} /\ (m + 1) - 1 = m
  BY <1>1
<1>7. WayOf(m + 1, way, tp)
  BY <1>3, <1>4, <1>5, <1>6 DEF WayOf
<1> QED
  BY <1>2, <1>7

LEMMA BeliefsWritten ==
  ASSUME NEW X, log' = log \cup X
  PROVE  KnownBeliefs' = KnownBeliefs \cup {c \in KnownClaims(X) : c.n > 0}
<1>1. KnownClaims(log') = KnownClaims(log) \cup KnownClaims(X)
  BY DEF KnownClaims, OfType
<1> QED
  BY <1>1 DEF KnownBeliefs

\* A run goes on behind the last state: what it writes is new.
LEMMA LogLonger ==
  ASSUME NEW s, NEW r, LogFrom(s), Grown(s, r), NEW X, log' = log \cup X, Written(s, r, X)
  PROVE  LogFrom(r)'
<1>1. OfType(log', {"session.turn"}) = OfType(log, {"session.turn"}) \cup OfType(X, {"session.turn"})
  BY DEF OfType
<1>2. OfType(log', {"claim.asserted"}) = OfType(log, {"claim.asserted"}) \cup OfType(X, {"claim.asserted"})
  BY DEF OfType
<1>3. ToSet(r.turns) \subseteq OfType(log', {"session.turn"})
  BY <1>1 DEF LogFrom, Written
<1>4. \A t \in OfType(log', {"session.turn"}) : t \in ToSet(r.turns) \/ (t.said = "bare" /\ t.index = 0)
  <2>1. \A t \in OfType(X, {"session.turn"}) : t \in ToSet(r.turns)
    BY DEF Written, OfType
  <2> QED
    BY <1>1, <2>1 DEF LogFrom, Grown
<1>5. KnownBeliefs' = KnownBeliefs \cup {c \in KnownClaims(X) : c.n > 0}
  BY BeliefsWritten
<1>6. \A e \in OfType(X, {"claim.asserted"}) : e.claim \in HeldOf(r) /\ e.claim.n > 0 /\ e.at \in Int /\ e.at <= TopOf(r)
  BY DEF Written, OfType
<1>7. \A c \in KnownClaims(X) : c \in HeldOf(r) /\ c.n > 0
  BY <1>6 DEF KnownClaims
<1>8. KnownBeliefs' = HeldOf(r)
  BY <1>5, <1>7 DEF LogFrom, Grown, Written
<1>9. ASSUME NEW e \in OfType(log', {"claim.asserted"}), e.claim.n > 0 PROVE e.at \in Int /\ e.at <= TopOf(r)
  <2>1. CASE e \in OfType(X, {"claim.asserted"})
    BY <1>6, <2>1
  <2>2. CASE e \in OfType(log, {"claim.asserted"})
    <3>1. e.at \in Int /\ e.at <= TopOf(s)
      BY <1>9, <2>2 DEF LogFrom
    <3> QED
      BY <3>1 DEF Grown
  <2> QED
    BY <1>2, <1>9, <2>1, <2>2
<1> QED
  BY <1>3, <1>4, <1>8, <1>9 DEF LogFrom

\* A run goes where one has been: what it writes is there.
LEMMA LogAgain ==
  ASSUME NEW s, NEW r, NEW q, LogFrom(q), Grown(r, q), NEW X, log' = log \cup X, Written(s, r, X)
  PROVE  LogFrom(q)'
<1>1. OfType(log', {"session.turn"}) = OfType(log, {"session.turn"}) \cup OfType(X, {"session.turn"})
  BY DEF OfType
<1>2. OfType(log', {"claim.asserted"}) = OfType(log, {"claim.asserted"}) \cup OfType(X, {"claim.asserted"})
  BY DEF OfType
<1>3. \A t \in OfType(X, {"session.turn"}) : t \in ToSet(q.turns)
  BY DEF Written, OfType, Grown
<1>4. \A c \in KnownClaims(X) : c \in HeldOf(q)
  BY DEF Written, OfType, Grown, KnownClaims
<1>5. KnownBeliefs' = HeldOf(q)
  <2>1. KnownBeliefs' = KnownBeliefs \cup {c \in KnownClaims(X) : c.n > 0}
    BY BeliefsWritten
  <2>2. KnownBeliefs = HeldOf(q)
    BY DEF LogFrom
  <2> QED
    BY <1>4, <2>1, <2>2
<1>6. ASSUME NEW e \in OfType(log', {"claim.asserted"}), e.claim.n > 0 PROVE e.at \in Int /\ e.at <= TopOf(q)
  <2>1. CASE e \in OfType(log, {"claim.asserted"})
    BY <1>6, <2>1 DEF LogFrom
  <2>2. CASE e \in OfType(X, {"claim.asserted"})
    <3>1. e.at \in Int /\ e.at <= TopOf(r)
      BY <2>2 DEF Written, OfType
    <3> QED
      BY <3>1 DEF Grown
  <2> QED
    BY <1>2, <1>6, <2>1, <2>2
<1> QED
  BY <1>1, <1>3, <1>5, <1>6 DEF LogFrom

\* Something else is appended.
LEMMA LogBeside ==
  ASSUME NEW s, LogFrom(s), NEW X, log' = log \cup X,
         \A e \in X : /\ e.type = "session.turn" => e.said = "bare" /\ e.index = 0
                      /\ e.type = "claim.asserted" => e.claim.n = 0
  PROVE  LogFrom(s)'
<1>1. OfType(log', {"session.turn"}) = OfType(log, {"session.turn"}) \cup OfType(X, {"session.turn"})
  BY DEF OfType
<1>2. OfType(log', {"claim.asserted"}) = OfType(log, {"claim.asserted"}) \cup OfType(X, {"claim.asserted"})
  BY DEF OfType
<1>3. \A e \in OfType(X, {"claim.asserted"}) : e.claim.n = 0
  BY DEF OfType
<1>4. KnownBeliefs' = KnownBeliefs
  <2>1. \A c \in KnownClaims(X) : c.n = 0
    BY <1>3 DEF KnownClaims
  <2> QED
    BY <2>1, BeliefsWritten
<1>5. \A t \in OfType(X, {"session.turn"}) : t.said = "bare" /\ t.index = 0
  BY DEF OfType
<1>6. \A e \in OfType(log', {"claim.asserted"}) : e.claim.n > 0 => e \in OfType(log, {"claim.asserted"})
  BY <1>2, <1>3
<1> QED
  BY <1>1, <1>4, <1>5, <1>6 DEF LogFrom

-----------------------------------------------------------------------------
(* Every step of a replay is on the way, or leaves it.                     *)

\* A step of a session none of whose calls has failed.
LEMMA OnStep ==
  ASSUME PoolInv, AgendaInv, UndetectedInv, SpeechInv, driver = "replay", ~failed, ~failed', Regular,
         NEW m, NEW path, WayOf(m, path, tape), LogFrom(path[m]), NEW j \in 1..m, At(path[j])
  PROVE  \E n, way : OnTheWay(n, way)'
<1> DEFINE s == path[j]
<1>1. PICK tq : tq = tape'
  OBVIOUS
<1>2. /\ \E r : r = Successor(s, Heard(s, tq)) /\ At(r)'
      /\ s.pc \in Calls => PromptOf(s) \in DOMAIN tq
      /\ Extends(tape, tq) /\ pc \notin {"done", "refused"}
  BY <1>1, StepLeads
<1>3. PICK r : r = Successor(s, Heard(s, tq)) /\ At(r)'
  BY <1>2
<1>4. At(s)
  OBVIOUS
<1> HIDE DEF s
<1>5. Grown(s, r) /\ \E Y : log' = log \cup Y /\ Written(s, r, Y)
  BY <1>3, <1>4, StepWritten
<1>6. PICK X : log' = log \cup X /\ Written(s, r, X)
  BY <1>5
<1>7. WayOf(m, path, tq)
  BY <1>2, WayKept
<1>8. m \in Nat \ {0}
  BY DEF WayOf
<1>9. s.pc \notin {"done", "refused"}
  BY <1>2, <1>4 DEF At
<1>10. CASE j = m
  <2>1. s = path[m]
    BY <1>10 DEF s
  <2>2. PICK way : WayOf(m + 1, way, tq) /\ way[m + 1] = r
    BY <1>2, <1>3, <1>5, <1>7, <1>9, <2>1, WayLonger
  <2>3. LogFrom(r)'
    BY <1>5, <1>6, <2>1, LogLonger
  <2>4. PICK n : n = m + 1
    OBVIOUS
  <2>5. n \in 1..n /\ WayOf(n, way, tq) /\ way[n] = r
    BY <1>8, <2>2, <2>4
  <2>6. LogFrom(way[n])' /\ At(way[n])'
    BY <1>3, <2>3, <2>5
  <2>7. WayOf(n, way, tape)'
    BY <1>1, <2>5
  <2>8. OnTheWay(n, way)'
    BY <2>5, <2>6, <2>7 DEF OnTheWay
  <2> QED
    BY <2>8
<1>11. CASE j # m
  <2>1. PICK i : i = j + 1
    OBVIOUS
  <2>2. j \in 1..(m - 1) /\ i \in 1..m
    BY <1>8, <1>11, <2>1
  <2>3. /\ path[i] = Successor(s, Heard(s, tq))
    BY <1>7, <2>1, <2>2 DEF WayOf, s
  <2>4. path[i] = r
    BY <1>3, <2>3
  <2>5. Grown(r, path[m])
    BY <1>7, <2>2, <2>4 DEF WayOf
  <2>6. LogFrom(path[m])'
    BY <1>6, <2>5, LogAgain
  <2>7. At(path[i])'
    BY <1>3, <2>4
  <2>8. WayOf(m, path, tape)'
    BY <1>1, <1>7
  <2>9. OnTheWay(m, path)'
    BY <2>2, <2>6, <2>7, <2>8 DEF OnTheWay
  <2> QED
    BY <2>9
<1> QED
  BY <1>10, <1>11

\* A step that leaves the way, or that goes on off it.
LEMMA OffStep ==
  ASSUME NEW m, NEW path, WayOf(m, path, tape), LogFrom(path[m]), Off', Extends(tape, tape'),
         NEW X, log' = log \cup X,
         \A e \in X : /\ e.type = "session.turn" => e.said = "bare" /\ e.index = 0
                      /\ e.type = "claim.asserted" => e.claim.n = 0
  PROVE  \E n, way : OnTheWay(n, way)'
<1>1. WayOf(m, path, tape')
  BY WayKept
<1>2. LogFrom(path[m])'
  BY LogBeside
<1>3. OnTheWay(m, path)'
  BY <1>1, <1>2 DEF OnTheWay
<1> QED
  BY <1>3

\* No answer is taken off the cassette.
LEMMA TapeGrows ==
  ASSUME NEW said, Answered(said) \/ Raised
  PROVE  Extends(tape, tape')
BY DEF Answered, Raised, tapeVars, Extends

LEMMA TurnLogged ==
  ASSUME NEW t, NEW what, AppendTurn(t, what)
  PROVE  \E e : log' = log \cup {e} /\ e.type = "session.turn" /\ e.said = what.said /\ e.index = Len(turns)
<1>1. PICK e : e = [type |-> "session.turn", at |-> t, h |-> 0, index |-> Len(turns), kind |-> what.kind,
                    item |-> what.item, depth |-> what.depth, said |-> what.said, card |-> what.card]
  OBVIOUS
<1>2. e.type = "session.turn" /\ e.said = what.said /\ e.index = Len(turns)
  BY <1>1
<1>3. log' = log \cup {e}
  BY <1>1 DEF AppendTurn
<1> QED
  BY <1>2, <1>3

\* A call fails, or a failed session goes on: it is refused, or about to be.
LEMMA FailedStep ==
  ASSUME AgendaInv, driver = "replay", Regular, Off \/ ~failed, Off \/ failed'
  PROVE  /\ Off' /\ Extends(tape, tape')
         /\ \/ log' = log
            \/ \E e : log' = log \cup {e} /\ e.type = "session.turn" /\ e.said = "bare" /\ e.index = 0
<1>1. CASE Work
  <2>1. pc = "work" /\ UNCHANGED <<turns, log>> /\ pc' = IF turns = <<>> THEN "speak" ELSE Checked(failed', "speak")
    BY <1>1 DEF Work
  <2>2. PICK said : (Answered(said) \/ (said = "bare" /\ Raised)) /\ plan' = AgendaPlan(plan.item, said)
    BY <1>1 DEF Work
  <2>3. Extends(tape, tape')
    BY <2>2, TapeGrows
  <2>4. AgendaPlan(plan.item, said).said = said
    BY DEF AgendaPlan, NoPlan
  <2>5. Off'
    <3>1. CASE Off
      <4>1. failed /\ turns # <<>>
        BY <2>1, <3>1 DEF Off
      <4>2. failed'
        BY <2>2, <4>1 DEF Answered, Raised
      <4> QED
        BY <2>1, <4>1, <4>2 DEF Checked, Off
    <3>2. CASE ~Off
      <4>1. ~failed /\ failed'
        BY <3>2
      <4>2. said = "bare"
        BY <2>2, <4>1 DEF Answered
      <4> QED
        BY <2>1, <2>2, <2>4, <4>1, <4>2 DEF Checked, Off
    <3> QED
      BY <3>1, <3>2
  <2> QED
    BY <2>1, <2>3, <2>5
<1>2. CASE FollowUp
  <2>1. pc = "followup" /\ UNCHANGED <<turns, log>>
    BY <1>2 DEF FollowUp
  <2>2. ~failed /\ failed' /\ turns # <<>>
    BY <2>1 DEF Off, AgendaInv, AskedSoFar, Underway
  <2>3. Raised /\ MoveOn
    BY <1>2, <2>2 DEF FollowUp, Answered
  <2>4. pc' \in {"refused", "work"}
    BY <2>2, <2>3 DEF MoveOn, PlanItem, Checked
  <2>5. Extends(tape, tape')
    BY <2>3, TapeGrows
  <2> QED
    BY <2>1, <2>2, <2>4, <2>5 DEF Off
<1>3. CASE Speak
  <2>1. pc = "speak" /\ UNCHANGED <<tape, failed>>
    BY <1>3 DEF Speak, tapeVars
  <2>2. failed /\ turns = <<>> /\ plan.said = "bare"
    BY <2>1 DEF Off
  <2>3. pc' = "refused"
    BY <1>3, <2>2 DEF Speak, Checked
  <2>4. PICK t : AppendTurn(t, plan)
    BY <1>3 DEF Speak
  <2>5. \E e : log' = log \cup {e} /\ e.type = "session.turn" /\ e.said = "bare" /\ e.index = 0
    BY <2>2, <2>4, TurnLogged
  <2> QED
    BY <2>1, <2>3, <2>5 DEF Off, Extends
<1>4. CASE Open \/ Stop \/ (\E b \in Answers : Observe(b)) \/ AssertBelief \/ Plan \/ Close
  BY <1>4 DEF Open, Stop, Observe, AssertBelief, Plan, Close, Off
<1>5. CASE Extract
  <2>1. pc = "extract" /\ UNCHANGED failed
    BY <1>5 DEF Extract, Answered
  <2> QED
    BY <2>1 DEF Off
<1>6. CASE Detect
  <2>1. pc = "detect" /\ UNCHANGED failed
    BY <1>6 DEF Detect, Answered
  <2> QED
    BY <2>1 DEF Off
<1> QED
  BY <1>1, <1>2, <1>3, <1>4, <1>5, <1>6 DEF Regular

\* No turn is queued.
Untold == \A x \in queue : x.event.type # "session.turn"

LEMMA UntoldStep == Untold /\ [Next]_vars => Untold'
<1> SUFFICES ASSUME Untold, [Next]_vars PROVE Untold'
  OBVIOUS
<1>1. CASE Approve
  <2>1. PICK t : queue' \subseteq Answering \cup Ratifying(t) \cup Beliefs(t)
    BY <1>1 DEF Approve
  <2>2. ASSUME NEW c, NEW rows, NEW place, NEW x \in Approval(c, rows, t, place)
        PROVE  x.event.type # "session.turn"
    BY <2>2 DEF Approval
  <2>3. \A x \in Answering : x.event.type # "session.turn"
    BY DEF Answering, Asserted
  <2>4. \A x \in Ratifying(t) : x.event.type # "session.turn"
    BY <2>2 DEF Ratifying
  <2>5. \A x \in Beliefs(t) : x.event.type # "session.turn"
    BY <2>2 DEF Beliefs
  <2> QED
    BY <2>1, <2>3, <2>4, <2>5 DEF Untold
<1>2. CASE AppendNext
  <2>1. queue' \subseteq queue
    BY <1>2 DEF AppendNext
  <2> QED
    BY <2>1 DEF Untold
<1>3. CASE Kill \/ Rerun
  BY <1>3 DEF Kill, Rerun, Fresh, Untold
<1>4. CASE Backoff \/ Open \/ Work \/ Speak \/ Stop \/ (\E a \in Answers : Observe(a)) \/ Extract \/ Crash
  BY <1>4 DEF Backoff, Open, Work, Speak, Stop, Observe, Extract, Crash, Untold
<1>5. CASE AssertBelief \/ Detect \/ Plan \/ FollowUp \/ Close \/ UNCHANGED vars
  BY <1>5 DEF AssertBelief, Detect, Plan, FollowUp, Close, vars, Untold
<1> QED
  BY <1>1, <1>2, <1>3, <1>4, <1>5 DEF Next

\* Only the approval asserts a claim that is no belief.
LEMMA BeliefsAsserted ==
  ASSUME PoolInv, UndetectedInv, BeliefsOnly, [Next]_vars
  PROVE  BeliefsOnly'
<1>1. CASE Speak \/ \E b \in Answers : Observe(b)
  <2>1. PICK t, what : AppendTurn(t, what)
    BY <1>1 DEF Speak, Observe
  <2>2. PICK e : log' = log \cup {e} /\ e.type = "session.turn"
    BY <2>1, TurnLogged
  <2>3. KnownClaims(log)' = KnownClaims(log)
    BY <2>2, KnownAppended
  <2>4. pc \notin {"killed", "approving", "approved"}
    BY <1>1 DEF Speak, Observe
  <2> QED
    BY <2>3, <2>4 DEF BeliefsOnly
<1>2. CASE Open \/ Close
  <2>1. PICK e : log' = log \cup {e} /\ e.type # "claim.asserted"
    <3>1. CASE Open
      <4>1. PICK t : log' = log \cup {[type |-> "session.opened", at |-> t, h |-> 0]}
        BY <3>1 DEF Open
      <4>2. PICK e : e = [type |-> "session.opened", at |-> t, h |-> 0]
        OBVIOUS
      <4> QED
        BY <4>1, <4>2
    <3>2. CASE Close
      <4>1. PICK t : log' = log \cup {[type |-> "session.closed", at |-> t, h |-> 0]}
        BY <3>2 DEF Close
      <4>2. PICK e : e = [type |-> "session.closed", at |-> t, h |-> 0]
        OBVIOUS
      <4> QED
        BY <4>1, <4>2
    <3> QED
      BY <1>2, <3>1, <3>2
  <2>2. KnownClaims(log)' = KnownClaims(log)
    BY <2>1, KnownAppended
  <2>3. pc \notin {"killed", "approving", "approved"}
    BY <1>2 DEF Open, Close
  <2> QED
    BY <2>2, <2>3 DEF BeliefsOnly
<1>3. CASE AssertBelief
  <2>1. pc = "assert" /\ log' = log \cup {Asserted(Head(todo), last)}
    BY <1>3 DEF AssertBelief
  <2>2. Head(todo).n > 0
    BY <2>1, TailTodo
  <2>3. PICK e : e = Asserted(Head(todo), last)
    OBVIOUS
  <2>4. e.type = "claim.asserted" /\ e.claim = Head(todo)
    BY <2>3 DEF Asserted
  <2>5. KnownClaims(log)' = KnownClaims(log) \cup {Head(todo)}
    BY <2>1, <2>3, <2>4, KnownAppended
  <2> QED
    BY <2>1, <2>2, <2>5 DEF BeliefsOnly
<1>4. CASE Rerun
  BY <1>4 DEF Rerun, BeliefsOnly
<1>5. CASE Kill
  BY <1>5 DEF Kill, Fresh, BeliefsOnly
<1>6. CASE Approve \/ AppendNext
  BY <1>6 DEF Approve, AppendNext, BeliefsOnly
<1>7. CASE Backoff \/ Work \/ Stop \/ Extract \/ Crash \/ Detect \/ Plan \/ FollowUp \/ UNCHANGED vars
  <2>1. UNCHANGED log
    BY <1>7 DEF Backoff, Work, Stop, Extract, Crash, Detect, Plan, FollowUp, vars
  <2>2. pc \notin {"killed", "approving", "approved"} \/ pc' = pc
    BY <1>7 DEF Backoff, Work, Stop, Extract, Crash, Detect, Plan, FollowUp, vars
  <2> QED
    BY <2>1, <2>2 DEF BeliefsOnly
<1> QED
  BY <1>1, <1>2, <1>3, <1>4, <1>5, <1>6, <1>7 DEF Next

LEMMA BeginningFields ==
  /\ Beginning.turns = <<>> /\ Beginning.pool = {} /\ Beginning.blocked = {} /\ Beginning.pc = "start"
  /\ HeldOf(Beginning) = {} /\ TopOf(Beginning) = -1 /\ Grown(Beginning, Beginning)
<1>1. PICK s : s = Beginning
  OBVIOUS
<1>2. s.turns = <<>> /\ s.pool = {} /\ s.blocked = {} /\ s.pc = "start"
  BY <1>1, StateFields DEF Beginning
<1>3. HeldOf(s) = {} /\ TopOf(s) = -1
  BY <1>2 DEF HeldOf, TopOf
<1>4. Grown(s, s)
  BY <1>3 DEF Grown
<1> QED
  BY <1>1, <1>2, <1>3, <1>4

\* A run begins at the beginning.
LEMMA FreshBegins ==
  ASSUME Fresh("start")
  PROVE  At(Beginning)' /\ ~failed'
<1>1. PICK s : s = Beginning
  OBVIOUS
<1>2. At(s)'
  BY <1>1, ToState DEF Beginning, Fresh
<1> QED
  BY <1>1, <1>2 DEF Fresh

LEMMA RepeatInit == Init => RepeatInv
<1> SUFFICES ASSUME Init PROVE RepeatInv
  OBVIOUS
<1>1. OfType(log, {"session.turn"}) = {} /\ OfType(log, {"claim.asserted"}) = {}
  BY DEF Init, OfType
<1>2. BeliefsOnly /\ KnownBeliefs = {}
  BY <1>1 DEF BeliefsOnly, KnownClaims, KnownBeliefs
<1>3. PICK s : s = Beginning
  OBVIOUS
<1>4. /\ s.pc = "start" /\ s.why = "none" /\ s.turns = <<>> /\ s.item = 1 /\ s.depth = 0 /\ s.last = -1
      /\ s.pool = {} /\ s.blocked = {} /\ s.pending = <<>> /\ s.todo = <<>> /\ s.plan = NoPlan /\ s.played = 0
  BY <1>3, StateFields DEF Beginning
<1>5. At(s)
  BY <1>4 DEF At, Init
<1>6. HeldOf(s) = {} /\ Grown(s, s)
  BY <1>3, BeginningFields
<1>7. ToSet(s.turns) = {}
  BY <1>4 DEF ToSet
<1>8. LogFrom(s)
  BY <1>1, <1>2, <1>6, <1>7 DEF LogFrom
<1>9. PICK path : path = [k \in {1} |-> s]
  OBVIOUS
<1>10. path[1] = s
  BY <1>9
<1>11. WayOf(1, path, tape)
  BY <1>3, <1>6, <1>10 DEF WayOf
<1>12. ~failed
  BY DEF Init
<1>13. OnTheWay(1, path)
  BY <1>5, <1>8, <1>10, <1>11, <1>12 DEF OnTheWay
<1> QED
  BY <1>2, <1>13 DEF RepeatInv

LEMMA RepeatStep ==
  PoolInv /\ AgendaInv /\ UndetectedInv /\ SpeechInv /\ Untold /\ RepeatInv /\ [Next]_vars => RepeatInv'
<1> SUFFICES ASSUME PoolInv, AgendaInv, UndetectedInv, SpeechInv, Untold, RepeatInv, [Next]_vars, driver' = "replay"
             PROVE  RepeatInv'
  BY DEF RepeatInv
<1>1. driver = "replay"
  BY DEF Next, Backoff, Open, Work, Speak, Stop, Observe, Extract, Crash, AssertBelief, Detect, Plan, FollowUp,
         Close, Approve, AppendNext, Kill, Rerun, vars
<1>2. BeliefsOnly'
  BY <1>1, BeliefsAsserted DEF RepeatInv
<1>3. PICK m, path : OnTheWay(m, path)
  BY <1>1 DEF RepeatInv
<1>4. WayOf(m, path, tape) /\ LogFrom(path[m])
  BY <1>3 DEF OnTheWay
<1>5. ASSUME Off', Extends(tape, tape'), UNCHANGED log PROVE \E n, way : OnTheWay(n, way)'
  <2>1. PICK X : X = {}
    OBVIOUS
  <2>2. log' = log \cup X /\ \A e \in X : FALSE
    BY <1>5, <2>1
  <2> QED
    BY <1>4, <1>5, <2>2, OffStep
<1>13. ASSUME Off', Extends(tape, tape'), NEW e, log' = log \cup {e},
              e.type = "session.turn" => e.said = "bare" /\ e.index = 0,
              e.type = "claim.asserted" => e.claim.n = 0
       PROVE  \E n, way : OnTheWay(n, way)'
  <2>1. PICK X : X = {e}
    OBVIOUS
  <2>2. /\ log' = log \cup X
        /\ \A x \in X : /\ x.type = "session.turn" => x.said = "bare" /\ x.index = 0
                        /\ x.type = "claim.asserted" => x.claim.n = 0
    BY <1>13, <2>1
  <2> QED
    BY <1>4, <1>13, <2>2, OffStep
<1>6. CASE Regular
  <2>1. CASE ~Off /\ ~failed /\ ~failed'
    <3>1. PICK j \in 1..m : At(path[j])
      BY <1>3, <2>1 DEF OnTheWay
    <3>2. \E n, way : OnTheWay(n, way)'
      BY <1>1, <1>4, <1>6, <2>1, <3>1, OnStep
    <3> QED
      BY <1>2, <3>2 DEF RepeatInv
  <2>2. CASE Off \/ failed \/ failed'
    <3>1. (Off \/ ~failed) /\ (Off \/ failed')
      BY <1>3, <2>2 DEF OnTheWay
    <3>2. /\ Off' /\ Extends(tape, tape')
          /\ \/ log' = log
             \/ \E e : log' = log \cup {e} /\ e.type = "session.turn" /\ e.said = "bare" /\ e.index = 0
      BY <1>1, <1>6, <3>1, FailedStep
    <3>3. CASE log' = log
      BY <1>2, <1>5, <3>2, <3>3 DEF RepeatInv
    <3>4. CASE \E e : log' = log \cup {e} /\ e.type = "session.turn" /\ e.said = "bare" /\ e.index = 0
      <4>1. PICK e : log' = log \cup {e} /\ e.type = "session.turn" /\ e.said = "bare" /\ e.index = 0
        BY <3>4
      <4>2. \E n, way : OnTheWay(n, way)'
        BY <1>13, <3>2, <4>1
      <4> QED
        BY <1>2, <4>2 DEF RepeatInv
    <3> QED
      BY <3>2, <3>3, <3>4
  <2> QED
    BY <2>1, <2>2
<1>7. CASE Crash
  <2>1. Off' /\ UNCHANGED log
    BY <1>7 DEF Crash, Off
  <2>2. Extends(tape, tape')
    BY <1>7, TapeGrows DEF Crash
  <2> QED
    BY <1>2, <1>5, <2>1, <2>2 DEF RepeatInv
<1>8. CASE Approve \/ Kill
  <2>1. Off' /\ UNCHANGED <<log, tape>>
    BY <1>8 DEF Approve, Kill, Fresh, Off, tapeVars
  <2>2. Extends(tape, tape')
    BY <2>1 DEF Extends
  <2> QED
    BY <1>2, <1>5, <2>1, <2>2 DEF RepeatInv
<1>9. CASE AppendNext
  <2>1. UNCHANGED tape /\ pc' \in {"approving", "approved"}
    BY <1>9 DEF AppendNext, tapeVars
  <2>2. Off' /\ Extends(tape, tape')
    BY <2>1 DEF Extends, Off
  <2>3. CASE queue = {}
    <3>1. UNCHANGED log
      BY <1>9, <2>3 DEF AppendNext
    <3> QED
      BY <1>2, <1>5, <2>2, <3>1 DEF RepeatInv
  <2>4. CASE queue # {}
    <3>1. PICK x \in queue : log' = log \cup {x.event}
      BY <1>9, <2>4 DEF AppendNext
    <3>2. x.event.type = "claim.asserted" => x.event.claim.n = 0
      BY DEF UndetectedInv
    <3>3. x.event.type # "session.turn"
      BY DEF Untold
    <3>4. PICK e : e = x.event
      OBVIOUS
    <3>5. log' = log \cup {e} /\ e.type # "session.turn" /\ (e.type = "claim.asserted" => e.claim.n = 0)
      BY <3>1, <3>2, <3>3, <3>4
    <3>6. \E n, way : OnTheWay(n, way)'
      BY <1>13, <2>2, <3>5
    <3> QED
      BY <1>2, <3>6 DEF RepeatInv
  <2> QED
    BY <2>3, <2>4
<1>10. CASE Rerun
  <2>1. Fresh("start") /\ UNCHANGED <<log, tape>>
    BY <1>10 DEF Rerun
  <2>2. At(Beginning)' /\ ~failed'
    BY <2>1, FreshBegins
  <2>3. 1 \in 1..m /\ path[1] = Beginning
    BY <1>4 DEF WayOf
  <2>4. LogFrom(path[m])'
    BY <1>4, <2>1 DEF LogFrom, KnownBeliefs
  <2>5. WayOf(m, path, tape)'
    BY <1>4, <2>1
  <2>6. At(path[1])'
    BY <2>2, <2>3
  <2>7. OnTheWay(m, path)'
    BY <2>2, <2>3, <2>4, <2>5, <2>6 DEF OnTheWay
  <2> QED
    BY <1>2, <2>7 DEF RepeatInv
<1>11. CASE UNCHANGED vars
  <2>1. UNCHANGED <<log, tape, failed, pc, plan, why, turns, item, depth, last, pool, blocked, pending, todo, played>>
    BY <1>11 DEF vars, sessionVars, tapeVars
  <2>2. LogFrom(path[m])'
    BY <1>4, <2>1 DEF LogFrom, KnownBeliefs
  <2>3. WayOf(m, path, tape)'
    BY <1>4, <2>1
  <2>4. Off' <=> Off
    BY <2>1 DEF Off
  <2>5. ASSUME NEW j \in 1..m, At(path[j]) PROVE At(path[j])'
    BY <2>1, <2>5 DEF At
  <2>6. OnTheWay(m, path)'
    BY <1>3, <2>1, <2>2, <2>3, <2>4, <2>5 DEF OnTheWay
  <2> QED
    BY <1>2, <2>6 DEF RepeatInv
<1>12. ~Backoff
  BY <1>1 DEF Backoff
<1> QED
  BY <1>6, <1>7, <1>8, <1>9, <1>10, <1>11, <1>12 DEF Next, Regular

\* What a replay that came to its end leaves.
LEMMA DoneRepeats ==
  ASSUME PoolInv, Listed, AgendaInv, SpeechInv, RepeatInv, driver = "replay", pc = "done"
  PROVE  /\ ~failed /\ ToSet(turns) \subseteq OfType(log, {"session.turn"})
         /\ \A t \in OfType(log, {"session.turn"}) : t \in ToSet(turns) \/ (t.said = "bare" /\ t.index = 0)
         /\ KnownClaims(log) = pool \cup blocked
         /\ \A e \in OfType(log, {"claim.asserted"}) : e.at \in Int /\ e.at <= turns[Len(turns)].at
         /\ turns # <<>>
<1>1. BeliefsOnly
  BY DEF RepeatInv
<1>2. PICK m, path : OnTheWay(m, path)
  BY DEF RepeatInv
<1>3. ~Off
  BY DEF Off
<1>4. PICK j \in 1..m : At(path[j])
  BY <1>2, <1>3 DEF OnTheWay
<1>5. WayOf(m, path, tape) /\ LogFrom(path[m]) /\ ~failed
  BY <1>2, <1>3 DEF OnTheWay
<1>6. path[j].pc = "done"
  BY <1>4 DEF At
<1>7. m \in Nat /\ \A k \in 1..(m - 1) : path[k].pc # "done"
  BY <1>5 DEF WayOf
<1>8. j = m
  BY <1>6, <1>7
<1>9. PICK s : s = path[m]
  OBVIOUS
<1>10. At(s) /\ LogFrom(s)
  BY <1>4, <1>5, <1>8, <1>9
<1>11. HeldOf(s) = pool \cup blocked
  BY <1>10 DEF At, HeldOf
<1>12. turns # <<>>
  BY DEF AgendaInv, LeftWhenDone, AskedSoFar, Underway
<1>13. TopOf(s) = turns[Len(turns)].at
  BY <1>10, <1>12 DEF At, TopOf
<1>14. KnownClaims(log) = KnownBeliefs
  BY <1>1 DEF BeliefsOnly, KnownBeliefs
<1>15. \A e \in OfType(log, {"claim.asserted"}) : e.claim.n > 0
  BY <1>1 DEF BeliefsOnly, KnownClaims
<1>16. s.turns = turns
  BY <1>10 DEF At
<1> QED
  BY <1>5, <1>10, <1>11, <1>12, <1>13, <1>14, <1>15, <1>16 DEF LogFrom

\* The transcript tells the session's turns, and makes of each answer its beliefs.
LEMMA TranscriptTells ==
  ASSUME PoolInv, SpeechInv
  PROVE  /\ Transcript.agent \cup {r.turn : r \in Transcript.user} = ToSet(turns)
         /\ UNION {r.accepted \cup r.blocked : r \in Transcript.user} = pool \cup blocked
<1>1. /\ Transcript.agent = {turns[n] : n \in AgentTurns}
      /\ Transcript.user = {UserRecord(n) : n \in UserTurns}
  BY DEF Transcript
<1>2. \A n : /\ UserRecord(n).turn = turns[n]
             /\ UserRecord(n).accepted = {c \in pool : c.turn = n - 1}
             /\ UserRecord(n).blocked = {c \in blocked : c.turn = n - 1}
  BY DEF UserRecord
<1>3. {r.turn : r \in Transcript.user} = {turns[n] : n \in UserTurns}
  BY <1>1, <1>2
<1>4. AgentTurns \cup UserTurns = DOMAIN turns
  BY DEF AgentTurns, UserTurns
<1>5. ASSUME NEW c \in pool \cup blocked PROVE \E n \in UserTurns : c.turn = n - 1
  <2>1. PICK S : turns \in Seq(S)
    BY DEF PoolInv, BothSequences
  <2>2. c.turn \in 0..(Len(turns) - 1) /\ turns[c.turn + 1].kind = "answer"
    BY DEF PoolInv, Past, SpeechInv, FromAnswers
  <2>3. PICK n : n = c.turn + 1
    OBVIOUS
  <2>4. n \in DOMAIN turns /\ turns[n].kind = "answer" /\ c.turn = n - 1
    BY <2>1, <2>2, <2>3
  <2> QED
    BY <2>4 DEF UserTurns
<1>6. UNION {r.accepted \cup r.blocked : r \in Transcript.user} = pool \cup blocked
  <2>1. ASSUME NEW c, c \in UNION {r.accepted \cup r.blocked : r \in Transcript.user}
        PROVE  c \in pool \cup blocked
    BY <1>1, <1>2, <2>1
  <2>2. ASSUME NEW c \in pool \cup blocked
        PROVE  c \in UNION {r.accepted \cup r.blocked : r \in Transcript.user}
    <3>1. PICK n \in UserTurns : c.turn = n - 1
      BY <1>5
    <3>2. c \in UserRecord(n).accepted \cup UserRecord(n).blocked
      BY <1>2, <3>1
    <3>3. UserRecord(n) \in Transcript.user
      BY <1>1
    <3> QED
      BY <3>2, <3>3
  <2> QED
    BY <2>1, <2>2
<1> QED
  BY <1>1, <1>3, <1>4, <1>6 DEF ToSet

\* A session that is done with its agenda has spoken about all of it.
LEMMA AllCovered ==
  ASSUME AgendaInv, why = "agenda"
  PROVE  Transcript.covered = DOMAIN Agenda
<1>1. item = Len(Agenda) /\ turns # <<>>
  BY DEF AgendaInv, LeftWhenDone
<1>2. {turns[n].item : n \in OfKind("agenda")} = 1..item /\ \A n \in DOMAIN turns : turns[n].item \in 1..item
  BY <1>1 DEF AgendaInv, AskedSoFar
<1>3. OfKind("agenda") \subseteq AgentTurns /\ AgentTurns \subseteq DOMAIN turns
  BY DEF OfKind, AgentTurns
<1>4. Transcript.covered = {turns[n].item : n \in AgentTurns}
  BY DEF Transcript
<1>5. {turns[n].item : n \in AgentTurns} = 1..item
  BY <1>2, <1>3
<1> QED
  BY <1>1, <1>4, <1>5, AgendaFacts

\* All that holds of a session.
SpeechFacts == PoolInv /\ Listed /\ UndetectedInv /\ AgendaInv /\ SpeechInv /\ Untold /\ RepeatInv

LEMMA SpeechFactsAlways == Spec => []SpeechFacts
<1>1. Init => SpeechFacts
  <2>1. Init => Untold
    BY DEF Init, Untold
  <2> QED
    BY <2>1, PoolInit, ListedInit, UndetectedInit, AgendaInit, SpeechInit, RepeatInit DEF SpeechFacts
<1>2. SpeechFacts /\ [Next]_vars => SpeechFacts'
  BY PoolStep, ListedStep, UndetectedStep, AgendaStep, SpeechStep, UntoldStep, RepeatStep DEF SpeechFacts
<1> QED
  BY <1>1, <1>2, PTL DEF Spec

\* A replay that comes to its end is the script's and nothing else's, however
\* often it was killed or refused before: turns, beliefs and counts of its
\* transcript are those of the log (interview/replay.py).
THEOREM ReplayAlwaysRepeats == Spec => []ReplayRepeats
<1>1. SpeechFacts => ReplayRepeats
  <2> SUFFICES ASSUME SpeechFacts, driver = "replay", pc = "done"
               PROVE  LET spoken == OfType(log, {"session.turn"})
                          told == Transcript.agent \cup {r.turn : r \in Transcript.user}
                      IN  /\ ~failed /\ told \subseteq spoken
                          /\ \A t \in spoken \ told : t.said = "bare" /\ t.index = 0
                          /\ KnownClaims(log) = UNION {r.accepted \cup r.blocked : r \in Transcript.user}
                          /\ Transcript.accepted + Transcript.blocked = Cardinality(KnownClaims(log))
                          /\ Transcript.stop = "no_answer" => Transcript.consumed = Len(Script)
                          /\ Transcript.stop = "agenda" => Transcript.covered = DOMAIN Agenda
    BY DEF ReplayRepeats
  <2>1. /\ ~failed /\ ToSet(turns) \subseteq OfType(log, {"session.turn"})
        /\ \A t \in OfType(log, {"session.turn"}) : t \in ToSet(turns) \/ (t.said = "bare" /\ t.index = 0)
        /\ KnownClaims(log) = pool \cup blocked
    BY DoneRepeats DEF SpeechFacts
  <2>2. /\ Transcript.agent \cup {r.turn : r \in Transcript.user} = ToSet(turns)
        /\ UNION {r.accepted \cup r.blocked : r \in Transcript.user} = pool \cup blocked
    BY TranscriptTells DEF SpeechFacts
  <2>3. Transcript.accepted + Transcript.blocked = Cardinality(KnownClaims(log))
    <3>1. IsFiniteSet(pool) /\ IsFiniteSet(blocked) /\ pool \cap blocked = {}
      BY DEF SpeechFacts, Listed, SpeechInv, PoolInv, Separate
    <3>2. Cardinality(pool \cup blocked) = Cardinality(pool) + Cardinality(blocked) - Cardinality(pool \cap blocked)
      BY <3>1, FS_Union
    <3>3. Cardinality(pool) \in Nat /\ Cardinality(blocked) \in Nat /\ Cardinality(pool \cap blocked) = 0
      BY <3>1, FS_CardinalityType, FS_EmptySet
    <3>4. Transcript.accepted = Cardinality(pool) /\ Transcript.blocked = Cardinality(blocked)
      BY DEF Transcript
    <3> QED
      BY <2>1, <3>2, <3>3, <3>4
  <2>4. Transcript.stop = "no_answer" => Transcript.consumed = Len(Script)
    <3>1. Transcript.stop = why /\ Transcript.consumed = Cardinality(UserTurns)
      BY DEF Transcript
    <3> QED
      BY <3>1 DEF SpeechFacts, SpeechInv, ScriptOver
  <2>5. Transcript.stop = "agenda" => Transcript.covered = DOMAIN Agenda
    <3>1. Transcript.stop = why
      BY DEF Transcript
    <3> QED
      BY <3>1, AllCovered DEF SpeechFacts
  <2> HIDE DEF Transcript
  <2> QED
    BY <2>1, <2>2, <2>3, <2>4, <2>5
<1> QED
  BY <1>1, SpeechFactsAlways, PTL

-----------------------------------------------------------------------------
(* What is approved.                                                       *)

\* A decision of the approval.
Commit(c, t) == [type |-> "claim.committed", at |-> t, h |-> 0, claim |-> c]

Detected ==
  \A i \in DOMAIN Agenda : Agenda[i].row # NoRow =>
    [type |-> "contradiction.detected", at |-> -1, h |-> 0, row |-> Agenda[i].row] \in log

\* Every decision commits, at the approval's instant, a claim asserted before it.
DecidedAt(T) ==
  \A e \in OfType(log, DecisionTypes) :
    /\ e = Commit(e.claim, T)
    /\ \E a \in OfType(log, {"claim.asserted"}) : a.claim = e.claim /\ a.at \in Int /\ a.at < T

\* Every resolution is of a row that an answer was given to, and the answer's claim
\* is committed.
AnsweredAt(T) ==
  \A r \in OfType(log, {"contradiction.resolved"}) :
    \E t \in OfType(log, {"session.turn"}) :
      t.kind = "answer" /\ Agenda[t.item].row = r.row /\ Commit(AnswerClaim(t.index + 1), T) \in log

\* The approvals of the session's beliefs, and all that an approval appends.
BeliefsOf(t) ==
  UNION {Approval(c, {}, t, 8 * Len(turns) + 3 * (MaxBeliefs * c.turn + c.n)) : c \in pool \cup blocked}

Full(t) == Answering \cup Ratifying(t) \cup BeliefsOf(t)

\* While the session is approved: the log holds what is not queued.
Queued(T) ==
  /\ driver = "replay" /\ turns # <<>> /\ T = turns[Len(turns)].at + 1
  /\ ToSet(turns) \subseteq OfType(log, {"session.turn"})
  /\ \A e \in OfType(log, {"claim.asserted"}) : e.at \in Int /\ e.at < T
  /\ KnownClaims(log) \subseteq pool \cup blocked \cup {AnswerClaim(n) : n \in Claimed}
  /\ asked = UNION {Retires(n) : n \in Claimed}
  /\ Claimed = {} => queue = {}
  /\ Claimed # {} => queue \subseteq Full(T) /\ \A x \in Full(T) : x \in queue \/ x.event \in log
  /\ pc = "approved" => queue = {}

ApprovalOf(T) ==
  /\ DecidedAt(T) /\ AnsweredAt(T)
  /\ pc \in {"approving", "approved"} => Queued(T)
  /\ pc \notin {"approving", "approved", "killed"} => OfType(log, DecisionTypes) = {}

ApprovalInv == Detected /\ \E T \in Int : ApprovalOf(T)

LEMMA EventFields ==
  ASSUME NEW c, NEW t
  PROVE  /\ Commit(c, t).type = "claim.committed" /\ Commit(c, t).at = t /\ Commit(c, t).h = 0
         /\ Commit(c, t).claim = c
         /\ Asserted(c, t).type = "claim.asserted" /\ Asserted(c, t).at = t /\ Asserted(c, t).claim = c
BY DEF Commit, Asserted

\* What an approval appends, and that it commits its claim before the rest.
PartOf(x, c, rows, t, place) ==
  \/ x.place = place /\ x.event = Commit(c, t)
  \/ x.event.type = "claim.visibility_set"
  \/ \E k \in rows : /\ x.place = place + 2
                     /\ x.event = [type |-> "contradiction.resolved", at |-> t, h |-> 0, row |-> k]

LEMMA ApprovalParts ==
  ASSUME NEW c, NEW rows, NEW t, NEW place, NEW x, x \in Approval(c, rows, t, place)
  PROVE  PartOf(x, c, rows, t, place)
BY DEF Approval, Commit, PartOf

LEMMA CommitQueued ==
  ASSUME NEW c, NEW rows, NEW t, NEW place
  PROVE  \E x \in Approval(c, rows, t, place) : x.place = place /\ x.event = Commit(c, t)
<1>1. PICK x : x = [place |-> place, event |-> Commit(c, t)]
  OBVIOUS
<1>2. x \in Approval(c, rows, t, place)
  BY <1>1 DEF Approval, Commit
<1> QED
  BY <1>1, <1>2

LEMMA ResolutionQueued ==
  ASSUME NEW c, NEW rows, NEW t, NEW place, NEW k \in rows
  PROVE  \E x \in Approval(c, rows, t, place) :
           x.event = [type |-> "contradiction.resolved", at |-> t, h |-> 0, row |-> k]
<1>1. PICK x : x = [place |-> place + 2,
                    event |-> [type |-> "contradiction.resolved", at |-> t, h |-> 0, row |-> k]]
  OBVIOUS
<1>2. x \in Approval(c, rows, t, place)
  BY <1>1 DEF Approval
<1> QED
  BY <1>1, <1>2

\* Where an entry of the queue comes from.
LEMMA FullParts ==
  ASSUME NEW t, NEW x \in Full(t)
  PROVE  \/ \E n \in Claimed : x.event = Asserted(AnswerClaim(n), turns[n].at)
         \/ \E n \in Claimed : x \in Approval(AnswerClaim(n), Retires(n), t, 4 * Len(turns) + 3 * n)
         \/ \E c \in pool \cup blocked : \E place : x \in Approval(c, {}, t, place)
<1>1. CASE x \in Answering
  BY <1>1 DEF Answering
<1>2. CASE x \in Ratifying(t)
  BY <1>2 DEF Ratifying
<1>3. CASE x \in BeliefsOf(t)
  BY <1>3 DEF BeliefsOf
<1> QED
  BY <1>1, <1>2, <1>3 DEF Full

LEMMA AnswerQueued ==
  ASSUME NEW n \in Claimed, NEW t
  PROVE  \E x \in Full(t) : x.place = n /\ x.event = Asserted(AnswerClaim(n), turns[n].at)
<1>1. PICK x : x = [place |-> n, event |-> Asserted(AnswerClaim(n), turns[n].at)]
  OBVIOUS
<1>2. x \in Answering
  BY <1>1 DEF Answering
<1> QED
  BY <1>1, <1>2 DEF Full

\* What neither decides nor resolves leaves what was decided.
LEMMA DecidedKept ==
  ASSUME Detected, NEW T, DecidedAt(T), AnsweredAt(T), NEW X, log' = log \cup X,
         \A e \in X : e.type \notin {"claim.committed", "claim.rejected", "contradiction.resolved"}
  PROVE  /\ Detected' /\ DecidedAt(T)' /\ AnsweredAt(T)'
         /\ OfType(log, DecisionTypes)' = OfType(log, DecisionTypes)
<1>1. OfType(log', DecisionTypes) = OfType(log, DecisionTypes)
  BY DEF OfType, DecisionTypes
<1>2. OfType(log', {"contradiction.resolved"}) = OfType(log, {"contradiction.resolved"})
  BY DEF OfType
<1>3. /\ OfType(log, {"claim.asserted"}) \subseteq OfType(log', {"claim.asserted"})
      /\ OfType(log, {"session.turn"}) \subseteq OfType(log', {"session.turn"})
      /\ log \subseteq log'
  BY DEF OfType
<1>4. Detected'
  BY <1>3 DEF Detected
<1>5. DecidedAt(T)'
  BY <1>1, <1>3 DEF DecidedAt
<1>6. AnsweredAt(T)'
  BY <1>2, <1>3 DEF AnsweredAt, AnswerClaim
<1> QED
  BY <1>1, <1>4, <1>5, <1>6

\* Only an approval decides or resolves.
LEMMA StepAppends ==
  ASSUME [Next]_vars, ~AppendNext
  PROVE  \E X : /\ log' = log \cup X
                /\ \A e \in X : e.type \notin {"claim.committed", "claim.rejected", "contradiction.resolved"}
<1>1. ASSUME NEW e, log' = log \cup {e},
             e.type \notin {"claim.committed", "claim.rejected", "contradiction.resolved"}
      PROVE  \E X : /\ log' = log \cup X
                    /\ \A x \in X : x.type \notin {"claim.committed", "claim.rejected", "contradiction.resolved"}
  <2>1. PICK X : X = {e}
    OBVIOUS
  <2> QED
    BY <1>1, <2>1
<1>2. CASE UNCHANGED log
  <2>1. PICK X : X = {}
    OBVIOUS
  <2> QED
    BY <1>2, <2>1
<1>3. CASE Speak \/ \E b \in Answers : Observe(b)
  <2>1. PICK t, what : AppendTurn(t, what)
    BY <1>3 DEF Speak, Observe
  <2>2. PICK e : log' = log \cup {e} /\ e.type = "session.turn"
    BY <2>1, TurnLogged
  <2> QED
    BY <1>1, <2>2
<1>4. CASE Open
  <2>1. PICK t : log' = log \cup {[type |-> "session.opened", at |-> t, h |-> 0]}
    BY <1>4 DEF Open
  <2>2. PICK e : e = [type |-> "session.opened", at |-> t, h |-> 0]
    OBVIOUS
  <2> QED
    BY <1>1, <2>1, <2>2
<1>5. CASE Close
  <2>1. PICK t : log' = log \cup {[type |-> "session.closed", at |-> t, h |-> 0]}
    BY <1>5 DEF Close
  <2>2. PICK e : e = [type |-> "session.closed", at |-> t, h |-> 0]
    OBVIOUS
  <2> QED
    BY <1>1, <2>1, <2>2
<1>6. CASE AssertBelief
  <2>1. PICK e : e = Asserted(Head(todo), last)
    OBVIOUS
  <2>2. e.type = "claim.asserted" /\ log' = log \cup {e}
    BY <1>6, <2>1, EventFields DEF AssertBelief
  <2> QED
    BY <1>1, <2>2
<1>7. CASE Backoff \/ Work \/ Stop \/ Extract \/ Crash \/ Detect \/ Plan \/ FollowUp \/ UNCHANGED vars
  BY <1>2, <1>7 DEF Backoff, Work, Stop, Extract, Crash, Detect, Plan, FollowUp, vars
<1>8. CASE Approve \/ Kill \/ Rerun
  BY <1>2, <1>8 DEF Approve, Kill, Rerun
<1> QED
  BY <1>3, <1>4, <1>5, <1>6, <1>7, <1>8 DEF Next

\* Without a decision in the log every claim is pending.
LEMMA NothingDecided ==
  ASSUME OfType(log, DecisionTypes) = {}, NEW c
  PROVE  Tier(log, c) = "pending"
<1>1. Decisions(log, c) = {}
  BY DEF Decisions, EffectiveOn
<1> QED
  BY <1>1, Zenon DEF Tier, DecidedAs

LEMMA ApproveQueues ==
  ASSUME SpeechFacts, ApprovalInv, Approve
  PROVE  ApprovalInv'
<1>1. /\ pc = "done" /\ driver = "replay" /\ pc' = "approving"
      /\ UNCHANGED <<driver, log, turns, pool, blocked>>
      /\ asked' = UNION {Retires(n) : n \in Claimed}
  BY DEF Approve, sessionVars
<1>2. PICK T : T = turns[Len(turns)].at + 1
  OBVIOUS
<1>3. queue' = IF Claimed = {} THEN {} ELSE Answering \cup Ratifying(T) \cup Beliefs(T)
  BY <1>2 DEF Approve, ApprovalInstants
<1>4. /\ ToSet(turns) \subseteq OfType(log, {"session.turn"})
      /\ KnownClaims(log) = pool \cup blocked
      /\ \A e \in OfType(log, {"claim.asserted"}) : e.at \in Int /\ e.at <= turns[Len(turns)].at
      /\ turns # <<>>
  BY <1>1, DoneRepeats DEF SpeechFacts
<1>5. turns[Len(turns)].at \in Nat
  <2>1. PICK S : turns \in Seq(S)
    BY DEF SpeechFacts, PoolInv, BothSequences
  <2>2. Len(turns) \in DOMAIN turns
    BY <1>4, <2>1
  <2> QED
    BY <2>2 DEF SpeechFacts, SpeechInv, TurnsTold
<1>6. OfType(log, DecisionTypes) = {}
  BY <1>1 DEF ApprovalInv, ApprovalOf
<1>7. OfType(log, {"contradiction.resolved"}) = {}
  <2>1. PICK U \in Int : ApprovalOf(U)
    BY DEF ApprovalInv
  <2> SUFFICES ASSUME NEW r \in OfType(log, {"contradiction.resolved"}) PROVE FALSE
    OBVIOUS
  <2>2. PICK t : Commit(AnswerClaim(t.index + 1), U) \in log
    BY <2>1 DEF ApprovalOf, AnsweredAt
  <2>3. Commit(AnswerClaim(t.index + 1), U) \in OfType(log, DecisionTypes)
    BY <2>2, EventFields DEF OfType, DecisionTypes
  <2> QED
    BY <1>6, <2>3
<1>8. {d \in KnownClaims(log) : d.n > 0 /\ Tier(log, d) = "pending"} = pool \cup blocked
  <2>1. \A d \in pool \cup blocked : d.n > 0
    BY DEF SpeechFacts, UndetectedInv, KnownBeliefs
  <2> QED
    BY <1>4, <1>6, <2>1, NothingDecided
<1>9. Beliefs(T) = BeliefsOf(T)
  BY <1>8 DEF Beliefs, BeliefsOf
<1>10. /\ Claimed' = Claimed /\ Full(T)' = Full(T)
       /\ \A n : AnswerClaim(n)' = AnswerClaim(n) /\ Retires(n)' = Retires(n)
  <2>1. Claimed' = Claimed
    BY <1>1 DEF Claimed
  <2>2. \A n : Retires(n)' = Retires(n)
    BY <1>1, <2>1 DEF Retires
  <2>3. Answering' = Answering /\ Ratifying(T)' = Ratifying(T) /\ BeliefsOf(T)' = BeliefsOf(T)
    BY <1>1, <2>1, <2>2, Zenon DEF Answering, Ratifying, BeliefsOf
  <2> QED
    BY <2>1, <2>2, <2>3 DEF Full, AnswerClaim
<1>11. Claimed # {} => queue' = Full(T)
  BY <1>3, <1>9 DEF Full
<1>12. Queued(T)'
  <2>1. \A e \in OfType(log, {"claim.asserted"}) : e.at \in Int /\ e.at < T
    BY <1>2, <1>4, <1>5
  <2>2. asked' = UNION {Retires(n)' : n \in Claimed'}
    BY <1>1, <1>10
  <2>3. Claimed = {} => queue' = {}
    BY <1>3
  <2> QED
    BY <1>1, <1>2, <1>4, <1>10, <1>11, <2>1, <2>2, <2>3 DEF Queued
<1>13. DecidedAt(T)' /\ AnsweredAt(T)' /\ Detected'
  <2>1. Detected'
    BY <1>1 DEF ApprovalInv, Detected
  <2> QED
    BY <1>1, <1>6, <1>7, <2>1 DEF DecidedAt, AnsweredAt
<1>14. T \in Int
  BY <1>2, <1>5
<1> QED
  BY <1>1, <1>12, <1>13, <1>14 DEF ApprovalInv, ApprovalOf

LEMMA CommitAppended ==
  ASSUME Detected, NEW T, DecidedAt(T), AnsweredAt(T), NEW c, log' = log \cup {Commit(c, T)},
         \E a \in OfType(log, {"claim.asserted"}) : a.claim = c /\ a.at \in Int /\ a.at < T
  PROVE  Detected' /\ DecidedAt(T)' /\ AnsweredAt(T)'
<1>1. PICK e : e = Commit(c, T)
  OBVIOUS
<1>2. e.type = "claim.committed" /\ e.claim = c /\ log' = log \cup {e}
  BY <1>1, EventFields
<1>3. /\ OfType(log', {"claim.asserted"}) = OfType(log, {"claim.asserted"})
      /\ OfType(log', {"session.turn"}) = OfType(log, {"session.turn"})
      /\ OfType(log', {"contradiction.resolved"}) = OfType(log, {"contradiction.resolved"})
      /\ OfType(log', DecisionTypes) = OfType(log, DecisionTypes) \cup {e}
  BY <1>2 DEF OfType, DecisionTypes
<1>4. Detected'
  BY <1>2 DEF Detected
<1>5. DecidedAt(T)'
  BY <1>1, <1>2, <1>3 DEF DecidedAt
<1>6. AnsweredAt(T)'
  BY <1>2, <1>3 DEF AnsweredAt, AnswerClaim
<1> QED
  BY <1>4, <1>5, <1>6

LEMMA ResolutionAppended ==
  ASSUME Detected, NEW T, DecidedAt(T), AnsweredAt(T), NEW e, log' = log \cup {e},
         e.type = "contradiction.resolved",
         \E t \in OfType(log, {"session.turn"}) :
           t.kind = "answer" /\ Agenda[t.item].row = e.row /\ Commit(AnswerClaim(t.index + 1), T) \in log
  PROVE  Detected' /\ DecidedAt(T)' /\ AnsweredAt(T)'
<1>1. /\ OfType(log', {"claim.asserted"}) = OfType(log, {"claim.asserted"})
      /\ OfType(log', {"session.turn"}) = OfType(log, {"session.turn"})
      /\ OfType(log', {"contradiction.resolved"}) = OfType(log, {"contradiction.resolved"}) \cup {e}
      /\ OfType(log', DecisionTypes) = OfType(log, DecisionTypes)
  BY DEF OfType, DecisionTypes
<1>2. Detected'
  BY DEF Detected
<1>3. DecidedAt(T)'
  BY <1>1 DEF DecidedAt
<1>4. AnsweredAt(T)'
  BY <1>1 DEF AnsweredAt, AnswerClaim
<1> QED
  BY <1>2, <1>3, <1>4

\* An approval leaves the session as it is.
LEMMA SessionStands ==
  ASSUME UNCHANGED <<turns, pool, blocked>>, NEW T
  PROVE  /\ Claimed' = Claimed /\ Full(T)' = Full(T)
         /\ \A n : AnswerClaim(n)' = AnswerClaim(n) /\ Retires(n)' = Retires(n)
<1>1. Claimed' = Claimed
  BY DEF Claimed
<1>2. \A n : Retires(n)' = Retires(n)
  BY <1>1 DEF Retires
<1>3. Answering' = Answering /\ Ratifying(T)' = Ratifying(T) /\ BeliefsOf(T)' = BeliefsOf(T)
  BY <1>1, <1>2, Zenon DEF Answering, Ratifying, BeliefsOf
<1> QED
  BY <1>1, <1>2, <1>3 DEF Full, AnswerClaim

LEMMA QueuedKept ==
  ASSUME NEW T, Queued(T), NEW x \in queue, log' = log \cup {x.event}, queue' = queue \ {x},
         UNCHANGED <<driver, turns, pool, blocked, asked>>, pc' # "approved",
         x.event.type = "claim.asserted" =>
           /\ x.event.at \in Int /\ x.event.at < T
           /\ x.event.claim \in {AnswerClaim(n) : n \in Claimed}
  PROVE  Queued(T)'
<1>1. /\ Claimed' = Claimed /\ Full(T)' = Full(T)
      /\ \A n : AnswerClaim(n)' = AnswerClaim(n) /\ Retires(n)' = Retires(n)
  BY SessionStands
<1>2. PICK e : e = x.event
  OBVIOUS
<1>3. log' = log \cup {e}
  BY <1>2
<1>4. ToSet(turns)' \subseteq OfType(log, {"session.turn"})'
  BY <1>3 DEF Queued, OfType
<1>5. \A d \in OfType(log', {"claim.asserted"}) : d.at \in Int /\ d.at < T
  <2>1. \A d \in OfType(log', {"claim.asserted"}) : d \in OfType(log, {"claim.asserted"}) \/ (d = e /\ e.type = "claim.asserted")
    BY <1>3 DEF OfType
  <2> QED
    BY <1>2, <2>1 DEF Queued
<1>6. KnownClaims(log') \subseteq pool \cup blocked \cup {AnswerClaim(n) : n \in Claimed}
  <2>1. KnownClaims(log') = KnownClaims(log) \cup (IF e.type = "claim.asserted" THEN {e.claim} ELSE {})
    BY <1>3, KnownAppended
  <2> QED
    BY <1>2, <2>1 DEF Queued
<1>7. Claimed # {}
  BY DEF Queued
<1>8. queue' \subseteq Full(T) /\ \A z \in Full(T) : z \in queue' \/ z.event \in log'
  BY <1>2, <1>3, <1>7 DEF Queued
<1>9. {AnswerClaim(n)' : n \in Claimed'} = {AnswerClaim(n) : n \in Claimed} /\ asked' = UNION {Retires(n)' : n \in Claimed'}
  BY <1>1 DEF Queued
<1> QED
  BY <1>1, <1>4, <1>5, <1>6, <1>7, <1>8, <1>9 DEF Queued

LEMMA ApproveAppends ==
  ASSUME SpeechFacts, ApprovalInv, AppendNext
  PROVE  ApprovalInv'
<1>1. PICK T \in Int : ApprovalOf(T)
  BY DEF ApprovalInv
<1>2. pc = "approving" /\ UNCHANGED <<driver, turns, pool, blocked, asked>>
  BY DEF AppendNext, sessionVars, histVars
<1>3. Detected /\ DecidedAt(T) /\ AnsweredAt(T) /\ Queued(T)
  BY <1>1, <1>2 DEF ApprovalInv, ApprovalOf
<1>4. CASE queue = {}
  <2>1. pc' = "approved" /\ UNCHANGED <<log, queue>>
    BY <1>4 DEF AppendNext
  <2>2. Detected' /\ DecidedAt(T)' /\ AnsweredAt(T)'
    BY <1>3, <2>1 DEF Detected, DecidedAt, AnsweredAt, AnswerClaim
  <2>3. /\ Claimed' = Claimed /\ Full(T)' = Full(T)
        /\ \A n : AnswerClaim(n)' = AnswerClaim(n) /\ Retires(n)' = Retires(n)
    BY <1>2, SessionStands
  <2>4. {AnswerClaim(n)' : n \in Claimed'} = {AnswerClaim(n) : n \in Claimed} /\ asked' = UNION {Retires(n)' : n \in Claimed'}
    BY <1>2, <1>3, <2>3 DEF Queued
  <2>5. Queued(T)'
    BY <1>2, <1>3, <1>4, <2>1, <2>3, <2>4 DEF Queued
  <2> QED
    BY <1>1, <2>1, <2>2, <2>5 DEF ApprovalInv, ApprovalOf
<1>5. CASE queue # {}
  <2>1. PICK x \in queue : (\A y \in queue : x.place <= y.place) /\ log' = log \cup {x.event} /\ queue' = queue \ {x}
    BY <1>5 DEF AppendNext
  <2>2. pc' = "approving"
    BY <1>2, <1>5 DEF AppendNext
  <2>3. Claimed # {} /\ x \in Full(T) /\ \A z \in Full(T) : z \in queue \/ z.event \in log
    BY <1>3, <1>5 DEF Queued
  <2>4. /\ Len(turns) \in Nat /\ DOMAIN turns = 1..Len(turns) /\ T = turns[Len(turns)].at + 1 /\ Len(turns) \in DOMAIN turns
    <3>1. PICK S : turns \in Seq(S)
      BY DEF SpeechFacts, PoolInv, BothSequences
    <3> QED
      BY <1>3, <3>1 DEF Queued
  <2>5. ASSUME NEW n \in Claimed
        PROVE  /\ n \in 1..Len(turns) /\ turns[n].at \in Int /\ turns[n].at < T /\ turns[n].index = n - 1
               /\ turns[n].kind = "answer" /\ turns[n] \in OfType(log, {"session.turn"})
    <3>1. n \in DOMAIN turns /\ turns[n].kind = "answer"
      BY DEF Claimed
    <3>2. PICK l : l = Len(turns)
      OBVIOUS
    <3>3. n \in DOMAIN turns /\ l \in DOMAIN turns /\ n <= l
      BY <2>4, <3>1, <3>2
    <3>4. /\ \A i \in DOMAIN turns : turns[i].at \in Nat /\ turns[i].index = i - 1
          /\ \A i, j \in DOMAIN turns : i <= j => turns[i].at <= turns[j].at
      BY DEF SpeechFacts, SpeechInv, TurnsTold
    <3>5. turns[n].at \in Nat /\ turns[l].at \in Nat /\ turns[n].at <= turns[l].at /\ turns[n].index = n - 1
      BY <3>3, <3>4
    <3>6. turns[n] \in OfType(log, {"session.turn"})
      BY <1>3, <3>1 DEF Queued, ToSet
    <3> QED
      BY <2>4, <3>1, <3>2, <3>5, <3>6
  <2>6. /\ \/ /\ x.event.type # "claim.asserted"
           \/ /\ x.event.at \in Int /\ x.event.at < T
              /\ x.event.claim \in {AnswerClaim(n) : n \in Claimed}
        /\ Detected' /\ DecidedAt(T)' /\ AnsweredAt(T)'
    <3> DEFINE Goal == /\ \/ /\ x.event.type # "claim.asserted"
                          \/ /\ x.event.at \in Int /\ x.event.at < T
                             /\ x.event.claim \in {AnswerClaim(n) : n \in Claimed}
                       /\ Detected' /\ DecidedAt(T)' /\ AnsweredAt(T)'
    <3>1. ASSUME NEW n \in Claimed, x.event = Asserted(AnswerClaim(n), turns[n].at) PROVE Goal
      <4>1. x.event.type = "claim.asserted" /\ x.event.claim = AnswerClaim(n) /\ x.event.at = turns[n].at
        BY <3>1, EventFields
      <4>2. PICK X : X = {x.event}
        OBVIOUS
      <4>3. log' = log \cup X /\ \A e \in X : e.type \notin {"claim.committed", "claim.rejected", "contradiction.resolved"}
        BY <2>1, <4>1, <4>2
      <4>4. Detected' /\ DecidedAt(T)' /\ AnsweredAt(T)'
        BY <1>3, <4>3, DecidedKept
      <4> QED
        BY <2>5, <4>1, <4>4
    <3>2. ASSUME x.event.type = "claim.visibility_set" PROVE Goal
      <4>1. PICK X : X = {x.event}
        OBVIOUS
      <4>2. log' = log \cup X /\ \A e \in X : e.type \notin {"claim.committed", "claim.rejected", "contradiction.resolved"}
        BY <2>1, <3>2, <4>1
      <4>3. Detected' /\ DecidedAt(T)' /\ AnsweredAt(T)'
        BY <1>3, <4>2, DecidedKept
      <4> QED
        BY <3>2, <4>3
    <3>3. ASSUME NEW n \in Claimed, x \in Approval(AnswerClaim(n), Retires(n), T, 4 * Len(turns) + 3 * n) PROVE Goal
      <4> DEFINE p == 4 * Len(turns) + 3 * n
      <4>1. CASE x.place = p /\ x.event = Commit(AnswerClaim(n), T)
        <5>1. PICK z \in Full(T) : z.place = n /\ z.event = Asserted(AnswerClaim(n), turns[n].at)
          BY AnswerQueued
        <5>2. n < p
          BY <2>4, <2>5
        <5>3. z.event \in log
          BY <2>1, <2>3, <2>5, <4>1, <5>1, <5>2
        <5>4. \E a \in OfType(log, {"claim.asserted"}) : a.claim = AnswerClaim(n) /\ a.at \in Int /\ a.at < T
          BY <2>5, <5>1, <5>3, EventFields DEF OfType
        <5>5. Detected' /\ DecidedAt(T)' /\ AnsweredAt(T)'
          BY <1>3, <2>1, <4>1, <5>4, CommitAppended
        <5>6. x.event.type # "claim.asserted"
          BY <4>1, EventFields
        <5> QED
          BY <5>5, <5>6
      <4>2. ASSUME NEW k \in Retires(n), x.place = p + 2,
                   x.event = [type |-> "contradiction.resolved", at |-> T, h |-> 0, row |-> k]
            PROVE  Goal
        <5>1. PICK z \in Approval(AnswerClaim(n), Retires(n), T, p) : z.place = p /\ z.event = Commit(AnswerClaim(n), T)
          BY CommitQueued
        <5>2. z \in Full(T)
          BY <5>1 DEF Full, Ratifying
        <5>3. p \in Nat /\ p < p + 2
          <6>1. ASSUME NEW l \in Nat, NEW i \in 1..l PROVE 4 * l + 3 * i \in Nat /\ 4 * l + 3 * i < 4 * l + 3 * i + 2
            OBVIOUS
          <6> QED
            BY <2>4, <2>5, <6>1
        <5>4. z.event \in log
          BY <2>1, <2>3, <4>2, <5>1, <5>2, <5>3
        <5>5. Agenda[turns[n].item].row = k
          BY DEF Retires
        <5>6. Commit(AnswerClaim(turns[n].index + 1), T) \in log
          <6>1. turns[n].index + 1 = n
            BY <2>5
          <6> QED
            BY <5>1, <5>4, <6>1
        <5>7. PICK e : e = x.event
          OBVIOUS
        <5>8. e.type = "contradiction.resolved" /\ e.row = k /\ log' = log \cup {e}
          BY <2>1, <4>2, <5>7
        <5>9. \E t \in OfType(log, {"session.turn"}) :
                t.kind = "answer" /\ Agenda[t.item].row = e.row /\ Commit(AnswerClaim(t.index + 1), T) \in log
          BY <2>5, <5>5, <5>6, <5>8
        <5>10. Detected' /\ DecidedAt(T)' /\ AnsweredAt(T)'
          BY <1>3, <5>8, <5>9, ResolutionAppended
        <5> QED
          BY <5>7, <5>8, <5>10
      <4>3. \/ x.place = p /\ x.event = Commit(AnswerClaim(n), T)
            \/ x.event.type = "claim.visibility_set"
            \/ \E k \in Retires(n) : /\ x.place = p + 2
                                    /\ x.event = [type |-> "contradiction.resolved", at |-> T, h |-> 0, row |-> k]
        <5>1. PartOf(x, AnswerClaim(n), Retires(n), T, p)
          BY <3>3, ApprovalParts, Zenon
        <5> HIDE DEF p
        <5> QED
          BY <5>1 DEF PartOf
      <4> HIDE DEF Goal, p
      <4> QED
        BY <3>2, <4>1, <4>2, <4>3
    <3>4. ASSUME NEW c \in pool \cup blocked, NEW place, x \in Approval(c, {}, T, place) PROVE Goal
      <4>1. CASE x.event = Commit(c, T)
        <5>1. c \in KnownClaims(log)
          BY DEF SpeechFacts, UndetectedInv, KnownBeliefs
        <5>2. \E a \in OfType(log, {"claim.asserted"}) : a.claim = c /\ a.at \in Int /\ a.at < T
          BY <1>3, <5>1 DEF KnownClaims, Queued
        <5>3. Detected' /\ DecidedAt(T)' /\ AnsweredAt(T)'
          BY <1>3, <2>1, <4>1, <5>2, CommitAppended
        <5>4. x.event.type # "claim.asserted"
          BY <4>1, EventFields
        <5> QED
          BY <5>3, <5>4
      <4>2. x.event = Commit(c, T) \/ x.event.type = "claim.visibility_set"
        <5>1. PartOf(x, c, {}, T, place)
          BY <3>4, ApprovalParts, Zenon
        <5> QED
          BY <5>1 DEF PartOf
      <4> HIDE DEF Goal
      <4> QED
        BY <3>2, <4>1, <4>2
    <3> HIDE DEF Goal
    <3>5. Goal
      BY <2>3, <3>1, <3>3, <3>4, FullParts
    <3> QED
      BY <3>5 DEF Goal
  <2>7. Queued(T)'
    BY <1>2, <1>3, <2>1, <2>2, <2>6, QueuedKept
  <2> QED
    BY <1>1, <2>2, <2>6, <2>7 DEF ApprovalInv, ApprovalOf
<1> QED
  BY <1>4, <1>5

LEMMA ApprovalInit == Init => ApprovalInv
<1> SUFFICES ASSUME Init PROVE ApprovalInv
  OBVIOUS
<1>1. log = {[type |-> "contradiction.detected", at |-> -1, h |-> 0, row |-> Agenda[i].row] :
               i \in {j \in DOMAIN Agenda : Agenda[j].row # NoRow}}
  BY DEF Init
<1>2. Detected
  BY <1>1 DEF Detected
<1>3. \A e \in log : e.type = "contradiction.detected"
  BY <1>1
<1>4. OfType(log, DecisionTypes) = {} /\ OfType(log, {"contradiction.resolved"}) = {}
  BY <1>3 DEF OfType, DecisionTypes
<1>5. pc = "start"
  BY DEF Init
<1>6. ApprovalOf(0)
  BY <1>4, <1>5 DEF ApprovalOf, DecidedAt, AnsweredAt
<1> QED
  BY <1>2, <1>6 DEF ApprovalInv

LEMMA ApprovalStep == SpeechFacts /\ ApprovalInv /\ [Next]_vars => ApprovalInv'
<1> SUFFICES ASSUME SpeechFacts, ApprovalInv, [Next]_vars PROVE ApprovalInv'
  OBVIOUS
<1>1. CASE Approve
  BY <1>1, ApproveQueues
<1>2. CASE AppendNext
  BY <1>2, ApproveAppends
<1>3. CASE ~Approve /\ ~AppendNext
  <2>1. PICK T \in Int : ApprovalOf(T)
    BY DEF ApprovalInv
  <2>2. PICK X : /\ log' = log \cup X
                 /\ \A e \in X : e.type \notin {"claim.committed", "claim.rejected", "contradiction.resolved"}
    BY <1>3, StepAppends
  <2>3. Detected /\ DecidedAt(T) /\ AnsweredAt(T)
    BY <2>1 DEF ApprovalInv, ApprovalOf
  <2>4. /\ Detected' /\ DecidedAt(T)' /\ AnsweredAt(T)'
        /\ OfType(log, DecisionTypes)' = OfType(log, DecisionTypes)
    BY <2>2, <2>3, DecidedKept
  <2>5. CASE UNCHANGED vars
    <3>1. UNCHANGED <<pc, driver, log, turns, pool, blocked, queue, asked>>
      BY <2>5 DEF vars, sessionVars, histVars
    <3>2. /\ Claimed' = Claimed /\ Full(T)' = Full(T)
          /\ \A n : AnswerClaim(n)' = AnswerClaim(n) /\ Retires(n)' = Retires(n)
      BY <3>1, SessionStands
    <3>3. ASSUME Queued(T) PROVE Queued(T)'
      <4>1. /\ {AnswerClaim(n)' : n \in Claimed'} = {AnswerClaim(n) : n \in Claimed}
            /\ UNION {Retires(n)' : n \in Claimed'} = UNION {Retires(n) : n \in Claimed}
        BY <3>2
      <4> QED
        BY <3>1, <3>2, <3>3, <4>1 DEF Queued
    <3> QED
      BY <2>1, <2>4, <3>1, <3>3 DEF ApprovalInv, ApprovalOf
  <2>6. CASE ~UNCHANGED vars
    <3>1. Next
      BY <2>6
    <3>2. pc' \notin {"approving", "approved"}
      BY <1>3, <3>1 DEF Next, Backoff, Open, Work, Speak, Stop, Observe, Extract, Crash, AssertBelief, Accept, Detect,
                        Plan, FollowUp, MoveOn, PlanItem, Checked, Close, Kill, Rerun, Fresh
    <3>3. CASE Rerun
      BY <2>1, <2>4, <3>2, <3>3 DEF Rerun, ApprovalInv, ApprovalOf
    <3>4. CASE ~Rerun
      <4>1. pc \notin {"approving", "approved", "killed"} \/ pc' = "killed"
        <5>1. Backoff \/ Open \/ Work \/ Speak => pc \in {"start", "work", "extract", "detect", "followup", "speak"}
          BY DEF Backoff, Open, Work, Speak
        <5>3. Stop => pc = "wait"
          BY DEF Stop
        <5>4. \A a \in Answers : Observe(a) => pc = "wait"
          BY DEF Observe
        <5>2. Extract \/ Crash \/ AssertBelief \/ Close => pc \notin {"approving", "approved", "killed"}
          BY DEF Extract, Crash, AssertBelief, Close
        <5>5. Detect \/ Plan \/ FollowUp => pc \notin {"approving", "approved", "killed"}
          BY DEF Detect, Plan, FollowUp
        <5>6. Kill => pc' = "killed"
          BY DEF Kill, Fresh
        <5> QED
          BY <1>3, <3>1, <3>4, <5>1, <5>2, <5>3, <5>4, <5>5, <5>6 DEF Next
      <4> QED
        BY <2>1, <2>4, <3>2, <4>1 DEF ApprovalInv, ApprovalOf
    <3> QED
      BY <3>3, <3>4
  <2> QED
    BY <2>5, <2>6
<1> QED
  BY <1>1, <1>2, <1>3

\* A commit in the log takes effect.
LEMMA CommitCounts ==
  ASSUME NEW T \in Int, DecidedAt(T), NEW c, Commit(c, T) \in log
  PROVE  c \in Committed(log)
<1>1. PICK e : e = Commit(c, T)
  OBVIOUS
<1>2. e \in log /\ e.type = "claim.committed" /\ e.claim = c /\ e.at = T
  BY <1>1, EventFields
<1>3. e \in OfType(log, DecisionTypes)
  BY <1>2 DEF OfType, DecisionTypes
<1>4. PICK a \in OfType(log, {"claim.asserted"}) : a.claim = c /\ a.at \in Int /\ a.at < T
  BY <1>2, <1>3 DEF DecidedAt
<1>5. Before(a, e)
  BY <1>2, <1>4 DEF Before
<1>6. e \in Decisions(log, c)
  BY <1>2, <1>3, <1>4, <1>5 DEF Decisions, EffectiveOn
<1>7. \A f \in Decisions(log, c) : f = e
  <2> SUFFICES ASSUME NEW f \in Decisions(log, c) PROVE f = e
    OBVIOUS
  <2>1. f \in OfType(log, DecisionTypes) /\ f.claim = c
    BY DEF Decisions, EffectiveOn
  <2>2. f = Commit(f.claim, T)
    BY <2>1 DEF DecidedAt
  <2> QED
    BY <1>1, <2>1, <2>2
<1>8. DecidedAs(log, c, "claim.committed") /\ ~DecidedAs(log, c, "claim.rejected")
  BY <1>2, <1>6, <1>7 DEF DecidedAs, IsLatest
<1>9. Tier(log, c) = "committed"
  BY <1>8 DEF Tier
<1>10. c \in KnownClaims(log)
  BY <1>4 DEF KnownClaims
<1> QED
  BY <1>9, <1>10 DEF Committed

\* When the approval is done, all it was to append is in the log.
LEMMA ApprovedAll ==
  ASSUME SpeechFacts, Detected, NEW T \in Int, DecidedAt(T), Queued(T), pc = "approved", Claimed # {}
  PROVE  KnownClaims(log) = Committed(log) /\ asked \subseteq Resolved(log)
<1>1. \A x \in Full(T) : x.event \in log
  BY DEF Queued
<1>2. ASSUME NEW c \in KnownClaims(log) PROVE c \in Committed(log)
  <2>1. CASE c \in pool \cup blocked
    <3>1. PICK place : place = 8 * Len(turns) + 3 * (MaxBeliefs * c.turn + c.n)
      OBVIOUS
    <3>2. PICK x \in Approval(c, {}, T, place) : x.event = Commit(c, T)
      BY CommitQueued
    <3>3. x \in Full(T)
      BY <2>1, <3>1, <3>2 DEF Full, BeliefsOf
    <3> QED
      BY <1>1, <3>2, <3>3, CommitCounts
  <2>2. CASE \E n \in Claimed : c = AnswerClaim(n)
    <3>1. PICK n \in Claimed : c = AnswerClaim(n)
      BY <2>2
    <3>2. PICK place : place = 4 * Len(turns) + 3 * n
      OBVIOUS
    <3>3. PICK x \in Approval(AnswerClaim(n), Retires(n), T, place) : x.event = Commit(AnswerClaim(n), T)
      BY CommitQueued
    <3>4. x \in Full(T)
      BY <3>2, <3>3 DEF Full, Ratifying
    <3> QED
      BY <1>1, <3>1, <3>3, <3>4, CommitCounts
  <2> QED
    BY <2>1, <2>2 DEF Queued
<1>3. ASSUME NEW k \in asked PROVE k \in Resolved(log)
  <2>1. PICK n \in Claimed : k \in Retires(n)
    BY DEF Queued
  <2>2. PICK place : place = 4 * Len(turns) + 3 * n
    OBVIOUS
  <2>3. PICK x \in Approval(AnswerClaim(n), Retires(n), T, place) :
          x.event = [type |-> "contradiction.resolved", at |-> T, h |-> 0, row |-> k]
    BY <2>1, ResolutionQueued
  <2>4. x \in Full(T)
    BY <2>2, <2>3 DEF Full, Ratifying
  <2>5. PICK r \in log : r.type = "contradiction.resolved" /\ r.at = T /\ r.row = k
    BY <1>1, <2>3, <2>4
  <2>6. k = Agenda[turns[n].item].row /\ k # NoRow
    BY <2>1 DEF Retires
  <2>7. turns[n].item \in DOMAIN Agenda
    <3>1. n \in DOMAIN turns
      BY DEF Claimed
    <3>2. item \in DOMAIN Agenda /\ turns[n].item \in 1..item
      BY <3>1 DEF SpeechFacts, AgendaInv, AskedSoFar
    <3> QED
      BY <3>2, AgendaFacts
  <2>8. PICK d \in log : d.type = "contradiction.detected" /\ d.at = -1 /\ d.row = k
    BY <2>6, <2>7 DEF Detected
  <2>9. T > -1
    <3>1. PICK S : turns \in Seq(S)
      BY DEF SpeechFacts, PoolInv, BothSequences
    <3>2. Len(turns) \in DOMAIN turns /\ T = turns[Len(turns)].at + 1
      BY <3>1 DEF Queued
    <3>3. turns[Len(turns)].at \in Nat
      BY <3>2 DEF SpeechFacts, SpeechInv, TurnsTold
    <3> QED
      BY <3>2, <3>3
  <2>10. Before(d, r)
    BY <2>5, <2>8, <2>9 DEF Before
  <2>11. k \in Rows(log)
    BY <2>8 DEF Rows, OfType
  <2> QED
    BY <2>5, <2>8, <2>10, <2>11 DEF Resolved, OfType
<1>4. Committed(log) \subseteq KnownClaims(log)
  BY DEF Committed
<1> QED
  BY <1>2, <1>3, <1>4

\* Whatever was said and wherever the approval is interrupted, no disagreement is
\* retired whose answer is not committed; and when the demo has approved, all of
\* the session is (cli.py, stage_approval).
THEOREM ApprovalAlwaysTakesEffect == Spec => []ApprovedTakesEffect
<1>1. SpeechFacts /\ ApprovalInv => ApprovedTakesEffect
  <2> SUFFICES ASSUME SpeechFacts, ApprovalInv PROVE ApprovedTakesEffect
    OBVIOUS
  <2>1. PICK T \in Int : ApprovalOf(T)
    BY DEF ApprovalInv
  <2>2. Detected /\ DecidedAt(T) /\ AnsweredAt(T) /\ (pc \in {"approving", "approved"} => Queued(T))
    BY <2>1 DEF ApprovalInv, ApprovalOf
  <2>3. pc = "approved" /\ Claimed # {} => KnownClaims(log) = Committed(log) /\ asked \subseteq Resolved(log)
    BY <2>2, ApprovedAll
  <2>4. ASSUME NEW k \in Resolved(log)
        PROVE  \E t \in OfType(log, {"session.turn"}) :
                 /\ t.kind = "answer" /\ Agenda[t.item].row = k
                 /\ AnswerClaim(t.index + 1) \in Committed(log)
    <3>1. PICK r \in OfType(log, {"contradiction.resolved"}) : r.row = k
      BY DEF Resolved
    <3>2. PICK t \in OfType(log, {"session.turn"}) :
            t.kind = "answer" /\ Agenda[t.item].row = k /\ Commit(AnswerClaim(t.index + 1), T) \in log
      BY <2>2, <3>1 DEF AnsweredAt
    <3> QED
      BY <2>2, <3>2, CommitCounts
  <2> QED
    BY <2>3, <2>4 DEF ApprovedTakesEffect
<1> QED
  BY <1>1, SpeechFactsAlways, ApprovalInit, ApprovalStep, PTL DEF Spec
=============================================================================
