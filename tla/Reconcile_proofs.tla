--------------------------- MODULE Reconcile_proofs ---------------------------
(***************************************************************************)
(* For any number of claims, executions and days: the Job's types, that no *)
(* pair of claims slips between two examinations, that no finding is lost  *)
(* or left out of tonight's report, and what it proposes and to whom.      *)
(***************************************************************************)
EXTENDS Reconcile, FiniteSetTheorems, TLAPS

-----------------------------------------------------------------------------
(* What an append, a snapshot and a prompt contain.                        *)

LEMMA AppendedBounds ==
  ASSUME NEW e
  PROVE  log \subseteq Appended(e) /\ Appended(e) \subseteq log \cup {e}
  BY DEF Appended

LEMMA AskedInPool ==
  ASSUME NEW x, NEW c
  PROVE  Asked(x, c) \subseteq Retrievable(events[x]) \ {c}
  BY DEF Asked, Submitted, Gated, Block

LEMMA RetrievableIsKnown ==
  ASSUME NEW S
  PROVE  Retrievable(S) \subseteq KnownClaims(S)
  BY DEF Retrievable

LEMMA EmptyLog == Retrievable({}) = {}
  BY DEF Retrievable, KnownClaims, OfType

LEMMA KnownGrows ==
  ASSUME NEW S, NEW T, S \subseteq T
  PROVE  KnownClaims(S) \subseteq KnownClaims(T)
  BY DEF KnownClaims, OfType

\* A claim that is known and that nobody rejected is in the pool.
LEMMA NeverRejectedIsRetrievable ==
  ASSUME NEW c \in KnownClaims(log), NeverRejected(c)
  PROVE  c \in Retrievable(log)
<1>1. \A e \in Decisions(log, c) : e \in log /\ e.claim = c
  BY DEF Decisions, EffectiveOn, OfType
<1>2. ~DecidedAs(log, c, "claim.rejected")
  BY <1>1 DEF DecidedAs, NeverRejected, OfType
<1> QED
  BY <1>2 DEF Retrievable

LEMMA RowsOfClaims ==
  ASSUME NEW c \in Claims, NEW d \in Claims
  PROVE  RowOf(c, d) \in AllRows
  BY DEF RowOf, AllRows

LEMMA OpenAreRows ==
  ASSUME NEW S
  PROVE  OpenRows(S) \subseteq Rows(S)
  BY DEF OpenRows

LogTypes == KnownClaims(log) \subseteq Claims /\ Rows(log) \subseteq AllRows

\* Appending an event that names a claim and a row of the right types.
LEMMA AppendKeepsTypes ==
  ASSUME NEW e, LogTypes,
         e.type = "claim.asserted" => e.claim \in Claims,
         e.type = "contradiction.detected" => e.row \in AllRows
  PROVE  /\ log \subseteq Appended(e)
         /\ KnownClaims(Appended(e)) \subseteq Claims
         /\ Rows(Appended(e)) \subseteq AllRows
<1> DEFINE L == Appended(e)
<1>1. log \subseteq L /\ L \subseteq log \cup {e}
  BY AppendedBounds
<1> HIDE DEF L
<1>2. KnownClaims(L) \subseteq Claims /\ Rows(L) \subseteq AllRows
  BY <1>1 DEF LogTypes, KnownClaims, Rows, OfType
<1> QED
  BY <1>1, <1>2 DEF L

-----------------------------------------------------------------------------
(* Every step leaves the log alone or appends one event.                   *)

LEMMA LogStep ==
  ASSUME TypeOK, [Next]_vars
  PROVE  log \subseteq log' /\ LogTypes'
<1> LogTypes
  BY DEF TypeOK, LogTypes
<1>1. ASSUME NEW x \in Executions, NEW row \in left[x], Record(x, row)
      PROVE  log \subseteq log' /\ LogTypes'
  <2>1. log' = Appended(DetectedEvent(x, row))
    BY <1>1 DEF Record
  <2>2. /\ DetectedEvent(x, row).type = "contradiction.detected"
        /\ DetectedEvent(x, row).row \in AllRows
    BY <1>1 DEF DetectedEvent, TypeOK
  <2> QED
    BY <2>1, <2>2, AppendKeepsTypes DEF LogTypes
<1>2. ASSUME NEW x \in Executions, Adjudicate(x)
      PROVE  log \subseteq log' /\ LogTypes'
  <2>1. log' = Appended(AdjudicatedEvent(x))
    BY <1>2 DEF Adjudicate
  <2>2. AdjudicatedEvent(x).type = "claim.adjudicated"
    BY DEF AdjudicatedEvent
  <2> QED
    BY <2>1, <2>2, AppendKeepsTypes DEF LogTypes
<1>3. ASSUME NEW x \in Executions, Heartbeat(x)
      PROVE  log \subseteq log' /\ LogTypes'
  <2>1. log' = Appended(HeartbeatEvent(x))
    BY <1>3 DEF Heartbeat
  <2>2. HeartbeatEvent(x).type = "heartbeat"
    BY DEF HeartbeatEvent
  <2> QED
    BY <2>1, <2>2, AppendKeepsTypes DEF LogTypes
<1>4. ASSUME NEW x \in Executions, Propose(x)
      PROVE  log \subseteq log' /\ LogTypes'
  <2>1. PICK agenda : log' = Appended(ProposedEvent(x, agenda))
    BY <1>4 DEF Propose
  <2>2. ProposedEvent(x, agenda).type = "session.proposed"
    BY DEF ProposedEvent
  <2> QED
    BY <2>1, <2>2, AppendKeepsTypes DEF LogTypes
<1>5. ASSUME NEW c \in Claims, AssertClaim(c)
      PROVE  log \subseteq log' /\ LogTypes'
  <2> DEFINE e == [type |-> "claim.asserted", at |-> Attr[c].observed, h |-> 0,
                   sched |-> FALSE, claim |-> c]
  <2>1. log' = Appended(e)
    BY <1>5 DEF AssertClaim
  <2>2. e.type = "claim.asserted" /\ e.claim \in Claims
    OBVIOUS
  <2> HIDE DEF e
  <2> QED
    BY <2>1, <2>2, AppendKeepsTypes DEF LogTypes
<1>6. ASSUME NEW e, Act(e), e.type \notin {"claim.asserted", "contradiction.detected"}
      PROVE  log \subseteq log' /\ LogTypes'
  BY <1>6, AppendKeepsTypes DEF Act, LogTypes
<1>7. ASSUME NEW c \in Claims, NEW type \in DecisionTypes, Decide(c, type)
      PROVE  log \subseteq log' /\ LogTypes'
  BY <1>7, <1>6 DEF Decide, DecisionTypes
<1>8. ASSUME NEW row \in OpenRows(log), Resolve(row)
      PROVE  log \subseteq log' /\ LogTypes'
  BY <1>8, <1>6 DEF Resolve
<1>9. ASSUME NEW edge \in Edges, Link(edge)
      PROVE  log \subseteq log' /\ LogTypes'
  BY <1>9, <1>6 DEF Link
<1>10. ASSUME log' = log
       PROVE  log \subseteq log' /\ LogTypes'
  BY <1>10 DEF LogTypes
<1>11. ASSUME NEW x \in Executions,
              \/ \E trigger \in Triggers, m \in Modes : Start(x, trigger, m)
              \/ \E c \in todo[x] : Examine(x, c) \/ ExamineFails(x, c)
              \/ Snapshot(x) \/ Reread(x) \/ Mail(x) \/ InitiateFails(x) \/ Die(x)
       PROVE  log' = log
  BY <1>11 DEF Start, Examine, ExamineFails, Snapshot, Reread, Mail, InitiateFails, Die
<1>12. NextDay \/ UNCHANGED vars => log' = log
  BY DEF NextDay, vars
<1> QED
  BY <1>1, <1>2, <1>3, <1>4, <1>5, <1>7, <1>8, <1>9, <1>10, <1>11, <1>12 DEF Next, Step

-----------------------------------------------------------------------------
(* Type correctness.                                                       *)

LEMMA DaysAreNat ==
  ASSUME NEW n \in Nat
  PROVE  n \div DayLen \in Nat
  BY ReconcileAssumption

\* Claims, rows, runs, and what each execution read and recorded stay within
\* their types, for every set of claims, executions and identity edges.
THEOREM TypeCorrect == Spec => []TypeOK
<1>1. Init => TypeOK
  <2> SUFFICES ASSUME Init
               PROVE  TypeOK
    OBVIOUS
  <2>1. KnownClaims(log) = {} /\ Rows(log) = {}
    BY DEF Init, KnownClaims, Rows, OfType
  <2>2. now \in Nat
    BY ReconcileAssumption DEF Init, Midnight
  <2> QED
    BY <2>1, <2>2, ReconcileAssumption DEF Init, TypeOK, PCs, NoAnswer
<1>2. TypeOK /\ [Next]_vars => TypeOK'
  <2> SUFFICES ASSUME TypeOK, [Next]_vars
               PROVE  TypeOK'
    OBVIOUS
  <2>0. /\ log \subseteq log'
        /\ KnownClaims(log') \subseteq Claims
        /\ Rows(log') \subseteq AllRows
    BY LogStep DEF LogTypes
  <2> USE DEF TypeOK, PCs, jobVars, runVars, examVars, histVars, Go
  <2>1. ASSUME NEW x \in Executions, NEW trigger \in Triggers, NEW m \in Modes,
               Start(x, trigger, m)
        PROVE  TypeOK'
    <3>1. Today \in 0..LastDay
      BY <2>1, ReconcileAssumption DEF Start, Days
    <3>2. Retrievable(log) \subseteq Claims
      BY RetrievableIsKnown
    <3>3. m \in {"stub", "real"}
      BY ReconcileAssumption
    <3>4. sched' \in [Executions -> BOOLEAN]
      <4>1. (trigger = "cloud-scheduler") \in BOOLEAN
        OBVIOUS
      <4>2. sched' = [sched EXCEPT ![x] = (trigger = "cloud-scheduler")]
        BY <2>1 DEF Start
      <4> QED
        BY <4>1, <4>2
    <3>5. events' \in [Executions -> SUBSET log'] /\ todo' \in [Executions -> SUBSET Claims]
      <4>1. CASE m = "stub"
        BY <2>1, <2>0, <4>1 DEF Start
      <4>2. CASE m # "stub"
        <5>1. /\ events' = [events EXCEPT ![x] = log]
              /\ todo' = [todo EXCEPT ![x] = Retrievable(log) \ Adjudicated(log)]
              /\ log' = log
          BY <2>1, <4>2 DEF Start
        <5>2. Retrievable(log) \ Adjudicated(log) \in SUBSET Claims
          BY <3>2
        <5> QED
          BY <5>1, <5>2
      <4> QED
        BY <4>1, <4>2
    <3> QED
      BY <2>1, <2>0, <3>1, <3>3, <3>4, <3>5 DEF Start
  <2>2. ASSUME NEW x \in Executions, NEW c \in todo[x], ExamineFails(x, c)
        PROVE  TypeOK'
    BY <2>2, <2>0 DEF ExamineFails
  <2>3. ASSUME NEW x \in Executions, NEW c \in todo[x], Examine(x, c)
        PROVE  TypeOK'
    <3>1. Asked(x, c) \subseteq Claims
      BY AskedInPool, RetrievableIsKnown, KnownGrows
    <3>2. PICK named \in SUBSET Asked(x, c), parsed \in BOOLEAN :
            LET rows == {RowOf(c, d) : d \in named}
            IN  /\ answer' = [answer EXCEPT ![x] = [parsed |-> parsed, rows |-> rows]]
                /\ left' = [left EXCEPT ![x] = rows]
      BY <2>3 DEF Examine
    <3>3. {RowOf(c, d) : d \in named} \subseteq AllRows
      BY <3>1, RowsOfClaims
    <3> QED
      BY <2>3, <2>0, <3>2, <3>3 DEF Examine
  <2>4. ASSUME NEW x \in Executions, NEW row \in left[x], Record(x, row)
        PROVE  TypeOK'
    BY <2>4, <2>0 DEF Record
  <2>5. ASSUME NEW x \in Executions, Adjudicate(x)
        PROVE  TypeOK'
    <3>1. Retrievable(events[x]) \subseteq Claims
      BY RetrievableIsKnown, KnownGrows
    <3>2. Asked(x, claim[x]) \subseteq Claims
      BY <3>1, AskedInPool
    <3>3. Exam(x) \in [by : Executions, claim : Claims, pool : SUBSET Claims,
                       asked : SUBSET Claims, parsed : BOOLEAN, found : SUBSET AllRows]
      BY <2>5, <3>1, <3>2 DEF Adjudicate, Exam
    <3> QED
      BY <2>5, <2>0, <3>3 DEF Adjudicate, ForgetClaim, NoAnswer
  <2>6. ASSUME NEW x \in Executions, Heartbeat(x)
        PROVE  TypeOK'
    BY <2>6, <2>0 DEF Heartbeat
  <2>7. ASSUME NEW x \in Executions, Snapshot(x)
        PROVE  TypeOK'
    <3>1. OpenRows(log) \subseteq AllRows
      BY OpenAreRows
    <3>2. LastNight(x) \subseteq AllRows
      <4> DEFINE Prefix == {e \in events[x] : \E heartbeat \in PriorRun(x) : e.at <= heartbeat.at}
      <4>1. Rows(Prefix) \subseteq Rows(log)
        BY DEF Rows, OfType
      <4> HIDE DEF Prefix
      <4>2. OpenRows(Prefix) \subseteq AllRows
        BY <4>1, OpenAreRows
      <4> QED
        BY <4>2 DEF LastNight, Prefix
    <3>3. (PriorRun(x) # {}) \in BOOLEAN
      OBVIOUS
    <3>4. ledgers' \subseteq [run : 0..LastDay, rows : SUBSET AllRows,
                              compared : BOOLEAN, before : SUBSET AllRows]
      <4> DEFINE night == [run |-> run[x], rows |-> OpenRows(log),
                           compared |-> PriorRun(x) # {}, before |-> LastNight(x)]
      <4>1. night \in [run : 0..LastDay, rows : SUBSET AllRows,
                        compared : BOOLEAN, before : SUBSET AllRows]
        BY <3>1, <3>2, <3>3
      <4>2. ledgers' = ledgers \cup {night}
        BY <2>7 DEF Snapshot
      <4> HIDE DEF night
      <4> QED
        BY <4>1, <4>2
    <3> QED
      BY <2>7, <2>0, <3>4 DEF Snapshot
  <2>8. ASSUME NEW x \in Executions, Reread(x)
        PROVE  TypeOK'
    BY <2>8, <2>0 DEF Reread
  <2>9. ASSUME NEW x \in Executions, Propose(x)
        PROVE  TypeOK'
    BY <2>9, <2>0 DEF Propose
  <2>10. ASSUME NEW x \in Executions, NEW as \in {"done", "dead"}, End(x, as),
                UNCHANGED <<log, now, exams, ledgers>>,
                mailed' = mailed \/ mailed' = mailed \cup {run[x]}
         PROVE  TypeOK'
    BY <2>10, <2>0 DEF End, ForgetClaim, NoAnswer
  <2>11. ASSUME NEW x \in Executions, Mail(x) \/ InitiateFails(x) \/ Die(x)
         PROVE  TypeOK'
    BY <2>11, <2>10 DEF Mail, InitiateFails, Die
  <2>12. ASSUME UNCHANGED <<jobVars, histVars>>, now' \in Nat
         PROVE  TypeOK'
    BY <2>12, <2>0
  <2>13. ASSUME NEW e, Act(e)
         PROVE  TypeOK'
    BY <2>13, <2>12 DEF Act
  <2>14. ASSUME NEW c \in Claims,
                AssertClaim(c) \/ \E type \in DecisionTypes : Decide(c, type)
         PROVE  TypeOK'
    BY <2>14, <2>12, <2>13 DEF AssertClaim, Decide
  <2>15. ASSUME \/ \E row \in OpenRows(log) : Resolve(row)
                \/ \E edge \in Edges : Link(edge)
         PROVE  TypeOK'
    BY <2>15, <2>13 DEF Resolve, Link
  <2>16. CASE NextDay
    <3>1. now' \in Nat
      <4>1. Today \in Nat
        <5>1. now \in Nat
          OBVIOUS
        <5> HIDE DEF TypeOK
        <5> QED
          BY <5>1, DaysAreNat DEF Today
      <4>2. \A a, b \in Nat : (a + 1) * b \in Nat
        OBVIOUS
      <4> QED
        BY <2>16, <4>1, <4>2, ReconcileAssumption DEF NextDay, Midnight
    <3> QED
      BY <2>16, <3>1, <2>12 DEF NextDay
  <2>17. CASE UNCHANGED vars
    BY <2>17, <2>12 DEF vars
  <2> QED
    BY <2>1, <2>2, <2>3, <2>4, <2>5, <2>6, <2>7, <2>8, <2>9, <2>11, <2>14, <2>15,
       <2>16, <2>17 DEF Next, Step
<1> QED
  BY <1>1, <1>2, PTL DEF Spec

-----------------------------------------------------------------------------
(* No pair of claims slips between two examinations.                       *)
(*                                                                         *)
(* Executions read parts of one growing log, so of any two pools, what is  *)
(* never rejected in one is in the other.  An examination's own claim is   *)
(* in its pool; hence of two examined claims one is in the other's pool.   *)

\* The pools executions hold, and those of the examinations they recorded.
Views == {ex.pool : ex \in exams} \cup {Retrievable(events[x]) : x \in Executions}

Kept(P) == {c \in P : NeverRejected(c)}

ViewsAreNested ==
  /\ \A P \in Views : P \subseteq KnownClaims(log)
  /\ \A P, Q \in Views : Kept(P) \subseteq Q \/ Kept(Q) \subseteq P

\* What an execution works through is the pool it read.
Worklist ==
  \A x \in Executions :
    /\ pc[x] = "idle" => todo[x] = {}
    /\ pc[x] \in {"examine", "record"} => todo[x] \subseteq Retrievable(events[x])
    /\ pc[x] = "record" => claim[x] \in todo[x]

ExamsRecorded ==
  /\ \A ex \in exams : ex.claim \in ex.pool
  /\ Adjudicated(log) \subseteq {ex.claim : ex \in exams}

PairInv == Worklist /\ ExamsRecorded /\ ViewsAreNested

\* The invariant gives the property.
LEMMA PairInvSuffices == PairInv => EveryPairCompared
<1> SUFFICES ASSUME PairInv,
                    NEW c \in Adjudicated(log), NEW d \in Adjudicated(log),
                    NeverRejected(c), NeverRejected(d)
             PROVE  \E ex \in exams : \/ ex.claim = c /\ d \in ex.pool
                                      \/ ex.claim = d /\ c \in ex.pool
  BY DEF EveryPairCompared
<1>1. PICK ec \in exams : ec.claim = c /\ c \in ec.pool
  BY DEF PairInv, ExamsRecorded
<1>2. PICK ed \in exams : ed.claim = d /\ d \in ed.pool
  BY DEF PairInv, ExamsRecorded
<1>3. Kept(ec.pool) \subseteq ed.pool \/ Kept(ed.pool) \subseteq ec.pool
  BY DEF PairInv, ViewsAreNested, Views
<1> QED
  BY <1>1, <1>2, <1>3 DEF Kept

LEMMA AppendOther ==
  ASSUME NEW e, e.type # "claim.adjudicated"
  PROVE  Adjudicated(Appended(e)) \subseteq Adjudicated(log)
<1> DEFINE L == Appended(e)
<1>1. L \subseteq log \cup {e}
  BY AppendedBounds
<1> HIDE DEF L
<1>2. Adjudicated(L) \subseteq Adjudicated(log)
  BY <1>1 DEF Adjudicated, OfType
<1> QED
  BY <1>2 DEF L

\* What a step does to the logs that were read and to the examinations.
LEMMA StepEffects ==
  ASSUME TypeOK, [Next]_vars
  PROVE  /\ \A y \in Executions : events'[y] \in {events[y], log, {}}
         /\ \/ exams' = exams /\ Adjudicated(log') \subseteq Adjudicated(log)
            \/ \E x \in Executions : Adjudicate(x)
<1> DEFINE Reads == \A y \in Executions : events'[y] \in {events[y], log, {}}
<1> DEFINE Exams == exams' = exams /\ Adjudicated(log') \subseteq Adjudicated(log)
<1> USE DEF TypeOK, jobVars, runVars, examVars, histVars
<1>1. ASSUME NEW x \in Executions,
             \/ \E trigger \in Triggers, m \in Modes : Start(x, trigger, m)
             \/ \E c \in todo[x] : Examine(x, c) \/ ExamineFails(x, c)
             \/ Snapshot(x) \/ Reread(x) \/ Mail(x) \/ InitiateFails(x) \/ Die(x)
      PROVE  Reads /\ Exams
  <2>1. log' = log /\ exams' = exams
    BY <1>1 DEF Start, Examine, ExamineFails, Snapshot, Reread, Mail, InitiateFails, Die
  <2>2. Reads
    BY <1>1 DEF Start, Examine, ExamineFails, Snapshot, Reread, Mail, InitiateFails, Die, End
  <2> QED
    BY <2>1, <2>2
<1>2. ASSUME NEW x \in Executions, NEW row \in left[x], Record(x, row)
      PROVE  Reads /\ Exams
  BY <1>2, AppendOther DEF Record, DetectedEvent
<1>3. ASSUME NEW x \in Executions, Adjudicate(x)
      PROVE  Reads
  BY <1>3 DEF Adjudicate
<1>4. ASSUME NEW x \in Executions, Heartbeat(x)
      PROVE  Reads /\ Exams
  BY <1>4, AppendOther DEF Heartbeat, HeartbeatEvent
<1>5. ASSUME NEW x \in Executions, Propose(x)
      PROVE  Reads /\ Exams
  BY <1>5, AppendOther DEF Propose, ProposedEvent
<1>6. ASSUME NEW c \in Claims, AssertClaim(c)
      PROVE  Reads /\ Exams
  BY <1>6, AppendOther DEF AssertClaim
<1>7. ASSUME NEW e, Act(e), e.type # "claim.adjudicated"
      PROVE  Reads /\ Exams
  BY <1>7, AppendOther DEF Act
<1>8. ASSUME NEW c \in Claims, NEW type \in DecisionTypes, Decide(c, type)
      PROVE  Reads /\ Exams
  BY <1>8, <1>7 DEF Decide, DecisionTypes
<1>9. ASSUME NEW row \in OpenRows(log), Resolve(row)
      PROVE  Reads /\ Exams
  BY <1>9, <1>7 DEF Resolve
<1>10. ASSUME NEW edge \in Edges, Link(edge)
       PROVE  Reads /\ Exams
  BY <1>10, <1>7 DEF Link
<1>11. NextDay \/ UNCHANGED vars => Reads /\ Exams
  BY DEF NextDay, vars
<1> HIDE DEF Reads, Exams
<1>12. Reads /\ (Exams \/ \E x \in Executions : Adjudicate(x))
  BY <1>1, <1>2, <1>3, <1>4, <1>5, <1>6, <1>8, <1>9, <1>10, <1>11 DEF Next, Step
<1> QED
  BY <1>12 DEF Reads, Exams

\* Each execution goes on working through the pool it read.
LEMMA WorklistStep ==
  ASSUME TypeOK, Worklist, [Next]_vars
  PROVE  Worklist'
<1> USE DEF TypeOK, Worklist, jobVars, runVars, examVars, histVars, Go
<1>1. ASSUME NEW x \in Executions, NEW trigger \in Triggers, NEW m \in Modes,
             Start(x, trigger, m)
      PROVE  Worklist'
  BY <1>1 DEF Start
<1>2. ASSUME NEW x \in Executions, NEW c \in todo[x], Examine(x, c) \/ ExamineFails(x, c)
      PROVE  Worklist'
  BY <1>2 DEF Examine, ExamineFails
<1>3. ASSUME NEW x \in Executions,
             \/ \E row \in left[x] : Record(x, row)
             \/ Adjudicate(x)
      PROVE  Worklist'
  BY <1>3 DEF Record, Adjudicate, ForgetClaim
<1>4. ASSUME NEW x \in Executions,
             Heartbeat(x) \/ Snapshot(x) \/ Reread(x) \/ Propose(x)
      PROVE  Worklist'
  BY <1>4 DEF Heartbeat, Snapshot, Reread, Propose
<1>5. ASSUME NEW x \in Executions, Mail(x) \/ InitiateFails(x) \/ Die(x)
      PROVE  Worklist'
  BY <1>5 DEF Mail, InitiateFails, Die, End, ForgetClaim
<1>6. ASSUME UNCHANGED jobVars
      PROVE  Worklist'
  BY <1>6
<1>7. ASSUME \/ \E c \in Claims :
                  AssertClaim(c) \/ \E type \in DecisionTypes : Decide(c, type)
             \/ \E row \in OpenRows(log) : Resolve(row)
             \/ \E edge \in Edges : Link(edge)
             \/ NextDay
             \/ UNCHANGED vars
      PROVE  Worklist'
  <2>1. UNCHANGED jobVars
    BY <1>7 DEF AssertClaim, Decide, Resolve, Link, Act, NextDay, vars
  <2> QED
    BY <2>1, <1>6
<1> QED
  BY <1>1, <1>2, <1>3, <1>4, <1>5, <1>7 DEF Next, Step

\* A recorded examination is of a claim of its own pool.
LEMMA ExamsStep ==
  ASSUME TypeOK, Worklist, ExamsRecorded, [Next]_vars
  PROVE  ExamsRecorded'
<1>1. CASE exams' = exams /\ Adjudicated(log') \subseteq Adjudicated(log)
  BY <1>1 DEF ExamsRecorded
<1>2. CASE \E x \in Executions : Adjudicate(x)
  <2>1. PICK x \in Executions : Adjudicate(x)
    BY <1>2
  <2>2. log' \subseteq log \cup {AdjudicatedEvent(x)} /\ exams' = exams \cup {Exam(x)}
    BY <2>1, AppendedBounds DEF Adjudicate
  <2>3. AdjudicatedEvent(x).claim = claim[x]
    BY DEF AdjudicatedEvent
  <2>4. Exam(x).claim = claim[x] /\ Exam(x).pool = Retrievable(events[x])
    BY DEF Exam
  <2>5. claim[x] \in Retrievable(events[x])
    BY <2>1 DEF Adjudicate, Worklist
  <2>6. Adjudicated(log') \subseteq Adjudicated(log) \cup {claim[x]}
    BY <2>2, <2>3 DEF Adjudicated, OfType
  <2> QED
    BY <2>2, <2>4, <2>5, <2>6 DEF ExamsRecorded
<1> QED
  BY <1>1, <1>2, StepEffects

\* Pools stay nested: a new one is that of the whole log, or empty.
LEMMA ViewsStep ==
  ASSUME TypeOK, ViewsAreNested, [Next]_vars
  PROVE  ViewsAreNested'
<1>1. log \subseteq log'
  BY LogStep
<1>2. KnownClaims(log) \subseteq KnownClaims(log')
  BY <1>1, KnownGrows
<1>3. \A c : NeverRejected(c)' => NeverRejected(c)
  BY <1>1 DEF NeverRejected, OfType
<1>4. \A y \in Executions :
        Retrievable(events'[y]) \in {Retrievable(events[y]), Retrievable(log), {}}
  BY StepEffects, EmptyLog
<1>5. {ex.pool : ex \in exams'} \subseteq Views
  <2>1. exams' \subseteq exams \/ \E x \in Executions : exams' = exams \cup {Exam(x)}
    BY StepEffects DEF Adjudicate
  <2>2. \A x \in Executions : Exam(x).pool = Retrievable(events[x])
    BY DEF Exam
  <2> QED
    BY <2>1, <2>2 DEF Views
<1>6. Views' \subseteq Views \cup {Retrievable(log), {}}
  BY <1>4, <1>5 DEF Views
<1>7. \A P \in Views \cup {Retrievable(log), {}} : P \subseteq KnownClaims(log)
  BY RetrievableIsKnown DEF ViewsAreNested
<1>8. \A P \in Views \cup {Retrievable(log), {}} : Kept(P) \subseteq Retrievable(log)
  BY <1>7, NeverRejectedIsRetrievable DEF Kept
<1>9. \A P, Q \in Views \cup {Retrievable(log), {}} :
        Kept(P) \subseteq Q \/ Kept(Q) \subseteq P
  BY <1>8 DEF ViewsAreNested, Kept
<1>10. \A P : Kept(P)' \subseteq Kept(P)
  BY <1>3 DEF Kept
<1> QED
  BY <1>2, <1>6, <1>7, <1>9, <1>10 DEF ViewsAreNested

LEMMA InitPairs == Init => PairInv
<1> SUFFICES ASSUME Init
             PROVE  PairInv
  OBVIOUS
<1>1. Worklist /\ ExamsRecorded
  BY DEF Init, Worklist, ExamsRecorded, Adjudicated, OfType
<1>2. Views \subseteq {{}}
  BY EmptyLog DEF Init, Views
<1> QED
  BY <1>1, <1>2 DEF PairInv, ViewsAreNested, Kept

LEMMA PairStep == TypeOK /\ PairInv /\ [Next]_vars => PairInv'
  BY WorklistStep, ExamsStep, ViewsStep DEF PairInv

\* Whatever executions interleave, overlap and die, of any two claims the
\* log records as adjudicated and nobody rejected, one was examined with the
\* other in its pool.
THEOREM NoPairSlipsThrough == Spec => []EveryPairCompared
  BY InitPairs, PairStep, TypeCorrect, PairInvSuffices, PTL DEF Spec

-----------------------------------------------------------------------------
(* Nobody is kept from the model but by the cap.  While nobody links        *)
(* identities, every execution blocks alike, and so as the log does now.    *)

Linked(S) == OfType(S, {"entity.alias_linked"})

AskedAsBlocked ==
  Linked(log) = {} =>
    \A ex \in exams : ex.asked = Submitted(ex.claim, ex.pool, Aliases(log))

\* Logs without links resolve names alike.
LEMMA UnlinkedAlike ==
  ASSUME NEW S, NEW T, Linked(S) = {}, Linked(T) = {}
  PROVE  Aliases(S) = Aliases(T)
  BY DEF Aliases, Linked

LEMMA AskedStep ==
  ASSUME TypeOK, AskedAsBlocked, [Next]_vars
  PROVE  AskedAsBlocked'
<1> SUFFICES ASSUME Linked(log') = {}, NEW ex \in exams'
             PROVE  ex.asked = Submitted(ex.claim, ex.pool, Aliases(log'))
  BY DEF AskedAsBlocked
<1>1. Linked(log) = {}
  BY LogStep DEF Linked, OfType
<1>2. Aliases(log') = Aliases(log)
  BY <1>1, UnlinkedAlike
<1>3. CASE ex \in exams
  BY <1>1, <1>2, <1>3 DEF AskedAsBlocked
<1>4. CASE ex \notin exams
  <2>1. PICK x \in Executions : Adjudicate(x)
    BY <1>4, StepEffects
  <2>2. ex = Exam(x)
    BY <1>4, <2>1 DEF Adjudicate
  <2>3. Linked(events[x]) = {}
    BY <1>1 DEF TypeOK, Linked, OfType
  <2>4. Aliases(events[x]) = Aliases(log')
    BY <2>3, UnlinkedAlike
  <2> QED
    BY <2>2, <2>4 DEF Exam, Asked
<1> QED
  BY <1>3, <1>4

\* What the cap leaves out has MaxRetrieved candidates above it.
LEMMA LeftOutByCap ==
  ASSUME NEW c, NEW pool \in SUBSET Claims, NEW aliases,
         NEW d \in Gated(c, pool, aliases) \ Submitted(c, pool, aliases)
  PROVE  Cardinality(Gated(c, pool, aliases)) > MaxRetrieved
<1> DEFINE gated == Gated(c, pool, aliases)
           above == {e \in gated : RanksAbove(e, d)}
<1>1. gated \subseteq Claims
  BY DEF Gated, Block
<1>2. IsFiniteSet(gated)
  BY <1>1, DetectAssumption, FS_Subset
<1>3. ~ Cardinality(above) < MaxRetrieved
  BY DEF Submitted
<1>4. IsFiniteSet(above)
  BY <1>2, FS_Subset
<1>5. d \notin above
  BY <1>1, DetectAssumption DEF RanksAbove
<1>6. /\ IsFiniteSet(above \cup {d})
      /\ Cardinality(above \cup {d}) = Cardinality(above) + 1
  BY <1>4, <1>5, FS_AddElement
<1>7. Cardinality(above \cup {d}) <= Cardinality(gated)
  BY <1>2, FS_Subset
<1>8. Cardinality(above) \in Nat /\ Cardinality(gated) \in Nat /\ MaxRetrieved \in Nat
  BY <1>2, <1>4, FS_CardinalityType, DetectAssumption
<1> HIDE DEF gated, above
<1>9. Cardinality(gated) > MaxRetrieved
  BY <1>3, <1>6, <1>7, <1>8
<1> QED
  BY <1>9 DEF gated

LEMMA BlockedBothWays ==
  ASSUME NEW c, NEW d, NEW aliases, SharesBlock(c, d, aliases), Overlap(c, d)
  PROVE  SharesBlock(d, c, aliases) /\ Overlap(d, c)
  BY DEF SharesBlock, Overlap

LEMMA AskedSuffices == TypeOK /\ PairInv /\ AskedAsBlocked => NoPairMissed
<1> SUFFICES ASSUME TypeOK, PairInv, AskedAsBlocked, Linked(log) = {},
                    NEW c \in Adjudicated(log), NEW d \in Adjudicated(log),
                    c # d, NeverRejected(c), NeverRejected(d),
                    SharesBlock(c, d, Aliases(log)), Overlap(c, d)
             PROVE  \E ex \in exams :
                      /\ {ex.claim} \subseteq {c, d}
                      /\ \/ {c, d} \subseteq {ex.claim} \cup ex.asked
                         \/ Cardinality(Gated(ex.claim, ex.pool, Aliases(log))) > MaxRetrieved
  BY DEF NoPairMissed, Linked
<1>1. PICK ex \in exams : \/ ex.claim = c /\ d \in ex.pool
                          \/ ex.claim = d /\ c \in ex.pool
  BY PairInvSuffices DEF EveryPairCompared
<1>2. PICK other \in {c, d} : /\ {c, d} = {ex.claim, other} /\ other # ex.claim
                              /\ other \in ex.pool
  BY <1>1
<1>3. SharesBlock(ex.claim, other, Aliases(log)) /\ Overlap(ex.claim, other)
  BY <1>1, <1>2, BlockedBothWays
<1>4. other \in Gated(ex.claim, ex.pool, Aliases(log))
  BY <1>2, <1>3 DEF Gated, Block
<1>5. ex.pool \in SUBSET Claims
  BY DEF TypeOK
<1>6. ex.asked = Submitted(ex.claim, ex.pool, Aliases(log))
  BY DEF AskedAsBlocked
<1> QED
  BY <1>2, <1>4, <1>5, <1>6, LeftOutByCap

\* As long as nobody links identities, two claims that meet in a block and in
\* time are put to the model together, from one side or the other, unless that
\* side had more candidates than its prompt holds.
THEOREM OnlyTheCapLeavesOut == Spec => []NoPairMissed
<1>1. Init => PairInv /\ AskedAsBlocked
  BY InitPairs DEF Init, AskedAsBlocked
<1>2. TypeOK /\ PairInv /\ AskedAsBlocked /\ [Next]_vars => (PairInv /\ AskedAsBlocked)'
  BY PairStep, AskedStep
<1> QED
  BY <1>1, <1>2, TypeCorrect, AskedSuffices, PTL DEF Spec

-----------------------------------------------------------------------------
(* No finding is lost: an answer's rows are in the ledger or still to be   *)
(* appended, and the examination is recorded when none is left.            *)

AnswersKept ==
  \A x \in Executions : pc[x] = "record" => answer[x].rows \subseteq Rows(log) \cup left[x]

FoundKept == \A ex \in exams : ex.found \subseteq Rows(log)

FindingInv == AnswersKept /\ FoundKept

LEMMA RowsGrow ==
  ASSUME NEW S, NEW T, S \subseteq T
  PROVE  Rows(S) \subseteq Rows(T)
  BY DEF Rows, OfType

\* An append that collides finds the row in the log already.
LEMMA RowAppended ==
  ASSUME NEW x, NEW row
  PROVE  row \in Rows(Appended(DetectedEvent(x, row)))
<1> DEFINE e == DetectedEvent(x, row)
<1>1. e.type = "contradiction.detected" /\ e.row = row
  BY DEF DetectedEvent
<1>2. CASE \E f \in log : SameId(e, f)
  <2>1. PICK f \in log : SameId(e, f)
    BY <1>2
  <2>2. "type" \in DOMAIN e \ {"sched"} /\ "row" \in DOMAIN e \ {"sched"}
    BY DEF DetectedEvent
  <2>3. f.type = e.type /\ f.row = e.row
    BY <2>1, <2>2 DEF SameId
  <2> QED
    BY <1>1, <1>2, <2>3 DEF Appended, Rows, OfType
<1>3. CASE ~ \E f \in log : SameId(e, f)
  BY <1>1, <1>3 DEF Appended, Rows, OfType
<1> QED
  BY <1>2, <1>3

\* A step that records no answer leaves the answers being recorded alone.
LEMMA FindingStep ==
  ASSUME TypeOK, FindingInv, [Next]_vars
  PROVE  FindingInv'
<1>1. Rows(log) \subseteq Rows(log')
  BY LogStep, RowsGrow
<1> USE DEF TypeOK, FindingInv, AnswersKept, FoundKept, jobVars, runVars, examVars, histVars, Go
<1>2. ASSUME NEW x \in Executions, NEW row \in left[x], Record(x, row)
      PROVE  FindingInv'
  <2>1. row \in Rows(log')
    BY <1>2, RowAppended DEF Record
  <2> QED
    BY <1>1, <1>2, <2>1 DEF Record
<1>3. ASSUME NEW x \in Executions, Adjudicate(x)
      PROVE  FindingInv'
  <2>1. answer[x].rows \subseteq Rows(log)
    BY <1>3 DEF Adjudicate
  <2>2. Exam(x).found = answer[x].rows
    BY DEF Exam
  <2>3. FoundKept'
    BY <1>1, <1>3, <2>1, <2>2 DEF Adjudicate
  <2>4. AnswersKept'
    BY <1>1, <1>3 DEF Adjudicate, ForgetClaim
  <2> QED
    BY <2>3, <2>4
<1>4. ASSUME NEW x \in Executions, NEW c \in todo[x], Examine(x, c)
      PROVE  FindingInv'
  BY <1>1, <1>4 DEF Examine
<1>5. ASSUME NEW x \in Executions,
             \/ \E trigger \in Triggers, m \in Modes : Start(x, trigger, m)
             \/ \E c \in todo[x] : ExamineFails(x, c)
             \/ Heartbeat(x) \/ Snapshot(x) \/ Reread(x) \/ Propose(x)
      PROVE  FindingInv'
  BY <1>1, <1>5 DEF Start, ExamineFails, Heartbeat, Snapshot, Reread, Propose
<1>6. ASSUME NEW x \in Executions, Mail(x) \/ InitiateFails(x) \/ Die(x)
      PROVE  FindingInv'
  <2>1. CASE Mail(x)
    BY <1>1, <2>1 DEF Mail, End, ForgetClaim
  <2>2. CASE InitiateFails(x)
    BY <1>1, <2>2 DEF InitiateFails, End, ForgetClaim
  <2>3. CASE Die(x)
    BY <1>1, <2>3 DEF Die, End, ForgetClaim
  <2> QED
    BY <1>6, <2>1, <2>2, <2>3
<1>7. ASSUME \/ \E c \in Claims :
                  AssertClaim(c) \/ \E type \in DecisionTypes : Decide(c, type)
             \/ \E row \in OpenRows(log) : Resolve(row)
             \/ \E edge \in Edges : Link(edge)
             \/ NextDay
             \/ UNCHANGED vars
      PROVE  FindingInv'
  <2>1. UNCHANGED <<jobVars, histVars>>
    BY <1>7 DEF AssertClaim, Decide, Resolve, Link, Act, NextDay, vars
  <2> QED
    BY <1>1, <2>1
<1> QED
  BY <1>2, <1>3, <1>4, <1>5, <1>6, <1>7 DEF Next, Step

\* A claim recorded as adjudicated has every finding of its examination in
\* the ledger, wherever executions die and whichever appends collide.
THEOREM FindingsAreKept == Spec => []NoFindingLost
<1>1. Init => FindingInv /\ Worklist /\ ExamsRecorded
  BY DEF Init, FindingInv, AnswersKept, FoundKept, Worklist, ExamsRecorded, Adjudicated, OfType
<1>2. TypeOK /\ FindingInv /\ Worklist /\ ExamsRecorded /\ [Next]_vars
        => (FindingInv /\ Worklist /\ ExamsRecorded)'
  BY FindingStep, WorklistStep, ExamsStep
<1>3. FindingInv /\ ExamsRecorded => NoFindingLost
  BY DEF FindingInv, FoundKept, ExamsRecorded, NoFindingLost
<1> QED
  BY <1>1, <1>2, <1>3, TypeCorrect, PTL DEF Spec

-----------------------------------------------------------------------------
(* Heartbeats count nights.                                                *)

Stub(at, sch, trigger) ==
  [type |-> "heartbeat", at |-> at, h |-> 0, sched |-> sch, mode |-> "stub",
   trigger |-> trigger]

Real(at, sch) ==
  [type |-> "heartbeat", at |-> at, h |-> 0, sched |-> sch, mode |-> "real"]

IsBeat(e) == e = Stub(e.at, e.sched, e.trigger) \/ e = Real(e.at, e.sched)

\* A heartbeat holds nothing its id does not cover but the scheduled flag.
HeartbeatShape == \A e \in Heartbeats(log) : IsBeat(e)

SameBeat(e, f) ==
  e.at = f.at /\ e.mode = f.mode /\ (e.mode = "stub" => e.trigger = f.trigger)

OneOfEach ==
  \A e, f \in Heartbeats(log) :
    e.at = f.at /\ e.mode = f.mode /\ e # f => e.mode = "stub" /\ e.trigger # f.trigger

Beaten(x, L) ==
  \E e \in Heartbeats(L) :
    /\ e.at = Midnight(run[x]) /\ e.mode = mode[x]
    /\ e.mode = "stub" => e.trigger = Trigger(x)

NoneMissing == \A x \in Closed : Beaten(x, log)

LEMMA NightsAreBoth == NightsNotAttempts <=> OneOfEach /\ NoneMissing
  BY DEF NightsNotAttempts, OneOfEach, NoneMissing, Beaten

LEMMA BeatIsBeat ==
  ASSUME NEW x \in Executions, mode[x] \in {"stub", "real"}
  PROVE  /\ IsBeat(HeartbeatEvent(x))
         /\ HeartbeatEvent(x).type = "heartbeat"
         /\ HeartbeatEvent(x).at = Midnight(run[x])
         /\ HeartbeatEvent(x).mode = mode[x]
         /\ mode[x] = "stub" => HeartbeatEvent(x).trigger = Trigger(x)
<1>1. CASE mode[x] = "stub"
  <2>1. HeartbeatEvent(x) = Stub(Midnight(run[x]), sched[x], Trigger(x))
    BY <1>1 DEF HeartbeatEvent, Stub
  <2> QED
    BY <1>1, <2>1 DEF IsBeat, Stub
<1>2. CASE mode[x] = "real"
  <2>1. HeartbeatEvent(x) = Real(Midnight(run[x]), sched[x])
    BY <1>2 DEF HeartbeatEvent, Real
  <2> QED
    BY <1>2, <2>1 DEF IsBeat, Real
<1> QED
  BY <1>1, <1>2

LEMMA BeatModes ==
  /\ \A at, sch, trigger : Stub(at, sch, trigger).mode = "stub"
  /\ \A at, sch : Real(at, sch).mode = "real"
  BY DEF Stub, Real

\* The id of a heartbeat is its night, its mode and, of the stub's, who
\* started it.
LEMMA SameBeatSameId ==
  ASSUME NEW e, NEW f, IsBeat(e), IsBeat(f), SameBeat(e, f)
  PROVE  SameId(e, f)
<1>1. CASE e = Stub(e.at, e.sched, e.trigger)
  <2>1. e.mode = "stub"
    BY <1>1, BeatModes
  <2>2. f = Stub(f.at, f.sched, f.trigger)
    BY <2>1, BeatModes DEF IsBeat, SameBeat
  <2>3. f = Stub(e.at, f.sched, e.trigger)
    BY <2>1, <2>2 DEF SameBeat
  <2> DEFINE at == e.at
             s1 == e.sched
             s2 == f.sched
             trigger == e.trigger
  <2>4. e = Stub(at, s1, trigger) /\ f = Stub(at, s2, trigger)
    BY <1>1, <2>3
  <2> HIDE DEF at, s1, s2, trigger
  <2> QED
    BY <2>4 DEF SameId, Stub
<1>2. CASE e = Real(e.at, e.sched)
  <2>1. e.mode = "real"
    BY <1>2, BeatModes
  <2>2. f.mode = "real" /\ Stub(f.at, f.sched, f.trigger).mode = "stub"
    BY <2>1, BeatModes DEF SameBeat
  <2>3. f = Real(e.at, f.sched)
    BY <2>2 DEF IsBeat, SameBeat
  <2> DEFINE at == e.at
             s1 == e.sched
             s2 == f.sched
  <2>4. e = Real(at, s1) /\ f = Real(at, s2)
    BY <1>2, <2>3
  <2> HIDE DEF at, s1, s2
  <2>5. DOMAIN e = {"type", "at", "h", "sched", "mode"} /\ DOMAIN f = DOMAIN e
    BY <2>4 DEF Real
  <2>6. e.type = f.type /\ e.at = f.at /\ e.h = f.h /\ e.mode = f.mode
    BY <2>4 DEF Real
  <2> QED
    BY <2>5, <2>6 DEF SameId
<1> QED
  BY <1>1, <1>2 DEF IsBeat

LEMMA SameIdSameBeat ==
  ASSUME NEW e, NEW f, IsBeat(e), SameId(e, f)
  PROVE  f.type = "heartbeat" /\ SameBeat(e, f)
<1>1. CASE e = Stub(e.at, e.sched, e.trigger)
  <2>1. /\ {"type", "at", "mode", "trigger"} \subseteq DOMAIN e \ {"sched"}
        /\ e.type = "heartbeat"
    BY <1>1 DEF Stub
  <2> QED
    BY <2>1 DEF SameId, SameBeat
<1>2. CASE e = Real(e.at, e.sched)
  <2>1. /\ {"type", "at", "mode"} \subseteq DOMAIN e \ {"sched"}
        /\ e.type = "heartbeat" /\ e.mode = "real"
    BY <1>2 DEF Real
  <2> QED
    BY <2>1 DEF SameId, SameBeat
<1> QED
  BY <1>1, <1>2 DEF IsBeat

\* An execution that closes its night leaves its heartbeat in the log, its
\* own or the one that another wrote before it.
LEMMA HeartbeatCloses ==
  ASSUME TypeOK, HeartbeatShape, OneOfEach, NEW x \in Executions, Heartbeat(x)
  PROVE  HeartbeatShape' /\ OneOfEach' /\ Beaten(x, log')
<1> DEFINE e == HeartbeatEvent(x)
<1>1. log' = Appended(e)
  BY DEF Heartbeat
<1>2. /\ IsBeat(e) /\ e.type = "heartbeat" /\ e.at = Midnight(run[x])
      /\ e.mode = mode[x] /\ (mode[x] = "stub" => e.trigger = Trigger(x))
  BY BeatIsBeat DEF TypeOK
<1> HIDE DEF e
<1>3. CASE \E f \in log : SameId(e, f)
  <2>1. PICK f \in log : SameId(e, f)
    BY <1>3
  <2>2. log' = log
    BY <1>1, <1>3 DEF Appended
  <2>3. f \in Heartbeats(log) /\ SameBeat(e, f)
    BY <1>2, <2>1, SameIdSameBeat DEF Heartbeats, OfType
  <2>4. Beaten(x, log')
    BY <1>2, <2>2, <2>3 DEF Beaten, SameBeat
  <2> QED
    BY <2>2, <2>4 DEF HeartbeatShape, OneOfEach
<1>4. CASE ~ \E f \in log : SameId(e, f)
  <2>1. log' = log \cup {e}
    BY <1>1, <1>4 DEF Appended
  <2>2. Heartbeats(log') = Heartbeats(log) \cup {e}
    BY <1>2, <2>1 DEF Heartbeats, OfType
  <2>3. HeartbeatShape'
    BY <1>2, <2>2 DEF HeartbeatShape
  <2>4. \A f \in Heartbeats(log) : ~SameBeat(e, f)
    BY <1>2, <1>4, SameBeatSameId DEF HeartbeatShape, Heartbeats, OfType
  <2>5. \A f \in Heartbeats(log) :
          e.at = f.at /\ e.mode = f.mode => e.mode = "stub" /\ e.trigger # f.trigger
    BY <2>4 DEF SameBeat
  <2>6. OneOfEach'
    BY <2>2, <2>5 DEF OneOfEach
  <2>7. Beaten(x, log')
    BY <1>2, <2>2 DEF Beaten
  <2> QED
    BY <2>3, <2>6, <2>7
<1> QED
  BY <1>3, <1>4

Counted == HeartbeatShape /\ OneOfEach /\ NoneMissing

LEMMA HeartbeatStep ==
  ASSUME TypeOK, Counted, [Next]_vars
  PROVE  Counted'
<1> USE DEF jobVars, runVars, examVars, histVars
<1>0. Heartbeats(log) \subseteq Heartbeats(log')
  BY LogStep DEF Heartbeats, OfType
<1>1. ASSUME NEW e, e.type # "heartbeat", log' = Appended(e)
      PROVE  HeartbeatShape' /\ OneOfEach'
  <2>1. Heartbeats(log') \subseteq Heartbeats(log)
    BY <1>1, AppendedBounds DEF Heartbeats, OfType
  <2> QED
    BY <2>1 DEF Counted, HeartbeatShape, OneOfEach
\* An execution that was closed, or is at work as it was, keeps its night.
<1>2. ASSUME \A x \in Closed' : x \in Closed /\ run'[x] = run[x] /\ mode'[x] = mode[x]
                                              /\ sched'[x] = sched[x]
      PROVE  NoneMissing'
  <2> SUFFICES ASSUME NEW x \in Closed' PROVE Beaten(x, log)'
    BY DEF NoneMissing
  <2>1. Beaten(x, log)
    BY <1>2 DEF Counted, NoneMissing
  <2>2. run'[x] = run[x] /\ mode'[x] = mode[x] /\ sched'[x] = sched[x]
    BY <1>2
  <2> QED
    BY <1>0, <2>1, <2>2 DEF Beaten, Trigger, Midnight
<1>3. ASSUME NEW x \in Executions, Heartbeat(x)
      PROVE  Counted'
  <2>1. HeartbeatShape' /\ OneOfEach' /\ Beaten(x, log')
    BY <1>3, HeartbeatCloses DEF Counted
  <2>2. /\ UNCHANGED <<run, mode, sched>>
        /\ \A y \in Closed' : y = x \/ y \in Closed
    BY <1>3 DEF Heartbeat, Go, Closed, TypeOK
  <2> SUFFICES ASSUME NEW y \in Closed' PROVE Beaten(y, log)'
    BY <2>1 DEF Counted, NoneMissing
  <2>3. CASE y = x
    BY <2>1, <2>2, <2>3 DEF Beaten, Trigger, Midnight
  <2>4. CASE y \in Closed
    <3>1. Beaten(y, log)
      BY <2>4 DEF Counted, NoneMissing
    <3> QED
      BY <1>0, <2>2, <3>1 DEF Beaten, Trigger, Midnight
  <2> QED
    BY <2>2, <2>3, <2>4
<1>4. ASSUME NEW x \in Executions,
             \/ \E row \in left[x] : Record(x, row)
             \/ Adjudicate(x)
             \/ Propose(x)
      PROVE  Counted'
  <2>1. HeartbeatShape' /\ OneOfEach'
    BY <1>4, <1>1 DEF Record, DetectedEvent, Adjudicate, AdjudicatedEvent, Propose, ProposedEvent
  <2>2. NoneMissing'
    BY <1>4, <1>2 DEF Record, Adjudicate, ForgetClaim, Propose, Go, Closed, TypeOK
  <2> QED
    BY <2>1, <2>2 DEF Counted
<1>5. ASSUME NEW x \in Executions,
             \/ \E trigger \in Triggers, m \in Modes : Start(x, trigger, m)
             \/ \E c \in todo[x] : Examine(x, c) \/ ExamineFails(x, c)
             \/ Snapshot(x) \/ Reread(x) \/ Mail(x) \/ InitiateFails(x) \/ Die(x)
      PROVE  Counted'
  <2>1. log' = log
    BY <1>5 DEF Start, Examine, ExamineFails, Snapshot, Reread, Mail, InitiateFails, Die
  <2>2. HeartbeatShape' /\ OneOfEach'
    BY <2>1 DEF Counted, HeartbeatShape, OneOfEach
  <2>3. CASE \E trigger \in Triggers, m \in Modes : Start(x, trigger, m)
    <3>1. \A y \in Closed' : y # x /\ y \in Closed
      BY <2>3 DEF Start, Go, Closed, TypeOK
    <3>2. NoneMissing'
      BY <2>3, <3>1, <1>2 DEF Start, Closed, TypeOK
    <3> QED
      BY <2>2, <3>2 DEF Counted
  <2>4. CASE \/ \E c \in todo[x] : Examine(x, c) \/ ExamineFails(x, c)
             \/ Snapshot(x) \/ Reread(x) \/ Mail(x) \/ InitiateFails(x) \/ Die(x)
    <3>1. UNCHANGED <<run, mode, sched>>
      BY <2>4 DEF Examine, ExamineFails, Snapshot, Reread, Mail, InitiateFails, Die, End
    <3>2. \A y \in Closed' : y \in Closed
      BY <2>4 DEF Examine, ExamineFails, Snapshot, Reread, Mail, InitiateFails, Die, End,
                  Go, Closed, TypeOK
    <3>3. NoneMissing'
      BY <3>1, <3>2, <1>2
    <3> QED
      BY <2>2, <3>3 DEF Counted
  <2> QED
    BY <1>5, <2>3, <2>4
<1>6. ASSUME \/ \E c \in Claims :
                  AssertClaim(c) \/ \E type \in DecisionTypes : Decide(c, type)
             \/ \E row \in OpenRows(log) : Resolve(row)
             \/ \E edge \in Edges : Link(edge)
      PROVE  Counted'
  <2>1. HeartbeatShape' /\ OneOfEach'
    BY <1>6, <1>1 DEF AssertClaim, Decide, DecisionTypes, Resolve, Link, Act
  <2>2. UNCHANGED <<pc, run, mode, sched>>
    BY <1>6 DEF AssertClaim, Decide, Resolve, Link, Act
  <2>3. NoneMissing'
    BY <2>2, <1>2 DEF Closed
  <2> QED
    BY <2>1, <2>3 DEF Counted
<1>7. ASSUME NextDay \/ UNCHANGED vars
      PROVE  Counted'
  <2>1. UNCHANGED <<log, pc, run, mode, sched>>
    BY <1>7 DEF NextDay, vars
  <2>2. NoneMissing'
    BY <2>1, <1>2 DEF Closed
  <2> QED
    BY <2>1, <2>2 DEF Counted, HeartbeatShape, OneOfEach
<1> QED
  BY <1>3, <1>4, <1>5, <1>6, <1>7 DEF Next, Step

\* However many executions a night has, by retry or by hand, its heartbeats
\* are one in real mode and, of the stub, one by Scheduler and one by hand;
\* and every night that was closed has the one of its execution.
THEOREM OneHeartbeatPerNight == Spec => []NightsNotAttempts
<1>1. Init => Counted
  BY DEF Init, Counted, HeartbeatShape, OneOfEach, NoneMissing, Closed, Heartbeats, OfType
<1>2. TypeOK /\ Counted /\ [Next]_vars => Counted'
  BY HeartbeatStep
<1>3. Counted => NightsNotAttempts
  BY NightsAreBoth DEF Counted
<1> QED
  BY <1>1, <1>2, <1>3, TypeCorrect, PTL DEF Spec

-----------------------------------------------------------------------------
(* An invitation goes out only for a recorded night.                       *)

Proposed(day) == \E e \in log : e.type = "session.proposed" /\ e.at = Midnight(day)

MailingIsRecorded == \A x \in Executions : pc[x] = "mail" => Proposed(run[x])

\* An append that collides finds a proposal of the same night.
LEMMA ProposedAppended ==
  ASSUME NEW x, NEW agenda, log' = Appended(ProposedEvent(x, agenda))
  PROVE  \E e \in log' : e.type = "session.proposed" /\ e.at = Midnight(run[x])
<1> DEFINE e == ProposedEvent(x, agenda)
<1>1. e.type = "session.proposed" /\ e.at = Midnight(run[x])
  BY DEF ProposedEvent
<1>2. CASE \E f \in log : SameId(e, f)
  <2>1. PICK f \in log : SameId(e, f)
    BY <1>2
  <2>2. "type" \in DOMAIN e \ {"sched"} /\ "at" \in DOMAIN e \ {"sched"}
    BY DEF ProposedEvent
  <2>3. f.type = e.type /\ f.at = e.at
    BY <2>1, <2>2 DEF SameId
  <2> QED
    BY <1>1, <1>2, <2>3 DEF Appended
<1>3. CASE ~ \E f \in log : SameId(e, f)
  BY <1>1, <1>3 DEF Appended
<1> QED
  BY <1>2, <1>3

LEMMA MailStep ==
  ASSUME TypeOK, MailingIsRecorded, MailedIsRecorded, [Next]_vars
  PROVE  MailingIsRecorded' /\ MailedIsRecorded'
<1> DEFINE Both == MailingIsRecorded' /\ MailedIsRecorded'
<1>0. \A day : Proposed(day) => Proposed(day)'
  BY LogStep DEF Proposed, Midnight
<1> USE DEF TypeOK, jobVars, runVars, examVars, histVars, Go
<1>1. ASSUME mailed' = mailed, UNCHANGED run,
             \A x \in Executions : pc'[x] = "mail" => pc[x] = "mail"
      PROVE  Both
  BY <1>0, <1>1 DEF MailingIsRecorded, MailedIsRecorded, Proposed
<1>2. ASSUME NEW x \in Executions, NEW trigger \in Triggers, NEW m \in Modes,
             Start(x, trigger, m)
      PROVE  Both
  <2>1. MailedIsRecorded'
    BY <1>0, <1>2 DEF Start, MailedIsRecorded, Proposed
  <2>2. \A y \in Executions : pc'[y] = "mail" => pc[y] = "mail" /\ run'[y] = run[y]
    BY <1>2 DEF Start
  <2> QED
    BY <1>0, <2>1, <2>2 DEF MailingIsRecorded, Proposed, Midnight
<1>3. ASSUME NEW x \in Executions,
             \/ \E c \in todo[x] : Examine(x, c) \/ ExamineFails(x, c)
             \/ \E row \in left[x] : Record(x, row)
             \/ Adjudicate(x) \/ Heartbeat(x) \/ Snapshot(x) \/ Reread(x)
             \/ InitiateFails(x) \/ Die(x)
      PROVE  Both
  <2>1. mailed' = mailed /\ UNCHANGED run
    BY <1>3 DEF Examine, ExamineFails, Record, Adjudicate, Heartbeat, Snapshot, Reread,
       InitiateFails, Die, End
  <2>2. \A y \in Executions : pc'[y] = "mail" => pc[y] = "mail"
    BY <1>3 DEF Examine, ExamineFails, Record, Adjudicate, Heartbeat, Snapshot, Reread,
       InitiateFails, Die, End
  <2> QED
    BY <1>1, <2>1, <2>2
<1>4. ASSUME NEW x \in Executions, Propose(x)
      PROVE  Both
  <2>1. Proposed(run[x])'
    BY <1>4, ProposedAppended DEF Propose, Proposed
  <2>2. UNCHANGED <<run, mailed>> /\ \A y \in Executions \ {x} : pc'[y] = pc[y]
    BY <1>4 DEF Propose
  <2>3. MailingIsRecorded'
    BY <1>0, <2>1, <2>2 DEF MailingIsRecorded, Proposed
  <2>4. MailedIsRecorded'
    BY <1>0, <2>2 DEF MailedIsRecorded, Proposed
  <2> QED
    BY <2>3, <2>4
<1>5. ASSUME NEW x \in Executions, Mail(x)
      PROVE  Both
  <2>1. Proposed(run[x]) /\ mailed' = mailed \cup {run[x]} /\ UNCHANGED run
    BY <1>5 DEF Mail, End, MailingIsRecorded
  <2>2. \A y \in Executions : pc'[y] = "mail" => pc[y] = "mail"
    BY <1>5 DEF Mail, End
  <2> QED
    BY <1>0, <2>1, <2>2 DEF MailingIsRecorded, MailedIsRecorded, Proposed
<1>6. ASSUME \/ \E c \in Claims :
                  AssertClaim(c) \/ \E type \in DecisionTypes : Decide(c, type)
             \/ \E row \in OpenRows(log) : Resolve(row)
             \/ \E edge \in Edges : Link(edge)
             \/ NextDay
             \/ UNCHANGED vars
      PROVE  Both
  <2>1. UNCHANGED <<jobVars, histVars>>
    BY <1>6 DEF AssertClaim, Decide, Resolve, Link, Act, NextDay, vars
  <2> QED
    BY <1>1, <2>1
<1> HIDE DEF Both
<1>7. Both
  BY <1>2, <1>3, <1>4, <1>5, <1>6 DEF Next, Step
<1> QED
  BY <1>7 DEF Both

\* Nobody is invited to a session the log does not hold the proposal of,
\* however executions collide on its event and wherever they die.
THEOREM InvitationsAreRecorded == Spec => []MailedIsRecorded
<1>1. Init => MailingIsRecorded /\ MailedIsRecorded
  BY DEF Init, MailingIsRecorded, MailedIsRecorded
<1>2. TypeOK /\ MailingIsRecorded /\ MailedIsRecorded /\ [Next]_vars
        => (MailingIsRecorded /\ MailedIsRecorded)'
  BY MailStep
<1> QED
  BY <1>1, <1>2, TypeCorrect, PTL DEF Spec

-----------------------------------------------------------------------------
(* What a night found first is reported as new by all its executions.      *)

LEMMA TimesMonotone ==
  ASSUME NEW a \in Nat, NEW b \in Nat, NEW k \in Nat, a <= b
  PROVE  a * k <= b * k
<1>1. PICK d \in Nat : b = a + d
  BY b - a \in Nat /\ b = a + (b - a)
<1>2. b * k = a * k + d * k
  BY <1>1
<1>3. d * k \in Nat /\ a * k \in Nat
  OBVIOUS
<1> QED
  BY <1>2, <1>3

\* Midnights, today and now.
LEMMA Midnights ==
  ASSUME now \in Nat
  PROVE  /\ \A d \in Nat : Midnight(d) \in Nat
         /\ Today \in Nat /\ Midnight(Today) <= now /\ now < Midnight(Today + 1)
         /\ \A d \in Nat : Midnight(d) <= now => Midnight(d) <= Midnight(Today)
<1>1. DayLen \in Nat \ {0}
  BY ReconcileAssumption
<1> DEFINE q == now \div DayLen
<1>2. q \in Nat /\ now % DayLen \in 0..(DayLen - 1) /\ now = DayLen * q + (now % DayLen)
  BY <1>1
<1> HIDE DEF q
<1>3. \A d \in Nat : d * DayLen \in Nat
  BY <1>1
<1>4. q * DayLen <= now /\ now < (q + 1) * DayLen
  BY <1>1, <1>2
<1>5. ASSUME NEW d \in Nat, d * DayLen <= now PROVE d * DayLen <= q * DayLen
  <2>1. CASE d <= q
    BY <1>1, <1>2, <2>1, TimesMonotone
  <2>2. CASE d > q
    <3>1. (q + 1) * DayLen <= d * DayLen
      BY <1>1, <1>2, <2>2, TimesMonotone
    <3> QED
      BY <1>2, <1>3, <1>4, <1>5, <3>1, (q + 1) * DayLen \in Nat
  <2> QED
    BY <1>2, <2>1, <2>2
<1> QED
  BY <1>2, <1>3, <1>4, <1>5 DEF Midnight, Today, q

Detections(S) == OfType(S, {"contradiction.detected"})

Times ==
  /\ \A e \in Detections(log) : e.at \in Nat
  /\ \A e \in Heartbeats(log) : e.at <= now /\ \E d \in Nat : e.at = Midnight(d)
  /\ \A x \in Executions : Midnight(run[x]) <= now

\* The log an execution read at its start holds no later night.
ReadTimes ==
  \A x \in Executions :
    /\ pc[x] = "idle" => events[x] = {}
    /\ pc[x] \in {"examine", "record", "snapshot"} =>
         \A e \in Heartbeats(events[x]) : e.at <= Midnight(run[x])

\* What a ledger takes for old was detected before its night.
BeforeIsOlder ==
  \A night \in ledgers :
    \A row \in night.before :
      \E e \in Detections(log) : e.row = row /\ e.at < Midnight(night.run)

LEMMA BeforeSuffices == TypeOK /\ Times /\ BeforeIsOlder => FoundTonightIsReported
<1> SUFFICES ASSUME TypeOK, Times, BeforeIsOlder, NEW night \in ledgers, NEW row \in night.rows,
                    \A e \in Detections(log) : e.row = row => e.at >= Midnight(night.run),
                    row \in night.before
             PROVE  FALSE
  BY DEF FoundTonightIsReported, Detections, Added
<1>1. PICK e \in Detections(log) : e.row = row /\ e.at < Midnight(night.run)
  BY DEF BeforeIsOlder
<1>2. e.at \in Nat /\ night.run \in Nat /\ now \in Nat
  BY ReconcileAssumption DEF Times, TypeOK
<1>3. Midnight(night.run) \in Nat
  BY <1>2, Midnights
<1> QED
  BY <1>1, <1>2, <1>3

\* What an append adds to the detections and the heartbeats.
LEMMA AppendOnlyOf ==
  ASSUME NEW e, log' = Appended(e)
  PROVE  /\ e.type # "contradiction.detected" => Detections(log') \subseteq Detections(log)
         /\ e.type # "heartbeat" => Heartbeats(log') \subseteq Heartbeats(log)
         /\ Detections(log') \subseteq Detections(log) \cup {e}
         /\ Heartbeats(log') \subseteq Heartbeats(log) \cup {e}
  BY AppendedBounds DEF Detections, Heartbeats, OfType

\* Time passes, and events come no later than it.
LEMMA TimesStep ==
  ASSUME TypeOK, Times, [Next]_vars
  PROVE  now <= now' /\ now' \in Nat /\ Times'
<1> DEFINE Goal == now <= now' /\ now' \in Nat /\ Times'
<1>0. /\ now \in Nat /\ \A d \in Nat : Midnight(d) \in Nat
      /\ Today \in Nat /\ Midnight(Today) <= now /\ now < Midnight(Today + 1)
      /\ \A x \in Executions : run[x] \in Nat
  BY Midnights, ReconcileAssumption DEF TypeOK
<1>1. ASSUME Detections(log') \subseteq Detections(log), Heartbeats(log') \subseteq Heartbeats(log),
             now <= now', now' \in Nat, UNCHANGED run
      PROVE  Goal
  <2>1. \A m \in Nat : m <= now => m <= now'
    BY <1>0, <1>1
  <2>2. \A d \in Nat : Midnight(d)' = Midnight(d)
    BY DEF Midnight
  <2> QED
    BY <1>0, <1>1, <2>1, <2>2 DEF Times
<1>2. ASSUME NEW e, log' = Appended(e), e.type \notin {"contradiction.detected", "heartbeat"},
             now' \in {now, now + 1}, UNCHANGED run
      PROVE  Goal
  <2>1. now <= now' /\ now' \in Nat
    BY <1>0, <1>2
  <2> QED
    BY <1>1, <1>2, <2>1, AppendOnlyOf
<1>3. ASSUME NEW x \in Executions, NEW e, log' = Appended(e), UNCHANGED <<now, run>>,
             e.at = Midnight(run[x])
      PROVE  Goal
  <2>1. e.at \in Nat /\ e.at <= now /\ run[x] \in Nat
    BY <1>0, <1>3 DEF Times
  <2>2. \A d \in Nat : Midnight(d)' = Midnight(d)
    BY DEF Midnight
  <2> QED
    BY <1>0, <1>3, <2>1, <2>2, AppendOnlyOf DEF Times, Midnight
<1>4. ASSUME NEW x \in Executions, NEW trigger \in Triggers, NEW m \in Modes,
             Start(x, trigger, m)
      PROVE  Goal
  <2>1. log' = log /\ now' = now /\ run' = [run EXCEPT ![x] = Today]
    BY <1>4 DEF Start
  <2>2. \A y \in Executions : run'[y] = run[y] \/ run'[y] = Today
    BY <2>1 DEF TypeOK
  <2> QED
    BY <1>0, <2>1, <2>2 DEF Times, Midnight
<1>5. ASSUME NEW x \in Executions,
             \/ \E row \in left[x] : Record(x, row)
             \/ Heartbeat(x)
      PROVE  Goal
  BY <1>5, <1>3 DEF Record, DetectedEvent, Heartbeat, HeartbeatEvent, runVars
<1>6. ASSUME NEW x \in Executions, Adjudicate(x) \/ Propose(x)
      PROVE  Goal
  BY <1>6, <1>2 DEF Adjudicate, AdjudicatedEvent, Propose, ProposedEvent, runVars
<1>7. ASSUME NEW x \in Executions,
             \/ \E c \in todo[x] : Examine(x, c) \/ ExamineFails(x, c)
             \/ Snapshot(x) \/ Reread(x) \/ Mail(x) \/ InitiateFails(x) \/ Die(x)
      PROVE  Goal
  <2>1. UNCHANGED <<log, now, run>>
    BY <1>7 DEF Examine, ExamineFails, Snapshot, Reread, Mail, InitiateFails, Die, End, runVars
  <2> QED
    BY <1>0, <1>1, <2>1
<1>8. ASSUME \/ \E c \in Claims :
                  AssertClaim(c) \/ \E type \in DecisionTypes : Decide(c, type)
             \/ \E row \in OpenRows(log) : Resolve(row)
             \/ \E edge \in Edges : Link(edge)
      PROVE  Goal
  <2> UNCHANGED run
    BY <1>8 DEF AssertClaim, Decide, Resolve, Link, Act, jobVars, runVars
  <2> QED
    BY <1>8, <1>2 DEF AssertClaim, Decide, DecisionTypes, Resolve, Link, Act
<1>9. ASSUME NextDay PROVE Goal
  <2>1. log' = log /\ now' = Midnight(Today + 1) /\ run' = run /\ Today + 1 \in Nat
    BY <1>0, <1>9 DEF NextDay, jobVars, runVars
  <2>2. now <= now' /\ now' \in Nat
    BY <1>0, <2>1
  <2> QED
    BY <1>1, <2>1, <2>2
<1>10. ASSUME UNCHANGED vars PROVE Goal
  BY <1>0, <1>1, <1>10 DEF vars, jobVars, runVars
<1> HIDE DEF Goal
<1>11. Goal
  BY <1>4, <1>5, <1>6, <1>7, <1>8, <1>9, <1>10 DEF Next, Step
<1> QED
  BY <1>11 DEF Goal

LEMMA ReadTimesStep ==
  ASSUME TypeOK, Times, ReadTimes, [Next]_vars
  PROVE  ReadTimes'
<1> USE DEF TypeOK, jobVars, runVars, examVars, histVars, Go
<1>1. ASSUME NEW x \in Executions, NEW trigger \in Triggers, NEW m \in Modes,
             Start(x, trigger, m)
      PROVE  ReadTimes'
  <2>1. /\ run' = [run EXCEPT ![x] = Today] /\ pc' = [pc EXCEPT ![x] = "examine"]
        /\ \/ events' = events /\ events[x] = {}
           \/ events' = [events EXCEPT ![x] = log]
    BY <1>1 DEF Start, ReadTimes
  <2>2. \A e \in Heartbeats(log) : e.at <= Midnight(Today)
    BY Midnights DEF Times
  <2>3. \A e \in Heartbeats(events'[x]) : e.at <= Midnight(run'[x])
    BY <2>1, <2>2 DEF Heartbeats, OfType
  <2> QED
    BY <2>1, <2>3 DEF ReadTimes, Midnight
<1>2. ASSUME NEW x \in Executions,
             \A y \in Executions :
               /\ pc'[y] = "idle" => pc[y] = "idle"
               /\ pc'[y] \in {"examine", "record", "snapshot"} =>
                    pc[y] \in {"examine", "record", "snapshot"}
               /\ pc'[y] \in {"idle", "examine", "record", "snapshot"} =>
                    events'[y] = events[y] /\ run'[y] = run[y]
      PROVE  ReadTimes'
  BY <1>2 DEF ReadTimes, Midnight
<1>3. ASSUME NEW x \in Executions,
             \/ \E c \in todo[x] : Examine(x, c) \/ ExamineFails(x, c)
             \/ \E row \in left[x] : Record(x, row)
             \/ Adjudicate(x) \/ Heartbeat(x)
      PROVE  ReadTimes'
  BY <1>2, <1>3 DEF Examine, ExamineFails, Record, Adjudicate, Heartbeat
<1>4. ASSUME NEW x \in Executions,
             Snapshot(x) \/ Reread(x) \/ Propose(x)
      PROVE  ReadTimes'
  BY <1>2, <1>4 DEF Snapshot, Reread, Propose
<1>5. ASSUME NEW x \in Executions, Mail(x) \/ InitiateFails(x) \/ Die(x)
      PROVE  ReadTimes'
  BY <1>2, <1>5 DEF Mail, InitiateFails, Die, End
<1>6. ASSUME \/ \E c \in Claims :
                  AssertClaim(c) \/ \E type \in DecisionTypes : Decide(c, type)
             \/ \E row \in OpenRows(log) : Resolve(row)
             \/ \E edge \in Edges : Link(edge)
             \/ NextDay
             \/ UNCHANGED vars
      PROVE  ReadTimes'
  <2>1. UNCHANGED jobVars
    BY <1>6 DEF AssertClaim, Decide, Resolve, Link, Act, NextDay, vars
  <2> QED
    BY <2>1 DEF ReadTimes, Midnight
<1> QED
  BY <1>1, <1>3, <1>4, <1>5, <1>6 DEF Next, Step

\* The prefix a ledger is compared with ends before its night.
LEMMA LastNightIsOlder ==
  ASSUME TypeOK, Times, ReadTimes, NEW x \in Executions, pc[x] = "snapshot",
         NEW row \in LastNight(x)
  PROVE  \E e \in Detections(log) : e.row = row /\ e.at < Midnight(run[x])
<1> DEFINE Prefix == {e \in events[x] : \E heartbeat \in PriorRun(x) : e.at <= heartbeat.at}
<1>1. PICK e \in Prefix : e.type = "contradiction.detected" /\ e.row = row
  <2>1. row \in Rows(Prefix)
    BY OpenAreRows DEF LastNight
  <2> QED
    BY <2>1 DEF Rows, OfType
<1>2. PICK heartbeat \in PriorRun(x) : e.at <= heartbeat.at
  BY <1>1
<1>3. heartbeat \in Heartbeats(events[x]) /\ heartbeat.at # Midnight(run[x])
  BY DEF PriorRun
<1>4. heartbeat.at <= Midnight(run[x])
  BY <1>3 DEF ReadTimes
<1>5. events[x] \subseteq log /\ run[x] \in Nat /\ now \in Nat
  BY ReconcileAssumption DEF TypeOK
<1>6. heartbeat \in Heartbeats(log) /\ e \in Detections(log)
  BY <1>1, <1>3, <1>5 DEF Heartbeats, Detections, OfType
<1>7. e.at \in Nat /\ heartbeat.at \in Nat /\ Midnight(run[x]) \in Nat
  BY <1>5, <1>6, Midnights DEF Times
<1> QED
  BY <1>1, <1>2, <1>3, <1>4, <1>6, <1>7

LEMMA BeforeStep ==
  ASSUME TypeOK, Times, ReadTimes, BeforeIsOlder, [Next]_vars
  PROVE  BeforeIsOlder'
<1>1. Detections(log) \subseteq Detections(log')
  BY LogStep DEF Detections, OfType
<1>2. ASSUME NEW x \in Executions, Snapshot(x)
      PROVE  BeforeIsOlder'
  <2> DEFINE night == [run |-> run[x], rows |-> OpenRows(log),
                       compared |-> PriorRun(x) # {}, before |-> LastNight(x)]
  <2>1. ledgers' = ledgers \cup {night} /\ pc[x] = "snapshot"
    BY <1>2 DEF Snapshot
  <2>2. night.run = run[x] /\ night.before = LastNight(x)
    OBVIOUS
  <2>3. \A row \in LastNight(x) : \E e \in Detections(log) : e.row = row /\ e.at < Midnight(run[x])
    BY <2>1, LastNightIsOlder
  <2> HIDE DEF night
  <2> QED
    BY <1>1, <2>1, <2>2, <2>3 DEF BeforeIsOlder, Midnight
<1>3. CASE ledgers' = ledgers
  BY <1>1, <1>3 DEF BeforeIsOlder, Midnight
<1>4. ledgers' = ledgers \/ \E x \in Executions : Snapshot(x)
  <2>1. ASSUME NEW x \in Executions, Step(x) PROVE ledgers' = ledgers \/ Snapshot(x)
    BY <2>1 DEF Step, Examine, ExamineFails, Record, Adjudicate, Heartbeat, Reread,
       Propose, Mail, InitiateFails, histVars
  <2>2. \A x \in Executions : Die(x) => ledgers' = ledgers
    BY DEF Die, histVars
  <2>3. UNCHANGED vars => ledgers' = ledgers
    BY DEF vars, histVars
  <2>4. \A x \in Executions, trigger \in Triggers, m \in Modes : Start(x, trigger, m) => ledgers' = ledgers
    BY DEF Start, histVars
  <2>5. (\E c \in Claims : AssertClaim(c) \/ \E type \in DecisionTypes : Decide(c, type)) => ledgers' = ledgers
    BY DEF AssertClaim, Decide, Act, histVars
  <2>6. (\E row \in OpenRows(log) : Resolve(row)) \/ (\E edge \in Edges : Link(edge)) \/ NextDay
          => ledgers' = ledgers
    BY DEF Resolve, Link, Act, NextDay, histVars
  <2> QED
    BY <2>1, <2>2, <2>3, <2>4, <2>5, <2>6 DEF Next
<1> QED
  BY <1>2, <1>3, <1>4

\* What a night found first, every execution of that night that reports at
\* all reports as new, a retry included: the night it compares with is never
\* its own, nor a later one (job.py, _prior_run).
THEOREM RetriesReportTheNight == Spec => []FoundTonightIsReported
<1>1. Init => Times /\ ReadTimes /\ BeforeIsOlder
  <2> SUFFICES ASSUME Init PROVE Times /\ ReadTimes /\ BeforeIsOlder
    OBVIOUS
  <2>1. now = 1 * DayLen /\ now \in Nat /\ 0 * DayLen = 0 /\ 0 <= now
    BY ReconcileAssumption DEF Init, Midnight
  <2> QED
    BY <2>1 DEF Init, Times, ReadTimes, BeforeIsOlder, Detections, Heartbeats, OfType, Midnight
<1>2. TypeOK /\ Times /\ ReadTimes /\ BeforeIsOlder /\ [Next]_vars
        => (Times /\ ReadTimes /\ BeforeIsOlder)'
  BY TimesStep, ReadTimesStep, BeforeStep
<1> QED
  BY <1>1, <1>2, TypeCorrect, BeforeSuffices, PTL DEF Spec

-----------------------------------------------------------------------------
(* What a night found is on its agenda: what an execution proposes from, it *)
(* has read after recording all of its findings.                           *)

\* Rows of claims that the log, so far as it was read, has asserted.
KnownRows(rows, S) == \A row \in rows : row.sides \subseteq KnownClaims(S)

FindingsAreKnown ==
  /\ \A x \in Executions : pc[x] = "record" => KnownRows(answer[x].rows, log)
  /\ \A ex \in exams : KnownRows(ex.found, log)

ReadAfterFinding ==
  \A x \in Executions : pc[x] = "propose" =>
    \A ex \in exams : ex.by = x =>
      ex.found \subseteq Rows(events[x]) /\ KnownRows(ex.found, events[x])

AgendaInv == FindingInv /\ Worklist /\ FindingsAreKnown /\ ReadAfterFinding

LEMMA KnownRowsGrow ==
  ASSUME NEW S, NEW T, S \subseteq T, NEW rows, KnownRows(rows, S)
  PROVE  KnownRows(rows, T)
  BY KnownGrows DEF KnownRows

\* An answer's rows are of claims of the pool.
LEMMA AnsweredRows ==
  ASSUME TypeOK, Worklist, NEW x \in Executions, NEW c \in todo[x], Examine(x, c)
  PROVE  KnownRows(answer'[x].rows, log)
<1>1. PICK named \in SUBSET Asked(x, c), parsed \in BOOLEAN :
        answer' = [answer EXCEPT ![x] = [parsed |-> parsed,
                                         rows |-> {RowOf(c, d) : d \in named}]]
  BY DEF Examine
<1>2. answer'[x].rows = {RowOf(c, d) : d \in named}
  BY <1>1 DEF TypeOK
<1>3. named \subseteq Retrievable(events[x])
  BY AskedInPool
<1>4. c \in Retrievable(events[x])
  BY DEF Examine, Worklist
<1>5. Retrievable(events[x]) \subseteq KnownClaims(log)
  BY RetrievableIsKnown, KnownGrows DEF TypeOK
<1>6. \A d \in named : RowOf(c, d).sides \subseteq KnownClaims(log)
  BY <1>3, <1>4, <1>5 DEF RowOf
<1> QED
  BY <1>2, <1>6 DEF KnownRows

\* The examinations of others do not concern an execution that proposes.
LEMMA AgendaStep ==
  ASSUME TypeOK, AgendaInv, [Next]_vars
  PROVE  FindingsAreKnown' /\ ReadAfterFinding'
<1> DEFINE Both == FindingsAreKnown' /\ ReadAfterFinding'
<1>0. \A rows : KnownRows(rows, log) => KnownRows(rows, log')
  BY LogStep, KnownRowsGrow
<1> USE DEF TypeOK, AgendaInv, FindingsAreKnown, ReadAfterFinding, jobVars, runVars, examVars,
        histVars, Go
<1>1. ASSUME NEW x \in Executions, NEW c \in todo[x], Examine(x, c)
      PROVE  Both
  <2>1. KnownRows(answer'[x].rows, log)
    BY <1>1, AnsweredRows
  <2> QED
    BY <1>0, <1>1, <2>1 DEF Examine
<1>2. ASSUME NEW x \in Executions, NEW row \in left[x], Record(x, row)
      PROVE  Both
  BY <1>0, <1>2 DEF Record
<1>3. ASSUME NEW x \in Executions, Adjudicate(x)
      PROVE  Both
  <2>1. Exam(x).found = answer[x].rows /\ Exam(x).by = x
    BY DEF Exam
  <2>2. exams' = exams \cup {Exam(x)} /\ pc[x] = "record"
    BY <1>3 DEF Adjudicate
  <2>3. FindingsAreKnown'
    <3>1. \A y \in Executions : pc'[y] = "record" => pc[y] = "record" /\ answer'[y] = answer[y]
      BY <1>3 DEF Adjudicate, ForgetClaim
    <3>2. \A ex \in exams' : KnownRows(ex.found, log)
      BY <2>1, <2>2
    <3> QED
      BY <1>0, <3>1, <3>2
  <2>4. ReadAfterFinding'
    BY <1>3, <2>1, <2>2 DEF Adjudicate
  <2> QED
    BY <2>3, <2>4
<1>4. ASSUME NEW x \in Executions, Reread(x)
      PROVE  Both
  <2>1. \A ex \in exams : ex.found \subseteq Rows(log) /\ KnownRows(ex.found, log)
    BY DEF FindingInv, FoundKept
  <2>2. /\ events' = [events EXCEPT ![x] = log] /\ pc' = [pc EXCEPT ![x] = "propose"]
        /\ UNCHANGED <<log, exams, answer>>
    BY <1>4 DEF Reread
  <2> QED
    BY <2>1, <2>2
<1>5. ASSUME NEW x \in Executions,
             \/ \E trigger \in Triggers, m \in Modes : Start(x, trigger, m)
             \/ \E c \in todo[x] : ExamineFails(x, c)
             \/ Heartbeat(x) \/ Snapshot(x) \/ Propose(x)
      PROVE  Both
  <2>1. UNCHANGED <<exams, answer>> /\ \A y \in Executions :
          /\ pc'[y] = "record" => pc[y] = "record"
          /\ pc'[y] = "propose" => pc[y] = "propose" /\ events'[y] = events[y]
    BY <1>5 DEF Start, ExamineFails, Heartbeat, Snapshot, Propose
  <2>2. FindingsAreKnown'
    BY <1>0, <2>1
  <2>3. ReadAfterFinding'
    BY <2>1
  <2> QED
    BY <2>2, <2>3
<1>6. ASSUME NEW x \in Executions, Mail(x) \/ InitiateFails(x) \/ Die(x)
      PROVE  Both
  <2>1. exams' = exams /\ \A y \in Executions :
          /\ pc'[y] = "record" => pc[y] = "record" /\ answer'[y] = answer[y]
          /\ pc'[y] = "propose" => pc[y] = "propose" /\ events'[y] = events[y]
    BY <1>6 DEF Mail, InitiateFails, Die, End, ForgetClaim
  <2> QED
    BY <1>0, <2>1
<1>7. ASSUME \/ \E c \in Claims :
                  AssertClaim(c) \/ \E type \in DecisionTypes : Decide(c, type)
             \/ \E row \in OpenRows(log) : Resolve(row)
             \/ \E edge \in Edges : Link(edge)
             \/ NextDay
             \/ UNCHANGED vars
      PROVE  Both
  <2>1. UNCHANGED <<jobVars, histVars>>
    BY <1>7 DEF AssertClaim, Decide, Resolve, Link, Act, NextDay, vars
  <2> QED
    BY <1>0, <2>1
<1> HIDE DEF Both
<1>8. Both
  BY <1>1, <1>2, <1>3, <1>4, <1>5, <1>6, <1>7 DEF Next, Step
<1> QED
  BY <1>8 DEF Both

\* There are finitely many rows of finitely many claims.
LEMMA FinitelyManyRows == IsFiniteSet(AllRows)
<1> DEFINE subjects == {Attr[c].subject : c \in Claims}
           of == [c \in Claims |-> Attr[c].subject]
           pairs == subjects \X SUBSET Claims
           row == [p \in pairs |-> [subject |-> p[1], sides |-> p[2]]]
<1>1. IsFiniteSet(Claims)
  BY DetectAssumption
<1>2. of \in Surjection(Claims, subjects)
  BY DEF Surjection
<1>3. IsFiniteSet(subjects)
  <2> HIDE DEF of, subjects
  <2> QED
    BY <1>1, <1>2, FS_Surjection
<1>4. IsFiniteSet(pairs)
  <2> HIDE DEF subjects
  <2> QED
    BY <1>1, <1>3, FS_SUBSET, FS_Product
<1>5. AllRows = [subject : subjects, sides : SUBSET Claims]
  BY DEF AllRows
<1> HIDE DEF subjects
<1>6. row \in Surjection(pairs, AllRows)
  <2>1. row \in [pairs -> AllRows]
    BY <1>5
  <2>2. ASSUME NEW r \in AllRows
        PROVE  \E p \in pairs : row[p] = r
    <3>1. <<r.subject, r.sides>> \in pairs /\ r = [subject |-> r.subject, sides |-> r.sides]
      BY <1>5
    <3> QED
      BY <3>1
  <2> QED
    BY <2>1, <2>2 DEF Surjection
<1> HIDE DEF row, pairs
<1> QED
  BY <1>4, <1>6, FS_Surjection

\* The rows of an agenda are all the open ones, or as many as it may hold.
LEMMA AgendaRows ==
  ASSUME NEW S, Rows(S) \subseteq AllRows, NEW day, NEW agenda \in Agendas(S, day)
  PROVE  agenda.rows = OpenRows(S) \/ Cardinality(agenda.rows) = MaxAgenda
<1>1. agenda.rows \subseteq OpenRows(S)
  BY DEF Agendas, Best
<1>2. Cardinality(agenda.rows) =
        IF Cardinality(OpenRows(S)) < MaxAgenda THEN Cardinality(OpenRows(S)) ELSE MaxAgenda
  BY DEF Agendas, Best
<1>3. IsFiniteSet(OpenRows(S))
  <2>1. OpenRows(S) \subseteq AllRows
    BY OpenAreRows
  <2> QED
    BY <2>1, FinitelyManyRows, FS_Subset
<1> QED
  BY <1>1, <1>2, <1>3, FS_Subset

\* What was found before a read, is of claims nobody rejected and is still
\* open, was open when it was read.
LEMMA OpenWhenRead ==
  ASSUME NEW S, S \subseteq log, NEW row \in OpenRows(log), row \in Rows(S),
         row.sides \subseteq KnownClaims(S), \A c \in row.sides : NeverRejected(c)
  PROVE  row \in OpenRows(S)
<1>1. row \notin Resolved(log)
  BY DEF OpenRows
<1>2. row \notin Resolved(S)
  BY <1>1, RowsGrow DEF Resolved, OfType
<1>3. ASSUME NEW c \in row.sides
      PROVE  c \in Retrievable(S)
  <2>1. \A e \in Decisions(S, c) : e \in log /\ e.claim = c
    BY DEF Decisions, EffectiveOn, OfType
  <2>2. ~DecidedAs(S, c, "claim.rejected")
    BY <2>1 DEF DecidedAs, NeverRejected, OfType
  <2> QED
    BY <2>2 DEF Retrievable
<1> QED
  BY <1>2, <1>3 DEF OpenRows

\* The log has the proposal, or one of the same night and agenda.
LEMMA AgendaAppended ==
  ASSUME NEW x, NEW agenda, log' = Appended(ProposedEvent(x, agenda))
  PROVE  \E e \in log' :
           e.type = "session.proposed" /\ e.at = Midnight(run[x]) /\ e.agenda = agenda
<1> DEFINE e == ProposedEvent(x, agenda)
<1>1. e.type = "session.proposed" /\ e.at = Midnight(run[x]) /\ e.agenda = agenda
  BY DEF ProposedEvent
<1>2. CASE \E f \in log : SameId(e, f)
  <2>1. PICK f \in log : SameId(e, f)
    BY <1>2
  <2>2. {"type", "at", "agenda"} \subseteq DOMAIN e \ {"sched"}
    BY DEF ProposedEvent
  <2>3. f.type = e.type /\ f.at = e.at /\ f.agenda = e.agenda
    BY <2>1, <2>2 DEF SameId
  <2> QED
    BY <1>1, <1>2, <2>3 DEF Appended
<1>3. CASE ~ \E f \in log : SameId(e, f)
  BY <1>1, <1>3 DEF Appended
<1> QED
  BY <1>2, <1>3

\* Only its own proposal takes an execution from proposing to mailing.
LEMMA WhoProposes ==
  ASSUME TypeOK, [Next]_vars, NEW x \in Executions, pc[x] = "propose", pc'[x] = "mail"
  PROVE  Propose(x)
<1> USE DEF TypeOK, jobVars, runVars, examVars, histVars, Go
<1>1. ASSUME NEW y \in Executions,
             \/ \E trigger \in Triggers, m \in Modes : Start(y, trigger, m)
             \/ \E c \in todo[y] : Examine(y, c) \/ ExamineFails(y, c)
             \/ \E row \in left[y] : Record(y, row)
             \/ Adjudicate(y) \/ Heartbeat(y) \/ Snapshot(y) \/ Reread(y)
      PROVE  FALSE
  BY <1>1 DEF Start, Examine, ExamineFails, Record, Adjudicate, Heartbeat, Snapshot, Reread
<1>2. ASSUME NEW y \in Executions, Mail(y) \/ InitiateFails(y) \/ Die(y)
      PROVE  FALSE
  BY <1>2 DEF Mail, InitiateFails, Die, End
<1>3. ASSUME NEW y \in Executions, Propose(y)
      PROVE  y = x
  BY <1>3 DEF Propose
<1>4. ASSUME \/ \E c \in Claims :
                  AssertClaim(c) \/ \E type \in DecisionTypes : Decide(c, type)
             \/ \E row \in OpenRows(log) : Resolve(row)
             \/ \E edge \in Edges : Link(edge)
             \/ NextDay
             \/ UNCHANGED vars
      PROVE  FALSE
  <2>1. UNCHANGED jobVars
    BY <1>4 DEF AssertClaim, Decide, Resolve, Link, Act, NextDay, vars
  <2> QED
    BY <2>1
<1> QED
  BY <1>1, <1>2, <1>3, <1>4 DEF Next, Step

\* Whatever other executions, people and deaths do between its reads, what an
\* execution has found and is still open is on the agenda it proposes, or the
\* agenda is full.
THEOREM AgendasCoverTonight == Spec => AgendaCoversTonight
<1> DEFINE Covers(x) ==
      \E e \in log' :
        /\ e.type = "session.proposed" /\ e.at = Midnight(run[x])
        /\ \/ Cardinality(e.agenda.rows) = MaxAgenda
           \/ \A ex \in exams : ex.by = x =>
                \A row \in ex.found \cap OpenRows(log) :
                  (\A c \in row.sides : NeverRejected(c)) => row \in e.agenda.rows
<1>1. Init => AgendaInv
  BY DEF Init, AgendaInv, FindingInv, AnswersKept, FoundKept, Worklist, FindingsAreKnown,
     ReadAfterFinding
<1>2. TypeOK /\ AgendaInv /\ [Next]_vars => AgendaInv'
  BY FindingStep, WorklistStep, AgendaStep DEF AgendaInv
<1>3. ASSUME TypeOK, AgendaInv, [Next]_vars,
             NEW x \in Executions, pc[x] = "propose", pc'[x] = "mail"
      PROVE  Covers(x)
  <2>1. PICK agenda \in Agendas(events[x], run[x]) : log' = Appended(ProposedEvent(x, agenda))
    BY <1>3, WhoProposes DEF Propose
  <2>2. PICK e \in log' :
          e.type = "session.proposed" /\ e.at = Midnight(run[x]) /\ e.agenda = agenda
    BY <2>1, AgendaAppended
  <2>3. events[x] \subseteq log /\ Rows(events[x]) \subseteq AllRows
    BY <1>3, RowsGrow DEF TypeOK
  <2>4. agenda.rows = OpenRows(events[x]) \/ Cardinality(agenda.rows) = MaxAgenda
    BY <2>3, AgendaRows
  <2>5. ASSUME NEW ex \in exams, ex.by = x, NEW row \in ex.found \cap OpenRows(log),
               \A c \in row.sides : NeverRejected(c)
        PROVE  row \in OpenRows(events[x])
    <3>1. row \in Rows(events[x]) /\ row.sides \subseteq KnownClaims(events[x])
      BY <1>3, <2>5 DEF AgendaInv, ReadAfterFinding, KnownRows
    <3> QED
      BY <2>3, <2>5, <3>1, OpenWhenRead
  <2> QED
    BY <2>2, <2>4, <2>5
<1>4. TypeOK /\ AgendaInv /\ [Next]_vars =>
        [\A x \in Executions : pc[x] = "propose" /\ pc'[x] = "mail" => Covers(x)]_vars
  BY <1>3
<1> QED
  BY <1>1, <1>2, <1>4, TypeCorrect, PTL DEF Spec, AgendaCoversTonight
=============================================================================
