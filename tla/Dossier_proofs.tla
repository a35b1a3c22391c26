---------------------------- MODULE Dossier_proofs ----------------------------
(***************************************************************************)
(* For any claims, disagreements, audiences and times to live: what the    *)
(* dossier shows has been published, what is disputed is not in force,     *)
(* the diff accounts for every rule, and the boundary takes away words,    *)
(* never questions.                                                        *)
(***************************************************************************)
EXTENDS Dossier, FiniteSetTheorems, WellFoundedInduction, TLAPS

-----------------------------------------------------------------------------
(* Types.  A choice other than private is made for what was approved.      *)

Graphs == [committed : SUBSET Claims, rejected : SUBSET Claims, found : SUBSET Disputes,
           resolved : SUBSET Disputes, visibility : [Claims -> Visibilities]]

ChosenForApproved(g) ==
  \A c \in Claims : g.visibility[c] # "private" => c \in g.committed \cup g.rejected

GoodGraph(g) == g \in Graphs /\ ChosenForApproved(g)

TypeOK ==
  /\ GoodGraph(graph)
  /\ state # NoState => GoodGraph(state)
  /\ epoch # NoState => GoodGraph(epoch)
  /\ since \in Nat
  /\ age \in Nat /\ events \in Nat
  /\ gone \in [Claims -> Nat]
  /\ question \in [claims : SUBSET Claims, cited : SUBSET Claims, unpublished : SUBSET Claims]
                   \cup {NoQuestion}

LEMMA ConstantTypes ==
  /\ TTL \in Nat /\ Forever \in Nat
  /\ Chosen \subseteq Visibilities /\ Histories \subseteq SUBSET Claims
  /\ Audience \in Audiences
  BY DossierAssumption DEF Forever

LEMMA DecisionSteps ==
  ASSUME GoodGraph(graph), NEW c \in Claims
  PROVE  GoodGraph(Ratified(c)) /\ GoodGraph(Retracted(c))
  BY DEF Ratified, Retracted, GoodGraph, Graphs, ChosenForApproved

LEMMA ChoiceStep ==
  ASSUME NEW g, GoodGraph(g), NEW c \in Claims, c \in g.committed, NEW v \in Chosen
  PROVE  GoodGraph([g EXCEPT !.visibility[c] = v])
<1> DEFINE h == [g EXCEPT !.visibility[c] = v]
<1> USE ConstantTypes DEF GoodGraph, Graphs, ChosenForApproved
<1>1. h.visibility = [g.visibility EXCEPT ![c] = v]
  OBVIOUS
<1>2. h.visibility \in [Claims -> Visibilities]
  BY <1>1
<1>3. \A d \in Claims : h.visibility[d] # "private" => d \in g.committed \cup g.rejected
  BY <1>1
<1> QED
  BY <1>2, <1>3

LEMMA LedgerSteps ==
  ASSUME NEW g, GoodGraph(g), NEW k \in Disputes
  PROVE  /\ GoodGraph([g EXCEPT !.found = @ \cup {k}])
         /\ GoodGraph([g EXCEPT !.resolved = @ \cup {k}])
  BY DEF GoodGraph, Graphs, ChosenForApproved

LEMMA Recorded ==
  ASSUME NEW g, Record(g)
  PROVE  graph' = g
  BY DEF Record

\* What the graph may become.
LEMMA GraphStep ==
  ASSUME TypeOK, [Next]_vars
  PROVE  GoodGraph(graph')
<1> USE DEF TypeOK
<1>1. CASE Elsewhere
  <2>1. ASSUME NEW c \in Claims, Record(Ratified(c)) \/ Record(Retracted(c))
        PROVE  GoodGraph(graph')
    BY <2>1, DecisionSteps, Recorded
  <2>2. ASSUME NEW c \in Claims, NEW v \in Chosen, c \in graph.committed,
               Record([graph EXCEPT !.visibility[c] = v])
        PROVE  GoodGraph(graph')
    BY <2>2, ChoiceStep, Recorded
  <2>3. ASSUME NEW k \in Disputes,
               \/ Record([graph EXCEPT !.found = @ \cup {k}])
               \/ Record([graph EXCEPT !.resolved = @ \cup {k}])
        PROVE  GoodGraph(graph')
    BY <2>3, LedgerSteps, Recorded
  <2> QED
    BY <1>1, <2>1, <2>2, <2>3 DEF Elsewhere
<1>2. ASSUME NEW c \in Claims, Reject(c)
      PROVE  GoodGraph(graph')
  BY <1>2, DecisionSteps, Recorded DEF Reject
<1>3. ASSUME graph' = graph
      PROVE  GoodGraph(graph')
  BY <1>3
<1>4. ASSUME NEW named, Reply(named)
      PROVE  GoodGraph(graph')
  BY <1>4, <1>3 DEF Reply
<1>5. ASSUME OpenSession \/ Visit \/ RejectNot \/ (\E m \in Questions : Ask(m)) \/ Restart \/ Tick
             \/ UNCHANGED vars
      PROVE  GoodGraph(graph')
  BY <1>5, <1>3 DEF OpenSession, Record, Visit, RejectNot, Ask, Restart, Tick, vars
<1> QED
  BY <1>1, <1>2, <1>4, <1>5 DEF Next

LEMMA PublicAreClaims ==
  ASSUME NEW g, GoodGraph(g)
  PROVE  PublicClaims(g) \subseteq Claims
  BY DEF PublicClaims, GoodGraph, Graphs

LEMMA Asked ==
  ASSUME TypeOK
  PROVE  /\ GoodGraph(Current)
         /\ \A matching : Retrieve(matching) \subseteq PublicClaims(Current)
  BY DEF TypeOK, Current, Fresh, Retrieve

\* The fold at hand is kept, read anew or dropped.
LEMMA StateStep ==
  ASSUME TypeOK, [Next]_vars
  PROVE  state' \in {state, graph, NoState} /\ age' \in Nat
<1> USE DEF TypeOK
<1>1. CASE Elsewhere
  BY <1>1 DEF Elsewhere
<1>2. ASSUME NEW c \in Claims, Reject(c)
      PROVE  state' \in {state, graph, NoState} /\ age' \in Nat
  BY <1>2 DEF Reject
<1>7. ASSUME NEW named, Reply(named)
      PROVE  state' \in {state, graph, NoState} /\ age' \in Nat
  BY <1>7 DEF Reply
<1>3. CASE OpenSession
  BY <1>3 DEF OpenSession
<1>4. CASE Visit
  BY <1>4 DEF Visit, Serve
<1>5. ASSUME NEW matching \in Questions, Ask(matching)
      PROVE  state' \in {state, graph, NoState} /\ age' \in Nat
  BY <1>5 DEF Ask, Serve
<1>6. CASE RejectNot \/ Restart \/ Tick \/ UNCHANGED vars
  BY <1>6 DEF RejectNot, Restart, Tick, vars
<1> QED
  BY <1>1, <1>2, <1>3, <1>4, <1>5, <1>6, <1>7 DEF Next

\* A session that opens is the last one; otherwise time passes over it.
LEMMA EpochStep ==
  ASSUME TypeOK, [Next]_vars
  PROVE  /\ since' \in Nat
         /\ \/ ~Tick /\ epoch' = graph /\ graph' = graph /\ since' = 0
            \/ Tick /\ epoch' = epoch /\ graph' = graph /\ since' = IF since = Forever THEN since ELSE since + 1
            \/ epoch' = epoch /\ since' = since /\ (Tick => gone' = gone)
<1> USE DEF TypeOK
<1>1. CASE Elsewhere
  BY <1>1 DEF Elsewhere, Tick, Record
<1>2. ASSUME NEW c \in Claims, Reject(c)
      PROVE  since' = since /\ epoch' = epoch /\ ~Tick
  BY <1>2 DEF Reject, Tick, Record
<1>3. ASSUME NEW named, Reply(named)
      PROVE  since' = since /\ epoch' = epoch /\ gone' = gone
  BY <1>3 DEF Reply
<1>4. CASE OpenSession
  BY <1>4 DEF OpenSession, Record, Tick
<1>5. ASSUME NEW matching, Ask(matching)
      PROVE  since' = since /\ epoch' = epoch /\ gone' = gone
  BY <1>5 DEF Ask
<1>6. CASE Visit \/ RejectNot \/ Restart
  BY <1>6 DEF Visit, RejectNot, Restart
<1>7. CASE Tick
  BY <1>7 DEF Tick
<1>8. CASE UNCHANGED vars
  BY <1>8 DEF vars
<1> QED
  BY <1>1, <1>2, <1>3, <1>4, <1>5, <1>6, <1>7, <1>8 DEF Next

\* Ticks are counted for what is not published.
LEMMA GoneStep ==
  ASSUME TypeOK, [Next]_vars
  PROVE  /\ events' \in Nat
         /\ gone' \in [Claims -> Nat]
         /\ \A c \in Claims :
              \/ gone'[c] = gone[c]
              \/ gone'[c] = 0
              \/ Tick /\ c \notin PublicClaims(graph) /\ gone'[c] = gone[c] + 1
         /\ (\A c \in PublicClaims(graph) : gone[c] = 0) =>
              \A c \in PublicClaims(graph') : gone'[c] = 0
<1> DEFINE Zero(g, h) == \A c \in PublicClaims(g) : h[c] = 0
           Goal == /\ events' \in Nat
                   /\ gone' \in [Claims -> Nat]
                   /\ \A c \in Claims :
                        \/ gone'[c] = gone[c]
                        \/ gone'[c] = 0
                        \/ Tick /\ c \notin PublicClaims(graph) /\ gone'[c] = gone[c] + 1
                   /\ Zero(graph, gone) => Zero(graph', gone')
<1>1. GoodGraph(graph') /\ PublicClaims(graph') \subseteq Claims
  BY GraphStep, PublicAreClaims
<1>2. ASSUME NEW g, Record(g)
      PROVE  Goal
  <2>1. graph' = g /\ events' = events + 1
    BY <1>2 DEF Record
  <2>2. gone' = [c \in Claims |-> IF c \in PublicClaims(g) THEN 0 ELSE gone[c]]
    BY <1>2 DEF Record
  <2> QED
    BY <1>1, <2>1, <2>2 DEF TypeOK
<1>3. ASSUME UNCHANGED <<graph, events, gone>>
      PROVE  Goal
  BY <1>3 DEF TypeOK
<1>4. ASSUME Tick
      PROVE  Goal
  <2>1. UNCHANGED <<graph, events>>
    BY <1>4 DEF Tick
  <2>2. gone' = [c \in Claims |->
                   IF c \in PublicClaims(graph) \/ gone[c] = Forever THEN gone[c] ELSE gone[c] + 1]
    BY <1>4 DEF Tick
  <2>3. gone' \in [Claims -> Nat]
    BY <2>2 DEF TypeOK
  <2> QED
    BY <1>1, <1>4, <2>1, <2>2, <2>3 DEF TypeOK
<1> HIDE DEF Goal
<1>5. ASSUME Elsewhere
      PROVE  Goal
  BY <1>2, <1>5 DEF Elsewhere
<1>6. ASSUME NEW c \in Claims, Reject(c)
      PROVE  Goal
  BY <1>2, <1>6 DEF Reject
<1>10. ASSUME NEW named, Reply(named)
      PROVE  Goal
  BY <1>3, <1>10 DEF Reply
<1>7. ASSUME OpenSession
      PROVE  Goal
  BY <1>2, <1>7 DEF OpenSession
<1>8. ASSUME Visit \/ RejectNot \/ (\E m \in Questions : Ask(m)) \/ Restart \/ UNCHANGED vars
      PROVE  Goal
  BY <1>3, <1>8 DEF Visit, RejectNot, Ask, Restart, vars
<1>9. Goal
  BY <1>4, <1>5, <1>6, <1>7, <1>8, <1>10 DEF Next
<1> QED
  BY <1>9 DEF Goal

\* A question holds what it was asked of, and what was cited of that.
LEMMA QuestionStep ==
  ASSUME TypeOK, [Next]_vars
  PROVE  \/ question' \in {question, NoQuestion}
         \/ \E matching \in Questions :
              question' = [claims |-> Retrieve(matching), cited |-> {},
                           unpublished |-> {c \in Claims : gone[c] > TTL}]
         \/ /\ question # NoQuestion
            /\ \E named \in SUBSET Claims : question' = [question EXCEPT !.cited = Verified(named)]
<1>1. CASE \E matching \in Questions : Ask(matching)
  BY <1>1 DEF Ask
<1>2. CASE \E named \in SUBSET Claims : Reply(named)
  BY <1>2 DEF Reply
<1>3. CASE Elsewhere \/ OpenSession \/ Visit \/ RejectNot \/ Restart \/ Tick \/ UNCHANGED vars
  BY <1>3 DEF Elsewhere, OpenSession, Visit, RejectNot, Restart, Tick, vars
<1>4. CASE \E c \in Claims : Reject(c)
  BY <1>4 DEF Reject
<1> QED
  BY <1>1, <1>2, <1>3, <1>4 DEF Next

\* The service's state is what it should be, and so is what it folded.
THEOREM TypeCorrect == Spec => []TypeOK
<1>1. Init => TypeOK
  <2> SUFFICES ASSUME Init
               PROVE  TypeOK
    OBVIOUS
  <2>1. PICK committed \in Histories, found \in SUBSET Disputes, v \in Chosen :
          graph = [committed |-> committed, rejected |-> {}, found |-> found, resolved |-> {},
                   visibility |-> [c \in Claims |-> IF c \in committed THEN v ELSE "private"]]
    BY DEF Init
  <2>2. GoodGraph(graph)
    BY <2>1, ConstantTypes DEF GoodGraph, Graphs, ChosenForApproved, Visibilities
  <2>3. gone = [c \in Claims |-> IF c \in PublicClaims(graph) THEN 0 ELSE Forever]
    BY DEF Init
  <2>4. gone \in [Claims -> Nat]
    BY <2>3, ConstantTypes
  <2> QED
    BY <2>2, <2>4 DEF Init, TypeOK
<1>2. TypeOK /\ [Next]_vars => TypeOK'
  <2> SUFFICES ASSUME TypeOK, [Next]_vars
               PROVE  TypeOK'
    OBVIOUS
  <2>1. GoodGraph(graph') /\ (state' # NoState => GoodGraph(state'))
    BY GraphStep, StateStep DEF TypeOK
  <2>2. age' \in Nat /\ events' \in Nat /\ gone' \in [Claims -> Nat]
    BY StateStep, GoneStep
  <2>3. \A matching : Retrieve(matching) \subseteq Claims
    BY Asked, PublicAreClaims
  <2>4. question' \in [claims : SUBSET Claims, cited : SUBSET Claims, unpublished : SUBSET Claims]
                       \cup {NoQuestion}
    <3>1. {c \in Claims : gone[c] > TTL} \in SUBSET Claims
      OBVIOUS
    <3> QED
      BY <2>3, <3>1, QuestionStep DEF TypeOK, Verified
  <2>5. since' \in Nat /\ (epoch' # NoState => GoodGraph(epoch'))
    BY EpochStep DEF TypeOK
  <2> QED
    BY <2>1, <2>2, <2>4, <2>5 DEF TypeOK
<1> QED
  BY <1>1, <1>2, PTL DEF Spec

-----------------------------------------------------------------------------
(* What the dossier shows has been published.  A fold that is still used    *)
(* was the log's no longer ago than its age.                               *)

PublishedNow == \A c \in PublicClaims(graph) : gone[c] = 0

FoldIsRecent == Fresh => \A c \in PublicClaims(state) : gone[c] <= age

EpochIsRecent ==
  epoch # NoState /\ since <= TTL => \A c \in PublicClaims(epoch) : gone[c] <= since

AnswersFromRecord ==
  question # NoQuestion =>
    question.claims \cap question.unpublished = {} /\ question.cited \subseteq question.claims

PublishedInv == PublishedNow /\ FoldIsRecent /\ EpochIsRecent /\ AnswersFromRecord

\* The rules of the last epoch that are in force no more.
Former(g) ==
  IF epoch = NoState THEN {} ELSE Compile(epoch, Audience).rules \ Compile(g, Audience).rules

LEMMA RulesArePublic ==
  ASSUME NEW g
  PROVE  Compile(g, Audience).rules \subseteq PublicClaims(g)
  BY DEF PublicClaims, Compile, Kept, Beliefs

\* What the diff prints is in force, or was in the last epoch.
LEMMA PrintedWasARule ==
  ASSUME NEW g
  PROVE  Printed(g) \subseteq PublicClaims(g) \cup Former(g)
<1>1. CASE epoch = NoState
  BY <1>1 DEF Printed
<1>2. CASE epoch # NoState
  <2> DEFINE old == Compile(epoch, Audience).rules
             new == Compile(g, Audience).rules
             changed == Changed(old, new)
  <2>1. \A p \in changed : p[1] \in old \ new /\ p[2] \in new
    BY DEF Changed
  <2>2. /\ DoctrineDiff(epoch, g).changed = changed
        /\ DoctrineDiff(epoch, g).added \subseteq new
        /\ DoctrineDiff(epoch, g).removed \subseteq old \ new
    BY DEF DoctrineDiff, Diff
  <2>3. new \subseteq PublicClaims(g) /\ Former(g) = old \ new
    BY <1>2, RulesArePublic DEF Former
  <2> HIDE DEF old, new, changed
  <2> QED
    BY <1>2, <2>1, <2>2, <2>3 DEF Printed
<1> QED
  BY <1>1, <1>2

\* Every page is within the published record, but for what the diff prints of the
\* last epoch: an open row has no rejected side, and what was never approved is
\* private.
LEMMA PagesAreOfTheRecord ==
  ASSUME Audience # "owner", NEW g, GoodGraph(g)
  PROVE  Shown(g) \subseteq PublicClaims(g) \cup Former(g)
<1>1. DoctrinePage(g) \subseteq PublicClaims(g)
  BY DEF DoctrinePage, PublicClaims, Compile, Kept, Beliefs
<1>2. ASSUME NEW k \in Open(g)
      PROVE  Quoted(g, k, Audience) \subseteq PublicClaims(g)
  <2>1. k \in Disputes /\ k.sides \cap g.rejected = {}
    BY <1>2 DEF Open, GoodGraph, Graphs
  <2>2. k.sides \subseteq Claims
    BY <2>1, LedgerAssumption
  <2>3. ASSUME NEW c \in Quoted(g, k, Audience)
        PROVE  c \in PublicClaims(g)
    <3>1. c \in k.sides /\ ReadableBy(g, c, Audience)
      BY <2>3 DEF Quoted
    <3>2. g.visibility[c] # "private"
      BY <3>1, ConstantTypes DEF ReadableBy, Clearance, Required, Audiences
    <3>3. c \in g.committed
      BY <2>1, <2>2, <3>1, <3>2 DEF GoodGraph, ChosenForApproved
    <3> QED
      BY <3>1, <3>3 DEF PublicClaims
  <2> QED
    BY <2>3
<1> QED
  BY <1>1, <1>2, PrintedWasARule DEF Shown

LEMMA RecentlyPublished ==
  ASSUME TypeOK, PublishedInv
  PROVE  \A c \in PublicClaims(Current) : gone[c] \in Nat /\ gone[c] <= TTL
<1>1. PublicClaims(Current) \subseteq Claims
  BY Asked, PublicAreClaims
<1>2. CASE Fresh
  <2>1. age \in Nat /\ age <= TTL /\ Current = state
    BY <1>2 DEF Fresh, Current, TypeOK
  <2> QED
    BY <1>1, <1>2, <2>1, ConstantTypes DEF PublishedInv, FoldIsRecent, TypeOK
<1>3. CASE ~Fresh
  BY <1>1, <1>3, ConstantTypes DEF Current, PublishedInv, PublishedNow, TypeOK
<1> QED
  BY <1>2, <1>3

LEMMA RecentSuffices ==
  ASSUME Audience # "owner", TypeOK, PublishedInv
  PROVE  ShownWasPublished
<1>1. ASSUME NEW c \in Shown(Current)
      PROVE  gone[c] <= TTL \/ (epoch # NoState /\ since > TTL /\ c \in Former(Current))
  <2>1. CASE c \in PublicClaims(Current)
    BY <2>1, RecentlyPublished
  <2>2. CASE c \in Former(Current)
    <3>1. epoch # NoState /\ c \in PublicClaims(epoch)
      BY <2>2, RulesArePublic DEF Former
    <3>2. c \in Claims /\ gone[c] \in Nat /\ since \in Nat
      BY <3>1, PublicAreClaims DEF TypeOK
    <3>3. since <= TTL => gone[c] <= since
      BY <3>1 DEF PublishedInv, EpochIsRecent
    <3> QED
      BY <2>2, <3>1, <3>2, <3>3, ConstantTypes
  <2> QED
    BY <2>1, <2>2, PagesAreOfTheRecord, Asked
<1>2. question # NoQuestion => question.cited \cap question.unpublished = {}
  BY DEF PublishedInv, AnswersFromRecord
<1> QED
  BY <1>1, <1>2 DEF ShownWasPublished, Former

\* A fold grows older by what it shows growing staler.
LEMMA FoldStep ==
  ASSUME TypeOK, PublishedInv, [Next]_vars
  PROVE  FoldIsRecent'
<1> SUFFICES ASSUME state' # NoState, age' <= TTL, NEW c \in PublicClaims(state')
             PROVE  gone'[c] <= age'
  BY DEF FoldIsRecent, Fresh
<1> USE DEF TypeOK
<1>0. c \in Claims /\ gone[c] \in Nat /\ gone'[c] \in Nat /\ age' \in Nat
  <2>1. GoodGraph(state')
    BY StateStep
  <2> QED
    BY <2>1, PublicAreClaims, GoneStep, StateStep
<1>1. ASSUME state' = graph, ~Tick
      PROVE  gone'[c] <= age'
  <2>1. gone[c] = 0
    BY <1>1 DEF PublishedInv, PublishedNow
  <2>2. gone'[c] = 0
    BY <1>0, <1>1, <2>1, GoneStep
  <2> QED
    BY <1>0, <2>2
<1>2. ASSUME state' = state, age' = age, ~Tick
      PROVE  gone'[c] <= age'
  <2>1. gone[c] <= age
    BY <1>2 DEF PublishedInv, FoldIsRecent, Fresh
  <2>2. gone'[c] = gone[c] \/ gone'[c] = 0
    BY <1>0, <1>2, GoneStep
  <2> QED
    BY <1>0, <1>2, <2>1, <2>2
<1>3. ASSUME Tick
      PROVE  gone'[c] <= age'
  <2>1. state' = state /\ age' = IF Fresh THEN age + 1 ELSE age
    BY <1>3 DEF Tick
  <2>2. Fresh
    BY <2>1 DEF Fresh
  <2>3. gone[c] <= age /\ age' = age + 1
    BY <2>1, <2>2 DEF PublishedInv, FoldIsRecent
  <2>4. gone'[c] \in {gone[c], 0, gone[c] + 1}
    BY <1>0, GoneStep
  <2> QED
    BY <1>0, <2>3, <2>4
<1>4. ASSUME Serve, ~Tick
      PROVE  gone'[c] <= age'
  BY <1>1, <1>2, <1>4 DEF Serve
<1>5. ASSUME Elsewhere, ~Tick
      PROVE  gone'[c] <= age'
  BY <1>2, <1>5 DEF Elsewhere
<1>6. ASSUME NEW d \in Claims, Reject(d), ~Tick
      PROVE  gone'[c] <= age'
  BY <1>2, <1>6 DEF Reject
<1>9. ASSUME NEW named, Reply(named), ~Tick
      PROVE  gone'[c] <= age'
  BY <1>2, <1>9 DEF Reply
<1>7. ASSUME Visit \/ \E matching \in Questions : Ask(matching), ~Tick
      PROVE  gone'[c] <= age'
  BY <1>4, <1>7 DEF Visit, Ask
<1>8. ASSUME OpenSession \/ RejectNot \/ Restart \/ UNCHANGED vars, ~Tick
      PROVE  gone'[c] <= age'
  BY <1>1, <1>2, <1>8 DEF OpenSession, RejectNot, Restart, vars
<1> QED
  BY <1>3, <1>5, <1>6, <1>7, <1>8, <1>9 DEF Next

\* What was published when the last session opened is gone for no longer.
LEMMA EpochIsRecentStep ==
  ASSUME TypeOK, PublishedInv, [Next]_vars
  PROVE  EpochIsRecent'
<1> SUFFICES ASSUME epoch' # NoState, since' <= TTL, NEW c \in PublicClaims(epoch')
             PROVE  gone'[c] <= since'
  BY DEF EpochIsRecent
<1> USE DEF TypeOK
<1>1. epoch' = epoch \/ epoch' = graph
  BY EpochStep
<1>2. c \in Claims
  BY <1>1, PublicAreClaims
<1>3. /\ gone[c] \in Nat /\ since \in Nat /\ since' \in Nat
      /\ \/ gone'[c] = gone[c]
         \/ gone'[c] = 0
         \/ Tick /\ gone'[c] = gone[c] + 1
  BY <1>2, GoneStep, EpochStep
<1>4. CASE ~Tick /\ epoch' = graph /\ graph' = graph /\ since' = 0
  BY <1>2, <1>3, <1>4 DEF PublishedInv, PublishedNow
<1>5. CASE Tick /\ epoch' = epoch /\ since' = IF since = Forever THEN since ELSE since + 1
  <2>1. since # Forever
    BY <1>5, ConstantTypes DEF Forever
  <2>2. gone[c] <= since
    BY <1>3, <1>5, <2>1, ConstantTypes DEF PublishedInv, EpochIsRecent
  <2> QED
    BY <1>3, <1>5, <2>1, <2>2
<1>6. CASE epoch' = epoch /\ since' = since /\ (Tick => gone' = gone)
  <2>1. gone[c] <= since
    BY <1>6 DEF PublishedInv, EpochIsRecent
  <2> QED
    BY <1>3, <1>6, <2>1
<1> QED
  BY <1>4, <1>5, <1>6, EpochStep

\* A question is asked of what has been published, and cites what it was given.
LEMMA AnswersStep ==
  ASSUME TypeOK, PublishedInv, [Next]_vars
  PROVE  AnswersFromRecord'
<1>1. ASSUME NEW matching,
             question' = [claims |-> Retrieve(matching), cited |-> {},
                          unpublished |-> {c \in Claims : gone[c] > TTL}]
      PROVE  AnswersFromRecord'
  <2>1. question'.claims = Retrieve(matching) /\ question'.cited = {}
    BY <1>1
  <2>2. question'.unpublished = {c \in Claims : gone[c] > TTL}
    BY <1>1
  <2>3. \A c \in Retrieve(matching) : ~ gone[c] > TTL
    BY Asked, RecentlyPublished, ConstantTypes
  <2> QED
    BY <2>1, <2>2, <2>3 DEF AnswersFromRecord
<1>2. ASSUME NEW named, question # NoQuestion, question' = [question EXCEPT !.cited = Verified(named)]
      PROVE  AnswersFromRecord'
  <2>1. /\ question'.claims = question.claims
        /\ question'.unpublished = question.unpublished
        /\ question'.cited = Verified(named)
    BY <1>2 DEF TypeOK
  <2> QED
    BY <1>2, <2>1 DEF Verified, PublishedInv, AnswersFromRecord
<1>3. ASSUME question' \in {question, NoQuestion}
      PROVE  AnswersFromRecord'
  BY <1>3 DEF PublishedInv, AnswersFromRecord
<1> QED
  BY <1>1, <1>2, <1>3, QuestionStep

\* Before any audience but the owner (BARAZA_PUBLIC_AUDIENCE may name the owner
\* too), nothing is shown or cited that has not been published for longer than
\* a fold may live, except by the diff, and there only rules of the last epoch.
THEOREM OnlyThePublishedIsShown ==
  ASSUME Audience # "owner"
  PROVE  Spec => []ShownWasPublished
<1>1. Init => PublishedInv
  <2> SUFFICES ASSUME Init
               PROVE  PublishedInv
    OBVIOUS
  <2>1. gone = [c \in Claims |-> IF c \in PublicClaims(graph) THEN 0 ELSE Forever]
    BY DEF Init
  <2>2. PublicClaims(graph) \subseteq Claims
    BY ConstantTypes DEF Init, PublicClaims
  <2>3. PublishedNow
    BY <2>1, <2>2 DEF PublishedNow
  <2>4. EpochIsRecent
    BY <2>3, ConstantTypes DEF Init, PublishedNow, EpochIsRecent
  <2> QED
    BY <2>3, <2>4 DEF Init, PublishedInv, FoldIsRecent, Fresh, AnswersFromRecord
<1>2. TypeOK /\ PublishedInv /\ [Next]_vars => PublishedInv'
  <2> SUFFICES ASSUME TypeOK, PublishedInv, [Next]_vars
               PROVE  PublishedInv'
    OBVIOUS
  <2>1. PublishedNow'
    BY GoneStep DEF PublishedInv, PublishedNow
  <2> QED
    BY <2>1, FoldStep, EpochIsRecentStep, AnswersStep DEF PublishedInv
<1>3. TypeOK /\ PublishedInv => ShownWasPublished
  BY RecentSuffices
<1> QED
  BY <1>1, <1>2, <1>3, TypeCorrect, PTL DEF Spec

-----------------------------------------------------------------------------
(* The order of statements, and what is in force.                          *)

LEMMA EarlierOrders ==
  ASSUME NEW c \in Claims, NEW d \in Claims
  PROVE  /\ ~Earlier(c, c)
         /\ c # d => Earlier(c, d) \/ Earlier(d, c)
         /\ \A e \in Claims : Earlier(e, c) /\ Earlier(c, d) => Earlier(e, d)
  BY DetectAssumption DEF Earlier

\* Of some claims, there is one that none of them precedes.
LEMMA SomeoneSaidItFirst ==
  ASSUME NEW T, T \subseteq Claims, T # {}
  PROVE  \E d \in T : \A e \in T : ~Earlier(e, d)
<1> DEFINE below(d) == {e \in T : Earlier(e, d)}
           B == {below(d) : d \in T}
           R == StrictSubsetOrdering(T)
<1>1. IsFiniteSet(T)
  BY DetectAssumption, FS_Subset
<1>2. IsWellFoundedOn(R, SUBSET T)
  BY <1>1, FS_StrictSubsetOrderingWellFounded, FS_FiniteSubsetsOfFinite
<1>3. B \subseteq SUBSET T /\ B # {}
  OBVIOUS
<1>4. \E b \in B : \A y \in B : <<y, b>> \notin R
  <2> HIDE DEF B, R
  <2> QED
    BY <1>2, <1>3, WFMin
<1>5. PICK d \in T : \A y \in B : <<y, below(d)>> \notin R
  BY <1>4
<1>6. ASSUME NEW e \in T, Earlier(e, d)
      PROVE  FALSE
  <2>1. below(e) \subseteq below(d)
    BY <1>6, EarlierOrders
  <2>2. e \in below(d) /\ e \notin below(e)
    BY <1>6, EarlierOrders
  <2>3. <<below(e), below(d)>> \in R
    BY <2>1, <2>2 DEF StrictSubsetOrdering
  <2> QED
    BY <1>5, <2>3
<1> QED
  BY <1>6

\* What collides with a belief, or is a side of an open row of beliefs, is in
\* a conflict, and what is in a conflict is no rule.
LEMMA DisputedIsInConflict ==
  ASSUME NEW g, NEW audience, NEW c \in Compile(g, audience).rules
  PROVE  /\ c \in Beliefs(g)
         /\ ~\E d \in Beliefs(g) : Collide(c, d)
         /\ ~\E k \in Open(g) : c \in k.sides /\ k.sides \subseteq Beliefs(g)
<1> DEFINE conflicts == Conflicts(g, audience)
<1>1. c \in Beliefs(g) /\ c \notin UNION conflicts
  BY DEF Compile, Kept
<1>2. ASSUME NEW d \in Beliefs(g), Collide(c, d)
      PROVE  FALSE
  <2> DEFINE alike == {e \in Beliefs(g) : Slot(e) = Slot(c) /\ \E f \in Beliefs(g) : Collide(e, f)}
  <2>1. c \in alike
    BY <1>1, <1>2
  <2>2. alike \in Structural(Beliefs(g))
    BY <1>1, <2>1 DEF Structural
  <2> QED
    BY <1>1, <2>1, <2>2 DEF Conflicts
<1>3. ASSUME NEW k \in Open(g), c \in k.sides, k.sides \subseteq Beliefs(g)
      PROVE  FALSE
  BY <1>1, <1>3 DEF Conflicts, OfLedger
<1> QED
  BY <1>1, <1>2, <1>3

\* Every rule shown to an audience is, in its words, a rule of the owner, who
\* may read everything.
LEMMA OwnerHasTheRule ==
  ASSUME NEW g, GoodGraph(g), NEW audience, NEW c \in Compile(g, audience).rules
  PROVE  \E d \in Compile(g, "owner").rules : Same(c, d)
<1> DEFINE undisputed == Beliefs(g) \ UNION Conflicts(g, "owner")
           T == {e \in undisputed : Same(c, e)}
<1>1. undisputed \subseteq Claims
  BY DoctrineAssumption DEF Beliefs
<1>2. c \in undisputed
  BY DEF Compile, Kept, Conflicts
<1>3. c \in T /\ T \subseteq Claims
  BY <1>1, <1>2 DEF Same
<1>4. PICK d \in T : \A e \in T : ~Earlier(e, d)
  BY <1>3, SomeoneSaidItFirst
<1>5. ASSUME NEW e \in Claims
      PROVE  ReadableBy(g, e, "owner")
  BY DEF ReadableBy, Clearance, Required, GoodGraph, Graphs, Visibilities
<1>6. {e \in undisputed : ReadableBy(g, e, "owner")} = undisputed
  BY <1>1, <1>5
<1>7. Compile(g, "owner").rules = Kept(undisputed)
  BY <1>6 DEF Compile
<1>8. ASSUME NEW e \in undisputed, <<d, e>> \in Repeats
      PROVE  FALSE
  <2>1. Same(d, e) /\ Earlier(e, d)
    BY <1>8 DEF Repeats
  <2>2. e \in T
    BY <1>4, <2>1 DEF Same
  <2> QED
    BY <1>4, <2>1, <2>2
<1>9. d \in Kept(undisputed)
  BY <1>4, <1>8 DEF Kept
<1> QED
  BY <1>4, <1>7, <1>9

\* No rule in force, of the owner or of the audience, is disputed by committed
\* beliefs, readable or not, and every rule shown is a rule of the owner: for
\* any claims, any audience and any boundary.
THEOREM TheDisputedIsNotInForce == Spec => []NothingDisputedInForce
<1>1. TypeOK => NothingDisputedInForce
  BY DisputedIsInConflict, OwnerHasTheRule DEF TypeOK, NothingDisputedInForce
<1> QED
  BY <1>1, TypeCorrect, PTL

-----------------------------------------------------------------------------
(* The diff.                                                               *)

\* Of two rules of a slot the later has more before it.
LEMMA PlaceGrows ==
  ASSUME NEW rules, rules \subseteq Claims, NEW c \in rules, NEW d \in rules,
         Slot(c) = Slot(d), Earlier(c, d)
  PROVE  Place(c, rules) # Place(d, rules)
<1> DEFINE before(e) == {f \in rules : Slot(f) = Slot(e) /\ Earlier(f, e)}
<1>1. IsFiniteSet(rules)
  BY DetectAssumption, FS_Subset
<1>2. IsFiniteSet(before(d))
  BY <1>1, FS_Subset
<1>3. before(c) \subseteq before(d)
  BY EarlierOrders
<1>4. c \in before(d) /\ c \notin before(c)
  BY EarlierOrders
<1>5. Cardinality(before(c)) # Cardinality(before(d))
  <2> HIDE DEF before
  <2> QED
    BY <1>2, <1>3, <1>4, FS_Subset
<1> QED
  BY <1>5 DEF Place

LEMMA PlacesDiffer ==
  ASSUME NEW rules, rules \subseteq Claims, NEW c \in rules, NEW d \in rules,
         Slot(c) = Slot(d), Place(c, rules) = Place(d, rules)
  PROVE  c = d
  BY EarlierOrders, PlaceGrows

\* A rule is in at most one pair of the changed.
LEMMA PairedOnce ==
  ASSUME NEW old, old \subseteq Claims, NEW new, new \subseteq Claims
  PROVE  LET changed == Changed(old, new)
         IN  /\ Cardinality({p[1] : p \in changed}) = Cardinality(changed)
             /\ Cardinality({p[2] : p \in changed}) = Cardinality(changed)
<1> DEFINE changed == Changed(old, new)
           outs == {p[1] : p \in changed}
           ins == {p[2] : p \in changed}
           first == [p \in changed |-> p[1]]
           second == [p \in changed |-> p[2]]
<1>1. changed \subseteq Claims \X Claims
  BY DEF Changed
<1>2. IsFiniteSet(changed)
  BY <1>1, DetectAssumption, FS_Product, FS_Subset
<1>3. ASSUME NEW p \in changed, NEW q \in changed, p[1] = q[1] \/ p[2] = q[2]
      PROVE  p = q
  <2>1. /\ p = <<p[1], p[2]>> /\ q = <<q[1], q[2]>>
        /\ p[1] \in old \ new /\ q[1] \in old \ new /\ p[2] \in new \ old /\ q[2] \in new \ old
        /\ Slot(p[1]) = Slot(p[2]) /\ Slot(q[1]) = Slot(q[2])
        /\ Place(p[1], old \ new) = Place(p[2], new \ old)
        /\ Place(q[1], old \ new) = Place(q[2], new \ old)
    BY DEF Changed
  <2>2. p[1] = q[1] /\ p[2] = q[2]
    <3>1. CASE p[1] = q[1]
      BY <2>1, <3>1, PlacesDiffer
    <3>2. CASE p[2] = q[2]
      BY <2>1, <3>2, PlacesDiffer
    <3> QED
      BY <1>3, <3>1, <3>2
  <2> QED
    BY <2>1, <2>2
<1> HIDE DEF changed
<1>4. first \in Bijection(changed, outs)
  BY <1>3 DEF Bijection, Injection, Surjection, IsInjective
<1>5. second \in Bijection(changed, ins)
  BY <1>3 DEF Bijection, Injection, Surjection, IsInjective
<1>6. Cardinality(outs) = Cardinality(changed) /\ Cardinality(ins) = Cardinality(changed)
  <2> HIDE DEF outs, ins, first, second
  <2> QED
    BY <1>2, <1>4, <1>5, FS_Bijection DEF ExistsBijection
<1> QED
  BY <1>6 DEF changed

\* Removals and changes taken away and additions put in, the old is the new.
LEMMA DiffAddsUp ==
  ASSUME NEW old, NEW new
  PROVE  LET it == Diff(old, new)
             outs == {p[1] : p \in it.changed}
             ins == {p[2] : p \in it.changed}
         IN  /\ (old \ (it.removed \cup outs)) \cup it.added \cup ins = new
             /\ it.removed \cap outs = {} /\ it.added \cap ins = {}
<1> DEFINE changed == Changed(old, new)
           outs == {p[1] : p \in changed}
           ins == {p[2] : p \in changed}
<1>1. outs \subseteq old \ new /\ ins \subseteq new \ old
  BY DEF Changed
<1>2. /\ Diff(old, new).changed = changed
      /\ Diff(old, new).removed = (old \ new) \ outs
      /\ Diff(old, new).added = (new \ old) \ ins
  BY DEF Diff
<1> HIDE DEF changed, outs, ins
<1>3. /\ (old \ (((old \ new) \ outs) \cup outs)) \cup ((new \ old) \ ins) \cup ins = new
      /\ ((old \ new) \ outs) \cap outs = {} /\ ((new \ old) \ ins) \cap ins = {}
  BY <1>1
<1> QED
  BY <1>2, <1>3 DEF outs, ins

\* The entries of the diff account for every rule, and for each one once,
\* whichever folds the two sides are of.
THEOREM DiffIsExact == Spec => []DiffAccounts
<1>1. \A g : Compile(g, Audience).rules \subseteq Claims
  BY DoctrineAssumption DEF Compile, Kept, Beliefs
<1>2. ASSUME NEW old, old \subseteq Claims, NEW new, new \subseteq Claims
      PROVE  LET it == Diff(old, new)
                 outs == {p[1] : p \in it.changed}
                 ins == {p[2] : p \in it.changed}
             IN  /\ (old \ (it.removed \cup outs)) \cup it.added \cup ins = new
                 /\ it.removed \cap outs = {} /\ it.added \cap ins = {}
                 /\ Cardinality(outs) = Cardinality(it.changed)
                 /\ Cardinality(ins) = Cardinality(it.changed)
  BY <1>2, PairedOnce, DiffAddsUp DEF Diff
<1>3. DiffAccounts
  BY <1>1, <1>2 DEF DiffAccounts, DoctrineDiff
<1> QED
  BY <1>3, PTL

-----------------------------------------------------------------------------
(* The ledger of an audience is ranked: each row has one place, and every   *)
(* place has one row.  The boundary has no part in that.                    *)

StrictLinear(R, S) ==
  /\ \A t \in S : <<t, t>> \notin R
  /\ \A t, u, v \in S : <<t, u>> \in R /\ <<u, v>> \in R => <<t, v>> \in R
  /\ \A t, u \in S : t # u => <<t, u>> \in R \/ <<u, t>> \in R

Over(R, S, t) == {u \in S : <<u, t>> \in R}

\* Who comes before another has fewer before it.
LEMMA FewerOver ==
  ASSUME NEW S, IsFiniteSet(S), NEW R, StrictLinear(R, S),
         NEW t \in S, NEW u \in S, <<t, u>> \in R
  PROVE  /\ Cardinality(Over(R, S, t)) \in Nat /\ Cardinality(Over(R, S, u)) \in Nat
         /\ Cardinality(Over(R, S, t)) < Cardinality(Over(R, S, u))
<1>1. Over(R, S, t) \subseteq Over(R, S, u) /\ t \in Over(R, S, u) /\ t \notin Over(R, S, t)
  BY DEF StrictLinear, Over
<1>2. IsFiniteSet(Over(R, S, u)) /\ Cardinality(Over(R, S, u)) \in Nat
  BY FS_Subset, FS_CardinalityType DEF Over
<1>3. IsFiniteSet(Over(R, S, t)) /\ Cardinality(Over(R, S, t)) <= Cardinality(Over(R, S, u))
      /\ Cardinality(Over(R, S, t)) # Cardinality(Over(R, S, u))
  BY <1>1, <1>2, FS_Subset
<1> QED
  BY <1>2, <1>3, FS_CardinalityType

\* Every place is taken, and by one element.
LEMMA OnePlaceEach ==
  ASSUME NEW S, IsFiniteSet(S), NEW R, StrictLinear(R, S)
  PROVE  /\ Cardinality(S) \in Nat
         /\ \A t \in S : Cardinality(Over(R, S, t)) + 1 \in 1..Cardinality(S)
         /\ \A n \in 1..Cardinality(S) : \E t \in S : Cardinality(Over(R, S, t)) = n - 1
         /\ \A t, u \in S : Cardinality(Over(R, S, t)) = Cardinality(Over(R, S, u)) => t = u
<1> DEFINE N == Cardinality(S)
           place == [t \in S |-> Cardinality(Over(R, S, t)) + 1]
<1>1. N \in Nat
  BY FS_CardinalityType
<1>2. ASSUME NEW t \in S
      PROVE  Cardinality(Over(R, S, t)) \in Nat /\ Cardinality(Over(R, S, t)) < N
  <2>1. Over(R, S, t) \subseteq S /\ t \notin Over(R, S, t)
    BY DEF StrictLinear, Over
  <2>2. IsFiniteSet(Over(R, S, t)) /\ Cardinality(Over(R, S, t)) <= N
        /\ Cardinality(Over(R, S, t)) # N
    BY <2>1, FS_Subset
  <2> QED
    BY <2>2, <1>1, FS_CardinalityType
<1>3. \A t, u \in S : Cardinality(Over(R, S, t)) = Cardinality(Over(R, S, u)) => t = u
  <2> SUFFICES ASSUME NEW t \in S, NEW u \in S, t # u
               PROVE  Cardinality(Over(R, S, t)) # Cardinality(Over(R, S, u))
    OBVIOUS
  <2>1. <<t, u>> \in R \/ <<u, t>> \in R
    BY DEF StrictLinear
  <2> QED
    BY <2>1, <1>2, FewerOver
<1>4. place \in [S -> 1..N]
  BY <1>1, <1>2
<1>5. place \in Injection(S, 1..N)
  BY <1>2, <1>3, <1>4 DEF Injection, IsInjective
<1>6. IsFiniteSet(1..N) /\ Cardinality(1..N) = N
  BY <1>1, FS_Interval
<1>7. place \in Surjection(S, 1..N)
  BY <1>5, <1>6, FS_Injection
<1>8. ASSUME NEW n \in 1..N
      PROVE  \E t \in S : Cardinality(Over(R, S, t)) = n - 1
  <2>1. PICK t \in S : place[t] = n
    BY <1>7 DEF Surjection
  <2> QED
    BY <2>1, <1>2
<1> QED
  BY <1>1, <1>2, <1>3, <1>8

\* A finite set of numbers has a least and a greatest.
LEMMA Extremes ==
  ASSUME NEW S, IsFiniteSet(S), S # {}, S \subseteq Int
  PROVE  /\ Max(S) \in S /\ \A n \in S : n <= Max(S)
         /\ Min(S) \in S /\ \A n \in S : Min(S) <= n
<1> DEFINE R == {p \in Int \X Int : p[1] < p[2]}
<1>1. StrictLinear(R, S)
  BY DEF StrictLinear
<1>2. \A m, n \in S : <<m, n>> \in R => m < n
  OBVIOUS
<1> HIDE DEF R
<1>3. PICK N \in Nat : N = Cardinality(S) /\ N # 0
  BY FS_CardinalityType, FS_EmptySet
<1>11. \A n \in 1..N : \E t \in S : Cardinality(Over(R, S, t)) = n - 1
  <2>1. \A n \in 1..Cardinality(S) : \E t \in S : Cardinality(Over(R, S, t)) = n - 1
    <3>1. IsFiniteSet(S) /\ StrictLinear(R, S)
      BY <1>1
    <3>2. /\ Cardinality(S) \in Nat
          /\ \A t \in S : Cardinality(Over(R, S, t)) + 1 \in 1..Cardinality(S)
          /\ \A n \in 1..Cardinality(S) : \E t \in S : Cardinality(Over(R, S, t)) = n - 1
          /\ \A t, u \in S : Cardinality(Over(R, S, t)) = Cardinality(Over(R, S, u)) => t = u
      BY <3>1, OnePlaceEach
    <3> QED
      BY <3>2
  <2> QED
    BY <1>3, <2>1
<1>4. PICK low \in S : Cardinality(Over(R, S, low)) = 0
  <2>1. 1 \in 1..N /\ 1 - 1 = 0
    BY <1>3
  <2>3. \E t \in S : Cardinality(Over(R, S, t)) = 1 - 1
    BY <1>11, <2>1
  <2> QED
    BY <2>1, <2>3
<1>5. PICK high \in S : Cardinality(Over(R, S, high)) = N - 1
  <2>1. N \in 1..N
    BY <1>3
  <2> QED
    BY <1>11, <2>1
<1>6. ASSUME NEW n \in S
      PROVE  low <= n /\ n <= high
  <2>1. <<n, low>> \notin R
    BY <1>1, <1>4, FewerOver
  <2>2. <<high, n>> \notin R
    <3> SUFFICES ASSUME <<high, n>> \in R PROVE FALSE
      OBVIOUS
    <3>1. Cardinality(Over(R, S, n)) \in Nat /\ N - 1 < Cardinality(Over(R, S, n))
      BY <1>1, <1>5, FewerOver
    <3>2. Cardinality(Over(R, S, n)) + 1 \in 1..N
      BY <1>1, <1>3, OnePlaceEach
    <3> QED
      BY <3>1, <3>2
  <2> QED
    BY <2>1, <2>2 DEF R
<1>7. \E x \in S : \A y \in S : x >= y
  BY <1>6
<1>8. \E x \in S : \A y \in S : x <= y
  BY <1>6
<1>9. Max(S) \in S /\ \A y \in S : Max(S) >= y
  BY <1>7 DEF Max
<1>10. Min(S) \in S /\ \A y \in S : Min(S) <= y
  BY <1>8 DEF Min
<1> QED
  BY <1>9, <1>10

LEMMA FinitelyManyValues ==
  ASSUME NEW S, IsFiniteSet(S), NEW T, NEW f \in [S -> T]
  PROVE  IsFiniteSet({f[s] : s \in S})
<1>1. f \in [S -> {f[s] : s \in S}]
  OBVIOUS
<1>2. f \in Surjection(S, {f[s] : s \in S})
  BY <1>1 DEF Surjection
<1> QED
  BY <1>2, FS_Surjection

LEMMA NewestIsAnInstant ==
  ASSUME NEW k \in Disputes
  PROVE  NewestClaimAt(k) \in Int
<1> DEFINE S == {Attr[c].observed : c \in k.sides}
<1>1. k.sides \subseteq Claims /\ k.sides # {} /\ IsFiniteSet(k.sides)
  <2>1. k.sides \subseteq Claims /\ Cardinality(k.sides) > 1
    BY LedgerAssumption
  <2>2. k.sides # {}
    BY <2>1, FS_EmptySet
  <2> QED
    BY <2>1, <2>2, DetectAssumption, FS_Subset
<1>2. S # {} /\ S \subseteq Int
  BY <1>1, DetectAssumption
<1>3. IsFiniteSet(S)
  <2> DEFINE f == [c \in k.sides |-> Attr[c].observed]
  <2>1. S = {f[c] : c \in k.sides}
    OBVIOUS
  <2>2. f \in [k.sides -> S]
    OBVIOUS
  <2> HIDE DEF f, S
  <2>3. IsFiniteSet({f[c] : c \in k.sides})
    BY <1>1, <2>2, FinitelyManyValues
  <2> QED
    BY <2>1, <2>3
<1> HIDE DEF S
<1>4. Max(S) \in Int
  BY <1>2, <1>3, Extremes
<1> QED
  BY <1>4 DEF NewestClaimAt, S

LEMMA Rounded ==
  ASSUME NEW m \in Int, NEW n \in Int, n > 0
  PROVE  m \div n \in Int
  OBVIOUS

LEMMA Product ==
  ASSUME NEW m \in Int, NEW n \in Int
  PROVE  m * n \in Int
  OBVIOUS

\* The score of an open row is a number.
LEMMA ScoreIsANumber ==
  ASSUME NEW open, open \subseteq Disputes, NEW k \in open
  PROVE  Score(k, open) \in Int
<1> DEFINE instants == {NewestClaimAt(j) : j \in open}
           width == {Max(instants) - Min(instants), 1}
           span == Max(width)
           recency == span + NewestClaimAt(k) - Min(instants)
<1>1. IsFiniteSet(open)
  BY LedgerAssumption, FS_Subset
<1>2. IsFiniteSet(instants)
  <2> DEFINE f == [j \in open |-> NewestClaimAt(j)]
  <2>1. instants = {f[j] : j \in open}
    OBVIOUS
  <2>2. f \in [open -> instants]
    OBVIOUS
  <2> HIDE DEF f, instants
  <2>3. IsFiniteSet({f[j] : j \in open})
    BY <1>1, <2>2, FinitelyManyValues
  <2> QED
    BY <2>1, <2>3
<1>3. instants # {} /\ instants \subseteq Int
  BY NewestIsAnInstant
<1>4. NewestClaimAt(k) \in Int
  BY NewestIsAnInstant
<1> HIDE DEF instants
<1>5. Max(instants) \in Int /\ Min(instants) \in Int
  BY <1>2, <1>3, Extremes
<1>6. width # {} /\ width \subseteq Int /\ 1 \in width
  BY <1>5
<1>7. IsFiniteSet(width)
  <2>1. PICK n \in Int : n = Max(instants) - Min(instants)
    BY <1>5
  <2>2. IsFiniteSet({1})
    BY FS_Singleton
  <2>3. IsFiniteSet({1} \cup {n})
    BY <2>2, FS_AddElement
  <2>4. {1} \cup {n} = width
    BY <2>1
  <2> QED
    BY <2>3, <2>4
<1> HIDE DEF width
<1>8. span \in Int /\ span >= 1
  BY <1>6, <1>7, Extremes
<1> HIDE DEF span
<1>9. recency \in Int
  BY <1>4, <1>5, <1>8
<1> HIDE DEF recency
<1>10. Weight[k].confidence \in Int /\ Weight[k].stakes \in Int /\ Spread(k) \in Int
  BY LedgerAssumption DEF Spread
<1> DEFINE first == 5 * Weight[k].confidence
<1>11. first \in Int
  BY <1>10
<1> HIDE DEF first
<1> DEFINE second == first * Weight[k].stakes
<1>12. second \in Int
  BY <1>10, <1>11, Product
<1> HIDE DEF second
<1> DEFINE third == second * recency
<1>13. third \in Int
  BY <1>9, <1>12, Product
<1> HIDE DEF third
<1> DEFINE fourth == third * Spread(k)
<1>14. fourth \in Int
  BY <1>10, <1>13, Product
<1> HIDE DEF fourth
<1>15. fourth + 2 * span \in Int /\ 4 * span \in Int /\ 4 * span > 0
  BY <1>8, <1>14
<1>16. (fourth + 2 * span) \div (4 * span) \in Int
  BY <1>15, Rounded
<1>17. Score(k, open) = (fourth + 2 * span) \div (4 * span)
  BY DEF Score, first, second, third, fourth, span, width, instants, recency
<1> QED
  BY <1>16, <1>17

\* A key is an order of numbers: by score, then by date, then by id.
LEMMA KeysAreOrdered ==
  ASSUME NEW open, open \subseteq Disputes
  PROVE  /\ \A j \in open : ~Above(j, j, open)
         /\ \A i, j, k \in open : Above(i, j, open) /\ Above(j, k, open) => Above(i, k, open)
         /\ \A j, k \in open : j # k => Above(j, k, open) \/ Above(k, j, open)
<1>1. \A k \in open : Score(k, open) \in Int /\ NewestClaimAt(k) \in Int /\ Weight[k].rank \in Int
  BY ScoreIsANumber, NewestIsAnInstant, LedgerAssumption
<1>2. \A j, k \in open : Weight[j].rank = Weight[k].rank => j = k
  BY LedgerAssumption
<1>3. ASSUME NEW j \in open PROVE ~Above(j, j, open)
  BY <1>1 DEF Above
<1>4. ASSUME NEW i \in open, NEW j \in open, NEW k \in open,
             Above(i, j, open), Above(j, k, open)
      PROVE  Above(i, k, open)
  BY <1>1, <1>4 DEF Above
<1>5. ASSUME NEW j \in open, NEW k \in open, j # k
      PROVE  Above(j, k, open) \/ Above(k, j, open)
  BY <1>1, <1>2, <1>5 DEF Above
<1> QED
  BY <1>3, <1>4, <1>5

\* What is ranked is there, all of it, and nothing twice.
LEMMA RankedIsAll ==
  ASSUME NEW open, open \subseteq Disputes, NEW rows, rows \subseteq open
  PROVE  /\ IsFiniteSet(rows) /\ Cardinality(rows) \in Nat
         /\ DOMAIN Ranked(rows, open) = 1..Cardinality(rows)
         /\ Len(Ranked(rows, open)) = Cardinality(rows)
         /\ \A n \in 1..Cardinality(rows) : Ranked(rows, open)[n] \in rows
         /\ Range(Ranked(rows, open)) = rows
<1> DEFINE R == {p \in rows \X rows : Above(p[1], p[2], open)}
           N == Cardinality(rows)
           list == Ranked(rows, open)
           AboveIt(k) == {j \in rows : Above(j, k, open)}
<1>1. IsFiniteSet(rows)
  BY LedgerAssumption, FS_Subset
<1>2. \A j, k \in rows : <<j, k>> \in R <=> Above(j, k, open)
  OBVIOUS
<1>3. \A k \in rows : Over(R, rows, k) = AboveIt(k)
  BY <1>2 DEF Over
<1> HIDE DEF R
<1>4. StrictLinear(R, rows)
  BY <1>2, KeysAreOrdered DEF StrictLinear
<1>5. /\ N \in Nat
      /\ \A k \in rows : Cardinality(AboveIt(k)) + 1 \in 1..N
      /\ \A n \in 1..N : \E k \in rows : Cardinality(AboveIt(k)) = n - 1
      /\ \A j, k \in rows : Cardinality(AboveIt(j)) = Cardinality(AboveIt(k)) => j = k
  <2> HIDE DEF AboveIt
  <2>1. /\ N \in Nat
        /\ \A k \in rows : Cardinality(Over(R, rows, k)) + 1 \in 1..N
        /\ \A n \in 1..N : \E k \in rows : Cardinality(Over(R, rows, k)) = n - 1
        /\ \A j, k \in rows : Cardinality(Over(R, rows, j)) = Cardinality(Over(R, rows, k)) => j = k
    BY <1>1, <1>4, OnePlaceEach
  <2> QED
    BY <1>3, <2>1
<1>6. list = [n \in 1..N |-> CHOOSE k \in rows : Cardinality(AboveIt(k)) = n - 1]
  BY DEF Ranked
<1> HIDE DEF list
<1>7. \A n \in 1..N : list[n] \in rows /\ Cardinality(AboveIt(list[n])) = n - 1
  BY <1>5, <1>6
<1>8. ASSUME NEW k \in rows
      PROVE  \E n \in 1..N : list[n] = k
  <2>1. PICK n \in 1..N : n = Cardinality(AboveIt(k)) + 1
    BY <1>5
  <2>2. IsFiniteSet(AboveIt(k))
    BY <1>1, FS_Subset
  <2>3. Cardinality(AboveIt(k)) = n - 1
    BY <2>1, <2>2, FS_CardinalityType
  <2> QED
    BY <2>3, <1>5, <1>7
<1>9. DOMAIN list = 1..N
  BY <1>6
<1>10. Len(list) = N
  <2>1. list \in Seq(rows)
    <3> HIDE DEF N
    <3>1. list \in [1..N -> rows]
      BY <1>6, <1>7
    <3> QED
      BY <1>5, <3>1
  <2> QED
    BY <2>1, <1>5, <1>9
<1>11. Range(list) = rows
  BY <1>7, <1>8, <1>9 DEF Range
<1> QED
  BY <1>1, <1>5, <1>7, <1>9, <1>10, <1>11 DEF list

\* The open rows are disagreements that were found, and the owner reads all.
LEMMA OpenAreFound ==
  ASSUME NEW g, GoodGraph(g)
  PROVE  /\ Open(g) \subseteq Disputes
         /\ \A k \in Open(g) : FullyReadable(g, k, "owner") /\ k.sides \subseteq Claims
<1>1. Open(g) \subseteq Disputes
  BY DEF Open, GoodGraph, Graphs
<1>2. ASSUME NEW k \in Open(g)
      PROVE  FullyReadable(g, k, "owner") /\ k.sides \subseteq Claims
  <2>1. k.sides \subseteq Claims
    BY <1>1, LedgerAssumption
  <2>2. \A c \in k.sides : g.visibility[c] \in Visibilities
    BY <2>1 DEF GoodGraph, Graphs
  <2>3. \A c \in k.sides : ReadableBy(g, c, "owner")
    BY <2>2 DEF ReadableBy, Clearance, Required, Visibilities
  <2> QED
    BY <2>1, <2>3 DEF FullyReadable, Quoted
<1> QED
  BY <1>1, <1>2

\* The place of an item in the agenda is that of its row in the ledger.
LEMMA AgendaIsOfRows ==
  ASSUME NEW g, GoodGraph(g), NEW audience
  PROVE  /\ DOMAIN Agenda(g, audience) = 1..Min({AgendaSize, Len(LedgerRows(g))})
         /\ \A i \in DOMAIN Agenda(g, audience) :
              /\ LedgerRows(g)[i] \in Open(g)
              /\ Agenda(g, audience)[i] = Item(g, LedgerRows(g)[i], audience)
<1> DEFINE rows == LedgerRows(g)
           size == {AgendaSize, Len(rows)}
<1>1. /\ Len(rows) \in Nat
      /\ \A n \in 1..Len(rows) : rows[n] \in Open(g)
  BY OpenAreFound, RankedIsAll DEF LedgerRows
<1>2. Agenda(g, audience) = [i \in 1..Min(size) |-> Item(g, rows[i], audience)]
  BY DEF Agenda
<1> HIDE DEF rows
<1>3. Min(size) \in Nat /\ Min(size) <= Len(rows)
  <2>1. AgendaSize \in Nat
    BY LedgerAssumption
  <2>2. PICK m \in Nat, n \in Nat : m = AgendaSize /\ n = Len(rows)
    BY <1>1, <2>1
  <2>3. IsFiniteSet({m} \cup {n})
    BY FS_Singleton, FS_AddElement
  <2>4. size = {m} \cup {n}
    BY <2>2
  <2>5. IsFiniteSet(size)
    BY <2>3, <2>4
  <2>6. size # {} /\ size \subseteq Int
    BY <2>2
  <2> HIDE DEF size
  <2>7. Min(size) \in size /\ \A k \in size : Min(size) <= k
    BY <2>5, <2>6, Extremes
  <2> QED
    BY <2>1, <2>7, <1>1 DEF size
<1> HIDE DEF size
<1>4. DOMAIN Agenda(g, audience) = 1..Min(size)
  BY <1>2
<1>5. ASSUME NEW i \in 1..Min(size)
      PROVE  rows[i] \in Open(g) /\ Agenda(g, audience)[i] = Item(g, rows[i], audience)
  BY <1>1, <1>2, <1>3
<1> QED
  BY <1>4, <1>5 DEF rows, size

LEMMA ItemFields ==
  ASSUME NEW g, NEW k, NEW audience
  PROVE  /\ Item(g, k, audience).row = k
         /\ FullyReadable(g, k, audience) => Item(g, k, audience).cited = k.sides
         /\ ~FullyReadable(g, k, audience) => Item(g, k, audience).cited = {}
  BY DEF Item

\* What is published and what is withheld make up what is committed.
LEMMA RecordAddsUp ==
  ASSUME NEW g, GoodGraph(g)
  PROVE  RecordSummary(g).published + RecordSummary(g).withheld = Cardinality(g.committed)
<1> DEFINE P == PublicClaims(g)
           W == g.committed \ PublicClaims(g)
<1>1. P \subseteq g.committed /\ g.committed = P \cup W /\ P \cap W = {}
  BY DEF PublicClaims
<1>2. IsFiniteSet(g.committed)
  BY DetectAssumption, FS_Subset DEF GoodGraph, Graphs
<1>3. IsFiniteSet(P) /\ IsFiniteSet(W)
  BY <1>1, <1>2, FS_Subset
<1> HIDE DEF P, W
<1>4. Cardinality(P \cup W) = Cardinality(P) + Cardinality(W) - Cardinality(P \cap W)
  BY <1>3, FS_Union
<1>5. Cardinality(P \cap W) = 0
  BY <1>1, FS_EmptySet
<1>6. Cardinality(P) \in Nat /\ Cardinality(W) \in Nat
  BY <1>3, FS_CardinalityType
<1>7. RecordSummary(g).published = Cardinality(P) /\ RecordSummary(g).withheld = Cardinality(W)
  BY DEF RecordSummary, P, W
<1> QED
  BY <1>1, <1>4, <1>5, <1>6, <1>7

\* Before any audience, whatever it may read: the agenda asks of the owner's
\* rows in the owner's order, the counts are honest, nothing is cited that may
\* not be read, and the public page has exactly the rows that may be quoted.
THEOREM BoundaryAlwaysKeepsAgenda == Spec => []BoundaryKeepsAgenda
<1>1. ASSUME GoodGraph(graph)
      PROVE  BoundaryKeepsAgenda
  <2> DEFINE agenda == Agenda(graph, Audience)
             owners == Agenda(graph, "owner")
             rows == LedgerRows(graph)
             whole == {k \in Open(graph) : FullyReadable(graph, k, Audience)}
  <2> USE <1>1
  <2>1. DOMAIN agenda = DOMAIN owners
    BY AgendaIsOfRows
  <2>2. \A i \in DOMAIN agenda :
          /\ rows[i] \in Open(graph)
          /\ agenda[i] = Item(graph, rows[i], Audience)
          /\ owners[i] = Item(graph, rows[i], "owner")
    BY <2>1, AgendaIsOfRows
  <2> HIDE DEF agenda, owners, rows
  <2>3. ASSUME NEW i \in DOMAIN agenda
        PROVE  agenda[i].row = owners[i].row
    BY <2>2, ItemFields
  <2>4. [i \in DOMAIN agenda |-> agenda[i].row] = [i \in DOMAIN owners |-> owners[i].row]
    BY <2>1, <2>3
  <2>5. ASSUME NEW i \in DOMAIN agenda, NEW c \in agenda[i].cited
        PROVE  ReadableBy(graph, c, Audience)
    <3>1. CASE FullyReadable(graph, rows[i], Audience)
      BY <2>2, <2>5, <3>1, ItemFields DEF FullyReadable, Quoted
    <3>2. CASE ~FullyReadable(graph, rows[i], Audience)
      BY <2>2, <2>5, <3>2, ItemFields
    <3> QED
      BY <3>1, <3>2
  <2>6. ASSUME NEW i \in DOMAIN owners
        PROVE  owners[i].cited = owners[i].row.sides
    BY <2>1, <2>2, OpenAreFound, ItemFields
  <2>7. LedgerSummary(graph, Audience).open = LedgerSummary(graph, "owner").open
    BY DEF LedgerSummary
  <2>8. whole \subseteq Open(graph) /\ Open(graph) \subseteq Disputes
    BY OpenAreFound
  <2>9. AgendaPreview(graph, Audience) = Ranked(whole, Open(graph))
    BY DEF AgendaPreview
  <2>10. LedgerSummary(graph, Audience).whole = Cardinality(whole)
    BY DEF LedgerSummary
  <2>11. /\ Range(AgendaPreview(graph, Audience)) = whole
         /\ Len(AgendaPreview(graph, Audience)) = LedgerSummary(graph, Audience).whole
    <3> HIDE DEF whole
    <3> QED
      BY <2>8, <2>9, <2>10, RankedIsAll
  <2>12. RecordSummary(graph).published + RecordSummary(graph).withheld
           = Cardinality(graph.committed)
    BY RecordAddsUp
  <2> QED
    BY <2>4, <2>5, <2>6, <2>7, <2>11, <2>12 DEF BoundaryKeepsAgenda, agenda, owners
<1>2. TypeOK => BoundaryKeepsAgenda
  BY <1>1 DEF TypeOK
<1> QED
  BY <1>2, TypeCorrect, PTL
=============================================================================
