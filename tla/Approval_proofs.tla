---------------------------- MODULE Approval_proofs ----------------------------
(***************************************************************************)
(* For any number of requests, batches, claims and cards: what submissions *)
(* that interleave and stop half way leave in the log.                     *)
(***************************************************************************)
EXTENDS Approval, SequenceTheorems, TLAPS

Elements(s) == {s[i] : i \in DOMAIN s}

-----------------------------------------------------------------------------
(* The events of one request.                                              *)

LEMMA HeadAndTail ==
  ASSUME NEW S, NEW s \in Seq(S), s # <<>>
  PROVE  /\ Head(s) = s[1] /\ Head(s) \in S /\ Tail(s) \in Seq(S)
         /\ \A j \in DOMAIN Tail(s) : j \in Nat /\ j + 1 \in DOMAIN s /\ Tail(s)[j] = s[j + 1]
         /\ \A j \in DOMAIN s : j \in Nat /\ (j = 1 \/ (j - 1 \in DOMAIN Tail(s) /\ Tail(s)[j - 1] = s[j]))
         /\ Elements(s) = {Head(s)} \cup Elements(Tail(s))
<1>1. /\ Head(s) = s[1] /\ Head(s) \in S /\ Tail(s) \in Seq(S)
      /\ Len(s) \in Nat \ {0} /\ Len(Tail(s)) = Len(s) - 1
      /\ DOMAIN s = 1..Len(s) /\ DOMAIN Tail(s) = 1..(Len(s) - 1)
      /\ \A j \in 1..(Len(s) - 1) : Tail(s)[j] = s[j + 1]
  OBVIOUS
<1>2. \A j \in DOMAIN Tail(s) : j \in Nat /\ j + 1 \in DOMAIN s /\ Tail(s)[j] = s[j + 1]
  BY <1>1
<1>3. \A j \in DOMAIN s : j \in Nat /\ (j = 1 \/ (j - 1 \in DOMAIN Tail(s) /\ Tail(s)[j - 1] = s[j]))
  BY <1>1
<1>4. 1 \in DOMAIN s
  BY <1>1
<1>5. Elements(s) = {Head(s)} \cup Elements(Tail(s))
  <2>1. ASSUME NEW e \in Elements(s) PROVE e = Head(s) \/ e \in Elements(Tail(s))
    <3>1. PICK j \in DOMAIN s : e = s[j]
      BY <2>1 DEF Elements
    <3> QED
      BY <1>1, <1>3, <3>1 DEF Elements
  <2>2. ASSUME NEW e \in Elements(Tail(s)) PROVE e \in Elements(s)
    <3>1. PICK j \in DOMAIN Tail(s) : e = Tail(s)[j]
      BY <2>2 DEF Elements
    <3> QED
      BY <1>2, <3>1 DEF Elements
  <2>3. Head(s) \in Elements(s)
    BY <1>1, <1>4 DEF Elements
  <2> QED
    BY <2>1, <2>2, <2>3
<1> QED
  BY <1>1, <1>2, <1>3, <1>5

LEMMA OneBeforeTwo ==
  ASSUME NEW a, NEW b, NEW c
  PROVE  <<a>> \o <<b, c>> = <<a, b, c>>
<1> DEFINE S == {a, b, c}
           s == <<a>> \o <<b, c>>
<1>1. <<a>> \in Seq(S) /\ <<b, c>> \in Seq(S) /\ <<a, b, c>> \in Seq(S)
  OBVIOUS
<1>2. Len(<<a>>) = 1 /\ Len(<<b, c>>) = 2 /\ Len(<<a, b, c>>) = 3
  OBVIOUS
<1>3. /\ s \in Seq(S) /\ Len(s) = 3
      /\ \A i \in 1..3 : s[i] = IF i <= 1 THEN <<a>>[i] ELSE <<b, c>>[i - 1]
  BY <1>1, <1>2, ConcatProperties
<1>4. \A i \in 1..3 : s[i] = <<a, b, c>>[i]
  BY <1>3
<1> HIDE DEF S, s
<1>5. s = <<a, b, c>>
  BY <1>1, <1>2, <1>3, <1>4, SeqEqual
<1> QED
  BY <1>5 DEF s

LEMMA OneAfterTwo ==
  ASSUME NEW b, NEW c, NEW d
  PROVE  <<b, c>> \o <<d>> = <<b, c, d>>
<1> DEFINE S == {b, c, d}
           s == <<b, c>> \o <<d>>
<1>1. <<b, c>> \in Seq(S) /\ <<d>> \in Seq(S) /\ <<b, c, d>> \in Seq(S)
  OBVIOUS
<1>2. Len(<<d>>) = 1 /\ Len(<<b, c>>) = 2 /\ Len(<<b, c, d>>) = 3
  OBVIOUS
<1>3. /\ s \in Seq(S) /\ Len(s) = 3
      /\ \A i \in 1..3 : s[i] = IF i <= 2 THEN <<b, c>>[i] ELSE <<d>>[i - 2]
  BY <1>1, <1>2, ConcatProperties
<1>4. \A i \in 1..3 : s[i] = <<b, c, d>>[i]
  BY <1>3
<1> HIDE DEF S, s
<1>5. s = <<b, c, d>>
  BY <1>1, <1>2, <1>3, <1>4, SeqEqual
<1> QED
  BY <1>5 DEF s

LEMMA OneAfterThree ==
  ASSUME NEW a, NEW b, NEW c, NEW d
  PROVE  <<a, b, c>> \o <<d>> = <<a, b, c, d>>
<1> DEFINE S == {a, b, c, d}
           s == <<a, b, c>> \o <<d>>
<1>1. <<a, b, c>> \in Seq(S) /\ <<d>> \in Seq(S) /\ <<a, b, c, d>> \in Seq(S)
  OBVIOUS
<1>2. Len(<<d>>) = 1 /\ Len(<<a, b, c>>) = 3 /\ Len(<<a, b, c, d>>) = 4
  OBVIOUS
<1>3. /\ s \in Seq(S) /\ Len(s) = 4
      /\ \A i \in 1..4 : s[i] = IF i <= 3 THEN <<a, b, c>>[i] ELSE <<d>>[i - 3]
  BY <1>1, <1>2, ConcatProperties
<1>4. \A i \in 1..4 : s[i] = <<a, b, c, d>>[i]
  BY <1>3
<1> HIDE DEF S, s
<1>5. s = <<a, b, c, d>>
  BY <1>1, <1>2, <1>3, <1>4, SeqEqual
<1> QED
  BY <1>5 DEF s

CommitOf(r, t, tie) == Event("claim.committed", t, tie.commit, Target(r))

ChoiceOf(r, t, tie) ==
  VisibilityEvent(t, tie.visibility, Target(r), IF r.vis = "unset" THEN "private" ELSE r.vis)

AssertionOf(r, t) == Event("claim.asserted", t, 2, Target(r))

RejectionOf(r, t) == Event("claim.rejected", t, 2, Target(r))

RetiredBy(r, t) == ResolvedEvent(t, Target(r), r.row)

LEMMA EventsOfApproval ==
  ASSUME NEW r, NEW t, NEW tie, r.decision = "approve"
  PROVE  EventsOf(r, t, tie) =
           IF r.edit = NoEdit
             THEN IF r.row = NoRow
                    THEN <<CommitOf(r, t, tie), ChoiceOf(r, t, tie)>>
                    ELSE <<CommitOf(r, t, tie), ChoiceOf(r, t, tie), RetiredBy(r, t)>>
             ELSE IF r.row = NoRow
                    THEN <<AssertionOf(r, t), CommitOf(r, t, tie), ChoiceOf(r, t, tie)>>
                    ELSE <<AssertionOf(r, t), CommitOf(r, t, tie), ChoiceOf(r, t, tie), RetiredBy(r, t)>>
<1> DEFINE a == AssertionOf(r, t)
           b == CommitOf(r, t, tie)
           c == ChoiceOf(r, t, tie)
           d == RetiredBy(r, t)
<1>1. EventsOf(r, t, tie) =
        (IF r.edit = NoEdit THEN <<>> ELSE <<a>>) \o <<b, c>> \o (IF r.row = NoRow THEN <<>> ELSE <<d>>)
  BY DEF EventsOf, AssertionOf, CommitOf, ChoiceOf, RetiredBy
<1> HIDE DEF a, b, c, d
<1>2. /\ (<<>> \o <<b, c>>) \o <<>> = <<b, c>>
      /\ (<<>> \o <<b, c>>) \o <<d>> = <<b, c, d>>
      /\ (<<a>> \o <<b, c>>) \o <<>> = <<a, b, c>>
      /\ (<<a>> \o <<b, c>>) \o <<d>> = <<a, b, c, d>>
  <2>1. /\ <<>> \o <<b, c>> = <<b, c>> /\ <<b, c>> \o <<>> = <<b, c>>
        /\ <<a, b, c>> \o <<>> = <<a, b, c>>
    OBVIOUS
  <2>2. <<a>> \o <<b, c>> = <<a, b, c>>
    BY OneBeforeTwo
  <2>3. <<b, c>> \o <<d>> = <<b, c, d>>
    BY OneAfterTwo
  <2>4. <<a, b, c>> \o <<d>> = <<a, b, c, d>>
    BY OneAfterThree
  <2> QED
    BY <2>1, <2>2, <2>3, <2>4, Zenon
<1> QED
  BY <1>1, <1>2 DEF a, b, c, d

LEMMA EventsOfOthers ==
  ASSUME NEW r, NEW t, NEW tie
  PROVE  /\ r.decision = "defer" => EventsOf(r, t, tie) = <<>>
         /\ r.decision = "reject" => EventsOf(r, t, tie) = <<RejectionOf(r, t)>>
  BY DEF EventsOf, RejectionOf

\* What a request's events are, whatever their order.
Asked(r, t, tie) ==
  CASE r.decision = "defer"   -> {}
    [] r.decision = "reject"  -> {RejectionOf(r, t)}
    [] r.decision = "approve" ->
         (IF r.edit = NoEdit THEN {} ELSE {AssertionOf(r, t)})
         \cup {CommitOf(r, t, tie), ChoiceOf(r, t, tie)}
         \cup (IF r.row = NoRow THEN {} ELSE {RetiredBy(r, t)})

Dependent == {"contradiction.resolved", "claim.visibility_set"}

LEMMA EventFields ==
  ASSUME NEW r, NEW t, NEW tie
  PROVE  /\ CommitOf(r, t, tie) = [type |-> "claim.committed", at |-> t, h |-> tie.commit, claim |-> Target(r)]
         /\ RejectionOf(r, t) = [type |-> "claim.rejected", at |-> t, h |-> 2, claim |-> Target(r)]
         /\ AssertionOf(r, t) = [type |-> "claim.asserted", at |-> t, h |-> 2, claim |-> Target(r)]
         /\ RetiredBy(r, t) = [type |-> "contradiction.resolved", at |-> t, h |-> 4,
                               claim |-> Target(r), row |-> r.row]
         /\ ChoiceOf(r, t, tie) =
              [type |-> "claim.visibility_set", at |-> t, h |-> tie.visibility, claim |-> Target(r),
               vis |-> IF r.vis = "unset" THEN "private" ELSE r.vis]
  BY DEF CommitOf, RejectionOf, AssertionOf, RetiredBy, ChoiceOf, Event, VisibilityEvent, ResolvedEvent

LEMMA FieldsOf ==
  ASSUME NEW r, NEW t, NEW tie, r.decision \in {"approve", "reject", "defer"},
         NEW e \in Asked(r, t, tie)
  PROVE  /\ e.at = t /\ e.claim = Target(r)
         /\ e.type \in {"claim.committed", "claim.rejected", "claim.asserted", "contradiction.resolved",
                        "claim.visibility_set"}
         /\ e.type = "claim.committed" => e = CommitOf(r, t, tie) /\ r.decision = "approve"
         /\ e.type = "claim.rejected" => e = RejectionOf(r, t) /\ r.decision = "reject"
         /\ e.type = "claim.visibility_set" => e = ChoiceOf(r, t, tie) /\ r.decision = "approve"
         /\ e.type = "claim.asserted" => r.decision = "approve" /\ r.edit # NoEdit
         /\ e.type = "contradiction.resolved" => e = RetiredBy(r, t) /\ r.decision = "approve"
<1>1. CASE r.decision = "defer"
  BY <1>1 DEF Asked
<1>2. CASE r.decision = "reject"
  BY <1>2, EventFields DEF Asked
<1>3. CASE r.decision = "approve"
  <2>1. \/ e = AssertionOf(r, t) /\ r.edit # NoEdit
        \/ e = CommitOf(r, t, tie)
        \/ e = ChoiceOf(r, t, tie)
        \/ e = RetiredBy(r, t)
    BY <1>3 DEF Asked
  <2> QED
    BY <1>3, <2>1, EventFields
<1> QED
  BY <1>1, <1>2, <1>3

LEMMA RequestEvents ==
  ASSUME NEW r, NEW t, NEW tie, r.decision \in {"approve", "reject", "defer"}
  PROVE  /\ EventsOf(r, t, tie) \in Seq(Asked(r, t, tie))
         /\ Elements(EventsOf(r, t, tie)) = Asked(r, t, tie)
         /\ \A j \in DOMAIN EventsOf(r, t, tie) :
              EventsOf(r, t, tie)[j].type \in Dependent =>
                \E k \in DOMAIN EventsOf(r, t, tie) :
                  k < j /\ EventsOf(r, t, tie)[k] = CommitOf(r, t, tie)
<1> DEFINE a == AssertionOf(r, t)
           b == CommitOf(r, t, tie)
           c == ChoiceOf(r, t, tie)
           d == RetiredBy(r, t)
           e == RejectionOf(r, t)
           Goal(s, S) ==
             /\ s \in Seq(S)
             /\ Elements(s) = S
             /\ \A j \in DOMAIN s : s[j].type \in Dependent => \E k \in DOMAIN s : k < j /\ s[k] = b
<1>0. /\ a.type \notin Dependent /\ b.type \notin Dependent /\ e.type \notin Dependent
  BY EventFields DEF Dependent
<1> HIDE DEF a, b, c, d, e
<1>1. Goal(<<>>, {})
  BY DEF Elements
<1>2. Goal(<<e>>, {e})
  BY <1>0 DEF Elements
<1>3. Goal(<<b, c>>, {b, c})
  BY <1>0 DEF Elements
<1>4. Goal(<<b, c, d>>, {b, c, d})
  BY <1>0 DEF Elements
<1>5. Goal(<<a, b, c>>, {a, b, c})
  BY <1>0 DEF Elements
<1>6. Goal(<<a, b, c, d>>, {a, b, c, d})
  BY <1>0 DEF Elements
<1>7. CASE r.decision = "defer"
  <2>1. EventsOf(r, t, tie) = <<>> /\ Asked(r, t, tie) = {}
    BY <1>7, EventsOfOthers DEF Asked
  <2> QED
    BY <1>1, <2>1 DEF b
<1>8. CASE r.decision = "reject"
  <2>1. EventsOf(r, t, tie) = <<e>> /\ Asked(r, t, tie) = {e}
    BY <1>8, EventsOfOthers DEF Asked, e
  <2> QED
    BY <1>2, <2>1 DEF b
<1>9. CASE r.decision = "approve"
  <2>1. CASE r.edit = NoEdit /\ r.row = NoRow
    <3>1. EventsOf(r, t, tie) = <<b, c>> /\ Asked(r, t, tie) = {b, c}
      BY <1>9, <2>1, EventsOfApproval DEF Asked, b, c
    <3> QED
      BY <1>3, <3>1 DEF b
  <2>2. CASE r.edit = NoEdit /\ r.row # NoRow
    <3>1. EventsOf(r, t, tie) = <<b, c, d>> /\ Asked(r, t, tie) = {b, c, d}
      BY <1>9, <2>2, EventsOfApproval DEF Asked, b, c, d
    <3> QED
      BY <1>4, <3>1 DEF b
  <2>3. CASE r.edit # NoEdit /\ r.row = NoRow
    <3>1. EventsOf(r, t, tie) = <<a, b, c>> /\ Asked(r, t, tie) = {a, b, c}
      BY <1>9, <2>3, EventsOfApproval DEF Asked, a, b, c
    <3> QED
      BY <1>5, <3>1 DEF b
  <2>4. CASE r.edit # NoEdit /\ r.row # NoRow
    <3>1. EventsOf(r, t, tie) = <<a, b, c, d>> /\ Asked(r, t, tie) = {a, b, c, d}
      BY <1>9, <2>4, EventsOfApproval DEF Asked, a, b, c, d
    <3> QED
      BY <1>6, <3>1 DEF b
  <2> QED
    BY <2>1, <2>2, <2>3, <2>4
<1> QED
  BY <1>7, <1>8, <1>9

-----------------------------------------------------------------------------
(* Submissions.                                                            *)

Decided(submission) ==
  \A i, j \in DOMAIN submission : Target(submission[i]) = Target(submission[j]) => i = j

\* Whatever the endpoint, a handler begins one well-formed submission.
Submissions == {s \in Seq(Requests) : Decided(s)}

LEMMA WellFormedRequest ==
  ASSUME NEW c \in Claims, NEW decision \in {"approve", "reject", "defer"},
         NEW row \in {Row(card) : card \in Cards} \cup {NoRow}, NEW edit \in Corrections \cup {NoEdit}
  PROVE  Request(c, decision, row, edit) \in Requests
  BY DEF Request, Requests

LEMMA PairOf ==
  ASSUME NEW S, NEW a \in S, NEW b \in S
  PROVE  /\ <<a, b>> \in Seq(S) /\ DOMAIN <<a, b>> = {1, 2} /\ <<a, b>>[1] = a /\ <<a, b>>[2] = b
         /\ <<a>> \in Seq(S) /\ DOMAIN <<a>> = {1} /\ <<a>>[1] = a
  OBVIOUS

LEMMA CardSubmission ==
  ASSUME NEW card \in Cards, NEW choice \in DivergenceChoices
  PROVE  DivergenceRequests(card, choice) \in Submissions
<1>1. /\ card.old \in Claims /\ card.new \in Claims /\ card.old # card.new
      /\ card.fix \in Corrections /\ NoEdit \notin Corrections
  BY ApprovalAssumption DEF Claims
<1>2. Row(card) \in {Row(d) : d \in Cards} \cup {NoRow}
  OBVIOUS
<1> DEFINE a == Request(card.new, "approve", Row(card), NoEdit)
           b == Request(card.old, "reject", NoRow, NoEdit)
           c == Request(card.new, "reject", NoRow, NoEdit)
           d == Request(card.old, "approve", Row(card), NoEdit)
           e == Request(card.new, "approve", Row(card), card.fix)
<1>3. a \in Requests /\ b \in Requests /\ c \in Requests /\ d \in Requests /\ e \in Requests
  BY <1>1, <1>2, WellFormedRequest
<1>4. /\ Target(a) = card.new /\ Target(b) = card.old /\ Target(c) = card.new /\ Target(d) = card.old
  BY DEF Target, Request
<1>5. /\ choice = "this_governs" => DivergenceRequests(card, choice) = <<a, b>>
      /\ choice = "that_governs" => DivergenceRequests(card, choice) = <<c, d>>
      /\ choice = "both_conditional" => DivergenceRequests(card, choice) = <<e>>
  BY DEF DivergenceRequests
<1> HIDE DEF a, b, c, d, e
<1>6. <<a, b>> \in Submissions /\ <<c, d>> \in Submissions /\ <<e>> \in Submissions
  BY <1>1, <1>3, <1>4, PairOf DEF Submissions, Decided
<1> QED
  BY <1>5, <1>6 DEF DivergenceChoices

LEMMA BeginsOne ==
  ASSUME NEW h,
         \/ \E batch \in Batches : Approve(h, batch)
         \/ \E card \in Cards, choice \in DivergenceChoices : Diverge(h, card, choice)
         \/ \E c \in Claims : Retract(h, c)
  PROVE  \E submission \in Submissions : Begin(h, submission)
<1>1. ASSUME NEW batch \in Batches, Approve(h, batch)
      PROVE  batch \in Submissions /\ Begin(h, batch)
  BY <1>1, ApprovalAssumption DEF Approve, Submissions, Decided
<1>2. ASSUME NEW card \in Cards, NEW choice \in DivergenceChoices, Diverge(h, card, choice)
      PROVE  DivergenceRequests(card, choice) \in Submissions /\ Begin(h, DivergenceRequests(card, choice))
  BY <1>2, CardSubmission DEF Diverge
<1>3. ASSUME NEW c \in Claims, Retract(h, c)
      PROVE  \E submission \in Submissions : Begin(h, submission)
  <2> DEFINE r == Request(c, "reject", NoRow, NoEdit)
  <2>1. r \in Requests /\ Begin(h, <<r>>)
    BY <1>3, WellFormedRequest DEF Retract
  <2> HIDE DEF r
  <2>2. <<r>> \in Submissions
    BY <2>1, PairOf DEF Submissions, Decided
  <2> QED
    BY <2>1, <2>2
<1> QED
  BY <1>1, <1>2, <1>3

Orders == [commit : {1, 3}, visibility : {1, 3}]

AllEvents == UNION {Asked(r, t, tie) : r \in Requests, t \in Nat, tie \in Orders}

\* What the i-th request of handler h asks for.
AskedBy(h, i) == Asked(requests[h][i], at[h], ids[h])

TypeOK ==
  /\ now \in Nat /\ now >= 1
  /\ pc \in [Handlers -> {"idle", "submit", "done", "dead"}]
  /\ at \in [Handlers -> Nat]
  /\ requests \in [Handlers -> Submissions]
  /\ ids \in [Handlers -> Orders]
  /\ plan \in [Handlers -> Seq(Seq(AllEvents))]

LEMMA TypesOfBegin ==
  ASSUME TypeOK, NEW h \in Handlers, NEW submission \in Submissions, Begin(h, submission)
  PROVE  /\ TypeOK'
         /\ pc[h] = "idle" /\ pc' = [pc EXCEPT ![h] = "submit"] /\ log' = log /\ now' = now + 1
         /\ at' = [at EXCEPT ![h] = now + 1] /\ requests' = [requests EXCEPT ![h] = submission]
         /\ \A i \in DOMAIN submission : submission[i].claim \in KnownClaims(log)
         /\ \E tie \in Orders :
              /\ ids' = [ids EXCEPT ![h] = tie]
              /\ plan' = [plan EXCEPT ![h] = Plan(submission, now + 1, tie)]
<1>1. PICK tie \in Ties(submission) :
        /\ ids' = [ids EXCEPT ![h] = tie]
        /\ plan' = [plan EXCEPT ![h] = Plan(submission, now + 1, tie)]
  BY DEF Begin
<1>2. tie \in Orders
  BY DEF Ties, Orders
<1>3. submission \in Seq(Requests) /\ now + 1 \in Nat
  BY DEF Submissions, TypeOK
<1>4. \A i \in DOMAIN submission : EventsOf(submission[i], now + 1, tie) \in Seq(AllEvents)
  <2> TAKE i \in DOMAIN submission
  <2>1. submission[i] \in Requests
    BY <1>3
  <2>2. submission[i].decision \in {"approve", "reject", "defer"}
    BY <2>1 DEF Requests
  <2>3. Asked(submission[i], now + 1, tie) \subseteq AllEvents
    BY <1>2, <1>3, <2>1 DEF AllEvents
  <2>4. EventsOf(submission[i], now + 1, tie) \in Seq(Asked(submission[i], now + 1, tie))
    BY <2>2, RequestEvents
  <2> QED
    BY <2>3, <2>4
<1>5. Plan(submission, now + 1, tie) \in Seq(Seq(AllEvents))
  BY <1>3, <1>4 DEF Plan
<1>6. TypeOK'
  BY <1>1, <1>2, <1>3, <1>5 DEF TypeOK, Begin
<1> QED
  BY <1>1, <1>2, <1>6 DEF Begin

\* The head of the first request that is not done is appended.
LEMMA AppendEffect ==
  ASSUME TypeOK, NEW h \in Handlers, AppendNext(h)
  PROVE  /\ TypeOK'
         /\ pc[h] = "submit" /\ UNCHANGED <<now, pc, at, requests, ids>>
         /\ \E i \in DOMAIN plan[h] :
              LET s == plan[h][i]
              IN  /\ s \in Seq(AllEvents) /\ s # <<>>
                  /\ log' = log \cup {Head(s)}
                  /\ plan' = [plan EXCEPT ![h] = [plan[h] EXCEPT ![i] = Tail(s)]]
                  /\ DOMAIN plan'[h] = DOMAIN plan[h]
                  /\ plan'[h][i] = Tail(s)
                  /\ \A j \in DOMAIN plan[h] \ {i} : plan'[h][j] = plan[h][j]
<1>1. PICK i \in DOMAIN plan[h] :
        /\ plan[h][i] # <<>>
        /\ log' = log \cup {Head(plan[h][i])}
        /\ plan' = [plan EXCEPT ![h] = [plan[h] EXCEPT ![i] = Tail(plan[h][i])]]
  BY DEF AppendNext
<1>2. plan[h] \in Seq(Seq(AllEvents))
  BY DEF TypeOK
<1>3. plan[h][i] \in Seq(AllEvents) /\ Tail(plan[h][i]) \in Seq(AllEvents)
  BY <1>1, <1>2
<1>4. [plan[h] EXCEPT ![i] = Tail(plan[h][i])] \in Seq(Seq(AllEvents))
  BY <1>2, <1>3
<1>5. plan'[h] = [plan[h] EXCEPT ![i] = Tail(plan[h][i])]
  BY <1>1 DEF TypeOK
<1>6. TypeOK'
  BY <1>1, <1>4 DEF TypeOK, AppendNext
<1>7. /\ DOMAIN plan'[h] = DOMAIN plan[h] /\ plan'[h][i] = Tail(plan[h][i])
      /\ \A j \in DOMAIN plan[h] \ {i} : plan'[h][j] = plan[h][j]
  BY <1>2, <1>5
<1>8. pc[h] = "submit" /\ UNCHANGED <<now, pc, at, requests, ids>>
  BY DEF AppendNext
<1> QED
  BY <1>1, <1>3, <1>6, <1>7, <1>8, Zenon

LEMMA TypeStep == TypeOK /\ [Next]_vars => TypeOK'
<1> SUFFICES ASSUME TypeOK, [Next]_vars PROVE TypeOK'
  OBVIOUS
<1>1. ASSUME NEW h \in Handlers, NEW submission \in Submissions, Begin(h, submission) PROVE TypeOK'
  BY <1>1, TypesOfBegin
<1>2. ASSUME NEW h \in Handlers, AppendNext(h) PROVE TypeOK'
  BY <1>2, AppendEffect
<1>3. ASSUME NEW h \in Handlers, Answer(h) PROVE TypeOK'
  BY <1>3 DEF Answer, TypeOK
<1>4. ASSUME NEW h \in Handlers, Die(h) PROVE TypeOK'
  BY <1>4 DEF Die, TypeOK
<1>5. CASE UNCHANGED vars
  BY <1>5 DEF vars, TypeOK
<1> QED
  BY <1>1, <1>2, <1>3, <1>4, <1>5, BeginsOne DEF Next

-----------------------------------------------------------------------------
(* What the log holds is what was there at the start and what requests     *)
(* that have begun ask for; what those ask for is in the log or planned.   *)

FirstLog ==
  {Event("claim.asserted", 0, 0, c) : c \in Pending \cup Believed}
    \cup {Event("claim.committed", 1, 0, c) : c \in Believed}
    \cup {[type |-> "contradiction.detected", at |-> 1, h |-> 0, row |-> Row(card)] : card \in Cards}

Begun(h) == pc[h] # "idle"

Instants ==
  /\ \A h \in Handlers : Begun(h) => at[h] >= 2 /\ at[h] <= now
  /\ \A h \in Handlers : ~Begun(h) => requests[h] = <<>>
  /\ \A g, h \in Handlers : Begun(g) /\ Begun(h) /\ at[g] = at[h] => g = h

Written ==
  /\ FirstLog \subseteq log
  /\ \A e \in log :
       \/ e \in FirstLog
       \/ \E h \in Handlers : Begun(h) /\ \E i \in DOMAIN requests[h] : e \in AskedBy(h, i)

Progress ==
  \A h \in Handlers :
    pc[h] \in {"submit", "done"} =>
      /\ DOMAIN plan[h] = DOMAIN requests[h]
      /\ \A i \in DOMAIN requests[h] :
           /\ Elements(plan[h][i]) \subseteq AskedBy(h, i)
           /\ AskedBy(h, i) \subseteq log \cup Elements(plan[h][i])
           /\ pc[h] = "done" => plan[h][i] = <<>>

\* A handler decides claims that were asserted before it.
KnownBefore ==
  \A h \in Handlers :
    Begun(h) =>
      \A i \in DOMAIN requests[h] :
        \E a \in log : a.type = "claim.asserted" /\ a.claim = requests[h][i].claim /\ a.at < at[h]

FlowInv == TypeOK /\ Instants /\ Written /\ Progress /\ KnownBefore

LEMMA FlowInit == Init => FlowInv
<1> SUFFICES ASSUME Init PROVE FlowInv
  OBVIOUS
<1>1. <<>> \in Submissions /\ <<>> \in Seq(Seq(AllEvents)) /\ DOMAIN <<>> = {}
  BY DEF Submissions, Decided
<1>2. [commit |-> 3, visibility |-> 3] \in Orders
  BY DEF Orders
<1>3. TypeOK
  BY <1>1, <1>2 DEF Init, TypeOK
<1>4. Instants /\ Progress /\ KnownBefore
  BY DEF Init, Instants, Progress, KnownBefore, Begun
<1>5. Written
  BY DEF Init, Written, FirstLog
<1> QED
  BY <1>3, <1>4, <1>5 DEF FlowInv

LEMMA DecisionsOfRequests ==
  ASSUME NEW r \in Requests
  PROVE  r.decision \in {"approve", "reject", "defer"}
  BY DEF Requests

LEMMA RequestOf ==
  ASSUME TypeOK, NEW h \in Handlers, NEW i \in DOMAIN requests[h]
  PROVE  requests[h][i] \in Requests /\ requests[h][i].decision \in {"approve", "reject", "defer"}
<1>1. requests[h] \in Seq(Requests)
  BY DEF TypeOK, Submissions
<1>2. requests[h][i] \in Requests
  BY <1>1
<1> QED
  BY <1>2, DecisionsOfRequests

LEMMA FieldsOfAsked ==
  ASSUME TypeOK, NEW h \in Handlers, NEW i \in DOMAIN requests[h], NEW e \in AskedBy(h, i)
  PROVE  e.at = at[h] /\ e.claim = Target(requests[h][i])
  BY RequestOf, FieldsOf DEF AskedBy

\* Every event is no later than now.
LEMMA NotLater ==
  ASSUME FlowInv, NEW e \in log
  PROVE  e.at \in Nat /\ e.at <= now
<1>1. CASE e \in FirstLog
  BY <1>1 DEF FirstLog, Event, FlowInv, TypeOK
<1>2. CASE \E h \in Handlers : Begun(h) /\ \E i \in DOMAIN requests[h] : e \in AskedBy(h, i)
  <2>1. PICK h \in Handlers : Begun(h) /\ \E i \in DOMAIN requests[h] : e \in AskedBy(h, i)
    BY <1>2
  <2>2. e.at = at[h]
    BY <2>1, FieldsOfAsked DEF FlowInv
  <2> QED
    BY <2>1, <2>2 DEF FlowInv, TypeOK, Instants
<1> QED
  BY <1>1, <1>2 DEF FlowInv, Written

LEMMA BeginKeepsFlow ==
  ASSUME FlowInv, NEW h \in Handlers, NEW submission \in Submissions, Begin(h, submission)
  PROVE  FlowInv'
<1> TypeOK
  BY DEF FlowInv
<1>1. /\ TypeOK'
      /\ pc[h] = "idle" /\ pc' = [pc EXCEPT ![h] = "submit"] /\ log' = log /\ now' = now + 1
      /\ at' = [at EXCEPT ![h] = now + 1] /\ requests' = [requests EXCEPT ![h] = submission]
      /\ \A i \in DOMAIN submission : submission[i].claim \in KnownClaims(log)
  BY TypesOfBegin
<1>2. PICK tie \in Orders :
        /\ ids' = [ids EXCEPT ![h] = tie]
        /\ plan' = [plan EXCEPT ![h] = Plan(submission, now + 1, tie)]
  BY TypesOfBegin
<1>3. /\ pc'[h] = "submit" /\ at'[h] = now + 1 /\ requests'[h] = submission /\ ids'[h] = tie
      /\ plan'[h] = Plan(submission, now + 1, tie)
      /\ \A g \in Handlers \ {h} :
           /\ pc'[g] = pc[g] /\ at'[g] = at[g] /\ requests'[g] = requests[g]
           /\ ids'[g] = ids[g] /\ plan'[g] = plan[g]
  BY <1>1, <1>2 DEF TypeOK
<1>4. Instants'
  BY <1>1, <1>3 DEF Instants, FlowInv, TypeOK, Begun
<1>5. \A g \in Handlers : Begun(g) => g # h
  BY <1>1 DEF Begun
<1>6. Written'
  <2>1. \A g \in Handlers : Begun(g) =>
          Begun(g)' /\ requests'[g] = requests[g] /\ \A i : AskedBy(g, i)' = AskedBy(g, i)
    BY <1>3, <1>5 DEF Begun, AskedBy
  <2>2. FirstLog' = FirstLog
    BY DEF FirstLog
  <2> QED
    BY <1>1, <2>1, <2>2 DEF FlowInv, Written
<1>7. KnownBefore'
  <2>1. ASSUME NEW i \in DOMAIN submission
        PROVE  \E a \in log : a.type = "claim.asserted" /\ a.claim = submission[i].claim /\ a.at < now + 1
    <3>1. PICK a \in log : a.type = "claim.asserted" /\ a.claim = submission[i].claim
      BY <1>1 DEF KnownClaims, OfType
    <3>2. a.at \in Nat /\ a.at <= now
      BY <3>1, NotLater
    <3>3. now \in Nat
      BY DEF TypeOK
    <3> QED
      BY <3>1, <3>2, <3>3
  <2>2. ASSUME NEW g \in Handlers \ {h}, Begun(g)', NEW i \in DOMAIN requests'[g]
        PROVE  \E a \in log : a.type = "claim.asserted" /\ a.claim = requests'[g][i].claim /\ a.at < at'[g]
    BY <1>3, <2>2 DEF FlowInv, KnownBefore, Begun
  <2> QED
    BY <1>1, <1>3, <2>1, <2>2 DEF KnownBefore
<1>8. Progress'
  <2>1. ASSUME NEW g \in Handlers \ {h}, pc'[g] \in {"submit", "done"}
        PROVE  /\ DOMAIN plan'[g] = DOMAIN requests'[g]
               /\ \A i \in DOMAIN requests'[g] :
                    /\ Elements(plan'[g][i]) \subseteq AskedBy(g, i)'
                    /\ AskedBy(g, i)' \subseteq log' \cup Elements(plan'[g][i])
                    /\ pc'[g] = "done" => plan'[g][i] = <<>>
    <3>1. /\ pc'[g] = pc[g] /\ plan'[g] = plan[g] /\ requests'[g] = requests[g] /\ log' = log
          /\ \A i : AskedBy(g, i)' = AskedBy(g, i)
      BY <1>1, <1>3 DEF AskedBy
    <3> QED
      BY <2>1, <3>1 DEF FlowInv, Progress
  <2>2. ASSUME NEW i \in DOMAIN submission
        PROVE  Elements(plan'[h][i]) = AskedBy(h, i)'
    <3>1. submission[i].decision \in {"approve", "reject", "defer"}
      <4>1. submission[i] \in Requests
        BY DEF Submissions
      <4> QED
        BY <4>1, DecisionsOfRequests
    <3>2. plan'[h][i] = EventsOf(submission[i], now + 1, tie)
      BY <1>3 DEF Plan
    <3>3. AskedBy(h, i)' = Asked(submission[i], now + 1, tie)
      BY <1>3 DEF AskedBy
    <3> QED
      BY <3>1, <3>2, <3>3, RequestEvents
  <2>3. DOMAIN plan'[h] = DOMAIN submission
    BY <1>3 DEF Plan
  <2> QED
    BY <1>3, <2>1, <2>2, <2>3 DEF Progress
<1> QED
  BY <1>1, <1>4, <1>6, <1>7, <1>8 DEF FlowInv

\* Steps that begin nothing and lose nothing of the log keep who asked for it.
LEMMA KeptUnder ==
  ASSUME FlowInv, log \subseteq log', UNCHANGED <<now, at, requests, ids>>,
         \A h \in Handlers : Begun(h) <=> Begun(h)'
  PROVE  /\ Instants' /\ KnownBefore'
         /\ (\A e \in log' : e \in log \/ \E h \in Handlers :
               Begun(h) /\ \E i \in DOMAIN requests[h] : e \in AskedBy(h, i)) => Written'
  BY DEF FlowInv, Instants, KnownBefore, Written, AskedBy, FirstLog

LEMMA AppendKeepsFlow ==
  ASSUME FlowInv, NEW h \in Handlers, AppendNext(h)
  PROVE  FlowInv'
<1> TypeOK
  BY DEF FlowInv
<1>1. TypeOK' /\ pc[h] = "submit" /\ UNCHANGED <<now, pc, at, requests, ids>>
  BY AppendEffect
<1>2. PICK i \in DOMAIN plan[h] :
        /\ plan[h][i] \in Seq(AllEvents) /\ plan[h][i] # <<>>
        /\ log' = log \cup {Head(plan[h][i])}
        /\ plan' = [plan EXCEPT ![h] = [plan[h] EXCEPT ![i] = Tail(plan[h][i])]]
        /\ DOMAIN plan'[h] = DOMAIN plan[h]
        /\ plan'[h][i] = Tail(plan[h][i])
        /\ \A j \in DOMAIN plan[h] \ {i} : plan'[h][j] = plan[h][j]
  BY AppendEffect
<1> DEFINE e == Head(plan[h][i])
<1>3. Elements(plan[h][i]) = {e} \cup Elements(Tail(plan[h][i]))
  BY <1>2, HeadAndTail
<1>4. i \in DOMAIN requests[h] /\ e \in AskedBy(h, i)
  BY <1>1, <1>2, <1>3 DEF FlowInv, Progress
<1>5. Instants' /\ KnownBefore' /\ Written'
  BY <1>1, <1>2, <1>4, KeptUnder DEF Begun
<1>6. \A g \in Handlers : \A j : AskedBy(g, j)' = AskedBy(g, j)
  BY <1>1 DEF AskedBy
<1>7. ASSUME NEW g \in Handlers, pc'[g] \in {"submit", "done"}
      PROVE  /\ DOMAIN plan'[g] = DOMAIN requests'[g]
             /\ \A j \in DOMAIN requests'[g] :
                  /\ Elements(plan'[g][j]) \subseteq AskedBy(g, j)'
                  /\ AskedBy(g, j)' \subseteq log' \cup Elements(plan'[g][j])
                  /\ pc'[g] = "done" => plan'[g][j] = <<>>
  <2>1. /\ DOMAIN plan[g] = DOMAIN requests[g]
        /\ \A j \in DOMAIN requests[g] :
             /\ Elements(plan[g][j]) \subseteq AskedBy(g, j)
             /\ AskedBy(g, j) \subseteq log \cup Elements(plan[g][j])
             /\ pc[g] = "done" => plan[g][j] = <<>>
    BY <1>1, <1>7 DEF FlowInv, Progress
  <2>2. CASE g # h
    <3>1. plan'[g] = plan[g]
      BY <1>2, <2>2 DEF TypeOK
    <3> QED
      BY <1>1, <1>2, <1>6, <2>1, <3>1
  <2>3. CASE g = h
    <3>1. ASSUME NEW j \in DOMAIN requests[g], j = i
          PROVE  /\ Elements(plan'[g][j]) \subseteq AskedBy(g, j)
                 /\ AskedBy(g, j) \subseteq log' \cup Elements(plan'[g][j])
      BY <1>2, <1>3, <2>1, <2>3, <3>1
    <3>2. ASSUME NEW j \in DOMAIN requests[g], j # i
          PROVE  /\ Elements(plan'[g][j]) \subseteq AskedBy(g, j)
                 /\ AskedBy(g, j) \subseteq log' \cup Elements(plan'[g][j])
      BY <1>2, <2>1, <2>3, <3>2
    <3>3. pc'[g] # "done"
      BY <1>1, <2>3
    <3> QED
      BY <1>1, <1>2, <1>6, <2>1, <2>3, <3>1, <3>2, <3>3
  <2> QED
    BY <2>2, <2>3
<1> QED
  BY <1>1, <1>5, <1>7 DEF FlowInv, Progress

LEMMA EndKeepsFlow ==
  ASSUME FlowInv, NEW h \in Handlers, Answer(h) \/ Die(h)
  PROVE  FlowInv'
<1>1. TypeOK'
  BY TypeStep DEF FlowInv, Next
<1>2. /\ pc[h] = "submit" /\ UNCHANGED <<log, now, at, requests, ids>>
      /\ \/ pc' = [pc EXCEPT ![h] = "done"] /\ plan' = plan /\ \A i \in DOMAIN plan[h] : plan[h][i] = <<>>
         \/ pc' = [pc EXCEPT ![h] = "dead"] /\ plan' = [plan EXCEPT ![h] = <<>>]
  BY DEF Answer, Die
<1>3. \A g \in Handlers : Begun(g) <=> Begun(g)'
  BY <1>2 DEF Begun, FlowInv, TypeOK
<1>4. Instants' /\ KnownBefore' /\ Written'
  BY <1>2, <1>3, KeptUnder
<1>5. \A g \in Handlers : \A j : AskedBy(g, j)' = AskedBy(g, j)
  BY <1>2 DEF AskedBy
<1>6. \A g \in Handlers : pc'[g] \in {"submit", "done"} =>
        /\ pc[g] \in {"submit", "done"} /\ plan'[g] = plan[g]
        /\ pc'[g] = "done" => pc[g] = "done" \/ \A i \in DOMAIN plan[g] : plan[g][i] = <<>>
  BY <1>2 DEF FlowInv, TypeOK
<1>7. Progress'
  BY <1>2, <1>5, <1>6 DEF FlowInv, Progress
<1> QED
  BY <1>1, <1>4, <1>7 DEF FlowInv

LEMMA FlowStep == FlowInv /\ [Next]_vars => FlowInv'
<1> SUFFICES ASSUME FlowInv, [Next]_vars PROVE FlowInv'
  OBVIOUS
<1>1. ASSUME NEW h \in Handlers, NEW submission \in Submissions, Begin(h, submission) PROVE FlowInv'
  BY <1>1, BeginKeepsFlow
<1>2. ASSUME NEW h \in Handlers, AppendNext(h) PROVE FlowInv'
  BY <1>2, AppendKeepsFlow
<1>3. ASSUME NEW h \in Handlers, Answer(h) \/ Die(h) PROVE FlowInv'
  BY <1>3, EndKeepsFlow
<1>4. CASE UNCHANGED vars
  BY <1>4 DEF vars, FlowInv, TypeOK, Instants, Written, Progress, KnownBefore, AskedBy, FirstLog, Begun
<1> QED
  BY <1>1, <1>2, <1>3, <1>4, BeginsOne DEF Next

-----------------------------------------------------------------------------
(* The commit comes first.                                                 *)

CommittedIn(S, c, t) == \E f \in S : f.type = "claim.committed" /\ f.claim = c /\ f.at = t

\* Whatever rests on a commit comes after it, or the commit is in the log.
Preceded(S, s) ==
  \A j \in DOMAIN s :
    s[j].type \in Dependent =>
      \/ CommittedIn(S, s[j].claim, s[j].at)
      \/ \E k \in DOMAIN s :
           /\ k < j /\ s[k].type = "claim.committed"
           /\ s[k].claim = s[j].claim /\ s[k].at = s[j].at

CommitPlanned ==
  \A h \in Handlers :
    pc[h] = "submit" => \A i \in DOMAIN plan[h] : Preceded(log, plan[h][i])

LEMMA PrecededStays ==
  ASSUME NEW S, NEW T, S \subseteq T, NEW s, Preceded(S, s)
  PROVE  Preceded(T, s)
<1>1. \A c, t : CommittedIn(S, c, t) => CommittedIn(T, c, t)
  BY DEF CommittedIn
<1> QED
  BY <1>1 DEF Preceded

\* The head rests on nothing that is not in the log, and the tail on nothing
\* that is not in the log with the head.
LEMMA PrecededTail ==
  ASSUME NEW S, NEW U, NEW s \in Seq(U), s # <<>>, Preceded(S, s)
  PROVE  /\ Head(s).type \in Dependent => CommittedIn(S, Head(s).claim, Head(s).at)
         /\ Preceded(S \cup {Head(s)}, Tail(s))
<1> DEFINE u == Tail(s)
           T == S \cup {Head(s)}
<1>1. /\ Head(s) = s[1] /\ 1 \in DOMAIN s
      /\ \A j \in DOMAIN u : j \in Nat /\ j + 1 \in DOMAIN s /\ u[j] = s[j + 1]
      /\ \A j \in DOMAIN s : j \in Nat /\ (j = 1 \/ (j - 1 \in DOMAIN u /\ u[j - 1] = s[j]))
  BY HeadAndTail
<1>2. Head(s).type \in Dependent => CommittedIn(S, Head(s).claim, Head(s).at)
  BY <1>1 DEF Preceded
<1>3. \A c, t : CommittedIn(S, c, t) => CommittedIn(T, c, t)
  BY DEF CommittedIn
<1> HIDE DEF u
<1>4. ASSUME NEW k \in DOMAIN u, u[k].type \in Dependent
      PROVE  \/ CommittedIn(T, u[k].claim, u[k].at)
             \/ \E l \in DOMAIN u : /\ l < k /\ u[l].type = "claim.committed"
                                    /\ u[l].claim = u[k].claim /\ u[l].at = u[k].at
  <2>1. k \in Nat /\ k + 1 \in DOMAIN s /\ u[k] = s[k + 1]
    BY <1>1
  <2>2. CASE CommittedIn(S, s[k + 1].claim, s[k + 1].at)
    BY <1>3, <2>1, <2>2
  <2>3. ASSUME NEW l \in DOMAIN s, l < k + 1, s[l].type = "claim.committed",
               s[l].claim = s[k + 1].claim, s[l].at = s[k + 1].at
        PROVE  \/ CommittedIn(T, u[k].claim, u[k].at)
               \/ \E m \in DOMAIN u : /\ m < k /\ u[m].type = "claim.committed"
                                      /\ u[m].claim = u[k].claim /\ u[m].at = u[k].at
    <3>1. CASE l = 1
      BY <1>1, <2>1, <2>3, <3>1 DEF CommittedIn
    <3>2. CASE l # 1
      <4>1. l \in Nat /\ l - 1 \in DOMAIN u /\ u[l - 1] = s[l]
        BY <1>1, <3>2
      <4>2. l - 1 < k
        BY <2>1, <2>3, <4>1
      <4> QED
        BY <2>1, <2>3, <4>1, <4>2
    <3> QED
      BY <3>1, <3>2
  <2>4. s[k + 1].type \in Dependent
    BY <1>4, <2>1
  <2>5. \/ CommittedIn(S, s[k + 1].claim, s[k + 1].at)
        \/ \E l \in DOMAIN s : /\ l < k + 1 /\ s[l].type = "claim.committed"
                               /\ s[l].claim = s[k + 1].claim /\ s[l].at = s[k + 1].at
    BY <2>1, <2>4 DEF Preceded
  <2> QED
    BY <2>2, <2>3, <2>5
<1>5. Preceded(T, u)
  BY <1>4 DEF Preceded
<1> QED
  BY <1>2, <1>5 DEF u

LEMMA CommitBegin ==
  ASSUME TypeOK, CommitPlanned, NEW h \in Handlers, NEW submission \in Submissions, Begin(h, submission)
  PROVE  CommitPlanned'
<1>1. /\ pc' = [pc EXCEPT ![h] = "submit"] /\ log' = log /\ pc[h] = "idle"
      /\ \E tie \in Orders : plan' = [plan EXCEPT ![h] = Plan(submission, now + 1, tie)]
  BY TypesOfBegin
<1>2. PICK tie \in Orders : plan' = [plan EXCEPT ![h] = Plan(submission, now + 1, tie)]
  BY <1>1
<1>3. plan'[h] = Plan(submission, now + 1, tie) /\ \A g \in Handlers \ {h} : plan'[g] = plan[g] /\ pc'[g] = pc[g]
  BY <1>1, <1>2 DEF TypeOK
<1>4. ASSUME NEW i \in DOMAIN plan'[h], NEW j \in DOMAIN plan'[h][i], plan'[h][i][j].type \in Dependent
      PROVE  \E k \in DOMAIN plan'[h][i] :
               /\ k < j /\ plan'[h][i][k].type = "claim.committed"
               /\ plan'[h][i][k].claim = plan'[h][i][j].claim /\ plan'[h][i][k].at = plan'[h][i][j].at
  <2> DEFINE r == submission[i]
             s == EventsOf(r, now + 1, tie)
  <2>1. plan'[h][i] = s /\ i \in DOMAIN submission
    BY <1>3 DEF Plan
  <2>2. r.decision \in {"approve", "reject", "defer"}
    <3>1. r \in Requests
      BY <2>1 DEF Submissions
    <3> QED
      BY <3>1, DecisionsOfRequests
  <2>3. PICK k \in DOMAIN s : k < j /\ s[k] = CommitOf(r, now + 1, tie)
    BY <1>4, <2>1, <2>2, RequestEvents
  <2>4. s[j] \in Asked(r, now + 1, tie)
    BY <1>4, <2>1, <2>2, RequestEvents DEF Elements
  <2>5. s[j].claim = Target(r) /\ s[j].at = now + 1
    BY <2>2, <2>4, FieldsOf
  <2>6. s[k].type = "claim.committed" /\ s[k].claim = Target(r) /\ s[k].at = now + 1
    BY <2>3, EventFields
  <2> HIDE DEF s, r
  <2> QED
    BY <2>1, <2>3, <2>5, <2>6
<1> QED
  BY <1>1, <1>3, <1>4 DEF CommitPlanned, Preceded

\* The event that is appended rests on no commit, or its commit is there.
LEMMA CommitAppend ==
  ASSUME TypeOK, CommitPlanned, CommitComesFirst, NEW h \in Handlers, AppendNext(h)
  PROVE  CommitPlanned' /\ CommitComesFirst'
<1>1. pc[h] = "submit" /\ UNCHANGED pc
  BY AppendEffect
<1>2. PICK i \in DOMAIN plan[h] :
        /\ plan[h][i] \in Seq(AllEvents) /\ plan[h][i] # <<>>
        /\ log' = log \cup {Head(plan[h][i])}
        /\ plan' = [plan EXCEPT ![h] = [plan[h] EXCEPT ![i] = Tail(plan[h][i])]]
        /\ DOMAIN plan'[h] = DOMAIN plan[h]
        /\ plan'[h][i] = Tail(plan[h][i])
        /\ \A j \in DOMAIN plan[h] \ {i} : plan'[h][j] = plan[h][j]
  BY AppendEffect
<1> DEFINE e == Head(plan[h][i])
<1>3. Preceded(log, plan[h][i])
  BY <1>1, <1>2 DEF CommitPlanned
<1>4. /\ e.type \in Dependent => CommittedIn(log, e.claim, e.at)
      /\ Preceded(log', plan'[h][i])
  BY <1>2, <1>3, PrecededTail
<1>5. CommitComesFirst'
  <2>1. \A c, t : CommittedIn(log, c, t) => CommittedIn(log', c, t)
    BY <1>2 DEF CommittedIn
  <2>2. \A f \in log : f.type \in Dependent => CommittedIn(log, f.claim, f.at)
    BY DEF CommitComesFirst, CommittedIn, OfType, Dependent
  <2>3. \A f \in log' : f.type \in Dependent => CommittedIn(log', f.claim, f.at)
    BY <1>2, <1>4, <2>1, <2>2
  <2> QED
    BY <2>3 DEF CommitComesFirst, CommittedIn, OfType, Dependent
<1>6. ASSUME NEW j \in DOMAIN plan[h], j # i PROVE Preceded(log', plan'[h][j])
  <2>1. Preceded(log, plan[h][j])
    BY <1>1 DEF CommitPlanned
  <2> QED
    BY <1>2, <1>6, <2>1, PrecededStays
<1>7. ASSUME NEW g \in Handlers, g # h, pc[g] = "submit", NEW j \in DOMAIN plan'[g]
      PROVE  Preceded(log', plan'[g][j])
  <2>1. plan'[g] = plan[g]
    BY <1>2, <1>7 DEF TypeOK
  <2>2. Preceded(log, plan[g][j])
    BY <1>7, <2>1 DEF CommitPlanned
  <2> QED
    BY <1>2, <2>1, <2>2, PrecededStays
<1>8. CommitPlanned'
  BY <1>1, <1>2, <1>4, <1>6, <1>7 DEF CommitPlanned
<1> QED
  BY <1>5, <1>8

\* No disagreement is retired and no claim's visibility chosen by a
\* submission that stopped before its commit, whoever else is writing
\* (ApprovalFlow.submit).
THEOREM ApprovalIsTraceable == Spec => []CommitComesFirst
<1>1. Init => TypeOK /\ CommitPlanned /\ CommitComesFirst
  <2>1. Init => CommitPlanned /\ CommitComesFirst
    BY DEF Init, CommitPlanned, CommitComesFirst, OfType, Event
  <2> QED
    BY <2>1, FlowInit DEF FlowInv
<1>2. TypeOK /\ CommitPlanned /\ CommitComesFirst /\ [Next]_vars
        => (TypeOK /\ CommitPlanned /\ CommitComesFirst)'
  <2> SUFFICES ASSUME TypeOK, CommitPlanned, CommitComesFirst, [Next]_vars
               PROVE  CommitPlanned' /\ CommitComesFirst'
    BY TypeStep
  <2>1. ASSUME NEW h \in Handlers, NEW submission \in Submissions, Begin(h, submission)
        PROVE  CommitPlanned' /\ CommitComesFirst'
    BY <2>1, CommitBegin, TypesOfBegin DEF CommitComesFirst
  <2>2. ASSUME NEW h \in Handlers, AppendNext(h) PROVE CommitPlanned' /\ CommitComesFirst'
    BY <2>2, CommitAppend
  <2>3. ASSUME NEW h \in Handlers, Answer(h) PROVE CommitPlanned' /\ CommitComesFirst'
    BY <2>3 DEF Answer, TypeOK, CommitPlanned, CommitComesFirst
  <2>4. ASSUME NEW h \in Handlers, Die(h) PROVE CommitPlanned' /\ CommitComesFirst'
    BY <2>4 DEF Die, TypeOK, CommitPlanned, CommitComesFirst
  <2>5. CASE UNCHANGED vars
    BY <2>5 DEF vars, CommitPlanned, CommitComesFirst
  <2> QED
    BY <2>1, <2>2, <2>3, <2>4, <2>5, BeginsOne DEF Next
<1> QED
  BY <1>1, <1>2, PTL DEF Spec

-----------------------------------------------------------------------------
(* The latest answered request wins.                                       *)

LEMMA DoneIsWritten ==
  ASSUME FlowInv, NEW h \in Handlers, pc[h] = "done", NEW i \in DOMAIN requests[h]
  PROVE  AskedBy(h, i) \subseteq log
<1>1. plan[h][i] = <<>> /\ AskedBy(h, i) \subseteq log \cup Elements(plan[h][i])
  BY DEF FlowInv, Progress
<1>2. Elements(<<>>) = {}
  BY DEF Elements
<1> QED
  BY <1>1, <1>2

\* Nothing about the claim of a latest request comes later than it, and at
\* its instant only what it asked for.
LEMMA LatestAbout ==
  ASSUME FlowInv, NEW h \in Handlers, Begun(h), NEW i \in DOMAIN requests[h],
         \A g \in About(Target(requests[h][i])) : at[g] <= at[h],
         NEW f \in log, f.claim = Target(requests[h][i]),
         f.type \in {"claim.committed", "claim.rejected", "claim.visibility_set"}
  PROVE  f.at < at[h] \/ f \in AskedBy(h, i)
<1> DEFINE c == Target(requests[h][i])
<1>1. CASE f \in FirstLog
  <2>1. f.at <= 1 /\ f.at \in Nat
    BY <1>1 DEF FirstLog, Event
  <2> QED
    BY <2>1 DEF FlowInv, Instants, TypeOK
<1>2. ASSUME NEW g \in Handlers, Begun(g), NEW j \in DOMAIN requests[g], f \in AskedBy(g, j)
      PROVE  f.at < at[h] \/ f \in AskedBy(h, i)
  <2>1. f.at = at[g] /\ f.claim = Target(requests[g][j])
    BY <1>2, FieldsOfAsked DEF FlowInv
  <2>2. at[g] <= at[h] /\ at[g] \in Nat /\ at[h] \in Nat
    BY <1>2, <2>1 DEF About, FlowInv, TypeOK
  <2>3. ASSUME at[g] = at[h] PROVE f \in AskedBy(h, i)
    <3>1. g = h
      BY <1>2, <2>3 DEF FlowInv, Instants
    <3>2. j = i
      <4>1. requests[h] \in Submissions
        BY DEF FlowInv, TypeOK
      <4> QED
        BY <1>2, <2>1, <3>1, <4>1 DEF Submissions, Decided
    <3> QED
      BY <1>2, <3>1, <3>2
  <2> QED
    BY <2>1, <2>2, <2>3
<1> QED
  BY <1>1, <1>2 DEF FlowInv, Written

\* The latest of a set of events is the one all others come before.
LEMMA OneLatest ==
  ASSUME NEW S, NEW d \in S, \A f \in S : f.at \in Nat, \A f \in S : f = d \/ f.at < d.at
  PROVE  IsLatest(d, S) /\ \A e \in S : IsLatest(e, S) => e = d
<1>1. IsLatest(d, S)
  BY DEF IsLatest, Before
<1>2. ASSUME NEW e \in S, IsLatest(e, S), e # d PROVE FALSE
  <2>1. Before(d, e) /\ e.at < d.at
    BY <1>2 DEF IsLatest
  <2> QED
    BY <2>1 DEF Before
<1> QED
  BY <1>1, <1>2

LEMMA LatestDecides ==
  ASSUME FlowInv, NEW h \in Handlers, pc[h] = "done", NEW i \in DOMAIN requests[h],
         requests[h][i].edit = NoEdit,
         \A g \in About(requests[h][i].claim) : at[g] <= at[h]
  PROVE  LET r == requests[h][i]
         IN  /\ r.decision = "reject" => Tier(log, r.claim) = "rejected"
             /\ r.decision = "approve" =>
                  /\ Tier(log, r.claim) = "committed"
                  /\ Visibility(log, r.claim) = IF r.vis = "unset" THEN "private" ELSE r.vis
<1> DEFINE r == requests[h][i]
           c == r.claim
<1>0. /\ TypeOK /\ Begun(h) /\ Target(r) = c /\ AskedBy(h, i) \subseteq log
      /\ r \in Requests /\ r.decision \in {"approve", "reject", "defer"}
  BY DoneIsWritten, RequestOf DEF FlowInv, Begun, Target
<1>1. \A f \in log : f.at \in Nat
  BY NotLater
<1>2. PICK a \in log : a.type = "claim.asserted" /\ a.claim = c /\ a.at < at[h]
  BY <1>0 DEF FlowInv, KnownBefore
<1>3. \A f \in log :
        /\ f.claim = c
        /\ f.type \in {"claim.committed", "claim.rejected", "claim.visibility_set"}
        => f.at < at[h] \/ f \in AskedBy(h, i)
  BY <1>0, LatestAbout
\* An event the request asked for takes effect.
<1>4. ASSUME NEW d \in log, d.claim = c, d.at = at[h], NEW types, d.type \in types
      PROVE  d \in EffectiveOn(log, c, types)
  BY <1>2, <1>4 DEF EffectiveOn, OfType, Before
<1>5. \A types : \A f \in EffectiveOn(log, c, types) : f \in log /\ f.claim = c /\ f.type \in types
  BY DEF EffectiveOn, OfType
<1>6. ASSUME NEW d \in AskedBy(h, i), d.type \in DecisionTypes
      PROVE  \A type : DecidedAs(log, c, type) <=> type = d.type
  <2> DEFINE S == Decisions(log, c)
  <2>1. d \in log /\ d.claim = c /\ d.at = at[h]
    BY <1>0, FieldsOfAsked
  <2>2. d \in S
    BY <1>4, <1>6, <2>1 DEF Decisions
  <2>3. ASSUME NEW f \in S PROVE f = d \/ f.at < d.at
    <3>1. f \in log /\ f.claim = c /\ f.type \in DecisionTypes
      BY <1>5 DEF Decisions
    <3>2. CASE f.at < at[h]
      BY <2>1, <3>2
    <3>3. CASE f \in AskedBy(h, i)
      <4>1. f \in Asked(r, at[h], ids[h]) /\ d \in Asked(r, at[h], ids[h])
        BY <1>6, <3>3 DEF AskedBy
      <4>2. /\ f.type = "claim.committed" => f = CommitOf(r, at[h], ids[h]) /\ r.decision = "approve"
            /\ f.type = "claim.rejected" => f = RejectionOf(r, at[h]) /\ r.decision = "reject"
            /\ d.type = "claim.committed" => d = CommitOf(r, at[h], ids[h]) /\ r.decision = "approve"
            /\ d.type = "claim.rejected" => d = RejectionOf(r, at[h]) /\ r.decision = "reject"
        BY <1>0, <4>1, FieldsOf
      <4> QED
        BY <1>6, <3>1, <4>2 DEF DecisionTypes
    <3> QED
      BY <1>3, <3>1, <3>2, <3>3 DEF DecisionTypes
  <2>4. \A f \in S : f.at \in Nat
    BY <1>1, <1>5 DEF Decisions
  <2>5. IsLatest(d, S) /\ \A e \in S : IsLatest(e, S) => e = d
    BY <2>2, <2>3, <2>4, OneLatest
  <2> QED
    BY <2>2, <2>5 DEF DecidedAs
<1>7. CASE r.decision = "reject"
  <2>1. RejectionOf(r, at[h]) \in AskedBy(h, i)
    BY <1>7 DEF AskedBy, Asked
  <2>2. RejectionOf(r, at[h]).type = "claim.rejected"
    BY DEF RejectionOf, Event
  <2>3. DecidedAs(log, c, "claim.rejected") /\ ~DecidedAs(log, c, "claim.committed")
    BY <1>6, <2>1, <2>2 DEF DecisionTypes
  <2> QED
    BY <1>7, <2>3 DEF Tier
<1>8. CASE r.decision = "approve"
  <2>1. CommitOf(r, at[h], ids[h]) \in AskedBy(h, i) /\ ChoiceOf(r, at[h], ids[h]) \in AskedBy(h, i)
    BY <1>8 DEF AskedBy, Asked
  <2>2. CommitOf(r, at[h], ids[h]).type = "claim.committed"
    BY EventFields
  <2>3. Tier(log, c) = "committed"
    BY <1>6, <2>1, <2>2 DEF DecisionTypes, Tier
  <2> DEFINE d == ChoiceOf(r, at[h], ids[h])
             S == EffectiveOn(log, c, {"claim.visibility_set"})
  <2>4. d.type = "claim.visibility_set" /\ d.vis = IF r.vis = "unset" THEN "private" ELSE r.vis
    BY EventFields
  <2>5. d \in log /\ d.claim = c /\ d.at = at[h]
    BY <1>0, <2>1, FieldsOfAsked
  <2>6. d \in S
    BY <1>4, <2>4, <2>5
  <2>7. ASSUME NEW f \in S PROVE f = d \/ f.at < d.at
    <3>1. f \in log /\ f.claim = c /\ f.type = "claim.visibility_set"
      BY <1>5
    <3>2. CASE f \in AskedBy(h, i)
      BY <1>0, <3>1, <3>2, FieldsOf DEF AskedBy
    <3> QED
      BY <1>3, <2>5, <3>1, <3>2
  <2>8. \A f \in S : f.at \in Nat
    BY <1>1, <1>5
  <2> HIDE DEF d, S
  <2>9. (CHOOSE e \in S : IsLatest(e, S)) = d
    <3>1. IsLatest(d, S) /\ \A e \in S : IsLatest(e, S) => e = d
      BY <2>6, <2>7, <2>8, OneLatest
    <3> QED
      BY <2>6, <3>1
  <2>10. d.vis \in Visibilities
    BY <1>0, <2>4 DEF Requests, Visibilities
  <2>11. Visibility(log, c) = d.vis
    BY <2>6, <2>9, <2>10 DEF Visibility, ParsedVisibility, S
  <2> QED
    BY <1>8, <2>3, <2>4, <2>11
<1> QED
  BY <1>7, <1>8

\* Once a submission has been answered and no later one is about a claim, the
\* claim has the tier and the visibility it asked for, whatever earlier
\* submissions append around it or have left half done.
THEOREM LatestSubmissionWins == Spec => []LaterRequestWins
<1>1. FlowInv => LaterRequestWins
  BY LatestDecides DEF LaterRequestWins
<1> QED
  BY <1>1, FlowInit, FlowStep, PTL DEF Spec

LEMMA CardDecided ==
  ASSUME FlowInv, NEW h \in Handlers, NEW card \in Cards, NEW choice \in {"this_governs", "that_governs"},
         pc[h] = "done", requests[h] = DivergenceRequests(card, choice),
         \A g \in About(card.old) \cup About(card.new) : at[g] <= at[h]
  PROVE  LET sides == {card.old, card.new}
             governs == IF choice = "this_governs" THEN card.new ELSE card.old
         IN  /\ {c \in sides : Tier(log, c) = "committed"} = {governs}
             /\ Row(card) \in Resolved(log) /\ card \notin Offered
<1> DEFINE governs == IF choice = "this_governs" THEN card.new ELSE card.old
           other == IF choice = "this_governs" THEN card.old ELSE card.new
           keep == Request(governs, "approve", Row(card), NoEdit)
           drop == Request(other, "reject", NoRow, NoEdit)
<1>1. card.old # card.new /\ Row(card) # NoRow
  BY ApprovalAssumption
<1>2. /\ keep.edit = NoEdit /\ keep.claim = governs /\ keep.decision = "approve" /\ keep.row = Row(card)
      /\ drop.edit = NoEdit /\ drop.claim = other /\ drop.decision = "reject"
  BY DEF Request
<1>3. requests[h] = <<keep, drop>> \/ requests[h] = <<drop, keep>>
  BY DEF DivergenceRequests
<1> HIDE DEF keep, drop
<1>4. PICK i \in DOMAIN requests[h], j \in DOMAIN requests[h] : requests[h][i] = keep /\ requests[h][j] = drop
  BY <1>3
<1>5. Tier(log, governs) = "committed"
  BY <1>2, <1>4, LatestDecides
<1>6. Tier(log, other) = "rejected"
  BY <1>2, <1>4, LatestDecides
<1>7. Row(card) \in Resolved(log)
  <2> DEFINE e == RetiredBy(keep, at[h])
             d == [type |-> "contradiction.detected", at |-> 1, h |-> 0, row |-> Row(card)]
  <2>1. e \in AskedBy(h, i)
    BY <1>1, <1>2, <1>4 DEF AskedBy, Asked
  <2>2. e \in log /\ e.type = "contradiction.resolved" /\ e.row = Row(card) /\ e.at = at[h]
    BY <1>2, <2>1, DoneIsWritten DEF RetiredBy, ResolvedEvent
  <2>3. d \in log /\ d.type = "contradiction.detected" /\ d.row = Row(card) /\ d.at = 1
    BY DEF FlowInv, Written, FirstLog
  <2>4. at[h] >= 2 /\ at[h] \in Nat
    BY DEF FlowInv, Instants, TypeOK, Begun
  <2>5. Before(d, e)
    BY <2>2, <2>3, <2>4 DEF Before
  <2> HIDE DEF d, e
  <2> QED
    BY <2>2, <2>3, <2>5 DEF Resolved, Rows, OfType
<1> QED
  BY <1>1, <1>5, <1>6, <1>7 DEF Offered

\* The last answered choice of one side of a card commits that side alone,
\* retires the disagreement and takes the card off the page
\* (adjudicate_divergence).
THEOREM LastChoiceGoverns == Spec => []OneSideGoverns
<1>1. FlowInv => OneSideGoverns
  BY CardDecided DEF OneSideGoverns
<1> QED
  BY <1>1, FlowInit, FlowStep, PTL DEF Spec
=============================================================================
