------------------------------- MODULE Approval -------------------------------
(***************************************************************************)
(* The approval flow (interview/approval.py) behind its three endpoints:   *)
(* a batch of approvals and a divergence card in the interview service, a  *)
(* retraction in the dossier.  Handlers run in threads of several          *)
(* instances: each reads the log afresh, stamps its whole submission with  *)
(* one instant, and appends its events one by one, so that submissions     *)
(* interleave and any of them may stop half way.                           *)
(***************************************************************************)
EXTENDS EventFold, Sequences

CONSTANTS
  Handlers,    \* requests to the three endpoints
  Batches,     \* the approval batches people may post: sequences of Requests
  Pending,     \* claims asserted and not decided
  Believed,    \* claims committed
  Cards,       \* divergence cards: [old, new, row, fix]
  Corrections, \* claims that only an edited text asserts
  NoEdit, NoRow

Claims == Pending \cup Believed \cup Corrections

Row(card) == [subject |-> card.row, sides |-> {card.old, card.new}]

\* vis is "unset" when the approver declines to choose.  edit is the claim
\* that the edited text makes, NoEdit if there is none or it changes nothing.
Requests ==
  [claim : Claims, decision : {"approve", "reject", "defer"},
   vis : Visibilities \cup {"unset"}, row : {Row(card) : card \in Cards} \cup {NoRow},
   edit : Corrections \cup {NoEdit}]

\* The claim a request decides.
Target(r) == IF r.decision = "approve" /\ r.edit # NoEdit THEN r.edit ELSE r.claim

\* A batch decides a claim once.
ASSUME ApprovalAssumption ==
  /\ Batches \subseteq Seq(Requests)
  /\ \A b \in Batches : \A i, j \in DOMAIN b : Target(b[i]) = Target(b[j]) => i = j
  /\ \A card \in Cards : card.old \in Believed /\ card.new \in Pending /\ card.fix \in Corrections
  /\ Pending \cap Believed = {} /\ (Pending \cup Believed) \cap Corrections = {}
  /\ NoEdit \notin Corrections
  /\ \A card \in Cards : Row(card) # NoRow

VARIABLES
  log,       \* the events
  now,       \* the clock
  pc,        \* where each handler is: "idle", "submit", "done", "dead"
  at,        \* the instant its events carry
  requests,  \* what each submits: a sequence of Requests
  ids,       \* how the ids of its events are ordered
  plan       \* the events it has still to append, request by request

vars == <<log, now, pc, at, requests, ids, plan>>

-----------------------------------------------------------------------------
(* ApprovalFlow.submit: the events of one request, in order.               *)

Event(type, t, h, c) == [type |-> type, at |-> t, h |-> h, claim |-> c]

VisibilityEvent(t, h, c, vis) ==
  [type |-> "claim.visibility_set", at |-> t, h |-> h, claim |-> c, vis |-> vis]

ResolvedEvent(t, c, row) ==
  [type |-> "contradiction.resolved", at |-> t, h |-> 4, claim |-> c, row |-> row]

\* All events of a submission carry one instant, so the fold orders them by
\* their ids, content hashes that come out in any order: a tie gives the ids
\* of the commit and of the visibility choice, and 2 is the correction's.
\* Without a correction the order of a submission's ids changes nothing.
Ties(submission) ==
  LET edited == \E i \in DOMAIN submission : submission[i].edit # NoEdit
      order  == IF edited THEN {1, 3} ELSE {3}
  IN  [commit : order, visibility : order]

\* Mutant of EventsOf: a request without a visibility leaves it as it is.
EventsOfChoice(r, t, tie) ==
  CASE r.decision = "defer"   -> <<>>
    [] r.decision = "reject"  -> <<Event("claim.rejected", t, 2, r.claim)>>
    [] r.decision = "approve" ->
         <<Event("claim.committed", t, 1, Target(r))>>
         \o (IF r.vis = "unset" THEN <<>>
             ELSE <<VisibilityEvent(t, 1, Target(r), r.vis)>>)

\* Mutant of EventsOf: the disagreement is closed before its answer is kept.
EventsOfRowFirst(r, t, tie) ==
  (IF r.decision # "approve" \/ r.row = NoRow THEN <<>>
   ELSE <<ResolvedEvent(t, Target(r), r.row)>>)
  \o EventsOfChoice(r, t, tie)

EventsOf(r, t, tie) ==
  LET c == Target(r)
  IN  CASE r.decision = "defer"   -> <<>>
        [] r.decision = "reject"  -> <<Event("claim.rejected", t, 2, c)>>
        [] r.decision = "approve" ->
             (IF r.edit = NoEdit THEN <<>> ELSE <<Event("claim.asserted", t, 2, c)>>)
             \o <<Event("claim.committed", t, tie.commit, c),
                  VisibilityEvent(t, tie.visibility, c, IF r.vis = "unset" THEN "private" ELSE r.vis)>>
             \o (IF r.row = NoRow THEN <<>> ELSE <<ResolvedEvent(t, c, r.row)>>)

Plan(submission, t, tie) == [i \in DOMAIN submission |-> EventsOf(submission[i], t, tie)]

-----------------------------------------------------------------------------
(* adjudicate_divergence: what each button of the card submits.            *)

Request(c, decision, row, edit) ==
  [claim |-> c, decision |-> decision, vis |-> "unset", row |-> row, edit |-> edit]

DivergenceChoices == {"this_governs", "that_governs", "both_conditional"}

\* Mutant of DivergenceRequests: the record is reaffirmed, and the statement
\* against it stays.
DivergenceRequestsKeepNew(card, choice) ==
  CASE choice = "this_governs" ->
         <<Request(card.new, "approve", Row(card), NoEdit),
           Request(card.old, "reject", NoRow, NoEdit)>>
    [] choice = "that_governs" -> <<Request(card.old, "approve", Row(card), NoEdit)>>
    [] choice = "both_conditional" ->
         <<Request(card.new, "approve", Row(card), card.fix)>>

DivergenceRequests(card, choice) ==
  CASE choice = "this_governs" ->
         <<Request(card.new, "approve", Row(card), NoEdit),
           Request(card.old, "reject", NoRow, NoEdit)>>
    [] choice = "that_governs" ->
         <<Request(card.new, "reject", NoRow, NoEdit),
           Request(card.old, "approve", Row(card), NoEdit)>>
    [] choice = "both_conditional" ->
         <<Request(card.new, "approve", Row(card), card.fix)>>

\* _open_divergence: the cards a page offers are told by their new side.
Offered == {card \in Cards : card.new \in KnownClaims(log) /\ Tier(log, card.new) = "pending"}

-----------------------------------------------------------------------------
(* A handler starts: it folds the log and refuses a claim it does not      *)
(* hold, takes the instant, and submits.  Instants of two submissions      *)
(* differ: a tie between two people within one millisecond is left out.    *)

Begin(h, submission) ==
  /\ pc[h] = "idle"
  /\ \A i \in DOMAIN submission : submission[i].claim \in KnownClaims(log)
  /\ now' = now + 1
  /\ at' = [at EXCEPT ![h] = now + 1]
  /\ requests' = [requests EXCEPT ![h] = submission]
  /\ \E tie \in Ties(submission) :
       /\ ids' = [ids EXCEPT ![h] = tie]
       /\ plan' = [plan EXCEPT ![h] = Plan(submission, now + 1, tie)]
  /\ pc' = [pc EXCEPT ![h] = "submit"]
  /\ UNCHANGED log

Approve(h, batch) == Begin(h, batch)

\* The handler wants both sides of the card in the log; "both_conditional"
\* without a wording is refused before anything happens.
Diverge(h, card, choice) ==
  /\ card.old \in KnownClaims(log)
  /\ card.new \in KnownClaims(log)
  /\ Begin(h, DivergenceRequests(card, choice))

\* What the public sees: what is committed, at the public tier.
Published(c) ==
  c \in KnownClaims(log) /\ Tier(log, c) = "committed" /\ Visibility(log, c) = "public"

\* dossier_reject: only a claim this surface shows can be retracted from it.
Retract(h, c) ==
  /\ Published(c)
  /\ Begin(h, <<Request(c, "reject", NoRow, NoEdit)>>)

AppendNext(h) ==
  /\ pc[h] = "submit"
  /\ \E i \in DOMAIN plan[h] :
       /\ plan[h][i] # <<>>
       /\ \A j \in DOMAIN plan[h] : j < i => plan[h][j] = <<>>
       /\ log' = log \cup {Head(plan[h][i])}
       /\ plan' = [plan EXCEPT ![h][i] = Tail(@)]
  /\ UNCHANGED <<now, pc, at, requests, ids>>

Answer(h) ==
  /\ pc[h] = "submit"
  /\ \A i \in DOMAIN plan[h] : plan[h][i] = <<>>
  /\ pc' = [pc EXCEPT ![h] = "done"]
  /\ UNCHANGED <<log, now, at, requests, ids, plan>>

\* Killed, or an append raised: the rest of the submission is never made.
Die(h) ==
  /\ pc[h] = "submit"
  /\ pc' = [pc EXCEPT ![h] = "dead"]
  /\ plan' = [plan EXCEPT ![h] = <<>>]
  /\ UNCHANGED <<log, now, at, requests, ids>>

-----------------------------------------------------------------------------
Init ==
  /\ log = {Event("claim.asserted", 0, 0, c) : c \in Pending \cup Believed}
             \cup {Event("claim.committed", 1, 0, c) : c \in Believed}
             \cup {[type |-> "contradiction.detected", at |-> 1, h |-> 0, row |-> Row(card)] :
                     card \in Cards}
  /\ now = 1
  /\ pc = [h \in Handlers |-> "idle"]
  /\ at = [h \in Handlers |-> 0]
  /\ requests = [h \in Handlers |-> <<>>]
  /\ ids = [h \in Handlers |-> [commit |-> 3, visibility |-> 3]]
  /\ plan = [h \in Handlers |-> <<>>]

Next ==
  \E h \in Handlers :
    \/ \E batch \in Batches : Approve(h, batch)
    \/ \E card \in Cards, choice \in DivergenceChoices : Diverge(h, card, choice)
    \/ \E c \in Claims : Retract(h, c)
    \/ AppendNext(h)
    \/ Answer(h)
    \/ Die(h)

Spec == Init /\ [][Next]_vars

-----------------------------------------------------------------------------
(* Properties.                                                             *)

\* The submissions about claim c.
About(c) == {h \in Handlers : \E i \in DOMAIN requests[h] : Target(requests[h][i]) = c}

\* The decision people see is the latest one, and it is wholly theirs: once
\* a submission has been answered and no later one is about the claim, the
\* claim has the tier and the visibility it asked for, however its appends
\* interleaved with those of earlier submissions, answered, pending or dead.
LaterRequestWins ==
  \A h \in Handlers :
    pc[h] = "done" =>
      \A i \in DOMAIN requests[h] :
        LET r == requests[h][i]
        IN  r.edit = NoEdit /\ (\A g \in About(r.claim) : at[g] <= at[h]) =>
              /\ r.decision = "reject" => Tier(log, r.claim) = "rejected"
              /\ r.decision = "approve" =>
                   /\ Tier(log, r.claim) = "committed"
                   /\ Visibility(log, r.claim) = IF r.vis = "unset" THEN "private" ELSE r.vis

\* No disagreement is retired, and nobody's reading right changed, by an
\* approval that stopped before its commit: whoever asks who approved it
\* finds the commit in the log.
CommitComesFirst ==
  \A e \in OfType(log, {"contradiction.resolved", "claim.visibility_set"}) :
    \E f \in OfType(log, {"claim.committed"}) : f.claim = e.claim /\ f.at = e.at

\* The last answered choice of one side decides both: that side alone is
\* committed, the disagreement is retired and the card off the page,
\* whatever earlier choices and batches about the two sides append around it or
\* left half done (adjudicate_divergence).
OneSideGoverns ==
  \A h \in Handlers, card \in Cards, choice \in {"this_governs", "that_governs"} :
    LET sides == {card.old, card.new}
        governs == IF choice = "this_governs" THEN card.new ELSE card.old
    IN  /\ pc[h] = "done" /\ requests[h] = DivergenceRequests(card, choice)
        /\ \A g \in About(card.old) \cup About(card.new) : at[g] <= at[h]
        => /\ {c \in sides : Tier(log, c) = "committed"} = {governs}
           /\ Row(card) \in Resolved(log) /\ card \notin Offered

-----------------------------------------------------------------------------
(* What the repository says of the flow, and the flow does not do.         *)

\* A correction that its approver approved and the flow answered for is
\* committed: what result.committed names has reached "committed".
CorrectionCommitted ==
  \A h \in Handlers :
    pc[h] = "done" =>
      \A i \in DOMAIN requests[h] :
        LET r == requests[h][i] IN
        r.decision = "approve" /\ r.edit # NoEdit /\ (\A g \in About(r.edit) : g = h) =>
          Tier(log, r.edit) = "committed"
=============================================================================
