-------------------------------- MODULE Fold --------------------------------
(***************************************************************************)
(* The fold as the code runs it: sort by order_key, then apply one event   *)
(* at a time to a GraphState.  The state machine is the log on its way in: *)
(* events reach a reader in any order, decisions before the claims they    *)
(* name, the same event twice.  Its invariants say that whatever order     *)
(* they arrive in, the replay means what EventFold declares.               *)
(***************************************************************************)
EXTENDS EventFold, FiniteSets, Sequences, SequencesExt

CONSTANTS
  Contents,   \* the events that may occur, without their hash: [type, at, ...]
  Hashes,     \* the order ids of one instant may take: distinct contents, distinct hashes
  MaxEvents   \* bound on the length of the log that is read

EventTypes ==
  DecisionTypes \cup
  {"claim.asserted", "claim.visibility_set", "claim.adjudicated", "contradiction.detected",
   "contradiction.resolved", "entity.alias_linked", "heartbeat",
   "session.opened", "session.turn", "session.closed", "session.proposed"}

ASSUME FoldAssumption ==
  /\ Hashes \subseteq Int /\ MaxEvents \in Nat
  /\ \A content \in Contents :
       /\ {"type", "at"} \subseteq DOMAIN content /\ "h" \notin DOMAIN content
       /\ content.type \in EventTypes /\ content.at \in Int
       /\ content = [f \in DOMAIN content |-> content[f]]

VARIABLE arrived   \* the events in the order read_all returns them

-----------------------------------------------------------------------------
(* fold and _apply.                                                        *)

EmptyState ==
  [claims |-> <<>>, rows |-> <<>>, aliases |-> <<>>,
   adjudicated |-> {}, heartbeats |-> <<>>]

\* Mutant of SetDefault: a second detection, or assertion, overwrites.
OverwriteDefault(f, k, v) == [x \in DOMAIN f \cup {k} |-> IF x = k THEN v ELSE f[x]]

\* dict.setdefault and item assignment.
SetItem(f, k, v)    == [x \in DOMAIN f \cup {k} |-> IF x = k THEN v ELSE f[x]]
SetDefault(f, k, v) == IF k \in DOMAIN f THEN f ELSE SetItem(f, k, v)
SetKnown(f, k, v)   == IF k \in DOMAIN f THEN SetItem(f, k, v) ELSE f

Retier(state, c, tier) ==
  IF c \notin DOMAIN state.claims THEN state
  ELSE [state EXCEPT !.claims[c].tier = tier]

SetVisibility(state, c, raw) ==
  IF c \notin DOMAIN state.claims THEN state
  ELSE [state EXCEPT !.claims[c].visibility = ParsedVisibility(raw)]

Apply(state, e) ==
  CASE e.type = "claim.asserted" ->
         [state EXCEPT !.claims =
            SetDefault(@, e.claim, [tier |-> "pending", visibility |-> "private"])]
    [] e.type = "claim.committed"       -> Retier(state, e.claim, "committed")
    [] e.type = "claim.rejected"        -> Retier(state, e.claim, "rejected")
    [] e.type = "claim.visibility_set"  -> SetVisibility(state, e.claim, e.vis)
    [] e.type = "claim.adjudicated"     -> [state EXCEPT !.adjudicated = @ \cup {e.claim}]
    [] e.type = "contradiction.detected" ->
         [state EXCEPT !.rows = SetDefault(@, e.row, "open")]
    [] e.type = "contradiction.resolved" ->
         [state EXCEPT !.rows = SetKnown(@, e.row, "resolved")]
    [] e.type = "entity.alias_linked" ->
         [state EXCEPT !.aliases = SetItem(@, e.alias, e.canonical)]
    [] e.type = "heartbeat"             -> [state EXCEPT !.heartbeats = Append(@, e.at)]
    [] e.type \in {"session.opened", "session.turn", "session.closed",
                   "session.proposed"}  -> state

\* sorted is stable: what the key does not tell apart stays in its order.
ComesFirst(seq, i, j) ==
  Before(seq[i], seq[j]) \/ (~Before(seq[j], seq[i]) /\ i < j)

Sorted(seq) ==
  [n \in DOMAIN seq |->
     seq[CHOOSE i \in DOMAIN seq :
           Cardinality({j \in DOMAIN seq : ComesFirst(seq, j, i)}) = n - 1]]

\* Mutant of Folded: the events are applied as they are read.
FoldedAsRead(seq) == FoldLeft(Apply, EmptyState, seq)

Folded(seq) == FoldLeft(Apply, EmptyState, Sorted(seq))

InRetrievalPool(state, c) ==
  c \in DOMAIN state.claims /\ state.claims[c].tier # "rejected"

OpenContradictions(state) ==
  {k \in DOMAIN state.rows :
     state.rows[k] = "open" /\ \A c \in k.sides : InRetrievalPool(state, c)}

-----------------------------------------------------------------------------
(* Events arriving.                                                        *)

Content(e) == [f \in DOMAIN e \ {"h"} |-> e[f]]

Hashed(content, h) == [f \in DOMAIN content \cup {"h"} |-> IF f = "h" THEN h ELSE content[f]]

FoldInit == arrived = <<>>

\* Two events of one instant have the same id exactly when they have the
\* same content, so the hash h is drawn once per content and then kept.
Arrive(content, h) ==
  /\ Len(arrived) < MaxEvents
  /\ \A i \in DOMAIN arrived :
       arrived[i].at = content.at => (arrived[i].h = h <=> Content(arrived[i]) = content)
  /\ arrived' = Append(arrived, Hashed(content, h))

FoldNext == \E content \in Contents, h \in Hashes : Arrive(content, h)

FoldSpec == FoldInit /\ [][FoldNext]_arrived

-----------------------------------------------------------------------------
(* Properties.                                                             *)

Arrived == ToSet(arrived)

\* The replay gives the graph that the log as a set defines, whatever order
\* the events arrive in and however often: every claim the tier of the last
\* decision that follows one of its assertions in (instant, id) order, and
\* the visibility of the last such choice (a decision that sorts before every
\* assertion is dropped, graph._retier); a row is resolved exactly when a
\* resolution sorts after a detection of it; the last link of an alias wins;
\* and each night that ran is there.
FoldAgrees ==
  LET state == Folded(arrived)
  IN  /\ DOMAIN state.claims = KnownClaims(Arrived)
      /\ \A c \in KnownClaims(Arrived) :
           state.claims[c] = [tier |-> Tier(Arrived, c), visibility |-> Visibility(Arrived, c)]
      /\ DOMAIN state.rows = Rows(Arrived)
      /\ {k \in DOMAIN state.rows : state.rows[k] = "resolved"} = Resolved(Arrived)
      /\ OpenContradictions(state) = OpenRows(Arrived)
      /\ state.aliases = Aliases(Arrived)
      /\ state.adjudicated = Adjudicated(Arrived)
      /\ ToSet(state.heartbeats) = {e.at : e \in Heartbeats(Arrived)}

\* Once a claim is decided, only a decision on the same claim that sorts
\* after every one that counted changes its tier: a late, backdated event
\* (an old document ingested tonight, a retried append) overturns nothing.
OnlyALaterDecisionOverturns ==
  [][\A c \in KnownClaims(Arrived) :
       Tier(Arrived, c) # "pending" /\ Folded(arrived').claims[c].tier # Tier(Arrived, c)
         => LET e == Last(arrived')
            IN  e.type \in DecisionTypes /\ e.claim = c /\ IsLatest(e, Decisions(Arrived', c))
    ]_arrived

\* A resolved row stays resolved, whatever arrives later: a detection found
\* again, by another run or from another side, never reopens it.
ResolvedNeverReopens ==
  [][\A k \in Rows(Arrived) :
       Folded(arrived).rows[k] = "resolved" => Folded(arrived').rows[k] = "resolved"
    ]_arrived
=============================================================================
